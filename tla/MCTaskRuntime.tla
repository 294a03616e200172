--------------------------- MODULE MCTaskRuntime ---------------------------
(* One task with two inputs and two turns, on one or two servers.          *)
EXTENDS TaskRuntime, TLC

MCInput == 1..2
MCOneInput == {1}
MCRequest == Turn \X (1..MaxRounds)
MCNone == {}

(* Turn ids are random: the code compares them for equality only.          *)
MCSymmetry == Permutations(Turn)

(***************************************************************************)
(* TLC need not tell apart states that differ in what nothing will read:   *)
(* the receipt of an input that is final (or whose request failed), its    *)
(* mention in old manifests, the memory of a call that returned (but for   *)
(* the input it completed, which StartedOnce and the dispatcher look at),  *)
(* how the turns table says such a call ended, and who held a closed inbox.*)
(***************************************************************************)
Over(t) == run[t].pc \in {"done", "lost"}

Final(i) ==
  \/ input[i].state \in {"resolved", "rejected", "cancelled"}
  \/ input[i].state = "included" /\ input[i].err

FinalInputs == {i \in Input : Final(i)}

ViewInput == [i \in Input |-> IF Final(i) THEN [Unsent EXCEPT !.state = "resolved"] ELSE input[i]]

ViewReq ==
  [r \in Request |->
     IF req[r].state # "included" /\ req[r].ids \subseteq FinalInputs
     THEN NoRequest ELSE [req[r] EXCEPT !.ids = @ \ FinalInputs]]

ViewRun ==
  [t \in Turn |->
     IF ~Over(t) THEN run[t]
     ELSE IF run[t].seed = NoSeed \/ run[t].out # "completed" THEN [IdleRun EXCEPT !.pc = run[t].pc]
     ELSE [IdleRun EXCEPT !.pc = run[t].pc, !.out = "completed", !.seed = run[t].seed]]

ViewStatus ==
  [t \in Turn |-> IF Over(t) /\ tstatus[t] \in Outcome THEN "completed" ELSE tstatus[t]]

ViewRow ==
  IF row.lease = "none" /\ row.turn # NoTurn /\ Over(row.turn)
  THEN [NoRow EXCEPT !.paused = row.paused] ELSE row

MCView == <<ViewInput, ViewReq, ViewRun, ViewStatus, ViewRow, server, active, aborted, disp, notes>>
=============================================================================
