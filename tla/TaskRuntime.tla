---------------------------- MODULE TaskRuntime ----------------------------
(***************************************************************************)
(* The server side of one task (a session): the turn runner, the provider  *)
(* round loop of a hosted turn, the follow-up dispatcher and the recovery  *)
(* of a restarted server, over the transactions of TaskInboxStore.         *)
(*                                                                         *)
(* An action is what one of these processes does between two awaits: it    *)
(* reads its own memory, issues at most one transaction and moves on.      *)
(* Everything the user, a peer task or another process does may come       *)
(* between two actions.                                                    *)
(*                                                                         *)
(* The task is an open chat of the user.  The session of a child, whose    *)
(* dispatcher also returns while its run is missing, queued, running or    *)
(* cancelled, is the business of ChildRuns; closed and archived chats are  *)
(* left out.                                                               *)
(*                                                                         *)
(* A request id is <<turn, round>> (`${turnId}:model:${index}`) and an     *)
(* owner id is the number of the server start that drew it.                *)
(***************************************************************************)
EXTENDS TaskInboxStore

CONSTANTS MaxRounds,  \* maxHostedWorkspaceToolRounds
          NoSeed,     \* a turn the user sent directly, without a queued input
          Paths,      \* how a turn may run: "hosted", "direct"
          UserKinds,  \* the kinds of input that arrive
          Events      \* what may befall it: "stop", "crash", "lease", "setup"

ASSUME RoundAssumption  == MaxRounds \in Nat \ {0}
ASSUME RequestAssumption == Request = Turn \X (1..MaxRounds)
ASSUME OwnerAssumption  == Owner \subseteq Nat /\ 1 \in Owner
ASSUME SeedAssumption   == NoSeed \notin Input
ASSUME PathsAssumption  == Paths \subseteq {"hosted", "direct"} /\ Paths # {}
ASSUME KindAssumption   == UserKinds \subseteq Kind
ASSUME EventAssumption  == Events \subseteq {"stop", "crash", "lease", "setup"}

VARIABLES server,   \* this server start: its phase, owner id, turn to interrupt
          run,      \* each sendTurn call
          active,   \* activeTurns: the registered turn of the session
          aborted,  \* turns whose controller is aborted
          disp,     \* dispatching and reschedule
          notes     \* notifications between a commit and their effect

runtimeVars == <<server, run, active, aborted, disp, notes>>
vars == <<storeVars, runtimeVars>>

-----------------------------------------------------------------------------
Alive == {"starting", "opened", "checked", "inserted", "round", "begun", "calling", "judging",
          "acting", "finishing", "throwing", "interrupting", "faulting", "ended", "closing",
          "closed", "threw", "refused"}

Pc == {"idle", "done", "lost"} \cup Alive

RuntimeTypeOK ==
  /\ server \in [phase : {"down", "recovering", "restoring", "ready"}, id : Owner,
                 orphan : Turn \cup {NoTurn}]
  /\ run \in [Turn -> [pc : Pc, seed : Input \cup {NoSeed}, round : 0..MaxRounds, out : Outcome,
                       threw : BOOLEAN, replaced : BOOLEAN]]
  /\ active \in Turn \cup {NoTurn}
  /\ aborted \subseteq Turn
  /\ disp \in [pc : {"idle", "looking", "reserving", "running"}, turn : Turn \cup {NoTurn}, again : BOOLEAN]
  /\ notes \subseteq (Input \X {"abort", "schedule"})

IdleRun == [pc |-> "idle", seed |-> NoSeed, round |-> 0, out |-> "failed",
            threw |-> FALSE, replaced |-> FALSE]

NoDispatch == [pc |-> "idle", turn |-> NoTurn, again |-> FALSE]

RuntimeInit ==
  /\ StoreInit
  /\ server = [phase |-> "ready", id |-> 1, orphan |-> NoTurn]
  /\ run = [t \in Turn |-> IdleRun]
  /\ active = NoTurn
  /\ aborted = {}
  /\ disp = NoDispatch
  /\ notes = {}

-----------------------------------------------------------------------------
me == server.id
Up == server.phase # "down"   \* the HTTP server listens before it recovers

At(t, pc) == run[t].pc = pc
Go(t, pc) == run' = [run EXCEPT ![t].pc = pc]

Fresh(t) == At(t, "idle")     \* randomUUID: every turn id is used once
PeerKind == {"message", "followup"}   \* what a peer task sends
InProgress == {t \in Turn : tstatus[t] = "in_progress"}
RequestId(t) == <<t, run[t].round>>

(* The requests map: the session's provider request can be aborted from    *)
(* beginRequest until its finish, in the finally of the round.             *)
Requesting(t) == run[t].pc \in {"begun", "calling", "judging"}

(* request.replaced(): aborted by a correction and not by a Stop.          *)
Replaced(t) == run[t].replaced /\ t \notin aborted

AlwaysIdle == TRUE  \* mutant: the lease is trusted to keep others out

ChatIsIdle == InProgress = {}

MayBeginOneMore(t) == t \notin aborted /\ run[t].round <= MaxRounds  \* mutant: off by one

MayBegin(t) == t \notin aborted /\ run[t].round < MaxRounds

InterruptNothing(t) == UNCHANGED storeVars  \* mutant

InterruptAnyway(t) ==  \* mutant: does not look at the status first
  /\ tstatus' = [tstatus EXCEPT ![t] = "interrupted"]
  /\ UNCHANGED <<input, row, req>>

(* interruptActiveTurn: activeInProgressTurn, then interruptTurn.          *)
InterruptIfRunning(t) == IF t \in InProgress THEN InterruptTurn(t) ELSE UNCHANGED storeVars

(* schedule: the dispatcher d after one more call.                         *)
Schedule(d) ==
  CASE d.pc # "idle"    -> [d EXCEPT !.again = TRUE]
    [] active # NoTurn  -> d
    [] OTHER            -> [d EXCEPT !.pc = "looking"]

NoWake(t) == disp  \* mutant: a completed turn does not look at the queue

WakeAfter(t) == IF run[t].out = "completed" THEN Schedule(disp) ELSE disp

(* The finally of schedule: a call that came meanwhile counts now.         *)
EndDispatch == IF disp.again THEN Schedule(NoDispatch) ELSE NoDispatch

-----------------------------------------------------------------------------
(* The user and peer tasks.  What a committed input has still to cause is  *)
(* left in notes: admit and mutate notify after their transaction.         *)

Note(i) ==
  IF input'[i].kind = "steer" THEN notes \cup {<<i, "abort">>}
  ELSE IF input'[i].kind \in Starter THEN notes \cup {<<i, "schedule">>}
  ELSE notes

UserAdmits(i, kind, expected) ==
  /\ Up
  /\ AdmitTaskInput(i, kind, expected)
  /\ notes' = Note(i)
  /\ UNCHANGED <<server, run, active, aborted, disp>>

UserResumes(i) ==
  /\ Up
  /\ ResumeQueue(i)
  /\ notes' = Note(i)
  /\ UNCHANGED <<server, run, active, aborted, disp>>

UserCancels(i) ==
  /\ Up
  /\ CancelInput(i)
  /\ UNCHANGED runtimeVars

UserPromotes(i, t) ==
  /\ Up
  /\ PromoteToSteer(i, t)
  /\ notes' = Note(i)
  /\ UNCHANGED <<server, run, active, aborted, disp>>

(* notify, first part: a correction replaces the provider request that is  *)
(* out, whichever turn of the session made it.                             *)
NotifyAbort(i) ==
  /\ <<i, "abort">> \in notes
  /\ notes' = notes \ {<<i, "abort">>}
  /\ run' = [t \in Turn |-> [run[t] EXCEPT !.replaced = @ \/ Requesting(t)]]
  /\ UNCHANGED <<storeVars, server, active, aborted, disp>>

(* notify, last part, after the receipt event is written.                  *)
NotifySchedule(i) ==
  /\ <<i, "schedule">> \in notes
  /\ notes' = notes \ {<<i, "schedule">>}
  /\ disp' = Schedule(disp)
  /\ UNCHANGED <<storeVars, server, run, active, aborted>>

(* interruptSessionTurn: the registered turn, or else the one the store    *)
(* has in progress.  The abort and the write of the status are one step:   *)
(* the write is queued before anything the aborted turn goes on to write.  *)
UserStops(t) ==
  /\ "stop" \in Events
  /\ Up
  /\ IF active # NoTurn THEN t = active ELSE t \in InProgress
  /\ aborted' = IF active # NoTurn THEN aborted \cup {t} ELSE aborted
  /\ InterruptIfRunning(t)
  /\ UNCHANGED <<server, run, active, disp, notes>>

(* POST of a new turn: sendTurn opens the inbox or fails at once.          *)
UserSends(t) ==
  /\ Up
  /\ Fresh(t)
  /\ OpenTaskInboxTurn(t, me)
  /\ Go(t, "opened")
  /\ UNCHANGED <<server, active, aborted, disp, notes>>

-----------------------------------------------------------------------------
(* The dispatcher: the loop inside schedule, for a chat that is open.      *)

DispatchLooks ==
  /\ disp.pc = "looking"
  /\ disp' = IF active # NoTurn THEN EndDispatch ELSE [disp EXCEPT !.pc = "reserving"]
  /\ UNCHANGED <<storeVars, server, run, active, aborted, notes>>

(* getSession was awaited: a turn may have been registered meanwhile.      *)
DispatchReserves ==
  /\ disp.pc = "reserving"
  /\ \/ /\ ~MayReserve
        /\ disp' = EndDispatch
        /\ UNCHANGED <<storeVars, run>>
     \/ /\ RejectRevokedFollowup
        /\ disp' = [disp EXCEPT !.pc = "looking"]
        /\ UNCHANGED run
     \/ \E t \in Turn :
          /\ Fresh(t)
          /\ ReserveFollowup(t, me)
          /\ run' = [run EXCEPT ![t].pc = "starting", ![t].seed = Oldest(Startable)]
          /\ disp' = [disp EXCEPT !.pc = "running", !.turn = t]
  /\ UNCHANGED <<server, active, aborted, notes>>

(* startFollowup calls sendTurn with the reserved turn id.                 *)
DispatchStarts(t) ==
  /\ At(t, "starting")
  /\ OpenTaskInboxTurn(t, me)
  /\ Go(t, "opened")
  /\ UNCHANGED <<server, active, aborted, disp, notes>>

(* It throws when another turn took the row over, or when a peer sender is *)
(* no longer authorized.                                                   *)
DispatchRefused(t) ==
  /\ At(t, "starting")
  /\ (Leased /\ ~OwnsRow(t, me)) \/ input[run[t].seed].kind \in PeerKind
  /\ Go(t, "threw")
  /\ UNCHANGED <<storeVars, server, active, aborted, disp, notes>>

(* The turn the dispatcher waits for returned.                             *)
DispatchContinues(t) ==
  /\ disp.pc = "running" /\ disp.turn = t
  /\ At(t, "done")
  /\ disp' = IF run[t].out = "completed" THEN [disp EXCEPT !.pc = "looking", !.turn = NoTurn]
             ELSE EndDispatch
  /\ UNCHANGED <<storeVars, server, run, active, aborted, notes>>

(* Or it threw: close the inbox, then reject the input that started it.    *)
DispatchCloses(t) ==
  /\ disp.pc = "running" /\ disp.turn = t
  /\ At(t, "threw")
  /\ \/ \E refused \in SUBSET Revocable : CloseTaskInboxTurn(t, me, "failed", refused)
     \/ ~OwnsRow(t, me) /\ UNCHANGED storeVars
  /\ Go(t, "refused")
  /\ UNCHANGED <<server, active, aborted, disp, notes>>

DispatchRejects(t) ==
  /\ At(t, "refused")
  /\ IF run[t].seed \in Pending THEN RejectTaskInput(run[t].seed) ELSE UNCHANGED storeVars
  /\ Go(t, "done")
  /\ disp' = EndDispatch
  /\ UNCHANGED <<server, active, aborted, notes>>

-----------------------------------------------------------------------------
(* sendTurn and executeTurn.                                               *)

Throws(t) == run' = [run EXCEPT ![t].pc = "closing", ![t].out = "failed", ![t].threw = TRUE]

(* "A turn is already running for this chat."                              *)
CheckIdle(t) ==
  /\ At(t, "opened")
  /\ IF ChatIsIdle THEN Go(t, "checked") ELSE Throws(t)
  /\ UNCHANGED <<storeVars, server, active, aborted, disp, notes>>

PrepareFails(t) ==
  /\ At(t, "checked")
  /\ Throws(t)
  /\ UNCHANGED <<storeVars, server, active, aborted, disp, notes>>

InsertStoredTurn(t) ==
  /\ At(t, "checked")
  /\ InsertTurn(t)
  /\ Go(t, "inserted")
  /\ UNCHANGED <<server, active, aborted, disp, notes>>

(* admitStoredTurn fails the turn and throws.                              *)
AdmissionFails(t) ==
  /\ At(t, "inserted")
  /\ FinishTurn(t, "failed")
  /\ Throws(t)
  /\ UNCHANGED <<server, active, aborted, disp, notes>>

(* Any other exception before the turn is registered leaves it in progress.*)
SetupFails(t) ==
  /\ "setup" \in Events
  /\ At(t, "inserted")
  /\ Throws(t)
  /\ UNCHANGED <<storeVars, server, active, aborted, disp, notes>>

RegisterActiveTurn(t) ==
  /\ At(t, "inserted")
  /\ active' = t
  /\ Go(t, "round")
  /\ UNCHANGED <<storeVars, server, aborted, disp, notes>>

-----------------------------------------------------------------------------
(* The round loop of a hosted turn.                                        *)

BeginRequest(t) ==
  /\ At(t, "round")
  /\ "hosted" \in Paths
  /\ IF MayBegin(t)
     THEN run' = [run EXCEPT ![t].pc = "begun", ![t].round = @ + 1, ![t].replaced = FALSE]
     ELSE Go(t, "throwing")
  /\ UNCHANGED <<storeVars, server, active, aborted, disp, notes>>

(* include, first part: a peer that may no longer coordinate with the task *)
(* is refused before the transaction.                                      *)
IncludeRefuses(t, i) ==
  /\ At(t, "begun")
  /\ i \in PendingFor(t)
  /\ input[i].kind \in PeerKind
  /\ RejectTaskInput(i)
  /\ UNCHANGED runtimeVars

IncludeInputs(t) ==
  /\ At(t, "begun")
  /\ \/ /\ \E refused \in SUBSET Revocable :
             \E batch \in BatchOf(t, refused) :
               IncludeTaskInputs(t, me, RequestId(t), refused, batch)
        /\ Go(t, "calling")
     \/ /\ ~OwnsInbox(t, me)     \* it throws, and there is no request to settle
        /\ Go(t, "judging")
        /\ UNCHANGED storeVars
  /\ UNCHANGED <<server, active, aborted, disp, notes>>

ProviderAnswers(t) ==
  /\ At(t, "calling")
  /\ SettleTaskInputRequest(RequestId(t), "resolved")
  /\ Go(t, "acting")
  /\ UNCHANGED <<server, active, aborted, disp, notes>>

(* An error, or an abort by a correction or a Stop.                        *)
ProviderThrows(t) ==
  /\ At(t, "calling")
  /\ SettleTaskInputRequest(RequestId(t), IF Replaced(t) THEN "replaced" ELSE "failed")
  /\ Go(t, "judging")
  /\ UNCHANGED <<server, active, aborted, disp, notes>>

(* The catch asks replaced() again, after the settlement.                  *)
JudgeFailure(t) ==
  /\ At(t, "judging")
  /\ Go(t, IF Replaced(t) THEN "round" ELSE "throwing")
  /\ UNCHANGED <<storeVars, server, active, aborted, disp, notes>>

(* Tools ran, or the seal found a pending input: another round.            *)
NextRound(t) ==
  /\ At(t, "acting")
  /\ Go(t, "round")
  /\ UNCHANGED <<storeVars, server, active, aborted, disp, notes>>

(* Any other exception in the turn: attachments, a tool, an event write.   *)
ActingFails(t) ==
  /\ run[t].pc \in {"round", "acting"}
  /\ Go(t, "throwing")
  /\ UNCHANGED <<storeVars, server, active, aborted, disp, notes>>

FinalAnswer(t) ==
  /\ At(t, "acting")
  /\ SealTaskInboxTurn(t, me)
  /\ Go(t, "finishing")
  /\ UNCHANGED <<server, active, aborted, disp, notes>>

(* A blocking question to the user ends the turn without a seal.           *)
AskUser(t) ==
  /\ At(t, "acting")
  /\ PauseTaskInboxTurn(t, me)
  /\ Go(t, "finishing")
  /\ UNCHANGED <<server, active, aborted, disp, notes>>

(* Enclave chat and profile skill commands answer without the inbox.       *)
DirectAnswer(t) ==
  /\ At(t, "round")
  /\ "direct" \in Paths
  /\ Go(t, IF t \in aborted THEN "throwing" ELSE "finishing")
  /\ UNCHANGED <<storeVars, server, active, aborted, disp, notes>>

-----------------------------------------------------------------------------
(* The end of executeTurn, its catch and its finally; then settled.        *)

CompleteTurn(t) ==
  /\ At(t, "finishing")
  /\ FinishTurn(t, "completed")
  /\ run' = [run EXCEPT ![t].pc = "ended", ![t].out = "completed"]
  /\ UNCHANGED <<server, active, aborted, disp, notes>>

FinishingFails(t) ==
  /\ At(t, "finishing")
  /\ Go(t, "throwing")
  /\ UNCHANGED <<storeVars, server, active, aborted, disp, notes>>

CatchError(t) ==
  /\ At(t, "throwing")
  /\ Go(t, IF t \in aborted \/ tstatus[t] = "interrupted" THEN "interrupting" ELSE "faulting")
  /\ UNCHANGED <<storeVars, server, active, aborted, disp, notes>>

WriteInterrupted(t) ==
  /\ At(t, "interrupting")
  /\ InterruptIfRunning(t)
  /\ run' = [run EXCEPT ![t].pc = "ended", ![t].out = tstatus'[t]]
  /\ UNCHANGED <<server, active, aborted, disp, notes>>

WriteFailed(t) ==
  /\ At(t, "faulting")
  /\ FinishTurn(t, "failed")
  /\ run' = [run EXCEPT ![t].pc = "ended", ![t].out = "failed"]
  /\ UNCHANGED <<server, active, aborted, disp, notes>>

Unregister(t) ==
  /\ At(t, "ended")
  /\ active' = IF active = t THEN NoTurn ELSE active
  /\ aborted' = aborted \ {t}
  /\ run' = [run EXCEPT ![t].pc = "closing", ![t].replaced = FALSE]
  /\ UNCHANGED <<storeVars, server, disp, notes>>

CloseInbox(t) ==
  /\ At(t, "closing")
  /\ \/ \E refused \in SUBSET Revocable : CloseTaskInboxTurn(t, me, run[t].out, refused)
     \/ ~OwnsRow(t, me) /\ UNCHANGED storeVars
  /\ Go(t, "closed")
  /\ UNCHANGED <<server, active, aborted, disp, notes>>

(* sendTurn returns or throws; what threw is the dispatcher's to handle.   *)
Settled(t) ==
  /\ At(t, "closed")
  /\ disp' = WakeAfter(t)
  /\ Go(t, IF run[t].threw /\ run[t].seed # NoSeed THEN "threw" ELSE "done")
  /\ UNCHANGED <<storeVars, server, active, aborted, notes>>

(* The heartbeat of a turn that lost the row aborts the session's turn.    *)
HeartbeatFails(t) ==
  /\ run[t].pc \in Alive \ {"starting", "closing", "closed", "threw", "refused"}
  /\ ~OwnsInbox(t, me)
  /\ active # NoTurn
  /\ aborted' = aborted \cup {active}
  /\ UNCHANGED <<storeVars, server, run, active, disp, notes>>

-----------------------------------------------------------------------------
(* Crash and restart.                                                      *)

Crash ==
  /\ "crash" \in Events
  /\ Up
  /\ me + 1 \in Owner
  /\ server' = [server EXCEPT !.phase = "down", !.orphan = NoTurn]
  /\ run' = [t \in Turn |-> IF run[t].pc \in Alive THEN [run[t] EXCEPT !.pc = "lost"] ELSE run[t]]
  /\ active' = NoTurn
  /\ aborted' = {}
  /\ disp' = NoDispatch
  /\ notes' = {}
  /\ UNCHANGED storeVars

Restart ==
  /\ server.phase = "down"
  /\ server' = [server EXCEPT !.phase = "recovering", !.id = @ + 1]
  /\ UNCHANGED <<storeVars, run, active, aborted, disp, notes>>

(* recover: first every abandoned row, in one transaction ...              *)
RecoverOwners ==
  /\ server.phase = "recovering"
  /\ IF Abandoned(me)
     THEN /\ RecoverTaskInboxOwners(me)
          /\ server' = [server EXCEPT !.phase = "restoring", !.orphan = row.turn]
     ELSE /\ UNCHANGED storeVars
          /\ server' = [server EXCEPT !.phase = "restoring"]
  /\ UNCHANGED <<run, active, aborted, disp, notes>>

(* ... then, row by row, the turn that was interrupted; then, when its     *)
(* receipts are recorded as events, the inboxes that can be woken.  The    *)
(* wake-up is memory only, and a crash before it leaves what a crash after *)
(* it does: no dispatcher, and a row that is free.                         *)
RecoverTurn ==
  /\ server.phase = "restoring"
  /\ InterruptIfRunning(server.orphan)
  /\ server' = [server EXCEPT !.phase = "ready", !.orphan = NoTurn]
  /\ disp' = IF WakeTarget THEN Schedule(disp) ELSE disp
  /\ UNCHANGED <<run, active, aborted, notes>>

(* The process was suspended for longer than a lease.                      *)
LeaseLapses ==
  /\ "lease" \in Events
  /\ LeaseExpires
  /\ UNCHANGED runtimeVars

-----------------------------------------------------------------------------
UserStep ==
  \/ \E i \in Input, kind \in UserKinds, t \in Turn : UserAdmits(i, kind, t)
  \/ \E i \in Input : UserResumes(i)
  \/ \E i \in Input : UserCancels(i)
  \/ \E i \in Input, t \in Turn : UserPromotes(i, t)
  \/ \E t \in Turn : UserStops(t)
  \/ \E t \in Turn : UserSends(t)

NotifyStep == \E i \in Input : NotifyAbort(i) \/ NotifySchedule(i)

DispatchStep ==
  \/ DispatchLooks \/ DispatchReserves
  \/ \E t \in Turn : \/ DispatchStarts(t) \/ DispatchRefused(t) \/ DispatchContinues(t)
                     \/ DispatchCloses(t) \/ DispatchRejects(t)

RunStep(t) ==
  \/ CheckIdle(t) \/ PrepareFails(t) \/ InsertStoredTurn(t) \/ AdmissionFails(t)
  \/ SetupFails(t) \/ RegisterActiveTurn(t)
  \/ BeginRequest(t) \/ IncludeInputs(t) \/ ProviderAnswers(t) \/ ProviderThrows(t)
  \/ \E i \in Input : IncludeRefuses(t, i)
  \/ JudgeFailure(t) \/ NextRound(t) \/ ActingFails(t) \/ FinalAnswer(t) \/ AskUser(t)
  \/ DirectAnswer(t)
  \/ CompleteTurn(t) \/ FinishingFails(t) \/ CatchError(t) \/ WriteInterrupted(t)
  \/ WriteFailed(t) \/ Unregister(t) \/ CloseInbox(t) \/ Settled(t)

RecoverStep == RecoverOwners \/ RecoverTurn

FaultStep == Crash \/ Restart \/ LeaseLapses \/ \E t \in Turn : HeartbeatFails(t)

RuntimeNext ==
  \/ UserStep
  \/ NotifyStep
  \/ DispatchStep
  \/ \E t \in Turn : RunStep(t)
  \/ RecoverStep
  \/ FaultStep

RuntimeSpec == RuntimeInit /\ [][RuntimeNext]_vars

(* What the server has begun it goes on with: every await of a transaction,*)
(* of an event write and of the provider (which answers, fails or times    *)
(* out) comes back.  Users, crashes and lease expiry owe nothing.          *)
Fairness ==
  /\ \A i \in Input : WF_vars(NotifyAbort(i)) /\ WF_vars(NotifySchedule(i))
  /\ WF_vars(DispatchStep)
  /\ \A t \in Turn : WF_vars(RunStep(t))
  /\ WF_vars(RecoverStep)

FairRuntimeSpec == RuntimeSpec /\ Fairness

-----------------------------------------------------------------------------
(* No input waits for a turn that will never look: a pending input that    *)
(* carries a turn id belongs to the turn that holds the inbox, or to one   *)
(* a restarted server is about to recover ("a correction accepted during   *)
(* finalization" is not lost).                                             *)
NoStrandedInput ==
  \A i \in Pending : input[i].turn # NoTurn =>
    /\ row.turn = input[i].turn
    /\ row.lease # "none"
    /\ run[row.turn].pc \in Alive \/ Abandoned(me) \/ ~Up

(* Never two turns of one chat at work, although the check for a running   *)
(* turn and the insertion of the new one are many awaits apart.            *)
OneTurnAtATime == Cardinality(InProgress) <= 1

(* Whatever happens to the requests, an input goes to a provider again     *)
(* only after a correction replaced the request that carried it: of two    *)
(* manifests with the same input, one at least was replaced.               *)
NotSentTwice ==
  \A r, s \in Request :
    r # s /\ req[r].ids \cap req[s].ids # {} =>
      "replaced" \in {req[r].state, req[s].state}

(* A receipt that says "included" without an error is backed by a provider *)
(* request that is really out, or by a crash that recovery has not seen.   *)
InclusionIsLive ==
  \A i \in Input : input[i].state = "included" /\ ~input[i].err =>
    \/ At(input[i].turn, "calling")
    \/ row.turn = input[i].turn /\ row.owner # me /\ row.lease # "none"
    \/ ~Up

(* A turn that is about to complete, or completed and has the inbox still, *)
(* without asking the user something, has seen every correction it had     *)
(* accepted.                                                               *)
Finishing(t) ==
  run[t].pc = "finishing" \/ (run[t].pc \in {"ended", "closing"} /\ run[t].out = "completed")

NoCorrectionDropped ==
  \A i \in Pending, t \in Turn :
    input[i].kind = "steer" /\ input[i].turn = t =>
      ~(Finishing(t) /\ row.turn = t /\ ~row.paused)

(* Stop is final: a turn that was interrupted never becomes completed      *)
(* ("Stop still cancels the entire turn").                                 *)
StopIsFinal == [][\A t \in Turn : tstatus[t] = "interrupted" => tstatus'[t] # "completed"]_vars

(* An input does not start two turns that both complete ("retries cannot  *)
(* start it twice").                                                       *)
StartedOnce ==
  \A t, u \in Turn :
    t # u /\ run[t].seed = run[u].seed /\ run[t].seed # NoSeed
      => {run[t].out, run[u].out} # {"completed"}

(* Once a server has recovered, a turn in progress is one it runs ("a      *)
(* server restart ... ends its running local agent turn").                 *)
NoGhostTurn ==
  server.phase = "ready" => \A t \in InProgress : run[t].pc \in Alive

(* Lost wake-ups: an input that can start a turn does, unless the queue    *)
(* is paused first (Turn, the supply of turn ids, is a bound of the model).*)
QueueServed ==
  \A i \in Input :
    i \in Startable /\ ~row.paused ~>
      i \notin Startable \/ row.paused \/ \A t \in Turn : ~Fresh(t)

(* Every accepted correction is included or refused, whatever the turn     *)
(* does, running out of rounds included.                                   *)
SteerSettles ==
  \A i \in Input : i \in Pending /\ input[i].kind = "steer" ~> i \notin Pending
=============================================================================
