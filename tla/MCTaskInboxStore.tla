-------------------------- MODULE MCTaskInboxStore --------------------------
(* Two inputs, two turns, two servers, two requests: any transaction may   *)
(* come at any time.                                                       *)
EXTENDS TaskInboxStore, TLC

MCInput == 1..2
MCRevocable == {2}

(* The store treats turns, owners and requests as opaque ids.              *)
MCSymmetry == Permutations(Turn) \cup Permutations(Owner) \cup Permutations(Request)

(* Explored further: one turn in progress at most, and none that is over   *)
(* (the store never looks at how a turn ended); queued inputs for both     *)
(* starters; rejected inputs for both ways of being declined; requests     *)
(* that carry something, of which one at most is settled.                  *)
MCExplored ==
  /\ \A t \in Turn : tstatus[t] \in {"none", "in_progress"}
  /\ Cardinality({t \in Turn : tstatus[t] # "none"}) <= 1
  /\ \A i \in Input : input[i].kind # "followup" /\ input[i].state # "cancelled"
  /\ \A r \in Request : req[r] # NoRequest => req[r].ids # {}
  /\ Cardinality({r \in Request : req[r].state \notin {"none", "included"}}) <= 1
=============================================================================
