------------------------ MODULE TurnOwnership_proofs ------------------------
(***************************************************************************)
(* What TLAPS proves about a task whose leases are renewed in time: the    *)
(* turn that works on it has its inbox, so that no two turns work at once, *)
(* no input is left behind, no receipt outlives its request, no correction *)
(* misses the final answer and no input is worked off twice.  It holds for *)
(* any number of inputs, turns, rounds and server starts, with Stops,      *)
(* crashes and failed setups, whatever of these Events allows; what a      *)
(* theorem needs beyond that is among its premises.                        *)
(***************************************************************************)
EXTENDS TaskRuntime_proofs

Renewed == "lease" \notin Events

(* From the reservation, or the opening of the inbox, to its closing.      *)
Holding == Alive \ {"closed", "threw", "refused"}

(* The row tells who works: a call that holds it has it under a live       *)
(* lease, and a lease that is not given up has its call behind it, or      *)
(* belongs to an earlier start of the server.                              *)
HoldInv ==
  /\ row.lease # "expired"
  /\ \A t \in Turn : run[t].pc \in Holding => OwnsInbox(t, me)
  /\ row.lease # "none" =>
       /\ row.turn \in Turn /\ row.owner \in Nat /\ row.owner <= me
       /\ Up /\ row.owner = me => run[row.turn].pc \in Holding \cup {"threw"}

Before == CallInv /\ HolderInv /\ HoldInv

-----------------------------------------------------------------------------
(* What a step does to the row and to the calls that may hold it.          *)
RowSame == row'.turn = row.turn /\ row'.owner = row.owner /\ row'.lease = row.lease

SameServer == me' = me /\ (Up' <=> Up)

(* Nobody takes the row, and who has it does not leave it.                 *)
Keeps ==
  /\ RowSame /\ SameServer
  /\ \A t \in Turn : run'[t].pc \in Holding => run[t].pc \in Holding
  /\ \A t \in Turn : run[t].pc \in Holding \cup {"threw"} =>
       run'[t].pc \in Holding \cup {"threw"} \/ ~OwnsRow(t, me)

Takes(t) ==
  /\ Leased => OwnsRow(t, me)
  /\ row' = TakeRow(t, me) /\ SameServer /\ Up
  /\ run[t].pc \in {"idle", "starting"} /\ run'[t].pc \in Holding
  /\ \A u \in Turn \ {t} : run'[u] = run[u]

Releases(t) ==
  /\ OwnsRow(t, me)
  /\ row'.turn = row.turn /\ row'.owner = row.owner /\ row'.lease = "none" /\ SameServer
  /\ run[t].pc \in {"closing", "threw"} /\ run'[t].pc \notin Holding
  /\ \A u \in Turn \ {t} : run'[u] = run[u]

RecoversRow ==
  /\ Abandoned(me)
  /\ row'.turn = row.turn /\ row'.owner = row.owner /\ row'.lease = "none" /\ SameServer
  /\ UNCHANGED run

Moves == Keeps \/ (\E t \in Turn : Takes(t)) \/ (\E t \in Turn : Releases(t))

Move == Moves \/ (RecoverOwners /\ RecoversRow) \/ Crash \/ Restart

(* Of two calls, one at most holds the row.                                *)
LEMMA OneHolder ==
  ASSUME HoldInv, NEW t \in Turn, NEW u \in Turn, run[t].pc \in Holding, OwnsRow(u, me)
  PROVE  t = u
  BY DEF HoldInv, OwnsInbox, OwnsRow

LEMMA HoldOfMove ==
  ASSUME Before, Move
  PROVE  HoldInv'
  <1>0. TypeOK /\ me \in Nat /\ me \in Owner
    BY MeTyped, OwnerAssumption DEF Before, CallInv
  <1>1. CASE Keeps
    <2>1. row'.lease # "expired"
      BY <1>1 DEF Before, HoldInv, Keeps, RowSame
    <2>2. \A t \in Turn : run'[t].pc \in Holding => OwnsInbox(t, me)'
      BY <1>1 DEF Before, HoldInv, Keeps, RowSame, SameServer, OwnsInbox, OwnsRow, Leased
    <2>3. row'.lease # "none" =>
            /\ row'.turn \in Turn /\ row'.owner \in Nat /\ row'.owner <= me'
            /\ Up' /\ row'.owner = me' => run'[row'.turn].pc \in Holding \cup {"threw"}
      BY <1>1 DEF Before, HoldInv, Keeps, RowSame, SameServer, OwnsRow
    <2> QED BY <2>1, <2>2, <2>3 DEF HoldInv
  <1>2. ASSUME NEW t \in Turn, Takes(t)
        PROVE  HoldInv'
    <2>1. row'.lease = "live" /\ row'.turn = t /\ row'.owner = me /\ me' = me
      BY <1>2 DEF Takes, TakeRow, SameServer
    <2>2. \A u \in Turn \ {t} : run[u].pc \notin Holding
      BY <1>2, OneHolder DEF Takes, Before, HoldInv, OwnsInbox
    <2>3. \A u \in Turn : run'[u].pc \in Holding => u = t
      BY <1>2, <2>2 DEF Takes
    <2> QED BY <1>0, <1>2, <2>1, <2>3 DEF HoldInv, OwnsInbox, OwnsRow, Leased, Takes
  <1>3. ASSUME NEW t \in Turn, Releases(t)
        PROVE  HoldInv'
    <2>1. \A u \in Turn : run'[u].pc \notin Holding
      BY <1>3, OneHolder DEF Releases, Before
    <2> QED BY <1>3, <2>1 DEF Releases, HoldInv
  <1>4. CASE RecoversRow
    <2>1. \A u \in Turn : run'[u].pc \notin Holding
      BY <1>4 DEF RecoversRow, Abandoned, Before, HoldInv, OwnsInbox, OwnsRow
    <2> QED BY <1>4, <2>1 DEF RecoversRow, HoldInv
  <1>5. CASE Crash
    <2>1. \A u \in Turn : run'[u].pc \notin Holding
      BY <1>5, CrashedCalls DEF Before, Holding, Alive
    <2>2. ~Up' /\ me' = me /\ row' = row
      BY <1>5 DEF Crash, Up, me, storeVars, CallInv, RuntimeTypeOK, Before
    <2> QED BY <2>1, <2>2 DEF HoldInv, Before
  <1>6. CASE Restart
    <2>1. \A u \in Turn : run'[u].pc \notin Holding
      BY <1>6 DEF Restart, Before, HolderInv, Up, Holding
    <2>2. me' = me + 1 /\ row' = row
      BY <1>6 DEF Restart, me, storeVars, CallInv, RuntimeTypeOK, Before
    <2> QED BY <1>0, <2>1, <2>2 DEF HoldInv, Before
  <1> QED BY <1>1, <1>2, <1>3, <1>4, <1>5, <1>6 DEF Move, Moves

-----------------------------------------------------------------------------
(* Every step is one of these moves.                                       *)
LEMMA RowSameBy ==
  ASSUME TypeOK
  PROVE  /\ UNCHANGED storeVars => RowSame
         /\ \A i, k, t : AdmitTaskInput(i, k, t) \/ PromoteToSteer(i, t) => RowSame
         /\ \A i : ResumeQueue(i) \/ CancelInput(i) \/ RejectTaskInput(i) => RowSame
         /\ RejectRevokedFollowup => RowSame
         /\ \A t, o : PauseTaskInboxTurn(t, o) \/ SealTaskInboxTurn(t, o) => RowSame
         /\ \A t, x : InsertTurn(t) \/ FinishTurn(t, x) \/ InterruptIfRunning(t) => RowSame
         /\ \A r, x : SettleTaskInputRequest(r, x) => RowSame
         /\ \A t, o, r, f, b : IncludeTaskInputs(t, o, r, f, b) => RowSame
  BY DEF TypeOK, RowSame, storeVars, AdmitTaskInput, PromoteToSteer, ResumeQueue, CancelInput,
         RejectTaskInput, RejectRevokedFollowup, PauseTaskInboxTurn, SealTaskInboxTurn, InsertTurn,
         FinishTurn, InterruptIfRunning, InterruptTurn, SettleTaskInputRequest, IncludeTaskInputs

LEMMA ClosedRow ==
  ASSUME TypeOK, NEW t, NEW x, NEW f, CloseTaskInboxTurn(t, me, x, f)
  PROVE  /\ OwnsRow(t, me) /\ row'.turn = row.turn /\ row'.owner = row.owner /\ row'.lease = "none"
         /\ ~row'.accepting
  BY DEF TypeOK, CloseTaskInboxTurn

(* A call that goes from one place to another.                             *)
LEMMA GoesTo ==
  ASSUME CallInv, NEW t \in Turn, NEW x, Go(t, x)
  PROVE  /\ run'[t].pc = x /\ run'[t].out = run[t].out
         /\ \A u \in Turn \ {t} : run'[u] = run[u]
  BY DEF CallInv, RuntimeTypeOK, Go

LEMMA KeptCalls ==
  ASSUME RowSame, SameServer, UNCHANGED run
  PROVE  Keeps
  BY DEF Keeps

LEMMA UserRowMoves ==
  ASSUME Before, UserStep
  PROVE  Moves
  <1>1. TypeOK /\ CallInv
    BY DEF Before, CallInv
  <1>2. ASSUME NEW i \in Input, NEW kind \in UserKinds, NEW t \in Turn, UserAdmits(i, kind, t)
        PROVE  Moves
    BY <1>1, <1>2, RowSameBy, KeptCalls DEF UserAdmits, Moves, SameServer, me, Up
  <1>3. ASSUME NEW i \in Input, UserResumes(i) \/ UserCancels(i)
        PROVE  Moves
    BY <1>1, <1>3, RowSameBy, KeptCalls DEF UserResumes, UserCancels, runtimeVars, Moves, SameServer, me, Up
  <1>4. ASSUME NEW i \in Input, NEW t \in Turn, UserPromotes(i, t)
        PROVE  Moves
    BY <1>1, <1>4, RowSameBy, KeptCalls DEF UserPromotes, Moves, SameServer, me, Up
  <1>5. ASSUME NEW t \in Turn, UserStops(t)
        PROVE  Moves
    BY <1>1, <1>5, RowSameBy, KeptCalls DEF UserStops, Moves, SameServer, me, Up
  <1>6. ASSUME NEW t \in Turn, UserSends(t)
        PROVE  Moves
    <2>1. Takes(t)
      BY <1>1, <1>6, GoesTo
      DEF UserSends, Fresh, At, OpenTaskInboxTurn, Takes, SameServer, me, Up, Holding, Alive
    <2> QED BY <2>1 DEF Moves
  <1> QED BY <1>2, <1>3, <1>4, <1>5, <1>6 DEF UserStep

LEMMA DispatchRowMoves ==
  ASSUME Before, DispatchStep
  PROVE  Moves
  <1>1. TypeOK /\ CallInv /\ Up
    BY DEF Before, CallInv, HolderInv, DispatchStep, DispatchLooks, DispatchReserves, DispatchStarts,
           DispatchRefused, DispatchContinues, DispatchCloses, DispatchRejects,
           RejectRevokedFollowup, At, Alive
  <1>2. CASE DispatchLooks
    BY <1>1, <1>2, RowSameBy, KeptCalls DEF DispatchLooks, Moves, SameServer, me, Up
  <1>3. CASE DispatchReserves
    <2>1. SameServer
      BY <1>3 DEF DispatchReserves, SameServer, me, Up
    <2>2. CASE UNCHANGED storeVars /\ UNCHANGED run
      BY <1>1, <2>1, <2>2, RowSameBy, KeptCalls DEF Moves
    <2>3. CASE RejectRevokedFollowup /\ UNCHANGED run
      BY <1>1, <2>1, <2>3, RowSameBy, KeptCalls DEF Moves
    <2>4. ASSUME NEW t \in Turn, Fresh(t), ReserveFollowup(t, me),
                 run' = [run EXCEPT ![t].pc = "starting", ![t].seed = Oldest(Startable)]
          PROVE  Moves
      <3>1. run'[t].pc = "starting" /\ \A u \in Turn \ {t} : run'[u] = run[u]
        BY <1>1, <2>4 DEF CallInv, RuntimeTypeOK
      <3>2. Takes(t)
        BY <1>1, <2>1, <2>4, <3>1
        DEF Takes, Fresh, At, ReserveFollowup, MayReserve, Holding, Alive
      <3> QED BY <3>2 DEF Moves
    <2> QED BY <1>3, <2>2, <2>3, <2>4 DEF DispatchReserves
  <1>4. ASSUME NEW t \in Turn, DispatchStarts(t)
        PROVE  Moves
    <2>1. Takes(t)
      BY <1>1, <1>4, GoesTo
      DEF DispatchStarts, At, OpenTaskInboxTurn, Takes, SameServer, me, Up, Holding, Alive
    <2> QED BY <2>1 DEF Moves
  <1>5. ASSUME NEW t \in Turn, DispatchRefused(t)
        PROVE  Moves
    <2>1. run'[t].pc = "threw" /\ run[t].pc = "starting" /\ \A u \in Turn \ {t} : run'[u] = run[u]
      BY <1>1, <1>5, GoesTo DEF DispatchRefused, At
    <2>2. RowSame /\ SameServer
      BY <1>1, <1>5, RowSameBy DEF DispatchRefused, SameServer, me, Up
    <2>3. Keeps
      BY <2>1, <2>2 DEF Keeps, Holding, Alive
    <2> QED BY <2>3 DEF Moves
  <1>6. ASSUME NEW t \in Turn, DispatchContinues(t)
        PROVE  Moves
    BY <1>1, <1>6, RowSameBy, KeptCalls DEF DispatchContinues, Moves, SameServer, me, Up
  <1>7. ASSUME NEW t \in Turn, DispatchCloses(t)
        PROVE  Moves
    <2>1. /\ run'[t].pc = "refused" /\ run[t].pc = "threw" /\ SameServer
          /\ \A u \in Turn \ {t} : run'[u] = run[u]
      BY <1>1, <1>7, GoesTo DEF DispatchCloses, At, SameServer, me, Up
    <2>2. ASSUME NEW f \in SUBSET Revocable, CloseTaskInboxTurn(t, me, "failed", f)
          PROVE  Moves
      <3>1. Releases(t)
        BY <1>1, <2>1, <2>2, ClosedRow DEF Releases, Holding
      <3> QED BY <3>1 DEF Moves
    <2>3. CASE ~OwnsRow(t, me) /\ UNCHANGED storeVars
      <3>1. Keeps
        BY <1>1, <2>1, <2>3, RowSameBy DEF Keeps, Holding, Alive
      <3> QED BY <3>1 DEF Moves
    <2> QED BY <1>7, <2>2, <2>3 DEF DispatchCloses
  <1>8. ASSUME NEW t \in Turn, DispatchRejects(t)
        PROVE  Moves
    <2>1. run'[t].pc = "done" /\ run[t].pc = "refused" /\ \A u \in Turn \ {t} : run'[u] = run[u]
      BY <1>1, <1>8, GoesTo DEF DispatchRejects, At
    <2>2. RowSame /\ SameServer
      BY <1>1, <1>8, RowSameBy DEF DispatchRejects, SameServer, me, Up
    <2>3. Keeps
      BY <2>1, <2>2 DEF Keeps, Holding, Alive
    <2> QED BY <2>3 DEF Moves
  <1> QED BY <1>2, <1>3, <1>4, <1>5, <1>6, <1>7, <1>8 DEF DispatchStep

(* A turn between its opening and its closing keeps the row.               *)
LEMMA RunStepWorks ==
  ASSUME CallInv, NEW t \in Turn, RunStep(t), ~CloseInbox(t), ~Settled(t)
  PROVE  RowSame /\ run[t].pc \in Holding /\ run'[t].pc \in Holding
  <1> DEFINE Goal == RowSame /\ run[t].pc \in Holding /\ run'[t].pc \in Holding
  <1>1. TypeOK /\ run \in [Turn -> CallRecord]
    BY DEF CallInv, RuntimeTypeOK, CallRecord
  <1> USE RowSameBy, <1>1 DEF CallRecord, Holding, Alive, At, Go, Throws, storeVars
  <1>2. CASE CheckIdle(t) \/ PrepareFails(t) \/ SetupFails(t) \/ RegisterActiveTurn(t)
    BY <1>2 DEF CheckIdle, PrepareFails, SetupFails, RegisterActiveTurn
  <1>3. CASE InsertStoredTurn(t) \/ AdmissionFails(t)
    <2>1. RowSame
      BY <1>3 DEF InsertStoredTurn, AdmissionFails, InsertTurn, FinishTurn, RowSame
    <2> QED  BY <1>3, <2>1 DEF InsertStoredTurn, AdmissionFails
  <1>4. CASE BeginRequest(t) \/ JudgeFailure(t) \/ NextRound(t) \/ ActingFails(t)
    BY <1>4 DEF BeginRequest, JudgeFailure, NextRound, ActingFails
  <1>5. ASSUME NEW i \in Input, IncludeRefuses(t, i)
        PROVE  Goal
    BY <1>5 DEF IncludeRefuses, RejectTaskInput, runtimeVars
  <1>6. CASE FinalAnswer(t) \/ AskUser(t)
    BY <1>6 DEF FinalAnswer, AskUser
  <1>7. CASE DirectAnswer(t) \/ FinishingFails(t) \/ CatchError(t) \/ Unregister(t)
    BY <1>7 DEF DirectAnswer, FinishingFails, CatchError, Unregister
  <1>8. CASE CompleteTurn(t) \/ WriteInterrupted(t) \/ WriteFailed(t)
    <2>1. RowSame
      BY <1>8
      DEF CompleteTurn, WriteInterrupted, WriteFailed, FinishTurn, InterruptIfRunning,
          InterruptTurn, RowSame
    <2> QED  BY <1>8, <2>1 DEF CompleteTurn, WriteInterrupted, WriteFailed
  <1>9. CASE Requests(t)
    BY <1>9 DEF Requests, IncludeInputs, ProviderAnswers, ProviderThrows
  <1> QED
    BY <1>2, <1>3, <1>4, <1>5, <1>6, <1>7, <1>8, <1>9, Zenon DEF RunStep, Requests

LEMMA RunRowMoves ==
  ASSUME Before, NEW t \in Turn, RunStep(t)
  PROVE  Moves
  <1>1. TypeOK /\ CallInv /\ SameServer /\ \A u \in Turn \ {t} : run'[u] = run[u]
    BY RunStepLocal DEF Before, CallInv, SameServer, me, Up
  <1>2. CASE CloseInbox(t)
    <2>1. run[t].pc = "closing" /\ run'[t].pc = "closed"
      BY <1>1, <1>2, GoesTo DEF CloseInbox, At
    <2>2. OwnsRow(t, me)
      BY <2>1 DEF Before, HoldInv, Holding, Alive, OwnsInbox
    <2>3. PICK f \in SUBSET Revocable : CloseTaskInboxTurn(t, me, run[t].out, f)
      BY <1>2, <2>2 DEF CloseInbox
    <2>4. Releases(t)
      BY <1>1, <2>1, <2>3, ClosedRow DEF Releases, Holding
    <2> QED BY <2>4 DEF Moves
  <1>3. CASE Settled(t)
    <2>1. run[t].pc = "closed" /\ run'[t].pc \in {"threw", "done"} /\ RowSame
      BY <1>1, <1>3, GoesTo, RowSameBy DEF Settled, At
    <2>2. Keeps
      BY <1>1, <2>1 DEF Keeps, Holding, Alive
    <2> QED BY <2>2 DEF Moves
  <1>4. CASE ~CloseInbox(t) /\ ~Settled(t)
    <2>1. Keeps
      BY <1>1, <1>4, RunStepWorks DEF Keeps
    <2> QED BY <2>1 DEF Moves
  <1> QED BY <1>2, <1>3, <1>4

LEMMA OtherRowMoves ==
  ASSUME Renewed, Before, NotifyStep \/ RecoverStep \/ FaultStep \/ UNCHANGED vars
  PROVE  Move
  <1>1. TypeOK /\ CallInv
    BY DEF Before, CallInv
  <1>2. CASE NotifyStep
    <2>1. PICK i \in Input : NotifyAbort(i) \/ NotifySchedule(i)
      BY <1>2 DEF NotifyStep
    <2>2. /\ UNCHANGED <<storeVars, server>>
          /\ \A t \in Turn : run'[t].pc = run[t].pc
      BY <1>1, <2>1, ReplacedCalls DEF NotifyAbort, NotifySchedule, CallAt
    <2>3. RowSame /\ SameServer
      BY <1>1, <2>2, RowSameBy DEF SameServer, me, Up
    <2>4. Keeps
      BY <2>2, <2>3 DEF Keeps
    <2> QED BY <2>4 DEF Move, Moves
  <1>3. CASE RecoverOwners
    <2>1. SameServer /\ UNCHANGED run
      BY <1>1, <1>3 DEF RecoverOwners, SameServer, me, Up, CallInv, RuntimeTypeOK
    <2>2. CASE Abandoned(me)
      <3>1. row'.turn = row.turn /\ row'.owner = row.owner /\ row'.lease = "none"
        BY <1>1, <1>3, <2>2 DEF RecoverOwners, RecoverTaskInboxOwners, TypeOK
      <3> QED BY <1>3, <2>1, <2>2, <3>1 DEF Move, RecoversRow
    <2>3. CASE ~Abandoned(me)
      BY <1>1, <1>3, <2>1, <2>3, RowSameBy, KeptCalls DEF RecoverOwners, Move, Moves
    <2> QED BY <2>2, <2>3
  <1>4. CASE RecoverTurn
    <2>1. SameServer /\ UNCHANGED run
      BY <1>1, <1>4 DEF RecoverTurn, SameServer, me, Up, CallInv, RuntimeTypeOK
    <2> QED BY <1>1, <1>4, <2>1, RowSameBy, KeptCalls DEF RecoverTurn, Move, Moves
  <1>5. ASSUME NEW t \in Turn, HeartbeatFails(t)
        PROVE  Move
    BY <1>1, <1>5, RowSameBy, KeptCalls DEF HeartbeatFails, Move, Moves, SameServer, me, Up
  <1>6. CASE UNCHANGED vars
    BY <1>1, <1>6, RowSameBy, KeptCalls DEF vars, runtimeVars, Move, Moves, SameServer, me, Up
  <1> QED
    BY <1>2, <1>3, <1>4, <1>5, <1>6 DEF RecoverStep, FaultStep, LeaseLapses, Renewed, Move, Moves

LEMMA EveryMove ==
  ASSUME Renewed, Before, [RuntimeNext]_vars
  PROVE  Move
  BY UserRowMoves, DispatchRowMoves, RunRowMoves, OtherRowMoves DEF RuntimeNext, Move

LEMMA BeforeAlways ==
  ASSUME Renewed
  PROVE  RuntimeSpec => []Before
  <1>1. RuntimeInit => HolderInv /\ HoldInv
    BY DEF RuntimeInit, StoreInit, HolderInv, HoldInv, NoRow, IdleRun, Alive, Holding, Up
  <1>2. CallInv /\ HolderInv /\ HoldInv /\ [RuntimeNext]_vars => (HolderInv /\ HoldInv)'
    BY HolderStep, EveryMove, HoldOfMove DEF Before
  <1>3. CallInv /\ HolderInv /\ HoldInv => Before
    BY DEF Before
  <1> QED BY <1>1, <1>2, <1>3, CallsCorrect, PTL DEF RuntimeSpec

-----------------------------------------------------------------------------
(* Who works: the turn that looked and found the chat idle is alone until  *)
(* it has inserted its turn, for it has the row all that time.             *)
Early == {"idle", "starting", "opened", "checked"}

TurnInv ==
  /\ \A t \in Turn : run[t].pc \in Early => tstatus[t] = "none"
  /\ \A t \in Turn : run[t].pc = "checked" => InProgress = {}
  /\ \A t, u \in InProgress : t = u

(* What a step does to the status of the turns and to calls that start.    *)
Statuses ==
  \A u \in Turn : \/ tstatus'[u] = tstatus[u]
                  \/ /\ tstatus[u] # "none" /\ tstatus'[u] # "in_progress"
                     /\ tstatus'[u] = "completed" => run'[u].pc = "ended"

Starts ==
  /\ \A u \in Turn : run'[u].pc \in Early => run[u].pc \in Early
  /\ \A u \in Turn : run'[u].pc = "checked" =>
       run[u].pc = "checked" \/ (InProgress = {} /\ tstatus' = tstatus)

LEMMA StatusesBy ==
  ASSUME TypeOK
  PROVE  /\ \A i, k, t : AdmitTaskInput(i, k, t) \/ PromoteToSteer(i, t) => UNCHANGED tstatus
         /\ \A i : ResumeQueue(i) \/ CancelInput(i) \/ RejectTaskInput(i) => UNCHANGED tstatus
         /\ RejectRevokedFollowup \/ LeaseExpires => UNCHANGED tstatus
         /\ \A t, o : OpenTaskInboxTurn(t, o) \/ ReserveFollowup(t, o) => UNCHANGED tstatus
         /\ \A t, o : PauseTaskInboxTurn(t, o) \/ SealTaskInboxTurn(t, o) => UNCHANGED tstatus
         /\ \A t, o, x, f : CloseTaskInboxTurn(t, o, x, f) => UNCHANGED tstatus
         /\ \A r, x : SettleTaskInputRequest(r, x) => UNCHANGED tstatus
         /\ \A t, o, r, f, b : IncludeTaskInputs(t, o, r, f, b) => UNCHANGED tstatus
         /\ \A o : RecoverTaskInboxOwners(o) => UNCHANGED tstatus
         /\ \A t : InterruptIfRunning(t) \/ FinishTurn(t, "failed") => Statuses
         /\ \A t : FinishTurn(t, "completed") /\ run'[t].pc = "ended" => Statuses
  <1>1. /\ \A t : InterruptIfRunning(t) \/ FinishTurn(t, "failed") => Statuses
        /\ \A t : FinishTurn(t, "completed") /\ run'[t].pc = "ended" => Statuses
    BY DEF TypeOK, InterruptIfRunning, InterruptTurn, FinishTurn, Statuses, storeVars
  <1> QED
    BY <1>1
    DEF AdmitTaskInput, PromoteToSteer, ResumeQueue, CancelInput, RejectTaskInput,
        RejectRevokedFollowup, LeaseExpires, OpenTaskInboxTurn, ReserveFollowup,
        PauseTaskInboxTurn, SealTaskInboxTurn, CloseTaskInboxTurn, SettleTaskInputRequest,
        IncludeTaskInputs, RecoverTaskInboxOwners

(* What a step does to the calls.                                          *)
LEMMA CallsOfUser ==
  ASSUME UserStep
  PROVE  UNCHANGED run \/ \E t \in Turn : Fresh(t) /\ Go(t, "opened")
  BY DEF UserStep, UserAdmits, UserResumes, UserCancels, UserPromotes, UserStops, UserSends,
         runtimeVars

LEMMA CallsOfDispatch ==
  ASSUME CallInv, DispatchStep
  PROVE  \/ UNCHANGED run
         \/ \E t \in Turn : /\ run[t].pc \in {"idle", "starting", "threw", "refused"}
                            /\ run'[t].pc \in {"starting", "opened", "threw", "refused", "done"}
                            /\ run'[t].pc \in Early => run[t].pc \in Early
                            /\ \A u \in Turn \ {t} : run'[u] = run[u]
  <1>1. run \in [Turn -> CallRecord]
    BY DEF CallInv, RuntimeTypeOK, CallRecord
  <1>2. CASE DispatchReserves
    <2>1. ASSUME NEW t \in Turn, Fresh(t),
                 run' = [run EXCEPT ![t].pc = "starting", ![t].seed = Oldest(Startable)]
          PROVE  /\ run[t].pc = "idle" /\ run'[t].pc = "starting"
                 /\ \A u \in Turn \ {t} : run'[u] = run[u]
      BY <1>1, <2>1 DEF Fresh, At, CallRecord
    <2> QED  BY <1>2, <2>1 DEF DispatchReserves, Early
  <1>3. CASE DispatchLooks \/ \E t \in Turn : DispatchContinues(t)
    BY <1>3 DEF DispatchLooks, DispatchContinues
  <1>4. ASSUME NEW t \in Turn,
               DispatchStarts(t) \/ DispatchRefused(t) \/ DispatchCloses(t) \/ DispatchRejects(t)
        PROVE  /\ run[t].pc \in {"idle", "starting", "threw", "refused"}
               /\ run'[t].pc \in {"starting", "opened", "threw", "refused", "done"}
               /\ run'[t].pc \in Early => run[t].pc \in Early
               /\ \A u \in Turn \ {t} : run'[u] = run[u]
    BY <1>1, <1>4
    DEF DispatchStarts, DispatchRefused, DispatchCloses, DispatchRejects, At, Go, CallRecord, Early
  <1> QED  BY <1>2, <1>3, <1>4 DEF DispatchStep

LEMMA CallsOfOthers ==
  ASSUME CallInv, NotifyStep \/ RecoverStep \/ FaultStep, ~Crash
  PROVE  \A t \in Turn : run'[t].pc = run[t].pc /\ run'[t].round = run[t].round
  <1>1. ASSUME NEW i \in Input, NotifyAbort(i), NEW t \in Turn
        PROVE  run'[t].pc = run[t].pc /\ run'[t].round = run[t].round
    BY <1>1, ReplacedCalls DEF CallAt
  <1>2. UNCHANGED run \/ \E i \in Input : NotifyAbort(i)
    BY DEF NotifyStep, NotifySchedule, RecoverStep, RecoverOwners, RecoverTurn,
           FaultStep, Restart, LeaseLapses, HeartbeatFails, runtimeVars
  <1> QED  BY <1>1, <1>2

LEMMA CallsLost ==
  ASSUME CallInv, NotifyStep \/ RecoverStep \/ FaultStep, NEW t \in Turn
  PROVE  run'[t].pc \in {run[t].pc, "lost"}
  <1>1. CASE Crash
    BY <1>1, CrashedCalls
  <1>2. CASE ~Crash
    BY <1>2, CallsOfOthers
  <1> QED  BY <1>1, <1>2

LEMMA UserStatuses ==
  ASSUME CallInv, UserStep
  PROVE  Statuses /\ Starts
  <1>1. TypeOK /\ run \in [Turn -> CallRecord]
    BY DEF CallInv, RuntimeTypeOK, CallRecord
  <1>2. Statuses
    BY <1>1, StatusesBy
    DEF UserStep, UserAdmits, UserResumes, UserCancels, UserPromotes, UserStops, UserSends, Statuses
  <1>3. Starts
    BY <1>1, CallsOfUser DEF Starts, Fresh, At, Go, CallRecord, Early
  <1> QED  BY <1>2, <1>3

LEMMA DispatchStatuses ==
  ASSUME CallInv, DispatchStep
  PROVE  UNCHANGED tstatus /\ Starts
  <1>1. TypeOK /\ run \in [Turn -> CallRecord]
    BY DEF CallInv, RuntimeTypeOK, CallRecord
  <1>2. UNCHANGED tstatus
    BY <1>1, StatusesBy
    DEF DispatchStep, DispatchLooks, DispatchReserves, DispatchStarts, DispatchRefused,
        DispatchContinues, DispatchCloses, DispatchRejects, storeVars
  <1>3. Starts
    BY <1>1, CallsOfDispatch DEF Starts, Early
  <1> QED  BY <1>2, <1>3

LEMMA RunStatuses ==
  ASSUME CallInv, NEW t \in Turn, RunStep(t)
  PROVE  (Statuses \/ InsertStoredTurn(t)) /\ Starts
  <1>1. TypeOK /\ run \in [Turn -> CallRecord] /\ \A u \in Turn \ {t} : run'[u] = run[u]
    BY RunStepLocal DEF CallInv, RuntimeTypeOK, CallRecord
  <1>2. ASSUME UNCHANGED tstatus
        PROVE  Statuses
    BY <1>2 DEF Statuses
  <1> USE <1>1, <1>2, StatusesBy DEF At, Go, Throws, Early
  <1>3. CASE CheckIdle(t)
    BY <1>3 DEF CheckIdle, ChatIsIdle, CallRecord, Starts, storeVars
  <1>4. CASE PrepareFails(t) \/ SetupFails(t) \/ RegisterActiveTurn(t)
    BY <1>4 DEF PrepareFails, SetupFails, RegisterActiveTurn, CallRecord, Starts, storeVars
  <1>5. CASE InsertStoredTurn(t)
    BY <1>5 DEF InsertStoredTurn, CallRecord, Starts
  <1>6. CASE AdmissionFails(t)
    BY <1>6 DEF AdmissionFails, CallRecord, Starts
  <1>7. CASE BeginRequest(t) \/ JudgeFailure(t) \/ NextRound(t) \/ ActingFails(t)
    BY <1>7 DEF BeginRequest, JudgeFailure, NextRound, ActingFails, CallRecord, Starts, storeVars
  <1>8. ASSUME NEW i \in Input, IncludeRefuses(t, i)
        PROVE  Statuses /\ Starts
    BY <1>8 DEF IncludeRefuses, runtimeVars, Starts
  <1>9. CASE IncludeInputs(t)
    BY <1>9 DEF IncludeInputs, CallRecord, Starts, storeVars
  <1>10. CASE ProviderAnswers(t) \/ ProviderThrows(t)
    BY <1>10 DEF ProviderAnswers, ProviderThrows, CallRecord, Starts
  <1>11. CASE FinalAnswer(t) \/ AskUser(t)
    BY <1>11 DEF FinalAnswer, AskUser, CallRecord, Starts
  <1>12. CASE DirectAnswer(t) \/ FinishingFails(t) \/ CatchError(t) \/ Unregister(t) \/ Settled(t)
    BY <1>12
    DEF DirectAnswer, FinishingFails, CatchError, Unregister, Settled, CallRecord, Starts, storeVars
  <1>13. CASE CompleteTurn(t) \/ WriteInterrupted(t) \/ WriteFailed(t)
    BY <1>13 DEF CompleteTurn, WriteInterrupted, WriteFailed, CallRecord, Starts
  <1>14. CASE CloseInbox(t)
    BY <1>14 DEF CloseInbox, CallRecord, Starts, storeVars
  <1> QED
    BY <1>3, <1>4, <1>5, <1>6, <1>7, <1>8, <1>9, <1>10, <1>11, <1>12, <1>13, <1>14, Zenon
    DEF RunStep

LEMMA OtherStatuses ==
  ASSUME CallInv, NotifyStep \/ RecoverStep \/ FaultStep
  PROVE  Statuses /\ Starts
  <1>1. TypeOK
    BY DEF CallInv
  <1>2. Statuses
    BY <1>1, StatusesBy
    DEF NotifyStep, NotifyAbort, NotifySchedule, RecoverStep, RecoverOwners, RecoverTurn,
        FaultStep, Crash, Restart, LeaseLapses, HeartbeatFails, Statuses, storeVars
  <1>3. \A u \in Turn : run'[u].pc \in {run[u].pc, "lost"}
    BY CallsLost
  <1>4. Starts
    BY <1>3 DEF Starts, Early
  <1> QED  BY <1>2, <1>4

LEMMA TurnStepAlone ==
  ASSUME Before, TurnInv, [RuntimeNext]_vars
  PROVE  TurnInv'
  <1>1. CallInv /\ TypeOK
    BY DEF Before, CallInv
  <1>2. ASSUME Statuses, Starts
        PROVE  TurnInv'
    BY <1>2 DEF Statuses, Starts, TurnInv, InProgress, Early
  <1>3. ASSUME NEW t \in Turn, RunStep(t), InsertStoredTurn(t), Starts
        PROVE  TurnInv'
    <2>1. /\ run[t].pc = "checked" /\ run'[t].pc = "inserted"
          /\ \A u \in Turn \ {t} : run'[u] = run[u]
      BY <1>1, <1>3, GoesTo, RunStepLocal DEF InsertStoredTurn, At
    <2>2. InProgress = {} /\ tstatus' = [tstatus EXCEPT ![t] = "in_progress"]
      BY <1>3, <2>1 DEF TurnInv, InsertStoredTurn, InsertTurn
    <2>3. \A u \in Turn \ {t} : tstatus'[u] = tstatus[u]
      BY <1>1, <2>2 DEF TypeOK
    <2>4. \A u \in InProgress' : u = t
      BY <2>2, <2>3 DEF InProgress
    <2>5. OwnsRow(t, me)
      BY <2>1 DEF Before, HoldInv, Holding, Alive, OwnsInbox
    <2>6. \A u \in Turn : run'[u].pc # "checked"
      BY <2>1, <2>5, OneHolder DEF Before, Holding, Alive
    <2>7. \A u \in Turn : run'[u].pc \in Early => tstatus'[u] = "none"
      BY <2>1, <2>3 DEF TurnInv, Early
    <2> QED  BY <2>4, <2>6, <2>7 DEF TurnInv
  <1>4. CASE UNCHANGED vars
    BY <1>4 DEF vars, storeVars, runtimeVars, TurnInv, InProgress
  <1> QED
    BY <1>1, <1>2, <1>3, <1>4, UserStatuses, DispatchStatuses, RunStatuses, OtherStatuses
    DEF RuntimeNext, Statuses

LEMMA TurnsAlone ==
  ASSUME Renewed
  PROVE  RuntimeSpec => []TurnInv
  <1>1. RuntimeInit => TurnInv
    BY DEF RuntimeInit, StoreInit, TurnInv, InProgress, IdleRun
  <1>2. Before /\ TurnInv /\ [RuntimeNext]_vars => TurnInv'
    BY TurnStepAlone
  <1> QED  BY <1>1, <1>2, BeforeAlways, PTL DEF RuntimeSpec

(***************************************************************************)
(* Never are two turns of one chat at work, however many sends, follow-ups *)
(* and crashes meet, as long as no lease runs out under a living turn.     *)
(***************************************************************************)
THEOREM TurnsTakeTurns ==
  ASSUME Renewed
  PROVE  RuntimeSpec => []OneTurnAtATime
  <1>1. TurnInv => OneTurnAtATime
    <2> SUFFICES ASSUME TurnInv, InProgress # {}
                 PROVE  OneTurnAtATime
      BY FS_EmptySet DEF OneTurnAtATime
    <2>1. PICK t \in InProgress : TRUE
      OBVIOUS
    <2>2. InProgress = {t}
      BY <2>1 DEF TurnInv
    <2> QED  BY <2>2, FS_Singleton DEF OneTurnAtATime
  <1> QED  BY <1>1, TurnsAlone, PTL

-----------------------------------------------------------------------------
(* What inputs are bound to.  A pending input with a turn is bound to the  *)
(* turn in the row; a request that is out carries inputs of its own turn,  *)
(* so that what it gives back is bound to the row as well; an inclusion is *)
(* backed by such a request, or belongs to an earlier start.               *)
BoundInv ==
  \A i \in Pending : input[i].turn # NoTurn => row.turn = input[i].turn /\ row.lease # "none"

SentInv ==
  \A t \in Turn : run[t].pc = "calling" =>
    \A i \in req[RequestId(t)].ids : input[i].state = "included" => input[i].turn = t

OutFor(i) == \E t \in Turn : At(t, "calling") /\ input[i].turn = t /\ i \in req[RequestId(t)].ids

OfEarlierStart(i) == row.turn = input[i].turn /\ row.lease # "none" /\ (row.owner # me \/ ~Up)

IncludedInv ==
  \A i \in Input : input[i].state = "included" /\ ~input[i].err => OutFor(i) \/ OfEarlierStart(i)

LinkInv == BoundInv /\ SentInv /\ IncludedInv

(* The transactions of a process that writes no request keep pending       *)
(* inputs bound to the row.                                                *)
LEMMA QuietBinding ==
  ASSUME TypeOK, BoundInv, row.lease # "expired", QuietStore
  PROVE  BoundInv'
  <1> SUFFICES ASSUME NEW i \in Input, input'[i].state = "pending", input'[i].turn # NoTurn
               PROVE  row'.turn = input'[i].turn /\ row'.lease # "none"
    BY DEF BoundInv, Pending
  <1> DEFINE Goal == row'.turn = input'[i].turn /\ row'.lease # "none"
  <1>1. /\ input \in [Input -> InputRecord] /\ input[i] \in InputRecord /\ row \in RowRecord
        /\ input[i].state = "pending" /\ input[i].turn # NoTurn =>
             row.turn = input[i].turn /\ row.lease = "live"
    BY DEF TypeOK, InputRecord, RowRecord, BoundInv, Pending
  <1> USE <1>1 DEF storeVars, InputRecord, RowRecord
  <1>2. ASSUME input'[i] = input[i], RowSame
        PROVE  Goal
    BY <1>2 DEF RowSame
  <1>3. CASE InputStep
    <2>1. ASSUME NEW j \in Input, NEW kind \in Kind, NEW t \in Turn, AdmitTaskInput(j, kind, t)
          PROVE  Goal
      <3>1. CASE i = j
        <4>1. input'[i].turn = AttachTo(kind) /\ row' = row
          BY <2>1, <3>1 DEF AdmitTaskInput
        <4> QED  BY <4>1 DEF AttachTo, Leased
      <3>2. CASE i # j
        BY <1>2, <2>1, <3>2 DEF AdmitTaskInput, RowSame
      <3> QED  BY <3>1, <3>2
    <2>2. ASSUME NEW j \in Input, ResumeQueue(j)
          PROVE  Goal
      BY <1>2, <2>2 DEF ResumeQueue, RowSame
    <2>3. ASSUME NEW j \in Input, CancelInput(j) \/ RejectTaskInput(j)
          PROVE  Goal
      BY <1>2, <2>3 DEF CancelInput, RejectTaskInput, Rejected, RowSame
    <2>4. ASSUME NEW j \in Input, NEW t \in Turn, PromoteToSteer(j, t)
          PROVE  Goal
      <3>1. i = j => input'[i].turn = t
        BY <2>4 DEF PromoteToSteer, Steered
      <3> QED  BY <1>2, <2>4, <3>1 DEF PromoteToSteer, SteerTarget, Leased, RowSame
    <2> QED  BY <1>3, <2>1, <2>2, <2>3, <2>4 DEF InputStep
  <1>4. CASE OwnerStep
    <2>1. ASSUME NEW t \in Turn, NEW o \in Owner, OpenTaskInboxTurn(t, o)
          PROVE  Goal
      BY <2>1 DEF OpenTaskInboxTurn, TakeRow, OwnsRow, Leased
    <2>2. ASSUME NEW t \in Turn, NEW o \in Owner,
                 RenewTaskInboxTurn(t, o) \/ PauseTaskInboxTurn(t, o) \/ SealTaskInboxTurn(t, o)
          PROVE  Goal
      BY <1>2, <2>2 DEF RenewTaskInboxTurn, PauseTaskInboxTurn, SealTaskInboxTurn, RowSame
    <2>3. ASSUME NEW t \in Turn, NEW o \in Owner, ReserveFollowup(t, o)
          PROVE  Goal
      <3>1. /\ row'.turn = t /\ row'.lease = "live" /\ row.lease = "none"
            /\ input' = [input EXCEPT ![Oldest(Startable)].turn = t]
        BY <2>3 DEF ReserveFollowup, MayReserve, TakeRow, Leased
      <3>2. input'[i].turn = t \/ input'[i] = input[i]
        BY <3>1
      <3> QED  BY <3>1, <3>2
    <2>4. CASE RejectRevokedFollowup
      BY <1>2, <2>4 DEF RejectRevokedFollowup, RejectTaskInput, Rejected, RowSame
    <2>5. ASSUME NEW t \in Turn, NEW o \in Owner, SealNativeTaskInboxTurn(t, o)
          PROVE  Goal
      <3>1. i \notin PendingFor(t)
        BY <2>5 DEF SealNativeTaskInboxTurn, Leftover, Rejected, Detached
      <3>2. input'[i] = input[i] /\ RowSame
        BY <2>5, <3>1 DEF SealNativeTaskInboxTurn, RowSame
      <3> QED  BY <1>2, <3>2
    <2>6. ASSUME NEW t \in Turn, NEW o \in Owner, NEW x \in Outcome, NEW f \in SUBSET Revocable,
                 CloseTaskInboxTurn(t, o, x, f)
          PROVE  Goal
      <3>1. i \notin PendingFor(t)
        BY <2>6 DEF CloseTaskInboxTurn, Leftover, Rejected, Detached
      <3>2. input'[i] = input[i] /\ row.turn = t
        BY <2>6, <3>1 DEF CloseTaskInboxTurn, OwnsRow
      <3> QED  BY <3>1, <3>2 DEF PendingFor, Pending
    <2>7. ASSUME NEW o \in Owner, RecoverTaskInboxOwners(o)
          PROVE  Goal
      <3>1. input'[i] = IF input[i].turn # row.turn THEN input[i]
                        ELSE CASE input[i].state = "included" -> Uncertain(i)
                               [] input[i].state = "pending"  -> Leftover(i)
                               [] OTHER                       -> input[i]
        BY <2>7 DEF RecoverTaskInboxOwners
      <3>2. input[i].turn = row.turn => FALSE
        BY <3>1 DEF Uncertain, Leftover, Rejected, Detached
      <3> QED  BY <3>1, <3>2
    <2>8. CASE LeaseExpires
      BY <2>8 DEF LeaseExpires, Leased
    <2> QED  BY <1>4, <2>1, <2>2, <2>3, <2>4, <2>5, <2>6, <2>7, <2>8 DEF OwnerStep
  <1>5. CASE TurnStep \/ UNCHANGED storeVars
    BY <1>2, <1>5 DEF TurnStep, InsertTurn, FinishTurn, InterruptTurn, RowSame
  <1> QED  BY <1>3, <1>4, <1>5 DEF QuietStore

(* Without a new request, nothing becomes included and no error is lifted. *)
LEMMA IncludedBefore ==
  ASSUME TypeOK, [StoreNext]_storeVars, UNCHANGED req, NEW i \in Input, input'[i].state = "included"
  PROVE  /\ input[i].state = "included" /\ input'[i].turn = input[i].turn
         /\ ~input'[i].err => ~input[i].err
  <1>1. Edited(i) /\ input[i] \in InputRecord
    BY EveryEdit DEF TypeOK, InputRecord
  <1>2. input[i].state # "pending"
    <2> SUFFICES ASSUME input[i].state = "pending"
                 PROVE  FALSE
      OBVIOUS
    <2>1. PICK t \in Turn, o \in Owner, r \in Request, f \in SUBSET Revocable :
            \E b \in BatchOf(t, f) : IncludeTaskInputs(t, o, r, f, b)
      BY OnlyRequestsDeliver
    <2>2. PICK b : IncludeTaskInputs(t, o, r, f, b)
      BY <2>1
    <2>3. req[r].state = "none" /\ req'[r].state = "included"
      BY <2>2 DEF IncludeTaskInputs, TypeOK
    <2> QED  BY <2>3
  <1> QED
    BY <1>1, <1>2
    DEF Edited, Admitted, Judged, Answered, ReceiptAfter, Uncertain, InputRecord

(* Who waits for a provider goes on waiting, for the same request.         *)
Awaits ==
  \A t \in Turn : run[t].pc = "calling" => run'[t].pc = "calling" /\ RequestId(t)' = RequestId(t)

LEMMA WhoAnswers ==
  ASSUME NEW t \in Turn, RunStep(t), run[t].pc = "calling"
  PROVE  ProviderAnswers(t) \/ ProviderThrows(t)
  BY DEF RunStep, At, CheckIdle, PrepareFails, InsertStoredTurn, AdmissionFails, SetupFails,
         RegisterActiveTurn, BeginRequest, IncludeInputs, IncludeRefuses, JudgeFailure, NextRound,
         ActingFails, FinalAnswer, AskUser, DirectAnswer, CompleteTurn, FinishingFails, CatchError,
         WriteInterrupted, WriteFailed, Unregister, CloseInbox, Settled

LEMMA WhoAwaits ==
  ASSUME CallInv, [RuntimeNext]_vars, ~Crash, \A t \in Turn : ~(RunStep(t) /\ Requests(t))
  PROVE  Awaits
  <1>1. run \in [Turn -> CallRecord]
    BY DEF CallInv, RuntimeTypeOK, CallRecord
  <1>2. CASE UserStep
    BY <1>1, <1>2, CallsOfUser DEF Awaits, RequestId, Fresh, At, Go, CallRecord
  <1>3. CASE DispatchStep
    BY <1>1, <1>3, CallsOfDispatch DEF Awaits, RequestId
  <1>4. CASE NotifyStep \/ RecoverStep \/ FaultStep
    BY <1>4, CallsOfOthers DEF Awaits, RequestId
  <1>5. ASSUME NEW t \in Turn, RunStep(t)
        PROVE  Awaits
    <2>1. run[t].pc # "calling"
      BY <1>5, WhoAnswers DEF Requests
    <2> QED  BY <1>5, <2>1, RunStepLocal DEF Awaits, RequestId
  <1>6. CASE UNCHANGED vars
    BY <1>6 DEF vars, runtimeVars, Awaits, RequestId
  <1> QED  BY <1>2, <1>3, <1>4, <1>5, <1>6 DEF RuntimeNext

(* The steps that write no request.                                        *)
LEMMA LinkOfQuiet ==
  ASSUME Before, LinkInv, [RuntimeNext]_vars, Move, QuietStore, UNCHANGED req, CallsKept, Awaits,
         ~Crash, ~Restart, ~(RecoverOwners /\ Abandoned(me))
  PROVE  LinkInv'
  <1>1. TypeOK /\ CallInv /\ [StoreNext]_storeVars
    BY StepIsStoreStep DEF Before, CallInv
  <1>2. BoundInv'
    BY <1>1, QuietBinding DEF Before, HoldInv, LinkInv
  <1>3. ASSUME NEW i \in Input, input'[i].state = "included"
        PROVE  /\ input[i].state = "included" /\ input'[i].turn = input[i].turn
               /\ ~input'[i].err => ~input[i].err
    BY <1>1, <1>3, IncludedBefore
  <1>4. SentInv'
    <2> SUFFICES ASSUME NEW t \in Turn, run'[t].pc = "calling", NEW i \in req[RequestId(t)'].ids,
                        input'[i].state = "included"
                 PROVE  input'[i].turn = t
      BY DEF SentInv
    <2>1. run[t].pc = "calling" /\ RequestId(t)' = RequestId(t)
      BY DEF CallsKept, RequestId
    <2>2. i \in Input
      BY <1>1, <2>1, RequestIdTyped DEF TypeOK
    <2> QED  BY <1>3, <2>1, <2>2 DEF LinkInv, SentInv
  <1>5. IncludedInv'
    <2> SUFFICES ASSUME NEW i \in Input, input'[i].state = "included", ~input'[i].err
                 PROVE  (OutFor(i) \/ OfEarlierStart(i))'
      BY DEF IncludedInv
    <2>1. input'[i].turn = input[i].turn /\ (OutFor(i) \/ OfEarlierStart(i))
      BY <1>3 DEF LinkInv, IncludedInv
    <2>2. CASE OutFor(i)
      BY <2>1, <2>2 DEF OutFor, At, Awaits
    <2>3. CASE OfEarlierStart(i)
      <3>1. CASE Keeps
        BY <2>1, <2>3, <3>1 DEF Keeps, RowSame, SameServer, OfEarlierStart
      <3>2. ASSUME NEW t \in Turn, Takes(t)
            PROVE  FALSE
        BY <1>1, <2>3, <3>2 DEF Takes, OfEarlierStart, Before, HoldInv, OwnsRow, Leased, TypeOK
      <3>3. ASSUME NEW t \in Turn, Releases(t)
            PROVE  FALSE
        BY <2>3, <3>3 DEF Releases, OfEarlierStart, OwnsRow, Before, HolderInv, Alive
      <3> QED  BY <3>1, <3>2, <3>3 DEF Move, Moves, RecoversRow
    <2> QED  BY <2>1, <2>2, <2>3
  <1> QED  BY <1>2, <1>4, <1>5 DEF LinkInv

LEMMA LinkOfCrash ==
  ASSUME Before, LinkInv, Crash \/ Restart
  PROVE  LinkInv'
  <1>1. CallInv /\ TypeOK /\ UNCHANGED storeVars
    BY DEF Before, CallInv, Crash, Restart
  <1>2. \A t \in Turn : run'[t].pc # "calling"
    BY <1>1, CrashedCalls DEF Restart, Before, HolderInv, Up, Alive
  <1>3. BoundInv' /\ SentInv'
    BY <1>1, <1>2 DEF LinkInv, BoundInv, SentInv, Pending, storeVars
  <1>4. ASSUME NEW i \in Input, input[i].state = "included", ~input[i].err
        PROVE  OfEarlierStart(i)'
    <2>1. OutFor(i) \/ OfEarlierStart(i)
      BY <1>4 DEF LinkInv, IncludedInv
    <2>2. CASE OutFor(i)
      <3>1. input[i].turn \in Turn /\ run[input[i].turn].pc = "calling"
        BY <2>2 DEF OutFor, At
      <3>2. OwnsInbox(input[i].turn, me) /\ Up
        BY <3>1 DEF Before, HoldInv, HolderInv, Holding, Alive
      <3> QED
        BY <1>1, <3>2
        DEF OfEarlierStart, OwnsInbox, OwnsRow, Leased, Crash, Restart, Up, storeVars, Before,
            CallInv, RuntimeTypeOK
    <2>3. CASE OfEarlierStart(i)
      <3>1. CASE Crash
        BY <1>1, <2>3, <3>1 DEF OfEarlierStart, Crash, Up, storeVars, CallInv, RuntimeTypeOK
      <3>2. CASE Restart
        <4>1. me' = me + 1
          BY <1>1, <3>2 DEF Restart, me, CallInv, RuntimeTypeOK
        <4>2. row.owner \in Nat /\ row.owner <= me /\ me \in Nat
          BY <1>1, <2>3, MeTyped, OwnerAssumption DEF OfEarlierStart, Before, HoldInv
        <4> QED  BY <1>1, <2>3, <4>1, <4>2 DEF OfEarlierStart, storeVars
      <3> QED  BY <3>1, <3>2
    <2> QED  BY <2>1, <2>2, <2>3
  <1>5. IncludedInv'
    BY <1>1, <1>4 DEF IncludedInv, storeVars
  <1> QED  BY <1>3, <1>5 DEF LinkInv

LEMMA LinkOfInclude ==
  ASSUME Before, LinkInv, NEW t \in Turn, RunStep(t), IncludeInputs(t)
  PROVE  LinkInv'
  <1>1. /\ TypeOK /\ CallInv /\ UNCHANGED server
        /\ \A u \in Turn \ {t} : run'[u] = run[u]
    BY RunStepLocal DEF Before, CallInv
  <1>2. run[t].pc = "begun" /\ OwnsInbox(t, me) /\ RequestId(t) \in Request /\ Up
    BY <1>1, RequestIdTyped DEF IncludeInputs, At, Before, HoldInv, HolderInv, Holding, Alive
  <1>2a. PICK f \in SUBSET Revocable :
          \E b \in BatchOf(t, f) : IncludeTaskInputs(t, me, RequestId(t), f, b) /\ Go(t, "calling")
    BY <1>2 DEF IncludeInputs
  <1>3. PICK b \in BatchOf(t, f) :
          IncludeTaskInputs(t, me, RequestId(t), f, b) /\ Go(t, "calling")
    BY <1>2a
  <1>4. /\ run'[t].pc = "calling" /\ RequestId(t)' = RequestId(t)
        /\ \A u \in Turn : run'[u].pc = "calling" => u = t
    <2>1. \A u \in Turn : run[u].pc # "calling"
      BY <1>2, OneHolder DEF Before, OwnsInbox, Holding, Alive
    <2> QED  BY <1>1, <1>3, <2>1, GoesTo DEF Go, RequestId, CallInv, RuntimeTypeOK
  <1>5. UNCHANGED row /\ req'[RequestId(t)].ids = b
    BY <1>1, <1>2, <1>3 DEF IncludeTaskInputs, TypeOK
  <1>6. ASSUME NEW i \in Input
        PROVE  /\ i \in b => input'[i].turn = t
               /\ i \notin b => input'[i].state = "rejected" \/ input'[i] = input[i]
    <2>1. input[i] \in InputRecord
      BY <1>1, EditsTyped
    <2> QED  BY <1>3, <2>1 DEF IncludeTaskInputs, Delivered, Rejected, InputRecord
  <1>7. ASSUME NEW i \in b
        PROVE  i \in Input /\ input'[i].state = "included"
    <2>1. i \in PendingFor(t)
      BY <1>7 DEF BatchOf
    <2>2. i \in Input /\ input'[i] = Delivered(i, t) /\ input[i] \in InputRecord
      BY <1>1, <1>3, <2>1, EditsTyped DEF IncludeTaskInputs, PendingFor, Pending
    <2> QED  BY <2>2 DEF Delivered, InputRecord
  <1>8. BoundInv'
    BY <1>5, <1>6, <1>7 DEF BoundInv, Pending, LinkInv
  <1>9. SentInv'
    BY <1>4, <1>5, <1>6, <1>7 DEF SentInv
  <1>10. IncludedInv'
    <2> SUFFICES ASSUME NEW i \in Input, input'[i].state = "included", ~input'[i].err
                 PROVE  OutFor(i)'
      BY DEF IncludedInv
    <2>1. CASE i \in b
      BY <1>4, <1>5, <1>6, <2>1 DEF OutFor, At
    <2>2. CASE i \notin b
      <3>1. OutFor(i) \/ OfEarlierStart(i)
        BY <1>6, <2>2 DEF LinkInv, IncludedInv
      <3>2. ~OfEarlierStart(i)
        BY <1>2 DEF OfEarlierStart, OwnsInbox, OwnsRow
      <3>3. ~OutFor(i)
        BY <1>2, OneHolder DEF OutFor, At, Before, OwnsInbox, Holding, Alive
      <3> QED  BY <3>1, <3>2, <3>3
    <2> QED  BY <2>1, <2>2
  <1> QED  BY <1>8, <1>9, <1>10 DEF LinkInv

LEMMA LinkOfSettlement ==
  ASSUME Before, LinkInv, NEW t \in Turn, RunStep(t), ProviderAnswers(t) \/ ProviderThrows(t)
  PROVE  LinkInv'
  <1>1. /\ TypeOK /\ CallInv /\ UNCHANGED server
        /\ \A u \in Turn \ {t} : run'[u] = run[u]
    BY RunStepLocal DEF Before, CallInv
  <1>2. run[t].pc = "calling" /\ OwnsInbox(t, me) /\ Up
    BY <1>1 DEF ProviderAnswers, ProviderThrows, At, Before, HoldInv, HolderInv, Holding, Alive
  <1>3. PICK x \in {"resolved", "failed", "replaced"} : SettleTaskInputRequest(RequestId(t), x)
    BY DEF ProviderAnswers, ProviderThrows
  <1>4. \A u \in Turn : run[u].pc = "calling" => u = t
    BY <1>2, OneHolder DEF Before, OwnsInbox, Holding, Alive
  <1>5. \A u \in Turn : run'[u].pc # "calling"
    <2>1. run'[t].pc \in {"acting", "judging"}
      BY <1>1, GoesTo DEF ProviderAnswers, ProviderThrows
    <2> QED  BY <1>1, <1>4, <2>1
  <1>6. ASSUME NEW i \in Input
        PROVE  \/ input'[i] = input[i] /\ ~(i \in req[RequestId(t)].ids /\ input[i].state = "included")
               \/ /\ i \in req[RequestId(t)].ids /\ input[i].state = "included"
                  /\ input'[i].turn = input[i].turn
                  /\ input'[i].state = "included" => input'[i].err
    <2>1. input[i] \in InputRecord
      BY <1>1, EditsTyped
    <2> QED
      BY <1>3, <2>1 DEF SettleTaskInputRequest, Answered, ReceiptAfter, InputRecord
  <1>7. BoundInv'
    <2>1. UNCHANGED row /\ row.turn = t /\ row.lease # "none"
      BY <1>2, <1>3 DEF SettleTaskInputRequest, OwnsInbox, OwnsRow, Leased
    <2> QED  BY <1>2, <1>6, <2>1 DEF LinkInv, SentInv, BoundInv, Pending
  <1>8. SentInv'
    BY <1>5 DEF SentInv
  <1>9. IncludedInv'
    <2> SUFFICES ASSUME NEW i \in Input, input'[i].state = "included", ~input'[i].err
                 PROVE  FALSE
      BY DEF IncludedInv
    <2>1. /\ input'[i] = input[i]
          /\ i \notin req[RequestId(t)].ids
      BY <1>6
    <2>2. OutFor(i) \/ OfEarlierStart(i)
      BY <2>1 DEF LinkInv, IncludedInv
    <2> QED
      BY <1>2, <1>4, <2>1, <2>2 DEF OutFor, At, OfEarlierStart, OwnsInbox, OwnsRow
  <1> QED  BY <1>7, <1>8, <1>9 DEF LinkInv

(* Recovery marks every inclusion of the turn it finds in the row; no call *)
(* of this start has it.                                                   *)
LEMMA LinkOfRecovery ==
  ASSUME Before, LinkInv, RecoverOwners, Abandoned(me)
  PROVE  LinkInv'
  <1>1. TypeOK /\ CallInv /\ UNCHANGED run /\ RecoverTaskInboxOwners(me)
    BY DEF Before, CallInv, RecoverOwners
  <1>2. \A t \in Turn : run[t].pc # "calling"
    BY DEF Abandoned, Before, HoldInv, OwnsInbox, OwnsRow, Holding, Alive
  <1>3. BoundInv'
    <2>1. QuietStore
      BY <1>1, MeTyped DEF QuietStore, OwnerStep
    <2> QED  BY <1>1, <2>1, QuietBinding DEF Before, HoldInv, LinkInv
  <1>4. SentInv'
    BY <1>1, <1>2 DEF SentInv
  <1>5. IncludedInv'
    <2> SUFFICES ASSUME NEW i \in Input, input'[i].state = "included", ~input'[i].err
                 PROVE  FALSE
      BY DEF IncludedInv
    <2>1. input[i] \in InputRecord
      BY <1>1, EditsTyped
    <2>2. input'[i] = IF input[i].turn # row.turn THEN input[i]
                      ELSE CASE input[i].state = "included" -> Uncertain(i)
                             [] input[i].state = "pending"  -> Leftover(i)
                             [] OTHER                       -> input[i]
      BY <1>1 DEF RecoverTaskInboxOwners
    <2>3. input[i].turn # row.turn /\ input'[i] = input[i]
      BY <2>1, <2>2 DEF Uncertain, Leftover, Rejected, Detached, InputRecord
    <2> QED  BY <1>2, <2>3 DEF LinkInv, IncludedInv, OutFor, At, OfEarlierStart
  <1> QED  BY <1>3, <1>4, <1>5 DEF LinkInv

LEMMA LinkStep ==
  ASSUME Renewed, Before, LinkInv, [RuntimeNext]_vars
  PROVE  LinkInv'
  <1>1. Move /\ CallInv /\ HolderInv
    BY EveryMove DEF Before
  <1>2. CASE Crash \/ Restart
    BY <1>2, LinkOfCrash
  <1>3. ASSUME NEW t \in Turn, RunStep(t), Requests(t)
        PROVE  LinkInv'
    BY <1>3, LinkOfInclude, LinkOfSettlement DEF Requests
  <1>4. CASE RecoverOwners /\ Abandoned(me)
    BY <1>4, LinkOfRecovery
  <1>5. ASSUME ~Crash, ~Restart, ~(RecoverOwners /\ Abandoned(me)),
               \A t \in Turn : ~(RunStep(t) /\ Requests(t)),
               QuietStore, UNCHANGED req, CallsKept
        PROVE  LinkInv'
    <2>1. Awaits
      BY <1>1, <1>5, WhoAwaits
    <2> QED  BY <1>1, <1>5, <2>1, LinkOfQuiet
  <1>6. CASE UNCHANGED vars
    <2>1. QuietStore /\ UNCHANGED req /\ CallsKept
      BY <1>6 DEF vars, storeVars, runtimeVars, QuietStore, CallsKept
    <2> QED  BY <1>2, <1>3, <1>4, <1>5, <2>1
  <1>7. CASE UserStep \/ DispatchStep \/ NotifyStep
    <2>1. QuietStore /\ UNCHANGED req /\ CallsKept
      BY <1>1, <1>7, UserStepQuiet, DispatchStepQuiet, OtherStepQuiet, UserMoves, DispatchMoves,
         NotifyMoves
      DEF Others
    <2> QED  BY <1>2, <1>3, <1>4, <1>5, <2>1
  <1>8. ASSUME NEW t \in Turn, RunStep(t), ~Requests(t)
        PROVE  LinkInv'
    <2>1. QuietStore /\ UNCHANGED req /\ CallsKept
      BY <1>1, <1>8, RunStepQuiet, RunStepLocal DEF Requests, CallsKept
    <2> QED  BY <1>2, <1>3, <1>4, <1>5, <2>1
  <1>9. ASSUME RecoverStep \/ FaultStep, ~Crash, ~Restart, ~(RecoverOwners /\ Abandoned(me))
        PROVE  LinkInv'
    <2>1. QuietStore
      BY <1>1, <1>9, OtherStepQuiet
    <2>2. UNCHANGED req /\ CallsKept
      <3>1. UNCHANGED req
        BY <1>9
        DEF RecoverStep, RecoverOwners, RecoverTurn, InterruptIfRunning, InterruptTurn, FaultStep,
            LeaseLapses, LeaseExpires, HeartbeatFails, storeVars
      <3>2. UNCHANGED run
        BY <1>9 DEF RecoverStep, RecoverOwners, RecoverTurn, FaultStep, LeaseLapses, HeartbeatFails,
                    runtimeVars
      <3> QED  BY <3>1, <3>2 DEF CallsKept
    <2> QED  BY <1>2, <1>3, <1>4, <1>5, <2>1, <2>2
  <1> QED  BY <1>2, <1>3, <1>4, <1>6, <1>7, <1>8, <1>9 DEF RuntimeNext, RecoverStep

LEMMA LinksAlways ==
  ASSUME Renewed
  PROVE  RuntimeSpec => []LinkInv
  <1>1. RuntimeInit => LinkInv
    BY DEF RuntimeInit, StoreInit, LinkInv, BoundInv, SentInv, IncludedInv, Pending, Unsent, IdleRun
  <1>2. Before /\ LinkInv /\ [RuntimeNext]_vars => LinkInv'
    BY LinkStep
  <1> QED  BY <1>1, <1>2, BeforeAlways, PTL DEF RuntimeSpec

(***************************************************************************)
(* No input waits for a turn that will never look, or be recovered.        *)
(***************************************************************************)
THEOREM NoInputStranded ==
  ASSUME Renewed
  PROVE  RuntimeSpec => []NoStrandedInput
  <1>1. Before /\ LinkInv => NoStrandedInput
    <2> SUFFICES ASSUME Before, BoundInv, NEW i \in Pending, input[i].turn # NoTurn
                 PROVE  /\ row.turn = input[i].turn
                        /\ row.lease # "none"
                        /\ run[row.turn].pc \in Alive \/ Abandoned(me) \/ ~Up
      BY DEF NoStrandedInput, LinkInv
    <2>1. row.turn = input[i].turn /\ row.lease # "none"
      BY DEF BoundInv
    <2>2. row.owner = me /\ Up => run[row.turn].pc \in Alive
      BY <2>1 DEF Before, HoldInv, Holding, Alive
    <2> QED  BY <2>1, <2>2 DEF Abandoned
  <1> QED  BY <1>1, BeforeAlways, LinksAlways, PTL

(***************************************************************************)
(* A receipt that says "included" without an error has its request out,    *)
(* or belongs to a server start that recovery has not settled yet.         *)
(***************************************************************************)
THEOREM InclusionsAreLive ==
  ASSUME Renewed
  PROVE  RuntimeSpec => []InclusionIsLive
  <1>1. LinkInv => InclusionIsLive
    BY DEF LinkInv, IncludedInv, OutFor, OfEarlierStart, InclusionIsLive, At
  <1> QED  BY <1>1, LinksAlways, PTL

-----------------------------------------------------------------------------
(* The end of a hosted turn.  Between its final answer, or its question to *)
(* the user, and the closing of its inbox it takes no correction, and none *)
(* is waiting unless the queue is paused.                                  *)
Hosted == Paths = {"hosted"}

ClosedTo(t) == ~row.accepting /\ (row.paused \/ \A i \in Pending : input[i].turn # t)

SealInv ==
  /\ \A t \in Turn : run[t].pc \in HasStatus => tstatus[t] # "completed"
  /\ \A t \in Turn : Finishing(t) => ClosedTo(t)

LEMMA WhoHasStatus ==
  ASSUME CallInv, NEW t \in Turn, RunStep(t), run'[t].pc \in HasStatus
  PROVE  run[t].pc \in HasStatus \/ InsertStoredTurn(t)
  <1>1. run \in [Turn -> CallRecord]
    BY DEF CallInv, RuntimeTypeOK, CallRecord
  <1>2. CASE CheckIdle(t) \/ PrepareFails(t) \/ AdmissionFails(t) \/ SetupFails(t)
    BY <1>1, <1>2
    DEF CheckIdle, PrepareFails, AdmissionFails, SetupFails, Go, Throws, At, CallRecord, HasStatus
  <1>3. CASE WriteFailed(t) \/ Settled(t) \/ CloseInbox(t) \/ Unregister(t)
    BY <1>1, <1>3 DEF WriteFailed, Settled, CloseInbox, Unregister, Go, CallRecord, HasStatus
  <1>4. ASSUME NEW i \in Input, IncludeRefuses(t, i)
        PROVE  run[t].pc \in HasStatus
    BY <1>4 DEF IncludeRefuses, At, HasStatus
  <1>5. CASE RegisterActiveTurn(t) \/ BeginRequest(t) \/ Requests(t) \/ JudgeFailure(t)
    BY <1>5
    DEF RegisterActiveTurn, BeginRequest, Requests, IncludeInputs, ProviderAnswers,
        ProviderThrows, JudgeFailure, At, HasStatus
  <1>6. CASE NextRound(t) \/ ActingFails(t) \/ FinalAnswer(t) \/ AskUser(t) \/ DirectAnswer(t)
    BY <1>6 DEF NextRound, ActingFails, FinalAnswer, AskUser, DirectAnswer, At, HasStatus
  <1>7. CASE CompleteTurn(t) \/ FinishingFails(t) \/ CatchError(t) \/ WriteInterrupted(t)
    BY <1>7 DEF CompleteTurn, FinishingFails, CatchError, WriteInterrupted, At, HasStatus
  <1> QED
    BY <1>2, <1>3, <1>4, <1>5, <1>6, <1>7, Zenon DEF RunStep, Requests

LEMMA CompletedLast ==
  ASSUME CallInv, SealInv, [RuntimeNext]_vars
  PROVE  \A t \in Turn : run'[t].pc \in HasStatus => tstatus'[t] # "completed"
  <1> DEFINE Goal == \A t \in Turn : run'[t].pc \in HasStatus => tstatus'[t] # "completed"
  <1>1. ASSUME Statuses, \A t \in Turn : run'[t].pc \in HasStatus => run[t].pc \in HasStatus
        PROVE  Goal
    BY <1>1 DEF Statuses, SealInv, HasStatus
  <1>2. CASE UserStep
    <2>1. run \in [Turn -> CallRecord]
      BY DEF CallInv, RuntimeTypeOK, CallRecord
    <2> QED  BY <1>1, <1>2, <2>1, UserStatuses, CallsOfUser DEF Go, CallRecord, HasStatus
  <1>3. CASE DispatchStep
    BY <1>1, <1>3, DispatchStatuses, CallsOfDispatch DEF HasStatus, Statuses
  <1>4. CASE NotifyStep \/ RecoverStep \/ FaultStep
    <2>1. \A t \in Turn : run'[t].pc \in {run[t].pc, "lost"}
      BY <1>4, CallsLost
    <2> QED  BY <1>1, <1>4, <2>1, OtherStatuses DEF HasStatus
  <1>5. ASSUME NEW t \in Turn, RunStep(t), ~InsertStoredTurn(t)
        PROVE  Goal
    BY <1>1, <1>5, RunStatuses, RunStepLocal, WhoHasStatus
  <1>6. ASSUME NEW t \in Turn, RunStep(t), InsertStoredTurn(t)
        PROVE  Goal
    <2>1. /\ tstatus' = [tstatus EXCEPT ![t] = "in_progress"]
          /\ tstatus \in [Turn -> {"none", "in_progress"} \cup Outcome]
      BY <1>6 DEF InsertStoredTurn, InsertTurn, CallInv, TypeOK
    <2> QED  BY <1>6, <2>1, RunStepLocal DEF SealInv
  <1>7. CASE UNCHANGED vars
    BY <1>7 DEF vars, storeVars, runtimeVars, SealInv
  <1> QED  BY <1>2, <1>3, <1>4, <1>5, <1>6, <1>7 DEF RuntimeNext

(* How a call comes to its end.                                            *)
LEMMA WhoFinishes ==
  ASSUME Hosted, CallInv, SealInv, NEW t \in Turn, RunStep(t), Finishing(t)'
  PROVE  Finishing(t) \/ FinalAnswer(t) \/ AskUser(t)
  <1>1. run \in [Turn -> CallRecord]
    BY DEF CallInv, RuntimeTypeOK, CallRecord
  <1> USE <1>1 DEF Finishing, Go, Throws, At, CallRecord
  <1>2. CASE CheckIdle(t) \/ PrepareFails(t) \/ AdmissionFails(t) \/ SetupFails(t)
    BY <1>2 DEF CheckIdle, PrepareFails, AdmissionFails, SetupFails
  <1>3. CASE InsertStoredTurn(t) \/ RegisterActiveTurn(t) \/ BeginRequest(t) \/ Requests(t)
    BY <1>3
    DEF InsertStoredTurn, RegisterActiveTurn, BeginRequest, Requests, IncludeInputs,
        ProviderAnswers, ProviderThrows
  <1>4. ASSUME NEW i \in Input, IncludeRefuses(t, i)
        PROVE  Finishing(t)
    BY <1>4 DEF IncludeRefuses, runtimeVars
  <1>5. CASE JudgeFailure(t) \/ NextRound(t) \/ ActingFails(t) \/ FinishingFails(t) \/ CatchError(t)
    BY <1>5 DEF JudgeFailure, NextRound, ActingFails, FinishingFails, CatchError
  <1>6. CASE DirectAnswer(t)
    BY <1>6 DEF DirectAnswer, Hosted
  <1>7. CASE CompleteTurn(t)
    BY <1>7 DEF CompleteTurn
  <1>8. CASE WriteInterrupted(t)
    <2>1. tstatus[t] # "completed"
      BY <1>8 DEF WriteInterrupted, SealInv, HasStatus
    <2>2. tstatus'[t] # "completed"
      BY <1>8, <2>1
      DEF WriteInterrupted, InterruptIfRunning, InterruptTurn, CallInv, TypeOK, storeVars
    <2> QED  BY <1>8, <2>2 DEF WriteInterrupted
  <1>9. CASE WriteFailed(t) \/ Unregister(t) \/ CloseInbox(t) \/ Settled(t)
    BY <1>9 DEF WriteFailed, Unregister, CloseInbox, Settled
  <1> QED
    BY <1>2, <1>3, <1>4, <1>5, <1>6, <1>7, <1>8, <1>9, Zenon DEF RunStep, Requests

(* A step keeps the inbox of a finishing turn closed if it leaves the row  *)
(* as it is and makes no input pending for that turn.                      *)
LEMMA ClosedIfSame ==
  ASSUME NEW t \in Turn, ClosedTo(t), UNCHANGED row,
         \A i \in Pending' : input'[i].turn = t => i \in Pending /\ input[i].turn = t
  PROVE  ClosedTo(t)'
  BY DEF ClosedTo

LEMMA UserKeepsClosed ==
  ASSUME CallInv, UserStep, NEW t \in Turn, OwnsInbox(t, me), ~Fresh(t), ClosedTo(t)
  PROVE  ClosedTo(t)'
  <1>1. TypeOK /\ input \in [Input -> InputRecord] /\ ~SteerTarget(t) /\ Leased /\ row.turn = t
    BY DEF CallInv, TypeOK, InputRecord, ClosedTo, SteerTarget, OwnsInbox, OwnsRow
  <1>2. ASSUME NEW i \in Input, NEW kind \in UserKinds, NEW u \in Turn, UserAdmits(i, kind, u)
        PROVE  ClosedTo(t)'
    <2>1. /\ UNCHANGED row
          /\ input' = [input EXCEPT ![i] = [kind |-> kind, state |-> "pending",
                                            turn |-> NoTurn, err |-> FALSE]]
      BY <1>2 DEF UserAdmits, AdmitTaskInput, AttachTo, ClosedTo
    <2> QED  BY <1>1, <2>1, ClosedIfSame, NoTurnAssumption DEF Pending
  <1>3. ASSUME NEW i \in Input, UserResumes(i) \/ UserCancels(i)
        PROVE  ClosedTo(t)'
    <2>1. UserCancels(i)
      BY <1>1, <1>3 DEF UserResumes, ResumeQueue
    <2>2. UNCHANGED row /\ input' = [input EXCEPT ![i].state = "cancelled"]
      BY <2>1 DEF UserCancels, CancelInput
    <2> QED  BY <1>1, <2>2, ClosedIfSame DEF Pending, InputRecord
  <1>4. ASSUME NEW i \in Input, NEW u \in Turn, UserPromotes(i, u)
        PROVE  FALSE
    BY <1>1, <1>4 DEF UserPromotes, PromoteToSteer, SteerTarget
  <1>5. ASSUME NEW u \in Turn, UserStops(u)
        PROVE  ClosedTo(t)'
    BY <1>5, ClosedIfSame DEF UserStops, InterruptIfRunning, InterruptTurn, storeVars, Pending
  <1>6. ASSUME NEW u \in Turn, UserSends(u)
        PROVE  FALSE
    BY <1>1, <1>6 DEF UserSends, OpenTaskInboxTurn, OwnsRow
  <1> QED  BY <1>2, <1>3, <1>4, <1>5, <1>6 DEF UserStep

LEMMA RejectKeepsClosed ==
  ASSUME TypeOK, NEW t \in Turn, ClosedTo(t), NEW i \in Input, RejectTaskInput(i)
  PROVE  ClosedTo(t)'
  <1>1. input \in [Input -> InputRecord]
    BY DEF TypeOK, InputRecord
  <1> QED  BY <1>1, ClosedIfSame DEF RejectTaskInput, Rejected, Pending, InputRecord

LEMMA DispatchKeepsClosed ==
  ASSUME CallInv, DispatchStep, NEW t \in Turn, OwnsInbox(t, me), Finishing(t), ClosedTo(t)
  PROVE  ClosedTo(t)'
  <1>1. TypeOK /\ Leased /\ row.turn = t /\ ~MayReserve
    BY DEF CallInv, OwnsInbox, OwnsRow, MayReserve
  <1>2. ASSUME UNCHANGED storeVars
        PROVE  ClosedTo(t)'
    BY <1>2, ClosedIfSame DEF storeVars, Pending
  <1>3. CASE DispatchLooks
    BY <1>2, <1>3 DEF DispatchLooks
  <1>4. CASE DispatchReserves
    BY <1>1, <1>2, <1>4 DEF DispatchReserves, RejectRevokedFollowup, ReserveFollowup
  <1>5. ASSUME NEW u \in Turn, DispatchStarts(u)
        PROVE  FALSE
    BY <1>1, <1>5 DEF DispatchStarts, OpenTaskInboxTurn, OwnsRow, At, Finishing
  <1>6. ASSUME NEW u \in Turn, DispatchRefused(u) \/ DispatchContinues(u)
        PROVE  ClosedTo(t)'
    BY <1>2, <1>6 DEF DispatchRefused, DispatchContinues
  <1>7. ASSUME NEW u \in Turn, DispatchCloses(u)
        PROVE  ClosedTo(t)'
    BY <1>1, <1>2, <1>7 DEF DispatchCloses, CloseTaskInboxTurn, OwnsRow, At, Finishing
  <1>8. ASSUME NEW u \in Turn, DispatchRejects(u)
        PROVE  ClosedTo(t)'
    <2>1. UNCHANGED storeVars \/ \E i \in Input : RejectTaskInput(i)
      BY <1>8 DEF DispatchRejects, Pending
    <2> QED  BY <1>1, <1>2, <2>1, RejectKeepsClosed
  <1> QED  BY <1>3, <1>4, <1>5, <1>6, <1>7, <1>8 DEF DispatchStep

LEMMA RunKeepsClosed ==
  ASSUME Before, NEW u \in Turn, RunStep(u), NEW t \in Turn, OwnsInbox(t, me), Finishing(t),
         Finishing(t)', ClosedTo(t)
  PROVE  ClosedTo(t)'
  <1>1. /\ CallInv /\ TypeOK /\ Leased /\ row.turn = t
        /\ run[u].pc \in Holding => u = t
    BY OneHolder DEF Before, CallInv, OwnsInbox, OwnsRow
  <1>2. ASSUME UNCHANGED <<input, row>>
        PROVE  ClosedTo(t)'
    BY <1>2, ClosedIfSame DEF Pending
  <1> USE DEF At, Finishing, Holding, Alive, storeVars
  <1>3. CASE CheckIdle(u) \/ PrepareFails(u) \/ SetupFails(u) \/ RegisterActiveTurn(u)
    BY <1>2, <1>3 DEF CheckIdle, PrepareFails, SetupFails, RegisterActiveTurn
  <1>4. CASE InsertStoredTurn(u) \/ AdmissionFails(u)
    BY <1>2, <1>4 DEF InsertStoredTurn, InsertTurn, AdmissionFails, FinishTurn
  <1>5. CASE BeginRequest(u) \/ JudgeFailure(u) \/ NextRound(u) \/ ActingFails(u)
    BY <1>2, <1>5 DEF BeginRequest, JudgeFailure, NextRound, ActingFails
  <1>6. CASE Requests(u) \/ FinalAnswer(u) \/ AskUser(u)
    BY <1>1, <1>6
    DEF Requests, IncludeInputs, ProviderAnswers, ProviderThrows, FinalAnswer, AskUser
  <1>7. ASSUME NEW i \in Input, IncludeRefuses(u, i)
        PROVE  ClosedTo(t)'
    BY <1>1, <1>7, RejectKeepsClosed DEF IncludeRefuses
  <1>8. CASE \/ DirectAnswer(u) \/ FinishingFails(u) \/ CatchError(u) \/ Unregister(u)
             \/ Settled(u)
    BY <1>2, <1>8 DEF DirectAnswer, FinishingFails, CatchError, Unregister, Settled
  <1>9. CASE CompleteTurn(u) \/ WriteInterrupted(u) \/ WriteFailed(u)
    BY <1>2, <1>9
    DEF CompleteTurn, WriteInterrupted, WriteFailed, FinishTurn, InterruptIfRunning, InterruptTurn
  <1>10. CASE CloseInbox(u)
    <2>1. u # t
      BY <1>1, <1>10, GoesTo DEF CloseInbox
    <2> QED  BY <1>1, <1>2, <1>10, <2>1 DEF CloseInbox, CloseTaskInboxTurn, OwnsRow
  <1> QED
    BY <1>3, <1>4, <1>5, <1>6, <1>7, <1>8, <1>9, <1>10, Zenon DEF RunStep, Requests

LEMMA OtherKeepsClosed ==
  ASSUME Renewed, NotifyStep \/ RecoverStep \/ FaultStep \/ UNCHANGED vars,
         NEW t \in Turn, OwnsInbox(t, me), ClosedTo(t)
  PROVE  ClosedTo(t)'
  <1>1. UNCHANGED <<input, row>>
    BY DEF NotifyStep, NotifyAbort, NotifySchedule, RecoverStep, RecoverOwners, RecoverTurn,
           Abandoned, OwnsInbox, OwnsRow, FaultStep, Crash, Restart, LeaseLapses, HeartbeatFails,
           InterruptIfRunning, InterruptTurn, Renewed, vars, storeVars
  <1> QED  BY <1>1, ClosedIfSame DEF Pending

(* The transactions that close it.                                         *)
LEMMA AnswerCloses ==
  ASSUME TypeOK, NEW t \in Turn, FinalAnswer(t) \/ AskUser(t)
  PROVE  ClosedTo(t)'
  BY DEF TypeOK, FinalAnswer, AskUser, SealTaskInboxTurn, PauseTaskInboxTurn, ClosedTo, PendingFor,
         Pending

LEMMA OutcomeKept ==
  ASSUME CallInv, NotifyStep \/ RecoverStep \/ FaultStep, ~Crash, NEW t \in Turn
  PROVE  run'[t].out = run[t].out
  <1>1. ASSUME NEW i \in Input, NotifyAbort(i)
        PROVE  run'[t].out = run[t].out
    <2>1. run[t] \in CallRecord /\ Requesting(t) \in BOOLEAN
      BY DEF CallInv, RuntimeTypeOK, CallRecord, Requesting
    <2>2. PICK b : run'[t] = [run[t] EXCEPT !.replaced = b]
      BY <1>1, Zenon DEF NotifyAbort
    <2> QED  BY <2>1, <2>2 DEF CallRecord
  <1>2. UNCHANGED run \/ \E i \in Input : NotifyAbort(i)
    BY DEF NotifyStep, NotifySchedule, RecoverStep, RecoverOwners, RecoverTurn,
           FaultStep, Restart, LeaseLapses, HeartbeatFails, runtimeVars
  <1> QED  BY <1>1, <1>2

LEMMA SealStep ==
  ASSUME Renewed, Hosted, Before, SealInv, [RuntimeNext]_vars
  PROVE  SealInv'
  <1>1. TypeOK /\ CallInv /\ run \in [Turn -> CallRecord]
    BY DEF Before, CallInv, RuntimeTypeOK, CallRecord
  <1>2. \A t \in Turn : Finishing(t) => OwnsInbox(t, me) /\ ClosedTo(t) /\ ~Fresh(t)
    BY DEF Before, HoldInv, SealInv, Finishing, Holding, Alive, Fresh, At
  <1> SUFFICES ASSUME NEW t \in Turn, Finishing(t)'
               PROVE  ClosedTo(t)'
    BY <1>1, CompletedLast DEF SealInv
  <1>3. CASE UserStep
    <2>1. Finishing(t)
      BY <1>1, <1>3, CallsOfUser DEF Finishing, Go, CallRecord
    <2> QED  BY <1>1, <1>2, <1>3, <2>1, UserKeepsClosed
  <1>4. CASE DispatchStep
    <2>1. Finishing(t)
      BY <1>1, <1>4, CallsOfDispatch DEF Finishing
    <2> QED  BY <1>1, <1>2, <1>4, <2>1, DispatchKeepsClosed
  <1>5. ASSUME NEW u \in Turn, RunStep(u)
        PROVE  ClosedTo(t)'
    <2>1. Finishing(t) \/ FinalAnswer(t) \/ AskUser(t)
      <3>1. CASE u = t
        BY <1>1, <1>5, <3>1, WhoFinishes
      <3>2. CASE u # t
        BY <1>1, <1>5, <3>2, RunStepLocal DEF Finishing
      <3> QED  BY <3>1, <3>2
    <2> QED  BY <1>1, <1>2, <1>5, <2>1, RunKeepsClosed, AnswerCloses
  <1>6. CASE NotifyStep \/ RecoverStep \/ FaultStep \/ UNCHANGED vars
    <2>1. Finishing(t)
      <3>1. ~Crash
        BY <1>1, CrashedCalls DEF Finishing, Alive
      <3>2. CASE UNCHANGED vars
        BY <3>2 DEF vars, runtimeVars, Finishing
      <3> QED  BY <1>1, <1>6, <3>1, <3>2, CallsOfOthers, OutcomeKept DEF Finishing
    <2> QED  BY <1>2, <1>6, <2>1, OtherKeepsClosed
  <1> QED  BY <1>3, <1>4, <1>5, <1>6 DEF RuntimeNext

LEMMA SealAlways ==
  ASSUME Renewed, Hosted
  PROVE  RuntimeSpec => []SealInv
  <1>1. RuntimeInit => SealInv
    BY DEF RuntimeInit, StoreInit, SealInv, Finishing, IdleRun, HasStatus
  <1>2. Before /\ SealInv /\ [RuntimeNext]_vars => SealInv'
    BY SealStep
  <1> QED  BY <1>1, <1>2, BeforeAlways, PTL DEF RuntimeSpec

(***************************************************************************)
(* A hosted turn that gave its final answer has seen every correction it   *)
(* had accepted: the seal finds the inbox empty and closes it in one       *)
(* transaction, and until the row is given up nothing opens it again.      *)
(***************************************************************************)
THEOREM CorrectionsAreSeen ==
  ASSUME Renewed, Hosted
  PROVE  RuntimeSpec => []NoCorrectionDropped
  <1>1. SealInv => NoCorrectionDropped
    BY DEF SealInv, Finishing, ClosedTo, NoCorrectionDropped
  <1> QED  BY <1>1, SealAlways, PTL

-----------------------------------------------------------------------------
(* No ghosts.  A turn that is in progress is run by its call; if that call *)
(* is lost, recovery has still to find the turn in the row, or has found   *)
(* it.  Two steps forget a turn, and no other: its setup fails between its *)
(* insertion and its registration, or a crash comes after recovery closed  *)
(* the row and before it interrupted the turn.                             *)
SetupFailure == \E t \in Turn : SetupFails(t)

RecoveryCut == Crash /\ server.phase = "restoring" /\ server.orphan \in InProgress

Forgets == SetupFailure \/ RecoveryCut

Ended == {"ended", "closing", "closed", "threw", "refused", "done"}

ToRecover(t) ==
  /\ row.turn = t /\ row.lease # "none" /\ (row.owner # me \/ ~Up)
  /\ server.phase \in {"down", "recovering"}

Recovering(t) == server.phase = "restoring" /\ server.orphan = t

GhostInv ==
  /\ \A t \in InProgress : run[t].pc \notin Ended
  /\ \A t \in InProgress : run[t].pc = "lost" => ToRecover(t) \/ Recovering(t)

LEMMA WhoEnds ==
  ASSUME ~SetupFailure, CallInv, NEW t \in Turn, RunStep(t), run'[t].pc \in Ended
  PROVE  run[t].pc \in Ended \/ (run[t].pc \in Early /\ UNCHANGED tstatus)
           \/ tstatus'[t] # "in_progress"
  <1> DEFINE Goal == run[t].pc \in Ended \/ (run[t].pc \in Early /\ UNCHANGED tstatus)
                       \/ tstatus'[t] # "in_progress"
  <1>1. TypeOK /\ run \in [Turn -> CallRecord]
    BY DEF CallInv, RuntimeTypeOK, CallRecord
  <1> USE <1>1 DEF Go, At, CallRecord, Ended, Early
  <1>2. CASE CheckIdle(t) \/ PrepareFails(t)
    BY <1>2 DEF CheckIdle, PrepareFails, storeVars
  <1>3. CASE SetupFails(t)
    BY <1>3 DEF SetupFailure
  <1>4. CASE AdmissionFails(t) \/ CompleteTurn(t) \/ WriteFailed(t)
    <2>1. FinishTurn(t, "failed") \/ FinishTurn(t, "completed")
      BY <1>4 DEF AdmissionFails, CompleteTurn, WriteFailed
    <2> QED  BY <2>1 DEF FinishTurn, TypeOK
  <1>5. CASE WriteInterrupted(t)
    <2>1. InterruptIfRunning(t)
      BY <1>5 DEF WriteInterrupted
    <2> QED  BY <2>1 DEF InterruptIfRunning, InterruptTurn, InProgress, TypeOK, storeVars
  <1>6. CASE InsertStoredTurn(t) \/ RegisterActiveTurn(t) \/ BeginRequest(t) \/ Requests(t)
    BY <1>6
    DEF InsertStoredTurn, RegisterActiveTurn, BeginRequest, Requests, IncludeInputs,
        ProviderAnswers, ProviderThrows
  <1>7. ASSUME NEW i \in Input, IncludeRefuses(t, i)
        PROVE  Goal
    BY <1>7 DEF IncludeRefuses, runtimeVars
  <1>8. CASE JudgeFailure(t) \/ NextRound(t) \/ ActingFails(t) \/ FinalAnswer(t) \/ AskUser(t)
    BY <1>8 DEF JudgeFailure, NextRound, ActingFails, FinalAnswer, AskUser
  <1>9. CASE DirectAnswer(t) \/ FinishingFails(t) \/ CatchError(t)
    BY <1>9 DEF DirectAnswer, FinishingFails, CatchError
  <1>10. CASE Unregister(t) \/ CloseInbox(t) \/ Settled(t)
    BY <1>10 DEF Unregister, CloseInbox, Settled
  <1> QED
    BY <1>2, <1>3, <1>4, <1>5, <1>6, <1>7, <1>8, <1>9, <1>10, Zenon DEF RunStep, Requests

LEMMA NeverLost ==
  ASSUME CallInv, NEW t \in Turn, RunStep(t)
  PROVE  run'[t].pc # "lost"
  <1>1. run \in [Turn -> CallRecord] /\ run[t].pc # "lost"
    BY RunStepLocal DEF CallInv, RuntimeTypeOK, CallRecord, Alive
  <1> USE <1>1 DEF Go, Throws, CallRecord
  <1>2. CASE CheckIdle(t) \/ PrepareFails(t) \/ AdmissionFails(t) \/ SetupFails(t)
    BY <1>2 DEF CheckIdle, PrepareFails, AdmissionFails, SetupFails
  <1>3. CASE InsertStoredTurn(t) \/ RegisterActiveTurn(t) \/ BeginRequest(t) \/ Requests(t)
    BY <1>3
    DEF InsertStoredTurn, RegisterActiveTurn, BeginRequest, Requests, IncludeInputs,
        ProviderAnswers, ProviderThrows
  <1>4. ASSUME NEW i \in Input, IncludeRefuses(t, i)
        PROVE  run'[t].pc # "lost"
    BY <1>4 DEF IncludeRefuses, runtimeVars
  <1>5. CASE JudgeFailure(t) \/ NextRound(t) \/ ActingFails(t) \/ FinalAnswer(t) \/ AskUser(t)
    BY <1>5 DEF JudgeFailure, NextRound, ActingFails, FinalAnswer, AskUser
  <1>6. CASE DirectAnswer(t) \/ FinishingFails(t) \/ CatchError(t)
    BY <1>6 DEF DirectAnswer, FinishingFails, CatchError
  <1>7. CASE CompleteTurn(t) \/ WriteInterrupted(t) \/ WriteFailed(t)
    BY <1>7 DEF CompleteTurn, WriteInterrupted, WriteFailed
  <1>8. CASE Unregister(t) \/ CloseInbox(t) \/ Settled(t)
    BY <1>8 DEF Unregister, CloseInbox, Settled
  <1> QED
    BY <1>2, <1>3, <1>4, <1>5, <1>6, <1>7, <1>8, Zenon DEF RunStep, Requests

(* The steps of a server that goes on as it is.                            *)
LEMMA GhostOfServing ==
  ASSUME Before, GhostInv, Moves, UNCHANGED server,
         \A t \in InProgress' : run'[t].pc \in Ended => FALSE,
         \A t \in InProgress' : run'[t].pc = "lost" => t \in InProgress /\ run[t].pc = "lost"
  PROVE  GhostInv'
  <1>1. ASSUME NEW t \in InProgress', run'[t].pc = "lost"
        PROVE  (ToRecover(t) \/ Recovering(t))'
    <2>1. ToRecover(t) \/ Recovering(t)
      BY <1>1 DEF GhostInv
    <2>2. CASE Recovering(t)
      BY <2>2 DEF Recovering
    <2>3. CASE ToRecover(t)
      <3>1. CASE Keeps
        BY <2>3, <3>1 DEF Keeps, RowSame, ToRecover, me, Up
      <3>2. ASSUME NEW u \in Turn, Takes(u)
            PROVE  FALSE
        BY <2>3, <3>2 DEF Takes, ToRecover, Before, HoldInv, CallInv, TypeOK, OwnsRow, Leased
      <3>3. ASSUME NEW u \in Turn, Releases(u)
            PROVE  FALSE
        BY <2>3, <3>3 DEF Releases, ToRecover, OwnsRow, Before, HolderInv, Alive
      <3> QED  BY <3>1, <3>2, <3>3 DEF Moves
    <2> QED  BY <2>1, <2>2, <2>3
  <1> QED  BY <1>1 DEF GhostInv, me

LEMMA GhostOfCrash ==
  ASSUME ~RecoveryCut, Before, TurnInv, GhostInv, Crash
  PROVE  GhostInv'
  <1>1. TypeOK /\ CallInv /\ Up /\ server.phase # "down"
    BY DEF Before, CallInv, Crash, Up
  <1>2. /\ server'.phase = "down" /\ me' = me /\ row' = row /\ InProgress' = InProgress
    BY <1>1 DEF Crash, me, storeVars, CallInv, RuntimeTypeOK, InProgress
  <1>3. ASSUME NEW t \in InProgress
        PROVE  run'[t].pc \notin Ended /\ (run'[t].pc = "lost" => ToRecover(t)')
    <2>1. t \in Turn /\ run[t].pc \notin Ended /\ run[t].pc \notin Early
      BY <1>1 DEF GhostInv, TurnInv, InProgress
    <2>2. run[t].pc \in Holding \cup {"lost"} /\ run'[t].pc = "lost"
      BY <1>1, <2>1, CrashedCalls DEF CallInv, RuntimeTypeOK, Pc, Alive, Holding, Ended, Early
    <2>3. CASE run[t].pc \in Holding
      <3>1. OwnsInbox(t, me)
        BY <2>1, <2>3 DEF Before, HoldInv
      <3> QED  BY <1>2, <2>2, <3>1 DEF OwnsInbox, OwnsRow, Leased, ToRecover, Up, Ended
    <2>4. CASE run[t].pc = "lost"
      <3>1. ToRecover(t)
        BY <1>3, <2>4 DEF GhostInv, RecoveryCut, Recovering
      <3> QED  BY <1>2, <2>2, <3>1 DEF ToRecover, Up, Ended
    <2> QED  BY <2>2, <2>3, <2>4
  <1> QED  BY <1>2, <1>3 DEF GhostInv

LEMMA GhostOfRecovery ==
  ASSUME Before, GhostInv, Restart \/ RecoverStep
  PROVE  GhostInv'
  <1>1. TypeOK /\ CallInv /\ UNCHANGED run
    BY DEF Before, CallInv, Restart, RecoverStep, RecoverOwners, RecoverTurn
  <1>2. CASE Restart
    <2>1. /\ server.phase = "down" /\ server'.phase = "recovering" /\ me' = me + 1
          /\ row' = row /\ InProgress' = InProgress
      BY <1>1, <1>2 DEF Restart, me, storeVars, CallInv, RuntimeTypeOK, InProgress
    <2>2. \A t \in InProgress : run[t].pc = "lost" => ToRecover(t)'
      <3>1. me \in Nat
        BY MeTyped, OwnerAssumption DEF Before, CallInv
      <3> QED  BY <1>1, <2>1, <3>1 DEF GhostInv, Recovering, ToRecover, Before, HoldInv
    <2> QED  BY <1>1, <2>1, <2>2 DEF GhostInv
  <1>3. CASE RecoverOwners
    <2>1. /\ server.phase = "recovering" /\ server'.phase = "restoring" /\ me' = me
          /\ Abandoned(me) => server'.orphan = row.turn
          /\ InProgress' = InProgress
      BY <1>1, <1>3
      DEF RecoverOwners, RecoverTaskInboxOwners, me, storeVars, CallInv, RuntimeTypeOK, InProgress
    <2>2. ASSUME NEW t \in InProgress, run[t].pc = "lost"
          PROVE  Recovering(t)'
      <3>1. ToRecover(t)
        BY <2>1, <2>2 DEF GhostInv, Recovering
      <3>2. Abandoned(me)
        BY <2>1, <3>1, NoTurnAssumption DEF ToRecover, Abandoned, Up, InProgress
      <3> QED  BY <2>1, <3>1, <3>2 DEF ToRecover, Recovering
    <2> QED  BY <1>1, <2>1, <2>2 DEF GhostInv
  <1>4. CASE RecoverTurn
    <2>1. /\ server.phase = "restoring" /\ server'.phase = "ready"
          /\ InterruptIfRunning(server.orphan)
      BY <1>1, <1>4 DEF RecoverTurn, CallInv, RuntimeTypeOK
    <2>2. InProgress' \subseteq InProgress \ {server.orphan}
      BY <1>1, <2>1 DEF InterruptIfRunning, InterruptTurn, InProgress, TypeOK, storeVars
    <2>3. \A t \in InProgress' : run[t].pc # "lost"
      BY <2>1, <2>2 DEF GhostInv, ToRecover, Recovering
    <2> QED  BY <1>1, <2>1, <2>2, <2>3 DEF GhostInv
  <1> QED  BY <1>2, <1>3, <1>4 DEF RecoverStep

LEMMA GhostStep ==
  ASSUME Renewed, ~Forgets, Before, TurnInv, GhostInv, [RuntimeNext]_vars
  PROVE  GhostInv'
  <1>1. TypeOK /\ CallInv /\ HolderInv /\ run \in [Turn -> CallRecord]
    BY DEF Before, CallInv, RuntimeTypeOK, CallRecord
  <1>2. ASSUME Statuses
        PROVE  InProgress' \subseteq InProgress
    BY <1>2 DEF Statuses, InProgress
  <1>3. CASE UserStep
    <2>1. UNCHANGED server
      BY <1>3 DEF UserStep, UserAdmits, UserResumes, UserCancels, UserPromotes, UserStops,
                  UserSends, runtimeVars
    <2>2. \A t \in Turn : run'[t].pc \in {run[t].pc, "opened"}
      BY <1>1, <1>3, CallsOfUser DEF Go, CallRecord
    <2> QED
      BY <1>1, <1>2, <1>3, <2>1, <2>2, UserRowMoves, UserStatuses, GhostOfServing
      DEF GhostInv, Ended, InProgress
  <1>4. CASE DispatchStep
    <2>1. UNCHANGED server
      BY <1>4 DEF DispatchStep, DispatchLooks, DispatchReserves, DispatchStarts, DispatchRefused,
                  DispatchContinues, DispatchCloses, DispatchRejects
    <2>2. UNCHANGED tstatus
      BY <1>1, <1>4, DispatchStatuses
    <2>3. \A t \in Turn : /\ run'[t].pc = "lost" => run[t].pc = "lost"
                          /\ run'[t].pc \in Ended => run[t].pc \in Ended \cup Early
      BY <1>1, <1>4, CallsOfDispatch DEF Ended, Early
    <2>4. InProgress' = InProgress
      BY <2>2 DEF InProgress
    <2>5. \A t \in InProgress : run[t].pc \notin Ended \cup Early
      BY DEF GhostInv, TurnInv, InProgress
    <2> QED
      BY <1>4, <2>1, <2>3, <2>4, <2>5, DispatchRowMoves, GhostOfServing DEF InProgress
  <1>5. ASSUME NEW t \in Turn, RunStep(t)
        PROVE  GhostInv'
    <2>1. UNCHANGED server /\ \A u \in Turn \ {t} : run'[u] = run[u] /\ run[t].pc \in Alive
      BY <1>1, <1>5, RunStepLocal
    <2>2. \A u \in InProgress' \ {t} : u \in InProgress
      BY <1>1, <1>5, RunStatuses
      DEF Statuses, InsertStoredTurn, InsertTurn, InProgress, TypeOK
    <2>3. t \in InProgress' => run'[t].pc \notin Ended
      <3>1. CASE InsertStoredTurn(t)
        BY <1>1, <3>1, GoesTo DEF InsertStoredTurn, Ended
      <3>2. CASE ~InsertStoredTurn(t)
        <4>1. t \in InProgress' => t \in InProgress
          BY <1>1, <1>2, <1>5, <3>2, RunStatuses
        <4>2. t \in InProgress => run[t].pc \notin Ended /\ run[t].pc \notin Early
          BY DEF GhostInv, TurnInv, InProgress
        <4> QED  BY <1>1, <1>5, <4>1, <4>2, WhoEnds DEF InProgress, Forgets
      <3> QED  BY <3>1, <3>2
    <2>4. run'[t].pc # "lost"
      BY <1>1, <1>5, NeverLost
    <2> QED
      BY <1>5, <2>1, <2>2, <2>3, <2>4, RunRowMoves, GhostOfServing DEF GhostInv, InProgress
  <1>6. CASE Crash
    BY <1>6, GhostOfCrash DEF Forgets
  <1>7. CASE Restart \/ RecoverStep
    BY <1>7, GhostOfRecovery
  <1>8. CASE NotifyStep \/ (\E t \in Turn : HeartbeatFails(t)) \/ UNCHANGED vars
    <2>1. UNCHANGED <<storeVars, server>> /\ \A t \in Turn : run'[t].pc = run[t].pc
      <3>1. CASE NotifyStep
        <4>1. ~Crash
          BY <1>1, <3>1 DEF NotifyStep, NotifyAbort, NotifySchedule, Crash, HolderInv, Up,
                            CallInv, RuntimeTypeOK
        <4> QED  BY <1>1, <3>1, <4>1, CallsOfOthers DEF NotifyStep, NotifyAbort, NotifySchedule
      <3> QED  BY <1>8, <3>1 DEF HeartbeatFails, vars, runtimeVars
    <2>2. Moves
      <3>1. RowSame /\ SameServer
        BY <1>1, <2>1, RowSameBy DEF SameServer, me, Up
      <3> QED  BY <2>1, <3>1 DEF Moves, Keeps
    <2> QED  BY <2>1, <2>2, GhostOfServing DEF GhostInv, InProgress, storeVars
  <1> QED
    BY <1>3, <1>4, <1>5, <1>6, <1>7, <1>8
    DEF RuntimeNext, FaultStep, LeaseLapses, Renewed

(***************************************************************************)
(* Once a server has recovered, a turn in progress is one that it runs,    *)
(* through any number of crashes and restarts, as long as no step forgets  *)
(* a turn: recovery by rows (recover) leaves out no other.                 *)
(***************************************************************************)
THEOREM NoGhosts ==
  ASSUME Renewed
  PROVE  RuntimeSpec /\ [][~Forgets]_vars => []NoGhostTurn
  <1>1. RuntimeInit => GhostInv
    BY DEF RuntimeInit, StoreInit, GhostInv, InProgress
  <1>2. Before /\ TurnInv /\ GhostInv /\ [RuntimeNext]_vars /\ [~Forgets]_vars => GhostInv'
    <2> SUFFICES ASSUME Before, TurnInv, GhostInv, [RuntimeNext]_vars, [~Forgets]_vars
                 PROVE  GhostInv'
      OBVIOUS
    <2>1. CASE ~Forgets
      BY <2>1, GhostStep
    <2>2. CASE UNCHANGED vars
      BY <2>2 DEF vars, storeVars, runtimeVars, GhostInv, InProgress, ToRecover, Recovering, me, Up
    <2> QED  BY <2>1, <2>2
  <1>3. Before /\ TurnInv /\ GhostInv => NoGhostTurn
    <2> SUFFICES ASSUME Before, TurnInv, GhostInv, server.phase = "ready", NEW t \in InProgress
                 PROVE  run[t].pc \in Alive
      BY DEF NoGhostTurn
    <2>1. run[t].pc \in Pc /\ run[t].pc \notin Ended \cup Early \cup {"lost"}
      BY DEF Before, CallInv, RuntimeTypeOK, GhostInv, TurnInv, InProgress, ToRecover, Recovering
    <2> QED  BY <2>1 DEF Pc, Ended, Early
  <1> QED  BY <1>1, <1>2, <1>3, BeforeAlways, TurnsAlone, PTL DEF RuntimeSpec

-----------------------------------------------------------------------------
(***************************************************************************)
(* What the processes may do to one input, with what each of them knows    *)
(* when it does it.  A store transaction alone says less (Edited): any     *)
(* caller could settle any request or give any turn up.                    *)
(***************************************************************************)
Arrives(i) ==
  /\ input[i].state = "absent" /\ \A j \in Input : j < i => input[j].state # "absent"
  /\ input'[i].state = "pending" /\ input'[i].kind \in UserKinds /\ ~input'[i].err
  /\ input'[i].turn \in {row.turn, NoTurn} /\ UNCHANGED row

Binds(i) ==
  /\ input[i].state = "pending" /\ input[i].turn = NoTurn /\ input[i].kind \in Starter
  /\ row'.turn \in Turn
  /\ input'[i] = Steered(i, row'.turn) \/ input'[i] = [input[i] EXCEPT !.turn = row'.turn]

Departs(i) ==
  \E t \in Turn : /\ run[t].pc = "begun" /\ OwnsInbox(t, me) /\ UNCHANGED row
                  /\ i \in PendingFor(t) /\ input'[i] = Delivered(i, t)

Withdrawn(i) ==
  /\ input[i].state = "pending"
  /\ input'[i] = Rejected(i) \/ input'[i] = [input[i] EXCEPT !.state = "cancelled"]

GivenUp(i) ==
  input[i].state = "pending" /\ row'.lease = "none" /\ row'.turn = row.turn /\ input'[i] = Detached(i)

Returns(i) ==
  \E t \in Turn : /\ run[t].pc = "calling" /\ run'[t].pc \in {"acting", "judging"}
                  /\ i \in req[RequestId(t)].ids /\ input[i].state = "included"
                  /\ \E x \in {"resolved", "failed", "replaced"} :
                       input'[i] = Answered(i, x) /\ (run'[t].pc = "acting" => x = "resolved")

Orphaned(i) == input[i].state = "included" /\ Abandoned(me) /\ input'[i] = Uncertain(i)

Changed(i) ==
  \/ Arrives(i) \/ Binds(i) \/ Departs(i) \/ Withdrawn(i) \/ GivenUp(i) \/ Returns(i) \/ Orphaned(i)

Touched(i) == input'[i] = input[i] \/ Changed(i)

LEMMA RejectTouches ==
  ASSUME TypeOK, NEW j, RejectTaskInput(j), NEW i \in Input
  PROVE  Touched(i)
  BY DEF TypeOK, RejectTaskInput, Touched, Changed, Withdrawn

LEMMA CloseTouches ==
  ASSUME TypeOK, NEW t, NEW o, NEW x, NEW f, CloseTaskInboxTurn(t, o, x, f), NEW i \in Input
  PROVE  Touched(i)
  <1>1. row'.lease = "none" /\ row'.turn = row.turn
    BY DEF CloseTaskInboxTurn, TypeOK
  <1>2. \/ input'[i] = input[i]
        \/ input[i].state = "pending" /\ (input'[i] = Rejected(i) \/ input'[i] = Detached(i))
    BY DEF CloseTaskInboxTurn, PendingFor, Pending, Leftover
  <1> QED  BY <1>1, <1>2 DEF Touched, Changed, Withdrawn, GivenUp

LEMMA UserTouches ==
  ASSUME CallInv, UserStep, NEW i \in Input
  PROVE  Touched(i)
  <1>1. TypeOK /\ input \in [Input -> InputRecord]
    BY DEF CallInv, TypeOK, InputRecord
  <1>2. ASSUME NEW j \in Input, NEW kind \in UserKinds, NEW t \in Turn, UserAdmits(j, kind, t)
        PROVE  Touched(i)
    <2>1. CASE i = j
      <3>1. input'[i] = [kind |-> kind, state |-> "pending", turn |-> AttachTo(kind), err |-> FALSE]
        BY <1>1, <1>2, <2>1 DEF UserAdmits, AdmitTaskInput
      <3>2. AttachTo(kind) \in {row.turn, NoTurn}
        BY DEF AttachTo
      <3>3. Arrives(i)
        BY <1>2, <2>1, <3>1, <3>2 DEF Arrives, UserAdmits, AdmitTaskInput
      <3> QED  BY <3>3 DEF Touched, Changed
    <2>2. CASE i # j
      BY <1>1, <1>2, <2>2 DEF UserAdmits, AdmitTaskInput, Touched
    <2> QED  BY <2>1, <2>2
  <1>3. ASSUME NEW j \in Input, UserResumes(j)
        PROVE  Touched(i)
    BY <1>3 DEF UserResumes, ResumeQueue, Touched
  <1>4. ASSUME NEW j \in Input, UserCancels(j)
        PROVE  Touched(i)
    BY <1>1, <1>4 DEF UserCancels, CancelInput, Editable, Touched, Changed, Withdrawn
  <1>5. ASSUME NEW j \in Input, NEW t \in Turn, UserPromotes(j, t)
        PROVE  Touched(i)
    <2>1. CASE i = j
      <3>1. /\ input[i].state = "pending" /\ input[i].turn = NoTurn /\ input[i].kind = "queued"
            /\ row'.turn = t /\ input'[i] = Steered(i, t)
        BY <1>1, <1>5, <2>1 DEF UserPromotes, PromoteToSteer, Editable, SteerTarget
      <3> QED  BY <3>1 DEF Touched, Changed, Binds, Starter
    <2>2. CASE i # j
      BY <1>1, <1>5, <2>2 DEF UserPromotes, PromoteToSteer, Touched
    <2> QED  BY <2>1, <2>2
  <1>6. ASSUME NEW t \in Turn, UserStops(t)
        PROVE  Touched(i)
    BY <1>6 DEF UserStops, InterruptIfRunning, InterruptTurn, storeVars, Touched
  <1>7. ASSUME NEW t \in Turn, UserSends(t)
        PROVE  Touched(i)
    BY <1>7 DEF UserSends, OpenTaskInboxTurn, Touched
  <1> QED  BY <1>2, <1>3, <1>4, <1>5, <1>6, <1>7 DEF UserStep

(* What a reservation takes.                                               *)
LEMMA ReservedInput ==
  ASSUME TypeOK, NEW t \in Turn, NEW o \in Owner, ReserveFollowup(t, o)
  PROVE  /\ Oldest(Startable) \in Startable /\ \A j \in Startable : Oldest(Startable) <= j
         /\ ~Leased /\ row'.turn = t
         /\ input'[Oldest(Startable)] = [input[Oldest(Startable)] EXCEPT !.turn = t]
         /\ \A i \in Input : i # Oldest(Startable) => input'[i] = input[i]
  <1>1. Startable # {} /\ Startable \in SUBSET Input /\ ~Leased /\ row'.turn = t
    BY DEF ReserveFollowup, MayReserve, Startable, Pending, TakeRow
  <1>2. Oldest(Startable) \in Startable /\ \A j \in Startable : Oldest(Startable) <= j
    BY <1>1, OldestIn
  <1>3. input' = [input EXCEPT ![Oldest(Startable)].turn = t]
    BY DEF ReserveFollowup
  <1>4. Oldest(Startable) \in Input
    BY <1>1, <1>2
  <1> QED  BY <1>1, <1>2, <1>3, <1>4 DEF TypeOK

LEMMA DispatchTouches ==
  ASSUME CallInv, DispatchStep, NEW i \in Input
  PROVE  Touched(i)
  <1>1. TypeOK /\ me \in Owner
    BY MeTyped DEF CallInv
  <1>2. ASSUME NEW t \in Turn, ReserveFollowup(t, me)
        PROVE  Touched(i)
    <2>1. CASE i = Oldest(Startable)
      BY <1>1, <1>2, <2>1, ReservedInput DEF Touched, Changed, Binds, Startable, Pending
    <2>2. CASE i # Oldest(Startable)
      BY <1>1, <1>2, <2>2, ReservedInput DEF Touched
    <2> QED  BY <2>1, <2>2
  <1>3. ASSUME RejectRevokedFollowup
        PROVE  Touched(i)
    BY <1>1, <1>3, RejectTouches DEF RejectRevokedFollowup
  <1>4. CASE UNCHANGED storeVars
    BY <1>4 DEF storeVars, Touched
  <1>5. ASSUME NEW t \in Turn, DispatchStarts(t)
        PROVE  Touched(i)
    BY <1>5 DEF DispatchStarts, OpenTaskInboxTurn, Touched
  <1>6. ASSUME NEW t \in Turn, DispatchCloses(t)
        PROVE  Touched(i)
    BY <1>1, <1>4, <1>6, CloseTouches DEF DispatchCloses
  <1>7. ASSUME NEW t \in Turn, DispatchRejects(t)
        PROVE  Touched(i)
    BY <1>1, <1>4, <1>7, RejectTouches DEF DispatchRejects
  <1> QED
    BY <1>2, <1>3, <1>4, <1>5, <1>6, <1>7
    DEF DispatchStep, DispatchLooks, DispatchReserves, DispatchRefused, DispatchContinues

LEMMA RequestTouches ==
  ASSUME CallInv, NEW t \in Turn, RunStep(t), Requests(t), NEW i \in Input
  PROVE  Touched(i)
  <1>1. TypeOK
    BY DEF CallInv
  <1>2. ASSUME NEW f \in SUBSET Revocable, NEW b \in BatchOf(t, f), run[t].pc = "begun",
               IncludeTaskInputs(t, me, RequestId(t), f, b)
        PROVE  Touched(i)
    <2>1. b \subseteq PendingFor(t) /\ Refused(t, f, b) \subseteq PendingFor(t)
      BY DEF BatchOf, Refused
    <2>2. OwnsInbox(t, me) /\ UNCHANGED row
      BY <1>2 DEF IncludeTaskInputs
    <2>3. \/ input'[i] = input[i] \/ (i \in PendingFor(t) /\ input'[i] = Delivered(i, t))
          \/ i \in PendingFor(t) /\ input'[i] = Rejected(i)
      BY <1>2, <2>1 DEF IncludeTaskInputs
    <2> QED
      BY <1>2, <2>2, <2>3 DEF Touched, Changed, Departs, Withdrawn, PendingFor, Pending
  <1>3. CASE IncludeInputs(t)
    BY <1>2, <1>3 DEF IncludeInputs, At, storeVars, Touched
  <1>4. ASSUME NEW x \in {"resolved", "failed", "replaced"},
               SettleTaskInputRequest(RequestId(t), x), run[t].pc = "calling",
               run'[t].pc \in {"acting", "judging"}, run'[t].pc = "acting" => x = "resolved"
        PROVE  Touched(i)
    BY <1>4 DEF SettleTaskInputRequest, Touched, Changed, Returns
  <1>5. CASE ProviderAnswers(t)
    BY <1>4, <1>5, GoesTo DEF ProviderAnswers, At
  <1>6. CASE ProviderThrows(t)
    BY <1>4, <1>6, GoesTo DEF ProviderThrows, At
  <1> QED  BY <1>3, <1>5, <1>6 DEF Requests

LEMMA RunTouches ==
  ASSUME CallInv, NEW t \in Turn, RunStep(t), NEW i \in Input
  PROVE  Touched(i)
  <1>1. TypeOK
    BY DEF CallInv
  <1>2. CASE UNCHANGED input
    BY <1>2 DEF Touched
  <1>3. CASE Requests(t)
    BY <1>3, RequestTouches
  <1>4. ASSUME NEW j \in Input, IncludeRefuses(t, j)
        PROVE  Touched(i)
    BY <1>1, <1>4, RejectTouches DEF IncludeRefuses
  <1>5. CASE CloseInbox(t)
    BY <1>1, <1>2, <1>5, CloseTouches DEF CloseInbox, storeVars
  <1>6. CASE CheckIdle(t) \/ PrepareFails(t) \/ InsertStoredTurn(t) \/ AdmissionFails(t) \/ SetupFails(t)
    BY <1>2, <1>6
    DEF CheckIdle, PrepareFails, InsertStoredTurn, InsertTurn, AdmissionFails, FinishTurn,
        SetupFails, storeVars
  <1>7. CASE RegisterActiveTurn(t) \/ BeginRequest(t) \/ JudgeFailure(t) \/ NextRound(t) \/ ActingFails(t)
    BY <1>2, <1>7
    DEF RegisterActiveTurn, BeginRequest, JudgeFailure, NextRound, ActingFails, storeVars
  <1>8. CASE FinalAnswer(t) \/ AskUser(t) \/ DirectAnswer(t) \/ FinishingFails(t) \/ CatchError(t)
    BY <1>2, <1>8
    DEF FinalAnswer, SealTaskInboxTurn, AskUser, PauseTaskInboxTurn, DirectAnswer, FinishingFails,
        CatchError, storeVars
  <1>9. CASE CompleteTurn(t) \/ WriteInterrupted(t) \/ WriteFailed(t) \/ Unregister(t) \/ Settled(t)
    BY <1>2, <1>9
    DEF CompleteTurn, FinishTurn, WriteInterrupted, InterruptIfRunning, InterruptTurn, WriteFailed,
        Unregister, Settled, storeVars
  <1> QED
    BY <1>3, <1>4, <1>5, <1>6, <1>7, <1>8, <1>9, Zenon DEF RunStep, Requests

LEMMA EveryTouch ==
  ASSUME CallInv, [RuntimeNext]_vars, NEW i \in Input
  PROVE  Touched(i)
  <1>1. CASE UNCHANGED input
    BY <1>1 DEF Touched
  <1>2. CASE NotifyStep \/ FaultStep \/ RecoverTurn \/ UNCHANGED vars
    BY <1>1, <1>2
    DEF NotifyStep, NotifyAbort, NotifySchedule, FaultStep, Crash, Restart, LeaseLapses,
        LeaseExpires, HeartbeatFails, RecoverTurn, InterruptIfRunning, InterruptTurn, vars, storeVars
  <1>3. CASE RecoverOwners
    <2>1. CASE ~Abandoned(me)
      BY <1>1, <1>3, <2>1 DEF RecoverOwners, storeVars
    <2>2. CASE Abandoned(me)
      <3>1. row'.lease = "none" /\ row'.turn = row.turn
        BY <1>3, <2>2 DEF RecoverOwners, RecoverTaskInboxOwners, CallInv, TypeOK
      <3>2. \/ input'[i] = input[i]
            \/ input[i].state = "included" /\ input'[i] = Uncertain(i)
            \/ input[i].state = "pending" /\ (input'[i] = Rejected(i) \/ input'[i] = Detached(i))
        BY <1>3, <2>2 DEF RecoverOwners, RecoverTaskInboxOwners, Leftover
      <3> QED  BY <2>2, <3>1, <3>2 DEF Touched, Changed, Withdrawn, GivenUp, Orphaned
    <2> QED  BY <2>1, <2>2
  <1> QED
    BY <1>2, <1>3, UserTouches, DispatchTouches, RunTouches DEF RuntimeNext, RecoverStep

-----------------------------------------------------------------------------
(* What a step does to a call: it gets its input when it is reserved and   *)
(* keeps it, a turn id is not used again, and each place on the way to an  *)
(* answer is reached from the one before.                                  *)
Reserved(t) ==
  /\ Fresh(t) /\ run'[t].pc = "starting" /\ row'.turn = t
  /\ run'[t].seed = Oldest(Startable) /\ \E o \in Owner : ReserveFollowup(t, o)

Ahead(t) ==
  /\ run'[t].pc = "idle" => run[t].pc = "idle"
  /\ run'[t].seed = run[t].seed \/ Reserved(t)
  /\ run'[t].out = "completed" => run[t].out = "completed" \/ run[t].pc = "finishing"
  /\ run'[t].pc \in Holding => run[t].pc \in Holding \cup {"idle"}
  /\ run'[t].pc = "calling" => run[t].pc = "calling" \/ IncludeInputs(t)
  /\ run'[t].pc = "acting" => run[t].pc \in {"acting", "calling"}
  /\ run'[t].pc = "finishing" =>
       run[t].pc = "finishing" \/ (run[t].pc = "acting" /\ (FinalAnswer(t) \/ AskUser(t)))

LEMMA SameIsAhead ==
  ASSUME NEW t \in Turn, run'[t].pc = run[t].pc, run'[t].seed = run[t].seed, run'[t].out = run[t].out
  PROVE  Ahead(t)
  BY DEF Ahead

(* A call that goes to a place that is no answer.                          *)
LEMMA GoesAhead ==
  ASSUME CallInv, NEW t \in Turn, NEW x \in Pc, Go(t, x),
         x # "idle", x \in Holding => run[t].pc \in Holding \cup {"idle"},
         x \notin {"calling", "acting", "finishing"}
  PROVE  Ahead(t)
  <1>1. /\ run'[t].pc = x /\ run'[t].seed = run[t].seed /\ run'[t].out = run[t].out
    BY DEF CallInv, RuntimeTypeOK, Go
  <1> QED  BY <1>1 DEF Ahead

LEMMA UserAhead ==
  ASSUME CallInv, UserStep, NEW t \in Turn
  PROVE  Ahead(t)
  <1>1. CASE UNCHANGED run
    BY <1>1, SameIsAhead
  <1>2. ASSUME NEW u \in Turn, Fresh(u), Go(u, "opened")
        PROVE  Ahead(t)
    <2>1. CASE u = t
      BY <1>2, <2>1, GoesAhead DEF Fresh, At, Pc, Alive
    <2>2. CASE u # t
      BY <1>2, <2>2, GoesTo, SameIsAhead
    <2> QED  BY <2>1, <2>2
  <1> QED  BY <1>1, <1>2, CallsOfUser

LEMMA DispatchAhead ==
  ASSUME CallInv, DispatchStep, NEW t \in Turn
  PROVE  Ahead(t)
  <1>1. CASE UNCHANGED run
    BY <1>1, SameIsAhead
  <1>2. ASSUME NEW u \in Turn, Fresh(u), ReserveFollowup(u, me),
               run' = [run EXCEPT ![u].pc = "starting", ![u].seed = Oldest(Startable)]
        PROVE  Ahead(t)
    <2>1. CASE u = t
      <3>1. run'[t].pc = "starting" /\ run'[t].seed = Oldest(Startable) /\ run'[t].out = run[t].out
        BY <1>2, <2>1 DEF CallInv, RuntimeTypeOK
      <3>2. Reserved(t)
        BY <1>2, <2>1, <3>1, MeTyped DEF Reserved, ReserveFollowup, TakeRow
      <3> QED  BY <1>2, <2>1, <3>1, <3>2 DEF Ahead, Fresh, At
    <2>2. CASE u # t
      <3>1. run'[t] = run[t]
        BY <1>2, <2>2 DEF CallInv, RuntimeTypeOK
      <3> QED  BY <3>1, SameIsAhead
    <2> QED  BY <2>1, <2>2
  <1>3. ASSUME NEW u \in Turn, NEW x \in Pc, Go(u, x), u # t
        PROVE  Ahead(t)
    BY <1>3, GoesTo, SameIsAhead
  <1>4. ASSUME NEW u \in Turn,
               DispatchStarts(u) \/ DispatchRefused(u) \/ DispatchCloses(u) \/ DispatchRejects(u)
        PROVE  Ahead(t)
    <2>1. PICK x \in {"opened", "threw", "refused", "done"} :
            Go(u, x) /\ (x = "opened" => run[u].pc = "starting")
      BY <1>4 DEF DispatchStarts, DispatchRefused, DispatchCloses, DispatchRejects, At
    <2>2. x \in Pc /\ (x \in Holding => x = "opened")
      BY DEF Pc, Alive, Holding
    <2>3. CASE u = t
      BY <2>1, <2>2, <2>3, GoesAhead DEF Holding, Alive
    <2> QED  BY <1>3, <2>1, <2>2, <2>3
  <1> QED
    BY <1>1, <1>2, <1>4 DEF DispatchStep, DispatchLooks, DispatchReserves, DispatchContinues

LEMMA RunAhead ==
  ASSUME Hosted, CallInv, SealInv, NEW t \in Turn, RunStep(t)
  PROVE  Ahead(t)
  <1>1. TypeOK /\ run \in [Turn -> CallRecord] /\ run[t].pc \in Alive
    BY RunStepLocal DEF CallInv, RuntimeTypeOK, CallRecord
  <1>2. ASSUME Throws(t), run[t].pc \in Holding
        PROVE  Ahead(t)
    <2>1. run'[t].pc = "closing" /\ run'[t].seed = run[t].seed /\ run'[t].out = "failed"
      BY <1>1, <1>2 DEF Throws, CallRecord
    <2> QED  BY <1>2, <2>1 DEF Ahead
  <1>3. ASSUME NEW x \in Holding, Go(t, x), run[t].pc \in Holding,
               x \notin {"calling", "acting", "finishing"}
        PROVE  Ahead(t)
    BY <1>3, GoesAhead DEF Holding, Alive, Pc
  <1>4. ASSUME NEW x \in {"closed", "threw", "done"}, Go(t, x)
        PROVE  Ahead(t)
    BY <1>4, GoesAhead DEF Holding, Alive, Pc
  <1>5. ASSUME Go(t, "calling") \/ Go(t, "acting") \/ Go(t, "finishing")
        PROVE  run'[t].seed = run[t].seed /\ run'[t].out = run[t].out
    BY <1>1, <1>5 DEF Go, CallRecord
  <1>6. CASE CheckIdle(t) \/ PrepareFails(t) \/ AdmissionFails(t) \/ SetupFails(t)
    BY <1>2, <1>3, <1>6
    DEF CheckIdle, PrepareFails, AdmissionFails, SetupFails, At, Holding, Alive
  <1>7. CASE InsertStoredTurn(t) \/ RegisterActiveTurn(t) \/ JudgeFailure(t) \/ NextRound(t) \/ ActingFails(t)
    BY <1>3, <1>7
    DEF InsertStoredTurn, RegisterActiveTurn, JudgeFailure, NextRound, ActingFails, At, Holding, Alive
  <1>8. CASE BeginRequest(t)
    <2>1. ASSUME run' = [run EXCEPT ![t].pc = "begun", ![t].round = @ + 1, ![t].replaced = FALSE]
          PROVE  run'[t].pc = "begun" /\ run'[t].seed = run[t].seed /\ run'[t].out = run[t].out
      BY <1>1, <2>1 DEF CallRecord
    <2>2. run[t].pc = "round"
      BY <1>8 DEF BeginRequest, At
    <2>3. CASE Go(t, "throwing")
      BY <1>3, <2>2, <2>3 DEF Holding, Alive
    <2> QED  BY <1>8, <2>1, <2>2, <2>3 DEF BeginRequest, Ahead, Holding, Alive
  <1>9. CASE IncludeInputs(t)
    <2>1. run[t].pc = "begun"
      BY <1>9 DEF IncludeInputs, At
    <2>2. CASE Go(t, "judging")
      BY <1>3, <2>1, <2>2 DEF Holding, Alive
    <2>3. CASE Go(t, "calling")
      BY <1>5, <1>9, <2>1, <2>3, GoesTo DEF Ahead, Holding, Alive
    <2> QED  BY <1>9, <2>2, <2>3 DEF IncludeInputs
  <1>10. CASE ProviderAnswers(t)
    BY <1>5, <1>10, GoesTo DEF ProviderAnswers, At, Ahead, Holding, Alive
  <1>11. CASE ProviderThrows(t)
    BY <1>3, <1>11 DEF ProviderThrows, At, Holding, Alive
  <1>12. ASSUME NEW j \in Input, IncludeRefuses(t, j)
        PROVE  Ahead(t)
    BY <1>12, SameIsAhead DEF IncludeRefuses, runtimeVars
  <1>13. CASE FinalAnswer(t) \/ AskUser(t)
    BY <1>5, <1>13, GoesTo DEF FinalAnswer, AskUser, At, Ahead, Holding, Alive
  <1>14. CASE DirectAnswer(t)
    BY <1>14 DEF DirectAnswer, Hosted
  <1>15. CASE FinishingFails(t) \/ CatchError(t)
    BY <1>3, <1>15 DEF FinishingFails, CatchError, At, Holding, Alive
  <1>16. CASE CompleteTurn(t) \/ WriteFailed(t)
    <2>1. /\ run'[t].pc = "ended" /\ run'[t].seed = run[t].seed
          /\ run[t].pc \in {"finishing", "faulting"}
          /\ run'[t].out = "completed" => run[t].pc = "finishing"
      BY <1>1, <1>16 DEF CompleteTurn, WriteFailed, At, CallRecord
    <2> QED  BY <2>1 DEF Ahead, Holding, Alive
  <1>17. CASE WriteInterrupted(t)
    <2>1. tstatus[t] # "completed" /\ run[t].pc = "interrupting"
      BY <1>17 DEF WriteInterrupted, At, SealInv, HasStatus
    <2>2. tstatus'[t] # "completed"
      BY <1>17, <1>1, <2>1 DEF WriteInterrupted, InterruptIfRunning, InterruptTurn, TypeOK, storeVars
    <2>3. run'[t].pc = "ended" /\ run'[t].seed = run[t].seed /\ run'[t].out # "completed"
      BY <1>1, <1>17, <2>2 DEF WriteInterrupted, CallRecord
    <2> QED  BY <2>1, <2>3 DEF Ahead, Holding, Alive
  <1>18. CASE Unregister(t)
    <2>1. run[t].pc = "ended" /\ run'[t].pc = "closing" /\ run'[t].seed = run[t].seed /\ run'[t].out = run[t].out
      BY <1>1, <1>18 DEF Unregister, At, CallRecord
    <2> QED  BY <2>1 DEF Ahead, Holding, Alive
  <1>19. CASE CloseInbox(t) \/ Settled(t)
    BY <1>4, <1>19 DEF CloseInbox, Settled
  <1> QED
    BY <1>6, <1>7, <1>8, <1>9, <1>10, <1>11, <1>12, <1>13, <1>14, <1>15, <1>16, <1>17, <1>18, <1>19,
       Zenon
    DEF RunStep

LEMMA EveryAhead ==
  ASSUME Hosted, CallInv, SealInv, [RuntimeNext]_vars, NEW t \in Turn
  PROVE  Ahead(t)
  <1>1. ASSUME NEW u \in Turn, RunStep(u)
        PROVE  Ahead(t)
    <2>1. CASE u = t
      BY <1>1, <2>1, RunAhead
    <2>2. CASE u # t
      <3>1. run'[t] = run[t]
        BY <1>1, <2>2, RunStepLocal
      <3> QED  BY <3>1, SameIsAhead
    <2> QED  BY <2>1, <2>2
  <1>2. CASE Crash
    <2>1. CASE run[t].pc \in Alive
      <3>1. run'[t] = [run[t] EXCEPT !.pc = "lost"]
        BY <1>2, <2>1, Zenon DEF Crash
      <3>2. run'[t].pc = "lost" /\ run'[t].seed = run[t].seed /\ run'[t].out = run[t].out
        BY <3>1 DEF CallInv, RuntimeTypeOK
      <3> QED  BY <3>2 DEF Ahead, Holding, Alive
    <2>2. CASE run[t].pc \notin Alive
      <3>1. run'[t] = run[t]
        BY <1>2, <2>2, Zenon DEF Crash
      <3> QED  BY <3>1, SameIsAhead
    <2> QED  BY <2>1, <2>2
  <1>3. ASSUME NEW i \in Input, NotifyAbort(i)
        PROVE  Ahead(t)
    <2>1. run[t] \in CallRecord /\ Requesting(t) \in BOOLEAN
      BY DEF CallInv, RuntimeTypeOK, CallRecord, Requesting
    <2>2. PICK b : run'[t] = [run[t] EXCEPT !.replaced = b]
      BY <1>3, Zenon DEF NotifyAbort
    <2>3. run'[t].pc = run[t].pc /\ run'[t].seed = run[t].seed /\ run'[t].out = run[t].out
      BY <2>1, <2>2 DEF CallRecord
    <2> QED  BY <2>3, SameIsAhead
  <1>4. CASE UNCHANGED run
    BY <1>4, SameIsAhead
  <1> QED
    BY <1>1, <1>2, <1>3, <1>4, UserAhead, DispatchAhead
    DEF RuntimeNext, NotifyStep, NotifySchedule, RecoverStep, RecoverOwners, RecoverTurn, FaultStep,
        Restart, LeaseLapses, HeartbeatFails, vars, runtimeVars

-----------------------------------------------------------------------------
(* What the table of inputs keeps to, whoever writes it: they arrive in    *)
(* order, one in a request has its turn, one that waits has no error, and  *)
(* a turn that was not started has none.                                   *)
InputInv ==
  /\ \A i, j \in Input : j < i /\ input[j].state = "absent" => input[i].state = "absent"
  /\ \A i \in Input : input[i].state = "included" => input[i].turn \in Turn
  /\ \A i \in Pending : ~input[i].err
  /\ \A t \in Turn : Fresh(t) => row.turn # t /\ \A i \in Input : input[i].turn # t
  /\ \A t \in Turn : run[t].pc = "calling" =>
       \A i \in req[RequestId(t)].ids : input[i].state = "included" => ~input[i].err

(* The columns of an input that was touched.                               *)
LEMMA TouchedFields ==
  ASSUME TypeOK, NEW i \in Input
  PROVE  /\ input[i] \in InputRecord
         /\ Binds(i) => /\ input'[i].state = "pending" /\ input'[i].turn = row'.turn
                        /\ input'[i].err = input[i].err /\ input'[i].kind # "message"
         /\ Departs(i) => /\ input[i].state = "pending" /\ input'[i].state = "included"
                          /\ input'[i].turn = row.turn /\ row.turn \in Turn
                          /\ input'[i].err = input[i].err /\ input'[i].kind = input[i].kind
                          /\ input[i].turn = row.turn \/ input[i].kind = "message"
         /\ Withdrawn(i) => /\ input'[i].state \in {"rejected", "cancelled"}
                            /\ input'[i].turn = input[i].turn /\ input'[i].kind = input[i].kind
         /\ GivenUp(i) => /\ input'[i].state = "pending" /\ input'[i].turn = NoTurn
                          /\ input'[i].err = input[i].err /\ input'[i].kind = input[i].kind
         /\ Returns(i) => /\ input'[i].state \in {"resolved", "included", "pending"}
                          /\ input'[i].state = "included" => input'[i].err
                          /\ input'[i].state = "pending" => ~input'[i].err
                          /\ input'[i].turn = input[i].turn /\ input'[i].kind = input[i].kind
         /\ Orphaned(i) => /\ input'[i].state = "included" /\ input'[i].err
                           /\ input'[i].turn = input[i].turn /\ input'[i].kind = input[i].kind
  <1>1. input[i] \in InputRecord
    BY DEF TypeOK, InputRecord
  <1> USE <1>1 DEF InputRecord
  <1>2. Binds(i) => /\ input'[i].state = "pending" /\ input'[i].turn = row'.turn
                    /\ input'[i].err = input[i].err /\ input'[i].kind # "message"
    BY DEF Binds, Steered, Starter
  <1>3. Departs(i) => /\ input[i].state = "pending" /\ input'[i].state = "included"
                      /\ input'[i].turn = row.turn /\ row.turn \in Turn
                      /\ input'[i].err = input[i].err /\ input'[i].kind = input[i].kind
                      /\ input[i].turn = row.turn \/ input[i].kind = "message"
    BY DEF Departs, Delivered, OwnsInbox, OwnsRow, PendingFor, Pending
  <1>4. Withdrawn(i) => /\ input'[i].state \in {"rejected", "cancelled"}
                        /\ input'[i].turn = input[i].turn /\ input'[i].kind = input[i].kind
    BY DEF Withdrawn, Rejected
  <1>5. GivenUp(i) => /\ input'[i].state = "pending" /\ input'[i].turn = NoTurn
                      /\ input'[i].err = input[i].err /\ input'[i].kind = input[i].kind
    BY DEF GivenUp, Detached
  <1>6. Returns(i) => /\ input'[i].state \in {"resolved", "included", "pending"}
                      /\ input'[i].state = "included" => input'[i].err
                      /\ input'[i].state = "pending" => ~input'[i].err
                      /\ input'[i].turn = input[i].turn /\ input'[i].kind = input[i].kind
    BY DEF Returns, Answered, ReceiptAfter
  <1>7. Orphaned(i) => /\ input'[i].state = "included" /\ input'[i].err
                       /\ input'[i].turn = input[i].turn /\ input'[i].kind = input[i].kind
    BY DEF Orphaned, Uncertain
  <1> QED  BY <1>1, <1>2, <1>3, <1>4, <1>5, <1>6, <1>7

(* The manifests are written by requests and by recovery only.             *)
LEMMA ManifestsChange ==
  ASSUME CallInv, [RuntimeNext]_vars, ~(RecoverOwners /\ Abandoned(me)),
         \A t \in Turn : ~(RunStep(t) /\ Requests(t))
  PROVE  UNCHANGED req
  <1>1. CASE UserStep \/ DispatchStep \/ NotifyStep
    BY <1>1
    DEF UserStep, UserAdmits, AdmitTaskInput, UserResumes, ResumeQueue, UserCancels, CancelInput,
        UserPromotes, PromoteToSteer, UserStops, InterruptIfRunning, InterruptTurn, UserSends,
        OpenTaskInboxTurn, DispatchStep, DispatchLooks, DispatchReserves, ReserveFollowup,
        RejectRevokedFollowup, RejectTaskInput, DispatchStarts, DispatchRefused,
        DispatchContinues, DispatchCloses, CloseTaskInboxTurn, DispatchRejects, NotifyStep,
        NotifyAbort, NotifySchedule, storeVars
  <1>2. CASE RecoverStep \/ FaultStep \/ UNCHANGED vars
    BY <1>2
    DEF RecoverStep, RecoverOwners, RecoverTurn, InterruptIfRunning, InterruptTurn, FaultStep,
        Crash, Restart, LeaseLapses, LeaseExpires, HeartbeatFails, vars, storeVars
  <1>3. ASSUME NEW t \in Turn, RunStep(t)
        PROVE  UNCHANGED req
    BY <1>3, RunStepLocal
  <1> QED  BY <1>1, <1>2, <1>3 DEF RuntimeNext

LEMMA BoundToUsed ==
  ASSUME Renewed, Hosted, Before, SealInv, InputInv, [RuntimeNext]_vars, NEW t \in Turn, Fresh(t)'
  PROVE  row'.turn # t /\ \A i \in Input : input'[i].turn # t
  <1>1. CallInv /\ TypeOK /\ Move /\ Fresh(t)
    BY EveryMove, EveryAhead DEF Before, CallInv, Ahead, Fresh, At
  <1>2. row.turn # t /\ \A i \in Input : input[i].turn # t
    BY <1>1 DEF InputInv
  <1>3. row'.turn # t
    <2>1. ASSUME NEW u \in Turn, Takes(u)
          PROVE  row'.turn # t
      <3>1. row'.turn = u /\ run'[u].pc # "idle"
        BY <2>1 DEF Takes, TakeRow, Holding, Alive
      <3> QED  BY <3>1 DEF Fresh, At
    <2> QED
      BY <1>1, <1>2, <2>1
      DEF Move, Moves, Keeps, RowSame, Releases, RecoversRow, Crash, Restart, storeVars
  <1>4. ASSUME NEW i \in Input
        PROVE  input'[i].turn # t
    <2>1. Touched(i)
      BY <1>1, EveryTouch
    <2> QED
      BY <1>1, <1>2, <1>3, <2>1, TouchedFields, NoTurnAssumption DEF Touched, Changed, Arrives
  <1> QED  BY <1>3, <1>4

(* What a request that is out carries is not in doubt.                     *)
LEMMA OutIsCertain ==
  ASSUME Renewed, Hosted, Before, SealInv, InputInv, [RuntimeNext]_vars, NEW t \in Turn,
         run'[t].pc = "calling", NEW i \in req'[RequestId(t)'].ids, input'[i].state = "included"
  PROVE  ~input'[i].err
  <1>1. CallInv /\ TypeOK /\ Ahead(t) /\ run \in [Turn -> CallRecord]
    BY EveryAhead DEF Before, CallInv, RuntimeTypeOK, CallRecord
  <1>2. CASE IncludeInputs(t)
    <2>1. run[t].pc = "begun" /\ RequestId(t) \in Request
      BY <1>1, <1>2, RequestIdTyped DEF IncludeInputs, At
    <2>2. ~Go(t, "judging")
      BY <1>1, GoesTo
    <2>3. PICK f \in SUBSET Revocable :
            \E b \in BatchOf(t, f) : IncludeTaskInputs(t, me, RequestId(t), f, b) /\ Go(t, "calling")
      BY <1>2, <2>2 DEF IncludeInputs
    <2>4. PICK b \in BatchOf(t, f) : IncludeTaskInputs(t, me, RequestId(t), f, b) /\ Go(t, "calling")
      BY <2>3
    <2>5. RequestId(t)' = RequestId(t) /\ req'[RequestId(t)].ids = b
      BY <1>1, <2>1, <2>4 DEF Go, RequestId, CallRecord, IncludeTaskInputs, TypeOK
    <2>6. i \in PendingFor(t) /\ i \in Input /\ i \in Pending /\ input'[i] = Delivered(i, t)
      BY <2>4, <2>5 DEF BatchOf, PendingFor, Pending, IncludeTaskInputs
    <2>7. input[i] \in InputRecord /\ ~input[i].err
      BY <1>1, <2>6, EditsTyped DEF InputInv
    <2> QED  BY <2>6, <2>7 DEF Delivered, InputRecord
  <1>3. CASE ~IncludeInputs(t)
    <2>1. run[t].pc = "calling" /\ OwnsInbox(t, me) /\ RequestId(t) \in Request
      BY <1>1, <1>3, RequestIdTyped DEF Ahead, Before, HoldInv, Holding, Alive
    <2>2. ~Crash
      BY <1>1, CrashedCalls, <2>1 DEF Alive
    <2>3. \A u \in Turn : ~(RunStep(u) /\ Requests(u))
      <3> SUFFICES ASSUME NEW u \in Turn, RunStep(u), Requests(u)
                   PROVE  FALSE
        OBVIOUS
      <3>1. run[u].pc \in {"begun", "calling"}
        BY DEF Requests, IncludeInputs, ProviderAnswers, ProviderThrows, At
      <3>2. u = t
        BY <2>1, <3>1, OneHolder DEF Before, OwnsInbox, Holding, Alive
      <3>3. ProviderAnswers(t) \/ ProviderThrows(t)
        BY <3>2, <1>3 DEF Requests
      <3> QED  BY <1>1, <3>3, GoesTo DEF ProviderAnswers, ProviderThrows
    <2>4. ~(RecoverOwners /\ Abandoned(me))
      BY <2>1 DEF Abandoned, OwnsInbox, OwnsRow
    <2>5. UNCHANGED req /\ RequestId(t)' = RequestId(t)
      BY <1>1, <2>1, <2>2, <2>3, <2>4, ManifestsChange, WhoAwaits DEF Awaits
    <2>6. i \in Input /\ Touched(i)
      BY <1>1, <2>1, <2>5, EveryTouch DEF TypeOK
    <2>7. ~Departs(i)
      BY <2>1, OneHolder DEF Departs, Before, Holding, Alive, OwnsInbox
    <2>8. ~Returns(i)
      <3> SUFFICES ASSUME NEW u \in Turn, run[u].pc = "calling", run'[u].pc \in {"acting", "judging"}
                   PROVE  FALSE
        BY DEF Returns
      <3>1. u = t
        BY <2>1, OneHolder DEF Before, Holding, Alive, OwnsInbox
      <3> QED  BY <3>1
    <2>9. ~Orphaned(i)
      BY <2>1 DEF Orphaned, Abandoned, OwnsInbox, OwnsRow
    <2>10. input'[i] = input[i]
      BY <1>1, <2>6, <2>7, <2>8, <2>9, TouchedFields DEF Touched, Changed, Arrives
    <2> QED  BY <2>1, <2>5, <2>10 DEF InputInv
  <1> QED  BY <1>2, <1>3

LEMMA InputInvStep ==
  ASSUME Renewed, Hosted, Before, SealInv, InputInv, [RuntimeNext]_vars
  PROVE  InputInv'
  <1>1. CallInv /\ TypeOK /\ Input \subseteq Nat
    BY InputAssumption DEF Before, CallInv
  <1>2. ASSUME NEW i \in Input
        PROVE  /\ input[i].state # "absent" => input'[i].state # "absent"
               /\ input'[i].state # "absent" => input[i].state # "absent" \/ Arrives(i)
               /\ input'[i].state = "included" => input'[i].turn \in Turn
               /\ input'[i].state = "pending" => ~input'[i].err
    <2>1. Touched(i)
      BY <1>1, EveryTouch
    <2>2. CASE input'[i] = input[i]
      BY <2>2 DEF InputInv, Pending
    <2>3. CASE Arrives(i)
      BY <2>3 DEF Arrives
    <2>4. CASE Binds(i) \/ Departs(i) \/ Withdrawn(i) \/ GivenUp(i) \/ Returns(i) \/ Orphaned(i)
      <3>1. input[i].state \in {"pending", "included"}
        BY <1>1, <2>4, TouchedFields DEF Binds, Withdrawn, GivenUp, Returns, Orphaned
      <3>2. input[i].state = "pending" => ~input[i].err
        BY <3>1 DEF InputInv, Pending
      <3>3. Returns(i) \/ Orphaned(i) => input[i].turn \in Turn
        BY DEF InputInv, Returns, Orphaned
      <3>4. Binds(i) \/ GivenUp(i) => input[i].state = "pending"
        BY DEF Binds, GivenUp
      <3> QED  BY <1>1, <2>4, <3>1, <3>2, <3>3, <3>4, TouchedFields
    <2> QED  BY <2>1, <2>2, <2>3, <2>4 DEF Touched, Changed
  <1>3. ASSUME NEW i \in Input, NEW j \in Input, j < i, input'[j].state = "absent"
        PROVE  input'[i].state = "absent"
    <2>1. input[j].state = "absent"
      BY <1>2, <1>3
    <2>2. ~Arrives(i)
      BY <1>3, <2>1 DEF Arrives
    <2>3. input[i].state = "absent"
      BY <1>3, <2>1 DEF InputInv
    <2> QED  BY <1>2, <2>2, <2>3
  <1>4. \A i \in Pending' : ~input'[i].err
    BY <1>2 DEF Pending
  <1>5. \A t \in Turn : Fresh(t)' => row'.turn # t /\ \A i \in Input : input'[i].turn # t
    BY BoundToUsed
  <1>6. \A t \in Turn : run'[t].pc = "calling" =>
          \A i \in req'[RequestId(t)'].ids : input'[i].state = "included" => ~input'[i].err
    BY OutIsCertain
  <1> QED  BY <1>2, <1>3, <1>4, <1>5, <1>6 DEF InputInv

-----------------------------------------------------------------------------
(* The input a turn was started for.  While the turn holds the row it is   *)
(* the oldest of all the turn may be given, peer messages apart, and if it *)
(* is pending it is bound to the turn.  So a turn that seals its inbox     *)
(* does not leave it, and by then nothing can make it pending again.       *)
SettledInput(i) ==
  \/ input[i].state \in {"resolved", "rejected", "cancelled"}
  \/ input[i].state = "included" /\ input[i].err

Within(t, j) == input[j].kind # "message" /\ (input[j].turn = t \/ j \in Startable)

FirstOf(t, i) ==
  /\ input[i].state # "absent"
  /\ i \in Pending => input[i].turn = t
  /\ \A j \in Input : Within(t, j) => i <= j

Completed(t) == run[t].out = "completed"

SeedInv ==
  /\ \A t \in Turn : Fresh(t) => run[t].seed = NoSeed /\ ~Completed(t)
  /\ \A t \in Turn, i \in Input : run[t].seed = i /\ run[t].pc \in Holding => FirstOf(t, i)
  /\ \A t \in Turn, i \in Input :
       run[t].seed = i /\ run[t].pc = "finishing" => i \notin Pending
  /\ \A t \in Turn, i \in Input : run[t].seed = i /\ Completed(t) => SettledInput(i)
  /\ \A t, u \in Turn, i \in Input :
       t # u /\ run[t].seed = i /\ run[u].seed = i /\ Completed(t) =>
         run[u].pc \notin Holding /\ ~Completed(u)

(* A turn does not seal its inbox when it asks the user something, so that *)
(* it may complete without the input it was started for.                   *)
AskedEarly == \E t \in Turn : AskUser(t) /\ run[t].seed \in Pending

Known == CallInv /\ TypeOK /\ Before /\ SealInv /\ LinkInv /\ InputInv

(* An input that is settled stays so.                                      *)
LEMMA SettledForGood ==
  ASSUME Known, [RuntimeNext]_vars, NEW i \in Input, SettledInput(i)
  PROVE  SettledInput(i)'
  <1>1. Touched(i)
    BY EveryTouch DEF Known
  <1>2. ~Arrives(i) /\ ~Binds(i) /\ ~Departs(i) /\ ~Withdrawn(i) /\ ~GivenUp(i)
    BY TouchedFields DEF SettledInput, Arrives, Binds, Withdrawn, GivenUp, Known
  <1>3. ~Returns(i)
    BY DEF SettledInput, Returns, Known, InputInv
  <1>4. Orphaned(i) => SettledInput(i)'
    BY TouchedFields DEF SettledInput, Known
  <1> QED  BY <1>1, <1>2, <1>3, <1>4 DEF Touched, Changed, SettledInput

(* What a turn that holds the row, and waits for no answer, does not find  *)
(* pending is settled.                                                     *)
LEMMA SettledIfNotPending ==
  ASSUME Known, NEW t \in Turn, run[t].pc \in Holding, run[t].pc # "calling",
         NEW i \in Input, i \notin Pending, input[i].state # "absent"
  PROVE  SettledInput(i)
  <1>1. input[i].state \in InputState
    BY DEF Known, TypeOK
  <1>2. OwnsInbox(t, me)
    BY DEF Known, Before, HoldInv
  <1>3. ASSUME input[i].state = "included", ~input[i].err
        PROVE  FALSE
    <2>1. OutFor(i) \/ OfEarlierStart(i)
      BY <1>3 DEF Known, LinkInv, IncludedInv
    <2>2. ~OfEarlierStart(i)
      BY <1>2 DEF OfEarlierStart, OwnsInbox, OwnsRow, Known, Before, HolderInv, Holding, Alive
    <2>3. ~OutFor(i)
      BY <1>2, OneHolder DEF OutFor, At, Known, Before, OwnsInbox, Holding, Alive
    <2> QED  BY <2>1, <2>2, <2>3
  <1> QED  BY <1>1, <1>3 DEF InputState, SettledInput, Pending

(* What a holder may be given was there before, or arrives later.          *)
LEMMA WithinBefore ==
  ASSUME Known, InputInv', HoldInv', [RuntimeNext]_vars, NEW t \in Turn, run[t].pc \in Holding,
         run'[t].pc \in Holding, NEW j \in Input, Within(t, j)'
  PROVE  Within(t, j) \/ input[j].state = "absent"
  <1>1. Touched(j) /\ row.turn = t
    BY EveryTouch DEF Known, Before, HoldInv, OwnsInbox, OwnsRow
  <1>2. row'.lease = "live"
    BY DEF HoldInv, OwnsInbox, Leased
  <1>3. CASE input'[j] = input[j]
    BY <1>3 DEF Within, Startable, Pending
  <1>4. CASE Arrives(j)
    BY <1>4 DEF Arrives
  <1>5. CASE Binds(j)
    BY <1>5 DEF Binds, Within, Startable, Pending, Starter
  <1>6. CASE Departs(j)
    BY <1>1, <1>6, TouchedFields DEF Within, Known
  <1>7. CASE Withdrawn(j)
    BY <1>7, TouchedFields DEF Within, Startable, Pending, Known
  <1>8. CASE GivenUp(j)
    BY <1>2, <1>8 DEF GivenUp
  <1>9. CASE Returns(j) \/ Orphaned(j)
    <2>1. /\ input[j].turn \in Turn /\ input'[j].turn = input[j].turn
          /\ input'[j].kind = input[j].kind
      BY <1>9, TouchedFields DEF Known, InputInv, Returns, Orphaned
    <2> QED  BY <2>1, NoTurnAssumption DEF Within, Startable
  <1> QED  BY <1>1, <1>3, <1>4, <1>5, <1>6, <1>7, <1>8, <1>9 DEF Touched, Changed

LEMMA FirstStays ==
  ASSUME Known, InputInv', HoldInv', [RuntimeNext]_vars, NEW t \in Turn, run[t].pc \in Holding,
         run'[t].pc \in Holding, NEW i \in Input, FirstOf(t, i)
  PROVE  FirstOf(t, i)'
  <1>1. Touched(i) /\ input[i].state # "absent" /\ i \in Nat
    BY EveryTouch, InputAssumption DEF Known, FirstOf
  <1>2. row.turn = t /\ row'.turn = t /\ row'.lease = "live"
    BY DEF Known, Before, HoldInv, OwnsInbox, OwnsRow, Leased
  <1>3. input'[i].state # "absent"
    BY <1>1, TouchedFields DEF Touched, Changed, Arrives, Known
  <1>4. input'[i].state = "pending" => input'[i].turn = t
    <2>1. CASE input'[i] = input[i]
      BY <2>1 DEF FirstOf, Pending
    <2>2. CASE Binds(i)
      BY <1>2, <2>2, TouchedFields DEF Known
    <2>3. CASE Returns(i)
      <3>1. PICK u \in Turn : run[u].pc = "calling" /\ i \in req[RequestId(u)].ids /\ input[i].state = "included"
        BY <2>3 DEF Returns
      <3>2. input[i].turn = u /\ OwnsInbox(u, me)
        BY <3>1 DEF Known, LinkInv, SentInv, Before, HoldInv, Holding, Alive
      <3> QED  BY <1>2, <2>3, <3>2, TouchedFields DEF Known, OwnsInbox, OwnsRow
    <2>4. CASE Departs(i) \/ Withdrawn(i) \/ Orphaned(i)
      BY <2>4, TouchedFields DEF Known
    <2>5. ~Arrives(i) /\ ~GivenUp(i)
      BY <1>1, <1>2 DEF Arrives, GivenUp
    <2> QED  BY <1>1, <2>1, <2>2, <2>3, <2>4, <2>5 DEF Touched, Changed
  <1>5. ASSUME NEW j \in Input, Within(t, j)'
        PROVE  i <= j
    <2>1. CASE Within(t, j)
      BY <2>1 DEF FirstOf
    <2>2. CASE input[j].state = "absent"
      <3>1. ~(j < i) /\ j \in Nat
        BY <1>1, <2>2, InputAssumption DEF Known, InputInv
      <3> QED  BY <1>1, <3>1
    <2> QED  BY <1>5, <2>1, <2>2, WithinBefore
  <1> QED  BY <1>3, <1>4, <1>5 DEF FirstOf, Pending

(* The reservation takes the oldest of what can start a turn.              *)
LEMMA FirstOfReserved ==
  ASSUME Known, NEW t \in Turn, Reserved(t), NEW i, i = Oldest(Startable)
  PROVE  i \in Input /\ i \in Pending /\ run'[t].seed = i /\ FirstOf(t, i)'
  <1>1. PICK o \in Owner : ReserveFollowup(t, o)
    BY DEF Reserved
  <1>2. /\ i \in Startable /\ \A j \in Startable : i <= j
        /\ input'[i] = [input[i] EXCEPT !.turn = t]
        /\ \A j \in Input : j # i => input'[j] = input[j]
    BY <1>1, ReservedInput DEF Known
  <1>3. i \in Input /\ i \in Pending /\ i \in Nat /\ run'[t].seed = i /\ Fresh(t)
    BY <1>2, InputAssumption DEF Startable, Pending, Reserved
  <1>4. input[i] \in InputRecord /\ input[i].state = "pending"
    BY <1>3, EditsTyped DEF Known, Pending
  <1>5. input'[i].state = "pending" /\ input'[i].turn = t
    BY <1>2, <1>4 DEF InputRecord
  <1>6. ASSUME NEW j \in Input, Within(t, j)'
        PROVE  i <= j
    <2>1. CASE j = i
      BY <1>3, <2>1
    <2>2. CASE j # i
      <3>1. input'[j] = input[j] /\ input[j].turn # t
        BY <1>2, <1>3, <2>2 DEF Known, InputInv
      <3>2. j \in Startable
        BY <1>6, <3>1 DEF Within, Startable, Pending
      <3> QED  BY <1>2, <3>2
    <2> QED  BY <2>1, <2>2
  <1>7. FirstOf(t, i)'
    BY <1>5, <1>6 DEF FirstOf, Pending
  <1> QED  BY <1>3, <1>7

(* Once taken it stays so until the answer is there.                       *)
LEMMA TakenStays ==
  ASSUME Known, [RuntimeNext]_vars, NEW t \in Turn, run[t].pc \in {"calling", "acting", "finishing"},
         run'[t].pc \in {"calling", "acting", "finishing"},
         NEW i \in Input, i \notin Pending, input[i].state # "absent"
  PROVE  i \notin Pending'
  <1>1. Touched(i)
    BY EveryTouch DEF Known
  <1>2. ~Arrives(i) /\ ~Binds(i) /\ ~GivenUp(i)
    BY DEF Arrives, Binds, GivenUp, Pending
  <1>3. CASE Returns(i)
    <2>1. PICK u \in Turn : /\ run[u].pc = "calling" /\ run'[u].pc \in {"acting", "judging"}
                            /\ \E x \in {"resolved", "failed", "replaced"} :
                                 input'[i] = Answered(i, x) /\ (run'[u].pc = "acting" => x = "resolved")
      BY <1>3 DEF Returns
    <2>2. run[u].pc \in Holding /\ OwnsRow(t, me) /\ HoldInv
      BY <2>1 DEF Known, Before, HoldInv, OwnsInbox, Holding, Alive
    <2>3. u = t
      BY <2>2, OneHolder
    <2>4. input'[i] = Answered(i, "resolved") /\ input[i] \in InputRecord
      BY <2>1, <2>3, EditsTyped DEF Known
    <2> QED  BY <2>4 DEF Answered, ReceiptAfter, InputRecord, Pending
  <1>4. CASE input'[i] = input[i]
    BY <1>4 DEF Pending
  <1>5. CASE Departs(i) \/ Withdrawn(i) \/ Orphaned(i)
    BY <1>5, TouchedFields DEF Known, Pending
  <1> QED  BY <1>1, <1>2, <1>3, <1>4, <1>5 DEF Touched, Changed

(* What a call is on the way to.                                           *)
LEMMA SeedFirst ==
  ASSUME Known, SeedInv, Hosted, InputInv', HoldInv', [RuntimeNext]_vars,
         NEW t \in Turn, NEW i \in Input, run'[t].seed = i, run'[t].pc \in Holding
  PROVE  FirstOf(t, i)'
  <1>1. Ahead(t)
    BY EveryAhead DEF Known
  <1>2. CASE Reserved(t)
    BY <1>2, FirstOfReserved DEF Reserved
  <1>3. CASE run[t].seed = i /\ ~Reserved(t)
    <2>1. run[t].pc \in Holding
      BY <1>1, <1>3, SeedAssumption DEF Ahead, SeedInv, Fresh, At
    <2> QED  BY <1>3, <2>1, FirstStays DEF SeedInv
  <1> QED  BY <1>1, <1>2, <1>3 DEF Ahead

LEMMA SeedTaken ==
  ASSUME Known, SeedInv, Hosted, ~AskedEarly, [RuntimeNext]_vars,
         NEW t \in Turn, NEW i \in Input, run'[t].seed = i, run'[t].pc = "finishing"
  PROVE  i \notin Pending'
  <1>1. Ahead(t)
    BY EveryAhead DEF Known
  <1>2. run[t].seed = i
    BY <1>1 DEF Ahead, Reserved
  <1>3. CASE run[t].pc = "finishing"
    <2>1. FirstOf(t, i) /\ i \notin Pending
      BY <1>2, <1>3 DEF SeedInv, Holding, Alive
    <2> QED  BY <1>3, <2>1, TakenStays DEF FirstOf
  <1>4. CASE run[t].pc = "acting" /\ FinalAnswer(t)
    <2>1. PendingFor(t) = {} /\ input' = input
      BY <1>4 DEF FinalAnswer, SealTaskInboxTurn
    <2>2. FirstOf(t, i)
      BY <1>2, <1>4 DEF SeedInv, Holding, Alive
    <2> QED  BY <2>1, <2>2 DEF FirstOf, PendingFor, Pending
  <1>5. CASE run[t].pc = "acting" /\ AskUser(t)
    <2>1. i \notin Pending /\ input' = input
      BY <1>2, <1>5 DEF AskedEarly, AskUser, PauseTaskInboxTurn
    <2> QED  BY <2>1 DEF Pending
  <1> QED  BY <1>1, <1>3, <1>4, <1>5 DEF Ahead

LEMMA SeedSettled ==
  ASSUME Known, SeedInv, Hosted, [RuntimeNext]_vars,
         NEW t \in Turn, NEW i \in Input, run'[t].seed = i, Completed(t)'
  PROVE  SettledInput(i)' /\ (Completed(t) \/ run[t].pc = "finishing") /\ run[t].seed = i
  <1>1. Ahead(t)
    BY EveryAhead DEF Known
  <1>2. Completed(t) \/ run[t].pc = "finishing"
    BY <1>1 DEF Ahead, Completed
  <1>3. ~Reserved(t)
    BY <1>2 DEF Reserved, Fresh, At, SeedInv
  <1>4. run[t].seed = i
    BY <1>1, <1>3 DEF Ahead
  <1>5. CASE Completed(t)
    BY <1>4, <1>5, SettledForGood DEF SeedInv
  <1>6. CASE run[t].pc = "finishing"
    <2>1. FirstOf(t, i) /\ i \notin Pending /\ run[t].pc \in Holding
      BY <1>4, <1>6 DEF SeedInv, Holding, Alive
    <2>2. SettledInput(i)
      BY <1>6, <2>1, SettledIfNotPending DEF FirstOf
    <2> QED  BY <1>4, <1>6, <2>2, SettledForGood
  <1> QED  BY <1>2, <1>4, <1>5, <1>6

(* Two calls for one input: when one of them is completed, or about to be, *)
(* the other is neither at work nor completed.                             *)
LEMMA SeedOnce ==
  ASSUME Known, SeedInv, Hosted, [RuntimeNext]_vars,
         NEW t \in Turn, NEW u \in Turn, t # u, NEW i \in Input,
         run'[t].seed = i, run'[u].seed = i, Completed(t)'
  PROVE  run'[u].pc \notin Holding /\ ~Completed(u)'
  <1>1. Ahead(u)
    BY EveryAhead DEF Known
  <1>2. run[t].seed = i /\ (Completed(t) \/ run[t].pc = "finishing")
    BY SeedSettled
  <1>3. i \notin Pending
    BY <1>2 DEF SeedInv, SettledInput, Pending
  <1>4. ~Reserved(u)
    BY <1>3, FirstOfReserved DEF Reserved
  <1>5. run[u].seed = i /\ ~Fresh(u)
    BY <1>1, <1>4, SeedAssumption DEF Ahead, SeedInv
  <1>6. run[u].pc \notin Holding
    <2>1. CASE Completed(t)
      BY <1>2, <1>5, <2>1 DEF SeedInv
    <2>2. CASE run[t].pc = "finishing"
      <3>1. OwnsRow(t, me) /\ HoldInv
        BY <2>2 DEF Known, Before, HoldInv, OwnsInbox, Holding, Alive
      <3> QED  BY <3>1, OneHolder
    <2> QED  BY <1>2, <2>1, <2>2
  <1>7. run[u].pc # "finishing" /\ run'[u].pc \notin Holding
    BY <1>1, <1>5, <1>6 DEF Ahead, Fresh, At, Holding, Alive
  <1>8. ~Completed(u)
    BY <1>2, <1>5 DEF SeedInv, Holding, Alive
  <1> QED  BY <1>7, <1>8, SeedSettled

LEMMA SeedStep ==
  ASSUME Hosted, Known, SeedInv, ~AskedEarly, InputInv', HoldInv', [RuntimeNext]_vars
  PROVE  SeedInv'
  <1>1. ASSUME NEW t \in Turn, run'[t].pc = "idle"
        PROVE  run'[t].seed = NoSeed /\ run'[t].out # "completed"
    <2>1. Ahead(t) /\ ~Reserved(t) /\ run[t].pc = "idle"
      BY <1>1, EveryAhead DEF Known, Reserved, Ahead
    <2> QED  BY <2>1 DEF Ahead, SeedInv, Fresh, At, Completed
  <1>2. \A t \in Turn : Fresh(t)' => run'[t].seed = NoSeed /\ ~Completed(t)'
    BY <1>1 DEF Fresh, At, Completed
  <1>3. \A t \in Turn, i \in Input : run'[t].seed = i /\ run'[t].pc \in Holding => FirstOf(t, i)'
    BY SeedFirst
  <1>4. \A t \in Turn, i \in Input :
          run'[t].seed = i /\ run'[t].pc = "finishing" => i \notin Pending'
    BY SeedTaken
  <1>5. \A t \in Turn, i \in Input : run'[t].seed = i /\ Completed(t)' => SettledInput(i)'
    BY SeedSettled
  <1>6. \A t, u \in Turn, i \in Input :
          t # u /\ run'[t].seed = i /\ run'[u].seed = i /\ Completed(t)' =>
            run'[u].pc \notin Holding /\ ~Completed(u)'
    BY SeedOnce
  <1> QED  BY <1>2, <1>3, <1>4, <1>5, <1>6 DEF SeedInv

LEMMA SeedAlways ==
  ASSUME Renewed, Hosted
  PROVE  RuntimeSpec /\ [][~AskedEarly]_vars => [](InputInv /\ SeedInv)
  <1>1. RuntimeInit => InputInv /\ SeedInv
    BY NoTurnAssumption
    DEF RuntimeInit, StoreInit, InputInv, SeedInv, Fresh, At, Completed, Pending, Unsent, NoRow,
        IdleRun, Holding, Alive
  <1>2. /\ Before /\ SealInv /\ LinkInv /\ InputInv /\ SeedInv
        /\ [RuntimeNext]_vars /\ [~AskedEarly]_vars /\ Before'
        => (InputInv /\ SeedInv)'
    <2> SUFFICES ASSUME Before, SealInv, LinkInv, InputInv, SeedInv, [RuntimeNext]_vars,
                        [~AskedEarly]_vars, Before'
                 PROVE  (InputInv /\ SeedInv)'
      OBVIOUS
    <2>1. CASE ~AskedEarly
      BY <2>1, InputInvStep, SeedStep DEF Known, Before, CallInv
    <2>2. CASE UNCHANGED vars
      BY <2>2
      DEF vars, storeVars, runtimeVars, InputInv, SeedInv, FirstOf, Within, Startable, Pending,
          SettledInput, Completed, Fresh, At, RequestId
    <2> QED  BY <2>1, <2>2
  <1> QED  BY <1>1, <1>2, BeforeAlways, LinksAlways, SealAlways, PTL DEF RuntimeSpec

(***************************************************************************)
(* An input does not start two turns that both complete ("retries cannot   *)
(* start it twice"): a turn that gives its final answer has taken the      *)
(* input it was started for, and what was answered starts no turn again.   *)
(* It needs leases that are renewed, no turn that answers without the      *)
(* inbox, and no turn that asks the user something while the input it was  *)
(* started for still waits (see FirstRequestsTakeSeeds).                   *)
(***************************************************************************)
THEOREM InputsStartOnce ==
  ASSUME Renewed, Hosted
  PROVE  RuntimeSpec /\ [][~AskedEarly]_vars => []StartedOnce
  <1>1. CallInv /\ SeedInv => StartedOnce
    <2> SUFFICES ASSUME CallInv, SeedInv, NEW t \in Turn, NEW u \in Turn, t # u,
                        run[t].seed = run[u].seed, run[t].seed # NoSeed
                 PROVE  {run[t].out, run[u].out} # {"completed"}
      BY DEF StartedOnce
    <2>1. run[t].seed \in Input
      BY DEF CallInv, RuntimeTypeOK
    <2>2. ~(run[t].out = "completed" /\ run[u].out = "completed")
      BY <2>1 DEF SeedInv, Completed
    <2> QED  BY <2>2
  <1>2. Before => CallInv
    BY DEF Before
  <1> QED  BY <1>1, <1>2, BeforeAlways, SeedAlways, PTL

-----------------------------------------------------------------------------
(* When it can be asked early: a request carries the oldest inputs that    *)
(* wait, and at least so many as always fit, so that the input the turn    *)
(* was started for is left out only for as many older peer messages.       *)
MessagesBefore(t) == {j \in PendingFor(t) : input[j].kind = "message" /\ j < run[t].seed}

NotCrowded ==
  \A t \in Turn : At(t, "begun") /\ run[t].seed \in Pending =>
    /\ Cardinality(MessagesBefore(t)) < AlwaysFit
    /\ Cardinality(MessagesBefore(t)) < BatchMax

TakenInv ==
  \A t \in Turn, i \in Input :
    run[t].seed = i /\ run[t].pc \in {"calling", "acting"} => i \notin Pending

LEMMA FirstIsTaken ==
  ASSUME Known, NotCrowded, NEW t \in Turn, IncludeInputs(t), run'[t].pc = "calling",
         NEW i \in Input, run[t].seed = i, FirstOf(t, i)
  PROVE  i \notin Pending'
  <1>1. TypeOK /\ input[i] \in InputRecord
    BY EditsTyped DEF Known
  <1>2. ~Go(t, "judging")
    BY GoesTo DEF Known
  <1>3. PICK f, b : b \in BatchOf(t, f) /\ IncludeTaskInputs(t, me, RequestId(t), f, b)
    BY <1>2 DEF IncludeInputs
  <1>4. CASE i \in b
    BY <1>1, <1>3, <1>4 DEF IncludeTaskInputs, Delivered, InputRecord, Pending
  <1>5. CASE i \notin b /\ i \in Refused(t, f, b)
    BY <1>1, <1>3, <1>5 DEF IncludeTaskInputs, Rejected, InputRecord, Pending
  <1>6. CASE i \notin b /\ i \notin Refused(t, f, b)
    <2>1. input'[i] = input[i]
      BY <1>3, <1>6 DEF IncludeTaskInputs
    <2>2. SUFFICES ASSUME i \in Pending
                   PROVE  FALSE
      BY <2>1 DEF Pending
    <2>3. i \in PendingFor(t) /\ PendingFor(t) \subseteq Nat /\ PendingFor(t) \subseteq Input
      BY <2>2, InputAssumption DEF FirstOf, PendingFor, Pending
    <2>4. PICK j \in PendingFor(t) \ (f \cup b) : j <= i
      <3>1. CASE i \in f
        <4>1. PICK k \in PendingFor(t) \ (f \cup b) : ~(i < k)
          BY <1>6, <2>3, <3>1 DEF Refused
        <4> QED  BY <2>3, <4>1
      <3>2. CASE i \notin f
        BY <1>6, <2>3, <3>2
      <3> QED  BY <3>1, <3>2
    <2>5. /\ b \subseteq PendingFor(t) /\ b # PendingFor(t) \ f
          /\ \A k \in b : k < j
      BY <1>3, <2>4 DEF BatchOf
    <2>6. b \subseteq MessagesBefore(t)
      <3> SUFFICES ASSUME NEW k \in b
                   PROVE  k \in MessagesBefore(t)
        OBVIOUS
      <3>1. k \in PendingFor(t) /\ k < i /\ k \in Input /\ k \in Nat /\ i \in Nat
        BY <2>3, <2>4, <2>5
      <3>2. ~Within(t, k)
        BY <3>1 DEF FirstOf
      <3>3. input[k].kind = "message"
        BY <3>1, <3>2 DEF Within, PendingFor
      <3> QED  BY <3>1, <3>3 DEF MessagesBefore
    <2>7. IsFiniteSet(MessagesBefore(t)) /\ IsFiniteSet(b)
      <3>1. MessagesBefore(t) \subseteq Input
        BY DEF MessagesBefore, PendingFor, Pending
      <3> QED  BY <2>6, <3>1, InputAssumption, FS_Subset
    <2>8. Cardinality(b) <= Cardinality(MessagesBefore(t))
      BY <2>6, <2>7, FS_Subset
    <2>9. Cardinality(b) \in Nat /\ Cardinality(MessagesBefore(t)) \in Nat
      BY <2>7, FS_CardinalityType
    <2>10. Cardinality(b) = BatchMax \/ Cardinality(b) >= AlwaysFit
      BY <1>3, <2>5 DEF BatchOf
    <2>11. /\ Cardinality(MessagesBefore(t)) < AlwaysFit
           /\ Cardinality(MessagesBefore(t)) < BatchMax
      BY <2>2 DEF NotCrowded, IncludeInputs
    <2> QED  BY <2>8, <2>9, <2>10, <2>11, LimitAssumption DEF AlwaysFit
  <1> QED  BY <1>4, <1>5, <1>6

LEMMA TakenStep ==
  ASSUME Hosted, Known, SeedInv, TakenInv, NotCrowded, [RuntimeNext]_vars
  PROVE  TakenInv'
  <1> SUFFICES ASSUME NEW t \in Turn, NEW i \in Input, run'[t].seed = i,
                      run'[t].pc \in {"calling", "acting"}
               PROVE  i \notin Pending'
    BY DEF TakenInv
  <1>1. Ahead(t)
    BY EveryAhead DEF Known
  <1>2. run[t].seed = i
    BY <1>1 DEF Ahead, Reserved
  <1>3. CASE run[t].pc \in {"calling", "acting"}
    <2>1. FirstOf(t, i) /\ i \notin Pending
      BY <1>2, <1>3 DEF SeedInv, TakenInv, Holding, Alive
    <2> QED  BY <1>3, <2>1, TakenStays DEF FirstOf
  <1>4. CASE run'[t].pc = "calling" /\ IncludeInputs(t)
    <2>1. run[t].pc \in Holding
      BY <1>4 DEF IncludeInputs, At, Holding, Alive
    <2> QED  BY <1>2, <1>4, <2>1, FirstIsTaken DEF SeedInv
  <1> QED  BY <1>1, <1>3, <1>4 DEF Ahead

(***************************************************************************)
(* So an input starts once, too, whatever the turns ask the user, as long  *)
(* as fewer older peer messages wait with it than fit into any request.    *)
(***************************************************************************)
THEOREM FirstRequestsTakeSeeds ==
  ASSUME Renewed, Hosted
  PROVE  RuntimeSpec /\ []NotCrowded => []StartedOnce
  <1>1. RuntimeInit => InputInv /\ SeedInv /\ TakenInv
    BY NoTurnAssumption
    DEF RuntimeInit, StoreInit, InputInv, SeedInv, TakenInv, Fresh, At, Completed, Pending, Unsent,
        NoRow, IdleRun, Holding, Alive
  <1>2. TakenInv => ~AskedEarly
    <2> SUFFICES ASSUME TakenInv, NEW t \in Turn, AskUser(t), run[t].seed \in Pending
                 PROVE  FALSE
      BY DEF AskedEarly
    <2> QED  BY DEF TakenInv, AskUser, At, Pending
  <1>3. /\ Before /\ SealInv /\ LinkInv /\ InputInv /\ SeedInv /\ TakenInv /\ NotCrowded
        /\ [RuntimeNext]_vars /\ Before'
        => (InputInv /\ SeedInv /\ TakenInv)'
    BY <1>2, InputInvStep, SeedStep, TakenStep DEF Known, Before, CallInv
  <1>4. RuntimeSpec /\ []NotCrowded => []TakenInv
    BY <1>1, <1>3, BeforeAlways, LinksAlways, SealAlways, PTL DEF RuntimeSpec
  <1>5. RuntimeSpec /\ []NotCrowded => RuntimeSpec /\ [][~AskedEarly]_vars
    BY <1>2, <1>4, PTL
  <1> QED  BY <1>5, InputsStartOnce, PTL
=============================================================================
