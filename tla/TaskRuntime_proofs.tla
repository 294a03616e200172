------------------------- MODULE TaskRuntime_proofs -------------------------
(***************************************************************************)
(* What TLAPS proves about the processes of one task, for any number of    *)
(* inputs, turns, rounds and server starts, under any of the events.       *)
(***************************************************************************)
EXTENDS TaskRuntime, TaskInboxStore_proofs

-----------------------------------------------------------------------------
(* Type correctness.  RuntimeTypeOK needs to know that a turn that may     *)
(* read its status has one, and that a call that includes has a round.     *)

HasStatus == {"inserted", "round", "begun", "calling", "judging", "acting", "finishing",
              "throwing", "interrupting"}

CallInv ==
  /\ TypeOK
  /\ RuntimeTypeOK
  /\ server.phase = "down" => me + 1 \in Owner
  /\ \A t \in Turn : run[t].pc \in {"begun", "calling"} => run[t].round # 0
  /\ \A t \in Turn : run[t].pc \in HasStatus => tstatus[t] # "none"

CallRecord == [pc : Pc, seed : Input \cup {NoSeed}, round : 0..MaxRounds, out : Outcome,
               threw : BOOLEAN, replaced : BOOLEAN]

CallAt(pc) == {c \in CallRecord : c.pc = pc}

DispatchRecord == [pc : {"idle", "looking", "reserving", "running"}, turn : Turn \cup {NoTurn},
                   again : BOOLEAN]

(* A step of a process that writes no request, as the tables see it.       *)
QuietStore == InputStep \/ OwnerStep \/ TurnStep \/ UNCHANGED storeVars

LEMMA MeTyped == CallInv => me \in Owner
  BY DEF CallInv, RuntimeTypeOK, me

LEMMA RequestIdTyped ==
  ASSUME CallInv, NEW t \in Turn, run[t].pc \in {"begun", "calling"}
  PROVE  RequestId(t) \in Request
  BY RequestAssumption, RoundAssumption DEF CallInv, RuntimeTypeOK, RequestId

LEMMA InterruptIsQuiet ==
  ASSUME NEW t, InterruptIfRunning(t)
  PROVE  (t \in Turn /\ InterruptTurn(t)) \/ UNCHANGED storeVars
  BY DEF InterruptIfRunning, InProgress

(* Every action of the user, the dispatcher, recovery and the faults.      *)
LEMMA UserStepQuiet ==
  ASSUME CallInv, UserStep
  PROVE  QuietStore
  <1> USE DEF QuietStore
  <1>1. ASSUME NEW i \in Input, NEW kind \in UserKinds, NEW t \in Turn, UserAdmits(i, kind, t)
        PROVE  QuietStore
    BY <1>1, KindAssumption DEF UserAdmits, InputStep
  <1>2. ASSUME NEW i \in Input, UserResumes(i) \/ UserCancels(i)
        PROVE  QuietStore
    BY <1>2 DEF UserResumes, UserCancels, InputStep
  <1>3. ASSUME NEW i \in Input, NEW t \in Turn, UserPromotes(i, t)
        PROVE  QuietStore
    BY <1>3 DEF UserPromotes, InputStep
  <1>4. ASSUME NEW t \in Turn, UserStops(t)
        PROVE  QuietStore
    BY <1>4, InterruptIsQuiet DEF UserStops, TurnStep
  <1>5. ASSUME NEW t \in Turn, UserSends(t)
        PROVE  QuietStore
    BY <1>5, MeTyped DEF UserSends, OwnerStep
  <1> QED  BY <1>1, <1>2, <1>3, <1>4, <1>5 DEF UserStep

LEMMA DispatchStepQuiet ==
  ASSUME CallInv, DispatchStep
  PROVE  QuietStore
  <1> USE MeTyped DEF QuietStore
  <1>1. CASE DispatchLooks
    BY <1>1 DEF DispatchLooks
  <1>2. CASE DispatchReserves
    BY <1>2 DEF DispatchReserves, OwnerStep, storeVars
  <1>3. ASSUME NEW t \in Turn, DispatchStarts(t)
        PROVE  QuietStore
    BY <1>3 DEF DispatchStarts, OwnerStep
  <1>4. ASSUME NEW t \in Turn, DispatchRefused(t) \/ DispatchContinues(t)
        PROVE  QuietStore
    BY <1>4 DEF DispatchRefused, DispatchContinues
  <1>5. ASSUME NEW t \in Turn, DispatchCloses(t)
        PROVE  QuietStore
    BY <1>5 DEF DispatchCloses, OwnerStep, Outcome
  <1>6. ASSUME NEW t \in Turn, DispatchRejects(t)
        PROVE  QuietStore
    BY <1>6 DEF DispatchRejects, InputStep, Pending
  <1> QED  BY <1>1, <1>2, <1>3, <1>4, <1>5, <1>6 DEF DispatchStep

LEMMA RunStepQuiet ==
  ASSUME CallInv, NEW t \in Turn, RunStep(t)
  PROVE  QuietStore \/ IncludeInputs(t) \/ ProviderAnswers(t) \/ ProviderThrows(t)
  <1> USE MeTyped DEF QuietStore
  <1>1. CASE CheckIdle(t) \/ PrepareFails(t) \/ SetupFails(t) \/ RegisterActiveTurn(t)
    BY <1>1 DEF CheckIdle, PrepareFails, SetupFails, RegisterActiveTurn
  <1>2. CASE InsertStoredTurn(t) \/ AdmissionFails(t)
    BY <1>2 DEF InsertStoredTurn, AdmissionFails, TurnStep
  <1>3. CASE BeginRequest(t) \/ JudgeFailure(t) \/ NextRound(t) \/ ActingFails(t)
    BY <1>3 DEF BeginRequest, JudgeFailure, NextRound, ActingFails
  <1>4. ASSUME NEW i \in Input, IncludeRefuses(t, i)
        PROVE  QuietStore
    BY <1>4 DEF IncludeRefuses, InputStep
  <1>5. CASE FinalAnswer(t) \/ AskUser(t)
    BY <1>5 DEF FinalAnswer, AskUser, OwnerStep
  <1>6. CASE DirectAnswer(t) \/ FinishingFails(t) \/ CatchError(t) \/ Unregister(t) \/ Settled(t)
    BY <1>6 DEF DirectAnswer, FinishingFails, CatchError, Unregister, Settled
  <1>7. CASE CompleteTurn(t) \/ WriteInterrupted(t) \/ WriteFailed(t)
    BY <1>7, InterruptIsQuiet DEF CompleteTurn, WriteInterrupted, WriteFailed, TurnStep
  <1>8. CASE CloseInbox(t)
    <2>1. run[t].out \in Outcome
      BY DEF CallInv, RuntimeTypeOK
    <2> QED  BY <1>8, <2>1 DEF CloseInbox, OwnerStep
  <1> QED
    BY <1>1, <1>2, <1>3, <1>4, <1>5, <1>6, <1>7, <1>8 DEF RunStep

LEMMA OtherStepQuiet ==
  ASSUME CallInv, NotifyStep \/ RecoverStep \/ FaultStep
  PROVE  QuietStore
  <1> USE MeTyped DEF QuietStore
  <1>1. CASE NotifyStep
    BY <1>1 DEF NotifyStep, NotifyAbort, NotifySchedule
  <1>2. CASE RecoverStep
    BY <1>2, InterruptIsQuiet DEF RecoverStep, RecoverOwners, RecoverTurn, OwnerStep, TurnStep
  <1>3. CASE FaultStep
    BY <1>3 DEF FaultStep, Crash, Restart, LeaseLapses, HeartbeatFails, OwnerStep
  <1> QED  BY <1>1, <1>2, <1>3

LEMMA RequestsAreSteps ==
  ASSUME CallInv, NEW t \in Turn, IncludeInputs(t) \/ ProviderAnswers(t) \/ ProviderThrows(t)
  PROVE  RequestStep \/ UNCHANGED storeVars
  <1> USE MeTyped, RequestIdTyped
  <1>1. CASE IncludeInputs(t)
    BY <1>1 DEF IncludeInputs, RequestStep, At
  <1>2. CASE ProviderAnswers(t)
    BY <1>2 DEF ProviderAnswers, RequestStep, At
  <1>3. CASE ProviderThrows(t)
    BY <1>3 DEF ProviderThrows, RequestStep, At
  <1> QED  BY <1>1, <1>2, <1>3

LEMMA StepIsStoreStep ==
  ASSUME CallInv, [RuntimeNext]_vars
  PROVE  [StoreNext]_storeVars
  <1>1. CASE UNCHANGED vars
    BY <1>1 DEF vars
  <1>2. CASE RuntimeNext
    BY <1>2, UserStepQuiet, DispatchStepQuiet, RunStepQuiet, OtherStepQuiet, RequestsAreSteps
    DEF RuntimeNext, QuietStore, StoreNext
  <1> QED  BY <1>1, <1>2

-----------------------------------------------------------------------------
(* CallInv is inductive.                                                   *)

LEMMA StatusKept ==
  ASSUME TypeOK, [StoreNext]_storeVars, NEW t \in Turn, tstatus[t] # "none"
  PROVE  tstatus'[t] # "none"
  <1> USE DEF TypeOK, storeVars
  <1>1. ASSUME UNCHANGED tstatus
        PROVE  tstatus'[t] # "none"
    BY <1>1
  <1>2. CASE InputStep
    BY <1>1, <1>2
    DEF InputStep, AdmitTaskInput, ResumeQueue, CancelInput, PromoteToSteer, RejectTaskInput
  <1>3. CASE OwnerStep
    BY <1>1, <1>3
    DEF OwnerStep, OpenTaskInboxTurn, RenewTaskInboxTurn, PauseTaskInboxTurn, ReserveFollowup,
        RejectRevokedFollowup, RejectTaskInput, SealTaskInboxTurn, SealNativeTaskInboxTurn,
        CloseTaskInboxTurn, RecoverTaskInboxOwners, LeaseExpires
  <1>4. CASE RequestStep
    BY <1>1, <1>4 DEF RequestStep, IncludeTaskInputs, SettleTaskInputRequest
  <1>5. CASE TurnStep
    BY <1>5 DEF TurnStep, InsertTurn, FinishTurn, InterruptTurn
  <1> QED  BY <1>1, <1>2, <1>3, <1>4, <1>5 DEF StoreNext

LEMMA ScheduleTyped ==
  ASSUME RuntimeTypeOK
  PROVE  Schedule(disp) \in DispatchRecord /\ EndDispatch \in DispatchRecord
  BY DEF RuntimeTypeOK, Schedule, EndDispatch, NoDispatch, DispatchRecord

(* What CallInv says apart from the tables.                                *)
LEMMA CallInvOf ==
  ASSUME CallInv, [RuntimeNext]_vars, RuntimeTypeOK', server'.phase = "down" => me' + 1 \in Owner,
         \A t \in Turn : run'[t].pc \in {"begun", "calling"} => run'[t].round # 0,
         \A t \in Turn : run'[t].pc \in HasStatus => run[t].pc \in HasStatus \/ tstatus'[t] # "none"
  PROVE  CallInv'
  <1>1. [StoreNext]_storeVars
    BY StepIsStoreStep
  <1>2. TypeOK'
    BY <1>1, StepTyped DEF CallInv
  <1>3. \A t \in Turn : tstatus[t] # "none" => tstatus'[t] # "none"
    BY <1>1, StatusKept DEF CallInv
  <1> QED  BY <1>2, <1>3 DEF CallInv

(* A step that moves one call.                                             *)
LEMMA CallInvOfCall ==
  ASSUME CallInv, RuntimeNext, NEW t \in Turn, NEW c \in CallRecord, run' = [run EXCEPT ![t] = c],
         c.pc \in {"begun", "calling"} => c.round # 0,
         c.pc \in HasStatus => run[t].pc \in HasStatus \/ tstatus'[t] # "none",
         UNCHANGED <<server, notes>>, active' \in Turn \cup {NoTurn}, aborted' \subseteq Turn,
         disp' \in DispatchRecord
  PROVE  CallInv'
  <1>1. RuntimeTypeOK'
    BY DEF CallInv, RuntimeTypeOK, CallRecord, DispatchRecord
  <1> QED  BY <1>1, CallInvOf DEF CallInv, RuntimeTypeOK, me

LEMMA UserStepCalls ==
  ASSUME CallInv, UserStep
  PROVE  CallInv'
  <1> USE DEF CallInv, RuntimeTypeOK, DispatchRecord
  <1>1. notes' \subseteq Input \X {"abort", "schedule"} /\ UNCHANGED <<server, disp>>
    BY DEF UserStep, UserAdmits, UserResumes, UserCancels, UserPromotes, UserStops, UserSends,
           Note, runtimeVars
  <1>2. ASSUME UNCHANGED <<run, active, aborted>>
        PROVE  CallInv'
    BY <1>1, <1>2, CallInvOf DEF RuntimeNext, me
  <1>3. ASSUME NEW t \in Turn, UserStops(t)
        PROVE  CallInv'
    BY <1>1, <1>3, CallInvOf DEF RuntimeNext, UserStops, me
  <1>4. ASSUME NEW t \in Turn, UserSends(t)
        PROVE  CallInv'
    BY <1>1, <1>4, CallInvOf DEF RuntimeNext, UserSends, Go, Pc, Alive, HasStatus, me
  <1> QED
    BY <1>2, <1>3, <1>4
    DEF UserStep, UserAdmits, UserResumes, UserCancels, UserPromotes, runtimeVars

LEMMA CallTyped ==
  ASSUME CallInv, NEW t \in Turn
  PROVE  /\ run[t] \in CallRecord
         /\ \A x \in Pc : [run[t] EXCEPT !.pc = x] \in CallAt(x)
         /\ \A x \in Pc, o \in Outcome :
              /\ [run[t] EXCEPT !.pc = x, !.out = o] \in CallAt(x)
              /\ [run[t] EXCEPT !.pc = x, !.out = o, !.threw = TRUE] \in CallAt(x)
         /\ \A x \in Pc : [run[t] EXCEPT !.pc = x, !.replaced = FALSE] \in CallAt(x)
         /\ \A b \in BOOLEAN : /\ [run[t] EXCEPT !.replaced = b] \in CallAt(run[t].pc)
                              /\ [run[t] EXCEPT !.replaced = b].round = run[t].round
  <1>1. run[t] \in CallRecord
    BY DEF CallInv, RuntimeTypeOK, CallRecord
  <1>2. ASSUME NEW x \in Pc, NEW o \in Outcome
        PROVE  /\ [run[t] EXCEPT !.pc = x, !.out = o] \in CallAt(x)
               /\ [run[t] EXCEPT !.pc = x, !.out = o, !.threw = TRUE] \in CallAt(x)
    BY <1>1 DEF CallRecord, CallAt
  <1>3. ASSUME NEW x \in Pc
        PROVE  /\ [run[t] EXCEPT !.pc = x] \in CallAt(x)
               /\ [run[t] EXCEPT !.pc = x, !.replaced = FALSE] \in CallAt(x)
    BY <1>1 DEF CallRecord, CallAt
  <1>4. ASSUME NEW b \in BOOLEAN
        PROVE  /\ [run[t] EXCEPT !.replaced = b] \in CallAt(run[t].pc)
               /\ [run[t] EXCEPT !.replaced = b].round = run[t].round
    BY <1>1 DEF CallRecord, CallAt
  <1> QED  BY <1>1, <1>2, <1>3, <1>4

LEMMA CallGoes ==
  ASSUME CallInv, RuntimeNext, NEW t \in Turn, NEW x \in Pc, Go(t, x),
         x \in {"begun", "calling"} => run[t].pc \in {"begun", "calling"},
         x \in HasStatus => run[t].pc \in HasStatus \/ tstatus'[t] # "none",
         UNCHANGED <<server, notes>>, active' \in Turn \cup {NoTurn}, aborted' \subseteq Turn,
         disp' \in DispatchRecord
  PROVE  CallInv'
  <1> DEFINE c == [run[t] EXCEPT !.pc = x]
  <1>1. c \in CallAt(x)
    BY CallTyped DEF Outcome
  <1>2. c.round = run[t].round
    BY CallTyped DEF CallRecord
  <1>3. run' = [run EXCEPT ![t] = c]
    BY DEF Go
  <1>4. x \in {"begun", "calling"} => c.round # 0
    BY <1>2 DEF CallInv
  <1> HIDE DEF c
  <1> QED  BY <1>1, <1>3, <1>4, CallInvOfCall DEF CallAt

(* The memory beside the calls.                                            *)
LEMMA MemoryTyped ==
  ASSUME CallInv
  PROVE  active \in Turn \cup {NoTurn} /\ aborted \subseteq Turn /\ disp \in DispatchRecord
  BY DEF CallInv, RuntimeTypeOK, DispatchRecord

LEMMA DispatchStepCalls ==
  ASSUME CallInv, DispatchStep
  PROVE  CallInv'
  <1> USE DEF CallInv, RuntimeTypeOK, DispatchRecord
  <1>1. CASE DispatchLooks
    BY <1>1, CallInvOf, ScheduleTyped DEF RuntimeNext, DispatchLooks, me
  <1>2. CASE DispatchReserves
    <2>1. MayReserve => Oldest(Startable) \in Input
      BY OldestIn DEF MayReserve, Startable, Pending
    <2>2. UNCHANGED <<server, active, aborted, notes>>
      BY <1>2 DEF DispatchReserves
    <2>3. ASSUME UNCHANGED run, disp' \in {EndDispatch, [disp EXCEPT !.pc = "looking"]}
          PROVE  CallInv'
      BY <2>2, <2>3, CallInvOf, ScheduleTyped DEF RuntimeNext, me
    <2>4. ASSUME NEW t \in Turn, ReserveFollowup(t, me),
                 run' = [run EXCEPT ![t].pc = "starting", ![t].seed = Oldest(Startable)],
                 disp' = [disp EXCEPT !.pc = "running", !.turn = t]
          PROVE  CallInv'
      <3>1. PICK i \in Input : i = Oldest(Startable)
        BY <2>1, <2>4 DEF ReserveFollowup
      <3>2. run[t] \in CallRecord
        BY DEF CallRecord
      <3> DEFINE c == [run[t] EXCEPT !.pc = "starting", !.seed = i]
      <3>3. c \in CallRecord /\ c.pc = "starting"
        BY <3>2 DEF CallRecord, Pc, Alive
      <3>4. run' = [run EXCEPT ![t] = c] /\ disp' \in DispatchRecord
        BY <2>4, <3>1
      <3> HIDE DEF c
      <3> QED
        BY <2>2, <3>3, <3>4, CallInvOfCall DEF RuntimeNext, HasStatus
    <2> QED  BY <1>2, <2>3, <2>4 DEF DispatchReserves
  <1>3. ASSUME NEW t \in Turn,
               DispatchStarts(t) \/ DispatchRefused(t) \/ DispatchCloses(t)
        PROVE  CallInv'
    BY <1>3, CallGoes, MemoryTyped
    DEF RuntimeNext, DispatchStep, DispatchStarts, DispatchRefused, DispatchCloses, Pc, Alive,
        HasStatus
  <1>4. ASSUME NEW t \in Turn, DispatchContinues(t) \/ DispatchRejects(t)
        PROVE  CallInv'
    <2>1. disp' \in DispatchRecord /\ UNCHANGED <<server, active, aborted, notes>>
      BY <1>4, ScheduleTyped DEF DispatchContinues, DispatchRejects, DispatchRecord
    <2>2. CASE DispatchContinues(t)
      BY <1>4, <2>1, <2>2, CallInvOf DEF RuntimeNext, DispatchContinues, DispatchRecord, me
    <2>3. CASE DispatchRejects(t)
      BY <1>4, <2>1, <2>3, CallGoes, MemoryTyped
      DEF RuntimeNext, DispatchRejects, Pc, HasStatus
    <2> QED  BY <1>4, <2>2, <2>3
  <1> QED  BY <1>1, <1>2, <1>3, <1>4 DEF DispatchStep

LEMMA RunStepCalls ==
  ASSUME CallInv, NEW t \in Turn, RunStep(t)
  PROVE  CallInv'
  <1>1. RuntimeNext
    BY DEF RuntimeNext
  <1> USE <1>1, MemoryTyped DEF At, Pc, Alive, HasStatus
  <1>2. CASE CheckIdle(t) /\ Go(t, "checked")
    BY <1>2, CallGoes DEF CheckIdle
  <1>3. CASE /\ Throws(t)
             /\ CheckIdle(t) \/ PrepareFails(t) \/ AdmissionFails(t) \/ SetupFails(t)
    <2> DEFINE c == [run[t] EXCEPT !.pc = "closing", !.out = "failed", !.threw = TRUE]
    <2>1. c \in CallAt("closing")
      BY CallTyped DEF Outcome
    <2>2. run' = [run EXCEPT ![t] = c]
      BY <1>3 DEF Throws
    <2>3. UNCHANGED <<server, active, aborted, disp, notes>>
      BY <1>3 DEF CheckIdle, PrepareFails, AdmissionFails, SetupFails
    <2> HIDE DEF c
    <2> QED  BY <2>1, <2>2, <2>3, CallInvOfCall DEF CallAt
  <1>4. CASE InsertStoredTurn(t)
    <2>1. tstatus'[t] # "none"
      BY <1>4 DEF InsertStoredTurn, InsertTurn, CallInv, TypeOK
    <2> QED  BY <1>4, <2>1, CallGoes DEF InsertStoredTurn
  <1>5. CASE RegisterActiveTurn(t)
    BY <1>5, CallGoes DEF RegisterActiveTurn
  <1>6. CASE BeginRequest(t) /\ MayBegin(t)
    <2> DEFINE c == [run[t] EXCEPT !.pc = "begun", !.round = @ + 1, !.replaced = FALSE]
    <2>1. run[t] \in CallRecord
      BY CallTyped DEF Outcome
    <2>2. c \in CallAt("begun") /\ c.round # 0
      <3>1. run[t].round + 1 \in 1..MaxRounds
        BY <1>6, <2>1, RoundAssumption DEF MayBegin, CallRecord
      <3>2. \A n \in 1..MaxRounds : n \in 0..MaxRounds /\ n # 0
        BY RoundAssumption
      <3> QED  BY <2>1, <3>1, <3>2 DEF CallRecord, CallAt
    <2>3. run' = [run EXCEPT ![t] = c] /\ UNCHANGED <<server, active, aborted, disp, notes>>
      BY <1>6 DEF BeginRequest
    <2>4. run[t].pc \in HasStatus
      BY <1>6 DEF BeginRequest
    <2> HIDE DEF c
    <2> QED  BY <2>2, <2>3, <2>4, CallInvOfCall DEF CallAt
  <1>7. CASE BeginRequest(t) /\ ~MayBegin(t)
    BY <1>7, CallGoes DEF BeginRequest
  <1>8. ASSUME NEW i \in Input, IncludeRefuses(t, i)
        PROVE  CallInv'
    BY <1>8, CallInvOf DEF IncludeRefuses, runtimeVars, CallInv, RuntimeTypeOK, me
  <1>9. CASE IncludeInputs(t) \/ ProviderAnswers(t) \/ ProviderThrows(t)
    BY <1>9, CallGoes DEF IncludeInputs, ProviderAnswers, ProviderThrows
  <1>10. CASE JudgeFailure(t) \/ NextRound(t) \/ ActingFails(t)
    BY <1>10, CallGoes DEF JudgeFailure, NextRound, ActingFails
  <1>11. CASE FinalAnswer(t) \/ AskUser(t)
    BY <1>11, CallGoes DEF FinalAnswer, AskUser
  <1>12. CASE DirectAnswer(t) \/ FinishingFails(t) \/ CatchError(t)
    BY <1>12, CallGoes DEF DirectAnswer, FinishingFails, CatchError
  <1>13. CASE CompleteTurn(t) \/ WriteInterrupted(t) \/ WriteFailed(t)
    <2>1. PICK x \in Outcome : run' = [run EXCEPT ![t].pc = "ended", ![t].out = x]
      <3>1. WriteInterrupted(t) => tstatus'[t] \in Outcome
        BY DEF WriteInterrupted, InterruptIfRunning, InterruptTurn, InProgress, CallInv, TypeOK,
               Outcome, storeVars
      <3> QED  BY <1>13, <3>1 DEF CompleteTurn, WriteInterrupted, WriteFailed, Outcome
    <2> DEFINE c == [run[t] EXCEPT !.pc = "ended", !.out = x]
    <2>2. c \in CallAt("ended")
      BY CallTyped
    <2>3. run' = [run EXCEPT ![t] = c] /\ UNCHANGED <<server, active, aborted, disp, notes>>
      BY <1>13, <2>1 DEF CompleteTurn, WriteInterrupted, WriteFailed
    <2> HIDE DEF c
    <2> QED  BY <2>2, <2>3, CallInvOfCall DEF CallAt
  <1>14. CASE Unregister(t)
    <2> DEFINE c == [run[t] EXCEPT !.pc = "closing", !.replaced = FALSE]
    <2>1. c \in CallAt("closing")
      BY CallTyped DEF Outcome
    <2>2. /\ run' = [run EXCEPT ![t] = c]
          /\ active' \in Turn \cup {NoTurn} /\ aborted' \subseteq Turn
          /\ UNCHANGED <<server, disp, notes>>
      BY <1>14 DEF Unregister
    <2> HIDE DEF c
    <2> QED  BY <2>1, <2>2, CallInvOfCall DEF CallAt
  <1>15. CASE CloseInbox(t)
    BY <1>15, CallGoes DEF CloseInbox
  <1>16. CASE Settled(t)
    <2>1. disp' \in DispatchRecord
      BY <1>16, ScheduleTyped DEF Settled, WakeAfter, CallInv
    <2> QED  BY <1>16, <2>1, CallGoes DEF Settled
  <1> QED
    BY <1>2, <1>3, <1>4, <1>5, <1>6, <1>7, <1>8, <1>9, <1>10, <1>11, <1>12, <1>13, <1>14, <1>15,
       <1>16
    DEF RunStep, CheckIdle, PrepareFails, AdmissionFails, SetupFails

LEMMA ReplacedCalls ==
  ASSUME CallInv, NEW i \in Input, NotifyAbort(i), NEW t \in Turn
  PROVE  run'[t] \in CallAt(run[t].pc) /\ run'[t].round = run[t].round
  <1>1. run[t].replaced \in BOOLEAN /\ Requesting(t) \in BOOLEAN
    BY DEF CallInv, RuntimeTypeOK, Requesting
  <1>2. PICK b \in BOOLEAN : run'[t] = [run[t] EXCEPT !.replaced = b]
    BY <1>1, Zenon DEF NotifyAbort
  <1>3. run[t].pc \in Pc
    BY DEF CallInv, RuntimeTypeOK
  <1> QED  BY <1>2, <1>3, CallTyped, Zenon DEF Outcome

LEMMA CrashedCalls ==
  ASSUME CallInv, Crash, NEW t \in Turn
  PROVE  /\ run'[t] \in CallRecord
         /\ run'[t].pc = "lost" \/ (run'[t] = run[t] /\ run[t].pc \notin Alive)
  <1>1. CASE run[t].pc \in Alive
    <2>1. run'[t] = [run[t] EXCEPT !.pc = "lost"]
      BY <1>1, Zenon DEF Crash
    <2>2. "lost" \in Pc
      BY DEF Pc
    <2>3. run'[t] \in CallAt("lost")
      BY <2>1, <2>2, CallTyped, Zenon
    <2> QED  BY <2>3 DEF CallAt
  <1>2. CASE run[t].pc \notin Alive
    <2>1. run'[t] = run[t]
      BY <1>2, Zenon DEF Crash
    <2> QED  BY <1>2, <2>1, CallTyped, Zenon
  <1> QED  BY <1>1, <1>2

LEMMA CrashCalls ==
  ASSUME CallInv, Crash
  PROVE  CallInv'
  <1>1. run' \in [Turn -> CallRecord]
    <2>1. run' = [t \in Turn |-> run'[t]]
      BY DEF Crash
    <2> QED  BY <2>1, CrashedCalls
  <1>2. \A t \in Turn : run'[t] = run[t] \/ run'[t].pc = "lost"
    BY CrashedCalls
  <1>3. RuntimeTypeOK'
    <2>1. server' \in [phase : {"down", "recovering", "restoring", "ready"}, id : Owner,
                       orphan : Turn \cup {NoTurn}]
      BY DEF Crash, CallInv, RuntimeTypeOK
    <2>2. active' \in Turn \cup {NoTurn} /\ aborted' \subseteq Turn /\ disp' \in DispatchRecord
          /\ notes' \subseteq Input \X {"abort", "schedule"}
      BY DEF Crash, NoDispatch, DispatchRecord
    <2> QED  BY <1>1, <2>1, <2>2 DEF RuntimeTypeOK, CallRecord, DispatchRecord
  <1>4. server'.phase = "down" => me' + 1 \in Owner
    BY DEF Crash, CallInv, RuntimeTypeOK, me
  <1>5. \A t \in Turn : run'[t].pc \in {"begun", "calling"} => run'[t].round # 0
    BY <1>2 DEF CallInv
  <1>6. \A t \in Turn : run'[t].pc \in HasStatus => run[t].pc \in HasStatus
    BY <1>2 DEF HasStatus
  <1>7. RuntimeNext
    BY DEF RuntimeNext, FaultStep
  <1> QED  BY <1>3, <1>4, <1>5, <1>6, <1>7, CallInvOf

LEMMA OtherStepCalls ==
  ASSUME CallInv, NotifyStep \/ RecoverStep \/ FaultStep
  PROVE  CallInv'
  <1> USE CallInvOf DEF CallInv, RuntimeTypeOK, DispatchRecord, RuntimeNext, me
  <1>1. CASE NotifyStep
    <2>1. /\ run' \in [Turn -> CallRecord]
          /\ \A t \in Turn : run'[t].pc = run[t].pc /\ run'[t].round = run[t].round
      <3>1. CASE UNCHANGED run
        BY <3>1, CallTyped
      <3>2. ASSUME NEW i \in Input, NotifyAbort(i)
            PROVE  \A t \in Turn : /\ run'[t] \in CallRecord
                                   /\ run'[t].pc = run[t].pc /\ run'[t].round = run[t].round
        BY <3>2, ReplacedCalls DEF CallAt
      <3>3. run' = [t \in Turn |-> run'[t]]
        BY <1>1 DEF NotifyStep, NotifyAbort, NotifySchedule
      <3> QED  BY <1>1, <3>1, <3>2, <3>3 DEF NotifyStep, NotifySchedule
    <2>2. disp' \in DispatchRecord /\ notes' \subseteq notes /\ UNCHANGED <<server, active, aborted>>
      BY <1>1, ScheduleTyped DEF NotifyStep, NotifyAbort, NotifySchedule
    <2> QED  BY <1>1, <2>1, <2>2 DEF CallRecord
  <1>2. CASE RecoverOwners
    <2>1. server' \in [phase : {"restoring"}, id : {server.id}, orphan : Turn \cup {NoTurn}]
      <3>1. row.turn \in Turn \cup {NoTurn}
        BY DEF TypeOK
      <3>2. \/ server' = [server EXCEPT !.phase = "restoring", !.orphan = row.turn]
            \/ server' = [server EXCEPT !.phase = "restoring"]
        BY <1>2, Zenon DEF RecoverOwners
      <3> QED  BY <3>1, <3>2
    <2>2. UNCHANGED <<run, active, aborted, disp, notes>>
      BY <1>2 DEF RecoverOwners
    <2> QED  BY <1>2, <2>1, <2>2 DEF RecoverStep
  <1>3. CASE RecoverTurn
    BY <1>3, ScheduleTyped DEF RecoverStep, RecoverTurn
  <1>4. CASE Crash
    BY <1>4, CrashCalls
  <1>5. CASE Restart
    BY <1>5 DEF FaultStep, Restart
  <1>6. CASE LeaseLapses
    BY <1>6 DEF FaultStep, LeaseLapses, runtimeVars
  <1>7. ASSUME NEW t \in Turn, HeartbeatFails(t)
        PROVE  CallInv'
    BY <1>7 DEF FaultStep, HeartbeatFails
  <1> QED  BY <1>1, <1>2, <1>3, <1>4, <1>5, <1>6, <1>7 DEF RecoverStep, FaultStep

LEMMA CallsCorrect == RuntimeSpec => []CallInv
  <1>1. RuntimeInit => CallInv
    <2>1. RuntimeInit => TypeOK
      BY InitTyped DEF RuntimeInit
    <2> QED
      BY <2>1, OwnerAssumption, RoundAssumption
      DEF RuntimeInit, CallInv, RuntimeTypeOK, IdleRun, NoDispatch, Pc, HasStatus, Outcome, me
  <1>2. CallInv /\ [RuntimeNext]_vars => CallInv'
    <2>1. ASSUME CallInv, UNCHANGED vars
          PROVE  CallInv'
      BY <2>1, CallInvOf DEF CallInv, RuntimeTypeOK, vars, runtimeVars, me
    <2> QED
      BY <2>1, UserStepCalls, DispatchStepCalls, RunStepCalls, OtherStepCalls DEF RuntimeNext
  <1> QED  BY <1>1, <1>2, PTL DEF RuntimeSpec

(***************************************************************************)
(* The memory of the processes stays well formed, whatever befalls them: a *)
(* call never reads a status that is not there and never runs a request    *)
(* beyond the last round.                                                  *)
(***************************************************************************)
THEOREM RuntimeTypeCorrect == RuntimeSpec => []RuntimeTypeOK
  <1>1. CallInv => RuntimeTypeOK
    BY DEF CallInv
  <1> QED  BY <1>1, CallsCorrect, PTL

(***************************************************************************)
(* The processes implement the store specification: every step of theirs   *)
(* is one transaction of the inbox, or leaves the tables alone.            *)
(***************************************************************************)
THEOREM RuntimeUsesStore == RuntimeSpec => StoreSpec
  <1>1. RuntimeInit => StoreInit
    BY DEF RuntimeInit
  <1>2. CallInv /\ [RuntimeNext]_vars => [StoreNext]_storeVars
    BY StepIsStoreStep
  <1> QED  BY <1>1, <1>2, CallsCorrect, PTL DEF RuntimeSpec, StoreSpec

(***************************************************************************)
(* So the running server keeps every promise to senders that the store     *)
(* keeps.                                                                  *)
(***************************************************************************)
THEOREM RuntimeKeepsReceipts == RuntimeSpec => KeepsReceipts
  BY RuntimeUsesStore, StoreKeepsReceipts, PTL

-----------------------------------------------------------------------------
(***************************************************************************)
(* No input is sent twice.  Three facts carry it: the call that waits for  *)
(* a provider is the one whose request is out (so what a settlement gives  *)
(* back was out for that call only); a pending input that was ever in a    *)
(* manifest was in replaced ones only; and recovery fails requests of      *)
(* other server starts only, for a live call that has the row has it under *)
(* this server's owner id.                                                 *)
(***************************************************************************)
HolderInv ==
  /\ \A t \in Turn : row.turn = t /\ run[t].pc \in Alive => row.owner = me
  /\ ~Up => (\A t \in Turn : run[t].pc \notin Alive) /\ disp.pc = "idle" /\ notes = {}

SendInv ==
  /\ \A t \in Turn : run[t].pc = "calling" =>
       req[RequestId(t)].state = "included" /\ req[RequestId(t)].turn = t
  /\ \A r \in Request : req[r].state = "none" => req[r].ids = {}
  /\ \A i \in Input, r \in Request : i \in req[r].ids => input[i].state # "absent"
  /\ \A i \in Pending, r \in Request : i \in req[r].ids => req[r].state = "replaced"
  /\ NotSentTwice

RowKept == row'.turn = row.turn /\ row'.owner = row.owner

AliveKept == \A t \in Turn : run'[t].pc \in Alive => run[t].pc \in Alive

CallsKept ==
  \A t \in Turn : run'[t].pc = "calling" => run[t].pc = "calling" /\ run'[t].round = run[t].round

Requests(t) == IncludeInputs(t) \/ ProviderAnswers(t) \/ ProviderThrows(t)

(* The transactions that do not take the row for another turn.             *)
LEMMA RowKeptBy ==
  ASSUME TypeOK
  PROVE  /\ UNCHANGED storeVars => RowKept
         /\ \A i, k, t : AdmitTaskInput(i, k, t) \/ PromoteToSteer(i, t) => RowKept
         /\ \A i : ResumeQueue(i) \/ CancelInput(i) \/ RejectTaskInput(i) => RowKept
         /\ RejectRevokedFollowup \/ LeaseExpires => RowKept
         /\ \A t, o : PauseTaskInboxTurn(t, o) \/ SealTaskInboxTurn(t, o) => RowKept
         /\ \A t, o, x, f : CloseTaskInboxTurn(t, o, x, f) => RowKept
         /\ \A t, x : InsertTurn(t) \/ FinishTurn(t, x) \/ InterruptIfRunning(t) => RowKept
         /\ \A r, x : SettleTaskInputRequest(r, x) => RowKept
         /\ \A t, o, r, f, b : IncludeTaskInputs(t, o, r, f, b) => RowKept
         /\ \A o : RecoverTaskInboxOwners(o) => RowKept
  BY DEF TypeOK, RowKept, storeVars, AdmitTaskInput, PromoteToSteer, ResumeQueue, CancelInput,
         RejectTaskInput, RejectRevokedFollowup, LeaseExpires, PauseTaskInboxTurn,
         SealTaskInboxTurn, CloseTaskInboxTurn, InsertTurn, FinishTurn, InterruptIfRunning,
         InterruptTurn, SettleTaskInputRequest, IncludeTaskInputs, RecoverTaskInboxOwners

(* A call moves itself only, and not without being alive.                  *)
LEMMA RunStepLocal ==
  ASSUME CallInv, NEW t \in Turn, RunStep(t)
  PROVE  /\ run[t].pc \in Alive
         /\ \A u \in Turn \ {t} : run'[u] = run[u]
         /\ UNCHANGED <<server, notes>>
         /\ run'[t].pc = "calling" => IncludeInputs(t)
         /\ RowKept
         /\ Requests(t) \/ UNCHANGED req
  <1> DEFINE Goal == /\ run[t].pc \in Alive
                     /\ \A u \in Turn \ {t} : run'[u] = run[u]
                     /\ UNCHANGED <<server, notes>>
                     /\ run'[t].pc = "calling" => IncludeInputs(t)
                     /\ RowKept
                     /\ Requests(t) \/ UNCHANGED req
  <1>1. TypeOK /\ run \in [Turn -> CallRecord]
    BY DEF CallInv, RuntimeTypeOK, CallRecord
  <1> USE RowKeptBy, <1>1 DEF CallRecord, Alive, At, Go, Throws, storeVars
  <1>2. CASE CheckIdle(t) \/ PrepareFails(t) \/ SetupFails(t) \/ RegisterActiveTurn(t)
    BY <1>2 DEF CheckIdle, PrepareFails, SetupFails, RegisterActiveTurn
  <1>3. CASE InsertStoredTurn(t) \/ AdmissionFails(t)
    <2>1. RowKept /\ UNCHANGED req
      BY <1>3 DEF InsertStoredTurn, AdmissionFails, InsertTurn, FinishTurn, RowKept
    <2> QED  BY <1>3, <2>1 DEF InsertStoredTurn, AdmissionFails
  <1>4. CASE BeginRequest(t) \/ JudgeFailure(t) \/ NextRound(t) \/ ActingFails(t)
    BY <1>4 DEF BeginRequest, JudgeFailure, NextRound, ActingFails
  <1>5. ASSUME NEW i \in Input, IncludeRefuses(t, i)
        PROVE  Goal
    BY <1>5 DEF IncludeRefuses, RejectTaskInput, runtimeVars
  <1>6. CASE FinalAnswer(t) \/ AskUser(t)
    BY <1>6 DEF FinalAnswer, AskUser, SealTaskInboxTurn, PauseTaskInboxTurn
  <1>7. CASE DirectAnswer(t) \/ FinishingFails(t) \/ CatchError(t) \/ Unregister(t) \/ Settled(t)
    BY <1>7 DEF DirectAnswer, FinishingFails, CatchError, Unregister, Settled
  <1>8. CASE CompleteTurn(t) \/ WriteInterrupted(t) \/ WriteFailed(t)
    <2>1. RowKept /\ UNCHANGED req
      BY <1>8
      DEF CompleteTurn, WriteInterrupted, WriteFailed, FinishTurn, InterruptIfRunning,
          InterruptTurn, RowKept
    <2> QED  BY <1>8, <2>1 DEF CompleteTurn, WriteInterrupted, WriteFailed
  <1>9. CASE CloseInbox(t)
    <2>1. RowKept
      BY <1>9, RowKeptBy, <1>1, Zenon DEF CloseInbox
    <2>2. UNCHANGED req
      BY <1>9 DEF CloseInbox, CloseTaskInboxTurn
    <2> QED  BY <1>9, <2>1, <2>2 DEF CloseInbox
  <1>10. CASE Requests(t)
    BY <1>10 DEF Requests, IncludeInputs, ProviderAnswers, ProviderThrows
  <1> QED
    BY <1>2, <1>3, <1>4, <1>5, <1>6, <1>7, <1>8, <1>9, <1>10, Zenon DEF RunStep, Requests

(* What the others do to the calls.                                        *)
Others ==
  /\ me' = me
  /\ Up'
  /\ row'.owner = me \/ (RowKept /\ AliveKept)
  /\ CallsKept
  /\ UNCHANGED req

LEMMA UserMoves ==
  ASSUME CallInv, UserStep
  PROVE  Others
  <1>1. TypeOK /\ run \in [Turn -> CallRecord]
    BY DEF CallInv, RuntimeTypeOK, CallRecord
  <1> USE RowKeptBy, <1>1 DEF Others, AliveKept, CallsKept, me, Up
  <1>2. ASSUME NEW i \in Input, NEW kind \in UserKinds, NEW t \in Turn, UserAdmits(i, kind, t)
        PROVE  Others
    BY <1>2 DEF UserAdmits, AdmitTaskInput
  <1>3. ASSUME NEW i \in Input, UserResumes(i) \/ UserCancels(i)
        PROVE  Others
    BY <1>3 DEF UserResumes, UserCancels, ResumeQueue, CancelInput, runtimeVars
  <1>4. ASSUME NEW i \in Input, NEW t \in Turn, UserPromotes(i, t)
        PROVE  Others
    BY <1>4 DEF UserPromotes, PromoteToSteer
  <1>5. ASSUME NEW t \in Turn, UserStops(t)
        PROVE  Others
    BY <1>5 DEF UserStops, InterruptIfRunning, InterruptTurn, storeVars
  <1>6. ASSUME NEW t \in Turn, UserSends(t)
        PROVE  Others
    BY <1>6 DEF UserSends, OpenTaskInboxTurn, TakeRow, Go, CallRecord
  <1> QED  BY <1>2, <1>3, <1>4, <1>5, <1>6 DEF UserStep

LEMMA DispatchMoves ==
  ASSUME CallInv, HolderInv, DispatchStep
  PROVE  Others
  <1>1. TypeOK /\ run \in [Turn -> CallRecord]
    BY DEF CallInv, RuntimeTypeOK, CallRecord
  <1>2. Up
    BY DEF HolderInv, DispatchStep, DispatchLooks, DispatchReserves, DispatchStarts,
           DispatchRefused, DispatchContinues, DispatchCloses, DispatchRejects,
           RejectRevokedFollowup, At, Alive
  <1> USE RowKeptBy, <1>1, <1>2 DEF Others, AliveKept, CallsKept, me, Up, storeVars
  <1>3. CASE DispatchLooks
    BY <1>3 DEF DispatchLooks
  <1>4. CASE DispatchReserves
    <2>1. UNCHANGED <<server, req>>
      BY <1>4 DEF DispatchReserves, ReserveFollowup, RejectRevokedFollowup, RejectTaskInput
    <2>2. CASE UNCHANGED run
      <3>1. RowKept \/ row'.owner = me
        <4>1. \A t \in Turn : ReserveFollowup(t, me) => row'.owner = me
          BY DEF ReserveFollowup, TakeRow
        <4> QED  BY <1>4, <4>1 DEF DispatchReserves, RowKept
      <3> QED  BY <2>1, <2>2, <3>1
    <2>3. ASSUME NEW t \in Turn, ReserveFollowup(t, me),
                 run' = [run EXCEPT ![t].pc = "starting", ![t].seed = Oldest(Startable)]
          PROVE  Others
      <3>1. row'.owner = me
        BY <2>3 DEF ReserveFollowup, TakeRow
      <3>2. \A u \in Turn : run'[u] = run[u] \/ run'[u].pc = "starting"
        BY <2>3 DEF CallRecord
      <3> QED  BY <2>1, <3>1, <3>2
    <2> QED  BY <1>4, <2>2, <2>3 DEF DispatchReserves
  <1>5. ASSUME NEW t \in Turn, DispatchStarts(t)
        PROVE  Others
    BY <1>5 DEF DispatchStarts, OpenTaskInboxTurn, TakeRow, Go, CallRecord
  <1>6. ASSUME NEW t \in Turn, DispatchRefused(t) \/ DispatchContinues(t)
        PROVE  Others
    BY <1>6 DEF DispatchRefused, DispatchContinues, Go, At, Alive, CallRecord
  <1>7. ASSUME NEW t \in Turn, DispatchCloses(t)
        PROVE  Others
    <2>1. RowKept
      BY <1>7, RowKeptBy, <1>1, Zenon DEF DispatchCloses
    <2>2. UNCHANGED req
      BY <1>7 DEF DispatchCloses, CloseTaskInboxTurn
    <2> QED  BY <1>7, <2>1, <2>2 DEF DispatchCloses, Go, At, Alive, CallRecord
  <1>8. ASSUME NEW t \in Turn, DispatchRejects(t)
        PROVE  Others
    BY <1>8 DEF DispatchRejects, RejectTaskInput, Go, At, Alive, CallRecord
  <1> QED  BY <1>3, <1>4, <1>5, <1>6, <1>7, <1>8 DEF DispatchStep

LEMMA NotifyMoves ==
  ASSUME CallInv, HolderInv, NotifyStep
  PROVE  Others
  <1>1. TypeOK /\ Up
    BY DEF CallInv, HolderInv, NotifyStep, NotifyAbort, NotifySchedule
  <1>2. PICK i \in Input : NotifyAbort(i) \/ NotifySchedule(i)
    BY DEF NotifyStep
  <1>3. /\ UNCHANGED <<storeVars, server>>
        /\ \A t \in Turn : run'[t].pc = run[t].pc /\ run'[t].round = run[t].round
    BY <1>2, ReplacedCalls DEF NotifyAbort, NotifySchedule, CallAt
  <1> QED
    BY <1>1, <1>3, RowKeptBy DEF Others, AliveKept, CallsKept, me, Up, storeVars

LEMMA RecoverMoves ==
  ASSUME CallInv, RecoverStep
  PROVE  /\ me' = me /\ Up' /\ RowKept /\ UNCHANGED run
         /\ UNCHANGED req \/ RecoverTaskInboxOwners(me)
  <1>1. TypeOK /\ me' = me /\ Up' /\ UNCHANGED run
    BY DEF CallInv, RuntimeTypeOK, RecoverStep, RecoverOwners, RecoverTurn, me, Up
  <1>2. CASE RecoverOwners
    BY <1>1, <1>2, RowKeptBy, Zenon DEF RecoverOwners, storeVars
  <1>3. CASE RecoverTurn
    BY <1>1, <1>3, RowKeptBy DEF RecoverTurn, InterruptIfRunning, InterruptTurn, storeVars
  <1> QED  BY <1>1, <1>2, <1>3 DEF RecoverStep

(* The row of a call that is alive bears this server's owner id; nothing   *)
(* is alive on a server that is down.                                      *)
LEMMA HolderKept ==
  ASSUME HolderInv, me' = me, Up', row'.owner = me \/ (RowKept /\ AliveKept)
  PROVE  HolderInv'
  BY DEF HolderInv, RowKept, AliveKept

LEMMA HolderStep ==
  ASSUME CallInv, HolderInv, [RuntimeNext]_vars
  PROVE  HolderInv'
  <1>1. CASE UNCHANGED vars
    BY <1>1 DEF HolderInv, vars, storeVars, runtimeVars, me, Up
  <1>2. CASE UserStep \/ DispatchStep \/ NotifyStep
    BY <1>2, UserMoves, DispatchMoves, NotifyMoves, HolderKept DEF Others
  <1>3. ASSUME NEW t \in Turn, RunStep(t)
        PROVE  HolderInv'
    BY <1>3, RunStepLocal, HolderKept DEF HolderInv, AliveKept, me, Up
  <1>4. CASE RecoverStep
    BY <1>4, RecoverMoves, HolderKept DEF AliveKept
  <1>5. CASE Crash
    <2>1. \A t \in Turn : run'[t].pc \notin Alive
      BY <1>5, CrashedCalls DEF Alive
    <2> QED  BY <1>5, <2>1 DEF Crash, HolderInv, NoDispatch
  <1>6. CASE Restart
    BY <1>6 DEF Restart, HolderInv, Up, storeVars
  <1>7. CASE LeaseLapses
    BY <1>7 DEF LeaseLapses, LeaseExpires, HolderInv, CallInv, TypeOK, runtimeVars, me, Up
  <1>8. ASSUME NEW t \in Turn, HeartbeatFails(t)
        PROVE  HolderInv'
    BY <1>8 DEF HeartbeatFails, HolderInv, storeVars, me, Up
  <1> QED
    BY <1>1, <1>2, <1>3, <1>4, <1>5, <1>6, <1>7, <1>8 DEF RuntimeNext, FaultStep

-----------------------------------------------------------------------------
(* Only a settlement gives an input back: no other transaction makes an    *)
(* input pending that a request had taken.                                 *)
LEMMA NoneReturned ==
  ASSUME TypeOK, QuietStore, NEW i \in Input, input'[i].state = "pending"
  PROVE  input[i].state \in {"absent", "pending"}
  <1> DEFINE Goal == input[i].state \in {"absent", "pending"}
  <1>1. input[i] \in InputRecord /\ input \in [Input -> InputRecord]
    BY EditsTyped DEF TypeOK, InputRecord
  <1>2. CASE UNCHANGED input
    BY <1>2
  <1>3. CASE InputStep
    BY <1>1, <1>2, <1>3
    DEF InputStep, AdmitTaskInput, ResumeQueue, CancelInput, PromoteToSteer, Editable,
        RejectTaskInput
  <1>4. CASE OwnerStep
    <2>1. ASSUME NEW t \in Turn, NEW o \in Owner, ReserveFollowup(t, o)
          PROVE  Goal
      BY <1>1, <2>1 DEF ReserveFollowup, InputRecord
    <2>2. CASE RejectRevokedFollowup
      BY <1>1, <2>2 DEF RejectRevokedFollowup, RejectTaskInput
    <2>3. ASSUME NEW t \in Turn, NEW o \in Owner, SealNativeTaskInboxTurn(t, o)
          PROVE  Goal
      BY <2>3, PendingForIn DEF SealNativeTaskInboxTurn
    <2>4. ASSUME NEW t \in Turn, NEW o \in Owner, NEW x \in Outcome, NEW refused \in SUBSET Revocable,
                 CloseTaskInboxTurn(t, o, x, refused)
          PROVE  Goal
      BY <2>4, PendingForIn DEF CloseTaskInboxTurn
    <2>5. ASSUME NEW o \in Owner, RecoverTaskInboxOwners(o)
          PROVE  Goal
      <3>1. \/ input'[i] = input[i] \/ input[i].state = "pending"
            \/ input[i].state = "included" /\ input'[i] = Uncertain(i)
        BY <2>5 DEF RecoverTaskInboxOwners
      <3> QED  BY <1>1, <3>1 DEF Uncertain, InputRecord
    <2> QED
      BY <1>2, <1>4, <2>1, <2>2, <2>3, <2>4, <2>5
      DEF OwnerStep, OpenTaskInboxTurn, RenewTaskInboxTurn, PauseTaskInboxTurn,
          SealTaskInboxTurn, LeaseExpires, storeVars
  <1>5. CASE TurnStep
    BY <1>2, <1>5 DEF TurnStep, InsertTurn, FinishTurn, InterruptTurn
  <1> QED  BY <1>2, <1>3, <1>4, <1>5 DEF QuietStore, storeVars

(* An input never leaves the table.                                        *)
LEMMA AdmittedForGood ==
  ASSUME TypeOK, [StoreNext]_storeVars, NEW i \in Input, input[i].state # "absent"
  PROVE  input'[i].state # "absent"
  <1>1. Edited(i) /\ input[i] \in InputRecord
    BY EveryEdit, EditsTyped
  <1> QED
    BY <1>1
    DEF Edited, Admitted, Taken, Dropped, Judged, InputRecord, Steered, Delivered, Rejected,
        Detached, Answered, ReceiptAfter, Uncertain

LEMMA SendsOfQuiet ==
  ASSUME CallInv, SendInv, [RuntimeNext]_vars, QuietStore, UNCHANGED req, CallsKept
  PROVE  SendInv'
  <1>1. TypeOK /\ [StoreNext]_storeVars
    BY StepIsStoreStep DEF CallInv
  <1>2. \A t \in Turn : run'[t].pc = "calling" =>
           run[t].pc = "calling" /\ RequestId(t)' = RequestId(t)
    BY DEF CallsKept, RequestId
  <1>3. \A i \in Pending' : input[i].state \in {"absent", "pending"}
    BY <1>1, NoneReturned DEF Pending
  <1>4. \A i \in Pending', r \in Request : i \in req[r].ids => i \in Pending
    BY <1>3 DEF SendInv, Pending
  <1>5. \A i \in Pending' : i \in Input
    BY DEF Pending
  <1> QED
    BY <1>1, <1>2, <1>4, <1>5, AdmittedForGood DEF SendInv, NotSentTwice

(* A request takes pending inputs only: those that were in a manifest      *)
(* before were in replaced ones.                                           *)
LEMMA SendsOfInclude ==
  ASSUME CallInv, SendInv, [RuntimeNext]_vars, NEW t \in Turn, IncludeInputs(t),
         \A u \in Turn \ {t} : run'[u] = run[u]
  PROVE  SendInv'
  <1>1. TypeOK /\ [StoreNext]_storeVars
    BY StepIsStoreStep DEF CallInv
  <1>2. run[t].pc = "begun" /\ RequestId(t) \in Request
    BY RequestIdTyped DEF IncludeInputs, At
  <1>3. CASE UNCHANGED storeVars
    <2>1. CallsKept
      <3>1. run \in [Turn -> CallRecord]
        BY DEF CallInv, RuntimeTypeOK, CallRecord
      <3>2. run'[t].pc = "calling" => FALSE
        BY <1>1, <1>2, <1>3, <3>1 DEF IncludeInputs, IncludeTaskInputs, Go, CallRecord, storeVars, TypeOK
      <3> QED  BY <3>2 DEF CallsKept
    <2> QED  BY <1>3, <2>1, SendsOfQuiet DEF QuietStore, storeVars
  <1>4. ASSUME NEW refused \in SUBSET Revocable, NEW batch \in BatchOf(t, refused),
               IncludeTaskInputs(t, me, RequestId(t), refused, batch), Go(t, "calling")
        PROVE  SendInv'
    <2> DEFINE r == RequestId(t)
    <2>1. /\ req[r].state = "none" /\ req[r].ids = {}
          /\ req'[r] = [turn |-> t, ids |-> batch, state |-> "included"]
          /\ \A s \in Request : s # r => req'[s] = req[s]
      BY <1>1, <1>2, <1>4 DEF IncludeTaskInputs, SendInv, TypeOK
    <2>2. /\ run'[t].pc = "calling" /\ RequestId(t)' = r
          /\ \A u \in Turn : u # t => run'[u] = run[u] /\ RequestId(u)' = RequestId(u)
                                     /\ RequestId(u) # r
      BY <1>4 DEF Go, CallInv, RuntimeTypeOK, RequestId
    <2>3. ASSUME NEW i \in batch
          PROVE  i \in Pending /\ input'[i].state = "included"
      <3>1. i \in PendingFor(t)
        BY DEF BatchOf
      <3>2. i \in Pending /\ input'[i] = Delivered(i, t) /\ input[i] \in InputRecord
        BY <1>1, <1>4, <3>1, EditsTyped DEF IncludeTaskInputs, PendingFor, Pending
      <3> QED  BY <3>2 DEF Delivered, InputRecord
    <2>4. ASSUME NEW i \in Pending'
          PROVE  i \in Input /\ i \notin batch /\ input[i].state = "pending"
      <3>1. i \in Input /\ input'[i].state = "pending" /\ i \notin batch
        BY <2>3 DEF Pending
      <3>2. input'[i] = input[i] \/ input'[i] = Rejected(i)
        BY <1>4, <3>1 DEF IncludeTaskInputs
      <3>3. Rejected(i).state = "rejected"
        BY <1>1, <3>1, EditsTyped DEF Rejected, InputRecord
      <3> QED  BY <3>1, <3>2, <3>3
    <2>5. \A u \in Turn : run'[u].pc = "calling" =>
            req'[RequestId(u)'].state = "included" /\ req'[RequestId(u)'].turn = u
      BY <1>2, <2>1, <2>2, RequestIdTyped DEF SendInv
    <2>6. \A s \in Request : req'[s].state = "none" => req'[s].ids = {}
      BY <2>1 DEF SendInv
    <2>7. \A i \in Input, s \in Request : i \in req'[s].ids => input'[i].state # "absent"
      BY <1>1, <2>1, <2>3, AdmittedForGood DEF SendInv, Pending
    <2>8. \A i \in Pending', s \in Request : i \in req'[s].ids => req'[s].state = "replaced"
      BY <2>1, <2>4 DEF SendInv, Pending
    <2>9. \A s \in Request : s # r /\ batch \cap req[s].ids # {} => req[s].state = "replaced"
      BY <2>3 DEF SendInv
    <2>10. NotSentTwice'
      BY <2>1, <2>9 DEF NotSentTwice, SendInv
    <2> QED  BY <2>5, <2>6, <2>7, <2>8, <2>10 DEF SendInv
  <1> QED  BY <1>3, <1>4 DEF IncludeInputs

(* A settlement touches the request that is out, which was not replaced:   *)
(* every other manifest with one of its inputs was.                        *)
LEMMA SendsOfSettlement ==
  ASSUME CallInv, SendInv, [RuntimeNext]_vars, NEW t \in Turn, ProviderAnswers(t) \/ ProviderThrows(t),
         \A u \in Turn \ {t} : run'[u] = run[u]
  PROVE  SendInv'
  <1> DEFINE r == RequestId(t)
  <1>1. TypeOK /\ [StoreNext]_storeVars
    BY StepIsStoreStep DEF CallInv
  <1>2. run[t].pc = "calling" /\ r \in Request /\ req[r].state = "included"
    BY RequestIdTyped DEF ProviderAnswers, ProviderThrows, At, SendInv
  <1>3. PICK outcome \in {"resolved", "failed", "replaced"} : SettleTaskInputRequest(r, outcome)
    BY DEF ProviderAnswers, ProviderThrows
  <1>4. /\ req'[r].ids = req[r].ids /\ req'[r].state = outcome
        /\ \A s \in Request : s # r => req'[s] = req[s]
    BY <1>1, <1>2, <1>3 DEF SettleTaskInputRequest, TypeOK
  <1>5. /\ run'[t].pc # "calling"
        /\ \A u \in Turn : u # t => RequestId(u)' = RequestId(u) /\ RequestId(u) # r
    BY DEF ProviderAnswers, ProviderThrows, Go, CallInv, RuntimeTypeOK, RequestId
  <1>6. \A s \in Request : s # r /\ req[s].ids \cap req[r].ids # {} => req[s].state = "replaced"
    BY <1>2 DEF SendInv, NotSentTwice
  <1>7. ASSUME NEW i \in Pending'
        PROVE  \/ i \in Pending /\ i \notin req[r].ids
               \/ i \in req[r].ids /\ outcome = "replaced"
    <2>1. i \in Input /\ input'[i].state = "pending" /\ input[i] \in InputRecord
      BY <1>1, EditsTyped DEF Pending
    <2>2. CASE i \in req[r].ids /\ input[i].state = "included"
      <3>1. input'[i] = Answered(i, outcome)
        BY <1>3, <2>1, <2>2 DEF SettleTaskInputRequest
      <3> QED  BY <2>1, <2>2, <3>1 DEF Answered, ReceiptAfter, InputRecord
    <2>3. CASE ~(i \in req[r].ids /\ input[i].state = "included")
      <3>1. input'[i] = input[i]
        BY <1>3, <2>1, <2>3 DEF SettleTaskInputRequest
      <3>2. i \in Pending
        BY <2>1, <3>1 DEF Pending
      <3> QED  BY <1>2, <3>2 DEF SendInv
    <2> QED  BY <2>2, <2>3
  <1>8. \A u \in Turn : run'[u].pc = "calling" =>
          req'[RequestId(u)'].state = "included" /\ req'[RequestId(u)'].turn = u
    BY <1>2, <1>4, <1>5, RequestIdTyped DEF SendInv
  <1>9. \A s \in Request : req'[s].state = "none" => req'[s].ids = {}
    BY <1>4 DEF SendInv
  <1>10. \A i \in Input, s \in Request : i \in req'[s].ids => input'[i].state # "absent"
    BY <1>1, <1>4, AdmittedForGood DEF SendInv
  <1>11. \A i \in Pending', s \in Request : i \in req'[s].ids => req'[s].state = "replaced"
    BY <1>4, <1>6, <1>7 DEF SendInv
  <1>12. NotSentTwice'
    BY <1>2, <1>4, <1>6 DEF NotSentTwice, SendInv
  <1> QED  BY <1>8, <1>9, <1>10, <1>11, <1>12 DEF SendInv

(* Recovery fails the requests of another server start: no live call made  *)
(* them.                                                                   *)
LEMMA SendsOfRecovery ==
  ASSUME CallInv, HolderInv, SendInv, [RuntimeNext]_vars, RecoverTaskInboxOwners(me), UNCHANGED run
  PROVE  SendInv'
  <1>1. TypeOK /\ [StoreNext]_storeVars /\ me \in Owner
    BY StepIsStoreStep, MeTyped DEF CallInv
  <1>2. \A r \in Request : /\ req'[r].ids = req[r].ids /\ req'[r].turn = req[r].turn
                           /\ req[r].state # "included" => req'[r].state = req[r].state
                           /\ req'[r].state \in {req[r].state, "failed"}
                           /\ req[r].turn # row.turn => req'[r].state = req[r].state
    BY <1>1 DEF RecoverTaskInboxOwners, TypeOK
  <1>3. \A t \in Turn : run[t].pc = "calling" => row.turn # t
    BY DEF HolderInv, RecoverTaskInboxOwners, Abandoned, Alive
  <1>4. \A t \in Turn : RequestId(t)' = RequestId(t)
    BY DEF RequestId
  <1>5. \A i \in Pending' : i \in Input /\ input[i].state \in {"absent", "pending"}
    BY <1>1, NoneReturned DEF Pending, QuietStore, OwnerStep
  <1>6. \A t \in Turn : run'[t].pc = "calling" =>
          req'[RequestId(t)'].state = "included" /\ req'[RequestId(t)'].turn = t
    BY <1>2, <1>3, <1>4, RequestIdTyped DEF SendInv
  <1>7. \A r \in Request : req'[r].state = "none" => req'[r].ids = {}
    BY <1>2 DEF SendInv
  <1>8. \A i \in Input, r \in Request : i \in req'[r].ids => input'[i].state # "absent"
    BY <1>1, <1>2, AdmittedForGood DEF SendInv
  <1>9. \A i \in Pending', r \in Request : i \in req'[r].ids => req'[r].state = "replaced"
    BY <1>2, <1>5 DEF SendInv, Pending
  <1>10. NotSentTwice'
    BY <1>2 DEF NotSentTwice, SendInv
  <1> QED  BY <1>6, <1>7, <1>8, <1>9, <1>10 DEF SendInv

LEMMA SendStep ==
  ASSUME CallInv, HolderInv, SendInv, [RuntimeNext]_vars
  PROVE  SendInv'
  <1>1. CASE UNCHANGED vars
    BY <1>1, SendsOfQuiet DEF QuietStore, CallsKept, vars, storeVars, runtimeVars
  <1>2. CASE UserStep
    BY <1>2, UserMoves, UserStepQuiet, SendsOfQuiet DEF Others
  <1>3. CASE DispatchStep
    BY <1>3, DispatchMoves, DispatchStepQuiet, SendsOfQuiet DEF Others
  <1>4. CASE NotifyStep
    BY <1>4, NotifyMoves, OtherStepQuiet, SendsOfQuiet DEF Others
  <1>5. ASSUME NEW t \in Turn, RunStep(t)
        PROVE  SendInv'
    <2>1. CASE IncludeInputs(t)
      BY <1>5, <2>1, RunStepLocal, SendsOfInclude
    <2>2. CASE ProviderAnswers(t) \/ ProviderThrows(t)
      BY <1>5, <2>2, RunStepLocal, SendsOfSettlement
    <2>3. CASE ~Requests(t)
      <3>1. CallsKept /\ UNCHANGED req
        BY <1>5, <2>3, RunStepLocal DEF CallsKept, Requests
      <3> QED  BY <1>5, <2>3, <3>1, RunStepQuiet, SendsOfQuiet DEF Requests
    <2> QED  BY <2>1, <2>2, <2>3 DEF Requests
  <1>6. CASE RecoverStep
    <2>1. CallsKept
      BY <1>6, RecoverMoves DEF CallsKept
    <2> QED  BY <1>6, <2>1, RecoverMoves, OtherStepQuiet, SendsOfQuiet, SendsOfRecovery
  <1>7. CASE FaultStep
    <2>1. UNCHANGED req
      BY <1>7 DEF FaultStep, Crash, Restart, LeaseLapses, LeaseExpires, HeartbeatFails, storeVars
    <2>2. CallsKept
      BY <1>7, CrashedCalls
      DEF FaultStep, Restart, LeaseLapses, HeartbeatFails, runtimeVars, CallsKept
    <2> QED  BY <1>7, <2>1, <2>2, OtherStepQuiet, SendsOfQuiet
  <1> QED  BY <1>1, <1>2, <1>3, <1>4, <1>5, <1>6, <1>7 DEF RuntimeNext

(***************************************************************************)
(* Whatever corrections, crashes, Stops, lease expiries and failures       *)
(* happen, no input is in two manifests unless a correction replaced one   *)
(* of the two requests: what failed or is uncertain is never sent again.   *)
(***************************************************************************)
THEOREM InputsNotSentTwice == RuntimeSpec => []NotSentTwice
  <1>1. RuntimeInit => HolderInv /\ SendInv
    BY DEF RuntimeInit, StoreInit, HolderInv, SendInv, NotSentTwice, Pending, Unsent, NoRequest,
           NoRow, IdleRun, Alive, Up
  <1>2. CallInv /\ HolderInv /\ SendInv /\ [RuntimeNext]_vars => (HolderInv /\ SendInv)'
    BY HolderStep, SendStep
  <1>3. SendInv => NotSentTwice
    BY DEF SendInv
  <1> QED  BY <1>1, <1>2, <1>3, CallsCorrect, PTL DEF RuntimeSpec
=============================================================================
