----------------------- MODULE TaskInboxStore_proofs -----------------------
(***************************************************************************)
(* What TLAPS proves about the transactions of TaskInboxStore, for any     *)
(* number of inputs, turns, owners and requests, and any limits.           *)
(***************************************************************************)
EXTENDS TaskInboxStore, FiniteSetTheorems, WellFoundedInduction, TLAPS

InputRecord == [kind : Kind, state : InputState, turn : Turn \cup {NoTurn}, err : BOOLEAN]

RowRecord == [turn : Turn \cup {NoTurn}, owner : Owner \cup {NoOwner}, accepting : BOOLEAN,
              paused : BOOLEAN, lease : {"none", "live", "expired"}]

RequestRecord == [turn : Turn \cup {NoTurn}, ids : SUBSET Input, state : RequestState]

-----------------------------------------------------------------------------
(* The records the transactions write are of the type of their tables.     *)

LEMMA EditsTyped ==
  ASSUME TypeOK, NEW i \in Input
  PROVE  /\ input[i] \in InputRecord
         /\ Rejected(i) \in InputRecord
         /\ Detached(i) \in InputRecord
         /\ Leftover(i) \in InputRecord
         /\ Uncertain(i) \in InputRecord
         /\ \A t \in Turn : Steered(i, t) \in InputRecord /\ Delivered(i, t) \in InputRecord
         /\ \A outcome \in {"resolved", "failed", "replaced"} : Answered(i, outcome) \in InputRecord
  <1>1. input[i] \in InputRecord
    BY DEF TypeOK, InputRecord
  <1> QED
    BY <1>1 DEF InputRecord, InputState, Kind, Rejected, Detached, Leftover, Uncertain,
                Steered, Delivered, Answered, ReceiptAfter

LEMMA RowTyped ==
  ASSUME NEW t \in Turn, NEW o \in Owner
  PROVE  TakeRow(t, o) \in RowRecord
  BY DEF TakeRow, RowRecord

LEMMA AttachTyped ==
  ASSUME TypeOK, NEW kind \in Kind
  PROVE  AttachTo(kind) \in Turn \cup {NoTurn}
  BY DEF TypeOK, AttachTo

(* A set of inputs has an oldest one: take the input with the fewest older *)
(* ones, for strict inclusion is well founded on a finite set.             *)
LEMMA OldestIn ==
  ASSUME NEW S \in SUBSET Input, S # {}
  PROVE  Oldest(S) \in S /\ \A j \in S : Oldest(S) <= j
  <1> DEFINE Older(i) == {j \in S : j < i}
             Olders   == {Older(i) : i \in S}
  <1>1. S \subseteq Nat /\ IsFiniteSet(S)
    BY InputAssumption, FS_Subset
  <1>2. IsWellFoundedOn(StrictSubsetOrdering(S), SUBSET S)
    BY <1>1, FS_StrictSubsetOrderingWellFounded, FS_FiniteSubsetsOfFinite, Zenon
  <1>3. Olders \subseteq SUBSET S /\ Olders # {}
    OBVIOUS
  <1>4. PICK O \in Olders : \A P \in Olders : <<P, O>> \notin StrictSubsetOrdering(S)
    BY <1>2, <1>3, WFMin, Zenon
  <1>5. PICK i \in S : O = Older(i)
    BY <1>4
  <1>6. ASSUME NEW j \in S, j < i
        PROVE  FALSE
    <2>1. Older(j) \subseteq Older(i) /\ j \in Older(i) /\ j \notin Older(j)
      <3>1. i \in Nat /\ j \in Nat /\ \A k \in S : k \in Nat
        BY <1>1
      <3>2. \A k \in S : k < j => k < i
        BY <3>1, <1>6
      <3>3. ~(j < j)
        BY <3>1
      <3> QED  BY <3>2, <3>3, <1>6, Zenon
    <2>2. <<Older(j), Older(i)>> \in StrictSubsetOrdering(S)
      BY <2>1 DEF StrictSubsetOrdering
    <2> QED  BY <2>2, <1>4, <1>5
  <1>7. \A j \in S : i <= j
    BY <1>1, <1>6
  <1> QED  BY <1>7, Zenon DEF Oldest

-----------------------------------------------------------------------------
(* The transactions, by the table columns they write.                      *)

LEMMA InputStepTyped ==
  ASSUME TypeOK, InputStep
  PROVE  TypeOK'
  <1> USE DEF TypeOK, storeVars
  <1>1. ASSUME NEW i \in Input, NEW kind \in Kind, NEW t \in Turn, AdmitTaskInput(i, kind, t)
        PROVE  TypeOK'
    <2>1. [kind |-> kind, state |-> "pending", turn |-> AttachTo(kind), err |-> FALSE] \in InputRecord
      BY AttachTyped DEF InputRecord, InputState
    <2> QED  BY <1>1, <2>1 DEF AdmitTaskInput, InputRecord
  <1>2. ASSUME NEW i \in Input, ResumeQueue(i)
        PROVE  TypeOK'
    BY <1>2 DEF ResumeQueue
  <1>3. ASSUME NEW i \in Input, CancelInput(i)
        PROVE  TypeOK'
    BY <1>3 DEF CancelInput, InputState
  <1>4. ASSUME NEW i \in Input, NEW t \in Turn, PromoteToSteer(i, t)
        PROVE  TypeOK'
    BY <1>4, EditsTyped DEF PromoteToSteer, InputRecord
  <1>5. ASSUME NEW i \in Input, RejectTaskInput(i)
        PROVE  TypeOK'
    BY <1>5, EditsTyped DEF RejectTaskInput, InputRecord
  <1> QED  BY <1>1, <1>2, <1>3, <1>4, <1>5 DEF InputStep

LEMMA OwnerStepTyped ==
  ASSUME TypeOK, OwnerStep
  PROVE  TypeOK'
  <1> USE DEF TypeOK, storeVars
  <1>1. ASSUME NEW t \in Turn, NEW o \in Owner, OpenTaskInboxTurn(t, o)
        PROVE  TypeOK'
    BY <1>1, RowTyped DEF OpenTaskInboxTurn, RowRecord
  <1>2. ASSUME NEW t \in Turn, NEW o \in Owner, RenewTaskInboxTurn(t, o)
        PROVE  TypeOK'
    BY <1>2 DEF RenewTaskInboxTurn
  <1>3. ASSUME NEW t \in Turn, NEW o \in Owner, PauseTaskInboxTurn(t, o)
        PROVE  TypeOK'
    BY <1>3 DEF PauseTaskInboxTurn
  <1>4. ASSUME NEW t \in Turn, NEW o \in Owner, ReserveFollowup(t, o)
        PROVE  TypeOK'
    BY <1>4, RowTyped DEF ReserveFollowup, RowRecord
  <1>5. CASE RejectRevokedFollowup
    <2>1. Oldest(Startable) \in Input
      BY <1>5, RevocableAssumption DEF RejectRevokedFollowup
    <2> QED  BY <1>5, <2>1, EditsTyped DEF RejectRevokedFollowup, RejectTaskInput, InputRecord
  <1>6. ASSUME NEW t \in Turn, NEW o \in Owner, SealTaskInboxTurn(t, o)
        PROVE  TypeOK'
    BY <1>6 DEF SealTaskInboxTurn
  <1>7. ASSUME NEW t \in Turn, NEW o \in Owner, SealNativeTaskInboxTurn(t, o)
        PROVE  TypeOK'
    BY <1>7, EditsTyped DEF SealNativeTaskInboxTurn, InputRecord
  <1>8. ASSUME NEW t \in Turn, NEW o \in Owner, NEW outcome \in Outcome,
               NEW refused \in SUBSET Revocable, CloseTaskInboxTurn(t, o, outcome, refused)
        PROVE  TypeOK'
    BY <1>8, EditsTyped DEF CloseTaskInboxTurn, InputRecord
  <1>9. ASSUME NEW o \in Owner, RecoverTaskInboxOwners(o)
        PROVE  TypeOK'
    <2>1. input' \in [Input -> InputRecord]
      BY <1>9, EditsTyped DEF RecoverTaskInboxOwners
    <2>2. \A r \in Request : /\ req[r] \in RequestRecord
                             /\ [req[r] EXCEPT !.state = "failed"] \in RequestRecord
      BY DEF RequestRecord, RequestState
    <2>3. req' \in [Request -> RequestRecord]
      BY <1>9, <2>2 DEF RecoverTaskInboxOwners
    <2>4. row' \in RowRecord
      BY <1>9 DEF RecoverTaskInboxOwners, RowRecord
    <2> QED
      BY <1>9, <2>1, <2>3, <2>4
      DEF RecoverTaskInboxOwners, InputRecord, RowRecord, RequestRecord
  <1>10. CASE LeaseExpires
    BY <1>10 DEF LeaseExpires
  <1> QED
    BY <1>1, <1>2, <1>3, <1>4, <1>5, <1>6, <1>7, <1>8, <1>9, <1>10 DEF OwnerStep

LEMMA RequestStepTyped ==
  ASSUME TypeOK, RequestStep
  PROVE  TypeOK'
  <1> USE DEF TypeOK, storeVars
  <1>1. ASSUME NEW t \in Turn, NEW o \in Owner, NEW r \in Request,
               NEW refused \in SUBSET Revocable, NEW batch \in BatchOf(t, refused),
               IncludeTaskInputs(t, o, r, refused, batch)
        PROVE  TypeOK'
    <2>1. batch \subseteq Input
      BY DEF BatchOf, PendingFor, Pending
    <2>2. input' \in [Input -> InputRecord]
      BY <1>1, EditsTyped DEF IncludeTaskInputs
    <2>3. req' \in [Request -> RequestRecord]
      BY <1>1, <2>1 DEF IncludeTaskInputs, RequestRecord, RequestState
    <2> QED  BY <1>1, <2>2, <2>3 DEF IncludeTaskInputs, InputRecord, RequestRecord
  <1>2. ASSUME NEW r \in Request, NEW outcome \in {"resolved", "failed", "replaced"},
               SettleTaskInputRequest(r, outcome)
        PROVE  TypeOK'
    <2>1. input' \in [Input -> InputRecord]
      BY <1>2, EditsTyped DEF SettleTaskInputRequest
    <2>2. req' \in [Request -> RequestRecord]
      BY <1>2 DEF SettleTaskInputRequest, RequestRecord, RequestState
    <2> QED
      BY <1>2, <2>1, <2>2 DEF SettleTaskInputRequest, InputRecord, RequestRecord
  <1> QED  BY <1>1, <1>2 DEF RequestStep

LEMMA TurnStepTyped ==
  ASSUME TypeOK, TurnStep
  PROVE  TypeOK'
  BY DEF TypeOK, TurnStep, InsertTurn, FinishTurn, InterruptTurn, Outcome

LEMMA InitTyped == StoreInit => TypeOK
  BY DEF StoreInit, TypeOK, Unsent, NoRow, NoRequest, Kind, InputState, RequestState

LEMMA StepTyped == TypeOK /\ [StoreNext]_storeVars => TypeOK'
  <1>1. ASSUME TypeOK, UNCHANGED storeVars
        PROVE  TypeOK'
    BY <1>1 DEF TypeOK, storeVars
  <1> QED
    BY <1>1, InputStepTyped, OwnerStepTyped, RequestStepTyped, TurnStepTyped DEF StoreNext

(***************************************************************************)
(* Every transaction leaves well-formed rows in the four tables of the     *)
(* inbox.                                                                  *)
(***************************************************************************)
THEOREM TypeCorrect == StoreSpec => []TypeOK
  BY InitTyped, StepTyped, PTL DEF StoreSpec

-----------------------------------------------------------------------------
(***************************************************************************)
(* What any transaction may do to one input: the edits of the table, each  *)
(* with what is known of the input when it is made.  The properties of     *)
(* receipts follow from these edits, whichever transaction makes them.     *)
(***************************************************************************)
Admitted(i) ==
  /\ input[i].state = "absent"
  /\ input'[i].state = "pending"
  /\ input'[i].kind = "steer" => input'[i].turn \in Turn

Taken(i) ==
  \E t \in Turn :
    \/ input[i].kind = "queued" /\ input[i].turn = NoTurn /\ input'[i] = Steered(i, t)
    \/ input[i].kind \in Starter /\ input'[i] = [input[i] EXCEPT !.turn = t]
    \/ i \in PendingFor(t) /\ input'[i] = Delivered(i, t)

Dropped(i) ==
  \/ input'[i] = Rejected(i)
  \/ input'[i] = [input[i] EXCEPT !.state = "cancelled"]
  \/ input[i].kind # "steer" /\ input'[i] = Detached(i)

Judged(i) ==
  \/ \E outcome \in {"resolved", "failed", "replaced"} : input'[i] = Answered(i, outcome)
  \/ input'[i] = Uncertain(i)

Edited(i) ==
  \/ input'[i] = input[i]
  \/ Admitted(i)
  \/ input[i].state = "pending" /\ (Taken(i) \/ Dropped(i))
  \/ input[i].state = "included" /\ Judged(i)

LEMMA LeftoverDrops ==
  ASSUME NEW i \in Input, input'[i] = Leftover(i)
  PROVE  Dropped(i)
  BY DEF Leftover, Dropped

LEMMA PendingForIn ==
  ASSUME NEW t, NEW i \in PendingFor(t)
  PROVE  i \in Input /\ input[i].state = "pending"
  BY DEF PendingFor, Pending

LEMMA EditsOfInputStep ==
  ASSUME TypeOK, InputStep, NEW j \in Input
  PROVE  Edited(j)
  <1> USE DEF TypeOK, storeVars, Edited
  <1>1. ASSUME NEW i \in Input, NEW kind \in Kind, NEW t \in Turn, AdmitTaskInput(i, kind, t)
        PROVE  Edited(j)
    <2>1. kind = "steer" => AttachTo(kind) \in Turn
      BY <1>1 DEF AdmitTaskInput, SteerTarget, AttachTo, Starter
    <2>2. CASE i = j
      BY <1>1, <2>1, <2>2 DEF AdmitTaskInput, Admitted
    <2>3. CASE i # j
      BY <1>1, <2>3 DEF AdmitTaskInput
    <2> QED  BY <2>2, <2>3
  <1>2. ASSUME NEW i \in Input, ResumeQueue(i)
        PROVE  Edited(j)
    BY <1>2 DEF ResumeQueue
  <1>3. ASSUME NEW i \in Input, CancelInput(i)
        PROVE  Edited(j)
    BY <1>3 DEF CancelInput, Editable, Dropped
  <1>4. ASSUME NEW i \in Input, NEW t \in Turn, PromoteToSteer(i, t)
        PROVE  Edited(j)
    BY <1>4 DEF PromoteToSteer, Editable, Taken
  <1>5. ASSUME NEW i \in Input, RejectTaskInput(i)
        PROVE  Edited(j)
    BY <1>5 DEF RejectTaskInput, Dropped
  <1> QED  BY <1>1, <1>2, <1>3, <1>4, <1>5 DEF InputStep

LEMMA EditsOfOwnerStep ==
  ASSUME TypeOK, OwnerStep, NEW j \in Input
  PROVE  Edited(j)
  <1> USE DEF TypeOK, storeVars, Edited
  <1>1. ASSUME UNCHANGED input
        PROVE  Edited(j)
    BY <1>1
  <1>2. Startable # {} => /\ Oldest(Startable) \in Input
                          /\ Oldest(Startable) \in Startable
    <2>1. Startable \in SUBSET Input
      BY DEF Startable, Pending
    <2> QED  BY <2>1, OldestIn
  <1>3. ASSUME NEW t \in Turn, NEW o \in Owner, ReserveFollowup(t, o)
        PROVE  Edited(j)
    <2>1. PICK i \in Startable : input' = [input EXCEPT ![i].turn = t]
      BY <1>2, <1>3, Zenon DEF ReserveFollowup, MayReserve
    <2>2. i \in Input /\ input[i].state = "pending" /\ input[i].kind \in Starter
      BY DEF Startable, Pending
    <2>3. input'[j] = input[j] \/ (j = i /\ input'[j] = [input[j] EXCEPT !.turn = t])
      BY <2>1, <2>2
    <2> QED  BY <2>2, <2>3 DEF Taken
  <1>4. CASE RejectRevokedFollowup
    BY <1>4 DEF RejectRevokedFollowup, RejectTaskInput, Dropped
  <1>5. ASSUME NEW t \in Turn, NEW o \in Owner, SealNativeTaskInboxTurn(t, o)
        PROVE  Edited(j)
    BY <1>5, LeftoverDrops, PendingForIn DEF SealNativeTaskInboxTurn
  <1>6. ASSUME NEW t \in Turn, NEW o \in Owner, NEW outcome \in Outcome,
               NEW refused \in SUBSET Revocable, CloseTaskInboxTurn(t, o, outcome, refused)
        PROVE  Edited(j)
    BY <1>6, LeftoverDrops, PendingForIn DEF CloseTaskInboxTurn, Dropped
  <1>7. ASSUME NEW o \in Owner, RecoverTaskInboxOwners(o)
        PROVE  Edited(j)
    <2>1. \/ input'[j] = input[j]
          \/ input[j].state = "included" /\ input'[j] = Uncertain(j)
          \/ input[j].state = "pending" /\ input'[j] = Leftover(j)
      BY <1>7 DEF RecoverTaskInboxOwners
    <2> QED  BY <2>1, LeftoverDrops, Zenon DEF Judged
  <1> QED
    BY <1>1, <1>3, <1>4, <1>5, <1>6, <1>7
    DEF OwnerStep, OpenTaskInboxTurn, RenewTaskInboxTurn, PauseTaskInboxTurn,
        SealTaskInboxTurn, LeaseExpires

LEMMA EditsOfRequestStep ==
  ASSUME TypeOK, RequestStep, NEW j \in Input
  PROVE  Edited(j)
  <1> USE DEF TypeOK, storeVars, Edited
  <1>1. ASSUME NEW t \in Turn, NEW o \in Owner, NEW r \in Request,
               NEW refused \in SUBSET Revocable, NEW batch \in BatchOf(t, refused),
               IncludeTaskInputs(t, o, r, refused, batch)
        PROVE  Edited(j)
    <2>1. batch \subseteq PendingFor(t) /\ Refused(t, refused, batch) \subseteq PendingFor(t)
      BY DEF BatchOf, Refused
    <2> QED
      BY <1>1, <2>1, PendingForIn DEF IncludeTaskInputs, Taken, Dropped
  <1>2. ASSUME NEW r \in Request, NEW outcome \in {"resolved", "failed", "replaced"},
               SettleTaskInputRequest(r, outcome)
        PROVE  Edited(j)
    BY <1>2 DEF SettleTaskInputRequest, Judged
  <1> QED  BY <1>1, <1>2 DEF RequestStep

(* Every step of the store edits an input in one of these ways.            *)
LEMMA EveryEdit ==
  ASSUME TypeOK, [StoreNext]_storeVars, NEW j \in Input
  PROVE  Edited(j)
  <1>1. CASE UNCHANGED storeVars
    BY <1>1 DEF storeVars, Edited
  <1>2. CASE TurnStep
    BY <1>2 DEF TurnStep, InsertTurn, FinishTurn, InterruptTurn, Edited
  <1> QED
    BY <1>1, <1>2, EditsOfInputStep, EditsOfOwnerStep, EditsOfRequestStep DEF StoreNext

(***************************************************************************)
(* A correction stays bound to a turn for as long as it is in the table.   *)
(***************************************************************************)
THEOREM SteersStayBound == StoreSpec => []SteerIsBound
  <1>1. StoreInit => SteerIsBound
    BY DEF StoreInit, SteerIsBound, Unsent
  <1>2. TypeOK /\ SteerIsBound /\ [StoreNext]_storeVars => SteerIsBound'
    <2> SUFFICES ASSUME TypeOK, SteerIsBound, [StoreNext]_storeVars, NEW i \in Input,
                        input'[i].kind = "steer"
                 PROVE  input'[i].turn # NoTurn
      BY DEF SteerIsBound
    <2>1. Edited(i)
      BY EveryEdit
    <2>2. input[i] \in InputRecord /\ (input[i].kind = "steer" => input[i].turn # NoTurn)
      BY EditsTyped DEF SteerIsBound
    <2> QED
      BY <2>1, <2>2, NoTurnAssumption
      DEF Edited, Admitted, Taken, Dropped, Judged, InputRecord, Steered, Delivered,
          Rejected, Detached, Answered, Uncertain, Starter
  <1> QED  BY <1>1, <1>2, TypeCorrect, PTL DEF StoreSpec

(***************************************************************************)
(* The inbox never claims to take corrections while it is paused or after  *)
(* its lease was given up.                                                 *)
(***************************************************************************)
THEOREM AcceptingMeansOpen == StoreSpec => []AcceptingIsOpen
  <1>1. StoreInit => AcceptingIsOpen
    BY DEF StoreInit, AcceptingIsOpen, NoRow
  <1>2. TypeOK /\ AcceptingIsOpen /\ [StoreNext]_storeVars => AcceptingIsOpen'
    <2> SUFFICES ASSUME TypeOK, AcceptingIsOpen, [StoreNext]_storeVars
                 PROVE  AcceptingIsOpen'
      OBVIOUS
    <2> USE DEF TypeOK, AcceptingIsOpen, storeVars
    <2>1. ASSUME UNCHANGED row
          PROVE  AcceptingIsOpen'
      BY <2>1
    <2>2. ASSUME NEW t \in Turn, NEW o \in Owner, row' = TakeRow(t, o)
          PROVE  AcceptingIsOpen'
      BY <2>2, NoTurnAssumption DEF TakeRow
    <2>3. ASSUME row'.accepting = FALSE
          PROVE  AcceptingIsOpen'
      BY <2>3
    <2>4. CASE InputStep
      BY <2>1, <2>4
      DEF InputStep, AdmitTaskInput, ResumeQueue, CancelInput, PromoteToSteer, RejectTaskInput
    <2>5. CASE OwnerStep
      BY <2>1, <2>2, <2>3, <2>5
      DEF OwnerStep, OpenTaskInboxTurn, RenewTaskInboxTurn, PauseTaskInboxTurn, ReserveFollowup,
          RejectRevokedFollowup, RejectTaskInput, SealTaskInboxTurn, SealNativeTaskInboxTurn,
          CloseTaskInboxTurn, RecoverTaskInboxOwners, LeaseExpires, Leased
    <2>6. CASE RequestStep
      BY <2>1, <2>6 DEF RequestStep, IncludeTaskInputs, SettleTaskInputRequest
    <2>7. CASE TurnStep
      BY <2>1, <2>7 DEF TurnStep, InsertTurn, FinishTurn, InterruptTurn
    <2> QED  BY <2>1, <2>4, <2>5, <2>6, <2>7 DEF StoreNext
  <1> QED  BY <1>1, <1>2, TypeCorrect, PTL DEF StoreSpec

(* Only a provider request makes a pending input included.                 *)
LEMMA OnlyRequestsDeliver ==
  ASSUME TypeOK, [StoreNext]_storeVars, NEW i \in Input,
         input[i].state = "pending", input'[i].state = "included"
  PROVE  \E t \in Turn, o \in Owner, r \in Request, refused \in SUBSET Revocable :
           \E batch \in BatchOf(t, refused) : IncludeTaskInputs(t, o, r, refused, batch)
  <1> USE DEF TypeOK, storeVars
  <1>1. input[i] \in InputRecord /\ input' # input
    BY DEF InputRecord
  <1>2. /\ input'[i] # Rejected(i)
        /\ input'[i] # Detached(i)
        /\ input'[i] # Leftover(i)
        /\ \A t \in Turn : input'[i] # Steered(i, t)
    BY <1>1 DEF InputRecord, Rejected, Detached, Leftover, Steered
  <1>3. ~InputStep
    BY <1>1, <1>2
    DEF InputStep, AdmitTaskInput, ResumeQueue, CancelInput, PromoteToSteer, RejectTaskInput
  <1>4. \A t \in Turn, o \in Owner : ~ReserveFollowup(t, o)
    BY <1>1 DEF ReserveFollowup
  <1>5. ~RejectRevokedFollowup
    BY <1>2 DEF RejectRevokedFollowup, RejectTaskInput
  <1>6. \A t \in Turn, o \in Owner : ~SealNativeTaskInboxTurn(t, o)
    BY <1>2 DEF SealNativeTaskInboxTurn
  <1>7. \A t \in Turn, o \in Owner, outcome \in Outcome, refused \in SUBSET Revocable :
          ~CloseTaskInboxTurn(t, o, outcome, refused)
    BY <1>2 DEF CloseTaskInboxTurn
  <1>8. \A o \in Owner : ~RecoverTaskInboxOwners(o)
    BY <1>2 DEF RecoverTaskInboxOwners
  <1>9. ~OwnerStep
    BY <1>1, <1>4, <1>5, <1>6, <1>7, <1>8
    DEF OwnerStep, OpenTaskInboxTurn, RenewTaskInboxTurn, PauseTaskInboxTurn, SealTaskInboxTurn,
        LeaseExpires
  <1>10. \A r \in Request, outcome \in {"resolved", "failed", "replaced"} :
           ~SettleTaskInputRequest(r, outcome)
    BY DEF SettleTaskInputRequest
  <1>11. ~TurnStep
    BY <1>1 DEF TurnStep, InsertTurn, FinishTurn, InterruptTurn
  <1> QED  BY <1>1, <1>3, <1>9, <1>10, <1>11 DEF StoreNext, RequestStep

(***************************************************************************)
(* A provider request never takes an input past one that was admitted      *)
(* earlier and waits for the same turn: the batch is cut at the first      *)
(* input that does not fit, and what it met before that is taken or        *)
(* refused.                                                                *)
(***************************************************************************)
THEOREM DeliveryInOrder == StoreSpec => DeliveredInOrder
  <1>1. TypeOK /\ [StoreNext]_storeVars => NotOvertaken
    <2> SUFFICES ASSUME TypeOK, [StoreNext]_storeVars,
                        NEW i \in Input, NEW j \in Input, NEW t \in Turn, j < i,
                        input[i].state = "pending", input'[i].state = "included",
                        input'[i].turn = t, j \in PendingFor(t)'
                 PROVE  FALSE
      BY DEF NotOvertaken
    <2> USE DEF TypeOK
    <2>1. PICK u \in Turn, o \in Owner, r \in Request, refused \in SUBSET Revocable :
            \E batch \in BatchOf(u, refused) : IncludeTaskInputs(u, o, r, refused, batch)
      BY OnlyRequestsDeliver
    <2>2. PICK batch \in BatchOf(u, refused) : IncludeTaskInputs(u, o, r, refused, batch)
      BY <2>1
    <2>3. \A k \in Input :
            input'[k] = IF k \in batch THEN Delivered(k, u)
                        ELSE IF k \in Refused(u, refused, batch) THEN Rejected(k)
                        ELSE input[k]
      BY <2>2 DEF IncludeTaskInputs
    <2>4. i \in batch /\ u = t
      <3>1. input[i] \in InputRecord
        BY EditsTyped
      <3>2. Rejected(i).state = "rejected" /\ Delivered(i, u).turn = u
        BY <3>1 DEF InputRecord, Rejected, Delivered
      <3> QED  BY <2>3, <3>2
    <2>5. j \notin batch /\ j \notin Refused(t, refused, batch) /\ j \in PendingFor(t)
      <3>1. /\ input'[j].state = "pending"
            /\ \/ input'[j].turn = t
               \/ input'[j].turn = NoTurn /\ input'[j].kind = "message"
        BY DEF PendingFor, Pending
      <3>2. j \notin batch /\ j \notin Refused(t, refused, batch)
        <4>1. input[j] \in InputRecord
          BY EditsTyped
        <4>2. Rejected(j).state = "rejected" /\ Delivered(j, u).state = "included"
          BY <4>1 DEF InputRecord, Rejected, Delivered
        <4> QED  BY <2>3, <2>4, <3>1, <4>2
      <3> QED  BY <2>3, <2>4, <3>1, <3>2 DEF PendingFor, Pending
    <2>6. \A k \in PendingFor(t) \ (refused \cup batch) : i < k
      BY <2>4 DEF BatchOf
    <2>7. PendingFor(t) \subseteq Nat /\ i \in Nat /\ j \in Nat
      BY InputAssumption DEF PendingFor, Pending
    <2>8. CASE j \in refused
      <3>1. \A k \in PendingFor(t) \ (refused \cup batch) : j < k
        BY <2>6, <2>7
      <3> QED  BY <2>5, <2>8, <3>1 DEF Refused
    <2>9. CASE j \notin refused
      BY <2>5, <2>6, <2>7, <2>9
    <2> QED  BY <2>8, <2>9
  <1>2. TypeOK /\ UNCHANGED storeVars => NotOvertaken
    BY DEF NotOvertaken, storeVars
  <1> QED  BY <1>1, <1>2, TypeCorrect, PTL DEF StoreSpec, DeliveredInOrder

-----------------------------------------------------------------------------
(***************************************************************************)
(* Receipts and manifests.  ReceiptHasManifest is not inductive: the       *)
(* request that is still out must be one of the turn on the receipt (or    *)
(* recovery, which goes by the turn, would miss it), and a request that    *)
(* was not made lists nothing (or making it would lose a manifest).        *)
(***************************************************************************)
Lists(r, i) == i \in req[r].ids /\ req[r].turn = input[i].turn

ManifestInv ==
  /\ \A r \in Request : req[r].state = "none" => req[r].ids = {}
  /\ \A i \in Input :
       /\ input[i].state \in {"included", "resolved"} => \E r \in Request : Lists(r, i)
       /\ input[i].state = "included" /\ ~input[i].err =>
            \E r \in Request : Lists(r, i) /\ req[r].state = "included"

LEMMA ManifestInvImplies == ManifestInv => ReceiptHasManifest
  BY DEF ManifestInv, ReceiptHasManifest, Lists

(* A transaction that writes no manifest keeps them, if it settles no      *)
(* input, binds no included one and clears no error.                       *)
LEMMA ManifestKept ==
  ASSUME ManifestInv, UNCHANGED req,
         \A i \in Input : \/ input'[i] = input[i]
                          \/ input'[i].state \notin {"included", "resolved"}
  PROVE  ManifestInv'
  BY DEF ManifestInv, Lists

LEMMA ManifestOfInputStep ==
  ASSUME TypeOK, ManifestInv, InputStep
  PROVE  ManifestInv'
  <1> USE DEF TypeOK, storeVars
  <1>1. ASSUME NEW i \in Input, NEW kind \in Kind, NEW t \in Turn, AdmitTaskInput(i, kind, t)
        PROVE  ManifestInv'
    BY <1>1, ManifestKept DEF AdmitTaskInput
  <1>2. ASSUME NEW i \in Input, ResumeQueue(i)
        PROVE  ManifestInv'
    BY <1>2, ManifestKept DEF ResumeQueue
  <1>3. ASSUME NEW i \in Input, CancelInput(i)
        PROVE  ManifestInv'
    BY <1>3, ManifestKept DEF CancelInput
  <1>4. ASSUME NEW i \in Input, NEW t \in Turn, PromoteToSteer(i, t)
        PROVE  ManifestInv'
    <2>1. Steered(i, t).state = "pending"
      BY <1>4 DEF PromoteToSteer, Editable, Steered
    <2> QED  BY <1>4, <2>1, ManifestKept DEF PromoteToSteer
  <1>5. ASSUME NEW i \in Input, RejectTaskInput(i)
        PROVE  ManifestInv'
    BY <1>5, ManifestKept DEF RejectTaskInput, Rejected
  <1> QED  BY <1>1, <1>2, <1>3, <1>4, <1>5 DEF InputStep

(* What the end of a turn does to a pending input leaves it without a      *)
(* manifest, as it was.                                                    *)
LEMMA EditsOfPending ==
  ASSUME TypeOK, NEW i \in Input, input[i].state = "pending"
  PROVE  /\ Rejected(i).state \notin {"included", "resolved"}
         /\ Leftover(i).state \notin {"included", "resolved"}
  <1>1. input[i] \in InputRecord
    BY EditsTyped
  <1> QED  BY <1>1 DEF InputRecord, Rejected, Leftover, Detached

LEMMA ManifestOfOwnerStep ==
  ASSUME TypeOK, ManifestInv, OwnerStep
  PROVE  ManifestInv'
  <1> USE DEF TypeOK, storeVars
  <1>1. ASSUME UNCHANGED <<input, req>>
        PROVE  ManifestInv'
    BY <1>1, ManifestKept
  <1>2. Startable \in SUBSET Input /\ \A i \in Startable : input[i].state = "pending"
    BY DEF Startable, Pending
  <1>3. ASSUME NEW t \in Turn, NEW o \in Owner, ReserveFollowup(t, o)
        PROVE  ManifestInv'
    <2>1. PICK i \in Startable : input' = [input EXCEPT ![i].turn = t]
      BY <1>2, <1>3, OldestIn, Zenon DEF ReserveFollowup, MayReserve
    <2> QED  BY <1>2, <1>3, <2>1, ManifestKept DEF ReserveFollowup
  <1>4. CASE RejectRevokedFollowup
    BY <1>4, EditsOfPending, ManifestKept DEF RejectRevokedFollowup, RejectTaskInput
  <1>5. ASSUME NEW t \in Turn, NEW o \in Owner, SealNativeTaskInboxTurn(t, o)
        PROVE  ManifestInv'
    BY <1>5, EditsOfPending, PendingForIn, ManifestKept DEF SealNativeTaskInboxTurn
  <1>6. ASSUME NEW t \in Turn, NEW o \in Owner, NEW outcome \in Outcome,
               NEW refused \in SUBSET Revocable, CloseTaskInboxTurn(t, o, outcome, refused)
        PROVE  ManifestInv'
    BY <1>6, EditsOfPending, PendingForIn, ManifestKept DEF CloseTaskInboxTurn
  <1>7. ASSUME NEW o \in Owner, RecoverTaskInboxOwners(o)
        PROVE  ManifestInv'
    <2> DEFINE lost(r) == req[r].turn = row.turn /\ req[r].state = "included"
    <2>1. \A r \in Request : /\ req'[r].ids = req[r].ids /\ req'[r].turn = req[r].turn
                             /\ ~lost(r) => req'[r] = req[r]
                             /\ lost(r) => req'[r].state = "failed"
      BY <1>7 DEF RecoverTaskInboxOwners
    <2>2. ASSUME NEW i \in Input, input'[i].state \in {"included", "resolved"}
          PROVE  /\ input'[i].state = input[i].state
                 /\ input'[i].turn = input[i].turn
                 /\ ~input'[i].err /\ input[i].state = "included" =>
                      ~input[i].err /\ input[i].turn # row.turn
      <3>1. input[i] \in InputRecord
        BY EditsTyped
      <3>2. \/ input'[i] = input[i] /\ (input[i].turn # row.turn \/ input[i].state # "included")
            \/ input[i].state = "included" /\ input'[i] = Uncertain(i)
            \/ input[i].state = "pending" /\ input'[i] = Leftover(i)
        BY <1>7 DEF RecoverTaskInboxOwners
      <3> QED  BY <2>2, <3>1, <3>2, EditsOfPending DEF Uncertain, InputRecord
    <2> HIDE DEF TypeOK
    <2> QED  BY <2>1, <2>2 DEF ManifestInv, Lists
  <1> QED
    BY <1>1, <1>3, <1>4, <1>5, <1>6, <1>7
    DEF OwnerStep, OpenTaskInboxTurn, RenewTaskInboxTurn, PauseTaskInboxTurn,
        SealTaskInboxTurn, LeaseExpires

LEMMA ManifestOfRequestStep ==
  ASSUME TypeOK, ManifestInv, RequestStep
  PROVE  ManifestInv'
  <1>1. ASSUME NEW t \in Turn, NEW o \in Owner, NEW r \in Request,
               NEW refused \in SUBSET Revocable, NEW batch \in BatchOf(t, refused),
               IncludeTaskInputs(t, o, r, refused, batch)
        PROVE  ManifestInv'
    <2>1. /\ req[r].ids = {}
          /\ req'[r] = [turn |-> t, ids |-> batch, state |-> "included"]
          /\ \A s \in Request : s # r => req'[s] = req[s]
      BY <1>1 DEF IncludeTaskInputs, ManifestInv, TypeOK
    <2>2. ASSUME NEW i \in Input
          PROVE  \/ input'[i] = input[i]
                 \/ i \in batch /\ input'[i].turn = t /\ input'[i].state = "included"
                 \/ input'[i].state = "rejected"
      <3>1. input[i] \in InputRecord
        BY EditsTyped
      <3>2. input'[i] \in {input[i], Rejected(i)} \/ (i \in batch /\ input'[i] = Delivered(i, t))
        BY <1>1 DEF IncludeTaskInputs
      <3> QED  BY <3>1, <3>2 DEF Rejected, Delivered, InputRecord
    <2> QED  BY <2>1, <2>2 DEF ManifestInv, Lists
  <1>2. ASSUME NEW r \in Request, NEW outcome \in {"resolved", "failed", "replaced"},
               SettleTaskInputRequest(r, outcome)
        PROVE  ManifestInv'
    <2>1. \A s \in Request : /\ req'[s].ids = req[s].ids /\ req'[s].turn = req[s].turn
                             /\ s # r => req'[s] = req[s]
                             /\ req'[s].state = "none" => req[s].state = "none"
      BY <1>2 DEF SettleTaskInputRequest, TypeOK
    <2>2. ASSUME NEW i \in Input, input'[i].state \in {"included", "resolved"}
          PROVE  /\ input[i].state \in {"included", "resolved"}
                 /\ input'[i].turn = input[i].turn
                 /\ input'[i].state = "included" /\ ~input'[i].err =>
                      ~input[i].err /\ input[i].state = "included" /\ i \notin req[r].ids
      <3>1. input[i] \in InputRecord
        BY EditsTyped
      <3>2. \/ input'[i] = input[i] /\ (i \notin req[r].ids \/ input[i].state # "included")
            \/ input[i].state = "included" /\ input'[i] = Answered(i, outcome)
        BY <1>2 DEF SettleTaskInputRequest
      <3> QED  BY <2>2, <3>1, <3>2 DEF Answered, ReceiptAfter, InputRecord
    <2> QED  BY <2>1, <2>2 DEF ManifestInv, Lists
  <1> QED  BY <1>1, <1>2 DEF RequestStep

(***************************************************************************)
(* A receipt never claims a delivery that no request of its turn backs.    *)
(***************************************************************************)
THEOREM ManifestsBackReceipts == StoreSpec => []ReceiptHasManifest
  <1>1. StoreInit => ManifestInv
    BY DEF StoreInit, ManifestInv, Unsent, NoRequest
  <1>2. TypeOK /\ ManifestInv /\ [StoreNext]_storeVars => ManifestInv'
    <2>1. ASSUME ManifestInv, UNCHANGED <<input, req>>
          PROVE  ManifestInv'
      BY <2>1 DEF ManifestInv, Lists
    <2> QED
      BY <2>1, ManifestOfInputStep, ManifestOfOwnerStep, ManifestOfRequestStep
      DEF StoreNext, TurnStep, InsertTurn, FinishTurn, InterruptTurn, storeVars
  <1> QED  BY <1>1, <1>2, ManifestInvImplies, TypeCorrect, PTL DEF StoreSpec

-----------------------------------------------------------------------------
(***************************************************************************)
(* The promise of TaskReceipts: each edit of an input is a step of its     *)
(* receipt, or changes nothing of it.                                      *)
(***************************************************************************)

(* An input that is not in the table is not bound to anything.             *)
AbsentIsUnbound == \A i \in Input : input[i].state = "absent" => input[i].kind # "steer"

LEMMA AbsentStaysUnbound == StoreSpec => []AbsentIsUnbound
  <1>1. StoreInit => AbsentIsUnbound
    BY DEF StoreInit, AbsentIsUnbound, Unsent
  <1>2. TypeOK /\ AbsentIsUnbound /\ [StoreNext]_storeVars => AbsentIsUnbound'
    <2> SUFFICES ASSUME TypeOK, AbsentIsUnbound, [StoreNext]_storeVars, NEW i \in Input,
                        input'[i].state = "absent"
                 PROVE  input'[i].kind # "steer"
      BY DEF AbsentIsUnbound
    <2>1. Edited(i) /\ input[i] \in InputRecord
      BY EveryEdit, EditsTyped
    <2> QED
      BY <2>1 DEF AbsentIsUnbound, Edited, Admitted, Taken, Dropped, Judged, InputRecord, Steered,
                  Delivered, Rejected, Detached, Answered, ReceiptAfter, Uncertain
  <1> QED  BY <1>1, <1>2, TypeCorrect, PTL DEF StoreSpec

(* The receipt of an input record.                                         *)
ReceiptIn(x) ==
  [state   |-> x.state,
   bound   |-> IF x.kind = "steer" THEN x.turn ELSE NoTurn,
   carrier |-> IF x.state \in {"included", "resolved"} THEN x.turn ELSE NoTurn]

LEMMA ReceiptTyped ==
  ASSUME NEW x \in InputRecord
  PROVE  ReceiptIn(x) \in Receipts!Receipt
  BY DEF ReceiptIn, InputRecord, InputState, Receipts!Receipt, Receipts!ReceiptState

LEMMA ReceiptOfEdit ==
  ASSUME TypeOK, TypeOK', AbsentIsUnbound, NEW i \in Input, Edited(i)
  PROVE  \/ ReceiptIn(input'[i]) = ReceiptIn(input[i])
         \/ Receipts!ReceiptStep(ReceiptIn(input[i]), ReceiptIn(input'[i]))
  <1> DEFINE x == input[i]
             y == input'[i]
             Goal == \/ ReceiptIn(y) = ReceiptIn(x)
                     \/ Receipts!ReceiptStep(ReceiptIn(x), ReceiptIn(y))
  <1>1. x \in InputRecord /\ y \in InputRecord
    BY DEF TypeOK, InputRecord
  <1>2. CASE y = x
    BY <1>2
  <1>3. CASE Admitted(i)
    <2>1. ReceiptIn(x) = Receipts!NoReceipt
      BY <1>3 DEF Admitted, AbsentIsUnbound, ReceiptIn, Receipts!NoReceipt
    <2>2. ReceiptIn(y).state = "pending" /\ ReceiptIn(y).carrier = NoTurn
      BY <1>3 DEF Admitted, ReceiptIn
    <2> QED  BY <2>1, <2>2 DEF Receipts!ReceiptStep, Receipts!Accept
  <1>4. ASSUME x.state = "pending", Taken(i)
        PROVE  Goal
    <2>1. PICK t \in Turn :
            \/ x.kind = "queued" /\ x.turn = NoTurn /\ y = Steered(i, t)
            \/ x.kind \in Starter /\ y = [x EXCEPT !.turn = t]
            \/ i \in PendingFor(t) /\ y = Delivered(i, t)
      BY <1>4 DEF Taken
    <2>2. CASE x.kind = "queued" /\ x.turn = NoTurn /\ y = Steered(i, t)
      <3>1. ReceiptIn(x) = [state |-> "pending", bound |-> NoTurn, carrier |-> NoTurn]
        BY <1>4, <2>2 DEF ReceiptIn
      <3>2. ReceiptIn(y) = [state |-> "pending", bound |-> t, carrier |-> NoTurn]
        BY <1>1, <1>4, <2>2 DEF ReceiptIn, Steered, InputRecord
      <3> QED  BY <3>1, <3>2, NoTurnAssumption DEF Receipts!ReceiptStep, Receipts!Bind
    <2>3. CASE x.kind \in Starter /\ y = [x EXCEPT !.turn = t]
      BY <1>1, <1>4, <2>3 DEF ReceiptIn, Starter, InputRecord
    <2>4. CASE i \in PendingFor(t) /\ y = Delivered(i, t)
      <3>1. ReceiptIn(x) = [state |-> "pending", bound |-> ReceiptIn(x).bound, carrier |-> NoTurn]
        BY <1>4 DEF ReceiptIn
      <3>2. ReceiptIn(x).bound \in {NoTurn, t}
        BY <2>4 DEF ReceiptIn, PendingFor
      <3>3. ReceiptIn(y) = [state |-> "included", bound |-> ReceiptIn(x).bound, carrier |-> t]
        BY <1>1, <2>4 DEF ReceiptIn, Delivered, InputRecord, PendingFor
      <3> QED
        BY <3>1, <3>2, <3>3, NoTurnAssumption DEF Receipts!ReceiptStep, Receipts!Deliver
    <2> QED  BY <2>1, <2>2, <2>3, <2>4
  <1>5. ASSUME x.state = "pending", Dropped(i)
        PROVE  Goal
    <2>1. CASE x.kind # "steer" /\ y = Detached(i)
      BY <1>1, <1>5, <2>1 DEF ReceiptIn, Detached, InputRecord
    <2>2. ASSUME NEW s \in {"rejected", "cancelled"}, y = [x EXCEPT !.state = s]
          PROVE  Goal
      <3>1. ReceiptIn(x) = [state |-> "pending", bound |-> ReceiptIn(x).bound, carrier |-> NoTurn]
        BY <1>5 DEF ReceiptIn
      <3>2. ReceiptIn(y) = [state |-> s, bound |-> ReceiptIn(x).bound, carrier |-> NoTurn]
        BY <1>1, <2>2 DEF ReceiptIn, InputRecord
      <3> QED  BY <3>1, <3>2 DEF Receipts!ReceiptStep, Receipts!Decline
    <2> QED  BY <1>5, <2>1, <2>2 DEF Dropped, Rejected
  <1>6. ASSUME x.state = "included", Judged(i)
        PROVE  Goal
    <2>1. ReceiptIn(x) = [state |-> "included", bound |-> ReceiptIn(x).bound, carrier |-> x.turn]
      BY <1>6 DEF ReceiptIn
    <2>2. CASE y = Uncertain(i)
      BY <1>1, <2>2 DEF ReceiptIn, Uncertain, InputRecord
    <2>3. CASE y = Answered(i, "resolved")
      <3>1. ReceiptIn(y) = [ReceiptIn(x) EXCEPT !.state = "resolved"]
        BY <1>1, <1>6, <2>3 DEF ReceiptIn, Answered, ReceiptAfter, InputRecord
      <3> QED  BY <1>6, <3>1 DEF Receipts!ReceiptStep, Receipts!Answer, ReceiptIn
    <2>4. CASE y = Answered(i, "replaced")
      <3>1. ReceiptIn(y) = [state |-> "pending", bound |-> ReceiptIn(x).bound, carrier |-> NoTurn]
        BY <1>1, <2>4 DEF ReceiptIn, Answered, ReceiptAfter, InputRecord
      <3>2. Receipts!Return(ReceiptIn(x), ReceiptIn(y))
        BY <2>1, <3>1 DEF Receipts!Return
      <3> QED  BY <3>2 DEF Receipts!ReceiptStep
    <2>5. CASE y = Answered(i, "failed")
      BY <1>1, <1>6, <2>5 DEF ReceiptIn, Answered, ReceiptAfter, InputRecord
    <2> QED  BY <1>6, <2>2, <2>3, <2>4, <2>5 DEF Judged
  <1> QED  BY <1>2, <1>3, <1>4, <1>5, <1>6 DEF Edited

(***************************************************************************)
(* The store implements TaskReceipts: through edits, requests, refusals,   *)
(* closings and recoveries, every sender's receipt moves as promised.      *)
(***************************************************************************)
THEOREM StoreKeepsReceipts == StoreSpec => KeepsReceipts
  <1> DEFINE receipts == [i \in Input |-> ReceiptOf(i)]
  <1>1. StoreInit => Receipts!Init
    BY DEF StoreInit, Unsent, ReceiptOf, Receipts!Init, Receipts!NoReceipt
  <1>2. TypeOK /\ TypeOK' /\ AbsentIsUnbound /\ [StoreNext]_storeVars
          => [Receipts!Next]_receipts
    <2> SUFFICES ASSUME TypeOK, TypeOK', AbsentIsUnbound, [StoreNext]_storeVars
                 PROVE  Receipts!Next
      OBVIOUS
    <2>1. ASSUME NEW i \in Input
          PROVE  /\ receipts[i] = ReceiptIn(input[i])
                 /\ receipts'[i] = ReceiptIn(input'[i])
      BY DEF ReceiptOf, ReceiptIn
    <2>2. ASSUME NEW i \in Input
          PROVE  receipts'[i] \in Receipts!Receipt
      <3>1. input'[i] \in InputRecord
        BY DEF TypeOK, InputRecord
      <3> QED  BY <2>1, <3>1, ReceiptTyped
    <2>3. receipts' \in [Input -> Receipts!Receipt]
      BY <2>2
    <2>4. \A i \in Input : \/ receipts'[i] = receipts[i]
                           \/ Receipts!ReceiptStep(receipts[i], receipts'[i])
      BY <2>1, EveryEdit, ReceiptOfEdit
    <2> QED  BY <2>3, <2>4 DEF Receipts!Next
  <1> QED
    BY <1>1, <1>2, TypeCorrect, AbsentStaysUnbound, PTL
    DEF StoreSpec, KeepsReceipts, Receipts!Spec
=============================================================================
