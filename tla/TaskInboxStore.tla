--------------------------- MODULE TaskInboxStore ---------------------------
(***************************************************************************)
(* The durable inbox of one task (a session): the tables task_inputs,      *)
(* task_inbox_turns, task_input_requests and turns, and the transactions   *)
(* of StoreTaskInbox on them.  inboxWrite serializes every transaction     *)
(* (BEGIN IMMEDIATE behind one promise chain), so each one is an atomic    *)
(* action here; what the callers do between two transactions is the        *)
(* business of TaskRuntime.  Here a caller may issue any transaction, with *)
(* any turn, owner and request, at any time.                               *)
(*                                                                         *)
(* Abstracted: bodies (a batch has a character budget, see BatchOf), the   *)
(* revision counter behind optimistic edits, and the wall clock: a lease   *)
(* is "none" (lease_until = 0 or no row), "live" or "expired".             *)
(***************************************************************************)
EXTENDS Integers, FiniteSets

CONSTANTS Input,       \* inputs, named by their sequence number in the table
          Turn,        \* turn ids
          Owner,       \* owner ids, one per server start
          Request,     \* provider request ids
          Revocable,   \* inputs whose sender's local control may be withdrawn
          NoTurn,
          NoOwner,
          MaxPending,  \* TASK_INBOX_MAX_PENDING
          BatchMax     \* the number of inputs one provider request may carry

ASSUME InputAssumption   == Input \subseteq Nat /\ IsFiniteSet(Input)
ASSUME RevocableAssumption == Revocable \subseteq Input
ASSUME NoTurnAssumption  == NoTurn \notin Turn
ASSUME NoOwnerAssumption == NoOwner \notin Owner
ASSUME LimitAssumption   == MaxPending \in Nat \ {0} /\ BatchMax \in Nat \ {0}

VARIABLES input,    \* task_inputs
          row,      \* the task_inbox_turns row of the session
          req,      \* task_input_requests: the manifest of each provider request
          tstatus   \* turns.status, "none" before the turn is inserted

storeVars == <<input, row, req, tstatus>>

-----------------------------------------------------------------------------
(* "message" also stands for "result": no transaction tells them apart.    *)
Kind == {"queued", "followup", "steer", "message"}

Starter == {"queued", "followup"}   \* kinds that start a turn of their own

InputState == {"absent", "pending", "included", "resolved", "rejected", "cancelled"}

RequestState == {"none", "included", "resolved", "failed", "replaced"}

Outcome == {"completed", "failed", "interrupted"}

Unsent == [kind |-> "message", state |-> "absent", turn |-> NoTurn, err |-> FALSE]

NoRow == [turn |-> NoTurn, owner |-> NoOwner, accepting |-> FALSE, paused |-> FALSE, lease |-> "none"]

NoRequest == [turn |-> NoTurn, ids |-> {}, state |-> "none"]

TypeOK ==
  /\ input \in [Input -> [kind : Kind, state : InputState, turn : Turn \cup {NoTurn}, err : BOOLEAN]]
  /\ row \in [turn : Turn \cup {NoTurn}, owner : Owner \cup {NoOwner}, accepting : BOOLEAN,
              paused : BOOLEAN, lease : {"none", "live", "expired"}]
  /\ req \in [Request -> [turn : Turn \cup {NoTurn}, ids : SUBSET Input, state : RequestState]]
  /\ tstatus \in [Turn -> {"none", "in_progress"} \cup Outcome]

StoreInit ==
  /\ input = [i \in Input |-> Unsent]
  /\ row = NoRow
  /\ req = [r \in Request |-> NoRequest]
  /\ tstatus = [t \in Turn |-> "none"]

-----------------------------------------------------------------------------
Leased == row.lease = "live"

OwnsRow(t, o) == row.turn = t /\ row.owner = o

(* requireInboxOwner *)
OwnsInbox(t, o) == OwnsRow(t, o) /\ Leased

(* assertSteerTarget *)
SteerTarget(t) ==
  /\ row.turn = t
  /\ row.accepting
  /\ ~row.paused
  /\ Leased
  /\ tstatus[t] = "in_progress"

Pending == {i \in Input : input[i].state = "pending"}

PendingAnyTurn(t) ==  \* mutant: does not ask which turn an input is bound to
  {i \in Pending : input[i].turn # NoTurn \/ input[i].kind = "message"}

(* pendingTaskInputs: what turn t still has to take in.                    *)
PendingFor(t) ==
  {i \in Pending : \/ input[i].turn = t
                   \/ input[i].turn = NoTurn /\ input[i].kind = "message"}

(* The inputs the dispatcher may start a turn with.                        *)
Startable == {i \in Pending : input[i].turn = NoTurn /\ input[i].kind \in Starter}

(* taskInboxWakeTargets *)
WakeTarget == Startable # {} /\ ~row.paused /\ ~Leased

AttachToLastTurn(kind) ==  \* mutant: the row's turn may be over
  IF kind \notin Starter THEN row.turn ELSE NoTurn

(* admitTaskInput: the turn an input of this kind is attached to.          *)
AttachTo(kind) ==
  IF kind \notin Starter /\ row.accepting /\ ~row.paused /\ Leased THEN row.turn ELSE NoTurn

Steered(i, t) == [input[i] EXCEPT !.kind = "steer", !.turn = t]
Delivered(i, t) == [input[i] EXCEPT !.state = "included", !.turn = t]
Rejected(i) == [input[i] EXCEPT !.state = "rejected"]
Detached(i) == [input[i] EXCEPT !.turn = NoTurn]

LeftAsIs(i) == input[i]  \* mutant: the turn forgets what it did not take in

(* What becomes of a pending input when its turn is over: a correction is  *)
(* refused, anything else waits for another turn.                          *)
Leftover(i) == IF input[i].kind = "steer" THEN Rejected(i) ELSE Detached(i)

-----------------------------------------------------------------------------
(* Admission and user edits.  expected is the turn a correction names.  A  *)
(* queued input of a remote device may resume a paused queue in the same   *)
(* transaction: that is its admission and then ResumeQueue of it, between  *)
(* which the pause keeps everyone from starting a turn with it.            *)

AdmitTaskInput(i, kind, expected) ==
  /\ input[i].state = "absent"
  /\ \A j \in Input : j < i => input[j].state # "absent"
  /\ kind = "steer" => SteerTarget(expected)
  /\ Cardinality(Pending) < MaxPending
  /\ input' = [input EXCEPT ![i] = [kind |-> kind, state |-> "pending",
                                    turn |-> AttachTo(kind), err |-> FALSE]]
  /\ UNCHANGED <<row, req, tstatus>>

(* mutateTaskInput: a pending input of the user that has no turn.  A user  *)
(* sends "queued" and "steer" only, and a steer has a turn (SteerIsBound), *)
(* so that the test of the sender is one of the kind here.                 *)
Editable(i) ==
  /\ input[i].state = "pending"
  /\ input[i].kind = "queued"
  /\ input[i].turn = NoTurn

ResumeQueue(i) ==
  /\ Editable(i)
  /\ ~Leased
  /\ row' = [row EXCEPT !.paused = FALSE]
  /\ UNCHANGED <<input, req, tstatus>>

CancelInput(i) ==
  /\ Editable(i)
  /\ input' = [input EXCEPT ![i].state = "cancelled"]
  /\ UNCHANGED <<row, req, tstatus>>

PromoteToSteer(i, t) ==
  /\ Editable(i)
  /\ SteerTarget(t)
  /\ input' = [input EXCEPT ![i] = Steered(i, t)]
  /\ UNCHANGED <<row, req, tstatus>>

RejectTaskInput(i) ==
  /\ input[i].state = "pending"
  /\ input' = [input EXCEPT ![i] = Rejected(i)]
  /\ UNCHANGED <<row, req, tstatus>>

-----------------------------------------------------------------------------
(* Ownership of the inbox by one turn of one server.                       *)

TakeRow(t, o) == [turn |-> t, owner |-> o, accepting |-> TRUE, paused |-> FALSE, lease |-> "live"]

OpenTaskInboxTurn(t, o) ==
  /\ Leased => OwnsRow(t, o)
  /\ row' = TakeRow(t, o)
  /\ UNCHANGED <<input, req, tstatus>>

RenewTaskInboxTurn(t, o) ==
  /\ OwnsInbox(t, o)
  /\ UNCHANGED storeVars

PauseKeepsAccepting(t, o) ==  \* mutant
  /\ OwnsInbox(t, o)
  /\ row' = [row EXCEPT !.paused = TRUE]
  /\ UNCHANGED <<input, req, tstatus>>

PauseTaskInboxTurn(t, o) ==
  /\ OwnsInbox(t, o)
  /\ row' = [row EXCEPT !.accepting = FALSE, !.paused = TRUE]
  /\ UNCHANGED <<input, req, tstatus>>

(* reserveTaskFollowup: the oldest startable input starts turn t, unless   *)
(* its sender lost control of the task: then it is rejected and the        *)
(* dispatcher asks again.                                                  *)
Oldest(S) == CHOOSE i \in S : \A j \in S : i <= j

MayReserve == ~row.paused /\ ~Leased /\ Startable # {}

ReserveWithoutBinding(t, o) ==  \* mutant: the input remains for others to start
  /\ MayReserve
  /\ row' = TakeRow(t, o)
  /\ UNCHANGED <<input, req, tstatus>>

ReserveFollowup(t, o) ==
  /\ MayReserve
  /\ row' = TakeRow(t, o)
  /\ input' = [input EXCEPT ![Oldest(Startable)].turn = t]
  /\ UNCHANGED <<req, tstatus>>

RejectRevokedFollowup ==
  /\ MayReserve
  /\ Oldest(Startable) \in Revocable
  /\ RejectTaskInput(Oldest(Startable))

-----------------------------------------------------------------------------
(* Provider requests.                                                      *)

(* includeTaskInputs: the batches it may select from the inputs waiting for*)
(* turn t, those in refused having lost their sender's control.  It goes   *)
(* through them in order and stops at the first that does not fit.  Two    *)
(* bodies always fit: a body has at most TASK_INPUT_MAX_CHARS characters,  *)
(* half of TASK_INPUT_BATCH_MAX_CHARS.                                     *)
AlwaysFit == 2

BatchUnordered(t, refused) ==  \* mutant: takes whatever fits
  LET eligible == PendingFor(t) \ refused
  IN {batch \in SUBSET eligible :
        /\ Cardinality(batch) <= BatchMax
        /\ batch # eligible => Cardinality(batch) >= 1}

BatchOf(t, refused) ==
  LET eligible == PendingFor(t) \ refused
  IN {batch \in SUBSET eligible :
        /\ \A i \in batch, j \in eligible \ batch : i < j
        /\ Cardinality(batch) <= BatchMax
        /\ batch # eligible => Cardinality(batch) = BatchMax \/ Cardinality(batch) >= AlwaysFit}

(* The refused inputs it met before it stopped.                            *)
Refused(t, refused, batch) ==
  {i \in PendingFor(t) \cap refused :
     \A j \in PendingFor(t) \ (refused \cup batch) : i < j}

IncludeTaskInputs(t, o, r, refused, batch) ==
  /\ OwnsInbox(t, o)
  /\ req[r].state = "none"
  /\ batch \in BatchOf(t, refused)
  /\ input' = [i \in Input |->
                 IF i \in batch THEN Delivered(i, t)
                 ELSE IF i \in Refused(t, refused, batch) THEN Rejected(i)
                 ELSE input[i]]
  /\ req' = [req EXCEPT ![r] = [turn |-> t, ids |-> batch, state |-> "included"]]
  /\ UNCHANGED <<row, tstatus>>

OutcomeAsReceipt(outcome) == outcome  \* mutant

FailedIsRetried(outcome) ==  \* mutant: as if a failed request had not been seen
  IF outcome = "resolved" THEN "resolved" ELSE "pending"

(* The receipt of an included input, its request being settled.            *)
ReceiptAfter(outcome) ==
  CASE outcome = "resolved" -> "resolved"
    [] outcome = "replaced" -> "pending"
    [] outcome = "failed"   -> "included"

Answered(i, outcome) ==
  [input[i] EXCEPT !.state = ReceiptAfter(outcome), !.err = (outcome = "failed")]

(* settleTaskInputRequest.  A failed request leaves its inputs included,   *)
(* with an error: the receipt is not evidence of a reply.                  *)
SettleTaskInputRequest(r, outcome) ==
  /\ req[r].state # "none"
  /\ req' = [req EXCEPT ![r].state = outcome]
  /\ input' = [i \in Input |->
                 IF i \in req[r].ids /\ input[i].state = "included"
                 THEN Answered(i, outcome) ELSE input[i]]
  /\ UNCHANGED <<row, tstatus>>

-----------------------------------------------------------------------------
(* The end of a turn.                                                      *)

SealIgnoresPending(t, o) ==  \* mutant: a correction came after the last request
  /\ OwnsInbox(t, o)
  /\ row' = [row EXCEPT !.accepting = FALSE]
  /\ UNCHANGED <<input, req, tstatus>>

SealTaskInboxTurn(t, o) ==
  /\ OwnsInbox(t, o)
  /\ PendingFor(t) = {}
  /\ row' = [row EXCEPT !.accepting = FALSE]
  /\ UNCHANGED <<input, req, tstatus>>

(* Codex turns: what could not be dispatched is refused or given back.     *)
SealNativeTaskInboxTurn(t, o) ==
  /\ OwnsInbox(t, o)
  /\ row' = [row EXCEPT !.accepting = FALSE]
  /\ input' = [i \in Input |->
                 IF i \in PendingFor(t) THEN Leftover(i) ELSE input[i]]
  /\ UNCHANGED <<req, tstatus>>

(* closeTaskInboxTurn by a turn that still has the row; one that lost it   *)
(* changes nothing.                                                        *)
CloseTaskInboxTurn(t, o, outcome, refused) ==
  /\ OwnsRow(t, o)
  /\ row' = [row EXCEPT !.accepting = FALSE, !.paused = @ \/ outcome # "completed", !.lease = "none"]
  /\ input' = [i \in Input |->
                 IF i \notin PendingFor(t) THEN input[i]
                 ELSE IF i \in refused THEN Rejected(i)
                 ELSE Leftover(i)]
  /\ UNCHANGED <<req, tstatus>>

UncertainUnmarked(i) == input[i]  \* mutant: the receipt goes on saying included

(* The server that made the request is gone: nobody knows what became of it.*)
Uncertain(i) == [input[i] EXCEPT !.err = TRUE]

(* recoverTaskInboxOwners, called by the server that now owns the home.    *)
Abandoned(o) == row.turn # NoTurn /\ row.owner # o /\ row.lease # "none"

RecoverTaskInboxOwners(o) ==
  /\ Abandoned(o)
  /\ row' = [row EXCEPT !.accepting = FALSE, !.paused = (tstatus[row.turn] # "none"), !.lease = "none"]
  /\ input' = [i \in Input |->
                 IF input[i].turn # row.turn THEN input[i]
                 ELSE CASE input[i].state = "included" -> Uncertain(i)
                        [] input[i].state = "pending"  -> Leftover(i)
                        [] OTHER                       -> input[i]]
  /\ req' = [r \in Request |-> IF req[r].turn = row.turn /\ req[r].state = "included"
                               THEN [req[r] EXCEPT !.state = "failed"] ELSE req[r]]
  /\ UNCHANGED tstatus

LeaseExpires ==
  /\ Leased
  /\ row' = [row EXCEPT !.lease = "expired"]
  /\ UNCHANGED <<input, req, tstatus>>

-----------------------------------------------------------------------------
(* The turns table.  updateTurn has no guard: completeTurn and failTurn    *)
(* overwrite whatever status the turn has; interruptTurn looks first.      *)

InsertTurn(t) ==
  /\ tstatus[t] = "none"
  /\ tstatus' = [tstatus EXCEPT ![t] = "in_progress"]
  /\ UNCHANGED <<input, row, req>>

FinishTurn(t, status) ==
  /\ tstatus[t] # "none"
  /\ tstatus' = [tstatus EXCEPT ![t] = status]
  /\ UNCHANGED <<input, row, req>>

InterruptTurn(t) ==
  /\ tstatus[t] = "in_progress"
  /\ tstatus' = [tstatus EXCEPT ![t] = "interrupted"]
  /\ UNCHANGED <<input, row, req>>

-----------------------------------------------------------------------------
InputStep ==
  \/ \E i \in Input, kind \in Kind, t \in Turn : AdmitTaskInput(i, kind, t)
  \/ \E i \in Input : ResumeQueue(i)
  \/ \E i \in Input : CancelInput(i)
  \/ \E i \in Input, t \in Turn : PromoteToSteer(i, t)
  \/ \E i \in Input : RejectTaskInput(i)

OwnerStep ==
  \/ \E t \in Turn, o \in Owner : OpenTaskInboxTurn(t, o)
  \/ \E t \in Turn, o \in Owner : RenewTaskInboxTurn(t, o)
  \/ \E t \in Turn, o \in Owner : PauseTaskInboxTurn(t, o)
  \/ \E t \in Turn, o \in Owner : ReserveFollowup(t, o)
  \/ RejectRevokedFollowup
  \/ \E t \in Turn, o \in Owner : SealTaskInboxTurn(t, o)
  \/ \E t \in Turn, o \in Owner : SealNativeTaskInboxTurn(t, o)
  \/ \E t \in Turn, o \in Owner, outcome \in Outcome, refused \in SUBSET Revocable :
       CloseTaskInboxTurn(t, o, outcome, refused)
  \/ \E o \in Owner : RecoverTaskInboxOwners(o)
  \/ LeaseExpires

RequestStep ==
  \/ \E t \in Turn, o \in Owner, r \in Request, refused \in SUBSET Revocable :
       \E batch \in BatchOf(t, refused) : IncludeTaskInputs(t, o, r, refused, batch)
  \/ \E r \in Request, outcome \in {"resolved", "failed", "replaced"} :
       SettleTaskInputRequest(r, outcome)

TurnStep ==
  \/ \E t \in Turn : InsertTurn(t)
  \/ \E t \in Turn, status \in {"completed", "failed"} : FinishTurn(t, status)
  \/ \E t \in Turn : InterruptTurn(t)

StoreNext == InputStep \/ OwnerStep \/ RequestStep \/ TurnStep

StoreSpec == StoreInit /\ [][StoreNext]_storeVars

-----------------------------------------------------------------------------
(* A receipt never claims more than the manifests do: an included or       *)
(* resolved input is in the manifest of a request of the very turn its     *)
(* receipt names.  An included input without an error is in a request that *)
(* is still out.                                                           *)
ReceiptHasManifest ==
  \A i \in Input :
    /\ input[i].state \in {"included", "resolved"} =>
         \E r \in Request : i \in req[r].ids /\ req[r].turn = input[i].turn
    /\ input[i].state = "included" /\ ~input[i].err =>
         \E r \in Request : i \in req[r].ids /\ req[r].state = "included"

(* A correction stays with the turn it names: it is never handed to the    *)
(* dispatcher or to another turn ("Your text was not sent to a different   *)
(* turn").                                                                 *)
SteerIsBound == \A i \in Input : input[i].kind = "steer" => input[i].turn # NoTurn

(* Nobody is told that a turn takes corrections while the inbox is paused  *)
(* or after its lease was given up.                                        *)
AcceptingIsOpen ==
  row.accepting => ~row.paused /\ row.lease # "none" /\ row.turn # NoTurn

(* A provider request takes what is waiting in the order it was admitted:  *)
(* when an input goes out, none that was admitted earlier is left waiting  *)
(* for the same turn.                                                      *)
NotOvertaken ==
  \A i, j \in Input, t \in Turn :
    /\ j < i
    /\ input[i].state = "pending" /\ input'[i].state = "included" /\ input'[i].turn = t
    => j \notin PendingFor(t)'

DeliveredInOrder == [][NotOvertaken]_storeVars

(* The table of inputs keeps the promise made to senders.                  *)
ReceiptOf(i) ==
  [state   |-> input[i].state,
   bound   |-> IF input[i].kind = "steer" THEN input[i].turn ELSE NoTurn,
   carrier |-> IF input[i].state \in {"included", "resolved"} THEN input[i].turn ELSE NoTurn]

Receipts == INSTANCE TaskReceipts WITH receipt <- [i \in Input |-> ReceiptOf(i)]

KeepsReceipts == Receipts!Spec
=============================================================================
