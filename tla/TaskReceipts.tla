---------------------------- MODULE TaskReceipts ----------------------------
(***************************************************************************)
(* What a sender is promised about one task inbox, whatever happens to the *)
(* server: every accepted input has a receipt that goes through            *)
(*                                                                         *)
(*    pending -> included -> resolved                                      *)
(*    pending <- included          (the request was replaced)              *)
(*    pending -> rejected | cancelled                                      *)
(*                                                                         *)
(* and never leaves resolved, rejected or cancelled.  A correction is      *)
(* bound to one turn, and no other turn ever carries it.                   *)
(*                                                                         *)
(* The table of inputs in the SQLite store implements this specification:  *)
(* see Receipts in TaskInboxStore.                                         *)
(***************************************************************************)
CONSTANTS Input,    \* inputs that may be accepted
          Turn,     \* turns that may carry them
          NoTurn    \* "no turn": an input that is not bound, not delivered

VARIABLE receipt    \* the receipt of each input

ReceiptState == {"absent", "pending", "included", "resolved", "rejected", "cancelled"}

Receipt == [state : ReceiptState, bound : Turn \cup {NoTurn}, carrier : Turn \cup {NoTurn}]

NoReceipt == [state |-> "absent", bound |-> NoTurn, carrier |-> NoTurn]

-----------------------------------------------------------------------------
(* The steps of one receipt, from old to new.                              *)

Accept(old, new) ==
  /\ old = NoReceipt
  /\ new.state = "pending"
  /\ new.carrier = NoTurn

(* A queued input that has not been delivered becomes a correction.        *)
Bind(old, new) ==
  /\ old.state = "pending"
  /\ old.bound = NoTurn
  /\ new.bound # NoTurn
  /\ new = [old EXCEPT !.bound = new.bound]

Deliver(old, new) ==
  /\ old.state = "pending"
  /\ new.carrier # NoTurn
  /\ old.bound \in {NoTurn, new.carrier}
  /\ new = [state |-> "included", bound |-> old.bound, carrier |-> new.carrier]

Answer(old, new) ==
  /\ old.state = "included"
  /\ new = [old EXCEPT !.state = "resolved"]

Return(old, new) ==
  /\ old.state = "included"
  /\ new = [state |-> "pending", bound |-> old.bound, carrier |-> NoTurn]

Decline(old, new) ==
  /\ old.state = "pending"
  /\ new.state \in {"rejected", "cancelled"}
  /\ new = [old EXCEPT !.state = new.state]

ReceiptStep(old, new) ==
  \/ Accept(old, new)
  \/ Bind(old, new)
  \/ Deliver(old, new)
  \/ Answer(old, new)
  \/ Return(old, new)
  \/ Decline(old, new)

-----------------------------------------------------------------------------
Init == receipt = [i \in Input |-> NoReceipt]

(* A store transaction may move several receipts, each by one step.        *)
Next ==
  /\ receipt' \in [Input -> Receipt]
  /\ \A i \in Input : receipt'[i] = receipt[i] \/ ReceiptStep(receipt[i], receipt'[i])

Spec == Init /\ [][Next]_receipt
=============================================================================
