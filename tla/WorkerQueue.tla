---------------------------- MODULE WorkerQueue ----------------------------
(***************************************************************************)
(* The in-memory queue that background work runs on: follow-up turns,      *)
(* subagent runs, refinement, schedules.  At most Concurrency jobs hold a  *)
(* slot, at most one job of a key (a session, a run) is under way, and a   *)
(* job that waits for another task gives its slot back meanwhile.          *)
(*                                                                         *)
(* JavaScript runs to completion between two awaits, so an action is what  *)
(* one call does up to its first await; pump, which such a call runs to    *)
(* its end, is a series of Start steps during which nothing else happens.  *)
(***************************************************************************)
EXTENDS Integers, Sequences, FiniteSets

CONSTANTS Job,          \* jobs that may be enqueued
          Guest,        \* work of another queue, set off by a running job or by nobody
          NoJob,        \* no job: a guest that carries no slot
          Waiters,      \* the work that may wait while it carries a slot
          KeyOf,        \* keyForJob; 0 is null
          Concurrency,  \* slots
          MaxWaits      \* waits of one job or guest

Outside == 0            \* what a job may wait for besides another job

ASSUME QueueJobAssumption == IsFiniteSet(Job) /\ NoJob \notin Job /\ Guest \cap Job = {}
                             /\ Outside \notin Job \cup Guest /\ Waiters \subseteq Job \cup Guest
ASSUME QueueKeyAssumption == KeyOf \in [Job -> Nat]
ASSUME QueueSlotAssumption == Concurrency \in Nat \ {0} /\ MaxWaits \in Nat

Work == Job \cup Guest

VARIABLES ready,        \* entries that ask for a slot, oldest first
          receipt,      \* status of each job; completed and failed are "ended"
          held,         \* held: the closure variable of each job
          activeSlots,  \* active
          activeKeys,   \* keys of the jobs under way
          pumping,      \* pump is on the stack
          pumpDue,      \* a microtask will call pump
          doing,        \* where each piece of work is
          awaited,      \* what it waits for
          waits,        \* how often it has waited
          slotOf        \* the store AsyncLocalStorage gives a guest

queueVars == <<ready, receipt, held, activeSlots, activeKeys, pumping, pumpDue, doing, awaited,
               waits, slotOf>>

Entry == [job : Job, resume : BOOLEAN, for : Work]

(* Everything is of the kind the code declares.                            *)
QueueTypeOK ==
  /\ ready \in Seq(Entry)
  /\ receipt \in [Job -> {"new", "queued", "running", "ended"}]
  /\ held \in [Job -> BOOLEAN]
  /\ activeSlots \in Int
  /\ activeKeys \subseteq Nat
  /\ pumping \in BOOLEAN /\ pumpDue \in BOOLEAN
  /\ doing \in [Work -> {"none", "working", "waiting", "resuming", "over"}]
  /\ awaited \in [Work -> Work \cup {Outside}]
  /\ waits \in [Work -> 0..MaxWaits]
  /\ slotOf \in [Guest -> Job \cup {NoJob}]

QueueInit ==
  /\ ready = <<>>
  /\ receipt = [j \in Job |-> "new"]
  /\ held = [j \in Job |-> FALSE]
  /\ activeSlots = 0
  /\ activeKeys = {}
  /\ pumping = FALSE /\ pumpDue = FALSE
  /\ doing = [w \in Work |-> "none"]
  /\ awaited = [w \in Work |-> Outside]
  /\ waits = [w \in Work |-> 0]
  /\ slotOf = [g \in Guest |-> NoJob]

-----------------------------------------------------------------------------
KeySet(j) == {KeyOf[j]} \ {0}

(* context.getStore(): a job runs in its own context, a guest in the one   *)
(* its queue's pump was called in.                                         *)
Slot(w) == IF w \in Job THEN w ELSE slotOf[w]

EligibleByKeyOnly(e) == KeyOf[e.job] \notin activeKeys \ {0}  \* mutant: a resumed job waits for its own key

EligibleAnyway(e) == TRUE  \* mutant: keys are not looked at

Eligible(e) == e.resume \/ KeyOf[e.job] = 0 \/ KeyOf[e.job] \notin activeKeys

CanStart == activeSlots < Concurrency /\ \E i \in 1..Len(ready) : Eligible(ready[i])

Without(i) == SubSeq(ready, 1, i - 1) \o SubSeq(ready, i + 1, Len(ready))

Ask(entry) == ready' = Append(ready, entry)

Release(j) ==
  IF held[j]
  THEN /\ held' = [held EXCEPT ![j] = FALSE]
       /\ activeSlots' = activeSlots - 1
       /\ pumping' = TRUE
  ELSE UNCHANGED <<held, activeSlots, pumping>>

-----------------------------------------------------------------------------
Enqueue(j) ==
  /\ ~pumping
  /\ receipt[j] = "new"
  /\ receipt' = [receipt EXCEPT ![j] = "queued"]
  /\ Ask([job |-> j, resume |-> FALSE, for |-> j])
  /\ pumpDue' = TRUE
  /\ UNCHANGED <<held, activeSlots, activeKeys, pumping, doing, awaited, waits, slotOf>>

Microtask ==
  /\ ~pumping /\ pumpDue
  /\ pumpDue' = FALSE
  /\ pumping' = TRUE
  /\ UNCHANGED <<ready, receipt, held, activeSlots, activeKeys, doing, awaited, waits, slotOf>>

(* One round of the loop of pump: the first entry that may start does.     *)
Start ==
  /\ pumping
  /\ activeSlots < Concurrency
  /\ \E i \in 1..Len(ready) :
       LET e == ready[i] IN
       /\ Eligible(e)
       /\ \A k \in 1..(i - 1) : ~Eligible(ready[k])
       /\ ready' = Without(i)
       /\ activeSlots' = activeSlots + 1
       /\ activeKeys' = activeKeys \cup KeySet(e.job)
       /\ held' = [held EXCEPT ![e.job] = TRUE]
       /\ doing' = [doing EXCEPT ![e.for] = "working"]
       /\ receipt' = IF e.resume THEN receipt ELSE [receipt EXCEPT ![e.job] = "running"]
  /\ UNCHANGED <<pumping, pumpDue, awaited, waits, slotOf>>

PumpEnds ==
  /\ pumping /\ ~CanStart
  /\ pumping' = FALSE
  /\ UNCHANGED <<ready, receipt, held, activeSlots, activeKeys, pumpDue, doing, awaited, waits, slotOf>>

(* What a task may wait for: anything outside the queue, work set off in   *)
(* its context, or the job of another session.  createTaskWait refuses     *)
(* cycles (see TaskWaits), so sessions are numbered along their waits.     *)
MayAwait(w, x) ==
  \/ x = Outside
  \/ x \in Guest /\ w \in Job /\ doing[x] # "none"
  \/ x \in Job /\ w \in Job /\ receipt[x] # "new" /\ KeyOf[w] < KeyOf[x]

(* yieldWhileWaiting up to the await of the work it is given.              *)
Wait(w, x) ==
  /\ ~pumping
  /\ doing[w] = "working" /\ waits[w] < MaxWaits
  /\ (w \notin Waiters => Slot(w) = NoJob)
  /\ MayAwait(w, x)
  /\ doing' = [doing EXCEPT ![w] = "waiting"]
  /\ awaited' = [awaited EXCEPT ![w] = x]
  /\ waits' = [waits EXCEPT ![w] = @ + 1]
  /\ IF Slot(w) = NoJob THEN UNCHANGED <<held, activeSlots, pumping>> ELSE Release(Slot(w))
  /\ UNCHANGED <<ready, receipt, activeKeys, pumpDue, slotOf>>

(* What a wait may wake for.  A wait for another task that a message, a    *)
(* Stop or its deadline ends first is a wait for Outside.                  *)
Ended == {Outside} \cup {x \in Work : doing[x] = "over"}

WakeUnpumped(w) ==  \* mutant: reacquire leaves it to others to pump
  /\ ~pumping
  /\ doing[w] = "waiting"
  /\ awaited[w] \in Ended
  /\ doing' = [doing EXCEPT ![w] = "resuming"]
  /\ Ask([job |-> Slot(w), resume |-> TRUE, for |-> w])
  /\ UNCHANGED <<pumping, receipt, held, activeSlots, activeKeys, pumpDue, awaited, waits, slotOf>>

WakeInPlace(w) ==  \* mutant: goes on without a slot
  /\ ~pumping
  /\ doing[w] = "waiting"
  /\ awaited[w] \in Ended
  /\ doing' = [doing EXCEPT ![w] = "working"]
  /\ UNCHANGED <<ready, pumping, receipt, held, activeSlots, activeKeys, pumpDue, awaited, waits, slotOf>>

(* The finally of yieldWhileWaiting: reacquire, then whatever comes next.  *)
Wake(w) ==
  /\ ~pumping
  /\ doing[w] = "waiting"
  /\ awaited[w] \in Ended
  /\ IF Slot(w) = NoJob
     THEN /\ doing' = [doing EXCEPT ![w] = "working"]
          /\ UNCHANGED <<ready, pumping>>
     ELSE /\ doing' = [doing EXCEPT ![w] = "resuming"]
          /\ Ask([job |-> Slot(w), resume |-> TRUE, for |-> w])
          /\ pumping' = TRUE
  /\ UNCHANGED <<receipt, held, activeSlots, activeKeys, pumpDue, awaited, waits, slotOf>>

(* The finally of run, for work that completed or threw.                   *)
Finish(j) ==
  /\ ~pumping
  /\ doing[j] = "working"
  /\ doing' = [doing EXCEPT ![j] = "over"]
  /\ receipt' = [receipt EXCEPT ![j] = "ended"]
  /\ activeKeys' = activeKeys \ KeySet(j)
  /\ Release(j)
  /\ UNCHANGED <<ready, pumpDue, awaited, waits, slotOf>>

(* A running job enqueues work on another queue, whose pump (a microtask)  *)
(* runs in the context of this job, and so does the work; a request of a   *)
(* user carries no context.                                                *)
SetOff(g, j) ==
  /\ ~pumping
  /\ doing[g] = "none" /\ (j \in Job => doing[j] = "working")
  /\ doing' = [doing EXCEPT ![g] = "working"]
  /\ slotOf' = [slotOf EXCEPT ![g] = j]
  /\ UNCHANGED <<ready, receipt, held, activeSlots, activeKeys, pumping, pumpDue, awaited, waits>>

GuestEnds(g) ==
  /\ ~pumping
  /\ doing[g] = "working"
  /\ doing' = [doing EXCEPT ![g] = "over"]
  /\ UNCHANGED <<ready, receipt, held, activeSlots, activeKeys, pumping, pumpDue, awaited, waits, slotOf>>

WorkOn(w) ==
  \/ \E x \in Work \cup {Outside} : Wait(w, x)
  \/ w \in Job /\ Finish(w)
  \/ w \in Guest /\ GuestEnds(w)

QueueNext ==
  \/ \E j \in Job : Enqueue(j)
  \/ Microtask
  \/ Start
  \/ PumpEnds
  \/ \E w \in Work : WorkOn(w) \/ Wake(w)
  \/ \E g \in Guest, j \in Job \cup {NoJob} : SetOff(g, j)

(* The queue does not stop while pump, a microtask or a job can go on: work*)
(* ends, and waits end (a task wait has a deadline of at most an hour).    *)
(* Nobody has to enqueue anything.                                         *)
QueueProgress == Microtask \/ Start \/ PumpEnds \/ \E w \in Work : WorkOn(w) \/ Wake(w)

QueueFairness == WF_queueVars(QueueProgress)

QueueSpec == QueueInit /\ [][QueueNext]_queueVars /\ QueueFairness

-----------------------------------------------------------------------------
(* The slot of a job that a guest has given back, or taken, on its behalf. *)
Lent(j) == \E g \in Guest : slotOf[g] = j /\ waits[g] > 0

(* The count of busy slots is within the limit and covers the jobs that    *)
(* hold one.  Those are exactly the jobs at work, and the count is exact:  *)
(* no slot is held by a job that waits, that ended, or twice by the same.  *)
(* The exception are the jobs in whose slot a guest has waited.            *)
SlotsAreOwned ==
  LET holders == {j \in Job : held[j]} IN
  /\ Cardinality(holders) <= activeSlots /\ activeSlots <= Concurrency
  /\ \A j \in Job : Lent(j) \/ (held[j] <=> doing[j] = "working")
  /\ (\E j \in Job : Lent(j)) \/ activeSlots = Cardinality(holders)

UnderWay(j) == doing[j] \in {"working", "waiting", "resuming"}

(* "without admitting another job for the same task": of two jobs with the *)
(* same key one is not under way, also while the other has given its slot  *)
(* back, or a guest has on its behalf.  The key is taken exactly as long,  *)
(* unless a guest goes on in the slot of a job that ended.                 *)
OneJobPerKey ==
  /\ \A i, j \in Job : UnderWay(i) /\ UnderWay(j) /\ KeyOf[i] = KeyOf[j] /\ KeyOf[i] # 0 => i = j
  /\ UNION {KeySet(j) : j \in {i \in Job : UnderWay(i)}} \subseteq activeKeys
  /\ activeKeys \subseteq UNION {KeySet(j) : j \in {i \in Job : UnderWay(i) \/ Lent(i)}}

(* A job that ends without the slot that a guest gave back frees its key   *)
(* and calls no pump.                                                      *)
FreedUnseen(k) == \E j \in Job : Lent(j) /\ doing[j] = "over" /\ KeyOf[j] = k /\ k # 0

(* Whenever the queue is at rest it is busy to its limit or nothing can    *)
(* start: no release, end or arrival is missed by the pump, except the end *)
(* of a job whose slot a guest gave back.                                  *)
NothingOverlooked ==
  ~pumping /\ ~pumpDue /\ activeSlots < Concurrency =>
    \A i \in 1..Len(ready) : Eligible(ready[i]) => FreedUnseen(KeyOf[ready[i].job])

(* "A waiting task must release capacity for its dependency".              *)
WaitingHoldsNothing == \A j \in Job : doing[j] = "waiting" => ~held[j]

(* Every job that was accepted ends, also when all slots are taken by jobs *)
(* that wait for it, unless a guest has waited in the slot of one.         *)
EveryJobEnds ==
  (\E j \in Job : receipt[j] = "queued")
    ~> (\E j \in Job : Lent(j)) \/ (\A j \in Job : receipt[j] \in {"new", "ended"})
=============================================================================
