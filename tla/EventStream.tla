---------------------------- MODULE EventStream ----------------------------
(***************************************************************************)
(* The live event stream of one client: events are stored one after the    *)
(* other and broadcast after they are stored; a connection first reads     *)
(* what it missed from the table, then what was broadcast meanwhile, then  *)
(* goes live; a slow socket makes it queue; a dropped connection is opened *)
(* again after the last event applied.                                     *)
(*                                                                         *)
(* The client drops every event that is not beyond the last one applied,   *)
(* so an event that arrives late is lost for good.                         *)
(***************************************************************************)
EXTENDS Naturals, Sequences

CONSTANTS MaxStored,  \* events that are stored; they are named by their sequence
          PageSize,   \* EVENT_CATCHUP_PAGE_SIZE
          MaxQueued,  \* MAX_PENDING_SUBSCRIBER_EVENTS
          MaxDrops    \* broken connections and server restarts

ASSUME StreamAssumption == MaxStored \in Nat /\ PageSize \in Nat \ {0} /\ MaxQueued \in Nat /\ MaxDrops \in Nat

VARIABLES stored,   \* events in the table
          told,     \* events that were broadcast
          broken,   \* a write failed: the queue takes no more
          phase,    \* where openEventSubscriber is; "closed": the response is destroyed
          cursor,   \* its cursor
          unwritten,    \* events of the page, or taken from pending, still to write
          more,     \* the page was full
          full,     \* backpressured
          pending,  \* subscriber.pending
          wire,     \* what was written and has not arrived
          last,     \* lastAppliedSequence of the client
          applied,  \* the events it has applied
          drops

streamVars == <<stored, told, broken, phase, cursor, unwritten, more, full, pending, wire, last, applied, drops>>
subscriber == <<phase, cursor, unwritten, more, full, pending, wire>>

Seqs == 1..MaxStored

(* Everything is of the kind the code declares.                            *)
StreamTypeOK ==
  /\ stored \in 0..MaxStored /\ told \in 0..stored
  /\ broken \in BOOLEAN /\ more \in BOOLEAN /\ full \in BOOLEAN
  /\ phase \in {"unopened", "closed", "reading", "page", "queue", "live"}
  /\ cursor \in 0..MaxStored /\ last \in 0..MaxStored
  /\ unwritten \subseteq Seqs /\ pending \in Seq(Seqs) /\ wire \in Seq(Seqs)
  /\ Len(pending) <= MaxQueued
  /\ applied \subseteq Seqs
  /\ drops \in 0..MaxDrops

StreamInit ==
  /\ stored = 0 /\ told = 0 /\ broken = FALSE
  /\ phase = "unopened" /\ cursor = 0 /\ unwritten = {} /\ more = FALSE
  /\ full = FALSE /\ pending = <<>> /\ wire = <<>>
  /\ last = 0 /\ applied = {} /\ drops = 0

-----------------------------------------------------------------------------
(* The response is destroyed, and what was not yet read of it is gone.     *)
Disconnect ==
  /\ phase' = "closed" /\ unwritten' = {} /\ pending' = <<>> /\ wire' = <<>>
  /\ full' = FALSE /\ more' = FALSE
  /\ UNCHANGED cursor

QueueAnyway(e) ==  \* mutant: a subscriber may lag as far as it likes
  pending' = Append(pending, e) /\ UNCHANGED <<phase, cursor, unwritten, more, full, wire>>

(* pending.push; a subscriber that lags too far is disconnected.           *)
Queue(e) ==
  IF Len(pending) < MaxQueued
  THEN pending' = Append(pending, e) /\ UNCHANGED <<phase, cursor, unwritten, more, full, wire>>
  ELSE Disconnect

(* response.write: the socket takes the event, and may ask for a pause.    *)
WriteOut(es) ==
  /\ wire' = wire \o es
  /\ full' \in BOOLEAN

(* An event reaches the table.  writes.append runs one write at a time,    *)
(* from the append to the end of the broadcast.                            *)
Persist ==
  /\ ~broken /\ told = stored /\ stored < MaxStored
  /\ stored' = stored + 1
  /\ UNCHANGED <<told, broken, subscriber, last, applied, drops>>

(* The append rejects, before or after the event is in the table, or a     *)
(* listener throws: every later write fails as well.                       *)
PersistFails ==
  /\ ~broken
  /\ broken' = TRUE
  /\ UNCHANGED <<stored, told, subscriber, last, applied, drops>>

Broadcast ==
  /\ ~broken /\ told < stored
  /\ told' = stored
  /\ CASE phase \in {"unopened", "closed"} -> UNCHANGED subscriber
       [] phase = "live" /\ ~full -> WriteOut(<<stored>>) /\ UNCHANGED <<phase, cursor, unwritten, more, pending>>
       [] OTHER                   -> Queue(stored)
  /\ UNCHANGED <<stored, broken, last, applied, drops>>

-----------------------------------------------------------------------------
(* The client starts after the window of events of its bootstrap.          *)
OpenStream ==
  /\ phase = "unopened"
  /\ phase' = "closed"
  /\ last' = stored /\ applied' = 1..stored
  /\ UNCHANGED <<stored, told, broken, cursor, unwritten, more, full, pending, wire, drops>>

(* The client asks for what follows the last event it applied.  (It has    *)
(* read the old response to its end by then.)                              *)
Connect ==
  /\ phase = "closed"
  /\ phase' = "reading"
  /\ cursor' = last
  /\ unwritten' = {} /\ more' = FALSE /\ full' = FALSE /\ pending' = <<>> /\ wire' = <<>>
  /\ UNCHANGED <<stored, told, broken, last, applied, drops>>

Least(m, n) == IF m < n THEN m ELSE n

ReadPage ==
  /\ phase = "reading"
  /\ phase' = "page"
  /\ LET n == Least(PageSize, stored - cursor) IN
     /\ unwritten' = (cursor + 1)..(cursor + n)
     /\ more' = (n = PageSize)
  /\ UNCHANGED <<stored, told, broken, cursor, full, pending, wire, last, applied, drops>>

(* One entry, in the order of their sequences, and the wait for the socket *)
(* to drain.                                                               *)
WriteEntry ==
  /\ phase \in {"page", "queue"} /\ ~full
  /\ \E e \in unwritten :
       /\ \A f \in unwritten : e <= f
       /\ WriteOut(<<e>>)
       /\ unwritten' = unwritten \ {e}
       /\ cursor' = IF e > cursor THEN e ELSE cursor
  /\ UNCHANGED <<stored, told, broken, phase, more, pending, last, applied, drops>>

NextPage ==
  /\ phase = "page" /\ ~full /\ unwritten = {} /\ more
  /\ phase' = "reading"
  /\ UNCHANGED <<stored, told, broken, cursor, unwritten, more, full, pending, wire, last, applied, drops>>

IsNews(e) == e > cursor

GoLive ==  \* mutant: what was broadcast during the last page is forgotten
  /\ phase \in {"page", "queue"} /\ ~full /\ unwritten = {} /\ ~(phase = "page" /\ more)
  /\ phase' = "live" /\ pending' = <<>> /\ more' = FALSE
  /\ UNCHANGED <<stored, told, broken, cursor, unwritten, full, wire, last, applied, drops>>

(* What was broadcast meanwhile and is not in the pages, sorted, until     *)
(* there is nothing; then, without an await, ready.                        *)
TakePending ==
  /\ phase \in {"page", "queue"} /\ ~full /\ unwritten = {} /\ ~(phase = "page" /\ more)
  /\ unwritten' = {pending[i] : i \in {j \in 1..Len(pending) : IsNews(pending[j])}}
  /\ pending' = <<>>
  /\ phase' = IF unwritten' = {} THEN "live" ELSE "queue"
  /\ more' = FALSE
  /\ UNCHANGED <<stored, told, broken, cursor, full, wire, last, applied, drops>>

DrainOnly ==  \* mutant: onDrain does not flush the queue
  /\ full
  /\ full' = FALSE
  /\ UNCHANGED <<stored, told, broken, phase, cursor, unwritten, more, pending, wire, last, applied, drops>>

(* onDrain: a live subscriber gets its queue, until the socket is full.    *)
Drain ==
  /\ full
  /\ IF phase = "live"
     THEN \E n \in 0..Len(pending) :
            /\ pending # <<>> => n > 0
            /\ wire' = wire \o SubSeq(pending, 1, n)
            /\ pending' = SubSeq(pending, n + 1, Len(pending))
            /\ full' \in IF n = 0 THEN {FALSE} ELSE IF n < Len(pending) THEN {TRUE} ELSE BOOLEAN
     ELSE full' = FALSE /\ UNCHANGED <<wire, pending>>
  /\ UNCHANGED <<stored, told, broken, phase, cursor, unwritten, more, last, applied, drops>>

(* An event arrives, is applied if it is beyond the last one.              *)
Receive ==
  /\ wire # <<>>
  /\ wire' = Tail(wire)
  /\ IF Head(wire) > last
     THEN last' = Head(wire) /\ applied' = applied \cup {Head(wire)}
     ELSE UNCHANGED <<last, applied>>
  /\ UNCHANGED <<stored, told, broken, phase, cursor, unwritten, more, full, pending, drops>>

Drop ==
  /\ drops < MaxDrops /\ phase \notin {"unopened", "closed"}
  /\ drops' = drops + 1
  /\ Disconnect
  /\ UNCHANGED <<stored, told, broken, last, applied>>

(* The process dies; what it stored stays, told or not.                    *)
StreamRestart ==
  /\ drops < MaxDrops /\ phase # "unopened"
  /\ drops' = drops + 1
  /\ told' = stored /\ broken' = FALSE
  /\ Disconnect
  /\ UNCHANGED <<stored, last, applied>>

Catchup == ReadPage \/ WriteEntry \/ NextPage \/ TakePending

StreamNext ==
  \/ Persist \/ PersistFails \/ Broadcast
  \/ OpenStream \/ Connect \/ Catchup \/ Drain \/ Receive
  \/ Drop \/ StreamRestart

(* The server goes on, the client reads and reconnects.  Nobody has to     *)
(* store an event.                                                         *)
StreamProgress == Broadcast \/ Connect \/ Catchup \/ Drain \/ Receive

StreamFairness == WF_streamVars(StreamProgress)

StreamSpec == StreamInit /\ [][StreamNext]_streamVars /\ StreamFairness

-----------------------------------------------------------------------------
(* The client has applied all events up to its last one: none is skipped,  *)
(* at the seam of two pages, of the pages and the queue, of the queue and  *)
(* the live stream, or of two connections.                                 *)
AppliedWithoutGap == applied = 1..last

(* Every stored event arrives at a client that was opened, however slow it *)
(* is and after at most MaxDrops broken connections; except one whose      *)
(* write failed after it was stored, which waits for the next connection.  *)
EveryEventArrives ==
  last < stored /\ phase # "unopened" ~> last = stored \/ (broken /\ last = told)
=============================================================================
