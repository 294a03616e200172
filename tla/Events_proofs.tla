--------------------------- MODULE Events_proofs ---------------------------
(***************************************************************************)
(* What TLAPS proves about events: that a client applies them without a    *)
(* gap, for pages and queues of any size and any number of broken          *)
(* connections; and that none is stored twice or before what it follows,   *)
(* for any number of turns, of streams of a turn and of buffers, and any   *)
(* bound on the writes under way.                                          *)
(***************************************************************************)
EXTENDS EventWrites, EventStream, SequenceTheorems, TLAPS

(***************************************************************************)
(* The live stream.  What one connection has been given is what is on the  *)
(* wire and what the client has applied.                                   *)
(***************************************************************************)
StreamClosed == phase \in {"unopened", "closed"}
Sent(e) == e <= last \/ \E i \in 1..Len(wire) : wire[i] = e

(* Nothing on the wire is ahead of what it follows.                        *)
WireInOrder == \A i \in 1..Len(wire) : wire[i] <= last + 1 \/ \E j \in 1..(i - 1) : wire[j] = wire[i] - 1

(* What is pending is the last that was told, ...                          *)
PendingIsLatest == Len(pending) <= told /\ \A k \in 1..Len(pending) : pending[k] = told - Len(pending) + k
ToldBefore == 1..(told - Len(pending))

(* ... what was told before is in the pages, once the last one is read; a  *)
(* subscriber that is ready has been sent it.                              *)
CatchesUp == ~StreamClosed => \A e \in 1..cursor : Sent(e)
UnwrittenFollows == \A e \in unwritten : e > cursor /\ (e - 1 = cursor \/ e - 1 \in unwritten)
NoneLeftOut ==
  /\ phase = "queue" \/ (phase = "page" /\ ~more) => \A e \in ToldBefore : e <= cursor \/ e \in unwritten
  /\ phase = "live" => (\A e \in ToldBefore : Sent(e)) /\ (~full => pending = <<>>)

(* Nobody is ahead of the table, and it is one event ahead of the rest.    *)
InTable ==
  /\ stored <= told + 1 /\ last <= stored /\ cursor <= stored
  /\ unwritten \subseteq 1..stored /\ \A i \in 1..Len(wire) : wire[i] <= stored

NothingLeft == StreamClosed => wire = <<>> /\ pending = <<>> /\ unwritten = {}

StreamInv ==
  /\ StreamTypeOK /\ WireInOrder /\ PendingIsLatest /\ CatchesUp /\ UnwrittenFollows
  /\ NoneLeftOut /\ InTable /\ NothingLeft /\ AppliedWithoutGap

LEMMA StreamFacts ==
  ASSUME StreamInv
  PROVE  /\ stored \in Nat /\ told \in Nat /\ last \in Nat /\ cursor \in Nat
         /\ wire \in Seq(Seqs) /\ pending \in Seq(Seqs) /\ Len(wire) \in Nat /\ Len(pending) \in Nat
         /\ \A i \in 1..Len(wire) : wire[i] \in Nat \ {0}
         /\ \A i \in 1..Len(pending) : pending[i] \in Nat \ {0}
         /\ \A e \in unwritten : e \in Nat \ {0}
  BY StreamAssumption DEF StreamInv, StreamTypeOK, Seqs

LEMMA StreamNats ==
  ASSUME StreamInv
  PROVE  /\ stored \in Nat /\ told \in Nat /\ last \in Nat /\ cursor \in Nat
         /\ Len(wire) \in Nat /\ Len(pending) \in Nat
  BY StreamFacts

(* What follows what was sent can be written.                              *)
GoesOn(es) == \A k \in 1..Len(es) : Sent(es[k] - 1) \/ (k > 1 /\ es[k - 1] = es[k] - 1)
Written(es) ==
  /\ wire' \in Seq(Seqs) /\ WireInOrder'
  /\ \A e \in Nat : Sent(e) => Sent(e)'
  /\ \A k \in 1..Len(es) : Sent(es[k])'
  /\ \A i \in 1..Len(wire') : (i \in 1..Len(wire) /\ wire'[i] = wire[i]) \/ \E k \in 1..Len(es) : wire'[i] = es[k]

LEMMA WritingInOrder ==
  ASSUME StreamInv, NEW es \in Seq(Seqs), wire' = wire \o es, last' = last, GoesOn(es)
  PROVE  Written(es)
  <1>1. /\ wire' \in Seq(Seqs) /\ Len(wire') = Len(wire) + Len(es) /\ Len(es) \in Nat /\ Len(wire) \in Nat
        /\ \A i \in 1..Len(wire) : wire'[i] = wire[i]
        /\ \A k \in 1..Len(es) : wire'[Len(wire) + k] = es[k]
    BY StreamFacts, ConcatProperties
  <1>2. \A k \in 1..Len(es) : es[k] \in Nat \ {0} /\ Len(wire) + k \in 1..Len(wire')
    BY <1>1, StreamAssumption DEF Seqs
  <1>3. \A e \in Nat : Sent(e) => Sent(e)'
    BY <1>1 DEF Sent
  <1>4. \A k \in 1..Len(es) : Sent(es[k])'
    BY <1>1, <1>2 DEF Sent
  <1>5. \A i \in 1..Len(wire') : i \in 1..Len(wire) \/ \E k \in 1..Len(es) : i = Len(wire) + k
    <2> TAKE i \in 1..Len(wire')
    <2>1. i > Len(wire) => i - Len(wire) \in 1..Len(es) /\ i = Len(wire) + (i - Len(wire))
      BY <1>1
    <2> QED BY <2>1, <1>1
  <1>6. WireInOrder'
    <2> SUFFICES ASSUME NEW i \in 1..Len(wire')
                 PROVE  wire'[i] <= last + 1 \/ \E j \in 1..(i - 1) : wire'[j] = wire'[i] - 1
      BY DEF WireInOrder
    <2>1. CASE i \in 1..Len(wire)
      <3>1. wire[i] <= last + 1 \/ \E j \in 1..(i - 1) : wire[j] = wire[i] - 1
        BY <2>1 DEF StreamInv, WireInOrder
      <3>2. \A j \in 1..(i - 1) : j \in 1..Len(wire)
        BY <2>1, <1>1
      <3> QED BY <3>1, <3>2, <2>1, <1>1
    <2>2. CASE \E k \in 1..Len(es) : i = Len(wire) + k
      <3>1. PICK k \in 1..Len(es) : i = Len(wire) + k
        BY <2>2
      <3>2. CASE es[k] - 1 <= last
        <4>1. wire'[i] = es[k] /\ es[k] \in Nat
          BY <3>1, <1>1, <1>2
        <4> QED BY <4>1, <3>2, StreamNats
      <3>3. CASE \E j \in 1..Len(wire) : wire[j] = es[k] - 1
        BY <3>1, <3>3, <1>1
      <3>4. CASE k > 1 /\ es[k - 1] = es[k] - 1
        <4>1. k - 1 \in 1..Len(es) /\ Len(wire) + (k - 1) \in 1..(i - 1)
          BY <3>1, <3>4, <1>1
        <4> QED BY <4>1, <3>1, <3>4, <1>1
      <3> QED BY <3>2, <3>3, <3>4 DEF GoesOn, Sent
    <2> QED BY <1>5, <2>1, <2>2
  <1>7. \A i \in 1..Len(wire') : (i \in 1..Len(wire) /\ wire'[i] = wire[i]) \/ \E k \in 1..Len(es) : wire'[i] = es[k]
    BY <1>1, <1>5
  <1> QED BY <1>1, <1>3, <1>4, <1>6, <1>7 DEF Written

LEMMA StreamInitial == StreamInit => StreamInv
  <1> SUFFICES ASSUME StreamInit PROVE StreamInv
    OBVIOUS
  <1>1. StreamTypeOK
    <2>1. stored \in 0..MaxStored /\ told \in 0..stored /\ cursor \in 0..MaxStored /\ last \in 0..MaxStored
          /\ drops \in 0..MaxDrops /\ Len(pending) <= MaxQueued
      BY StreamAssumption DEF StreamInit
    <2>2. broken \in BOOLEAN /\ more \in BOOLEAN /\ full \in BOOLEAN
      BY DEF StreamInit
    <2>3. unwritten \subseteq Seqs /\ applied \subseteq Seqs /\ pending \in Seq(Seqs) /\ wire \in Seq(Seqs)
      BY DEF StreamInit
    <2> QED BY <2>1, <2>2, <2>3 DEF StreamInit, StreamTypeOK
  <1> QED BY <1>1 DEF StreamInit, StreamInv, WireInOrder, PendingIsLatest, CatchesUp, StreamClosed, UnwrittenFollows,
                      NoneLeftOut, InTable, NothingLeft, AppliedWithoutGap

(* A response that is destroyed leaves nothing behind.                     *)
LEMMA Disconnected ==
  ASSUME StreamInv, Disconnect, NEW d \in 0..MaxDrops, drops' = d,
         stored' = stored, told' \in told..stored, last' = last, applied' = applied, broken' \in BOOLEAN
  PROVE  StreamInv'
  <1> USE DEF Disconnect
  <1>1. StreamTypeOK'
    <2>1. stored' \in 0..MaxStored /\ told' \in 0..stored' /\ drops' \in 0..MaxDrops /\ Len(pending') <= MaxQueued
      BY StreamAssumption DEF StreamInv, StreamTypeOK
    <2>2. phase' = "closed" /\ more' \in BOOLEAN /\ full' \in BOOLEAN
      OBVIOUS
    <2>3. unwritten' \subseteq Seqs /\ pending' \in Seq(Seqs) /\ wire' \in Seq(Seqs)
      OBVIOUS
    <2> QED BY <2>1, <2>2, <2>3 DEF StreamInv, StreamTypeOK, Seqs
  <1>2. told' \in Nat /\ told <= told' /\ told' <= stored
    BY StreamFacts
  <1> QED BY <1>1, <1>2, StreamFacts DEF StreamInv, WireInOrder, PendingIsLatest, CatchesUp, StreamClosed, UnwrittenFollows,
                                     NoneLeftOut, InTable, NothingLeft, AppliedWithoutGap

LEMMA PersistKeeps ==
  ASSUME StreamInv, Persist
  PROVE  StreamInv'
  <1>1. StreamTypeOK'
    BY StreamFacts, StreamAssumption DEF StreamInv, StreamTypeOK, Seqs, Persist, subscriber
  <1> QED BY <1>1, StreamFacts DEF Persist, subscriber, StreamInv, WireInOrder, PendingIsLatest, CatchesUp, StreamClosed, Sent,
                                   UnwrittenFollows, NoneLeftOut, ToldBefore, InTable, NothingLeft, AppliedWithoutGap

LEMMA PersistFailsKeeps ==
  ASSUME StreamInv, PersistFails
  PROVE  StreamInv'
  <1>1. StreamTypeOK'
    BY StreamFacts, StreamAssumption DEF StreamInv, StreamTypeOK, Seqs, PersistFails, subscriber
  <1> QED BY <1>1, StreamFacts DEF PersistFails, subscriber, StreamInv, WireInOrder, PendingIsLatest, CatchesUp, StreamClosed, Sent,
                                   UnwrittenFollows, NoneLeftOut, ToldBefore, InTable, NothingLeft, AppliedWithoutGap

LEMMA OpenStreamKeeps ==
  ASSUME StreamInv, OpenStream
  PROVE  StreamInv'
  <1>1. StreamTypeOK'
    BY StreamFacts, StreamAssumption DEF StreamInv, StreamTypeOK, Seqs, OpenStream, subscriber
  <1> QED BY <1>1, StreamFacts DEF OpenStream, subscriber, StreamInv, WireInOrder, PendingIsLatest, CatchesUp, StreamClosed, Sent,
                                   UnwrittenFollows, NoneLeftOut, ToldBefore, InTable, NothingLeft, AppliedWithoutGap

LEMMA ConnectKeeps ==
  ASSUME StreamInv, Connect
  PROVE  StreamInv'
  <1>1. StreamTypeOK'
    <2>1. unwritten' \subseteq Seqs /\ pending' \in Seq(Seqs) /\ wire' \in Seq(Seqs) /\ Len(pending') <= MaxQueued
      BY StreamAssumption DEF Connect
    <2>2. more' \in BOOLEAN /\ full' \in BOOLEAN /\ phase' = "reading"
      BY DEF Connect
    <2> QED BY <2>1, <2>2 DEF Connect, StreamInv, StreamTypeOK, Seqs
  <1> QED BY <1>1, StreamFacts DEF Connect, subscriber, StreamInv, WireInOrder, PendingIsLatest, CatchesUp, StreamClosed, Sent,
                                   UnwrittenFollows, NoneLeftOut, ToldBefore, InTable, NothingLeft, AppliedWithoutGap

LEMMA NextPageKeeps ==
  ASSUME StreamInv, NextPage
  PROVE  StreamInv'
  <1>1. StreamTypeOK'
    BY StreamFacts, StreamAssumption DEF StreamInv, StreamTypeOK, Seqs, NextPage, subscriber
  <1> QED BY <1>1, StreamFacts DEF NextPage, subscriber, StreamInv, WireInOrder, PendingIsLatest, CatchesUp, StreamClosed, Sent,
                                   UnwrittenFollows, NoneLeftOut, ToldBefore, InTable, NothingLeft, AppliedWithoutGap

LEMMA DropKeeps ==
  ASSUME StreamInv, Drop
  PROVE  StreamInv'
  BY Disconnected, StreamFacts, StreamAssumption DEF Drop, StreamInv, StreamTypeOK

LEMMA StreamRestartKeeps ==
  ASSUME StreamInv, StreamRestart
  PROVE  StreamInv'
  <1>1. drops + 1 \in 0..MaxDrops /\ stored \in told..stored
    BY StreamFacts, StreamAssumption DEF StreamRestart, StreamInv, StreamTypeOK
  <1>2. drops' = drops + 1 /\ told' = stored /\ broken' = FALSE
    BY DEF StreamRestart
  <1> QED BY <1>1, <1>2, Disconnected DEF StreamRestart

LEMMA ReadPageKeeps ==
  ASSUME StreamInv, ReadPage
  PROVE  StreamInv'
  <1> DEFINE n == Least(PageSize, stored - cursor)
  <1>1. n \in Nat /\ cursor + n <= stored /\ (n # PageSize => cursor + n = stored)
    BY StreamFacts, StreamAssumption DEF StreamInv, InTable, Least
  <1>2. unwritten' = (cursor + 1)..(cursor + n) /\ more' = (n = PageSize) /\ phase = "reading" /\ phase' = "page"
    BY DEF ReadPage
  <1>3. UNCHANGED <<stored, told, broken, cursor, full, pending, wire, last, applied, drops>>
    BY DEF ReadPage
  <1> HIDE DEF n
  <1>4. /\ \A e \in unwritten' : e \in Nat /\ e > cursor /\ e <= cursor + n
        /\ \A e \in Nat : e > cursor /\ e <= cursor + n => e \in unwritten'
    BY <1>1, <1>2, StreamFacts
  <1>5. StreamTypeOK'
    <2>1. more' \in BOOLEAN
      BY <1>2
    <2>2. unwritten' \subseteq Seqs
      BY <1>1, <1>4, StreamFacts, StreamAssumption DEF StreamInv, StreamTypeOK, Seqs
    <2> QED BY <2>1, <2>2, <1>2, <1>3 DEF StreamInv, StreamTypeOK, Seqs
  <1>6. UnwrittenFollows'
    <2> SUFFICES ASSUME NEW e \in unwritten' PROVE e > cursor /\ (e - 1 = cursor \/ e - 1 \in unwritten')
      BY <1>3 DEF UnwrittenFollows
    <2>1. e \in Nat /\ e > cursor /\ e <= cursor + n /\ cursor \in Nat
      BY <1>4, StreamFacts
    <2>2. e - 1 = cursor \/ (e - 1 \in Nat /\ e - 1 > cursor /\ e - 1 <= cursor + n)
      BY <2>1, <1>1
    <2> QED BY <2>1, <2>2, <1>4
  <1>7. NoneLeftOut'
    <2> SUFFICES ASSUME ~more', NEW e \in ToldBefore PROVE e <= cursor \/ e \in unwritten'
      BY <1>2, <1>3 DEF NoneLeftOut, ToldBefore
    <2>1. e \in Nat /\ e <= stored
      BY StreamFacts DEF StreamInv, StreamTypeOK, ToldBefore
    <2>2. n # PageSize
      BY <1>2
    <2>3. e <= cursor + n
      BY <2>1, <2>2, <1>1
    <2>4. e > cursor => e \in unwritten'
      BY <2>1, <2>3, <1>4
    <2> QED BY <2>1, <2>4, StreamFacts
  <1>8. InTable'
    BY <1>1, <1>3, <1>4, StreamFacts DEF StreamInv, InTable
  <1> QED BY <1>2, <1>3, <1>5, <1>6, <1>7, <1>8
          DEF StreamInv, WireInOrder, PendingIsLatest, CatchesUp, StreamClosed, Sent, NothingLeft, AppliedWithoutGap

LEMMA WriteEntryKeeps ==
  ASSUME StreamInv, WriteEntry
  PROVE  StreamInv'
  <1>1. PICK e \in unwritten : (\A f \in unwritten : e <= f) /\ WriteOut(<<e>>) /\ unwritten' = unwritten \ {e}
                              /\ cursor' = IF e > cursor THEN e ELSE cursor
    BY DEF WriteEntry
  <1>2. UNCHANGED <<stored, told, broken, phase, more, pending, last, applied, drops>> /\ phase \in {"page", "queue"}
    BY DEF WriteEntry
  <1>3. e \in Seqs /\ e \in 1..stored /\ \A f \in unwritten : f \in Nat
    BY StreamFacts DEF StreamInv, StreamTypeOK, InTable
  <1>4. e = cursor + 1 /\ cursor' = e
    BY <1>1, <1>3, StreamFacts DEF StreamInv, UnwrittenFollows
  <1>5. Sent(cursor)
    BY <1>2, StreamFacts DEF StreamInv, CatchesUp, StreamClosed, Sent
  <1>6. /\ wire' \in Seq(Seqs) /\ WireInOrder' /\ Sent(e)'
        /\ \A f \in Nat : Sent(f) => Sent(f)'
        /\ \A i \in 1..Len(wire') : (i \in 1..Len(wire) /\ wire'[i] = wire[i]) \/ wire'[i] = e
    <2> DEFINE es == <<e>>
    <2>1. es \in Seq(Seqs) /\ Len(es) = 1 /\ es[1] = e /\ wire' = wire \o es /\ last' = last
      BY <1>1, <1>2, <1>3 DEF WriteOut
    <2> HIDE DEF es
    <2>2. \A k \in 1..Len(es) : k = 1 /\ Sent(es[k] - 1)
      <3>1. e - 1 = cursor
        BY <1>4, StreamFacts
      <3> QED BY <3>1, <2>1, <1>5
    <2>3. Written(es)
      BY <2>1, <2>2, WritingInOrder DEF GoesOn
    <2>4. 1 \in 1..Len(es) /\ \A k \in 1..Len(es) : es[k] = e
      BY <2>1
    <2>5. Sent(e)'
      BY <2>1, <2>3, <2>4 DEF Written
    <2> QED BY <2>3, <2>4, <2>5 DEF Written
  <1>7. StreamTypeOK'
    <2>1. full' \in BOOLEAN /\ unwritten' \subseteq Seqs /\ cursor' \in 0..MaxStored
      BY <1>1, <1>3, <1>4, StreamAssumption DEF WriteOut, StreamInv, StreamTypeOK, Seqs
    <2> QED BY <2>1, <1>2, <1>6 DEF StreamInv, StreamTypeOK, Seqs
  <1>8. CatchesUp'
    <2>1. \A f \in 1..cursor' : f = e \/ f \in 1..cursor
      BY <1>4, StreamFacts
    <2> QED BY <2>1, <1>2, <1>6 DEF StreamInv, CatchesUp, StreamClosed
  <1>9. UnwrittenFollows'
    BY <1>1, <1>3, <1>4, StreamFacts DEF StreamInv, UnwrittenFollows
  <1>10. NoneLeftOut' /\ PendingIsLatest'
    BY <1>1, <1>2, <1>3, <1>4, StreamFacts DEF StreamInv, NoneLeftOut, ToldBefore, PendingIsLatest
  <1>11. InTable'
    <2>1. \A i \in 1..Len(wire') : wire'[i] <= stored
      BY <1>3, <1>6 DEF StreamInv, InTable
    <2>2. unwritten' \subseteq 1..stored /\ cursor' <= stored
      <3>1. e <= stored /\ unwritten \subseteq 1..stored
        BY <1>3, StreamFacts DEF StreamInv, InTable
      <3> QED BY <3>1, <1>1, <1>4
    <2> QED BY <2>1, <2>2, <1>2 DEF StreamInv, InTable
  <1> QED BY <1>2, <1>6, <1>7, <1>8, <1>9, <1>10, <1>11 DEF StreamInv, NothingLeft, StreamClosed, AppliedWithoutGap

LEMMA TakePendingKeeps ==
  ASSUME StreamInv, TakePending
  PROVE  StreamInv'
  <1>1. /\ unwritten' = {pending[i] : i \in {j \in 1..Len(pending) : IsNews(pending[j])}}
        /\ pending' = <<>> /\ phase' = (IF unwritten' = {} THEN "live" ELSE "queue") /\ more' = FALSE
        /\ phase \in {"page", "queue"} /\ unwritten = {} /\ ~(phase = "page" /\ more)
        /\ UNCHANGED <<stored, told, broken, cursor, full, wire, last, applied, drops>>
    BY DEF TakePending
  <1>2. \A e \in unwritten' : \E i \in 1..Len(pending) : e = pending[i] /\ e > cursor
    BY <1>1 DEF IsNews
  <1>3. \A e \in ToldBefore : e <= cursor
    BY <1>1 DEF StreamInv, NoneLeftOut
  <1>4. \A i \in 1..Len(pending) : pending[i] > cursor => pending[i] \in unwritten'
    BY <1>1 DEF IsNews
  <1>5. \A e \in 1..told : e <= cursor \/ e \in unwritten'
    <2> TAKE e \in 1..told
    <2>1. CASE e \in ToldBefore
      BY <2>1, <1>3
    <2>2. CASE e \notin ToldBefore
      <3>1. e - (told - Len(pending)) \in 1..Len(pending)
        BY <2>2, StreamFacts DEF StreamInv, PendingIsLatest, ToldBefore
      <3>2. pending[e - (told - Len(pending))] = e
        BY <3>1, StreamFacts DEF StreamInv, PendingIsLatest
      <3> QED BY <3>1, <3>2, <1>4, StreamFacts
    <2> QED BY <2>1, <2>2
  <1>6. \A e \in unwritten' : e \in 1..told /\ e > cursor
    BY <1>2, StreamFacts DEF StreamInv, PendingIsLatest
  <1>7. StreamTypeOK'
    <2>1. unwritten' \subseteq Seqs
      BY <1>6, StreamFacts, StreamAssumption DEF StreamInv, StreamTypeOK, Seqs
    <2>2. more' \in BOOLEAN /\ phase' \in {"queue", "live"}
      BY <1>1
    <2>3. pending' \in Seq(Seqs) /\ Len(pending') = 0
      BY <1>1
    <2>4. Len(pending') <= MaxQueued
      BY <2>3, StreamAssumption
    <2> QED BY <2>1, <2>2, <2>3, <2>4, <1>1 DEF StreamInv, StreamTypeOK, Seqs
  <1>8. UnwrittenFollows'
    <2> SUFFICES ASSUME NEW e \in unwritten' PROVE e > cursor /\ (e - 1 = cursor \/ e - 1 \in unwritten')
      BY <1>1 DEF UnwrittenFollows
    <2>1. e - 1 = cursor \/ (e - 1 \in 1..told /\ e - 1 > cursor)
      BY <1>6, StreamNats
    <2> QED BY <2>1, <1>5, <1>6, StreamNats
  <1>9. NoneLeftOut'
    <2>1. ToldBefore' = 1..told
      BY <1>1, StreamFacts DEF ToldBefore
    <2>2. \A e \in 1..cursor : Sent(e)'
      BY <1>1 DEF StreamInv, CatchesUp, StreamClosed, Sent
    <2>3. unwritten' = {} => \A e \in 1..told : Sent(e)'
      BY <2>2, <1>5, StreamFacts
    <2> QED BY <2>1, <2>3, <1>1, <1>5 DEF NoneLeftOut
  <1>10. InTable'
    <2>1. told <= stored /\ InTable
      BY DEF StreamInv, StreamTypeOK
    <2>2. unwritten' \subseteq 1..stored
      BY <2>1, <1>6, StreamNats
    <2> QED BY <2>1, <2>2, <1>1 DEF InTable
  <1>11. PendingIsLatest'
    BY <1>1, StreamFacts DEF PendingIsLatest
  <1> QED BY <1>1, <1>7, <1>8, <1>9, <1>10, <1>11
          DEF StreamInv, WireInOrder, CatchesUp, StreamClosed, Sent, NothingLeft, AppliedWithoutGap

LEMMA BroadcastKeeps ==
  ASSUME StreamInv, Broadcast
  PROVE  StreamInv'
  <1>1. /\ told' = stored /\ stored = told + 1 /\ stored \in Seqs /\ told' \in Nat /\ told' \in 0..stored'
        /\ UNCHANGED <<stored, broken, last, applied, drops>>
    BY StreamFacts, StreamAssumption DEF Broadcast, StreamInv, StreamTypeOK, InTable, Seqs
  <1>2. CASE UNCHANGED subscriber /\ StreamClosed
    <2>1. StreamTypeOK'
      BY <1>1, <1>2 DEF subscriber, StreamInv, StreamTypeOK, Seqs
    <2> QED BY <1>1, <1>2, <2>1, StreamFacts
            DEF subscriber, StreamClosed, StreamInv, WireInOrder, PendingIsLatest, CatchesUp, Sent, UnwrittenFollows,
                NoneLeftOut, InTable, NothingLeft, AppliedWithoutGap
  <1>3. CASE /\ phase = "live" /\ ~full /\ WriteOut(<<stored>>)
             /\ UNCHANGED <<phase, cursor, unwritten, more, pending>>
    <2>0. PICK e \in Seqs : e = stored
      BY <1>1
    <2> DEFINE es == <<e>>
    <2>1. es \in Seq(Seqs) /\ Len(es) = 1 /\ es[1] = e /\ wire' = wire \o es /\ last' = last
      BY <2>0, <1>1, <1>3 DEF WriteOut
    <2> HIDE DEF es
    <2>2. pending = <<>> /\ Len(pending) = 0
      BY <1>3 DEF StreamInv, NoneLeftOut
    <2>3. Sent(told) /\ \A f \in 1..told : Sent(f)
      <3>1. ToldBefore = 1..told
        BY <2>2, StreamFacts DEF ToldBefore
      <3> QED BY <3>1, <1>3, StreamFacts DEF StreamInv, NoneLeftOut, Sent
    <2>4. e - 1 = told
      BY <2>0, <1>1, StreamFacts
    <2>5. \A k \in 1..Len(es) : k = 1 /\ Sent(es[k] - 1)
      BY <2>1, <2>3, <2>4
    <2>6. /\ wire' \in Seq(Seqs) /\ WireInOrder' /\ Sent(e)'
          /\ \A f \in Nat : Sent(f) => Sent(f)'
          /\ \A i \in 1..Len(wire') : (i \in 1..Len(wire) /\ wire'[i] = wire[i]) \/ wire'[i] = stored
      <3>1. Written(es)
        BY <2>1, <2>5, WritingInOrder DEF GoesOn
      <3>2. 1 \in 1..Len(es) /\ \A k \in 1..Len(es) : es[k] = e /\ e = stored
        BY <2>0, <2>1
      <3>3. Sent(e)'
        BY <2>1, <3>1, <3>2 DEF Written
      <3> QED BY <3>1, <3>2, <3>3 DEF Written
    <2>7. StreamTypeOK'
      <3>1. full' \in BOOLEAN
        BY <1>3 DEF WriteOut
      <3> QED BY <3>1, <1>1, <1>3, <2>6 DEF StreamInv, StreamTypeOK, Seqs
    <2>8. NoneLeftOut'
      <3>1. ToldBefore' = 1..stored
        BY <1>1, <1>3, <2>2, StreamFacts DEF ToldBefore
      <3>2. \A f \in 1..stored : f \in Nat /\ (f = e \/ f \in 1..told)
        BY <1>1, <2>0, StreamFacts
      <3>3. \A f \in 1..stored : Sent(f)'
        BY <3>2, <2>3, <2>6
      <3> QED BY <3>1, <3>3, <1>3, <2>2 DEF NoneLeftOut
    <2>9. InTable'
      <3>1. \A i \in 1..Len(wire') : wire'[i] <= stored
        BY <2>6, StreamFacts DEF StreamInv, InTable
      <3> QED BY <3>1, <1>1, <1>3, StreamFacts DEF StreamInv, InTable
    <2>10. CatchesUp'
      BY <1>1, <1>3, <2>6, StreamFacts DEF StreamInv, CatchesUp, StreamClosed
    <2>11. PendingIsLatest'
      BY <1>1, <1>3, <2>2, StreamFacts DEF PendingIsLatest
    <2> QED BY <1>1, <1>3, <2>6, <2>7, <2>8, <2>9, <2>10, <2>11
            DEF StreamInv, UnwrittenFollows, NothingLeft, StreamClosed, AppliedWithoutGap
  <1>4. CASE /\ ~StreamClosed /\ ~(phase = "live" /\ ~full) /\ Len(pending) < MaxQueued
             /\ pending' = Append(pending, stored) /\ UNCHANGED <<phase, cursor, unwritten, more, full, wire>>
    <2>1. /\ pending' \in Seq(Seqs) /\ Len(pending') = Len(pending) + 1
          /\ \A k \in 1..Len(pending) : pending'[k] = pending[k]
          /\ pending'[Len(pending) + 1] = stored
      BY <1>1, <1>4, StreamFacts, AppendProperties
    <2>2. StreamTypeOK'
      <3>1. Len(pending') <= MaxQueued
        BY <1>4, <2>1, StreamFacts, StreamAssumption
      <3> QED BY <3>1, <1>1, <1>4, <2>1 DEF StreamInv, StreamTypeOK, Seqs
    <2>3. PendingIsLatest'
      <3>1. Len(pending') <= told'
        BY <1>1, <2>1, StreamFacts DEF StreamInv, PendingIsLatest
      <3> SUFFICES ASSUME NEW k \in 1..Len(pending') PROVE pending'[k] = told' - Len(pending') + k
        BY <3>1 DEF PendingIsLatest
      <3>2. told' - Len(pending') = told - Len(pending)
        BY <1>1, <2>1, StreamFacts
      <3>3. CASE k = Len(pending) + 1
        BY <3>2, <3>3, <1>1, <2>1, StreamFacts
      <3>4. CASE k \in 1..Len(pending)
        BY <3>2, <3>4, <2>1 DEF StreamInv, PendingIsLatest
      <3> QED BY <3>3, <3>4, <2>1, StreamFacts
    <2>4. ToldBefore' = ToldBefore
      BY <1>1, <2>1, StreamFacts DEF ToldBefore
    <2>5. NoneLeftOut'
      BY <2>4, <1>1, <1>4 DEF StreamInv, NoneLeftOut, StreamClosed, Sent
    <2>6. InTable'
      BY <1>1, <1>4, StreamFacts DEF StreamInv, InTable
    <2> QED BY <1>1, <1>4, <2>2, <2>3, <2>5, <2>6
            DEF StreamInv, WireInOrder, CatchesUp, UnwrittenFollows, NothingLeft, StreamClosed, Sent, AppliedWithoutGap
  <1>5. CASE Disconnect
    <2>1. drops \in 0..MaxDrops /\ broken' \in BOOLEAN /\ told' \in told..stored
      BY <1>1, StreamFacts DEF StreamInv, StreamTypeOK
    <2> QED BY <1>1, <1>5, <2>1, Disconnected
  <1> QED BY <1>2, <1>3, <1>4, <1>5 DEF Broadcast, Queue, StreamClosed

LEMMA DrainKeeps ==
  ASSUME StreamInv, Drain
  PROVE  StreamInv'
  <1>1. full /\ UNCHANGED <<stored, told, broken, phase, cursor, unwritten, more, last, applied, drops>>
    BY DEF Drain
  <1>2. CASE phase # "live" /\ full' = FALSE /\ UNCHANGED <<wire, pending>>
    BY <1>1, <1>2 DEF StreamInv, StreamTypeOK, Seqs, WireInOrder, PendingIsLatest, CatchesUp, StreamClosed, Sent,
                      UnwrittenFollows, NoneLeftOut, ToldBefore, InTable, NothingLeft, AppliedWithoutGap
  <1>3. CASE phase = "live"
    <2>1. PICK n \in 0..Len(pending) :
            /\ pending # <<>> => n > 0
            /\ wire' = wire \o SubSeq(pending, 1, n) /\ pending' = SubSeq(pending, n + 1, Len(pending))
            /\ full' \in IF n = 0 THEN {FALSE} ELSE IF n < Len(pending) THEN {TRUE} ELSE BOOLEAN
      BY <1>3 DEF Drain
    <2>2. PICK es \in Seq(Seqs) : es = SubSeq(pending, 1, n) /\ Len(es) = n /\ \A k \in 1..n : es[k] = pending[k]
      <3>1. \A k \in 1..n : pending[k] \in Seqs
        BY StreamFacts, <2>1
      <3>2. /\ SubSeq(pending, 1, n) \in Seq(Seqs) /\ Len(SubSeq(pending, 1, n)) = n
            /\ \A k \in 1..n : SubSeq(pending, 1, n)[k] = pending[k]
        BY <2>1, <3>1, StreamFacts
      <3> QED BY <3>2
    <2>3. /\ pending' \in Seq(Seqs) /\ Len(pending') = Len(pending) - n
          /\ \A k \in 1..Len(pending') : pending'[k] = pending[n + k]
      BY <2>1, StreamFacts, SubSeqProperties
    <2>4. wire' = wire \o es
      BY <2>1, <2>2
    <2>5. Len(pending) <= told /\ \A e \in ToldBefore : Sent(e)
      BY <1>3 DEF StreamInv, PendingIsLatest, NoneLeftOut
    <2>6. \A k \in 1..n : es[k] = told - Len(pending) + k /\ es[k] \in Nat /\ es[k] <= told
      <3> TAKE k \in 1..n
      <3>1. k \in 1..Len(pending)
        BY <2>1, StreamFacts
      <3>2. es[k] = told - Len(pending) + k
        BY <3>1, <2>2 DEF StreamInv, PendingIsLatest
      <3> QED BY <3>1, <3>2, <2>5, StreamFacts
    <2>7. GoesOn(es)
      <3> SUFFICES ASSUME NEW k \in 1..Len(es) PROVE Sent(es[k] - 1) \/ (k > 1 /\ es[k - 1] = es[k] - 1)
        BY DEF GoesOn
      <3>1. CASE k = 1
        <4>1. es[k] - 1 = told - Len(pending)
          BY <3>1, <2>2, <2>6, StreamFacts
        <4>2. told - Len(pending) = 0 \/ told - Len(pending) \in ToldBefore
          BY <2>5, StreamFacts DEF ToldBefore
        <4>3. 0 <= last
          BY StreamFacts
        <4>4. Sent(0)
          BY <4>3 DEF Sent
        <4> QED BY <4>1, <4>2, <4>4, <2>5
      <3>2. CASE k > 1
        <4>1. k - 1 \in 1..n /\ k \in 1..n
          BY <3>2, <2>1, <2>2
        <4>2. es[k] = told - Len(pending) + k /\ es[k - 1] = told - Len(pending) + (k - 1)
          BY <4>1, <2>6
        <4> QED BY <3>2, <4>1, <4>2, StreamNats
      <3> QED BY <3>1, <3>2, <2>2
    <2>8. Written(es)
      <3>1. last' = last
        BY <1>1
      <3> QED BY <3>1, <2>2, <2>4, <2>7, WritingInOrder
    <2>9. full' \in BOOLEAN /\ (~full' => Len(pending') = 0 /\ pending' = <<>>)
      <3>1. full' \in BOOLEAN
        BY <2>1
      <3>2. n = 0 => Len(pending) = 0
        BY <2>1, StreamFacts, EmptySeq
      <3>3. n < Len(pending) => n = 0 \/ full' = TRUE
        BY <2>1
      <3>4. ~full' => n = Len(pending)
        BY <2>1, <3>2, <3>3, StreamFacts
      <3> QED BY <3>1, <3>4, <2>3, StreamFacts, EmptySeq
    <2>10. StreamTypeOK'
      <3>1. Len(pending') <= MaxQueued
        BY <2>1, <2>3, StreamFacts, StreamAssumption DEF StreamInv, StreamTypeOK
      <3> QED BY <3>1, <1>1, <2>3, <2>8, <2>9 DEF Written, StreamInv, StreamTypeOK, Seqs
    <2>11. PendingIsLatest'
      <3>1. Len(pending') <= told
        BY <2>1, <2>3, <2>5, StreamFacts
      <3> SUFFICES ASSUME NEW k \in 1..Len(pending') PROVE pending'[k] = told - Len(pending') + k
        BY <1>1, <3>1 DEF PendingIsLatest
      <3>2. n + k \in 1..Len(pending) /\ k \in Nat
        BY <2>1, <2>3, StreamFacts
      <3>3. pending[n + k] = told - Len(pending) + (n + k)
        BY <3>2 DEF StreamInv, PendingIsLatest
      <3> QED BY <3>2, <3>3, <2>1, <2>3, StreamFacts
    <2>12. NoneLeftOut'
      <3>1. \A e \in ToldBefore' : Sent(e)'
        <4> TAKE e \in ToldBefore'
        <4>1. CASE e \in ToldBefore
          <5>1. e \in Nat
            BY <4>1, StreamFacts DEF ToldBefore
          <5> QED BY <4>1, <5>1, <2>5, <2>8 DEF Written
        <4>2. CASE e \notin ToldBefore
          <5>1. e \in 1..(told - (Len(pending) - n)) /\ e \notin 1..(told - Len(pending))
            BY <4>2, <1>1, <2>3 DEF ToldBefore
          <5>2. e \in Int /\ e - (told - Len(pending)) \in 1..n
            BY <5>1, <2>1, <2>5, StreamNats
          <5>3. PICK k \in 1..n : k = e - (told - Len(pending))
            BY <5>2
          <5>4. es[k] = told - Len(pending) + k
            BY <2>6
          <5>5. es[k] = e
            BY <5>2, <5>3, <5>4, StreamNats
          <5> QED BY <5>5, <2>2, <2>8 DEF Written
        <4> QED BY <4>1, <4>2
      <3> QED BY <3>1, <1>1, <1>3, <2>9 DEF NoneLeftOut
    <2>13. InTable'
      <3>1. \A i \in 1..Len(wire') : wire'[i] <= stored
        <4> TAKE i \in 1..Len(wire')
        <4>1. CASE i \in 1..Len(wire) /\ wire'[i] = wire[i]
          BY <4>1 DEF StreamInv, InTable
        <4>2. CASE \E k \in 1..Len(es) : wire'[i] = es[k]
          <5>1. told <= stored
            BY StreamFacts DEF StreamInv, StreamTypeOK
          <5>2. PICK k \in 1..n : wire'[i] = es[k]
            BY <4>2, <2>2
          <5> QED BY <5>1, <5>2, <2>6, StreamNats
        <4> QED BY <4>1, <4>2, <2>8 DEF Written
      <3> QED BY <3>1, <1>1 DEF StreamInv, InTable
    <2>14. CatchesUp'
      BY <1>1, <2>8, StreamFacts DEF Written, StreamInv, CatchesUp, StreamClosed
    <2> QED BY <1>1, <1>3, <2>8, <2>10, <2>11, <2>12, <2>13, <2>14
            DEF Written, StreamInv, UnwrittenFollows, NothingLeft, StreamClosed, AppliedWithoutGap
  <1> QED BY <1>2, <1>3 DEF Drain

LEMMA ReceiveKeeps ==
  ASSUME StreamInv, Receive
  PROVE  StreamInv'
  <1>1. /\ wire # <<>> /\ wire' = Tail(wire)
        /\ UNCHANGED <<stored, told, broken, phase, cursor, unwritten, more, full, pending, drops>>
    BY DEF Receive
  <1>2. /\ wire' \in Seq(Seqs) /\ Len(wire') = Len(wire) - 1 /\ Len(wire) >= 1 /\ Head(wire) = wire[1]
        /\ \A i \in 1..Len(wire') : i + 1 \in 1..Len(wire) /\ wire'[i] = wire[i + 1]
    BY <1>1, StreamFacts, HeadTailProperties, EmptySeq
  <1>3. wire[1] \in Seqs /\ wire[1] \in Nat /\ wire[1] <= last + 1 /\ wire[1] <= stored
    BY <1>2, StreamFacts DEF StreamInv, WireInOrder, InTable
  <1>4. \/ wire[1] = last + 1 /\ last' = wire[1] /\ applied' = applied \cup {wire[1]}
        \/ wire[1] <= last /\ last' = last /\ applied' = applied
    BY <1>2, <1>3, StreamFacts DEF Receive
  <1>5. last' \in Nat /\ last <= last' /\ wire[1] <= last' /\ last' <= stored
    BY <1>3, <1>4, StreamFacts DEF StreamInv, InTable
  <1>6. AppliedWithoutGap' /\ applied' \subseteq Seqs
    <2>1. applied = 1..last /\ applied \subseteq Seqs
      BY DEF StreamInv, StreamTypeOK, AppliedWithoutGap
    <2>2. 1..(last + 1) = (1..last) \cup {last + 1}
      BY StreamNats
    <2>3. CASE wire[1] = last + 1 /\ last' = wire[1] /\ applied' = applied \cup {wire[1]}
      BY <2>1, <2>2, <2>3, <1>3 DEF AppliedWithoutGap
    <2>4. CASE last' = last /\ applied' = applied
      BY <2>1, <2>4 DEF AppliedWithoutGap
    <2> QED BY <2>3, <2>4, <1>4
  <1>7. \A e \in Nat : Sent(e) => Sent(e)'
    <2> SUFFICES ASSUME NEW e \in Nat, Sent(e) PROVE Sent(e)'
      OBVIOUS
    <2>1. CASE e <= last
      BY <2>1, <1>5, StreamFacts DEF Sent
    <2>2. CASE \E i \in 1..Len(wire) : wire[i] = e
      <3>1. PICK i \in 1..Len(wire) : wire[i] = e
        BY <2>2
      <3>2. i = 1 \/ (i - 1 \in 1..Len(wire') /\ wire'[i - 1] = e)
        BY <3>1, <1>2, StreamFacts
      <3> QED BY <3>1, <3>2, <1>5 DEF Sent
    <2> QED BY <2>1, <2>2 DEF Sent
  <1>8. WireInOrder'
    <2> SUFFICES ASSUME NEW i \in 1..Len(wire')
                 PROVE  wire'[i] <= last' + 1 \/ \E j \in 1..(i - 1) : wire'[j] = wire'[i] - 1
      BY DEF WireInOrder
    <2>4. i \in Nat /\ i + 1 \in 1..Len(wire) /\ wire'[i] = wire[i + 1] /\ wire[i + 1] \in Nat
      <3>1. i \in Nat /\ i + 1 \in 1..Len(wire) /\ wire'[i] = wire[i + 1]
        BY <1>2
      <3> QED BY <3>1, StreamFacts
    <2>1. CASE wire[i + 1] <= last + 1
      <3>1. wire'[i] <= last' + 1
        BY <2>4, <2>1, <1>5, StreamNats
      <3> QED BY <3>1
    <2>2. CASE \E j \in 1..i : wire[j] = wire[i + 1] - 1
      <3>1. PICK j \in 1..i : wire[j] = wire[i + 1] - 1
        BY <2>2
      <3>2. CASE j = 1
        BY <3>1, <3>2, <2>4, <1>3, <1>5
      <3>3. CASE j # 1
        <4>1. j - 1 \in 1..(i - 1) /\ j - 1 \in 1..Len(wire') /\ (j - 1) + 1 = j
          BY <3>1, <3>3, <2>4
        <4>2. wire'[j - 1] = wire[j]
          BY <4>1, <1>2
        <4> QED BY <4>1, <4>2, <3>1, <2>4
      <3> QED BY <3>2, <3>3
    <2>3. i + 1 \in 1..Len(wire) /\ (i + 1) - 1 = i
      BY <2>4
    <2> QED BY <2>1, <2>2, <2>3 DEF StreamInv, WireInOrder
  <1>9. StreamTypeOK'
    <2>1. last' \in 0..MaxStored
      BY <1>5, StreamFacts, StreamAssumption DEF StreamInv, StreamTypeOK
    <2> QED BY <2>1, <1>1, <1>2, <1>6 DEF StreamInv, StreamTypeOK, Seqs
  <1>10. CatchesUp' /\ NoneLeftOut'
    <2>1. ToldBefore' = ToldBefore /\ ToldBefore \subseteq Nat /\ 1..cursor \subseteq Nat
      BY <1>1, StreamFacts DEF ToldBefore
    <2> QED BY <2>1, <1>1, <1>7 DEF StreamInv, CatchesUp, NoneLeftOut, StreamClosed
  <1>11. InTable'
    BY <1>1, <1>2, <1>5, StreamFacts DEF StreamInv, InTable
  <1>12. ~StreamClosed
    BY <1>1 DEF StreamInv, NothingLeft
  <1> QED BY <1>1, <1>6, <1>8, <1>9, <1>10, <1>11, <1>12
          DEF StreamInv, PendingIsLatest, UnwrittenFollows, NothingLeft, StreamClosed

LEMMA StreamStep == StreamInv /\ [StreamNext]_streamVars => StreamInv'
  <1> SUFFICES ASSUME StreamInv, [StreamNext]_streamVars PROVE StreamInv'
    OBVIOUS
  <1>1. CASE UNCHANGED streamVars
    BY <1>1 DEF streamVars, StreamInv, StreamTypeOK, Seqs, WireInOrder, PendingIsLatest, CatchesUp, StreamClosed, Sent,
                UnwrittenFollows, NoneLeftOut, ToldBefore, InTable, NothingLeft, AppliedWithoutGap
  <1> QED BY <1>1, PersistKeeps, PersistFailsKeeps, BroadcastKeeps, OpenStreamKeeps, ConnectKeeps, ReadPageKeeps,
             WriteEntryKeeps, NextPageKeeps, TakePendingKeeps, DrainKeeps, ReceiveKeeps, DropKeeps, StreamRestartKeeps
          DEF StreamNext, Catchup

LEMMA StreamInvariant == StreamSpec => []StreamInv
  BY StreamStep, StreamInitial, PTL DEF StreamSpec

(* A client applies the events up to its last one, all of them, whatever   *)
(* the sizes of a page and of the queue, however often the connection      *)
(* breaks: the seams of openEventSubscriber lose nothing.                  *)
THEOREM NoEventSkipped == StreamSpec => []AppliedWithoutGap
  <1>1. StreamInv => AppliedWithoutGap
    BY DEF StreamInv
  <1> QED BY <1>1, StreamInvariant, PTL

-----------------------------------------------------------------------------
(***************************************************************************)
(* The writes.  What a turn emitted of a stream is stored, in a write under*)
(* way or waiting, in the buffer, or still in its hands; each of these is  *)
(* behind the one before it.  An event goes alone.                         *)
(***************************************************************************)
Pipe == chain \o waiting

Rising(q) == \A a, b \in 1..Len(q) : a < b => q[a] < q[b]
Below(A, B) == \A a \in A, b \in B : a < b
ItemsOf(q) == {q[m] : m \in 1..Len(q)}

StoredOf(s) == {i \in Count : \E k \in 1..Len(log) : log[k] = <<s, i>>}
OnPipe(s) == {i \in Count : \E k \in 1..Len(Pipe) : Pipe[k].stream = s /\ i \in ItemsOf(Pipe[k].items)}
BufferOf(s) == IF s \in Stream THEN buffer[s] ELSE <<>>

(* What a call has handed on: all but what it is at.                       *)
HandedOn(p) == IF pc[p] \in {"idle", "written", "parting", "part"} THEN Number(p) ELSE Number(p) - 1
HandedOf(s) == {i \in 1..HandedOn(Emitter(s)) : emitted[Emitter(s)][i] = s}

LogRises == \A j, k \in 1..Len(log) : j < k /\ log[j][1] = log[k][1] => log[j][2] < log[k][2]

(* What is stored was emitted, and it is behind what it follows.           *)
LogKnown ==
  \A k \in 1..Len(log) :
    LET p == Emitter(log[k][1]) IN log[k][2] \in 1..Number(p) /\ emitted[p][log[k][2]] = log[k][1]

Behind(k, i, s) == \E j \in 1..(k - 1) : log[j] = <<s, i>>

LogFollows ==
  \A k \in 1..Len(log) :
    LET p == Emitter(log[k][1]) IN
    \A m \in 1..Number(p) : Follows(p, m, log[k][2]) => Behind(k, m, emitted[p][m])

PipeRises ==
  /\ \A k \in 1..Len(Pipe) :
       /\ Rising(Pipe[k].items)
       /\ \A s \in Lane : s = Pipe[k].stream => Below(StoredOf(s), ItemsOf(Pipe[k].items))
  /\ \A j, k \in 1..Len(Pipe) :
       j < k /\ Pipe[j].stream = Pipe[k].stream => Below(ItemsOf(Pipe[j].items), ItemsOf(Pipe[k].items))

BufferRises ==
  \A s \in Lane : Rising(BufferOf(s)) /\ Below(StoredOf(s) \cup OnPipe(s), ItemsOf(BufferOf(s)))

NothingLost ==
  \A s \in Lane : HandedOf(s) = StoredOf(s) \cup OnPipe(s) \cup ItemsOf(BufferOf(s))

(* Who waits for a write has one on the way, and only one; an event is     *)
(* written by its turn.                                                    *)
Waits(p) == pc[p] \in {"flushing", "written", "parting"}

WriterWaits ==
  \A p \in Producer : \A k \in 1..Len(Pipe) :
    /\ Pipe[k].by = p => Waits(p) /\ \A j \in 1..Len(Pipe) : Pipe[j].by = p => j = k
    /\ Pipe[k].stream = p => Pipe[k].by = p

(* Where a call is says what it is at, and what of its turn is in buffers. *)
CallKnown ==
  \A p \in Producer :
    /\ pc[p] # "idle" => Number(p) > 0
    /\ pc[p] = "write" => ~IsText(p)
    /\ pc[p] \in {"gather", "parting", "part"} => IsText(p)

BufferFlushed ==
  \A s \in Stream :
    /\ pc[TurnOf[s]] = "drain" => buffer[s] = <<>>
    /\ pc[TurnOf[s]] \in {"flush", "flushing"} => buffer[s] = <<>> \/ s \in todo[TurnOf[s]]

(* An event is stored before its turn emits the next, and it is written    *)
(* when all before it is stored.                                           *)
EventsFirst ==
  \A p \in Producer : \A m \in 1..Number(p) :
    emitted[p][m] = p /\ (m < Number(p) \/ pc[p] = "idle") => m \in StoredOf(p)

EventAlone ==
  \A p \in Producer : pc[p] \in {"write", "written"} /\ ~IsText(p)
    => \A m \in 1..(Number(p) - 1) : m \in StoredOf(emitted[p][m])

(* Nobody waits for capacity that is there.                                *)
WaitersMeanFull == waiting # <<>> => Len(chain) = MaxWrites

WritesFlow ==
  /\ PipeRises /\ BufferRises /\ NothingLost /\ WriterWaits /\ BufferFlushed
  /\ EventsFirst /\ EventAlone /\ WaitersMeanFull

WritesInv == WritesTypeOK /\ CallKnown /\ LogRises /\ LogKnown /\ LogFollows /\ (~failed => WritesFlow)

LEMMA LaneFacts ==
  /\ \A p \in Producer : p \in Lane /\ p \notin Stream /\ Emitter(p) = p /\ p # "timer"
  /\ \A s \in Stream : s \in Lane /\ s \notin Producer /\ TurnOf[s] \in Producer /\ Emitter(s) = TurnOf[s]
  /\ \A s \in Lane : Emitter(s) \in Producer /\ s \in Lanes(Emitter(s)) /\ (s \in Stream \/ s \in Producer)
  /\ \A p \in Producer : \A s \in Lanes(p) : s \in Lane /\ Emitter(s) = p /\ (s \in Stream \/ s = p)
  BY WritesAssumption DEF Lane, Lanes, Emitter

LEMMA WritesFacts ==
  ASSUME WritesInv
  PROVE  /\ chain \in Seq(Write) /\ waiting \in Seq(Write) /\ Pipe \in Seq(Write) /\ log \in Seq(Item)
         /\ Len(chain) \in Nat /\ Len(waiting) \in Nat /\ Len(Pipe) \in Nat /\ Len(log) \in Nat
         /\ \A s \in Lane : BufferOf(s) \in Seq(Count) /\ Len(BufferOf(s)) \in Nat
         /\ \A k \in 1..Len(Pipe) : /\ Pipe[k] \in Write /\ Pipe[k].stream \in Lane
                                   /\ Pipe[k].items \in Seq(Count) /\ Pipe[k].by \in Producer \cup {"timer"}
         /\ \A k \in 1..Len(log) : log[k][1] \in Lane /\ log[k][2] \in Count /\ log[k] = <<log[k][1], log[k][2]>>
  <1>1. chain \in Seq(Write) /\ waiting \in Seq(Write) /\ log \in Seq(Item)
    BY DEF WritesInv, WritesTypeOK
  <1>2. Pipe \in Seq(Write)
    BY <1>1, ConcatProperties DEF Pipe
  <1>3. \A k \in 1..Len(Pipe) : /\ Pipe[k] \in Write /\ Pipe[k].stream \in Lane
                               /\ Pipe[k].items \in Seq(Count) /\ Pipe[k].by \in Producer \cup {"timer"}
    <2>1. \A w \in Write : w.stream \in Lane /\ w.items \in Seq(Count) /\ w.by \in Producer \cup {"timer"}
      BY DEF Write
    <2>2. \A k \in 1..Len(Pipe) : Pipe[k] \in Write
      BY <1>2, ElementOfSeq
    <2> QED BY <2>1, <2>2
  <1>4. \A k \in 1..Len(log) : log[k][1] \in Lane /\ log[k][2] \in Count /\ log[k] = <<log[k][1], log[k][2]>>
    BY <1>1 DEF Item
  <1>5. \A s \in Lane : BufferOf(s) \in Seq(Count) /\ Len(BufferOf(s)) \in Nat
    <2>1. buffer \in [Stream -> Seq(Count)]
      BY DEF WritesInv, WritesTypeOK
    <2> QED BY <2>1 DEF BufferOf
  <1> QED BY <1>1, <1>2, <1>3, <1>4, <1>5

(* What is emitted, and what of it is handed on.                           *)
LEMMA EmittedFacts ==
  ASSUME WritesInv, NEW p \in Producer
  PROVE  /\ emitted[p] \in Seq(Lanes(p)) /\ Number(p) \in Nat /\ Number(p) <= MaxEmits[p] /\ MaxEmits[p] \in Nat
         /\ \A m \in 1..Number(p) : emitted[p][m] \in Lanes(p) /\ emitted[p][m] \in Lane /\ m \in Count
         /\ pc[p] # "idle" => /\ Number(p) \in 1..Number(p) /\ Number(p) \in Count
                              /\ LaneNow(p) \in Lanes(p) /\ LaneNow(p) \in Lane
         /\ HandedOn(p) \in Nat /\ HandedOn(p) <= Number(p)
  <1>1. emitted[p] \in Seq(Lanes(p)) /\ Number(p) <= MaxEmits[p] /\ MaxEmits[p] \in Nat
    BY WritesAssumption DEF WritesInv, WritesTypeOK, Number
  <1>2. Number(p) \in Nat /\ \A m \in 1..Number(p) : emitted[p][m] \in Lanes(p)
    BY <1>1, ElementOfSeq, LenProperties DEF Number
  <1>3. \A m \in 1..Number(p) : emitted[p][m] \in Lane /\ m \in Count
    BY <1>2, LaneFacts DEF Count
  <1>4. pc[p] # "idle" => Number(p) > 0
    BY DEF WritesInv, CallKnown
  <1>5. pc[p] # "idle" => Number(p) \in 1..Number(p)
    BY <1>2, <1>4
  <1>6. pc[p] # "idle" => LaneNow(p) \in Lanes(p) /\ LaneNow(p) \in Lane /\ Number(p) \in Count
    BY <1>2, <1>3, <1>5 DEF LaneNow
  <1>7. HandedOn(p) \in Nat /\ HandedOn(p) <= Number(p)
    BY <1>2, <1>4 DEF HandedOn
  <1> QED BY <1>1, <1>2, <1>3, <1>5, <1>6, <1>7

LEMMA ItemsTyped ==
  ASSUME NEW q \in Seq(Count)
  PROVE  ItemsOf(q) \subseteq Count /\ (q = <<>> => ItemsOf(q) = {} /\ Rising(q))
  <1>1. \A m \in 1..Len(q) : q[m] \in Count
    BY ElementOfSeq
  <1>2. q = <<>> => 1..Len(q) = {}
    OBVIOUS
  <1> QED BY <1>1, <1>2 DEF ItemsOf, Rising

LEMMA ItemsAppended ==
  ASSUME NEW q \in Seq(Count), NEW e \in Count, Rising(q), \A i \in ItemsOf(q) : i < e
  PROVE  /\ Append(q, e) \in Seq(Count) /\ Rising(Append(q, e))
         /\ ItemsOf(Append(q, e)) = ItemsOf(q) \cup {e}
  <1>1. /\ Append(q, e) \in Seq(Count) /\ Len(Append(q, e)) = Len(q) + 1 /\ Len(q) \in Nat
        /\ \A i \in 1..Len(q) : Append(q, e)[i] = q[i]
        /\ Append(q, e)[Len(q) + 1] = e
    BY AppendProperties
  <1>2. \A i \in 1..(Len(q) + 1) : i \in 1..Len(q) \/ i = Len(q) + 1
    BY <1>1
  <1>3. ItemsOf(Append(q, e)) = ItemsOf(q) \cup {e}
    <2>1. \A i \in 1..Len(q) : i \in 1..(Len(q) + 1)
      BY <1>1
    <2>2. Len(q) + 1 \in 1..(Len(q) + 1)
      BY <1>1
    <2> QED BY <1>1, <1>2, <2>1, <2>2 DEF ItemsOf
  <1>4. Rising(Append(q, e))
    <2> SUFFICES ASSUME NEW a \in 1..(Len(q) + 1), NEW b \in 1..(Len(q) + 1), a < b
                 PROVE  Append(q, e)[a] < Append(q, e)[b]
      BY <1>1 DEF Rising
    <2>1. a \in 1..Len(q) /\ q[a] \in ItemsOf(q)
      BY <1>1 DEF ItemsOf
    <2> QED BY <2>1, <1>1, <1>2 DEF Rising
  <1> QED BY <1>1, <1>3, <1>4

LEMMA OneItem ==
  ASSUME NEW e \in Count
  PROVE  <<e>> \in Seq(Count) /\ Rising(<<e>>) /\ ItemsOf(<<e>>) = {e}
  BY DEF Rising, ItemsOf, Count

(* What is stored, on its way or in a buffer was handed on.                *)
LEMMA PartsTyped ==
  ASSUME WritesInv, ~failed, NEW s \in Lane,
         NEW i \in StoredOf(s) \cup OnPipe(s) \cup ItemsOf(BufferOf(s))
  PROVE  /\ i \in Count /\ i \in Nat /\ i <= HandedOn(Emitter(s)) /\ i \in 1..Number(Emitter(s))
         /\ emitted[Emitter(s)][i] = s
  <1>1. i \in HandedOf(s)
    BY DEF WritesInv, WritesFlow, NothingLost
  <1>2. Emitter(s) \in Producer
    BY LaneFacts
  <1>3. HandedOn(Emitter(s)) \in Nat /\ HandedOn(Emitter(s)) <= Number(Emitter(s)) /\ Number(Emitter(s)) \in Nat
    BY <1>2, EmittedFacts
  <1>4. i \in 1..HandedOn(Emitter(s)) /\ emitted[Emitter(s)][i] = s
    BY <1>1 DEF HandedOf
  <1> QED BY <1>3, <1>4 DEF Count

(* The parts of a stream after a step that leaves it alone.                *)
LEMMA PartsSame ==
  ASSUME UNCHANGED <<chain, waiting, log>>
  PROVE  Pipe' = Pipe /\ (\A s : StoredOf(s)' = StoredOf(s)) /\ (\A s : OnPipe(s)' = OnPipe(s))
  <1>1. Pipe' = Pipe /\ \A s : StoredOf(s)' = StoredOf(s)
    BY DEF Pipe, StoredOf
  <1> QED BY <1>1 DEF OnPipe

Done == {"idle", "written", "parting", "part"}

LEMMA HandsSame ==
  ASSUME emitted' = emitted, \A q \in Producer : pc'[q] \in Done <=> pc[q] \in Done
  PROVE  \A s \in Lane : HandedOf(s)' = HandedOf(s)
  <1>1. \A q \in Producer : HandedOn(q)' = HandedOn(q)
    BY DEF HandedOn, Number, Done
  <1>2. \A s \in Lane : Emitter(s) \in Producer /\ Emitter(s)' = Emitter(s)
    BY LaneFacts DEF Emitter
  <1> QED BY <1>1, <1>2 DEF HandedOf

(* A call hands on what it is at.                                          *)
LEMMA HandsOver ==
  ASSUME WritesInv, emitted' = emitted, NEW p \in Producer, pc[p] \notin Done, pc'[p] \in Done,
         \A q \in Producer : q # p => pc'[q] = pc[q]
  PROVE  \A s \in Lane : HandedOf(s)' = IF s = LaneNow(p) THEN HandedOf(s) \cup {Number(p)} ELSE HandedOf(s)
  <1>1. \A q \in Producer : Number(q)' = Number(q)
    BY DEF Number
  <1>2. \A q \in Producer : q # p => HandedOn(q)' = HandedOn(q)
    BY <1>1 DEF HandedOn
  <1>3. pc[p] # "idle" /\ HandedOn(p) = Number(p) - 1 /\ HandedOn(p)' = Number(p)
    BY <1>1 DEF HandedOn, Done
  <1>4. Number(p) \in 1..Number(p) /\ Number(p) \in Nat /\ LaneNow(p) \in Lanes(p) /\ Emitter(LaneNow(p)) = p
    BY <1>3, EmittedFacts, LaneFacts
  <1> TAKE s \in Lane
  <1>5. CASE Emitter(s) # p
    <2>1. HandedOn(Emitter(s))' = HandedOn(Emitter(s)) /\ s # LaneNow(p)
      BY <1>2, <1>4, <1>5, LaneFacts
    <2> QED BY <2>1 DEF HandedOf
  <1>6. CASE Emitter(s) = p
    <2>1. \A i : i \in 1..Number(p) <=> i \in 1..(Number(p) - 1) \/ i = Number(p)
      BY <1>4
    <2>2. HandedOf(s) = {i \in 1..(Number(p) - 1) : emitted[p][i] = s}
      BY <1>3, <1>6 DEF HandedOf
    <2>3. HandedOf(s)' = {i \in 1..Number(p) : emitted[p][i] = s}
      BY <1>3, <1>6 DEF HandedOf
    <2> QED BY <2>1, <2>2, <2>3, <1>4 DEF LaneNow
  <1> QED BY <1>5, <1>6

(* What is emitted more does not disturb what is stored.                   *)
LEMMA LogStays ==
  ASSUME WritesInv, log' = log,
         \A q \in Producer : /\ Number(q)' \in Nat /\ Number(q) <= Number(q)'
                             /\ \A m \in 1..Number(q) : emitted'[q][m] = emitted[q][m]
  PROVE  LogRises' /\ LogKnown' /\ LogFollows'
  <1>1. LogRises'
    BY DEF WritesInv, LogRises
  <1>2. \A k \in 1..Len(log) : /\ Emitter(log[k][1]) \in Producer
                              /\ log[k][2] \in 1..Number(Emitter(log[k][1]))
                              /\ emitted[Emitter(log[k][1])][log[k][2]] = log[k][1]
    BY WritesFacts, LaneFacts DEF WritesInv, LogKnown
  <1>3. \A k \in 1..Len(log) : /\ log[k][2] \in 1..Number(Emitter(log[k][1]))'
                              /\ emitted'[Emitter(log[k][1])][log[k][2]] = log[k][1]
    <2> TAKE k \in 1..Len(log)
    <2>1. PICK q \in Producer : q = Emitter(log[k][1])
      BY <1>2
    <2>2. log[k][2] \in 1..Number(q) /\ emitted[q][log[k][2]] = log[k][1] /\ Number(q) \in Nat
      BY <1>2, <2>1, EmittedFacts
    <2>3. log[k][2] \in 1..Number(q)' /\ emitted'[q][log[k][2]] = log[k][1]
      BY <2>2
    <2> QED BY <2>1, <2>3 DEF Number
  <1>4. LogKnown'
    BY <1>3 DEF LogKnown, Emitter
  <1>5. LogFollows'
    <2> SUFFICES ASSUME NEW k \in 1..Len(log), NEW m \in 1..Number(Emitter(log[k][1]))',
                        Follows(Emitter(log[k][1]), m, log[k][2])'
                 PROVE  Behind(k, m, emitted'[Emitter(log[k][1])][m])
      BY DEF LogFollows, Emitter, Behind
    <2> DEFINE q == Emitter(log[k][1])
    <2>0. q \in Producer /\ q' = q
      BY <1>2 DEF Emitter
    <2>1. m < log[k][2] /\ log[k][2] \in 1..Number(q) /\ Number(q) \in Nat
      BY <1>2, EmittedFacts DEF Follows
    <2>2. m \in 1..Number(q)
      BY <2>0, <2>1 DEF Number
    <2>3. emitted'[q][m] = emitted[q][m] /\ emitted'[q][log[k][2]] = emitted[q][log[k][2]]
      BY <2>0, <2>1, <2>2
    <2>4. Follows(q, m, log[k][2])
      BY <2>0, <2>1, <2>3 DEF Follows
    <2>5. Behind(k, m, emitted[q][m])
      BY <2>2, <2>4 DEF WritesInv, LogFollows
    <2> QED BY <2>3, <2>5
  <1> QED BY <1>1, <1>4, <1>5

LEMMA LogSame ==
  ASSUME WritesInv, log' = log, emitted' = emitted
  PROVE  LogRises' /\ LogKnown' /\ LogFollows'
  <1>1. \A q \in Producer : /\ Number(q)' \in Nat /\ Number(q) <= Number(q)'
                            /\ \A m \in 1..Number(q) : emitted'[q][m] = emitted[q][m]
    <2> TAKE q \in Producer
    <2>1. Number(q)' = Number(q) /\ Number(q) \in Nat
      BY EmittedFacts DEF Number
    <2> QED BY <2>1
  <1> QED BY <1>1, LogStays

(* A step that moves no item changes no order.                             *)
LEMMA NothingMoved ==
  ASSUME WritesInv, ~failed, UNCHANGED <<chain, waiting, log, buffer>>,
         \A s \in Lane : HandedOf(s)' = HandedOf(s)
  PROVE  PipeRises' /\ BufferRises' /\ NothingLost' /\ WaitersMeanFull'
  <1>1. Pipe' = Pipe /\ (\A s : StoredOf(s)' = StoredOf(s)) /\ (\A s : OnPipe(s)' = OnPipe(s))
    BY PartsSame
  <1>2. \A s \in Lane : BufferOf(s)' = BufferOf(s)
    BY DEF BufferOf
  <1>3. WaitersMeanFull'
    BY DEF WritesInv, WritesFlow, WaitersMeanFull
  <1>4. PipeRises'
    BY <1>1 DEF WritesInv, WritesFlow, PipeRises
  <1>5. BufferRises' /\ NothingLost'
    BY <1>1, <1>2 DEF WritesInv, WritesFlow, BufferRises, NothingLost
  <1> QED BY <1>3, <1>4, <1>5

(* Nor does an event that was not written get lost, if only calls with     *)
(* text return or write.                                                   *)
LEMMA EventsStay ==
  ASSUME WritesInv, ~failed, UNCHANGED <<emitted, log>>,
         \A q \in Producer : /\ pc'[q] = "idle" => pc[q] = "idle" \/ LaneNow(q) \in Stream
                             /\ pc'[q] \in {"write", "written"} => pc[q] \in {"write", "written"} \/ LaneNow(q) \in Stream
  PROVE  EventsFirst' /\ EventAlone'
  <1>1. \A s : StoredOf(s)' = StoredOf(s)
    BY DEF StoredOf
  <1>2. EventsFirst'
    <2> SUFFICES ASSUME NEW p \in Producer, NEW m \in 1..Number(p), emitted[p][m] = p,
                        m < Number(p) \/ pc'[p] = "idle"
                 PROVE  m \in StoredOf(p)
      BY <1>1 DEF EventsFirst, Number
    <2>1. Number(p) \in Nat
      BY EmittedFacts
    <2>2. m < Number(p) \/ pc[p] = "idle"
      <3>1. p \notin Stream
        BY LaneFacts
      <3>2. m = Number(p) => LaneNow(p) = p
        BY DEF LaneNow
      <3> QED BY <2>1, <3>1, <3>2
    <2> QED BY <2>2 DEF WritesInv, WritesFlow, EventsFirst
  <1>3. EventAlone'
    <2> SUFFICES ASSUME NEW p \in Producer, pc'[p] \in {"write", "written"}, ~IsText(p), NEW m \in 1..(Number(p) - 1)
                 PROVE  m \in StoredOf(emitted[p][m])
      BY <1>1 DEF EventAlone, Number, IsText, LaneNow
    <2>1. pc[p] \in {"write", "written"}
      BY DEF IsText
    <2> QED BY <2>1 DEF WritesInv, WritesFlow, EventAlone
  <1> QED BY <1>2, <1>3

(* A write that has or waits for its slot is the last of all.              *)
LEMMA Entering ==
  ASSUME WritesInv, ~failed, NEW w \in Write, Enter(w)
  PROVE  /\ chain' \in Seq(Write) /\ waiting' \in Seq(Write) /\ Len(chain') <= MaxWrites
         /\ Pipe' = Append(Pipe, w) /\ WaitersMeanFull'
  <1>1. Len(chain) <= MaxWrites /\ WaitersMeanFull
    BY DEF WritesInv, WritesTypeOK, WritesFlow
  <1>2. CASE Len(chain) < MaxWrites /\ chain' = Append(chain, w) /\ UNCHANGED waiting
    <2>1. waiting = <<>>
      BY <1>2, WritesFacts, WritesAssumption DEF WritesInv, WritesFlow, WaitersMeanFull
    <2>2. chain' \in Seq(Write) /\ Len(chain') = Len(chain) + 1
      BY <1>2, WritesFacts, AppendProperties
    <2>3. Pipe = chain /\ Pipe' = chain'
      BY <2>1, <2>2, <1>2, WritesFacts, ConcatEmptySeq DEF Pipe
    <2>4. Len(chain') <= MaxWrites
      BY <2>2, <1>2, WritesFacts, WritesAssumption
    <2> QED BY <2>1, <2>2, <2>3, <2>4, <1>2 DEF WaitersMeanFull
  <1>3. CASE ~(Len(chain) < MaxWrites) /\ waiting' = Append(waiting, w) /\ UNCHANGED chain
    <2>1. waiting' \in Seq(Write) /\ Len(chain) = MaxWrites
      BY <1>1, <1>3, WritesFacts, WritesAssumption, AppendProperties
    <2>2. Append(waiting, w) = waiting \o <<w>> /\ Append(Pipe, w) = Pipe \o <<w>> /\ <<w>> \in Seq(Write)
      BY WritesFacts, AppendIsConcat
    <2>3. Pipe' = Append(Pipe, w)
      <3>1. chain \in Seq(Write) /\ waiting \in Seq(Write)
        BY WritesFacts
      <3>2. (chain \o waiting) \o <<w>> = chain \o (waiting \o <<w>>)
        BY <3>1, <2>2, ConcatAssociative
      <3>3. Pipe' = chain \o (waiting \o <<w>>)
        BY <2>2, <1>3 DEF Pipe
      <3> QED BY <2>2, <3>2, <3>3 DEF Pipe
    <2> QED BY <2>1, <2>3, <1>1, <1>3, WritesFacts DEF WaitersMeanFull
  <1> QED BY <1>2, <1>3 DEF Enter

LEMMA Leaving ==
  ASSUME WritesInv, ~failed, chain # <<>>, NextInChain
  PROVE  /\ chain' \in Seq(Write) /\ waiting' \in Seq(Write) /\ Len(chain') <= MaxWrites
         /\ Len(Pipe) >= 1 /\ Pipe[1] = Head(chain) /\ WaitersMeanFull'
         /\ Pipe' \in Seq(Write) /\ Len(Pipe') = Len(Pipe) - 1
         /\ \A k \in 1..Len(Pipe') : k + 1 \in 1..Len(Pipe) /\ Pipe'[k] = Pipe[k + 1]
  <1>1. Len(chain) <= MaxWrites /\ WaitersMeanFull
    BY DEF WritesInv, WritesTypeOK, WritesFlow
  <1>2. /\ Head(chain) \in Write /\ Head(chain) = chain[1] /\ Tail(chain) \in Seq(Write)
        /\ Len(Tail(chain)) = Len(chain) - 1 /\ Len(chain) >= 1
        /\ \A k \in 1..Len(Tail(chain)) : Tail(chain)[k] = chain[k + 1]
    BY WritesFacts, HeadTailProperties, EmptySeq
  <1>3. /\ Len(Pipe) = Len(chain) + Len(waiting)
        /\ \A k \in 1..Len(chain) : Pipe[k] = chain[k]
        /\ \A k \in 1..Len(waiting) : Pipe[Len(chain) + k] = waiting[k]
    BY WritesFacts, ConcatProperties DEF Pipe
  <1>4. CASE waiting = <<>> /\ chain' = Tail(chain) /\ UNCHANGED waiting
    <2>1. Pipe' = chain'
      BY <1>2, <1>4, ConcatEmptySeq DEF Pipe
    <2>2. Len(waiting) = 0
      BY <1>4
    <2> QED BY <2>1, <2>2, <1>1, <1>2, <1>3, <1>4, WritesFacts, WritesAssumption DEF WaitersMeanFull
  <1>5. CASE waiting # <<>> /\ chain' = Append(Tail(chain), Head(waiting)) /\ waiting' = Tail(waiting)
    <2>1. /\ Head(waiting) \in Write /\ Head(waiting) = waiting[1] /\ waiting' \in Seq(Write)
          /\ Len(waiting') = Len(waiting) - 1 /\ Len(waiting) >= 1
          /\ \A k \in 1..Len(waiting') : waiting'[k] = waiting[k + 1]
      BY <1>5, WritesFacts, HeadTailProperties, EmptySeq
    <2>2. /\ chain' \in Seq(Write) /\ Len(chain') = Len(chain)
          /\ \A k \in 1..(Len(chain) - 1) : chain'[k] = chain[k + 1]
          /\ chain'[Len(chain)] = waiting[1]
      BY <2>1, <1>2, <1>5, WritesFacts, AppendProperties
    <2>3. /\ Pipe' \in Seq(Write) /\ Len(Pipe') = Len(chain) + (Len(waiting) - 1)
          /\ \A k \in 1..Len(chain) : Pipe'[k] = chain'[k]
          /\ \A k \in 1..(Len(waiting) - 1) : Pipe'[Len(chain) + k] = waiting'[k]
      <3>1. /\ Pipe' \in Seq(Write) /\ Len(Pipe') = Len(chain') + Len(waiting')
            /\ \A k \in 1..(Len(chain') + Len(waiting')) :
                 Pipe'[k] = IF k <= Len(chain') THEN chain'[k] ELSE waiting'[k - Len(chain')]
        <4>1. chain' \in Seq(Write) /\ waiting' \in Seq(Write) /\ Pipe' = chain' \o waiting'
          BY <2>1, <2>2 DEF Pipe
        <4> HIDE DEF Pipe
        <4> QED BY <4>1, ConcatProperties
      <3>2. \A k \in 1..Len(chain) : k \in 1..(Len(chain') + Len(waiting')) /\ k <= Len(chain')
        BY <2>1, <2>2, WritesFacts
      <3>3. \A k \in 1..(Len(waiting) - 1) : /\ Len(chain) + k \in 1..(Len(chain') + Len(waiting'))
                                            /\ ~(Len(chain) + k <= Len(chain')) /\ (Len(chain) + k) - Len(chain') = k
        BY <2>1, <2>2, WritesFacts
      <3>4. Pipe' \in Seq(Write) /\ Len(Pipe') = Len(chain) + (Len(waiting) - 1)
        BY <3>1, <2>1, <2>2
      <3>5. \A k \in 1..Len(chain) : Pipe'[k] = chain'[k]
        BY <3>1, <3>2
      <3>6. \A k \in 1..(Len(waiting) - 1) : Pipe'[Len(chain) + k] = waiting'[k]
        BY <3>1, <3>3
      <3> QED BY <3>4, <3>5, <3>6
    <2>4. ASSUME NEW k \in 1..Len(Pipe') PROVE k + 1 \in 1..Len(Pipe) /\ Pipe'[k] = Pipe[k + 1]
      <3>1. k \in Nat /\ k + 1 \in 1..Len(Pipe)
        BY <2>1, <2>3, <1>3, WritesFacts
      <3>2. CASE k < Len(chain)
        <4>1. k \in 1..Len(chain) /\ k \in 1..(Len(chain) - 1) /\ k + 1 \in 1..Len(chain)
          BY <3>1, <3>2, <2>3, WritesFacts
        <4> QED BY <4>1, <3>1, <2>2, <2>3, <1>3
      <3>3. CASE k = Len(chain)
        <4>1. Pipe'[k] = waiting[1]
          BY <3>1, <3>3, <2>2, <2>3, <1>2
        <4>2. Pipe[Len(chain) + 1] = waiting[1]
          BY <2>1, <1>3, WritesFacts
        <4> QED BY <4>1, <4>2, <3>1, <3>3
      <3>4. CASE k > Len(chain)
        <4> DEFINE m == k - Len(chain)
        <4>1. m \in 1..(Len(waiting) - 1) /\ m + 1 \in 1..Len(waiting) /\ Len(chain) + m = k
              /\ Len(chain) + (m + 1) = k + 1
          BY <3>1, <3>4, <2>1, <2>3, WritesFacts
        <4> HIDE DEF m
        <4>2. Pipe'[Len(chain) + m] = waiting'[m]
          BY <4>1, <2>3
        <4>3. Pipe[Len(chain) + (m + 1)] = waiting[m + 1]
          BY <4>1, <1>3
        <4>4. waiting'[m] = waiting[m + 1]
          BY <4>1, <2>1
        <4> QED BY <4>1, <4>2, <4>3, <4>4, <3>1
      <3> QED BY <3>1, <3>2, <3>3, <3>4, WritesFacts
    <2>5. Len(chain') = MaxWrites
      BY <1>5, <2>2, <1>1 DEF WaitersMeanFull
    <2>6. Len(Pipe') = Len(Pipe) - 1 /\ Len(Pipe) >= 1 /\ Pipe[1] = Head(chain)
      BY <2>1, <2>3, <1>2, <1>3, WritesFacts
    <2>7. Len(chain') <= MaxWrites
      BY <2>5, WritesAssumption
    <2>8. WaitersMeanFull'
      BY <2>5 DEF WaitersMeanFull
    <2>9. \A k \in 1..Len(Pipe') : k + 1 \in 1..Len(Pipe) /\ Pipe'[k] = Pipe[k + 1]
      BY <2>4
    <2>10. chain' \in Seq(Write) /\ waiting' \in Seq(Write) /\ Pipe' \in Seq(Write)
      BY <2>1, <2>2, <2>3
    <2> QED BY <2>6, <2>7, <2>8, <2>9, <2>10
  <1> QED BY <1>4, <1>5 DEF NextInChain

(* A write of what is behind all that is stored or on its way goes to the  *)
(* end, and the buffer it was taken from is empty.                         *)
LEMMA PutInPipe ==
  ASSUME WritesInv, ~failed, NEW w \in Write, Enter(w), log' = log,
         \A s \in Lane : BufferOf(s)' = IF s = w.stream THEN <<>> ELSE BufferOf(s),
         Rising(w.items), Below(StoredOf(w.stream) \cup OnPipe(w.stream), ItemsOf(w.items)),
         \A s \in Lane : HandedOf(s)' = IF s = w.stream THEN StoredOf(s) \cup OnPipe(s) \cup ItemsOf(w.items)
                                        ELSE HandedOf(s)
  PROVE  PipeRises' /\ BufferRises' /\ NothingLost' /\ WaitersMeanFull'
  <1>1. Pipe' = Append(Pipe, w) /\ WaitersMeanFull'
    BY Entering
  <1>2. /\ Len(Pipe') = Len(Pipe) + 1 /\ \A k \in 1..Len(Pipe) : k \in 1..Len(Pipe') /\ Pipe'[k] = Pipe[k]
        /\ Pipe'[Len(Pipe) + 1] = w /\ Len(Pipe) + 1 \in 1..Len(Pipe')
        /\ \A k \in 1..Len(Pipe') : k \in 1..Len(Pipe) \/ k = Len(Pipe) + 1
    BY <1>1, WritesFacts, AppendProperties
  <1>3. \A s : StoredOf(s)' = StoredOf(s)
    BY DEF StoredOf
  <1>4. w.stream \in Lane /\ w.items \in Seq(Count) /\ ItemsOf(w.items) \subseteq Count
    BY ItemsTyped DEF Write
  <1>5. \A s : OnPipe(s)' = IF s = w.stream THEN OnPipe(s) \cup ItemsOf(w.items) ELSE OnPipe(s)
    BY <1>2, <1>4 DEF OnPipe
  <1>6. PipeRises'
    <2>1. ASSUME NEW k \in 1..Len(Pipe')
          PROVE  /\ Rising(Pipe'[k].items)
                 /\ \A s \in Lane : s = Pipe'[k].stream => Below(StoredOf(s)', ItemsOf(Pipe'[k].items))
      BY <1>2, <1>3 DEF WritesInv, WritesFlow, PipeRises, Below
    <2>2. ASSUME NEW j \in 1..Len(Pipe'), NEW k \in 1..Len(Pipe'), j < k, Pipe'[j].stream = Pipe'[k].stream
          PROVE  Below(ItemsOf(Pipe'[j].items), ItemsOf(Pipe'[k].items))
      <3>1. j \in 1..Len(Pipe) /\ Pipe'[j] = Pipe[j]
        BY <2>2, <1>2, WritesFacts
      <3>2. CASE k \in 1..Len(Pipe)
        BY <3>1, <3>2, <2>2, <1>2 DEF WritesInv, WritesFlow, PipeRises
      <3>3. CASE k = Len(Pipe) + 1
        <4>1. ItemsOf(Pipe[j].items) \subseteq Count
          BY <3>1, WritesFacts, ItemsTyped
        <4>2. ItemsOf(Pipe[j].items) \subseteq OnPipe(w.stream)
          BY <3>1, <3>3, <2>2, <1>2, <4>1 DEF OnPipe
        <4> QED BY <3>1, <3>3, <4>2, <1>2 DEF Below
      <3> QED BY <3>2, <3>3, <1>2
    <2> QED BY <2>1, <2>2 DEF PipeRises
  <1>7. BufferRises'
    <2> SUFFICES ASSUME NEW s \in Lane
                 PROVE  Rising(BufferOf(s)') /\ Below(StoredOf(s)' \cup OnPipe(s)', ItemsOf(BufferOf(s)'))
      BY DEF BufferRises
    <2>1. CASE s = w.stream
      <3>1. BufferOf(s)' = <<>>
        BY <2>1
      <3> QED BY <3>1 DEF Rising, Below, ItemsOf
    <2>2. CASE s # w.stream
      <3>1. BufferOf(s)' = BufferOf(s)
        BY <2>2
      <3> QED BY <3>1, <2>2, <1>3, <1>5 DEF WritesInv, WritesFlow, BufferRises
    <2> QED BY <2>1, <2>2
  <1>8. NothingLost'
    <2> SUFFICES ASSUME NEW s \in Lane
                 PROVE  HandedOf(s)' = StoredOf(s)' \cup OnPipe(s)' \cup ItemsOf(BufferOf(s)')
      BY DEF NothingLost
    <2>1. CASE s = w.stream
      <3>1. BufferOf(s)' = <<>>
        BY <2>1
      <3>2. ItemsOf(BufferOf(s)') = {}
        BY <3>1 DEF ItemsOf
      <3> QED BY <3>2, <2>1, <1>3, <1>5
    <2>2. CASE s # w.stream
      <3>1. BufferOf(s)' = BufferOf(s)
        BY <2>2
      <3> QED BY <3>1, <2>2, <1>3, <1>5 DEF WritesInv, WritesFlow, NothingLost
    <2> QED BY <2>1, <2>2
  <1> QED BY <1>1, <1>6, <1>7, <1>8

LEMMA WriterPut ==
  ASSUME WritesInv, ~failed, NEW w \in Write, Enter(w), w.stream \in Producer => w.by = w.stream,
         \A p \in Producer : (Waits(p) => Waits(p)') /\ (w.by = p => ~Waits(p) /\ Waits(p)')
  PROVE  WriterWaits'
  <1>1. Pipe' = Append(Pipe, w)
    BY Entering
  <1>2. /\ Len(Pipe') = Len(Pipe) + 1 /\ \A k \in 1..Len(Pipe) : Pipe'[k] = Pipe[k]
        /\ Pipe'[Len(Pipe) + 1] = w /\ \A k \in 1..Len(Pipe') : k \in 1..Len(Pipe) \/ k = Len(Pipe) + 1
    BY <1>1, WritesFacts, AppendProperties
  <1>3. \A p \in Producer : \A j \in 1..Len(Pipe) : Pipe[j].by = p => Waits(p)
    BY DEF WritesInv, WritesFlow, WriterWaits
  <1>4. ASSUME NEW p \in Producer, NEW k \in 1..Len(Pipe'), Pipe'[k].by = p
        PROVE  Waits(p)' /\ \A j \in 1..Len(Pipe') : Pipe'[j].by = p => j = k
    <2>1. CASE w.by = p
      BY <1>2, <1>3, <1>4, <2>1
    <2>2. CASE w.by # p
      <3>1. k \in 1..Len(Pipe) /\ Pipe[k].by = p
        BY <1>2, <1>4, <2>2
      <3> QED BY <3>1, <1>2, <1>3, <2>2 DEF WritesInv, WritesFlow, WriterWaits
    <2> QED BY <2>1, <2>2
  <1>5. ASSUME NEW p \in Producer, NEW k \in 1..Len(Pipe'), Pipe'[k].stream = p
        PROVE  Pipe'[k].by = p
    BY <1>2, <1>5 DEF WritesInv, WritesFlow, WriterWaits
  <1> QED BY <1>4, <1>5 DEF WriterWaits

(* What a finished write held comes at the end of what is stored.          *)
LEMMA LogGrows ==
  ASSUME WritesInv, NEW w \in Write, log' = log \o Numbered(w)
  PROVE  /\ log' \in Seq(Item) /\ Len(log') = Len(log) + Len(w.items)
         /\ \A k \in 1..Len(log) : k \in 1..Len(log') /\ log'[k] = log[k]
         /\ \A m \in 1..Len(w.items) : Len(log) + m \in 1..Len(log') /\ log'[Len(log) + m] = <<w.stream, w.items[m]>>
         /\ \A k \in 1..Len(log') : k \in 1..Len(log) \/ \E m \in 1..Len(w.items) : k = Len(log) + m
         /\ \A s \in Lane : StoredOf(s)' = IF s = w.stream THEN StoredOf(s) \cup ItemsOf(w.items) ELSE StoredOf(s)
  <1> DEFINE new == Numbered(w)
  <1>1. w.stream \in Lane /\ w.items \in Seq(Count) /\ ItemsOf(w.items) \subseteq Count /\ Len(w.items) \in Nat
    <2>1. w.stream \in Lane /\ w.items \in Seq(Count)
      BY DEF Write
    <2> QED BY <2>1, ItemsTyped, LenProperties
  <1>2. new \in Seq(Item) /\ Len(new) = Len(w.items) /\ \A m \in 1..Len(w.items) : new[m] = <<w.stream, w.items[m]>>
    <2>1. new \in [1..Len(w.items) -> Item] /\ \A m \in 1..Len(w.items) : new[m] = <<w.stream, w.items[m]>>
      <3>1. \A m \in 1..Len(w.items) : w.items[m] \in Count
        BY <1>1, ElementOfSeq
      <3> QED BY <3>1, <1>1 DEF Numbered, Item
    <2> HIDE DEF new
    <2>2. new \in Seq(Item)
      <3>1. Seq(Item) = UNION {[1..n -> Item] : n \in Nat}
        BY SeqDef
      <3>2. \E n \in Nat : new \in [1..n -> Item]
        BY <2>1, <1>1
      <3> QED BY <3>1, <3>2
    <2>3. DOMAIN new = 1..Len(new) /\ Len(new) \in Nat /\ DOMAIN new = 1..Len(w.items)
      BY <2>1, <2>2, LenProperties
    <2>4. Len(new) = Len(w.items)
      BY <2>3, <1>1
    <2> QED BY <2>1, <2>2, <2>4
  <1>3. log' = log \o new /\ log \in Seq(Item) /\ Len(log) \in Nat
    BY WritesFacts
  <1> HIDE DEF new
  <1>4. /\ log' \in Seq(Item) /\ Len(log') = Len(log) + Len(new)
        /\ \A k \in 1..(Len(log) + Len(new)) : log'[k] = IF k <= Len(log) THEN log[k] ELSE new[k - Len(log)]
    <2>1. /\ log \o new \in Seq(Item) /\ Len(log \o new) = Len(log) + Len(new)
          /\ \A k \in 1..(Len(log) + Len(new)) : (log \o new)[k] = IF k <= Len(log) THEN log[k] ELSE new[k - Len(log)]
      BY <1>2, <1>3, ConcatProperties
    <2> QED BY <2>1, <1>3
  <1>5. \A k \in 1..Len(log) : k \in 1..Len(log') /\ log'[k] = log[k]
    <2>1. \A k \in 1..Len(log) : k \in 1..(Len(log) + Len(new)) /\ k <= Len(log)
      BY <1>1, <1>2, <1>3
    <2> QED BY <2>1, <1>4
  <1>6. \A m \in 1..Len(w.items) : Len(log) + m \in 1..Len(log') /\ log'[Len(log) + m] = <<w.stream, w.items[m]>>
    <2>1. \A m \in 1..Len(w.items) : /\ Len(log) + m \in 1..(Len(log) + Len(new))
                                     /\ ~(Len(log) + m <= Len(log)) /\ (Len(log) + m) - Len(log) = m
      BY <1>1, <1>2, <1>3
    <2>2. \A m \in 1..Len(w.items) : Len(log) + m \in 1..Len(log') /\ log'[Len(log) + m] = new[m]
      BY <2>1, <1>4
    <2> QED BY <2>2, <1>2
  <1>7. \A k \in 1..Len(log') : k \in 1..Len(log) \/ \E m \in 1..Len(w.items) : k = Len(log) + m
    <2> TAKE k \in 1..Len(log')
    <2>1. k > Len(log) => k - Len(log) \in 1..Len(w.items) /\ k = Len(log) + (k - Len(log))
      BY <1>1, <1>2, <1>3, <1>4
    <2> QED BY <2>1, <1>3
  <1>8. \A s \in Lane : StoredOf(s)' = IF s = w.stream THEN StoredOf(s) \cup ItemsOf(w.items) ELSE StoredOf(s)
    <2> TAKE s \in Lane
    <2>1. \A i \in Count : (\E k \in 1..Len(log') : log'[k] = <<s, i>>)
             <=> (\E k \in 1..Len(log) : log[k] = <<s, i>>) \/ (s = w.stream /\ \E m \in 1..Len(w.items) : w.items[m] = i)
      <3> TAKE i \in Count
      <3>1. ASSUME NEW k \in 1..Len(log'), log'[k] = <<s, i>>
            PROVE  (\E h \in 1..Len(log) : log[h] = <<s, i>>) \/ (s = w.stream /\ \E m \in 1..Len(w.items) : w.items[m] = i)
        <4>1. CASE k \in 1..Len(log)
          BY <4>1, <3>1, <1>5
        <4>2. CASE \E m \in 1..Len(w.items) : k = Len(log) + m
          BY <4>2, <3>1, <1>6
        <4> QED BY <4>1, <4>2, <1>7
      <3>2. ASSUME NEW k \in 1..Len(log), log[k] = <<s, i>>
            PROVE  \E h \in 1..Len(log') : log'[h] = <<s, i>>
        BY <3>2, <1>5
      <3>3. ASSUME s = w.stream, NEW m \in 1..Len(w.items), w.items[m] = i
            PROVE  \E h \in 1..Len(log') : log'[h] = <<s, i>>
        BY <3>3, <1>6
      <3> QED BY <3>1, <3>2, <3>3
    <2>2. \A i : i \in ItemsOf(w.items) <=> \E m \in 1..Len(w.items) : w.items[m] = i
      BY DEF ItemsOf
    <2> QED BY <2>1, <2>2, <1>1 DEF StoredOf
  <1> QED BY <1>1, <1>2, <1>4, <1>5, <1>6, <1>7, <1>8

(* What leaves: the first write, whose stream goes on behind it.           *)
LEMMA FirstWrite ==
  ASSUME WritesInv, ~failed, NEW w \in Write, Len(Pipe) >= 1, Pipe[1] = w
  PROVE  /\ 1 \in 1..Len(Pipe) /\ w.stream \in Lane /\ w.items \in Seq(Count) /\ Len(w.items) \in Nat
         /\ ItemsOf(w.items) \subseteq OnPipe(w.stream)
         /\ Rising(w.items) /\ Below(StoredOf(w.stream), ItemsOf(w.items))
         /\ \A k \in 1..Len(Pipe) : k > 1 /\ Pipe[k].stream = w.stream => Below(ItemsOf(w.items), ItemsOf(Pipe[k].items))
  <1>1. 1 \in 1..Len(Pipe)
    BY WritesFacts
  <1>2. w.stream \in Lane /\ w.items \in Seq(Count)
    BY DEF Write
  <1>3. ItemsOf(w.items) \subseteq Count /\ Len(w.items) \in Nat
    BY <1>2, ItemsTyped, LenProperties
  <1>4. ItemsOf(w.items) \subseteq OnPipe(w.stream)
    BY <1>1, <1>3 DEF OnPipe
  <1>5. /\ Rising(w.items) /\ Below(StoredOf(w.stream), ItemsOf(w.items))
        /\ \A k \in 1..Len(Pipe) : k > 1 /\ Pipe[k].stream = w.stream => Below(ItemsOf(w.items), ItemsOf(Pipe[k].items))
    BY <1>1, <1>2 DEF WritesInv, WritesFlow, PipeRises
  <1> QED BY <1>1, <1>2, <1>3, <1>4, <1>5

(* An event on its way is the last of its turn, and all before it is       *)
(* stored.                                                                 *)
LEMMA EventOnPipe ==
  ASSUME WritesInv, ~failed, NEW p \in Producer, NEW n \in OnPipe(p)
  PROVE  /\ n = Number(p) /\ pc[p] = "written"
         /\ \A m \in 1..Number(p) : m < n => m \in StoredOf(emitted[p][m])
  <1>1. p \in Lane /\ Emitter(p) = p /\ p \notin Stream
    BY LaneFacts
  <1>2. n \in Nat /\ n <= HandedOn(p) /\ n \in 1..Number(p) /\ emitted[p][n] = p
    BY <1>1, PartsTyped
  <1>3. PICK r \in 1..Len(Pipe) : Pipe[r].stream = p /\ n \in ItemsOf(Pipe[r].items)
    BY DEF OnPipe
  <1>4. Below(StoredOf(p), ItemsOf(Pipe[r].items)) /\ Pipe[r].by = p /\ Waits(p)
    BY <1>1, <1>3 DEF WritesInv, WritesFlow, PipeRises, WriterWaits
  <1>5. n \notin StoredOf(p)
    BY <1>2, <1>3, <1>4 DEF Below
  <1>6. n = Number(p)
    <2>1. ~(n < Number(p))
      BY <1>2, <1>5 DEF WritesInv, WritesFlow, EventsFirst
    <2> QED BY <2>1, <1>2, EmittedFacts
  <1>7. ~IsText(p)
    BY <1>1, <1>2, <1>6 DEF IsText, LaneNow
  <1>8. pc[p] = "written"
    <2>1. pc[p] # "flushing"
      BY <1>2, <1>6, EmittedFacts DEF HandedOn
    <2>2. pc[p] # "parting"
      BY <1>7 DEF WritesInv, CallKnown
    <2> QED BY <2>1, <2>2, <1>4 DEF Waits
  <1>9. \A m \in 1..(Number(p) - 1) : m \in StoredOf(emitted[p][m])
    BY <1>7, <1>8 DEF WritesInv, WritesFlow, EventAlone
  <1>10. \A m \in 1..Number(p) : m < n => m \in 1..(Number(p) - 1)
    BY <1>6, EmittedFacts
  <1> QED BY <1>6, <1>8, <1>9, <1>10

(* What it follows is stored before it.                                    *)
LEMMA StoredFollows ==
  ASSUME WritesInv, ~failed, NEW w \in Write, Len(Pipe) >= 1, Pipe[1] = w,
         log' = log \o Numbered(w), emitted' = emitted
  PROVE  LogRises' /\ LogKnown' /\ LogFollows'
  <1>1. /\ 1 \in 1..Len(Pipe) /\ w.stream \in Lane /\ w.items \in Seq(Count) /\ Len(w.items) \in Nat
        /\ ItemsOf(w.items) \subseteq OnPipe(w.stream)
        /\ Rising(w.items) /\ Below(StoredOf(w.stream), ItemsOf(w.items))
        /\ \A k \in 1..Len(Pipe) : k > 1 /\ Pipe[k].stream = w.stream => Below(ItemsOf(w.items), ItemsOf(Pipe[k].items))
    BY FirstWrite
  <1>2. /\ Len(log') = Len(log) + Len(w.items) /\ Len(log) \in Nat
        /\ \A k \in 1..Len(log) : k \in 1..Len(log') /\ log'[k] = log[k]
        /\ \A m \in 1..Len(w.items) : Len(log) + m \in 1..Len(log') /\ log'[Len(log) + m] = <<w.stream, w.items[m]>>
        /\ \A k \in 1..Len(log') : k \in 1..Len(log) \/ \E m \in 1..Len(w.items) : k = Len(log) + m
    BY LogGrows, WritesFacts
  <1>3. \A m \in 1..Len(w.items) : w.items[m] \in ItemsOf(w.items) /\ w.items[m] \in Nat /\ m \in Nat
    <2>1. \A m \in 1..Len(w.items) : w.items[m] \in ItemsOf(w.items)
      BY DEF ItemsOf
    <2>2. ItemsOf(w.items) \subseteq Count
      BY <1>1, ItemsTyped
    <2> QED BY <2>1, <2>2 DEF Count
  <1>0. \A m \in 1..Len(w.items) : log'[Len(log) + m][1] = w.stream /\ log'[Len(log) + m][2] = w.items[m]
    <2> TAKE m \in 1..Len(w.items)
    <2>1. log'[Len(log) + m] = <<w.stream, w.items[m]>>
      BY <1>2
    <2> QED BY <2>1
  <1>4. LogRises'
    <2> SUFFICES ASSUME NEW j \in 1..Len(log'), NEW k \in 1..Len(log'), j < k, log'[j][1] = log'[k][1]
                 PROVE  log'[j][2] < log'[k][2]
      BY DEF LogRises
    <2>1. CASE j \in 1..Len(log) /\ k \in 1..Len(log)
      BY <2>1, <1>2 DEF WritesInv, LogRises
    <2>2. CASE j \in 1..Len(log) /\ \E m \in 1..Len(w.items) : k = Len(log) + m
      <3>1. PICK m \in 1..Len(w.items) : k = Len(log) + m
        BY <2>2
      <3>2. log'[k][1] = w.stream /\ log'[k][2] = w.items[m] /\ w.items[m] \in ItemsOf(w.items)
        BY <3>1, <1>0, <1>3
      <3>3. log[j][2] \in StoredOf(w.stream)
        <4>1. log'[j] = log[j] /\ log'[j][1] = w.stream
          BY <2>2, <3>2, <1>2
        <4>2. log[j] = <<w.stream, log[j][2]>> /\ log[j][2] \in Count
          BY <2>2, <4>1, WritesFacts
        <4> QED BY <2>2, <4>2 DEF StoredOf
      <3> QED BY <3>2, <3>3, <2>2, <1>1, <1>2 DEF Below
    <2>3. CASE \E m \in 1..Len(w.items) : j = Len(log) + m
      <3>1. PICK a \in 1..Len(w.items) : j = Len(log) + a
        BY <2>3
      <3>2. PICK b \in 1..Len(w.items) : k = Len(log) + b /\ a < b
        <4>1. k \notin 1..Len(log)
          BY <1>2, <3>1
        <4>2. PICK c \in 1..Len(w.items) : k = Len(log) + c
          BY <4>1, <1>2
        <4>3. a < c
          BY <4>2, <3>1, <1>2
        <4> QED BY <4>2, <4>3
      <3>3. log'[j][2] = w.items[a] /\ log'[k][2] = w.items[b]
        BY <3>1, <3>2, <1>0
      <3> QED BY <3>2, <3>3, <1>1 DEF Rising
    <2> QED BY <2>1, <2>2, <2>3, <1>2
  <1> DEFINE s == w.stream
             p == Emitter(s)
  <1>5. p \in Producer /\ s \in Lane /\ p' = p /\ Number(p)' = Number(p) /\ p \notin Stream /\ p \in Lane /\ Emitter(p) = p
    BY <1>1, LaneFacts DEF Emitter, Number
  <1>6. \A m \in 1..Len(w.items) : /\ w.items[m] \in 1..Number(p) /\ emitted[p][w.items[m]] = s
                                   /\ w.items[m] <= HandedOn(p)
    BY <1>1, <1>3, <1>5, PartsTyped
  <1>7. LogKnown'
    <2> SUFFICES ASSUME NEW k \in 1..Len(log')
                 PROVE  /\ log'[k][2] \in 1..Number(Emitter(log'[k][1]))
                        /\ emitted[Emitter(log'[k][1])][log'[k][2]] = log'[k][1]
      BY DEF LogKnown, Emitter, Number
    <2>1. CASE k \in 1..Len(log)
      BY <2>1, <1>2 DEF WritesInv, LogKnown
    <2>2. CASE \E m \in 1..Len(w.items) : k = Len(log) + m
      <3>1. PICK m \in 1..Len(w.items) : k = Len(log) + m
        BY <2>2
      <3>2. log'[k][1] = s /\ log'[k][2] = w.items[m]
        BY <3>1, <1>0
      <3> QED BY <3>2, <1>6
    <2> QED BY <2>1, <2>2, <1>2
  <1>8. \A t : \A i \in StoredOf(t) : \E j \in 1..Len(log) : log'[j] = <<t, i>>
    BY <1>2 DEF StoredOf
  <1>9. ASSUME NEW a \in 1..Len(w.items), NEW m \in 1..Number(p), Follows(p, m, w.items[a])
        PROVE  \E j \in 1..(Len(log) + a - 1) : log'[j] = <<emitted[p][m], m>>
    <2> DEFINE n == w.items[a]
    <2>1. m < n /\ n \in 1..Number(p) /\ n <= HandedOn(p) /\ emitted[p][n] = s /\ a \in Nat /\ a >= 1 /\ n \in ItemsOf(w.items)
      BY <1>9, <1>3, <1>6 DEF Follows
    <2>2. m \in Count /\ m \in Nat /\ HandedOn(p) \in Nat /\ n \in Nat /\ Number(p) \in Nat /\ HandedOn(p) <= Number(p)
      BY <2>1, <1>3, <1>5, EmittedFacts
    <2> HIDE DEF n
    <2>3. ASSUME m \in StoredOf(emitted[p][m]) PROVE \E j \in 1..(Len(log) + a - 1) : log'[j] = <<emitted[p][m], m>>
      <3>1. PICK j \in 1..Len(log) : log'[j] = <<emitted[p][m], m>>
        BY <2>3, <1>8
      <3>2. j \in 1..(Len(log) + a - 1)
        BY <2>1, <1>2
      <3> QED BY <3>1, <3>2
    <2>4. CASE emitted[p][m] = s
      <3>1. m \in 1..HandedOn(p)
        BY <2>1, <2>2
      <3>2. m \in HandedOf(s)
        BY <3>1, <2>4 DEF HandedOf
      <3>3. m \in StoredOf(s) \cup OnPipe(s) \cup ItemsOf(BufferOf(s))
        BY <3>2, <1>5 DEF WritesInv, WritesFlow, NothingLost
      <3>4. m \notin ItemsOf(BufferOf(s))
        <4>1. Below(OnPipe(s), ItemsOf(BufferOf(s)))
          BY <1>5 DEF WritesInv, WritesFlow, BufferRises, Below
        <4> QED BY <4>1, <2>1, <2>2, <1>1 DEF Below
      <3>5. ASSUME m \in OnPipe(s) PROVE \E j \in 1..(Len(log) + a - 1) : log'[j] = <<emitted[p][m], m>>
        <4>1. PICK r \in 1..Len(Pipe) : Pipe[r].stream = s /\ m \in ItemsOf(Pipe[r].items)
          BY <3>5 DEF OnPipe
        <4>2. ~(r > 1)
          <5> SUFFICES ASSUME r > 1 PROVE FALSE
            OBVIOUS
          <5>1. Below(ItemsOf(w.items), ItemsOf(Pipe[r].items))
            BY <1>1, <4>1
          <5>2. n < m
            BY <5>1, <4>1, <2>1 DEF Below
          <5> QED BY <5>2, <2>1, <2>2
        <4>3. r = 1
          BY <4>2, WritesFacts
        <4>4. PICK b \in 1..Len(w.items) : w.items[b] = m
          BY <4>1, <4>3 DEF ItemsOf
        <4>5. b < a
          <5>1. ~(a < b)
            BY <4>4, <1>1, <2>1, <2>2 DEF Rising, n
          <5>2. a # b
            BY <4>4, <2>1, <2>2 DEF n
          <5> QED BY <5>1, <5>2, <1>3
        <4>6. Len(log) + b \in 1..(Len(log) + a - 1)
          BY <4>5, <1>2, <1>3
        <4> QED BY <4>4, <4>6, <1>2, <2>4
      <3> QED BY <3>3, <3>4, <3>5, <2>3, <2>4
    <2>5. CASE emitted[p][m] = p
      <3>1. m \in StoredOf(p)
        <4>1. m < Number(p)
          BY <2>1, <2>2
        <4> QED BY <4>1, <2>5, <1>5 DEF WritesInv, WritesFlow, EventsFirst
      <3> QED BY <3>1, <2>3, <2>5
    <2>6. CASE emitted[p][n] = p
      <3>1. n \in OnPipe(p)
        BY <2>1, <2>6, <1>1
      <3>2. m \in StoredOf(emitted[p][m])
        BY <3>1, <2>1, <1>5, EventOnPipe
      <3> QED BY <3>2, <2>3
    <2>7. emitted[p][m] = s \/ emitted[p][m] = p \/ emitted[p][n] = p
      BY <1>9, <2>1 DEF Follows, n
    <2> QED BY <2>4, <2>5, <2>6, <2>7
  <1>10. LogFollows'
    <2>1. ASSUME NEW k \in 1..Len(log'), NEW m \in 1..Number(Emitter(log'[k][1])),
                 Follows(Emitter(log'[k][1]), m, log'[k][2])
          PROVE  \E j \in 1..(k - 1) : log'[j] = <<emitted[Emitter(log'[k][1])][m], m>>
      <3>1. CASE k \in 1..Len(log)
        <4>1. log'[k] = log[k]
          BY <3>1, <1>2
        <4>2. Behind(k, m, emitted[Emitter(log[k][1])][m])
          BY <4>1, <3>1, <2>1 DEF WritesInv, LogFollows
        <4>3. \A j \in 1..(k - 1) : log'[j] = log[j]
          BY <3>1, <1>2
        <4> QED BY <4>1, <4>2, <4>3 DEF Behind
      <3>2. CASE \E a \in 1..Len(w.items) : k = Len(log) + a
        <4>1. PICK a \in 1..Len(w.items) : k = Len(log) + a
          BY <3>2
        <4>2. log'[k][1] = s /\ log'[k][2] = w.items[a]
          BY <4>1, <1>0
        <4>3. \E j \in 1..(Len(log) + a - 1) : log'[j] = <<emitted[p][m], m>>
          BY <4>2, <2>1, <1>9
        <4>4. Emitter(log'[k][1]) = p /\ k - 1 = Len(log) + a - 1
          BY <4>1, <4>2
        <4> QED BY <4>3, <4>4
      <3> QED BY <3>1, <3>2, <1>2
    <2>2. \A k \in 1..Len(log') : \A m \in 1..Number(Emitter(log'[k][1])) :
            Follows(Emitter(log'[k][1]), m, log'[k][2])
              => \E j \in 1..(k - 1) : log'[j] = <<emitted[Emitter(log'[k][1])][m], m>>
      BY <2>1
    <2> SUFFICES ASSUME NEW k \in 1..Len(log'), NEW m \in 1..Number(Emitter(log[k][1]))',
                        Follows(Emitter(log[k][1]), m, log[k][2])'
                 PROVE  Behind(k, m, emitted[Emitter(log[k][1])][m])'
      BY DEF LogFollows
    <2>3. m \in 1..Number(Emitter(log'[k][1])) /\ Follows(Emitter(log'[k][1]), m, log'[k][2])
      BY DEF Number, Emitter, Follows
    <2>4. \E j \in 1..(k - 1) : log'[j] = <<emitted[Emitter(log'[k][1])][m], m>>
      BY <2>2, <2>3
    <2> QED BY <2>4 DEF Behind, Emitter
  <1> QED BY <1>4, <1>7, <1>10

(* What a finished write held is stored, behind what was, and what is      *)
(* behind it stays there.                                                  *)
LEMMA StoredInTurn ==
  ASSUME WritesInv, ~failed, NEW w \in Write, chain # <<>>, NextInChain, w = Head(chain),
         log' = log \o Numbered(w), buffer' = buffer, \A s \in Lane : HandedOf(s)' = HandedOf(s)
  PROVE  PipeRises' /\ BufferRises' /\ NothingLost' /\ WaitersMeanFull'
  <1>1. /\ Len(Pipe) >= 1 /\ Pipe[1] = w /\ WaitersMeanFull' /\ Len(Pipe') = Len(Pipe) - 1
        /\ \A k \in 1..Len(Pipe') : k + 1 \in 1..Len(Pipe) /\ Pipe'[k] = Pipe[k + 1]
    BY Leaving
  <1>2. /\ 1 \in 1..Len(Pipe) /\ w.stream \in Lane /\ w.items \in Seq(Count) /\ Len(w.items) \in Nat
        /\ ItemsOf(w.items) \subseteq OnPipe(w.stream)
        /\ Rising(w.items) /\ Below(StoredOf(w.stream), ItemsOf(w.items))
        /\ \A k \in 1..Len(Pipe) : k > 1 /\ Pipe[k].stream = w.stream => Below(ItemsOf(w.items), ItemsOf(Pipe[k].items))
    BY <1>1, FirstWrite
  <1>3. \A s \in Lane : StoredOf(s)' = IF s = w.stream THEN StoredOf(s) \cup ItemsOf(w.items) ELSE StoredOf(s)
    BY LogGrows
  <1>4. \A s : OnPipe(s)' \subseteq OnPipe(s) /\ OnPipe(s) \subseteq OnPipe(s)' \cup (IF s = w.stream THEN ItemsOf(w.items) ELSE {})
    <2>1. \A k \in 1..Len(Pipe) : k = 1 \/ (k - 1 \in 1..Len(Pipe') /\ Pipe'[k - 1] = Pipe[k])
      BY <1>1, WritesFacts
    <2>2. \A s : OnPipe(s)' \subseteq OnPipe(s)
      BY <1>1 DEF OnPipe
    <2>3. \A s : OnPipe(s) \subseteq OnPipe(s)' \cup (IF s = w.stream THEN ItemsOf(w.items) ELSE {})
      BY <2>1, <1>1 DEF OnPipe
    <2> QED BY <2>2, <2>3
  <1>5. PipeRises'
    <2>1. ASSUME NEW k \in 1..Len(Pipe')
          PROVE  /\ Rising(Pipe'[k].items)
                 /\ \A s \in Lane : s = Pipe'[k].stream => Below(StoredOf(s)', ItemsOf(Pipe'[k].items))
      <3>1. k + 1 \in 1..Len(Pipe) /\ k + 1 > 1 /\ Pipe'[k] = Pipe[k + 1]
        BY <1>1, WritesFacts
      <3>2. Rising(Pipe'[k].items) /\ \A s \in Lane : s = Pipe'[k].stream => Below(StoredOf(s), ItemsOf(Pipe'[k].items))
        BY <3>1 DEF WritesInv, WritesFlow, PipeRises
      <3>3. Pipe'[k].stream = w.stream => Below(ItemsOf(w.items), ItemsOf(Pipe'[k].items))
        BY <3>1, <1>2
      <3> QED BY <3>2, <3>3, <1>3 DEF Below
    <2>2. ASSUME NEW j \in 1..Len(Pipe'), NEW k \in 1..Len(Pipe'), j < k, Pipe'[j].stream = Pipe'[k].stream
          PROVE  Below(ItemsOf(Pipe'[j].items), ItemsOf(Pipe'[k].items))
      <3>1. j + 1 < k + 1
        BY <2>2, <1>1, WritesFacts
      <3> QED BY <3>1, <2>2, <1>1 DEF WritesInv, WritesFlow, PipeRises
    <2> QED BY <2>1, <2>2 DEF PipeRises
  <1>6. \A s \in Lane : StoredOf(s)' \cup OnPipe(s)' = StoredOf(s) \cup OnPipe(s)
    <2> TAKE s \in Lane
    <2>1. CASE s = w.stream
      BY <2>1, <1>2, <1>3, <1>4
    <2>2. CASE s # w.stream
      BY <2>2, <1>3, <1>4
    <2> QED BY <2>1, <2>2
  <1>7. \A s \in Lane : BufferOf(s)' = BufferOf(s)
    BY DEF BufferOf
  <1>8. BufferRises' /\ NothingLost'
    BY <1>6, <1>7 DEF WritesInv, WritesFlow, BufferRises, NothingLost
  <1> QED BY <1>1, <1>5, <1>8

(* Where the calls are after one moved.                                    *)
LEMMA CallMoves ==
  ASSUME WritesInv, NEW p \in Producer, NEW to, Goes(p, to)
  PROVE  pc'[p] = to /\ \A s \in Producer : s # p => pc'[s] = pc[s]
  BY DEF WritesInv, WritesTypeOK, Goes

LEMMA CallStays ==
  ASSUME WritesInv, NEW p \in Producer, NEW to, Goes(p, to), emitted' = emitted, pc[p] # "idle",
         to = "write" => ~IsText(p), to \in {"gather", "parting", "part"} => IsText(p)
  PROVE  CallKnown'
  <1>1. pc'[p] = to /\ \A s \in Producer : s # p => pc'[s] = pc[s]
    BY CallMoves
  <1>2. \A q \in Producer : Number(q)' = Number(q) /\ LaneNow(q)' = LaneNow(q)
    BY DEF Number, LaneNow
  <1>3. \A q \in Producer : IsText(q)' <=> IsText(q)
    BY <1>2 DEF IsText
  <1> QED BY <1>1, <1>2, <1>3 DEF CallKnown, WritesInv

(* A call that does not move a write.                                      *)
LEMMA StepAside ==
  ASSUME WritesInv, NEW p \in Producer, NEW to \in AppendPlace \ Done, Goes(p, to), pc[p] \notin Done, ~Waits(p),
         UNCHANGED <<emitted, waiting, chain, log, buffer, failed>>, todo' \in [Producer -> SUBSET Stream],
         to = "write" => ~IsText(p), to = "gather" => IsText(p),
         ~failed => BufferFlushed' /\ EventAlone'
  PROVE  WritesInv'
  <1>1. WritesTypeOK'
    <2>1. pc' \in [Producer -> AppendPlace]
      BY DEF WritesInv, WritesTypeOK, Goes
    <2> QED BY <2>1 DEF WritesInv, WritesTypeOK
  <1>2. CallKnown' /\ LogRises' /\ LogKnown' /\ LogFollows'
    <2>1. pc[p] # "idle" /\ to \notin {"parting", "part"}
      BY DEF Done
    <2> QED BY <2>1, CallStays, LogSame
  <1>3. pc'[p] = to /\ \A s \in Producer : s # p => pc'[s] = pc[s]
    BY CallMoves
  <1>4. ASSUME ~failed PROVE WritesFlow'
    <2>1. \A s \in Lane : HandedOf(s)' = HandedOf(s)
      <3>1. \A q \in Producer : pc'[q] \in Done <=> pc[q] \in Done
        BY <1>3
      <3> QED BY <3>1, HandsSame
    <2>2. PipeRises' /\ BufferRises' /\ NothingLost' /\ WaitersMeanFull'
      BY <1>4, <2>1, NothingMoved
    <2>3. Pipe' = Pipe /\ \A q \in Producer : Waits(q) => Waits(q)'
      BY <1>3 DEF Pipe, Waits
    <2>4. WriterWaits'
      BY <2>3, <1>4 DEF WritesInv, WritesFlow, WriterWaits
    <2>5. EventsFirst'
      <3>1. \A q \in Producer : pc'[q] = "idle" => pc[q] = "idle"
        BY <1>3 DEF Done
      <3>2. \A s : StoredOf(s)' = StoredOf(s)
        BY DEF StoredOf
      <3> QED BY <3>1, <3>2, <1>4 DEF WritesInv, WritesFlow, EventsFirst, Number
    <2> QED BY <2>2, <2>4, <2>5, <1>4 DEF WritesFlow
  <1> QED BY <1>1, <1>2, <1>4 DEF WritesInv

LEMMA BeginFlushKeeps ==
  ASSUME WritesInv, NEW p \in Producer, BeginFlush(p)
  PROVE  WritesInv'
  <1>1. /\ Goes(p, "flush") /\ pc[p] \in {"admit", "gather"} /\ todo' = [todo EXCEPT ![p] = Filled]
        /\ UNCHANGED <<emitted, buffer, waiting, chain, log, failed>>
    BY DEF BeginFlush, Admitted
  <1>2. todo' \in [Producer -> SUBSET Stream] /\ pc[p] \notin Done /\ ~Waits(p) /\ "flush" \in AppendPlace \ Done
    BY <1>1 DEF WritesInv, WritesTypeOK, Filled, Done, Waits, AppendPlace
  <1>3. pc'[p] = "flush" /\ (\A s \in Producer : s # p => pc'[s] = pc[s])
        /\ todo'[p] = Filled /\ (\A s \in Producer : s # p => todo'[s] = todo[s])
    BY <1>1, CallMoves DEF WritesInv, WritesTypeOK
  <1>4. ~failed => BufferFlushed'
    <2> SUFFICES ASSUME ~failed, NEW s \in Stream
                 PROVE  /\ pc'[TurnOf[s]] = "drain" => buffer[s] = <<>>
                        /\ pc'[TurnOf[s]] \in {"flush", "flushing"} => buffer[s] = <<>> \/ s \in todo'[TurnOf[s]]
      BY <1>1 DEF BufferFlushed
    <2>1. TurnOf[s] \in Producer
      BY LaneFacts
    <2>2. CASE TurnOf[s] = p
      BY <2>2, <1>3 DEF Filled
    <2>3. CASE TurnOf[s] # p
      BY <2>1, <2>3, <1>3 DEF WritesInv, WritesFlow, BufferFlushed
    <2> QED BY <2>2, <2>3
  <1>5. ~failed => EventAlone'
    <2>1. \A q \in Producer : /\ pc'[q] = "idle" => pc[q] = "idle"
                              /\ pc'[q] \in {"write", "written"} => pc[q] \in {"write", "written"}
      BY <1>3
    <2> QED BY <2>1, <1>1, EventsStay
  <1> QED BY <1>1, <1>2, <1>4, <1>5, StepAside

LEMMA DrainedKeeps ==
  ASSUME WritesInv, NEW p \in Producer, Drained(p)
  PROVE  WritesInv'
  <1> DEFINE to == IF failed THEN "failed" ELSE IF IsText(p) THEN "gather" ELSE "write"
  <1>1. /\ Goes(p, to) /\ pc[p] = "drain" /\ UNCHANGED <<emitted, todo, buffer, waiting, chain, log, failed>>
        /\ chain = <<>> /\ waiting = <<>>
    BY DEF Drained
  <1>2. /\ todo' \in [Producer -> SUBSET Stream] /\ pc[p] \notin Done /\ ~Waits(p) /\ to \in AppendPlace \ Done
        /\ (to = "write" => ~IsText(p) /\ ~failed) /\ (to = "gather" => IsText(p)) /\ to \notin {"drain", "flush", "flushing", "written", "idle"}
    <2>1. todo' \in [Producer -> SUBSET Stream] /\ pc[p] \notin Done /\ ~Waits(p)
      BY <1>1 DEF WritesInv, WritesTypeOK, Done, Waits
    <2> QED BY <2>1 DEF AppendPlace, Done
  <1> HIDE DEF to
  <1>3. pc'[p] = to /\ (\A s \in Producer : s # p => pc'[s] = pc[s])
    BY <1>1, CallMoves
  <1>4. ~failed => BufferFlushed'
    BY <1>1, <1>2, <1>3, LaneFacts DEF BufferFlushed, WritesInv, WritesFlow
  <1>5. ASSUME ~failed PROVE EventAlone'
    <2>1. \A s : StoredOf(s)' = StoredOf(s)
      BY <1>1 DEF StoredOf
    <2> SUFFICES ASSUME NEW q \in Producer, pc'[q] \in {"write", "written"}, ~IsText(q), NEW m \in 1..(Number(q) - 1)
                 PROVE  m \in StoredOf(emitted[q][m])
      BY <1>1, <2>1 DEF EventAlone, Number, IsText, LaneNow
    <2>2. CASE q # p
      <3>1. pc[q] \in {"write", "written"}
        BY <2>2, <1>3
      <3> QED BY <3>1, <1>5 DEF WritesInv, WritesFlow, EventAlone
    <2>3. CASE q = p
      <3> DEFINE s == emitted[p][m]
      <3>1. m \in 1..Number(p) /\ HandedOn(p) = Number(p) - 1 /\ p \in Lane
        BY <2>3, <1>1, EmittedFacts, LaneFacts DEF HandedOn
      <3>2. s \in Lane /\ Emitter(s) = p /\ (s \in Stream \/ s = p)
        BY <3>1, EmittedFacts, LaneFacts
      <3>3. m \in HandedOf(s)
        BY <2>3, <3>1, <3>2 DEF HandedOf
      <3> HIDE DEF s
      <3>4. m \in StoredOf(s) \cup OnPipe(s) \cup ItemsOf(BufferOf(s))
        BY <3>2, <3>3, <1>5 DEF WritesInv, WritesFlow, NothingLost
      <3>5. OnPipe(s) = {}
        <4>1. Pipe = <<>> /\ 1..Len(Pipe) = {}
          BY <1>1 DEF Pipe
        <4> QED BY <4>1 DEF OnPipe
      <3>6. BufferOf(s) = <<>>
        <4>1. s \in Stream => TurnOf[s] = p
          BY <3>2, LaneFacts
        <4> QED BY <4>1, <1>1, <1>5 DEF BufferOf, WritesInv, WritesFlow, BufferFlushed
      <3>7. ItemsOf(BufferOf(s)) = {}
        BY <3>6 DEF ItemsOf
      <3> QED BY <3>4, <3>5, <3>7, <2>3 DEF s
    <2> QED BY <2>2, <2>3
  <1> QED BY <1>1, <1>2, <1>4, <1>5, StepAside

LEMMA NumberSame ==
  ASSUME emitted' = emitted
  PROVE  \A q \in Producer : Number(q)' = Number(q) /\ LaneNow(q)' = LaneNow(q) /\ (IsText(q)' <=> IsText(q))
  BY DEF Number, LaneNow, IsText

(* Who finds the queue failed is not heard of again.                       *)
LEMMA RefusedKeeps ==
  ASSUME WritesInv, NEW p \in Producer, Refused(p)
  PROVE  WritesInv'
  <1>1. /\ failed /\ pc[p] # "idle" /\ Goes(p, "failed")
        /\ UNCHANGED <<emitted, todo, buffer, waiting, chain, log, failed>>
    BY DEF Refused
  <1>2. WritesTypeOK'
    <2>1. pc' \in [Producer -> AppendPlace]
      BY <1>1 DEF WritesInv, WritesTypeOK, Goes, AppendPlace
    <2> QED BY <2>1, <1>1 DEF WritesInv, WritesTypeOK
  <1>3. CallKnown' /\ LogRises' /\ LogKnown' /\ LogFollows'
    BY <1>1, CallStays, LogSame
  <1> QED BY <1>1, <1>2, <1>3 DEF WritesInv

(* The failure: what is stored stays as it is.                             *)
LEMMA WriteFailsKeeps ==
  ASSUME WritesInv, WriteFails
  PROVE  WritesInv'
  <1>1. /\ failed' = TRUE /\ chain' = <<>> /\ waiting' = <<>> /\ UNCHANGED <<emitted, todo, buffer, log>>
        /\ pc' = [p \in Producer |-> IF pc[p] \in {"written", "parting", "flushing"} THEN "failed" ELSE pc[p]]
    BY DEF WriteFails
  <1>2. WritesTypeOK'
    <2>1. pc' \in [Producer -> AppendPlace]
      BY <1>1 DEF WritesInv, WritesTypeOK, AppendPlace
    <2>2. chain' \in Seq(Write) /\ waiting' \in Seq(Write) /\ Len(chain') <= MaxWrites
      BY <1>1, WritesAssumption
    <2> QED BY <2>1, <2>2, <1>1 DEF WritesInv, WritesTypeOK
  <1>3. CallKnown'
    <2>1. \A q \in Producer : pc'[q] = pc[q] \/ (pc'[q] = "failed" /\ pc[q] # "idle")
      BY <1>1
    <2> QED BY <2>1, <1>1, NumberSame DEF WritesInv, CallKnown
  <1> QED BY <1>1, <1>2, <1>3, LogSame DEF WritesInv

(* More is emitted: by a new call, or the next part of a text.             *)
LEMMA EmittedMore ==
  ASSUME WritesInv, NEW p \in Producer, NEW l \in Lanes(p), NEW to \in {"admit", "gather"}, Goes(p, to),
         pc[p] = "idle" \/ (pc[p] = "part" /\ l = LaneNow(p)), to = "gather" => pc[p] = "part", Number(p) < MaxEmits[p],
         emitted' = [emitted EXCEPT ![p] = Append(@, l)], UNCHANGED <<todo, buffer, waiting, chain, log, failed>>
  PROVE  WritesInv'
  <1>1. pc'[p] = to /\ \A q \in Producer : q # p => pc'[q] = pc[q]
    BY CallMoves
  <1>2. emitted \in [Producer -> Seq(Lane)] /\ emitted[p] \in Seq(Lanes(p)) /\ l \in Lane
    BY EmittedFacts, LaneFacts DEF WritesInv, WritesTypeOK
  <1>3. /\ emitted'[p] = Append(emitted[p], l) /\ \A q \in Producer : q # p => emitted'[q] = emitted[q]
        /\ emitted[p] \in Seq(Lane) /\ emitted' \in [Producer -> Seq(Lane)]
    BY <1>2, AppendProperties
  <1>4. /\ emitted'[p] \in Seq(Lanes(p)) /\ Len(emitted'[p]) = Number(p) + 1 /\ emitted'[p][Number(p) + 1] = l
        /\ \A m \in 1..Number(p) : emitted'[p][m] = emitted[p][m]
    BY <1>2, <1>3, AppendProperties DEF Number
  <1>5. /\ Number(p) \in Nat /\ Number(p)' = Number(p) + 1 /\ LaneNow(p)' = l
        /\ \A q \in Producer : q # p => Number(q)' = Number(q) /\ LaneNow(q)' = LaneNow(q)
    <2>1. Number(p) \in Nat /\ Number(p)' = Number(p) + 1
      BY <1>4, EmittedFacts DEF Number
    <2>2. LaneNow(p)' = l
      BY <2>1, <1>4 DEF LaneNow
    <2>3. \A q \in Producer : q # p => Number(q)' = Number(q) /\ LaneNow(q)' = LaneNow(q)
      BY <1>3 DEF Number, LaneNow
    <2> QED BY <2>1, <2>2, <2>3
  <1>6. WritesTypeOK'
    <2>1. pc' \in [Producer -> AppendPlace]
      BY DEF WritesInv, WritesTypeOK, Goes, AppendPlace
    <2>2. \A q \in Producer : emitted'[q] \in Seq(Lanes(q)) /\ Len(emitted'[q]) <= MaxEmits[q]
      <3> TAKE q \in Producer
      <3>1. CASE q = p
        BY <3>1, <1>4, EmittedFacts
      <3>2. CASE q # p
        BY <3>2, <1>3 DEF WritesInv, WritesTypeOK
      <3> QED BY <3>1, <3>2
    <2> QED BY <2>1, <2>2, <1>3 DEF WritesInv, WritesTypeOK, Lanes
  <1>7. CallKnown'
    <2>1. to = "gather" => l \in Stream
      BY DEF WritesInv, CallKnown, IsText
    <2>2. \A q \in Producer : IsText(q)' <=> LaneNow(q)' \in Stream
      BY DEF IsText
    <2> SUFFICES ASSUME NEW q \in Producer
                 PROVE  /\ pc'[q] # "idle" => Number(q)' > 0
                        /\ pc'[q] = "write" => LaneNow(q)' \notin Stream
                        /\ pc'[q] \in {"gather", "parting", "part"} => LaneNow(q)' \in Stream
      BY <2>2 DEF CallKnown
    <2>3. CASE q = p
      BY <2>1, <2>3, <1>1, <1>5
    <2>4. CASE q # p
      BY <2>4, <1>1, <1>5 DEF WritesInv, CallKnown, IsText
    <2> QED BY <2>3, <2>4
  <1>8. LogRises' /\ LogKnown' /\ LogFollows'
    <2>1. \A q \in Producer : /\ Number(q)' \in Nat /\ Number(q) <= Number(q)'
                              /\ \A m \in 1..Number(q) : emitted'[q][m] = emitted[q][m]
      <3> TAKE q \in Producer
      <3>1. CASE q = p
        BY <3>1, <1>4, <1>5
      <3>2. CASE q # p
        BY <3>2, <1>3, <1>5, EmittedFacts
      <3> QED BY <3>1, <3>2
    <2> QED BY <2>1, LogStays
  <1>9. ASSUME ~failed PROVE WritesFlow'
    <2>1. \A s \in Lane : HandedOf(s)' = HandedOf(s)
      <3> TAKE s \in Lane
      <3>0. Emitter(s) \in Producer /\ Emitter(s)' = Emitter(s)
        BY LaneFacts DEF Emitter
      <3>1. CASE Emitter(s) = p
        <4>1. HandedOn(p) = Number(p) /\ HandedOn(p)' = Number(p)
          BY <1>1, <1>5 DEF HandedOn
        <4>2. \A m \in 1..Number(p) : emitted'[p][m] = emitted[p][m]
          BY <1>4
        <4> QED BY <3>0, <3>1, <4>1, <4>2 DEF HandedOf
      <3>2. CASE Emitter(s) # p
        <4>1. HandedOn(Emitter(s))' = HandedOn(Emitter(s)) /\ emitted'[Emitter(s)] = emitted[Emitter(s)]
          BY <3>0, <3>2, <1>1, <1>3, <1>5 DEF HandedOn
        <4> QED BY <3>0, <4>1 DEF HandedOf
      <3> QED BY <3>1, <3>2
    <2>2. PipeRises' /\ BufferRises' /\ NothingLost' /\ WaitersMeanFull'
      BY <1>9, <2>1, NothingMoved
    <2>3. WriterWaits'
      <3>1. Pipe' = Pipe /\ \A q \in Producer : Waits(q) => Waits(q)'
        BY <1>1 DEF Pipe, Waits
      <3> QED BY <3>1, <1>9 DEF WritesInv, WritesFlow, WriterWaits
    <2>4. BufferFlushed'
      BY <1>1, <1>9, LaneFacts DEF BufferFlushed, WritesInv, WritesFlow
    <2>5. \A s : StoredOf(s)' = StoredOf(s)
      BY DEF StoredOf
    <2>6. EventsFirst'
      <3> SUFFICES ASSUME NEW q \in Producer, NEW m \in 1..Number(q)', emitted'[q][m] = q,
                          m < Number(q)' \/ pc'[q] = "idle"
                   PROVE  m \in StoredOf(q)
        BY <2>5 DEF EventsFirst
      <3>1. CASE q = p
        <4>1. m \in 1..Number(p) /\ emitted[p][m] = p
          BY <3>1, <1>1, <1>4, <1>5
        <4>2. m < Number(p) \/ pc[p] = "idle"
          <5>1. pc[p] = "part" => LaneNow(p) \in Stream /\ p \notin Stream
            BY LaneFacts DEF WritesInv, CallKnown, IsText
          <5> QED BY <4>1, <5>1, <1>5 DEF LaneNow
        <4> QED BY <4>1, <4>2, <3>1, <1>9 DEF WritesInv, WritesFlow, EventsFirst
      <3>2. CASE q # p
        BY <3>2, <1>1, <1>3, <1>5, <1>9 DEF WritesInv, WritesFlow, EventsFirst
      <3> QED BY <3>1, <3>2
    <2>7. EventAlone'
      <3> SUFFICES ASSUME NEW q \in Producer, pc'[q] \in {"write", "written"}, LaneNow(q)' \notin Stream,
                          NEW m \in 1..(Number(q)' - 1)
                   PROVE  m \in StoredOf(emitted'[q][m])
        BY <2>5 DEF EventAlone, IsText
      <3>1. q # p
        BY <1>1
      <3> QED BY <3>1, <1>1, <1>3, <1>5, <1>9 DEF WritesInv, WritesFlow, EventAlone, IsText
    <2> QED BY <2>2, <2>3, <2>4, <2>6, <2>7 DEF WritesFlow
  <1> QED BY <1>6, <1>7, <1>8, <1>9 DEF WritesInv

LEMMA EmitKeeps ==
  ASSUME WritesInv, NEW p \in Producer, Emit(p)
  PROVE  WritesInv'
  <1>1. PICK l \in Lanes(p) : emitted' = [emitted EXCEPT ![p] = Append(@, l)]
    BY DEF Emit
  <1> QED BY <1>1, EmittedMore DEF Emit

LEMMA NextPartKeeps ==
  ASSUME WritesInv, NEW p \in Producer, NextPart(p)
  PROVE  WritesInv'
  <1>1. LaneNow(p) \in Lanes(p)
    BY EmittedFacts DEF NextPart
  <1> QED BY <1>1, EmittedMore DEF NextPart

(* A write under way or waiting is put there: what it takes to keep the    *)
(* invariant.                                                              *)
LEMMA PutKeeps ==
  ASSUME WritesInv, NEW w \in Write, Enter(w), UNCHANGED <<emitted, log, failed>>,
         buffer' \in [Stream -> Seq(Count)], pc' \in [Producer -> AppendPlace], todo' \in [Producer -> SUBSET Stream],
         \A s \in Lane : BufferOf(s)' = IF s = w.stream THEN <<>> ELSE BufferOf(s),
         w.stream \in Producer => w.by = w.stream, CallKnown',
         ~failed => /\ Rising(w.items) /\ Below(StoredOf(w.stream) \cup OnPipe(w.stream), ItemsOf(w.items))
                    /\ \A s \in Lane : HandedOf(s)' = IF s = w.stream
                                                      THEN StoredOf(s) \cup OnPipe(s) \cup ItemsOf(w.items)
                                                      ELSE HandedOf(s)
                    /\ \A p \in Producer : (Waits(p) => Waits(p)') /\ (w.by = p => ~Waits(p) /\ Waits(p)')
                    /\ BufferFlushed' /\ EventsFirst' /\ EventAlone'
  PROVE  WritesInv'
  <1>1. LogRises' /\ LogKnown' /\ LogFollows'
    BY LogSame
  <1>2. ASSUME ~failed PROVE WritesInv'
    <2>1. PipeRises' /\ BufferRises' /\ NothingLost' /\ WaitersMeanFull'
      BY <1>2, PutInPipe
    <2>2. WriterWaits'
      BY <1>2, WriterPut
    <2>3. chain' \in Seq(Write) /\ waiting' \in Seq(Write) /\ Len(chain') <= MaxWrites
      BY <1>2, Entering
    <2>4. WritesTypeOK'
      BY <2>3 DEF WritesInv, WritesTypeOK
    <2> QED BY <2>1, <2>2, <2>4, <1>1, <1>2 DEF WritesInv, WritesFlow
  <1>3. ASSUME failed PROVE WritesInv'
    <2>1. UNCHANGED <<chain, waiting>>
      BY <1>3 DEF Enter
    <2>2. WritesTypeOK'
      BY <2>1 DEF WritesInv, WritesTypeOK
    <2> QED BY <2>2, <1>1, <1>3 DEF WritesInv
  <1> QED BY <1>2, <1>3

(* A call with text that returns, or waits for its write.                  *)
LEMMA TextHanded ==
  ASSUME WritesInv, NEW p \in Producer, NEW to \in {"idle", "written", "parting"}, Goes(p, to), AtText(p),
         UNCHANGED <<emitted, todo, log, failed>>
  PROVE  /\ pc'[p] = to /\ (\A s \in Producer : s # p => pc'[s] = pc[s]) /\ ~Waits(p)
         /\ LaneNow(p) \in Stream /\ TurnOf[LaneNow(p)] = p /\ Number(p) \in Count
         /\ pc' \in [Producer -> AppendPlace] /\ CallKnown'
         /\ ~failed => /\ \A s \in Lane : HandedOf(s)' = IF s = LaneNow(p) THEN HandedOf(s) \cup {Number(p)} ELSE HandedOf(s)
                       /\ \A i \in HandedOf(LaneNow(p)) : i \in Nat /\ i < Number(p)
                       /\ EventsFirst' /\ EventAlone'
  <1>1. pc'[p] = to /\ (\A s \in Producer : s # p => pc'[s] = pc[s])
    BY CallMoves
  <1>2. pc[p] \in {"admit", "gather"} /\ LaneNow(p) \in Stream
    BY DEF AtText, Admitted, IsText
  <1>3. LaneNow(p) \in Lanes(p) /\ Number(p) \in Count /\ Number(p) \in Nat
    BY <1>2, EmittedFacts
  <1>4. Emitter(LaneNow(p)) = p /\ TurnOf[LaneNow(p)] = p /\ LaneNow(p) \in Lane
    BY <1>2, <1>3, LaneFacts
  <1>5. pc' \in [Producer -> AppendPlace]
    BY DEF WritesInv, WritesTypeOK, Goes, AppendPlace
  <1>6. CallKnown'
    BY <1>2, CallStays DEF IsText
  <1>7. ASSUME ~failed PROVE \A s \in Lane : HandedOf(s)' = IF s = LaneNow(p) THEN HandedOf(s) \cup {Number(p)} ELSE HandedOf(s)
    BY <1>1, <1>2, HandsOver DEF Done
  <1>8. \A i \in HandedOf(LaneNow(p)) : i \in Nat /\ i < Number(p)
    <2>1. HandedOn(p) = Number(p) - 1
      BY <1>2 DEF HandedOn
    <2> QED BY <2>1, <1>3, <1>4 DEF HandedOf
  <1>9. ASSUME ~failed PROVE EventsFirst' /\ EventAlone'
    <2>1. \A q \in Producer : /\ pc'[q] = "idle" => pc[q] = "idle" \/ LaneNow(q) \in Stream
                              /\ pc'[q] \in {"write", "written"} => pc[q] \in {"write", "written"} \/ LaneNow(q) \in Stream
      BY <1>1, <1>2
    <2> QED BY <2>1, <1>9, EventsStay
  <1>10. ~Waits(p)
    BY <1>2 DEF Waits
  <1> QED BY <1>1, <1>2, <1>3, <1>4, <1>5, <1>6, <1>7, <1>8, <1>9, <1>10

(* The parts of the stream it is added to.                                 *)
LEMMA TextAdded ==
  ASSUME WritesInv, ~failed, NEW s \in Stream, NEW n \in Count, \A i \in HandedOf(s) : i \in Nat /\ i < n
  PROVE  /\ HandedOf(s) = StoredOf(s) \cup OnPipe(s) \cup ItemsOf(buffer[s])
         /\ Append(buffer[s], n) \in Seq(Count) /\ Rising(Append(buffer[s], n))
         /\ ItemsOf(Append(buffer[s], n)) = ItemsOf(buffer[s]) \cup {n}
         /\ Below(StoredOf(s) \cup OnPipe(s), ItemsOf(Append(buffer[s], n)))
  <1>1. s \in Lane /\ BufferOf(s) = buffer[s]
    BY LaneFacts DEF BufferOf
  <1>2. /\ HandedOf(s) = StoredOf(s) \cup OnPipe(s) \cup ItemsOf(buffer[s])
        /\ Rising(buffer[s]) /\ Below(StoredOf(s) \cup OnPipe(s), ItemsOf(buffer[s]))
    BY <1>1 DEF WritesInv, WritesFlow, NothingLost, BufferRises
  <1>3. buffer[s] \in Seq(Count)
    BY DEF WritesInv, WritesTypeOK
  <1>4. \A i \in ItemsOf(buffer[s]) : i < n
    BY <1>2
  <1>5. /\ Append(buffer[s], n) \in Seq(Count) /\ Rising(Append(buffer[s], n))
        /\ ItemsOf(Append(buffer[s], n)) = ItemsOf(buffer[s]) \cup {n}
    BY <1>2, <1>3, <1>4, ItemsAppended
  <1>6. \A i \in StoredOf(s) \cup OnPipe(s) : i < n
    BY <1>2
  <1> QED BY <1>2, <1>5, <1>6 DEF Below

LEMMA GatherDeltaKeeps ==
  ASSUME WritesInv, NEW p \in Producer, GatherDelta(p)
  PROVE  WritesInv'
  <1> DEFINE n == Number(p)
             s == LaneNow(p)
  <1>1. /\ Goes(p, "idle") /\ AtText(p) /\ buffer' = [buffer EXCEPT ![s] = Append(@, n)]
        /\ UNCHANGED <<emitted, todo, waiting, chain, log, failed>>
    BY DEF GatherDelta
  <1>2. /\ pc'[p] = "idle" /\ (\A q \in Producer : q # p => pc'[q] = pc[q]) /\ ~Waits(p)
        /\ s \in Stream /\ TurnOf[s] = p /\ n \in Count
        /\ pc' \in [Producer -> AppendPlace] /\ CallKnown'
        /\ ~failed => /\ \A t \in Lane : HandedOf(t)' = IF t = s THEN HandedOf(t) \cup {n} ELSE HandedOf(t)
                      /\ \A i \in HandedOf(s) : i \in Nat /\ i < n
                      /\ EventsFirst' /\ EventAlone'
    BY <1>1, TextHanded
  <1> HIDE DEF n, s
  <1>3. s \in Lane /\ buffer \in [Stream -> Seq(Count)]
    BY <1>2, LaneFacts DEF WritesInv, WritesTypeOK
  <1>4. buffer'[s] = Append(buffer[s], n) /\ \A t \in Stream : t # s => buffer'[t] = buffer[t]
    BY <1>1, <1>2, <1>3
  <1>5. WritesTypeOK'
    <2>1. buffer' \in [Stream -> Seq(Count)]
      BY <1>1, <1>2, <1>3, AppendProperties
    <2> QED BY <2>1, <1>1, <1>2 DEF WritesInv, WritesTypeOK
  <1>6. ASSUME ~failed PROVE WritesFlow'
    <2>1. /\ HandedOf(s) = StoredOf(s) \cup OnPipe(s) \cup ItemsOf(buffer[s])
          /\ Rising(buffer'[s]) /\ ItemsOf(buffer'[s]) = ItemsOf(buffer[s]) \cup {n}
          /\ Below(StoredOf(s) \cup OnPipe(s), ItemsOf(buffer'[s]))
      BY <1>2, <1>4, <1>6, TextAdded
    <2>2. Pipe' = Pipe /\ (\A t : StoredOf(t)' = StoredOf(t)) /\ (\A t : OnPipe(t)' = OnPipe(t))
      BY <1>1, PartsSame
    <2>3. \A t \in Lane : BufferOf(t)' = IF t = s THEN buffer'[s] ELSE BufferOf(t)
      BY <1>2, <1>4 DEF BufferOf
    <2>4. BufferRises'
      <3> SUFFICES ASSUME NEW t \in Lane
                   PROVE  Rising(BufferOf(t)') /\ Below(StoredOf(t) \cup OnPipe(t), ItemsOf(BufferOf(t)'))
        BY <2>2 DEF BufferRises
      <3>1. CASE t = s
        <4>1. BufferOf(t)' = buffer'[s]
          BY <3>1, <2>3
        <4> QED BY <4>1, <3>1, <2>1
      <3>2. CASE t # s
        <4>1. BufferOf(t)' = BufferOf(t)
          BY <3>2, <2>3
        <4> QED BY <4>1, <1>6 DEF WritesInv, WritesFlow, BufferRises
      <3> QED BY <3>1, <3>2
    <2>5. NothingLost'
      <3> SUFFICES ASSUME NEW t \in Lane
                   PROVE  HandedOf(t)' = StoredOf(t) \cup OnPipe(t) \cup ItemsOf(BufferOf(t)')
        BY <2>2 DEF NothingLost
      <3>1. CASE t = s
        <4>1. HandedOf(t)' = HandedOf(s) \cup {n}
          BY <3>1, <1>2, <1>6
        <4> QED BY <4>1, <3>1, <2>1, <2>3
      <3>2. CASE t # s
        <4>1. BufferOf(t)' = BufferOf(t) /\ HandedOf(t)' = HandedOf(t)
          BY <3>2, <2>3, <1>2, <1>6
        <4> QED BY <4>1, <1>6 DEF WritesInv, WritesFlow, NothingLost
      <3> QED BY <3>1, <3>2
    <2>6. PipeRises' /\ WaitersMeanFull'
      BY <1>1, <1>6, <2>2 DEF WritesInv, WritesFlow, PipeRises, WaitersMeanFull
    <2>7. BufferFlushed'
      <3> SUFFICES ASSUME NEW t \in Stream
                   PROVE  /\ pc'[TurnOf[t]] = "drain" => buffer'[t] = <<>>
                          /\ pc'[TurnOf[t]] \in {"flush", "flushing"} => buffer'[t] = <<>> \/ t \in todo[TurnOf[t]]
        BY <1>1 DEF BufferFlushed
      <3>1. CASE TurnOf[t] = p
        BY <3>1, <1>2
      <3>2. CASE TurnOf[t] # p
        BY <3>2, <1>2, <1>4, <1>6, LaneFacts DEF WritesInv, WritesFlow, BufferFlushed
      <3> QED BY <3>1, <3>2
    <2>8. WriterWaits'
      <3>1. \A q \in Producer : Waits(q) => Waits(q)'
        BY <1>2 DEF Waits
      <3> QED BY <3>1, <2>2, <1>6 DEF WritesInv, WritesFlow, WriterWaits
    <2> QED BY <2>4, <2>5, <2>6, <2>7, <2>8, <1>2, <1>6 DEF WritesFlow
  <1> QED BY <1>1, <1>2, <1>5, <1>6, LogSame DEF WritesInv

LEMMA FillDeltaKeeps ==
  ASSUME WritesInv, NEW p \in Producer, FillDelta(p)
  PROVE  WritesInv'
  <1> DEFINE n == Number(p)
             s == LaneNow(p)
  <1>1. PICK to \in {"written", "parting"} : Goes(p, to)
    BY DEF FillDelta
  <1>2. /\ AtText(p) /\ buffer' = [buffer EXCEPT ![s] = <<>>]
        /\ Enter([stream |-> s, items |-> Append(buffer[s], n), by |-> p])
        /\ UNCHANGED <<emitted, todo, log, failed>>
    BY DEF FillDelta
  <1>3. /\ pc'[p] = to /\ (\A q \in Producer : q # p => pc'[q] = pc[q]) /\ ~Waits(p)
        /\ s \in Stream /\ TurnOf[s] = p /\ n \in Count
        /\ pc' \in [Producer -> AppendPlace] /\ CallKnown'
        /\ ~failed => /\ \A t \in Lane : HandedOf(t)' = IF t = s THEN HandedOf(t) \cup {n} ELSE HandedOf(t)
                      /\ \A i \in HandedOf(s) : i \in Nat /\ i < n
                      /\ EventsFirst' /\ EventAlone'
    BY <1>1, <1>2, TextHanded
  <1> HIDE DEF n, s
  <1>4. s \in Lane /\ s \notin Producer /\ buffer \in [Stream -> Seq(Count)] /\ Append(buffer[s], n) \in Seq(Count)
    BY <1>3, LaneFacts, AppendProperties DEF WritesInv, WritesTypeOK
  <1>5. PICK w \in Write : w = [stream |-> s, items |-> Append(buffer[s], n), by |-> p]
    BY <1>4 DEF Write
  <1>6. w.stream = s /\ w.by = p /\ w.items = Append(buffer[s], n) /\ Enter(w)
    BY <1>2, <1>5
  <1>7. buffer' \in [Stream -> Seq(Count)] /\ \A t \in Stream : buffer'[t] = IF t = s THEN <<>> ELSE buffer[t]
    <2>1. <<>> \in Seq(Count)
      OBVIOUS
    <2> QED BY <2>1, <1>2, <1>4
  <1>8. \A t \in Lane : BufferOf(t)' = IF t = w.stream THEN <<>> ELSE BufferOf(t)
    BY <1>6, <1>7, <1>3 DEF BufferOf
  <1>9. todo' \in [Producer -> SUBSET Stream]
    BY <1>2 DEF WritesInv, WritesTypeOK
  <1>10. ASSUME ~failed
         PROVE  /\ Rising(w.items) /\ Below(StoredOf(w.stream) \cup OnPipe(w.stream), ItemsOf(w.items))
                /\ \A t \in Lane : HandedOf(t)' = IF t = w.stream THEN StoredOf(t) \cup OnPipe(t) \cup ItemsOf(w.items)
                                                  ELSE HandedOf(t)
                /\ \A q \in Producer : (Waits(q) => Waits(q)') /\ (w.by = q => ~Waits(q) /\ Waits(q)')
                /\ BufferFlushed'
    <2>1. /\ HandedOf(s) = StoredOf(s) \cup OnPipe(s) \cup ItemsOf(buffer[s])
          /\ Rising(w.items) /\ ItemsOf(w.items) = ItemsOf(buffer[s]) \cup {n}
          /\ Below(StoredOf(s) \cup OnPipe(s), ItemsOf(w.items))
      BY <1>3, <1>6, <1>10, TextAdded
    <2>2. \A t \in Lane : HandedOf(t)' = IF t = w.stream THEN StoredOf(t) \cup OnPipe(t) \cup ItemsOf(w.items) ELSE HandedOf(t)
      <3> TAKE t \in Lane
      <3>1. CASE t = s
        <4>1. HandedOf(t)' = HandedOf(s) \cup {n}
          BY <3>1, <1>3, <1>10
        <4> QED BY <4>1, <3>1, <2>1, <1>6
      <3>2. CASE t # s
        BY <3>2, <1>3, <1>6, <1>10
      <3> QED BY <3>1, <3>2
    <2>3. \A q \in Producer : (Waits(q) => Waits(q)') /\ (w.by = q => ~Waits(q) /\ Waits(q)')
      BY <1>3, <1>6 DEF Waits
    <2>4. BufferFlushed'
      <3> SUFFICES ASSUME NEW t \in Stream
                   PROVE  /\ pc'[TurnOf[t]] = "drain" => buffer'[t] = <<>>
                          /\ pc'[TurnOf[t]] \in {"flush", "flushing"} => buffer'[t] = <<>> \/ t \in todo[TurnOf[t]]
        BY <1>2 DEF BufferFlushed
      <3>1. CASE TurnOf[t] = p
        BY <3>1, <1>3
      <3>2. CASE TurnOf[t] # p
        BY <3>2, <1>3, <1>7, <1>10, LaneFacts DEF WritesInv, WritesFlow, BufferFlushed
      <3> QED BY <3>1, <3>2
    <2> QED BY <2>1, <2>2, <2>3, <2>4, <1>6
  <1>11. w.stream \in Producer => w.by = w.stream
    BY <1>4, <1>6
  <1> QED BY <1>2, <1>3, <1>6, <1>7, <1>8, <1>9, <1>10, <1>11, PutKeeps

(* An event is written when all before it is.                              *)
LEMMA WriteEventKeeps ==
  ASSUME WritesInv, NEW p \in Producer, WriteEvent(p)
  PROVE  WritesInv'
  <1> DEFINE n == Number(p)
  <1>1. /\ Goes(p, "written") /\ pc[p] = "write" /\ UNCHANGED <<emitted, todo, buffer, log, failed>>
        /\ Enter([stream |-> p, items |-> <<n>>, by |-> p])
    BY DEF WriteEvent
  <1>2. pc'[p] = "written" /\ (\A q \in Producer : q # p => pc'[q] = pc[q]) /\ ~Waits(p)
    BY <1>1, CallMoves DEF Waits
  <1>3. n \in Count /\ n \in Nat /\ LaneNow(p) = p /\ p \in Lane /\ p \notin Stream /\ Emitter(p) = p
    <2>1. LaneNow(p) \in Lanes(p) /\ LaneNow(p) \notin Stream /\ n \in Count /\ n \in Nat
      BY <1>1, EmittedFacts DEF WritesInv, CallKnown, IsText
    <2> QED BY <2>1, LaneFacts
  <1> HIDE DEF n
  <1>4. PICK w \in Write : w = [stream |-> p, items |-> <<n>>, by |-> p]
    BY <1>3, OneItem DEF Write
  <1>5. w.stream = p /\ w.by = p /\ w.items = <<n>> /\ Enter(w)
    BY <1>1, <1>4
  <1>6. \A t \in Lane : BufferOf(t)' = IF t = w.stream THEN <<>> ELSE BufferOf(t)
    BY <1>1, <1>3, <1>5 DEF BufferOf
  <1>7. pc' \in [Producer -> AppendPlace] /\ todo' \in [Producer -> SUBSET Stream] /\ buffer' \in [Stream -> Seq(Count)]
    BY <1>1 DEF WritesInv, WritesTypeOK, Goes, AppendPlace
  <1>8. CallKnown'
    BY <1>1, CallStays
  <1>9. ASSUME ~failed
        PROVE  /\ Rising(w.items) /\ Below(StoredOf(w.stream) \cup OnPipe(w.stream), ItemsOf(w.items))
               /\ \A t \in Lane : HandedOf(t)' = IF t = w.stream THEN StoredOf(t) \cup OnPipe(t) \cup ItemsOf(w.items)
                                                 ELSE HandedOf(t)
               /\ \A q \in Producer : (Waits(q) => Waits(q)') /\ (w.by = q => ~Waits(q) /\ Waits(q)')
               /\ BufferFlushed' /\ EventsFirst' /\ EventAlone'
    <2>1. Rising(w.items) /\ ItemsOf(w.items) = {n}
      BY <1>3, <1>5, OneItem
    <2>2. \A t \in Lane : HandedOf(t)' = IF t = p THEN HandedOf(t) \cup {n} ELSE HandedOf(t)
      <3>1. pc[p] \notin Done /\ pc'[p] \in Done
        BY <1>1, <1>2 DEF Done
      <3> QED BY <3>1, <1>1, <1>2, <1>3, HandsOver DEF n
    <2>3. HandedOf(p) = StoredOf(p) \cup OnPipe(p)
      <3>1. BufferOf(p) = <<>>
        BY <1>3 DEF BufferOf
      <3>2. ItemsOf(BufferOf(p)) = {}
        BY <3>1 DEF ItemsOf
      <3> QED BY <3>2, <1>3, <1>9 DEF WritesInv, WritesFlow, NothingLost
    <2>4. Below(StoredOf(p) \cup OnPipe(p), ItemsOf(w.items))
      <3>1. HandedOn(p) = n - 1
        BY <1>1 DEF HandedOn, n
      <3>2. \A i \in HandedOf(p) : i \in Nat /\ i < n
        BY <3>1, <1>3 DEF HandedOf
      <3> QED BY <3>2, <2>1, <2>3 DEF Below
    <2>5. \A t \in Lane : HandedOf(t)' = IF t = w.stream THEN StoredOf(t) \cup OnPipe(t) \cup ItemsOf(w.items) ELSE HandedOf(t)
      <3> TAKE t \in Lane
      <3>1. CASE t = p
        <4>1. HandedOf(t)' = HandedOf(p) \cup {n}
          BY <3>1, <2>2
        <4> QED BY <4>1, <3>1, <2>1, <2>3, <1>5
      <3>2. CASE t # p
        BY <3>2, <2>2, <1>5
      <3> QED BY <3>1, <3>2
    <2>6. \A q \in Producer : (Waits(q) => Waits(q)') /\ (w.by = q => ~Waits(q) /\ Waits(q)')
      BY <1>2, <1>5 DEF Waits
    <2>7. BufferFlushed'
      BY <1>1, <1>2, <1>9, LaneFacts DEF BufferFlushed, WritesInv, WritesFlow
    <2>8. EventsFirst' /\ EventAlone'
      <3>1. \A q \in Producer : /\ pc'[q] = "idle" => pc[q] = "idle"
                                /\ pc'[q] \in {"write", "written"} => pc[q] \in {"write", "written"}
        BY <1>1, <1>2
      <3> QED BY <3>1, <1>1, <1>9, EventsStay
    <2> QED BY <2>1, <2>4, <2>5, <2>6, <2>7, <2>8, <1>5
  <1>10. w.stream \in Producer => w.by = w.stream
    BY <1>5
  <1> QED BY <1>1, <1>5, <1>6, <1>7, <1>8, <1>9, <1>10, PutKeeps

(* A buffer is written, by the timer or by a call that flushes.            *)
LEMMA FlushKeeps ==
  ASSUME WritesInv, NEW s \in Stream, NEW by \in Producer \cup {"timer"}, Flush(s, by),
         UNCHANGED <<emitted, log, failed>>, pc' \in [Producer -> AppendPlace], todo' \in [Producer -> SUBSET Stream],
         CallKnown', \A q \in Producer : pc'[q] \in Done <=> pc[q] \in Done,
         ~failed => /\ \A p \in Producer : (Waits(p) => Waits(p)') /\ (by = p => ~Waits(p) /\ Waits(p)')
                    /\ BufferFlushed' /\ EventsFirst' /\ EventAlone'
  PROVE  WritesInv'
  <1>1. s \in Lane /\ s \notin Producer /\ buffer \in [Stream -> Seq(Count)] /\ BufferOf(s) = buffer[s]
    BY LaneFacts DEF WritesInv, WritesTypeOK, BufferOf
  <1>2. PICK w \in Write : w = [stream |-> s, items |-> buffer[s], by |-> by]
    BY <1>1 DEF Write
  <1>3. w.stream = s /\ w.by = by /\ w.items = buffer[s] /\ Enter(w) /\ buffer' = [buffer EXCEPT ![s] = <<>>]
    BY <1>2 DEF Flush
  <1>4. buffer' \in [Stream -> Seq(Count)] /\ \A t \in Stream : buffer'[t] = IF t = s THEN <<>> ELSE buffer[t]
    <2>1. <<>> \in Seq(Count)
      OBVIOUS
    <2> QED BY <2>1, <1>1, <1>3
  <1>5. \A t \in Lane : BufferOf(t)' = IF t = w.stream THEN <<>> ELSE BufferOf(t)
    BY <1>3, <1>4 DEF BufferOf
  <1>6. \A t \in Lane : HandedOf(t)' = HandedOf(t)
    BY HandsSame
  <1>7. ASSUME ~failed
        PROVE  /\ Rising(w.items) /\ Below(StoredOf(w.stream) \cup OnPipe(w.stream), ItemsOf(w.items))
               /\ \A t \in Lane : HandedOf(t)' = IF t = w.stream THEN StoredOf(t) \cup OnPipe(t) \cup ItemsOf(w.items)
                                                 ELSE HandedOf(t)
    BY <1>1, <1>3, <1>6, <1>7 DEF WritesInv, WritesFlow, BufferRises, NothingLost
  <1> QED BY <1>1, <1>3, <1>4, <1>5, <1>7, PutKeeps

LEMMA TimerKeeps ==
  ASSUME WritesInv, NEW s \in Stream, Timer(s)
  PROVE  WritesInv'
  <1>1. Flush(s, "timer") /\ UNCHANGED <<emitted, pc, todo, log, failed>> /\ buffer' = [buffer EXCEPT ![s] = <<>>]
    BY DEF Timer, Flush
  <1>2. pc' \in [Producer -> AppendPlace] /\ todo' \in [Producer -> SUBSET Stream] /\ CallKnown'
    BY <1>1, NumberSame DEF WritesInv, WritesTypeOK, CallKnown
  <1>3. \A q \in Producer : (Waits(q) => Waits(q)') /\ "timer" # q /\ (pc'[q] \in Done <=> pc[q] \in Done)
    BY <1>1, LaneFacts DEF Waits
  <1>4. ~failed => BufferFlushed'
    BY <1>1 DEF BufferFlushed, WritesInv, WritesTypeOK, WritesFlow
  <1>5. ~failed => EventsFirst' /\ EventAlone'
    BY <1>1, EventsStay
  <1> QED BY <1>1, <1>2, <1>3, <1>4, <1>5, FlushKeeps

LEMMA FlushNextKeeps ==
  ASSUME WritesInv, NEW p \in Producer, FlushNext(p)
  PROVE  WritesInv'
  <1>1. pc[p] = "flush" /\ UNCHANGED <<emitted, log, failed>>
    BY DEF FlushNext
  <1>2. todo \in [Producer -> SUBSET Stream] /\ pc \in [Producer -> AppendPlace]
    BY DEF WritesInv, WritesTypeOK
  <1>3. CASE todo[p] = {} /\ Goes(p, "drain") /\ UNCHANGED <<todo, buffer, waiting, chain>>
    <2>1. pc'[p] = "drain" /\ (\A s \in Producer : s # p => pc'[s] = pc[s])
      BY <1>3, CallMoves
    <2>2. pc[p] \notin Done /\ ~Waits(p) /\ "drain" \in AppendPlace \ Done
      BY <1>1 DEF Done, Waits, AppendPlace
    <2>3. ~failed => BufferFlushed'
      BY <1>1, <1>3, <2>1, LaneFacts DEF BufferFlushed, WritesInv, WritesFlow
    <2>4. ~failed => EventAlone'
      <3>1. \A q \in Producer : /\ pc'[q] = "idle" => pc[q] = "idle"
                                /\ pc'[q] \in {"write", "written"} => pc[q] \in {"write", "written"}
        BY <2>1
      <3> QED BY <3>1, <1>1, EventsStay
    <2> QED BY <1>1, <1>2, <1>3, <2>2, <2>3, <2>4, StepAside
  <1>4. ASSUME NEW s \in todo[p], todo' = [todo EXCEPT ![p] = @ \ {s}], buffer[s] = <<>>,
               UNCHANGED <<pc, buffer, waiting, chain>>
        PROVE  WritesInv'
    <2>1. WritesTypeOK'
      BY <1>1, <1>2, <1>4 DEF WritesInv, WritesTypeOK
    <2>2. CallKnown' /\ LogRises' /\ LogKnown' /\ LogFollows'
      BY <1>1, <1>4, NumberSame, LogSame DEF WritesInv, CallKnown
    <2>3. ASSUME ~failed PROVE WritesFlow'
      <3>1. \A t \in Lane : HandedOf(t)' = HandedOf(t)
        BY <1>1, <1>4, HandsSame
      <3>2. PipeRises' /\ BufferRises' /\ NothingLost' /\ WaitersMeanFull'
        BY <3>1, <2>3, <1>1, <1>4, NothingMoved
      <3>3. WriterWaits'
        BY <2>3, <1>4 DEF Pipe, Waits, WritesInv, WritesFlow, WriterWaits
      <3>4. BufferFlushed'
        BY <2>3, <1>1, <1>2, <1>4, LaneFacts DEF WritesInv, WritesFlow, BufferFlushed
      <3>5. EventsFirst' /\ EventAlone'
        BY <2>3, <1>1, <1>4, EventsStay
      <3> QED BY <3>2, <3>3, <3>4, <3>5 DEF WritesFlow
    <2> QED BY <2>1, <2>2, <2>3, <1>1 DEF WritesInv
  <1>5. ASSUME NEW s \in todo[p], todo' = [todo EXCEPT ![p] = @ \ {s}], Flush(s, p), Goes(p, "flushing")
        PROVE  WritesInv'
    <2>1. s \in Stream /\ p \in Producer \cup {"timer"} /\ buffer' = [buffer EXCEPT ![s] = <<>>] /\ buffer \in [Stream -> Seq(Count)]
      BY <1>2, <1>5 DEF WritesInv, WritesTypeOK, Flush
    <2>2. pc' \in [Producer -> AppendPlace] /\ todo' \in [Producer -> SUBSET Stream]
      BY <1>2, <1>5 DEF Goes, AppendPlace
    <2>3. pc'[p] = "flushing" /\ (\A q \in Producer : q # p => pc'[q] = pc[q])
      BY <1>5, CallMoves
    <2>4. \A q \in Producer : (pc'[q] \in Done <=> pc[q] \in Done) /\ (Waits(q) => Waits(q)') /\ (p = q => ~Waits(q) /\ Waits(q)')
      BY <1>1, <2>3 DEF Done, Waits
    <2>5. CallKnown'
      BY <1>1, <1>5, CallStays
    <2>6. ASSUME ~failed PROVE BufferFlushed'
      <3> SUFFICES ASSUME NEW t \in Stream
                   PROVE  /\ pc'[TurnOf[t]] = "drain" => buffer'[t] = <<>>
                          /\ pc'[TurnOf[t]] \in {"flush", "flushing"} => buffer'[t] = <<>> \/ t \in todo'[TurnOf[t]]
        BY DEF BufferFlushed
      <3>1. CASE t = s
        BY <3>1, <2>1
      <3>2. CASE t # s
        <4>1. buffer'[t] = buffer[t] /\ TurnOf[t] \in Producer /\ (t \in todo'[TurnOf[t]] <=> t \in todo[TurnOf[t]])
          BY <3>2, <2>1, <1>2, <1>5, LaneFacts
        <4> QED BY <4>1, <2>3, <2>6, <1>1 DEF WritesInv, WritesFlow, BufferFlushed
      <3> QED BY <3>1, <3>2
    <2>7. ~failed => EventsFirst' /\ EventAlone'
      <3>1. \A q \in Producer : /\ pc'[q] = "idle" => pc[q] = "idle"
                                /\ pc'[q] \in {"write", "written"} => pc[q] \in {"write", "written"}
        BY <2>3
      <3> QED BY <3>1, <1>1, EventsStay
    <2> QED BY <1>1, <1>5, <2>1, <2>2, <2>4, <2>5, <2>6, <2>7, FlushKeeps
  <1> QED BY <1>1, <1>3, <1>4, <1>5 DEF FlushNext

(* The caller of a finished write goes on: nobody else does.               *)
LEMMA StoredKeeps ==
  ASSUME WritesInv, Stored
  PROVE  WritesInv'
  <1>1. /\ chain # <<>> /\ ~failed /\ log' = log \o Numbered(Head(chain)) /\ NextInChain
        /\ UNCHANGED <<emitted, todo, buffer, failed>>
    BY DEF Stored
  <1>2. /\ chain' \in Seq(Write) /\ waiting' \in Seq(Write) /\ Len(chain') <= MaxWrites
        /\ Len(Pipe) >= 1 /\ Pipe[1] = Head(chain) /\ 1 \in 1..Len(Pipe)
        /\ \A k \in 1..Len(Pipe') : k + 1 \in 1..Len(Pipe) /\ Pipe'[k] = Pipe[k + 1]
    <2>1. Len(Pipe) >= 1 => 1 \in 1..Len(Pipe)
      BY WritesFacts
    <2> QED BY <2>1, <1>1, Leaving
  <1>3. PICK w \in Write : w = Pipe[1]
    BY <1>2, WritesFacts
  <1>4. PICK by \in Producer \cup {"timer"} : by = w.by
    BY <1>3 DEF Write
  <1>5. by \in Producer => /\ Waits(by) /\ by # "timer"
                           /\ \A j \in 1..Len(Pipe) : Pipe[j].by = by => j = 1
    BY <1>1, <1>2, <1>3, <1>4, LaneFacts DEF WritesInv, WritesFlow, WriterWaits
  <1>6. pc \in [Producer -> AppendPlace] /\ w = Head(chain) /\ log' = log \o Numbered(w)
    BY <1>1, <1>2, <1>3 DEF WritesInv, WritesTypeOK
  <1>7. pc' = IF by = "timer" THEN pc
              ELSE [pc EXCEPT ![by] = CASE pc[by] = "flushing" -> "flush" [] pc[by] = "parting" -> "part" [] OTHER -> "idle"]
    BY <1>4, <1>6 DEF Stored, Resumes
  <1>8. \A q \in Producer :
          IF q = by THEN \/ pc[q] = "flushing" /\ pc'[q] = "flush"
                         \/ pc[q] = "parting" /\ pc'[q] = "part"
                         \/ pc[q] = "written" /\ pc'[q] = "idle"
          ELSE pc'[q] = pc[q]
    <2> TAKE q \in Producer
    <2>1. CASE q = by
      <3>1. pc[q] \in {"flushing", "written", "parting"}
        BY <2>1, <1>5 DEF Waits
      <3>2. pc'[q] = CASE pc[q] = "flushing" -> "flush" [] pc[q] = "parting" -> "part" [] OTHER -> "idle"
        BY <2>1, <1>5, <1>6, <1>7
      <3> QED BY <3>1, <3>2, <2>1
    <2>2. CASE q # by
      BY <2>2, <1>4, <1>6, <1>7
    <2> QED BY <2>1, <2>2
  <1>9. pc' \in [Producer -> AppendPlace]
    <2>1. CASE by = "timer"
      BY <2>1, <1>6, <1>7
    <2>2. CASE by # "timer"
      <3>1. by \in Producer /\ pc'[by] \in AppendPlace
        BY <2>2, <1>8 DEF AppendPlace
      <3>2. PICK to : pc' = [pc EXCEPT ![by] = to]
        BY <2>2, <1>7
      <3>3. to = pc'[by]
        BY <3>1, <3>2, <1>6
      <3> QED BY <3>1, <3>2, <3>3, <1>6
    <2> QED BY <2>1, <2>2
  <1>10. \A s \in Lane : HandedOf(s)' = HandedOf(s)
    <2>1. \A q \in Producer : pc'[q] \in Done <=> pc[q] \in Done
      BY <1>8 DEF Done
    <2> QED BY <2>1, <1>1, HandsSame
  <1>11. PipeRises' /\ BufferRises' /\ NothingLost' /\ WaitersMeanFull'
    BY <1>1, <1>6, <1>10, StoredInTurn
  <1>12. LogRises' /\ LogKnown' /\ LogFollows' /\ log' \in Seq(Item)
    BY <1>1, <1>2, <1>3, <1>6, StoredFollows, LogGrows
  <1>13. CallKnown'
    <2> SUFFICES ASSUME NEW q \in Producer
                 PROVE  /\ pc'[q] # "idle" => Number(q) > 0
                        /\ pc'[q] = "write" => ~IsText(q)
                        /\ pc'[q] \in {"gather", "parting", "part"} => IsText(q)
      BY <1>1, NumberSame DEF CallKnown
    <2> QED BY <1>8 DEF WritesInv, CallKnown
  <1>14. WriterWaits'
    <2>1. ASSUME NEW p \in Producer, NEW k \in 1..Len(Pipe'), Pipe'[k].by = p
          PROVE  Waits(p)' /\ \A j \in 1..Len(Pipe') : Pipe'[j].by = p => j = k
      <3>1. k \in Nat /\ k + 1 \in 1..Len(Pipe) /\ Pipe[k + 1].by = p /\ k + 1 # 1
        BY <1>2, <2>1
      <3>2. Waits(p) /\ \A j \in 1..Len(Pipe) : Pipe[j].by = p => j = k + 1
        BY <3>1, <1>1 DEF WritesInv, WritesFlow, WriterWaits
      <3>3. p # by
        BY <3>1, <3>2, <1>2, <1>3, <1>4
      <3>4. Waits(p)'
        BY <3>2, <3>3, <1>8 DEF Waits
      <3>5. ASSUME NEW j \in 1..Len(Pipe'), Pipe'[j].by = p PROVE j = k
        <4>1. j + 1 = k + 1
          BY <3>2, <3>5, <1>2
        <4> QED BY <4>1, <3>1
      <3> QED BY <3>4, <3>5
    <2>2. ASSUME NEW p \in Producer, NEW k \in 1..Len(Pipe'), Pipe'[k].stream = p
          PROVE  Pipe'[k].by = p
      BY <2>2, <1>1, <1>2 DEF WritesInv, WritesFlow, WriterWaits
    <2> QED BY <2>1, <2>2 DEF WriterWaits
  <1>15. BufferFlushed'
    <2> SUFFICES ASSUME NEW s \in Stream
                 PROVE  /\ pc'[TurnOf[s]] = "drain" => buffer[s] = <<>>
                        /\ pc'[TurnOf[s]] \in {"flush", "flushing"} => buffer[s] = <<>> \/ s \in todo[TurnOf[s]]
      BY <1>1 DEF BufferFlushed
    <2> QED BY <1>1, <1>8, LaneFacts DEF WritesInv, WritesFlow, BufferFlushed
  <1>16. \A s \in Lane : /\ StoredOf(s) \subseteq StoredOf(s)'
                         /\ s = w.stream => ItemsOf(w.items) \subseteq StoredOf(s)'
    BY <1>6, LogGrows
  <1>17. EventsFirst'
    <2> SUFFICES ASSUME NEW p \in Producer, NEW m \in 1..Number(p), emitted[p][m] = p,
                        m < Number(p) \/ pc'[p] = "idle"
                 PROVE  m \in StoredOf(p)'
      BY <1>1 DEF EventsFirst, Number
    <2>0. p \in Lane /\ Emitter(p) = p /\ p \notin Stream /\ Number(p) \in Nat
      BY LaneFacts, EmittedFacts
    <2>1. CASE m < Number(p) \/ pc[p] = "idle"
      <3>1. m \in StoredOf(p)
        BY <2>1, <1>1 DEF WritesInv, WritesFlow, EventsFirst
      <3> QED BY <3>1, <2>0, <1>16
    <2>2. CASE ~(m < Number(p) \/ pc[p] = "idle")
      <3>1. p = by /\ pc[p] = "written" /\ m = Number(p)
        BY <2>0, <2>2, <1>8
      <3>2. HandedOn(p) = Number(p)
        BY <3>1 DEF HandedOn
      <3>3. m \in HandedOf(p)
        BY <3>1, <3>2, <2>0 DEF HandedOf
      <3>4. BufferOf(p) = <<>>
        BY <2>0 DEF BufferOf
      <3>5. ItemsOf(BufferOf(p)) = {}
        BY <3>4 DEF ItemsOf
      <3>6. m \in StoredOf(p) \/ m \in OnPipe(p)
        BY <3>3, <3>5, <2>0, <1>1 DEF WritesInv, WritesFlow, NothingLost
      <3>7. ASSUME m \in OnPipe(p) PROVE m \in StoredOf(p)'
        <4>1. PICK r \in 1..Len(Pipe) : Pipe[r].stream = p /\ m \in ItemsOf(Pipe[r].items)
          BY <3>7 DEF OnPipe
        <4>2. Pipe[r].by = p
          BY <4>1, <1>1 DEF WritesInv, WritesFlow, WriterWaits
        <4>3. r = 1
          BY <4>2, <3>1, <1>5
        <4> QED BY <4>1, <4>3, <2>0, <1>3, <1>16
      <3> QED BY <3>6, <3>7, <2>0, <1>16
    <2> QED BY <2>1, <2>2
  <1>18. EventAlone'
    <2> SUFFICES ASSUME NEW p \in Producer, pc'[p] \in {"write", "written"}, ~IsText(p), NEW m \in 1..(Number(p) - 1)
                 PROVE  m \in StoredOf(emitted[p][m])'
      BY <1>1, NumberSame DEF EventAlone
    <2>1. pc[p] \in {"write", "written"}
      BY <1>8
    <2>2. m \in StoredOf(emitted[p][m])
      BY <2>1, <1>1 DEF WritesInv, WritesFlow, EventAlone
    <2>3. PICK l \in Lane : l = emitted[p][m]
      <3>1. m \in 1..Number(p)
        BY EmittedFacts
      <3> QED BY <3>1, EmittedFacts
    <2>4. m \in StoredOf(l)'
      BY <2>2, <2>3, <1>16
    <2> QED BY <2>3, <2>4, <1>1 DEF StoredOf
  <1>19. WritesTypeOK'
    BY <1>1, <1>2, <1>9, <1>12 DEF WritesInv, WritesTypeOK
  <1> QED BY <1>1, <1>11, <1>12, <1>13, <1>14, <1>15, <1>17, <1>18, <1>19 DEF WritesInv, WritesFlow

LEMMA WritesInitial == WritesInit => WritesInv
  <1> SUFFICES ASSUME WritesInit PROVE WritesInv
    OBVIOUS
  <1>1. Pipe = <<>> /\ Len(Pipe) = 0 /\ Len(log) = 0
    BY DEF WritesInit, Pipe
  <1>2. \A p \in Producer : emitted[p] = <<>> /\ Number(p) = 0 /\ pc[p] = "idle" /\ HandedOn(p) = 0
    BY DEF WritesInit, Number, HandedOn
  <1>3. \A s \in Lane : BufferOf(s) = <<>>
    BY DEF WritesInit, BufferOf
  <1>4. \A s \in Lane : ItemsOf(BufferOf(s)) = {} /\ Rising(BufferOf(s)) /\ StoredOf(s) = {} /\ OnPipe(s) = {}
                        /\ HandedOf(s) = {}
    <2> TAKE s \in Lane
    <2>1. ItemsOf(BufferOf(s)) = {} /\ Rising(BufferOf(s))
      BY <1>3 DEF ItemsOf, Rising
    <2>2. StoredOf(s) = {} /\ OnPipe(s) = {}
      BY <1>1 DEF StoredOf, OnPipe
    <2>3. HandedOf(s) = {}
      BY <1>2, LaneFacts DEF HandedOf
    <2> QED BY <2>1, <2>2, <2>3
  <1>5. LogRises /\ LogKnown /\ LogFollows /\ PipeRises /\ WriterWaits
    BY <1>1 DEF LogRises, LogKnown, LogFollows, PipeRises, WriterWaits
  <1>6. BufferRises /\ NothingLost
    BY <1>4 DEF BufferRises, NothingLost, Below
  <1>7. BufferFlushed /\ WaitersMeanFull /\ CallKnown /\ EventsFirst /\ EventAlone
    BY <1>2, LaneFacts DEF BufferFlushed, WaitersMeanFull, WritesInit, CallKnown, EventsFirst, EventAlone
  <1>8. WritesTypeOK
    <2>1. <<>> \in Seq(Lane) /\ (\A p \in Producer : <<>> \in Seq(Lanes(p))) /\ <<>> \in Seq(Count)
          /\ <<>> \in Seq(Write) /\ <<>> \in Seq(Item) /\ Len(<<>>) = 0
      OBVIOUS
    <2>2. emitted \in [Producer -> Seq(Lane)] /\ todo \in [Producer -> SUBSET Stream]
          /\ pc \in [Producer -> AppendPlace] /\ buffer \in [Stream -> Seq(Count)]
      BY <2>1 DEF WritesInit, AppendPlace
    <2>3. \A p \in Producer : emitted[p] \in Seq(Lanes(p)) /\ Len(emitted[p]) <= MaxEmits[p]
      <3> TAKE p \in Producer
      <3>1. MaxEmits[p] \in Nat
        BY WritesAssumption
      <3>2. emitted[p] = <<>>
        BY <1>2
      <3> QED BY <2>1, <3>1, <3>2
    <2>4. waiting \in Seq(Write) /\ chain \in Seq(Write) /\ log \in Seq(Item) /\ Len(chain) <= MaxWrites
      BY <2>1, WritesAssumption DEF WritesInit
    <2> QED BY <2>2, <2>3, <2>4 DEF WritesInit, WritesTypeOK
  <1> QED BY <1>5, <1>6, <1>7, <1>8 DEF WritesInv, WritesFlow

LEMMA WritesStep == WritesInv /\ [WritesNext]_writesVars => WritesInv'
  <1> SUFFICES ASSUME WritesInv, [WritesNext]_writesVars PROVE WritesInv'
    OBVIOUS
  <1>1. CASE UNCHANGED writesVars
    <2>1. UNCHANGED <<emitted, pc, todo, buffer, waiting, chain, log, failed>>
      BY <1>1 DEF writesVars
    <2>2. WritesTypeOK' /\ CallKnown' /\ LogRises' /\ LogKnown' /\ LogFollows'
      BY <2>1, NumberSame, LogSame DEF WritesInv, WritesTypeOK, CallKnown
    <2>3. ASSUME ~failed PROVE WritesFlow'
      <3>1. \A s \in Lane : HandedOf(s)' = HandedOf(s)
        BY <2>1, HandsSame
      <3>2. PipeRises' /\ BufferRises' /\ NothingLost' /\ WaitersMeanFull'
        BY <3>1, <2>1, <2>3, NothingMoved
      <3>3. WriterWaits' /\ BufferFlushed'
        BY <2>1, <2>3 DEF Pipe, Waits, WritesInv, WritesFlow, WriterWaits, BufferFlushed
      <3>4. EventsFirst' /\ EventAlone'
        BY <2>1, <2>3, EventsStay
      <3> QED BY <3>2, <3>3, <3>4 DEF WritesFlow
    <2> QED BY <2>1, <2>2, <2>3 DEF WritesInv
  <1>2. ASSUME NEW p \in Producer, ProducerStep(p) PROVE WritesInv'
    BY <1>2, GatherDeltaKeeps, FillDeltaKeeps, NextPartKeeps, BeginFlushKeeps, FlushNextKeeps, DrainedKeeps, WriteEventKeeps
       DEF ProducerStep
  <1> QED BY <1>1, <1>2, EmitKeeps, TimerKeeps, RefusedKeeps, StoredKeeps, WriteFailsKeeps DEF WritesNext

LEMMA WritesInvariant == WritesSpec => []WritesInv
  BY WritesInitial, WritesStep, PTL DEF WritesSpec

(* Whatever the number of turns and of the streams of one, the capacity of *)
(* the chain and of the buffers and the moments at which timers fire,      *)
(* buffers fill and a write fails: nothing is stored twice, and what is    *)
(* stored has all that it follows before it.                               *)
THEOREM EventsStoredInOrder == WritesSpec => []StoredInOrder
  <1>1. WritesInv => StoredInOrder
    <2> SUFFICES ASSUME WritesInv, NEW k \in 1..Len(log)
                 PROVE  /\ \A j \in 1..(k - 1) : log[j] # log[k]
                        /\ \A m \in 1..Number(Emitter(log[k][1])) : Follows(Emitter(log[k][1]), m, log[k][2])
                             => \E j \in 1..(k - 1) : log[j] = <<emitted[Emitter(log[k][1])][m], m>>
      BY DEF StoredInOrder, Number
    <2>1. \A j \in 1..(k - 1) : log[j] # log[k]
      <3> SUFFICES ASSUME NEW j \in 1..(k - 1), log[j] = log[k] PROVE FALSE
        OBVIOUS
      <3>1. j \in 1..Len(log) /\ j < k
        BY WritesFacts
      <3>2. log[j][2] < log[k][2] /\ log[k][2] \in Nat
        BY <3>1, WritesFacts DEF WritesInv, LogRises, Count
      <3> QED BY <3>2
    <2> QED BY <2>1 DEF WritesInv, LogFollows, Behind
  <1> QED BY <1>1, WritesInvariant, PTL

=============================================================================
