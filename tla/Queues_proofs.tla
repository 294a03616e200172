---------------------------- MODULE Queues_proofs ----------------------------
(***************************************************************************)
(* What TLAPS proves about the queues in memory: that of background work,  *)
(* for any number of jobs, keys, slots and waits, of jobs and of the work  *)
(* they set off in another queue; and that of browser requests, for any    *)
(* number of requests, polls and desktops.                                 *)
(***************************************************************************)
EXTENDS WorkerQueue, BrowserControl, FiniteSetTheorems, SequenceTheorems, TLAPS

(* A job holds its slot while it works, unless a guest has waited in it;   *)
(* it has been started as long as its receipt says so; and a guest that    *)
(* waits is counted as one that has waited.                                *)
SlotInv ==
  /\ \A j \in Job : Lent(j) \/ (held[j] <=> doing[j] = "working")
  /\ \A j \in Job : doing[j] = "none" <=> receipt[j] \in {"new", "queued"}
  /\ \A g \in Guest : doing[g] = "none" => waits[g] = 0
  /\ \A g \in Guest : doing[g] \in {"waiting", "resuming"} => waits[g] > 0

(* An entry of ready belongs to one piece of work, which waits for nothing *)
(* else: a job not yet started, or work that goes on in its slot.          *)
EntryOk(e) ==
  IF e.resume THEN doing[e.for] = "resuming" /\ Slot(e.for) = e.job
  ELSE e.for = e.job /\ receipt[e.job] = "queued"

EntryInv ==
  /\ \A i \in 1..Len(ready) : EntryOk(ready[i])
  /\ \A i, k \in 1..Len(ready) : ready[i].for = ready[k].for => i = k

KeyInv ==
  /\ \A j \in Job : UnderWay(j) /\ KeyOf[j] # 0 => KeyOf[j] \in activeKeys
  /\ \A k \in activeKeys : k # 0 /\ \E j \in Job : (UnderWay(j) \/ Lent(j)) /\ KeyOf[j] = k
  /\ \A i, j \in Job : UnderWay(i) /\ UnderWay(j) /\ KeyOf[i] = KeyOf[j] /\ KeyOf[i] # 0 => i = j

Holders == {j \in Job : held[j]}

CountInv ==
  /\ Cardinality(Holders) <= activeSlots /\ activeSlots <= Concurrency
  /\ (\E j \in Job : Lent(j)) \/ activeSlots = Cardinality(Holders)

QueueInv == QueueTypeOK /\ SlotInv /\ EntryInv /\ KeyInv /\ CountInv

LEMMA WithoutProperties ==
  ASSUME ready \in Seq(Entry), NEW i \in 1..Len(ready)
  PROVE  /\ Without(i) \in Seq(Entry)
         /\ Len(Without(i)) = Len(ready) - 1
         /\ \A k \in 1..(Len(ready) - 1) : Without(i)[k] = IF k < i THEN ready[k] ELSE ready[k + 1]
  <1> DEFINE front == SubSeq(ready, 1, i - 1)
             back  == SubSeq(ready, i + 1, Len(ready))
  <1>0. Len(ready) \in Nat /\ \A k \in 1..Len(ready) : ready[k] \in Entry
    BY LenProperties, ElementOfSeq
  <1>1. front \in Seq(Entry) /\ Len(front) = i - 1 /\ \A k \in 1..(i - 1) : front[k] = ready[k]
    <2>1. \A k \in 1..(i - 1) : ready[k] \in Entry
      BY <1>0
    <2> QED BY <1>0, <2>1, SubSeqProperties
  <1>2. back \in Seq(Entry) /\ Len(back) = Len(ready) - i
        /\ \A k \in 1..(Len(ready) - i) : back[k] = ready[i + k]
    <2>1. \A k \in (i + 1)..Len(ready) : ready[k] \in Entry
      BY <1>0
    <2> QED BY <1>0, <2>1, SubSeqProperties
  <1>3. Without(i) \in Seq(Entry) /\ Len(Without(i)) = Len(front) + Len(back)
        /\ \A k \in 1..(Len(front) + Len(back)) :
             Without(i)[k] = IF k <= Len(front) THEN front[k] ELSE back[k - Len(front)]
    BY <1>1, <1>2, ConcatProperties DEF Without
  <1> HIDE DEF front, back
  <1>4. Len(Without(i)) = Len(ready) - 1
    BY <1>0, <1>1, <1>2, <1>3
  <1>5. ASSUME NEW k \in 1..(Len(ready) - 1)
        PROVE  Without(i)[k] = IF k < i THEN ready[k] ELSE ready[k + 1]
    <2>1. CASE k < i
      <3>1. k \in 1..(i - 1) /\ k \in 1..(Len(front) + Len(back)) /\ k <= Len(front)
        BY <1>0, <1>1, <1>2, <2>1
      <3> QED BY <1>1, <1>3, <2>1, <3>1
    <2>2. CASE ~(k < i)
      <3>1. k - (i - 1) \in 1..(Len(ready) - i) /\ i + (k - (i - 1)) = k + 1
        BY <1>0, <2>2
      <3>2. Without(i)[k] = back[k - (i - 1)]
        <4>1. k \in 1..(Len(front) + Len(back)) /\ ~(k <= Len(front)) /\ Len(front) = i - 1
          BY <1>0, <1>1, <1>2, <2>2
        <4> QED BY <1>3, <4>1
      <3> QED BY <1>2, <2>2, <3>1, <3>2
    <2> QED BY <2>1, <2>2
  <1> QED BY <1>3, <1>4, <1>5

LEMMA AskProperties ==
  ASSUME ready \in Seq(Entry), NEW e \in Entry, Ask(e)
  PROVE  /\ ready' \in Seq(Entry)
         /\ Len(ready') = Len(ready) + 1
         /\ \A k \in 1..Len(ready) : ready'[k] = ready[k]
         /\ ready'[Len(ready) + 1] = e
  BY AppendProperties DEF Ask

(* One round of pump, at the entry it takes.                               *)
StartAt(i) ==
  LET e == ready[i] IN
  /\ pumping /\ activeSlots < Concurrency
  /\ Eligible(e)
  /\ ready' = Without(i)
  /\ activeSlots' = activeSlots + 1
  /\ activeKeys' = activeKeys \cup KeySet(e.job)
  /\ held' = [held EXCEPT ![e.job] = TRUE]
  /\ doing' = [doing EXCEPT ![e.for] = "working"]
  /\ receipt' = IF e.resume THEN receipt ELSE [receipt EXCEPT ![e.job] = "running"]
  /\ UNCHANGED <<pumping, pumpDue, awaited, waits, slotOf>>

LEMMA StartsOne == Start => \E i \in 1..Len(ready) : StartAt(i)
  BY DEF Start, StartAt

-----------------------------------------------------------------------------
(* Types.                                                                  *)
LEMMA ReleaseTyped ==
  ASSUME QueueTypeOK, NEW j, Release(j)
  PROVE  held' \in [Job -> BOOLEAN] /\ activeSlots' \in Int /\ pumping' \in BOOLEAN
  <1>1. held \in [Job -> BOOLEAN] /\ activeSlots \in Int /\ pumping \in BOOLEAN
    BY DEF QueueTypeOK
  <1>2. held' \in [Job -> BOOLEAN] /\ pumping' \in BOOLEAN
    BY <1>1 DEF Release
  <1>3. activeSlots' = activeSlots - 1 \/ activeSlots' = activeSlots
    BY Zenon DEF Release
  <1> QED BY <1>1, <1>2, <1>3

LEMMA QueueTypeStep == QueueTypeOK /\ [QueueNext]_queueVars => QueueTypeOK'
  <1> SUFFICES ASSUME QueueTypeOK, [QueueNext]_queueVars
               PROVE  QueueTypeOK'
    OBVIOUS
  <1> USE QueueKeyAssumption DEF QueueTypeOK, Work
  <1>1. CASE UNCHANGED queueVars
    BY <1>1 DEF queueVars
  <1>2. ASSUME NEW j \in Job, Enqueue(j)
        PROVE  QueueTypeOK'
    <2>1. [job |-> j, resume |-> FALSE, for |-> j] \in Entry
      BY DEF Entry
    <2>2. ready' \in Seq(Entry)
      BY <1>2, <2>1, AskProperties DEF Enqueue
    <2> QED BY <1>2, <2>2 DEF Enqueue
  <1>3. CASE Microtask \/ PumpEnds
    BY <1>3 DEF Microtask, PumpEnds
  <1>4. CASE Start
    <2>1. PICK i \in 1..Len(ready) : StartAt(i)
      BY <1>4, StartsOne
    <2>2. ready[i] \in Entry
      BY ElementOfSeq
    <2>3. ready' \in Seq(Entry)
      BY <2>1, WithoutProperties DEF StartAt
    <2>4. KeySet(ready[i].job) \subseteq Nat
      BY <2>2 DEF KeySet, Entry
    <2>5. activeSlots' \in Int /\ activeKeys' \subseteq Nat
      <3>1. activeSlots \in Int /\ activeKeys \subseteq Nat
        OBVIOUS
      <3>2. activeSlots' = activeSlots + 1 /\ activeKeys' = activeKeys \cup KeySet(ready[i].job)
        BY <2>1, Zenon DEF StartAt
      <3> HIDE DEF QueueTypeOK
      <3>3. activeSlots' \in Int
        BY <3>1, <3>2
      <3>4. activeKeys' \subseteq Nat
        BY <2>4, <3>1, <3>2
      <3> QED BY <3>3, <3>4
    <2>6. held' \in [Job -> BOOLEAN]
      BY <2>1 DEF StartAt
    <2>7. /\ doing' \in [Work -> {"none", "working", "waiting", "resuming", "over"}]
          /\ receipt' \in [Job -> {"new", "queued", "running", "ended"}]
      BY <2>1 DEF StartAt
    <2> QED BY <2>1, <2>3, <2>5, <2>6, <2>7 DEF StartAt
  <1>5. ASSUME NEW w \in Work, NEW x \in Work \cup {Outside}, Wait(w, x)
        PROVE  QueueTypeOK'
    <2>1. waits' \in [Work -> 0..MaxWaits]
      <3>1. waits[w] + 1 \in 0..MaxWaits
        BY <1>5, QueueSlotAssumption DEF Wait
      <3> QED BY <1>5, <3>1 DEF Wait
    <2>2. held' \in [Job -> BOOLEAN] /\ activeSlots' \in Int /\ pumping' \in BOOLEAN
      BY <1>5, ReleaseTyped DEF Wait
    <2>3. /\ doing' \in [Work -> {"none", "working", "waiting", "resuming", "over"}]
          /\ awaited' \in [Work -> Work \cup {Outside}]
      BY <1>5 DEF Wait
    <2> QED BY <1>5, <2>1, <2>2, <2>3 DEF Wait
  <1>6. ASSUME NEW w \in Work, Wake(w)
        PROVE  QueueTypeOK'
    <2>1. CASE Slot(w) = NoJob
      BY <1>6, <2>1 DEF Wake
    <2>2. CASE Slot(w) # NoJob
      <3>1. [job |-> Slot(w), resume |-> TRUE, for |-> w] \in Entry
        BY <2>2 DEF Entry, Slot
      <3>2. ready' \in Seq(Entry)
        BY <1>6, <2>2, <3>1, AskProperties DEF Wake
      <3> QED BY <1>6, <3>2 DEF Wake
    <2> QED BY <2>1, <2>2
  <1>7. ASSUME NEW j \in Job, Finish(j)
        PROVE  QueueTypeOK'
    <2>1. held' \in [Job -> BOOLEAN] /\ activeSlots' \in Int /\ pumping' \in BOOLEAN
      BY <1>7, ReleaseTyped DEF Finish
    <2>2. /\ doing' \in [Work -> {"none", "working", "waiting", "resuming", "over"}]
          /\ receipt' \in [Job -> {"new", "queued", "running", "ended"}]
          /\ activeKeys' \subseteq Nat
      BY <1>7 DEF Finish
    <2> QED BY <1>7, <2>1, <2>2 DEF Finish
  <1>8. ASSUME NEW g \in Guest, NEW j \in Job \cup {NoJob}, SetOff(g, j) \/ GuestEnds(g)
        PROVE  QueueTypeOK'
    BY <1>8 DEF SetOff, GuestEnds
  <1> QED BY <1>1, <1>2, <1>3, <1>4, <1>5, <1>6, <1>7, <1>8 DEF QueueNext, WorkOn

LEMMA EntryTyped ==
  ASSUME QueueTypeOK, NEW i \in 1..Len(ready)
  PROVE  ready[i] \in Entry /\ ready[i].job \in Job /\ ready[i].resume \in BOOLEAN /\ ready[i].for \in Work
  <1>1. ready[i] \in Entry
    BY ElementOfSeq DEF QueueTypeOK
  <1> QED BY <1>1 DEF Entry

LEMMA SlotTyped ==
  ASSUME QueueTypeOK, NEW w \in Work
  PROVE  /\ Slot(w) \in Job \cup {NoJob}
         /\ w \in Job => Slot(w) = w /\ w # NoJob /\ w \notin Guest
         /\ w \in Guest => Slot(w) = slotOf[w] /\ w \notin Job
  BY QueueJobAssumption DEF QueueTypeOK, Slot, Work

-----------------------------------------------------------------------------
(* Slots, entries, keys and their count.                                   *)
Parts == SlotInv /\ EntryInv /\ KeyInv /\ CountInv

(* What a guest has done to the slot of a job cannot be undone.            *)
LEMMA LentStays ==
  ASSUME QueueInv, [QueueNext]_queueVars
  PROVE  \A j \in Job : Lent(j) => Lent(j)'
  <1>0. QueueTypeOK /\ SlotInv
    BY DEF QueueInv
  <1>1. ASSUME NEW g \in Guest, waits[g] > 0
        PROVE  waits'[g] > 0 /\ slotOf'[g] = slotOf[g]
    <2>1. CASE UNCHANGED <<waits, slotOf>>
      BY <1>1, <2>1
    <2>2. ASSUME NEW w \in Work, NEW x \in Work \cup {Outside}, Wait(w, x)
          PROVE  waits'[g] > 0 /\ slotOf'[g] = slotOf[g]
      <3>1. waits' = [waits EXCEPT ![w] = waits[w] + 1] /\ slotOf' = slotOf
        BY <2>2 DEF Wait
      <3>2. waits \in [Work -> 0..MaxWaits] /\ g \in Work /\ MaxWaits \in Nat
        BY <1>0, QueueSlotAssumption DEF QueueTypeOK, Work
      <3>3. waits'[g] = waits[g] + 1 \/ waits'[g] = waits[g]
        BY <3>1, <3>2
      <3> QED BY <1>1, <3>1, <3>2, <3>3
    <2>3. ASSUME NEW h \in Guest, NEW j \in Job \cup {NoJob}, SetOff(h, j)
          PROVE  waits'[g] > 0 /\ slotOf'[g] = slotOf[g]
      <3>1. waits[h] = 0 /\ waits' = waits /\ slotOf' = [slotOf EXCEPT ![h] = j]
        BY <1>0, <2>3 DEF SetOff, SlotInv
      <3>2. g # h
        BY <1>1, <3>1
      <3> QED BY <1>0, <1>1, <3>1, <3>2 DEF QueueTypeOK
    <2>4. CASE UNCHANGED queueVars \/ Microtask \/ Start \/ PumpEnds \/ (\E j \in Job : Enqueue(j) \/ Finish(j))
               \/ (\E w \in Work : Wake(w)) \/ (\E h \in Guest : GuestEnds(h))
      <3>1. UNCHANGED <<waits, slotOf>>
        BY <2>4 DEF queueVars, Microtask, Start, PumpEnds, Enqueue, Finish, Wake, GuestEnds
      <3> QED BY <2>1, <3>1
    <2> QED BY <2>2, <2>3, <2>4 DEF QueueNext, WorkOn
  <1> QED BY <1>1 DEF Lent

LEMMA FreedStays ==
  ASSUME QueueInv, [QueueNext]_queueVars, NEW k, FreedUnseen(k)
  PROVE  FreedUnseen(k)'
  <1>0. QueueTypeOK /\ SlotInv
    BY DEF QueueInv
  <1>1. PICK j \in Job : Lent(j) /\ doing[j] = "over" /\ KeyOf[j] = k /\ k # 0
    BY DEF FreedUnseen
  <1>2. Lent(j)'
    BY <1>1, LentStays
  <1>3. doing'[j] = "over"
    <2>1. CASE Start
      <3>1. PICK i \in 1..Len(ready) : StartAt(i)
        BY <2>1, StartsOne
      <3>2. doing[ready[i].for] # "over"
        <4>1. EntryOk(ready[i]) /\ ready[i].job \in Job
          BY <1>0, EntryTyped DEF QueueInv, EntryInv
        <4> QED BY <1>0, <4>1 DEF EntryOk, SlotInv
      <3>3. doing' = [doing EXCEPT ![ready[i].for] = "working"] /\ j \in Work
        BY <3>1 DEF StartAt, Work
      <3> QED BY <1>0, <1>1, <3>2, <3>3 DEF QueueTypeOK
    <2>2. CASE UNCHANGED queueVars \/ Microtask \/ PumpEnds \/ (\E i \in Job : Enqueue(i))
      BY <1>1, <2>2 DEF queueVars, Microtask, PumpEnds, Enqueue
    <2>3. ASSUME NEW w \in Work, WorkOn(w) \/ Wake(w)
          PROVE  doing'[j] = "over"
      <3>1. doing[w] \in {"working", "waiting"} /\ \E d : doing' = [doing EXCEPT ![w] = d]
        BY <2>3 DEF WorkOn, Wait, Wake, Finish, GuestEnds
      <3>2. j # w /\ j \in Work
        BY <1>1, <3>1 DEF Work
      <3> QED BY <1>0, <1>1, <3>1, <3>2 DEF QueueTypeOK
    <2>4. ASSUME NEW g \in Guest, NEW i \in Job \cup {NoJob}, SetOff(g, i)
          PROVE  doing'[j] = "over"
      BY <1>0, <1>1, <2>4 DEF SetOff, QueueTypeOK, Work
    <2> QED BY <2>1, <2>2, <2>3, <2>4 DEF QueueNext
  <1> QED BY <1>1, <1>2, <1>3 DEF FreedUnseen

(* The keys, when no job begins or ends.                                   *)
LEMMA KeysStay ==
  ASSUME QueueInv, activeKeys' = activeKeys, \A j \in Job : UnderWay(j)' <=> UnderWay(j),
         \A j \in Job : Lent(j) => Lent(j)'
  PROVE  KeyInv'
  <1>1. \A j \in Job : UnderWay(j)' /\ KeyOf[j] # 0 => KeyOf[j] \in activeKeys'
    BY DEF QueueInv, KeyInv
  <1>2. \A k \in activeKeys' : k # 0 /\ \E j \in Job : (UnderWay(j)' \/ Lent(j)') /\ KeyOf[j] = k
    BY DEF QueueInv, KeyInv
  <1>3. \A i, j \in Job : UnderWay(i)' /\ UnderWay(j)' /\ KeyOf[i] = KeyOf[j] /\ KeyOf[i] # 0 => i = j
    BY DEF QueueInv, KeyInv
  <1> QED BY <1>1, <1>2, <1>3 DEF KeyInv

(* A step that concerns no job.                                            *)
LEMMA NoJobMoves ==
  ASSUME QueueInv, UNCHANGED <<ready, receipt, held, activeSlots, activeKeys>>,
         \A j \in Job : doing'[j] = doing[j],
         \A j \in Job : Lent(j) => Lent(j)',
         \A g \in Guest : doing[g] = "resuming" => doing'[g] = "resuming" /\ slotOf'[g] = slotOf[g],
         \A g \in Guest : doing'[g] = "none" => waits'[g] = 0,
         \A g \in Guest : doing'[g] \in {"waiting", "resuming"} => waits'[g] > 0
  PROVE  Parts'
  <1>0. QueueTypeOK
    BY DEF QueueInv
  <1>1. SlotInv'
    BY DEF QueueInv, SlotInv
  <1>2. EntryInv'
    <2>1. \A i \in 1..Len(ready) : ready[i].job \in Job /\ ready[i].for \in Work
      BY <1>0, EntryTyped
    <2>2. \A i \in 1..Len(ready) : EntryOk(ready[i])'
      BY <2>1 DEF QueueInv, EntryInv, EntryOk, Slot, Work
    <2> QED BY <2>2 DEF QueueInv, EntryInv
  <1>3. KeyInv'
    BY KeysStay DEF UnderWay
  <1>4. CountInv'
    BY DEF QueueInv, CountInv, Holders
  <1> QED BY <1>1, <1>2, <1>3, <1>4 DEF Parts

(* An entry is added for work that has none.                               *)
LEMMA AskKeepsEntries ==
  ASSUME QueueInv, NEW e \in Entry, Ask(e), EntryOk(e)',
         \A k \in 1..Len(ready) : ready[k].for # e.for /\ EntryOk(ready[k])
                                  => \A x : x = ready[k] => EntryOk(x)',
         \A k \in 1..Len(ready) : ready[k].for # e.for
  PROVE  EntryInv'
  <1>1. /\ Len(ready') = Len(ready) + 1 /\ Len(ready) \in Nat
        /\ \A k \in 1..Len(ready) : ready'[k] = ready[k]
        /\ ready'[Len(ready) + 1] = e
    BY AskProperties, LenProperties DEF QueueInv, QueueTypeOK
  <1>2. \A k \in 1..Len(ready') : k = Len(ready) + 1 \/ k \in 1..Len(ready)
    BY <1>1
  <1>3. ASSUME NEW k \in 1..Len(ready')
        PROVE  EntryOk(ready[k])'
    <2>1. CASE k = Len(ready) + 1
      BY <1>1, <2>1
    <2>2. CASE k \in 1..Len(ready)
      BY <1>1, <2>2 DEF QueueInv, EntryInv
    <2> QED BY <1>2, <2>1, <2>2
  <1>4. \A i, k \in 1..Len(ready') : ready'[i].for = ready'[k].for => i = k
    BY <1>1, <1>2 DEF QueueInv, EntryInv
  <1> QED BY <1>3, <1>4 DEF EntryInv

LEMMA EnqueueKeeps ==
  ASSUME QueueInv, NEW j \in Job, Enqueue(j), \A k \in Job : Lent(k) => Lent(k)'
  PROVE  Parts'
  <1> DEFINE e == [job |-> j, resume |-> FALSE, for |-> j]
  <1>0. QueueTypeOK
    BY DEF QueueInv
  <1>1. e \in Entry /\ Ask(e) /\ receipt[j] = "new" /\ receipt' = [receipt EXCEPT ![j] = "queued"]
        /\ UNCHANGED <<held, activeSlots, activeKeys, doing, waits, slotOf>>
    BY DEF Entry, Work, Enqueue
  <1>2. SlotInv'
    BY <1>0, <1>1 DEF QueueInv, SlotInv, QueueTypeOK
  <1>3. \A k \in 1..Len(ready) : ready[k].job \in Job /\ EntryOk(ready[k]) /\ ready[k].for # j
    <2>1. \A k \in 1..Len(ready) : ready[k].job \in Job /\ EntryOk(ready[k])
      BY <1>0, EntryTyped DEF QueueInv, EntryInv
    <2>2. doing[j] = "none"
      BY <1>1 DEF QueueInv, SlotInv
    <2> QED BY <1>1, <2>1, <2>2 DEF EntryOk
  <1>4. \A x : x.job \in Job /\ EntryOk(x) /\ x.for # j => EntryOk(x)'
    BY <1>0, <1>1 DEF EntryOk, Slot, QueueTypeOK
  <1>5. EntryInv'
    <2>1. EntryOk(e)'
      BY <1>0, <1>1 DEF EntryOk, QueueTypeOK
    <2>2. e.for = j
      OBVIOUS
    <2> HIDE DEF e
    <2> QED BY <1>1, <1>3, <1>4, <2>1, <2>2, AskKeepsEntries
  <1>6. KeyInv'
    BY <1>1, KeysStay DEF UnderWay
  <1>7. CountInv'
    BY <1>1 DEF QueueInv, CountInv, Holders
  <1> QED BY <1>2, <1>5, <1>6, <1>7 DEF Parts

(* pump starts a new job, whose key is free, or lets work go on in the     *)
(* slot of a job that has its key already or has lent it.                  *)
LEMMA StartKeeps ==
  ASSUME QueueInv, NEW i \in 1..Len(ready), StartAt(i), \A k \in Job : Lent(k) => Lent(k)'
  PROVE  Parts'
  <1> DEFINE j == ready[i].job
             w == ready[i].for
  <1>0. QueueTypeOK
    BY DEF QueueInv
  <1>1. j \in Job /\ w \in Work /\ ready[i].resume \in BOOLEAN
    BY <1>0, EntryTyped
  <1>2. /\ held' = [held EXCEPT ![j] = TRUE] /\ doing' = [doing EXCEPT ![w] = "working"]
        /\ activeSlots' = activeSlots + 1 /\ activeSlots < Concurrency
        /\ activeKeys' = activeKeys \cup KeySet(j) /\ slotOf' = slotOf /\ waits' = waits /\ ready' = Without(i)
    BY DEF StartAt
  <1>3. receipt' = IF ready[i].resume THEN receipt ELSE [receipt EXCEPT ![j] = "running"]
    BY DEF StartAt
  <1>4. IF ready[i].resume THEN doing[w] = "resuming" /\ Slot(w) = j ELSE w = j /\ receipt[j] = "queued" /\ doing[j] = "none"
    BY <1>1 DEF QueueInv, EntryInv, EntryOk, SlotInv
  <1>5. w = j \/ (w \in Guest /\ w \notin Job /\ Lent(j) /\ ready[i].resume)
    <2>1. CASE w \in Job
      BY <1>0, <1>1, <1>4, <2>1, SlotTyped
    <2>2. CASE w \in Guest
      <3>1. w \notin Job /\ ready[i].resume /\ slotOf[w] = j
        BY <1>0, <1>1, <1>4, <2>2, SlotTyped
      <3>2. waits[w] > 0
        BY <1>4, <2>2, <3>1 DEF QueueInv, SlotInv
      <3> QED BY <2>2, <3>1, <3>2 DEF Lent
    <2> QED BY <1>1, <2>1, <2>2 DEF Work
  <1> HIDE DEF j, w
  <1>6. SlotInv'
    <2>1. ASSUME NEW k \in Job
          PROVE  Lent(k)' \/ (held'[k] <=> doing'[k] = "working")
      <3>1. CASE k = j /\ w = j
        BY <1>0, <1>1, <1>2, <3>1 DEF QueueTypeOK
      <3>2. CASE k = j /\ w # j
        BY <1>1, <1>5, <3>2
      <3>3. CASE k # j
        <4>1. k # w /\ k \in Work
          BY <1>5, <3>3 DEF Work
        <4>2. held'[k] = held[k] /\ doing'[k] = doing[k]
          BY <1>0, <1>2, <3>3, <4>1 DEF QueueTypeOK
        <4> QED BY <4>2 DEF QueueInv, SlotInv
      <3> QED BY <3>1, <3>2, <3>3
    <2>2. ASSUME NEW k \in Job
          PROVE  doing'[k] = "none" <=> receipt'[k] \in {"new", "queued"}
      <3>1. doing[k] = "none" <=> receipt[k] \in {"new", "queued"}
        BY DEF QueueInv, SlotInv
      <3>2. doing'[k] = IF k = w THEN "working" ELSE doing[k]
        BY <1>0, <1>2 DEF QueueTypeOK, Work
      <3>3. receipt'[k] = IF k = j /\ ~ready[i].resume THEN "running" ELSE receipt[k]
        BY <1>0, <1>1, <1>3 DEF QueueTypeOK
      <3> QED BY <1>1, <1>4, <1>5, <3>1, <3>2, <3>3
    <2>3. ASSUME NEW g \in Guest
          PROVE  /\ doing'[g] = "none" => waits'[g] = 0
                 /\ doing'[g] \in {"waiting", "resuming"} => waits'[g] > 0
      <3>1. doing'[g] = IF g = w THEN "working" ELSE doing[g]
        BY <1>0, <1>2 DEF QueueTypeOK, Work
      <3> QED BY <1>2, <3>1 DEF QueueInv, SlotInv
    <2> QED BY <2>1, <2>2, <2>3 DEF SlotInv
  <1>7. EntryInv'
    <2> DEFINE old(k) == IF k < i THEN k ELSE k + 1
    <2>1. Len(ready) \in Nat /\ Len(ready') = Len(ready) - 1
      BY <1>0, <1>2, LenProperties, WithoutProperties DEF QueueTypeOK
    <2>2. \A k \in 1..Len(ready') : old(k) \in 1..Len(ready) /\ old(k) # i
      BY <2>1
    <2>3. \A k \in 1..Len(ready') : ready'[k] = ready[old(k)]
      BY <1>0, <1>2, <2>1, WithoutProperties DEF QueueTypeOK
    <2>4. \A k \in 1..Len(ready) : k # i => ready[k].job \in Job /\ ready[k].for \in Work /\ ready[k].for # w
      BY <1>0, EntryTyped DEF QueueInv, EntryInv, w
    <2>5. \A x : x.job \in Job /\ x.for \in Work /\ x.for # w /\ EntryOk(x) => EntryOk(x)'
      <3> SUFFICES ASSUME NEW x, x.job \in Job, x.for \in Work, x.for # w, EntryOk(x)
                   PROVE  EntryOk(x)'
        OBVIOUS
      <3>1. CASE x.resume
        BY <1>0, <1>2, <3>1 DEF EntryOk, QueueTypeOK, Slot
      <3>2. CASE ~x.resume
        <4>1. x.for = x.job /\ receipt[x.job] = "queued"
          BY <3>2 DEF EntryOk
        <4>2. receipt'[x.job] = receipt[x.job]
          BY <1>0, <1>1, <1>3, <1>4, <4>1 DEF QueueTypeOK
        <4> QED BY <3>2, <4>1, <4>2 DEF EntryOk
      <3> QED BY <3>1, <3>2
    <2>6. \A k \in 1..Len(ready') : EntryOk(ready[k])'
      BY <2>2, <2>3, <2>4, <2>5 DEF QueueInv, EntryInv
    <2>7. \A k, l \in 1..Len(ready') : old(k) = old(l) => k = l
      BY <2>1
    <2>8. \A k, l \in 1..Len(ready') : ready'[k].for = ready'[l].for => k = l
      BY <2>2, <2>3, <2>7 DEF QueueInv, EntryInv
    <2> QED BY <2>6, <2>8 DEF EntryInv
  <1>8. KeyInv'
    <2>1. \A k \in Job : UnderWay(k)' <=> UnderWay(k) \/ k = w
      BY <1>0, <1>1, <1>2 DEF UnderWay, QueueTypeOK, Work
    <2>2. CASE ready[i].resume
      <3>1. \A k \in Job : UnderWay(k)' <=> UnderWay(k)
        BY <1>4, <2>1, <2>2 DEF UnderWay
      <3>2. UnderWay(j) \/ Lent(j)
        BY <1>4, <1>5, <2>2 DEF UnderWay
      <3> QED BY <1>1, <1>2, <3>1, <3>2 DEF QueueInv, KeyInv, KeySet
    <2>3. CASE ~ready[i].resume
      <3>1. KeyOf[j] = 0 \/ KeyOf[j] \notin activeKeys
        BY <2>3 DEF StartAt, Eligible, j
      <3>2. w = j
        BY <1>4, <2>3
      <3> QED BY <1>1, <1>2, <2>1, <3>1, <3>2 DEF QueueInv, KeyInv, KeySet
    <2> QED BY <1>1, <2>2, <2>3
  <1>9. CountInv'
    <2>1. IsFiniteSet(Holders) /\ Cardinality(Holders) \in Nat
      BY FS_Subset, FS_CardinalityType, QueueJobAssumption DEF Holders
    <2>2. CASE held[j]
      <3>1. Lent(j)
        BY <1>1, <1>4, <1>5, <2>2 DEF QueueInv, SlotInv
      <3>2. Holders' = Holders
        BY <1>0, <1>1, <1>2, <2>2 DEF Holders, QueueTypeOK
      <3> QED BY <1>0, <1>1, <1>2, <2>1, <3>1, <3>2, QueueSlotAssumption DEF QueueInv, CountInv, QueueTypeOK
    <2>3. CASE ~held[j]
      <3>1. Holders' = Holders \cup {j} /\ j \notin Holders
        BY <1>0, <1>1, <1>2, <2>3 DEF Holders, QueueTypeOK
      <3>2. Cardinality(Holders') = Cardinality(Holders) + 1
        BY <2>1, <3>1, FS_AddElement
      <3> QED BY <1>0, <1>2, <2>1, <3>2, QueueSlotAssumption DEF QueueInv, CountInv, QueueTypeOK
    <2> QED BY <2>2, <2>3
  <1> QED BY <1>6, <1>7, <1>8, <1>9 DEF Parts

(* A slot is given back, if it is held; then the queue pumps.              *)
LEMMA ReleaseCounts ==
  ASSUME QueueInv, NEW j \in Job, Release(j), \A k \in Job : Lent(k) => Lent(k)'
  PROVE  /\ held' = [held EXCEPT ![j] = FALSE]
         /\ held[j] => pumping'
         /\ ~held[j] => UNCHANGED <<held, activeSlots, pumping>>
         /\ CountInv'
  <1>0. QueueTypeOK
    BY DEF QueueInv
  <1>1. CASE held[j]
    <2>1. held' = [held EXCEPT ![j] = FALSE] /\ activeSlots' = activeSlots - 1 /\ pumping' = TRUE
      BY <1>1 DEF Release
    <2>2. Holders' = Holders \ {j} /\ j \in Holders
      BY <1>0, <1>1, <2>1 DEF Holders, QueueTypeOK
    <2>3. IsFiniteSet(Holders)
      BY FS_Subset, QueueJobAssumption DEF Holders
    <2>4. Cardinality(Holders') = Cardinality(Holders) - 1 /\ Cardinality(Holders) \in Nat
      BY <2>2, <2>3, FS_RemoveElement, FS_CardinalityType
    <2>5. CountInv'
      BY <1>0, <2>1, <2>4, QueueSlotAssumption DEF QueueInv, CountInv, QueueTypeOK
    <2> QED BY <1>1, <2>1, <2>5
  <1>2. CASE ~held[j]
    <2>1. UNCHANGED <<held, activeSlots, pumping>>
      BY <1>2 DEF Release
    <2>2. held' = [held EXCEPT ![j] = FALSE]
      BY <1>0, <1>2, <2>1 DEF QueueTypeOK
    <2>3. CountInv'
      BY <2>1 DEF QueueInv, CountInv, Holders
    <2> QED BY <1>2, <2>1, <2>2, <2>3
  <1> QED BY <1>1, <1>2

LEMMA WaitKeeps ==
  ASSUME QueueInv, NEW w \in Work, NEW x \in Work \cup {Outside}, Wait(w, x),
         \A k \in Job : Lent(k) => Lent(k)'
  PROVE  Parts' /\ (pumping' \/ UNCHANGED <<ready, activeSlots, activeKeys, pumping, pumpDue>>)
  <1>0. QueueTypeOK
    BY DEF QueueInv
  <1>1. /\ doing[w] = "working" /\ doing' = [doing EXCEPT ![w] = "waiting"]
        /\ UNCHANGED <<ready, receipt, activeKeys, slotOf, pumpDue>>
    BY DEF Wait
  <1>2. waits'[w] > 0 /\ \A g \in Work : g # w => waits'[g] = waits[g]
    <2>1. waits' = [waits EXCEPT ![w] = waits[w] + 1] /\ waits[w] \in Nat
      BY <1>0, QueueSlotAssumption DEF Wait, QueueTypeOK
    <2>2. waits'[w] = waits[w] + 1 /\ \A g \in Work : g # w => waits'[g] = waits[g]
      BY <1>0, <2>1 DEF QueueTypeOK
    <2> QED BY <2>1, <2>2
  <1>3. \A g \in Guest : /\ doing'[g] = "none" => waits'[g] = 0
                         /\ doing'[g] \in {"waiting", "resuming"} => waits'[g] > 0
                         /\ doing[g] = "resuming" => doing'[g] = "resuming"
    BY <1>0, <1>1, <1>2 DEF QueueInv, SlotInv, QueueTypeOK, Work
  <1>4. CASE Slot(w) = NoJob
    <2>1. w \notin Job /\ UNCHANGED <<held, activeSlots, pumping>>
      BY <1>0, <1>4, SlotTyped DEF Wait
    <2>2. \A k \in Job : doing'[k] = doing[k]
      BY <1>0, <1>1, <2>1 DEF QueueTypeOK, Work
    <2> QED BY <1>1, <1>3, <2>1, <2>2, NoJobMoves
  <1>5. ASSUME NEW j \in Job, Slot(w) = j
        PROVE  Parts' /\ (pumping' \/ UNCHANGED <<ready, activeSlots, activeKeys, pumping, pumpDue>>)
    <2>1. Release(j)
      BY <1>5, QueueJobAssumption DEF Wait
    <2>2. held' = [held EXCEPT ![j] = FALSE] /\ CountInv' /\ (pumping' \/ UNCHANGED <<activeSlots, pumping>>)
      BY <2>1, ReleaseCounts
    <2>3. w = j \/ (w \notin Job /\ Lent(j)')
      <3>1. w \in Job => w = j
        BY <1>0, <1>5, SlotTyped
      <3>2. w \in Guest => slotOf'[w] = j
        BY <1>0, <1>1, <1>5, SlotTyped
      <3> QED BY <1>2, <3>1, <3>2 DEF Lent, Work
    <2>4. SlotInv'
      <3>1. ASSUME NEW k \in Job
            PROVE  /\ Lent(k)' \/ (held'[k] <=> doing'[k] = "working")
                   /\ doing'[k] = "none" <=> receipt'[k] \in {"new", "queued"}
        <4>1. /\ held'[k] = IF k = j THEN FALSE ELSE held[k]
              /\ doing'[k] = IF k = w THEN "waiting" ELSE doing[k]
              /\ receipt'[k] = receipt[k]
          BY <1>0, <1>1, <2>2 DEF QueueTypeOK, Work
        <4>2. doing[k] = "none" <=> receipt[k] \in {"new", "queued"}
          BY DEF QueueInv, SlotInv
        <4>3. Lent(k) \/ (held[k] <=> doing[k] = "working")
          BY DEF QueueInv, SlotInv
        <4>4. CASE k = j
          BY <1>1, <2>3, <4>1, <4>2, <4>4
        <4>5. CASE k # j
          <5>1. k # w /\ (Lent(k) => Lent(k)')
            BY <2>3, <4>5
          <5> QED BY <4>1, <4>2, <4>3, <4>5, <5>1
        <4> QED BY <4>4, <4>5
      <3> QED BY <1>3, <3>1 DEF SlotInv
    <2>5. \A e : e.for \in Work /\ EntryOk(e) => EntryOk(e)'
      BY <1>0, <1>1 DEF QueueTypeOK, EntryOk, Slot
    <2>6. EntryInv'
      BY <1>0, <1>1, <2>5, EntryTyped DEF QueueInv, EntryInv
    <2>7. \A k \in Job : UnderWay(k)' <=> UnderWay(k)
      BY <1>0, <1>1 DEF QueueTypeOK, UnderWay, Work
    <2>8. KeyInv'
      BY <1>1, <2>7, KeysStay
    <2> QED BY <1>1, <2>2, <2>4, <2>6, <2>8 DEF Parts
  <1> QED BY <1>0, <1>4, <1>5, SlotTyped

LEMMA WakeKeeps ==
  ASSUME QueueInv, NEW w \in Work, Wake(w), \A k \in Job : Lent(k) => Lent(k)'
  PROVE  Parts' /\ (pumping' \/ UNCHANGED <<ready, activeSlots, activeKeys, pumping, pumpDue>>)
  <1>0. QueueTypeOK
    BY DEF QueueInv
  <1>1. doing[w] = "waiting" /\ UNCHANGED <<receipt, held, activeSlots, activeKeys, waits, slotOf, pumpDue>>
    BY DEF Wake
  <1>2. CASE Slot(w) = NoJob
    <2>1. w \notin Job /\ doing' = [doing EXCEPT ![w] = "working"] /\ UNCHANGED <<ready, pumping>>
      BY <1>0, <1>2, SlotTyped DEF Wake
    <2>2. \A k \in Job : doing'[k] = doing[k]
      BY <1>0, <2>1 DEF QueueTypeOK, Work
    <2>3. \A g \in Guest : /\ doing'[g] = "none" => waits'[g] = 0
                           /\ doing'[g] \in {"waiting", "resuming"} => waits'[g] > 0
                           /\ doing[g] = "resuming" => doing'[g] = "resuming"
      BY <1>0, <1>1, <2>1 DEF QueueInv, SlotInv, QueueTypeOK, Work
    <2> QED BY <1>1, <2>1, <2>2, <2>3, NoJobMoves
  <1>3. ASSUME NEW j \in Job, Slot(w) = j
        PROVE  Parts' /\ pumping'
    <2> DEFINE e == [job |-> j, resume |-> TRUE, for |-> w]
    <2>1. doing' = [doing EXCEPT ![w] = "resuming"] /\ Ask(e) /\ pumping' = TRUE
      BY <1>3, QueueJobAssumption DEF Wake
    <2>2. SlotInv'
      <3>1. ASSUME NEW k \in Job
            PROVE  /\ Lent(k)' \/ (held'[k] <=> doing'[k] = "working")
                   /\ doing'[k] = "none" <=> receipt'[k] \in {"new", "queued"}
        <4>1. doing'[k] = IF k = w THEN "resuming" ELSE doing[k]
          BY <1>0, <2>1 DEF QueueTypeOK, Work
        <4>2. doing[k] = "none" <=> receipt[k] \in {"new", "queued"}
          BY DEF QueueInv, SlotInv
        <4>3. Lent(k) \/ (held[k] <=> doing[k] = "working")
          BY DEF QueueInv, SlotInv
        <4> QED BY <1>1, <4>1, <4>2, <4>3
      <3>2. \A g \in Guest : /\ doing'[g] = "none" => waits'[g] = 0
                             /\ doing'[g] \in {"waiting", "resuming"} => waits'[g] > 0
        BY <1>0, <1>1, <2>1 DEF QueueInv, SlotInv, QueueTypeOK, Work
      <3> QED BY <3>1, <3>2 DEF SlotInv
    <2>3. EntryInv'
      <3>1. \A k \in 1..Len(ready) : ready[k].job \in Job /\ ready[k].for \in Work /\ EntryOk(ready[k])
        BY <1>0, EntryTyped DEF QueueInv, EntryInv
      <3>2. \A k \in 1..Len(ready) : ready[k].for # w
        BY <1>1, <3>1 DEF EntryOk, QueueInv, SlotInv
      <3>3. \A y : y.for \in Work /\ y.for # w /\ EntryOk(y) => EntryOk(y)'
        BY <1>0, <1>1, <2>1 DEF EntryOk, QueueTypeOK, Slot
      <3>4. EntryOk(e)'
        BY <1>0, <1>1, <1>3, <2>1 DEF EntryOk, QueueTypeOK, Slot
      <3>5. e \in Entry /\ e.for = w
        BY DEF Entry
      <3> HIDE DEF e
      <3> QED BY <2>1, <3>1, <3>2, <3>3, <3>4, <3>5, AskKeepsEntries
    <2>4. KeyInv'
      <3>1. \A k \in Job : UnderWay(k)' <=> UnderWay(k)
        BY <1>0, <1>1, <2>1 DEF QueueTypeOK, UnderWay, Work
      <3> QED BY <1>1, <3>1, KeysStay
    <2>5. CountInv'
      BY <1>1 DEF QueueInv, CountInv, Holders
    <2> QED BY <2>1, <2>2, <2>3, <2>4, <2>5 DEF Parts
  <1> QED BY <1>0, <1>2, <1>3, SlotTyped

(* The end of a job that has lost its slot to a guest frees the key, and   *)
(* nobody pumps.                                                           *)
LEMMA FinishKeeps ==
  ASSUME QueueInv, NEW j \in Job, Finish(j), \A k \in Job : Lent(k) => Lent(k)'
  PROVE  /\ Parts'
         /\ pumping' \/ (Lent(j)' /\ doing'[j] = "over" /\ UNCHANGED <<ready, activeSlots, pumping, pumpDue>>)
  <1>0. QueueTypeOK /\ j \notin Guest
    BY QueueJobAssumption DEF QueueInv
  <1>1. /\ doing[j] = "working" /\ doing' = [doing EXCEPT ![j] = "over"]
        /\ receipt' = [receipt EXCEPT ![j] = "ended"] /\ activeKeys' = activeKeys \ KeySet(j)
        /\ Release(j) /\ UNCHANGED <<ready, slotOf, waits, pumpDue>>
    BY DEF Finish
  <1>2. /\ held' = [held EXCEPT ![j] = FALSE] /\ CountInv' /\ (held[j] => pumping')
        /\ (~held[j] => UNCHANGED <<activeSlots, pumping>>)
    BY <1>1, ReleaseCounts
  <1>3. SlotInv'
    <2>1. ASSUME NEW k \in Job
          PROVE  /\ Lent(k)' \/ (held'[k] <=> doing'[k] = "working")
                 /\ doing'[k] = "none" <=> receipt'[k] \in {"new", "queued"}
      <3>1. /\ doing'[k] = IF k = j THEN "over" ELSE doing[k]
            /\ receipt'[k] = IF k = j THEN "ended" ELSE receipt[k]
        BY <1>0, <1>1 DEF QueueTypeOK, Work
      <3>6. held'[k] = IF k = j THEN FALSE ELSE held[k]
        BY <1>0, <1>2 DEF QueueTypeOK
      <3>2. doing[k] = "none" <=> receipt[k] \in {"new", "queued"}
        BY DEF QueueInv, SlotInv
      <3>3. Lent(k) \/ (held[k] <=> doing[k] = "working")
        BY DEF QueueInv, SlotInv
      <3>4. CASE k = j
        BY <3>1, <3>4, <3>6
      <3>5. CASE k # j
        BY <3>1, <3>2, <3>3, <3>5, <3>6
      <3> QED BY <3>4, <3>5
    <2>2. \A g \in Guest : /\ doing'[g] = "none" => waits'[g] = 0
                           /\ doing'[g] \in {"waiting", "resuming"} => waits'[g] > 0
      BY <1>0, <1>1 DEF QueueInv, SlotInv, QueueTypeOK, Work
    <2> QED BY <2>1, <2>2 DEF SlotInv
  <1>4. \A e : e.job \in Job /\ e.for \in Work /\ EntryOk(e) => EntryOk(e)'
    BY <1>0, <1>1 DEF QueueTypeOK, EntryOk, Slot, Work, QueueInv, SlotInv
  <1>5. EntryInv'
    BY <1>0, <1>1, <1>4, EntryTyped DEF QueueInv, EntryInv
  <1>6. \A k \in Job : UnderWay(k)' <=> UnderWay(k) /\ k # j
    BY <1>0, <1>1 DEF QueueTypeOK, UnderWay, Work
  <1>7. UnderWay(j)
    BY <1>1 DEF UnderWay
  <1>8. KeyInv'
    <2>1. \A k \in Job : UnderWay(k)' /\ KeyOf[k] # 0 => KeyOf[k] \in activeKeys'
      BY <1>1, <1>6, <1>7 DEF QueueInv, KeyInv, KeySet
    <2>2. ASSUME NEW k \in activeKeys'
          PROVE  k # 0 /\ \E i \in Job : (UnderWay(i)' \/ Lent(i)') /\ KeyOf[i] = k
      <3>1. k \in activeKeys /\ k \notin KeySet(j)
        BY <1>1
      <3>2. k # 0 /\ \E i \in Job : (UnderWay(i) \/ Lent(i)) /\ KeyOf[i] = k
        BY <3>1 DEF QueueInv, KeyInv
      <3>3. PICK i \in Job : (UnderWay(i) \/ Lent(i)) /\ KeyOf[i] = k
        BY <3>2
      <3>4. i # j
        BY <3>1, <3>2, <3>3 DEF KeySet
      <3> QED BY <1>6, <3>2, <3>3, <3>4
    <2>3. \A i, k \in Job : UnderWay(i)' /\ UnderWay(k)' /\ KeyOf[i] = KeyOf[k] /\ KeyOf[i] # 0 => i = k
      BY <1>6 DEF QueueInv, KeyInv
    <2> QED BY <2>1, <2>2, <2>3 DEF KeyInv
  <1>9. ~held[j] => Lent(j)'
    BY <1>1 DEF QueueInv, SlotInv
  <1>10. doing'[j] = "over"
    BY <1>0, <1>1 DEF QueueTypeOK, Work
  <1> QED BY <1>1, <1>2, <1>3, <1>5, <1>8, <1>9, <1>10 DEF Parts

-----------------------------------------------------------------------------
LEMMA QueueStep == QueueInv /\ [QueueNext]_queueVars => QueueInv'
  <1> SUFFICES ASSUME QueueInv, [QueueNext]_queueVars
               PROVE  Parts'
    BY QueueTypeStep DEF QueueInv, Parts
  <1>0. QueueTypeOK /\ \A j \in Job : Lent(j) => Lent(j)'
    BY LentStays DEF QueueInv
  <1>1. CASE UNCHANGED queueVars \/ Microtask \/ PumpEnds
    <2>1. UNCHANGED <<ready, receipt, held, activeSlots, activeKeys, doing, waits, slotOf>>
      BY <1>1 DEF queueVars, Microtask, PumpEnds
    <2> QED BY <1>0, <2>1, NoJobMoves DEF QueueInv, SlotInv
  <1>2. ASSUME NEW j \in Job, Enqueue(j)
        PROVE  Parts'
    BY <1>0, <1>2, EnqueueKeeps
  <1>3. CASE Start
    BY <1>0, <1>3, StartsOne, StartKeeps
  <1>4. ASSUME NEW w \in Work, WorkOn(w) \/ Wake(w)
        PROVE  Parts'
    <2>1. ASSUME w \in Guest, GuestEnds(w)
          PROVE  Parts'
      <3>1. \A j \in Job : doing'[j] = doing[j]
        BY <1>0, <2>1, QueueJobAssumption DEF GuestEnds, QueueTypeOK
      <3>2. \A g \in Guest : /\ doing'[g] = "none" => waits'[g] = 0
                             /\ doing'[g] \in {"waiting", "resuming"} => waits'[g] > 0
                             /\ doing[g] = "resuming" => doing'[g] = "resuming"
        BY <1>0, <2>1 DEF GuestEnds, QueueInv, SlotInv, QueueTypeOK, Work
      <3> QED BY <1>0, <2>1, <3>1, <3>2, NoJobMoves DEF GuestEnds
    <2> QED BY <1>0, <1>4, <2>1, WaitKeeps, WakeKeeps, FinishKeeps DEF WorkOn
  <1>5. ASSUME NEW g \in Guest, NEW j \in Job \cup {NoJob}, SetOff(g, j)
        PROVE  Parts'
    <2>1. \A k \in Job : doing'[k] = doing[k]
      BY <1>0, <1>5, QueueJobAssumption DEF SetOff, QueueTypeOK
    <2>2. \A k \in Guest : /\ doing'[k] = "none" => waits'[k] = 0
                           /\ doing'[k] \in {"waiting", "resuming"} => waits'[k] > 0
                           /\ doing[k] = "resuming" => doing'[k] = "resuming" /\ slotOf'[k] = slotOf[k]
      BY <1>0, <1>5 DEF SetOff, QueueInv, SlotInv, QueueTypeOK, Work
    <2> QED BY <1>0, <1>5, <2>1, <2>2, NoJobMoves DEF SetOff
  <1> QED BY <1>1, <1>2, <1>3, <1>4, <1>5 DEF QueueNext

LEMMA QueueStart == QueueInit => QueueInv
  <1> SUFFICES ASSUME QueueInit
               PROVE  QueueInv
    OBVIOUS
  <1>1. QueueTypeOK
    <2>1. waits \in [Work -> 0..MaxWaits] /\ activeSlots \in Int /\ ready \in Seq(Entry)
      BY QueueSlotAssumption, EmptySeq DEF QueueInit
    <2> QED BY <2>1 DEF QueueInit, QueueTypeOK, Work
  <1>2. SlotInv /\ KeyInv
    BY DEF QueueInit, SlotInv, KeyInv, UnderWay, Work
  <1>3. EntryInv
    BY DEF QueueInit, EntryInv
  <1>4. CountInv
    <2>1. Holders = {} /\ activeSlots = 0
      BY DEF QueueInit, Holders
    <2> QED BY <2>1, FS_EmptySet, QueueSlotAssumption DEF CountInv
  <1> QED BY <1>1, <1>2, <1>3, <1>4 DEF QueueInv

(* The count of busy slots is within the limit and covers the jobs that    *)
(* hold one, whatever waits in whose slot; and as long as no work of       *)
(* another queue has waited in one, exactly the jobs at work hold a slot   *)
(* (acquire, release and pump of BackgroundWorkerQueue).                   *)
THEOREM SlotsOwned == QueueSpec => []SlotsAreOwned
  <1>1. QueueInv => SlotsAreOwned
    BY DEF QueueInv, SlotsAreOwned, SlotInv, CountInv, Holders
  <1> QED BY <1>1, QueueStart, QueueStep, PTL DEF QueueSpec

(* At most one job of a key is under way, also while another of that key   *)
(* has given its slot back or lost it to a guest.                          *)
THEOREM KeysAreExclusive == QueueSpec => []OneJobPerKey
  <1>1. QueueInv => OneJobPerKey
    BY DEF QueueInv, OneJobPerKey, KeyInv, KeySet
  <1> QED BY <1>1, QueueStart, QueueStep, PTL DEF QueueSpec

(* Whoever frees a slot or a key, or asks for one, has the queue pump,     *)
(* except a job that ends without the slot a guest gave back.              *)
LEMMA PumpStep == QueueInv /\ NothingOverlooked /\ [QueueNext]_queueVars => NothingOverlooked'
  <1> SUFFICES ASSUME QueueInv, NothingOverlooked, [QueueNext]_queueVars
               PROVE  NothingOverlooked'
    OBVIOUS
  <1>0. /\ \A j \in Job : Lent(j) => Lent(j)'
        /\ \A k : FreedUnseen(k) => FreedUnseen(k)'
    BY LentStays, FreedStays
  <1>1. ASSUME UNCHANGED <<ready, activeSlots, activeKeys, pumping, pumpDue>>
        PROVE  NothingOverlooked'
    BY <1>0, <1>1 DEF NothingOverlooked, Eligible
  <1>2. CASE UNCHANGED queueVars
    BY <1>1, <1>2 DEF queueVars
  <1>3. ASSUME pumping' \/ pumpDue'
        PROVE  NothingOverlooked'
    BY <1>3 DEF NothingOverlooked
  <1>4. CASE Microtask \/ Start \/ \E j \in Job : Enqueue(j)
    <2>1. pumping' \/ pumpDue'
      BY <1>4 DEF Microtask, Start, Enqueue, QueueInv, QueueTypeOK
    <2> QED BY <1>3, <2>1
  <1>5. CASE PumpEnds
    BY <1>5 DEF PumpEnds, NothingOverlooked, CanStart, Eligible
  <1>6. ASSUME NEW j \in Job, Finish(j), Lent(j)', doing'[j] = "over",
               UNCHANGED <<ready, activeSlots, pumping, pumpDue>>
        PROVE  NothingOverlooked'
    <2>1. activeKeys' = activeKeys \ KeySet(j)
      BY <1>6 DEF Finish
    <2>2. KeyOf[j] # 0 => FreedUnseen(KeyOf[j])'
      BY <1>6 DEF FreedUnseen
    <2>3. ASSUME NEW i \in 1..Len(ready), Eligible(ready[i])'
          PROVE  Eligible(ready[i]) \/ (KeyOf[ready[i].job] = KeyOf[j] /\ KeyOf[j] # 0)
      BY <1>6, <2>1, <2>3 DEF Eligible, KeySet
    <2> QED BY <1>0, <1>6, <2>2, <2>3 DEF NothingOverlooked
  <1>7. ASSUME NEW w \in Work, WorkOn(w) \/ Wake(w)
        PROVE  NothingOverlooked'
    BY <1>0, <1>1, <1>3, <1>6, <1>7, WaitKeeps, WakeKeeps, FinishKeeps DEF WorkOn, GuestEnds
  <1>8. ASSUME NEW g \in Guest, NEW j \in Job \cup {NoJob}, SetOff(g, j)
        PROVE  NothingOverlooked'
    BY <1>1, <1>8 DEF SetOff
  <1> QED BY <1>2, <1>4, <1>5, <1>7, <1>8 DEF QueueNext

(* At rest the queue is busy to its limit or nothing can start, but for    *)
(* the jobs of a key that was freed unseen.                                *)
THEOREM NoJobOverlooked == QueueSpec => []NothingOverlooked
  <1>1. QueueInit => NothingOverlooked
    BY DEF QueueInit, NothingOverlooked
  <1> QED BY <1>1, QueueStart, QueueStep, PumpStep, PTL DEF QueueSpec

-----------------------------------------------------------------------------
(* Browser requests.                                                       *)

(* Where a request is, and what has been done with it.                     *)
RequestInv ==
  /\ \A r \in Request : r \in Pending \cup inFlight <=> tool[r] = "asking"
  /\ Pending \cap inFlight = {}
  /\ \A i, k \in 1..Len(queue) : queue[i] = queue[k] => i = k
  /\ \A r \in Request : tool[r] = "answered" => answer[r] # Nothing /\ handed[answer[r]] = r

(* A poll returns one request, which is no longer in the queue.            *)
PollInv ==
  /\ \A p \in Poll : poll[p] \in {"none", "asleep", "awake"} => handed[p] = Nothing
  /\ \A p \in Poll : poll[p] = "working" => handed[p] # Nothing
  /\ \A p \in Poll : handed[p] # Nothing => handed[p] \notin Pending /\ tool[handed[p]] # "none"
  /\ \A p, q \in Poll : handed[p] = handed[q] /\ handed[p] # Nothing => p = q

ControlInv == ControlTypeOK /\ NoPollSleepsOnWork /\ RequestInv /\ PollInv

-----------------------------------------------------------------------------
(* The queue loses the element at one place and keeps the others.          *)
LEMMA SpliceProperties ==
  ASSUME queue \in Seq(Request), NEW i \in 1..Len(queue)
  PROVE  /\ Splice(i) \in Seq(Request)
         /\ Len(Splice(i)) = Len(queue) - 1
         /\ \A k \in 1..(Len(queue) - 1) : Splice(i)[k] = IF k < i THEN queue[k] ELSE queue[k + 1]
  <1> DEFINE front == SubSeq(queue, 1, i - 1)
             back  == SubSeq(queue, i + 1, Len(queue))
  <1>0. Len(queue) \in Nat /\ \A k \in 1..Len(queue) : queue[k] \in Request
    BY LenProperties, ElementOfSeq
  <1>1. front \in Seq(Request) /\ Len(front) = i - 1 /\ \A k \in 1..(i - 1) : front[k] = queue[k]
    <2>1. \A k \in 1..(i - 1) : queue[k] \in Request
      BY <1>0
    <2> QED BY <1>0, <2>1, SubSeqProperties
  <1>2. back \in Seq(Request) /\ Len(back) = Len(queue) - i
        /\ \A k \in 1..(Len(queue) - i) : back[k] = queue[i + k]
    <2>1. \A k \in (i + 1)..Len(queue) : queue[k] \in Request
      BY <1>0
    <2> QED BY <1>0, <2>1, SubSeqProperties
  <1>3. Splice(i) \in Seq(Request) /\ Len(Splice(i)) = Len(front) + Len(back)
        /\ \A k \in 1..(Len(front) + Len(back)) :
             Splice(i)[k] = IF k <= Len(front) THEN front[k] ELSE back[k - Len(front)]
    BY <1>1, <1>2, ConcatProperties DEF Splice
  <1> HIDE DEF front, back
  <1>4. Len(Splice(i)) = Len(queue) - 1
    BY <1>0, <1>1, <1>2, <1>3
  <1>5. ASSUME NEW k \in 1..(Len(queue) - 1)
        PROVE  Splice(i)[k] = IF k < i THEN queue[k] ELSE queue[k + 1]
    <2>1. CASE k < i
      <3>1. k \in 1..(i - 1) /\ k \in 1..(Len(front) + Len(back)) /\ k <= Len(front)
        BY <1>0, <1>1, <1>2, <2>1
      <3> QED BY <1>1, <1>3, <2>1, <3>1
    <2>2. CASE ~(k < i)
      <3>1. k - (i - 1) \in 1..(Len(queue) - i) /\ i + (k - (i - 1)) = k + 1
        BY <1>0, <2>2
      <3>2. k \in 1..(Len(front) + Len(back)) /\ ~(k <= Len(front)) /\ Len(front) = i - 1
        BY <1>0, <1>1, <1>2, <2>2
      <3> QED BY <1>2, <1>3, <2>2, <3>1, <3>2
    <2> QED BY <2>1, <2>2
  <1> QED BY <1>3, <1>4, <1>5

(* What is left in the queue: no request twice, and not the one taken out. *)
LEMMA SpliceTakesOut ==
  ASSUME queue \in Seq(Request), NEW i \in 1..Len(queue), queue' = Splice(i),
         \A k, l \in 1..Len(queue) : queue[k] = queue[l] => k = l
  PROVE  /\ Pending' = Pending \ {queue[i]}
         /\ \A k, l \in 1..Len(queue') : queue'[k] = queue'[l] => k = l
  <1> DEFINE old(k) == IF k < i THEN k ELSE k + 1
             new(k) == IF k < i THEN k ELSE k - 1
  <1>1. Len(queue) \in Nat /\ Len(queue') = Len(queue) - 1
    BY LenProperties, SpliceProperties
  <1>2. \A k \in 1..Len(queue') : queue'[k] = queue[old(k)] /\ old(k) \in 1..Len(queue) /\ old(k) # i
    BY <1>1, SpliceProperties
  <1>3. \A k \in 1..Len(queue) : k # i => new(k) \in 1..Len(queue') /\ old(new(k)) = k
    BY <1>1
  <1>4. \A k, l \in 1..Len(queue') : old(k) = old(l) => k = l
    BY <1>1
  <1> HIDE DEF old, new
  <1>5. Pending' \subseteq Pending \ {queue[i]}
    <2> SUFFICES ASSUME NEW k \in 1..Len(queue')
                 PROVE  queue'[k] \in Pending /\ queue'[k] # queue[i]
      BY DEF Pending
    <2>1. queue'[k] = queue[old(k)] /\ old(k) \in 1..Len(queue) /\ old(k) # i
      BY <1>2
    <2> QED BY <2>1 DEF Pending
  <1>6. Pending \ {queue[i]} \subseteq Pending'
    <2> SUFFICES ASSUME NEW k \in 1..Len(queue), k # i
                 PROVE  queue[k] \in Pending'
      BY DEF Pending
    <2>1. queue'[new(k)] = queue[k] /\ new(k) \in 1..Len(queue')
      BY <1>2, <1>3
    <2> QED BY <2>1 DEF Pending
  <1>7. \A k, l \in 1..Len(queue') : queue'[k] = queue'[l] => k = l
    BY <1>2, <1>4
  <1> QED BY <1>5, <1>6, <1>7

(* shift: the oldest request.                                              *)
LEMMA ShiftTakesOut ==
  ASSUME queue \in Seq(Request), queue # <<>>, queue' = Tail(queue),
         \A k, l \in 1..Len(queue) : queue[k] = queue[l] => k = l
  PROVE  /\ queue' \in Seq(Request)
         /\ Head(queue) \in Pending /\ Head(queue) \in Request
         /\ Pending' = Pending \ {Head(queue)}
         /\ \A k, l \in 1..Len(queue') : queue'[k] = queue'[l] => k = l
  <1>1. /\ Len(queue) \in Nat \ {0} /\ Head(queue) = queue[1] /\ queue[1] \in Request
        /\ queue' \in Seq(Request) /\ Len(queue') = Len(queue) - 1
        /\ \A k \in 1..Len(queue') : queue'[k] = queue[k + 1]
    BY HeadTailProperties, LenProperties, EmptySeq
  <1>2. \A k \in 1..Len(queue') : k + 1 \in 1..Len(queue) /\ k + 1 # 1
    BY <1>1
  <1>3. Pending' \subseteq Pending \ {queue[1]}
    <2> SUFFICES ASSUME NEW k \in 1..Len(queue')
                 PROVE  queue'[k] \in Pending /\ queue'[k] # queue[1]
      BY DEF Pending
    <2>1. 1 \in 1..Len(queue)
      BY <1>1
    <2> QED BY <1>1, <1>2, <2>1 DEF Pending
  <1>4. Pending \ {queue[1]} \subseteq Pending'
    <2> SUFFICES ASSUME NEW k \in 1..Len(queue), k # 1
                 PROVE  queue[k] \in Pending'
      BY DEF Pending
    <2>1. k - 1 \in 1..Len(queue') /\ (k - 1) + 1 = k
      BY <1>1
    <2>2. queue'[k - 1] = queue[k]
      BY <1>1, <2>1
    <2> QED BY <2>1, <2>2 DEF Pending
  <1>5. queue[1] \in Pending
    <2>1. 1 \in 1..Len(queue)
      BY <1>1
    <2> QED BY <2>1 DEF Pending
  <1>6. \A k, l \in 1..Len(queue') : queue'[k] = queue'[l] => k = l
    <2> SUFFICES ASSUME NEW k \in 1..Len(queue'), NEW l \in 1..Len(queue'), queue'[k] = queue'[l]
                 PROVE  k = l
      OBVIOUS
    <2>1. k + 1 = l + 1
      BY <1>1, <1>2
    <2> QED BY <1>1, <2>1
  <1> QED BY <1>1, <1>3, <1>4, <1>5, <1>6

LEMMA PushAppends ==
  ASSUME queue \in Seq(Request), NEW r \in Request, r \notin Pending, queue' = Append(queue, r),
         \A k, l \in 1..Len(queue) : queue[k] = queue[l] => k = l
  PROVE  /\ queue' \in Seq(Request)
         /\ Pending' = Pending \cup {r}
         /\ \A k, l \in 1..Len(queue') : queue'[k] = queue'[l] => k = l
  <1>1. /\ Len(queue) \in Nat /\ queue' \in Seq(Request) /\ Len(queue') = Len(queue) + 1
        /\ \A k \in 1..Len(queue) : queue'[k] = queue[k]
        /\ queue'[Len(queue) + 1] = r
    BY AppendProperties, LenProperties
  <1>2. \A k \in 1..Len(queue') : k \in 1..Len(queue) \/ k = Len(queue) + 1
    BY <1>1
  <1>3. \A k \in 1..Len(queue) : k \in 1..Len(queue')
    BY <1>1
  <1>4. Len(queue) + 1 \in 1..Len(queue')
    BY <1>1
  <1>5. Pending' = Pending \cup {r}
    BY <1>1, <1>2, <1>3, <1>4 DEF Pending
  <1>6. \A k, l \in 1..Len(queue') : queue'[k] = queue'[l] => k = l
    BY <1>1, <1>2 DEF Pending
  <1> QED BY <1>1, <1>5, <1>6

-----------------------------------------------------------------------------
LEMMA ControlInitInv == ControlInit => ControlInv
  <1> SUFFICES ASSUME ControlInit
               PROVE  ControlInv
    OBVIOUS
  <1>1. queue \in Seq(Request) /\ Len(queue) = 0 /\ queue = <<>>
    BY EmptySeq DEF ControlInit
  <1>2. Pending = {}
    BY <1>1 DEF Pending
  <1>3. ControlTypeOK
    BY <1>1 DEF ControlInit, ControlTypeOK
  <1>4. NoPollSleepsOnWork
    BY DEF ControlInit, NoPollSleepsOnWork
  <1>5. RequestInv
    BY <1>1, <1>2 DEF ControlInit, RequestInv
  <1>6. PollInv
    BY DEF ControlInit, PollInv
  <1> QED BY <1>3, <1>4, <1>5, <1>6 DEF ControlInv

(* A request that is given up is in neither place afterwards.              *)
LEMMA GiveUpTakesOut ==
  ASSUME ControlInv, NEW r \in Request, tool[r] = "asking",
         NEW verdict \in {"timeout", "interrupted"}, GiveUpRequest(r, verdict)
  PROVE  /\ queue' \in Seq(Request)
         /\ Pending' = Pending \ {r}
         /\ inFlight' = inFlight \ {r}
         /\ queue = <<>> => queue' = <<>>
         /\ \A k, l \in 1..Len(queue') : queue'[k] = queue'[l] => k = l
  <1>0. queue \in Seq(Request) /\ inFlight' = inFlight \ {r}
        /\ \A k, l \in 1..Len(queue) : queue[k] = queue[l] => k = l
    BY DEF ControlInv, ControlTypeOK, RequestInv, GiveUpRequest
  <1>1. CASE r \in Pending
    <2>1. PICK i \in 1..Len(queue) : queue[i] = r /\ queue' = Splice(i)
      BY <1>1 DEF GiveUpRequest
    <2>2. Pending' = Pending \ {r} /\ \A k, l \in 1..Len(queue') : queue'[k] = queue'[l] => k = l
      BY <1>0, <2>1, SpliceTakesOut
    <2>3. queue' \in Seq(Request)
      BY <1>0, <2>1, SpliceProperties
    <2>4. queue # <<>>
      BY <1>0, <2>1, EmptySeq
    <2> QED BY <1>0, <2>2, <2>3, <2>4
  <1>2. CASE r \notin Pending
    <2>1. queue' = queue
      BY <1>2 DEF GiveUpRequest
    <2>2. Pending' = Pending
      BY <2>1 DEF Pending
    <2> QED BY <1>0, <1>2, <2>1, <2>2
  <1> QED BY <1>1, <1>2

LEMMA GiveUpKeeps ==
  ASSUME ControlInv, NEW r \in Request, tool[r] = "asking",
         NEW verdict \in {"timeout", "interrupted"}, GiveUpRequest(r, verdict),
         UNCHANGED <<answer, handed, poll, waiters, desktop, connected, shut>>
  PROVE  ControlInv'
  <1>1. /\ queue' \in Seq(Request) /\ Pending' = Pending \ {r} /\ inFlight' = inFlight \ {r}
        /\ queue = <<>> => queue' = <<>>
        /\ \A k, l \in 1..Len(queue') : queue'[k] = queue'[l] => k = l
    BY GiveUpTakesOut
  <1>2. tool' = [tool EXCEPT ![r] = verdict]
    BY DEF GiveUpRequest
  <1>3. tool \in [Request -> {"none", "asking", "answered", "refused", "interrupted", "timeout", "closed"}]
    BY DEF ControlInv, ControlTypeOK
  <1>4. ControlTypeOK'
    BY <1>1, <1>2 DEF ControlInv, ControlTypeOK
  <1>5. NoPollSleepsOnWork'
    BY <1>1 DEF ControlInv, NoPollSleepsOnWork
  <1>6. RequestInv'
    <2>1. \A s \in Request : s \in Pending' \cup inFlight' <=> tool'[s] = "asking"
      BY <1>1, <1>2, <1>3 DEF ControlInv, RequestInv
    <2>2. Pending' \cap inFlight' = {}
      BY <1>1 DEF ControlInv, RequestInv
    <2>3. \A s \in Request : tool'[s] = "answered" => answer'[s] # Nothing /\ handed'[answer'[s]] = s
      BY <1>2, <1>3 DEF ControlInv, RequestInv
    <2> QED BY <1>1, <2>1, <2>2, <2>3 DEF RequestInv
  <1>7. PollInv'
    <2>1. \A p \in Poll : handed'[p] # Nothing => handed'[p] \notin Pending' /\ tool'[handed'[p]] # "none"
      BY <1>1, <1>2, <1>3 DEF ControlInv, PollInv, ControlTypeOK
    <2> QED BY <2>1 DEF ControlInv, PollInv
  <1> QED BY <1>4, <1>5, <1>6, <1>7 DEF ControlInv

LEMMA WakeLeavesNoneAsleep ==
  ASSUME ControlTypeOK, NoPollSleepsOnWork, WakeWaiters
  PROVE  /\ poll' \in [Poll -> {"none", "asleep", "awake", "empty", "refused", "working", "over"}]
         /\ waiters' = {}
         /\ \A p \in Poll : poll'[p] # "asleep"
         /\ \A p \in Poll : poll'[p] # poll[p] => poll[p] = "asleep" /\ poll'[p] = "awake"
  BY DEF ControlTypeOK, NoPollSleepsOnWork, WakeWaiters

LEMMA AskKeeps ==
  ASSUME ControlInv, NEW r \in Request, AskDesktop(r)
  PROVE  ControlInv'
  <1>0. /\ tool[r] = "none" /\ r \notin Pending /\ r \notin inFlight
        /\ queue \in Seq(Request)
        /\ tool \in [Request -> {"none", "asking", "answered", "refused", "interrupted", "timeout", "closed"}]
        /\ \A k, l \in 1..Len(queue) : queue[k] = queue[l] => k = l
        /\ UNCHANGED <<answer, inFlight, handed, desktop, connected, shut>>
    BY DEF ControlInv, ControlTypeOK, RequestInv, AskDesktop
  <1>1. CASE tool' = [tool EXCEPT ![r] = "refused"] /\ UNCHANGED <<queue, poll, waiters>>
    <2>0. Pending' = Pending
      BY <1>1 DEF Pending
    <2>1. ControlTypeOK'
      BY <1>0, <1>1 DEF ControlInv, ControlTypeOK
    <2>2. NoPollSleepsOnWork'
      BY <1>1 DEF ControlInv, NoPollSleepsOnWork
    <2>3. RequestInv'
      BY <1>0, <1>1, <2>0 DEF ControlInv, RequestInv
    <2>4. PollInv'
      BY <1>0, <1>1, <2>0 DEF ControlInv, PollInv
    <2> QED BY <2>1, <2>2, <2>3, <2>4 DEF ControlInv
  <1>2. CASE tool' = [tool EXCEPT ![r] = "asking"] /\ queue' = Append(queue, r) /\ WakeWaiters
    <2>0. /\ queue' \in Seq(Request) /\ Pending' = Pending \cup {r}
          /\ \A k, l \in 1..Len(queue') : queue'[k] = queue'[l] => k = l
      BY <1>0, <1>2, PushAppends
    <2>1. /\ poll' \in [Poll -> {"none", "asleep", "awake", "empty", "refused", "working", "over"}]
          /\ waiters' = {}
          /\ \A p \in Poll : poll'[p] # "asleep"
          /\ \A p \in Poll : poll'[p] # poll[p] => poll[p] = "asleep" /\ poll'[p] = "awake"
      BY <1>2, WakeLeavesNoneAsleep DEF ControlInv
    <2>2. ControlTypeOK'
      BY <1>0, <1>2, <2>0, <2>1 DEF ControlInv, ControlTypeOK
    <2>3. NoPollSleepsOnWork'
      BY <2>1 DEF NoPollSleepsOnWork
    <2>4. RequestInv'
      BY <1>0, <1>2, <2>0 DEF ControlInv, RequestInv
    <2>5. PollInv'
      <3>1. \A p \in Poll : handed[p] # r
        BY <1>0, PollAssumption DEF ControlInv, PollInv, Nothing
      <3> QED BY <1>0, <1>2, <2>0, <2>1, <3>1 DEF ControlInv, PollInv
    <2> QED BY <2>2, <2>3, <2>4, <2>5 DEF ControlInv
  <1> QED BY <1>1, <1>2 DEF AskDesktop

-----------------------------------------------------------------------------
(* The oldest request moves from the queue to one poll.                    *)
LEMMA HandOutKeeps ==
  ASSUME ControlInv, NEW p \in Poll, poll[p] \in {"none", "awake"}, queue # <<>>, HandOut(p),
         connected' \in BOOLEAN, UNCHANGED <<tool, answer, waiters, desktop, shut>>
  PROVE  ControlInv'
  <1> DEFINE r == Head(queue)
  <1>0. /\ queue \in Seq(Request)
        /\ \A k, l \in 1..Len(queue) : queue[k] = queue[l] => k = l
        /\ handed \in [Poll -> Request \cup {Nothing}]
        /\ poll \in [Poll -> {"none", "asleep", "awake", "empty", "refused", "working", "over"}]
    BY DEF ControlInv, ControlTypeOK, RequestInv
  <1>1. /\ queue' \in Seq(Request) /\ r \in Pending /\ r \in Request /\ Pending' = Pending \ {r}
        /\ \A k, l \in 1..Len(queue') : queue'[k] = queue'[l] => k = l
    BY <1>0, ShiftTakesOut DEF HandOut
  <1>2. inFlight' = inFlight \cup {r} /\ handed' = [handed EXCEPT ![p] = r]
        /\ poll' = [poll EXCEPT ![p] = "working"]
    BY DEF HandOut
  <1>3. handed[p] = Nothing /\ r # Nothing
    BY <1>1, PollAssumption DEF ControlInv, PollInv, Nothing
  <1> HIDE DEF r
  <1>4. ControlTypeOK'
    BY <1>1, <1>2 DEF ControlInv, ControlTypeOK
  <1>5. NoPollSleepsOnWork'
    BY <1>0, <1>2 DEF ControlInv, NoPollSleepsOnWork
  <1>6. RequestInv'
    <2>1. \A s \in Request : tool[s] = "answered" => answer[s] # p
      BY <1>3, PollAssumption DEF ControlInv, RequestInv, Nothing
    <2>2. \A s \in Request : tool'[s] = "answered" => answer'[s] # Nothing /\ handed'[answer'[s]] = s
      BY <1>0, <1>2, <2>1 DEF ControlInv, RequestInv, ControlTypeOK
    <2>3. \A s \in Request : s \in Pending' \cup inFlight' <=> tool'[s] = "asking"
      BY <1>1, <1>2 DEF ControlInv, RequestInv
    <2>4. Pending' \cap inFlight' = {}
      BY <1>1, <1>2 DEF ControlInv, RequestInv
    <2> QED BY <1>1, <2>2, <2>3, <2>4 DEF RequestInv
  <1>7. PollInv'
    <2>1. \A q \in Poll : poll'[q] \in {"none", "asleep", "awake"} => handed'[q] = Nothing
      BY <1>0, <1>2 DEF ControlInv, PollInv
    <2>2. \A q \in Poll : poll'[q] = "working" => handed'[q] # Nothing
      BY <1>0, <1>2, <1>3 DEF ControlInv, PollInv
    <2>3. \A q \in Poll : handed[q] # r
      BY <1>1, <1>3 DEF ControlInv, PollInv
    <2>4. tool[r] # "none"
      BY <1>1 DEF ControlInv, RequestInv
    <2>5. \A q \in Poll : handed'[q] # Nothing => handed'[q] \notin Pending' /\ tool'[handed'[q]] # "none"
      BY <1>0, <1>1, <1>2, <2>4 DEF ControlInv, PollInv
    <2>6. \A q, s \in Poll : handed'[q] = handed'[s] /\ handed'[q] # Nothing => q = s
      BY <1>0, <1>2, <2>3 DEF ControlInv, PollInv
    <2> QED BY <2>1, <2>2, <2>5, <2>6 DEF PollInv
  <1> QED BY <1>4, <1>5, <1>6, <1>7 DEF ControlInv

(* A poll that goes to sleep or gives up takes nothing.                    *)
LEMMA IdlePollKeeps ==
  ASSUME ControlInv, NEW p \in Poll,
         NEW place \in {"asleep", "awake", "empty", "refused"},
         poll[p] \in {"none", "asleep", "awake"}, poll' = [poll EXCEPT ![p] = place],
         place = "asleep" => queue = <<>> /\ p \in waiters',
         waiters \subseteq waiters', waiters' \subseteq Poll, connected' \in BOOLEAN,
         UNCHANGED <<tool, answer, queue, inFlight, handed, desktop, shut>>
  PROVE  ControlInv'
  <1>0. poll \in [Poll -> {"none", "asleep", "awake", "empty", "refused", "working", "over"}]
        /\ Pending' = Pending
    BY DEF ControlInv, ControlTypeOK, Pending
  <1>1. ControlTypeOK'
    BY <1>0 DEF ControlInv, ControlTypeOK
  <1>2. NoPollSleepsOnWork'
    BY <1>0 DEF ControlInv, NoPollSleepsOnWork
  <1>3. RequestInv'
    BY <1>0 DEF ControlInv, RequestInv
  <1>4. PollInv'
    BY <1>0 DEF ControlInv, PollInv
  <1> QED BY <1>1, <1>2, <1>3, <1>4 DEF ControlInv

LEMMA ClaimKeeps ==
  ASSUME ControlInv, NEW p \in Poll, Claim(p)
  PROVE  ControlInv'
  <1>0. waiters \subseteq Poll /\ connected \in BOOLEAN /\ poll[p] = "none"
        /\ UNCHANGED <<tool, answer, desktop, shut>>
    BY DEF ControlInv, ControlTypeOK, Claim
  <1>1. CASE ~Authentic(p)
    BY <1>0, <1>1, IdlePollKeeps DEF Claim
  <1>2. CASE Authentic(p) /\ queue # <<>>
    BY <1>0, <1>2, HandOutKeeps DEF Claim
  <1>3. CASE Authentic(p) /\ queue = <<>>
    BY <1>0, <1>3, IdlePollKeeps DEF Claim
  <1> QED BY <1>1, <1>2, <1>3

LEMMA ClaimAgainKeeps ==
  ASSUME ControlInv, NEW p \in Poll, ClaimAgain(p)
  PROVE  ControlInv'
  <1>0. waiters \subseteq Poll /\ connected \in BOOLEAN /\ poll[p] = "awake"
        /\ UNCHANGED <<tool, answer, waiters, desktop, shut>>
    BY DEF ControlInv, ControlTypeOK, ClaimAgain
  <1>1. CASE ~Authentic(p)
    BY <1>0, <1>1, IdlePollKeeps DEF ClaimAgain
  <1>2. CASE Authentic(p) /\ queue # <<>>
    BY <1>0, <1>2, HandOutKeeps DEF ClaimAgain
  <1>3. CASE Authentic(p) /\ queue = <<>>
    BY <1>0, <1>3, IdlePollKeeps DEF ClaimAgain
  <1> QED BY <1>1, <1>2, <1>3

LEMMA PollTimesOutKeeps ==
  ASSUME ControlInv, NEW p \in Poll, PollTimesOut(p)
  PROVE  ControlInv'
  <1>0. waiters \subseteq Poll /\ connected \in BOOLEAN
    BY DEF ControlInv, ControlTypeOK
  <1> QED BY <1>0, IdlePollKeeps DEF PollTimesOut

(* The result is that of the poll the request was handed to.               *)
LEMMA CompleteKeeps ==
  ASSUME ControlInv, NEW p \in Poll, Complete(p)
  PROVE  ControlInv'
  <1> DEFINE r == handed[p]
  <1>0. /\ poll \in [Poll -> {"none", "asleep", "awake", "empty", "refused", "working", "over"}]
        /\ tool \in [Request -> {"none", "asking", "answered", "refused", "interrupted", "timeout", "closed"}]
        /\ answer \in [Request -> Poll \cup {Nothing}]
        /\ poll[p] = "working" /\ poll' = [poll EXCEPT ![p] = "over"] /\ Pending' = Pending
        /\ UNCHANGED <<queue, handed, waiters, desktop, shut>>
        /\ inFlight \subseteq Request
    BY DEF ControlInv, ControlTypeOK, Pending, Complete
  <1>1. CASE Authentic(p) /\ r \in inFlight
    <2>0. /\ tool' = [tool EXCEPT ![r] = "answered"] /\ answer' = [answer EXCEPT ![r] = p]
          /\ inFlight' = inFlight \ {r} /\ r \in Request
      BY <1>0, <1>1 DEF Complete
    <2>1. p # Nothing /\ r \notin Pending
      BY <1>1, PollAssumption DEF Nothing, ControlInv, RequestInv
    <2>2. ControlTypeOK'
      <3>1. tool' \in [Request -> {"none", "asking", "answered", "refused", "interrupted", "timeout", "closed"}]
            /\ answer' \in [Request -> Poll \cup {Nothing}]
        BY <1>0, <2>0
      <3>2. connected' \in BOOLEAN
        BY DEF Complete, ControlInv, ControlTypeOK
      <3> QED BY <1>0, <2>0, <3>1, <3>2 DEF ControlInv, ControlTypeOK
    <2>3. NoPollSleepsOnWork'
      BY <1>0 DEF ControlInv, NoPollSleepsOnWork
    <2>4. RequestInv'
      <3>1. \A s \in Request : s \in Pending' \cup inFlight' <=> tool'[s] = "asking"
        BY <1>0, <2>0, <2>1 DEF ControlInv, RequestInv
      <3>2. \A s \in Request : tool'[s] = "answered" => answer'[s] # Nothing /\ handed'[answer'[s]] = s
        BY <1>0, <2>0, <2>1 DEF ControlInv, RequestInv
      <3> QED BY <1>0, <2>0, <3>1, <3>2 DEF ControlInv, RequestInv
    <2>5. PollInv'
      BY <1>0, <2>0 DEF ControlInv, PollInv
    <2> QED BY <2>2, <2>3, <2>4, <2>5 DEF ControlInv
  <1>2. CASE ~(Authentic(p) /\ r \in inFlight)
    <2>0. UNCHANGED <<tool, answer, inFlight>>
      BY <1>2 DEF Complete
    <2>1. connected' \in BOOLEAN
      BY DEF Complete, ControlInv, ControlTypeOK
    <2>2. ControlTypeOK'
      BY <1>0, <2>0, <2>1 DEF ControlInv, ControlTypeOK
    <2>3. NoPollSleepsOnWork'
      BY <1>0 DEF ControlInv, NoPollSleepsOnWork
    <2>4. RequestInv'
      BY <1>0, <2>0 DEF ControlInv, RequestInv
    <2>5. PollInv'
      BY <1>0, <2>0 DEF ControlInv, PollInv
    <2> QED BY <2>2, <2>3, <2>4, <2>5 DEF ControlInv
  <1> QED BY <1>1, <1>2

LEMMA CloseKeeps == ControlInv /\ CloseControl => ControlInv'
  <1> SUFFICES ASSUME ControlInv, CloseControl
               PROVE  ControlInv'
    OBVIOUS
  <1>0. /\ queue' = <<>> /\ queue' \in Seq(Request) /\ Len(queue') = 0 /\ Pending' = {} /\ inFlight' = {}
        /\ tool' = [r \in Request |-> IF r \in Pending \cup inFlight THEN "closed" ELSE tool[r]]
        /\ UNCHANGED <<answer, handed, desktop, connected>> /\ shut' = TRUE
    BY EmptySeq DEF CloseControl, Pending
  <1>1. /\ poll' \in [Poll -> {"none", "asleep", "awake", "empty", "refused", "working", "over"}]
        /\ waiters' = {}
        /\ \A p \in Poll : poll'[p] # "asleep"
        /\ \A p \in Poll : poll'[p] # poll[p] => poll[p] = "asleep" /\ poll'[p] = "awake"
    BY WakeLeavesNoneAsleep DEF ControlInv, CloseControl
  <1>2. ControlTypeOK'
    BY <1>0, <1>1 DEF ControlInv, ControlTypeOK
  <1>3. NoPollSleepsOnWork'
    BY <1>1 DEF NoPollSleepsOnWork
  <1>4. RequestInv'
    BY <1>0 DEF ControlInv, RequestInv
  <1>5. PollInv'
    <2>1. \A p \in Poll : handed[p] # Nothing => handed[p] \in Request
      BY DEF ControlInv, ControlTypeOK
    <2> QED BY <1>0, <1>1, <2>1 DEF ControlInv, PollInv
  <1> QED BY <1>2, <1>3, <1>4, <1>5 DEF ControlInv

LEMMA RegisterKeeps ==
  ASSUME ControlInv, NEW d \in Executor, RegisterExecutor(d)
  PROVE  ControlInv'
  <1>0. UNCHANGED <<tool, answer, queue, inFlight, handed, shut>> /\ Pending' = Pending
        /\ desktop' = d /\ connected' = TRUE
    BY DEF RegisterExecutor, Pending
  <1>1. /\ poll' \in [Poll -> {"none", "asleep", "awake", "empty", "refused", "working", "over"}]
        /\ waiters' = {}
        /\ \A p \in Poll : poll'[p] # "asleep"
        /\ \A p \in Poll : poll'[p] # poll[p] => poll[p] = "asleep" /\ poll'[p] = "awake"
    BY WakeLeavesNoneAsleep DEF ControlInv, RegisterExecutor
  <1>2. ControlTypeOK'
    BY <1>0, <1>1 DEF ControlInv, ControlTypeOK
  <1>3. NoPollSleepsOnWork'
    BY <1>1 DEF NoPollSleepsOnWork
  <1>4. RequestInv'
    BY <1>0 DEF ControlInv, RequestInv
  <1>5. PollInv'
    BY <1>0, <1>1 DEF ControlInv, PollInv
  <1> QED BY <1>2, <1>3, <1>4, <1>5 DEF ControlInv

LEMMA IdleKeeps ==
  ASSUME ControlInv, HeartbeatExpires \/ UNCHANGED controlVars
  PROVE  ControlInv'
  <1>0. UNCHANGED <<tool, answer, queue, inFlight, handed, poll, waiters, desktop, shut>>
        /\ Pending' = Pending
    BY DEF HeartbeatExpires, controlVars, Pending
  <1>1. connected' \in BOOLEAN
    BY DEF HeartbeatExpires, controlVars, ControlInv, ControlTypeOK
  <1> QED BY <1>0, <1>1 DEF ControlInv, ControlTypeOK, NoPollSleepsOnWork, RequestInv, PollInv

LEMMA ControlStep == ControlInv /\ [ControlNext]_controlVars => ControlInv'
  <1> SUFFICES ASSUME ControlInv, [ControlNext]_controlVars
               PROVE  ControlInv'
    OBVIOUS
  <1>1. CASE \E r \in Request : AskDesktop(r)
    BY <1>1, AskKeeps
  <1>2. CASE \E r \in Request : RequestTimesOut(r) \/ Interrupt(r)
    BY <1>2, GiveUpKeeps DEF RequestTimesOut, Interrupt
  <1>3. CASE \E d \in Executor : RegisterExecutor(d)
    BY <1>3, RegisterKeeps
  <1>4. CASE \E p \in Poll : Claim(p)
    BY <1>4, ClaimKeeps
  <1>5. CASE \E p \in Poll : PollTimesOut(p)
    BY <1>5, PollTimesOutKeeps
  <1>6. CASE \E p \in Poll : ClaimAgain(p)
    BY <1>6, ClaimAgainKeeps
  <1>7. CASE \E p \in Poll : Complete(p)
    BY <1>7, CompleteKeeps
  <1>8. CASE CloseControl
    BY <1>8, CloseKeeps
  <1>9. CASE HeartbeatExpires \/ UNCHANGED controlVars
    BY <1>9, IdleKeeps
  <1> QED BY <1>1, <1>2, <1>3, <1>4, <1>5, <1>6, <1>7, <1>8, <1>9 DEF ControlNext

LEMMA ControlInvariant == ControlSpec => []ControlInv
  BY ControlInitInv, ControlStep, PTL DEF ControlSpec

-----------------------------------------------------------------------------
(* No desktop's poll sleeps on while a request waits for a desktop.        *)
THEOREM PollsAreWoken == ControlSpec => []NoPollSleepsOnWork
  <1>1. ControlInv => NoPollSleepsOnWork
    BY DEF ControlInv
  <1> QED BY <1>1, ControlInvariant, PTL

(* A browser request is handed to one poll, its turn gets the result of    *)
(* that poll, and it is in the queue or in flight exactly while it asks.   *)
THEOREM RequestsAreHandedOutOnce == ControlSpec => []HandedOutOnce
  <1>1. ControlInv => HandedOutOnce
    <2> SUFFICES ASSUME ControlInv
                 PROVE  HandedOutOnce
      OBVIOUS
    <2>1. \A p, q \in Poll : handed[p] = handed[q] /\ handed[p] # Nothing => p = q
      BY DEF ControlInv, PollInv
    <2>2. \A r \in Request : tool[r] = "answered" => answer[r] # Nothing /\ handed[answer[r]] = r
      BY DEF ControlInv, RequestInv
    <2>3. \A r \in Request : /\ r \in Pending \cup inFlight <=> tool[r] = "asking"
                             /\ r \in inFlight <=> r \notin Pending /\ tool[r] = "asking"
      BY DEF ControlInv, RequestInv
    <2> QED BY <2>1, <2>2, <2>3 DEF HandedOutOnce
  <1> QED BY <1>1, ControlInvariant, PTL

(* A request goes to the desktop that is registered at that moment.        *)
THEOREM OnlyTheRegisteredAreServed == ControlSpec => HandedToRegistered
  <1>1. ASSUME ControlInv, [ControlNext]_controlVars
        PROVE  [\A p \in Poll : handed'[p] # handed[p] => TokenOf[p] = desktop]_controlVars
    <2>1. CASE \E p \in Poll : Claim(p)
      BY <1>1, <2>1 DEF ControlInv, ControlTypeOK, Claim, HandOut, Authentic
    <2>2. CASE \E p \in Poll : ClaimAgain(p)
      BY <1>1, <2>2 DEF ControlInv, ControlTypeOK, ClaimAgain, HandOut, Authentic
    <2>3. CASE UNCHANGED handed
      BY <2>3
    <2>4. (\E p \in Poll : Claim(p)) \/ (\E p \in Poll : ClaimAgain(p)) \/ UNCHANGED handed
      BY <1>1 DEF ControlNext, AskDesktop, RequestTimesOut, Interrupt, RegisterExecutor, PollTimesOut,
                  Complete, HeartbeatExpires, CloseControl, controlVars
    <2> QED BY <2>1, <2>2, <2>3, <2>4
  <1> QED BY <1>1, ControlInvariant, PTL DEF ControlSpec, HandedToRegistered

=============================================================================
