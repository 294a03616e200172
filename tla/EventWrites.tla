---------------------------- MODULE EventWrites ----------------------------
(***************************************************************************)
(* How what a turn emits gets to the event table.  Text is gathered in a   *)
(* buffer per stream (answer or reasoning, of one provider request), which *)
(* is written when it is full, when its timer fires, when any other event  *)
(* comes or when there are too many buffers; writes run one at a time, a   *)
(* few may be under way and the rest wait for capacity.                    *)
(*                                                                         *)
(* The slot that a finished write frees is taken by the first that waits   *)
(* before anything else runs: both are continuations of the same turn of   *)
(* the event loop.                                                         *)
(***************************************************************************)
EXTENDS Naturals, Sequences, FiniteSets

CONSTANTS Producer,   \* turns; each emits one thing at a time
          Stream,     \* assistantDeltaKey: what text is gathered by
          TurnOf,     \* the turn of a stream; a turn may have several
          MaxEmits,   \* how much each producer emits
          MaxWrites,  \* MAX_PENDING_WRITES
          MaxStreams  \* MAX_PENDING_ASSISTANT_STREAMS

ASSUME WritesAssumption ==
  /\ MaxEmits \in [Producer -> Nat] /\ MaxWrites \in Nat \ {0} /\ MaxStreams \in Nat \ {0}
  /\ TurnOf \in [Stream -> Producer] /\ Stream \cap Producer = {} /\ "timer" \notin Producer

VARIABLES emitted,  \* what each producer has emitted, and calls appendRuntimeEvent with
          pc,       \* where that call is
          todo,     \* streams that its flushAssistantDeltas has still to flush
          buffer,   \* pendingAssistantDeltas
          waiting,  \* writes without capacity, in the order they asked
          chain,    \* writes with capacity, in the order of tail
          log,      \* what is stored
          failed

writesVars == <<emitted, pc, todo, buffer, waiting, chain, log, failed>>

(* What is emitted is text of a stream of the turn or another event, for   *)
(* which the turn itself stands.                                           *)
Lane == Stream \cup Producer
Emitter(s) == IF s \in Stream THEN TurnOf[s] ELSE s
Lanes(p) == {s \in Stream : TurnOf[s] = p} \cup {p}

Count == Nat \ {0}
Item == Lane \X Count
Write == [stream : Lane, items : Seq(Count), by : Producer \cup {"timer"}]

AppendPlace == {"idle", "admit", "gather", "flush", "flushing", "drain", "write", "written", "parting", "part", "failed"}

(* Everything is of the kind the code declares.                            *)
WritesTypeOK ==
  /\ emitted \in [Producer -> Seq(Lane)]
  /\ \A p \in Producer : emitted[p] \in Seq(Lanes(p)) /\ Len(emitted[p]) <= MaxEmits[p]
  /\ pc \in [Producer -> AppendPlace]
  /\ todo \in [Producer -> SUBSET Stream]
  /\ buffer \in [Stream -> Seq(Count)]
  /\ waiting \in Seq(Write) /\ chain \in Seq(Write)
  /\ Len(chain) <= MaxWrites
  /\ log \in Seq(Item)
  /\ failed \in BOOLEAN

WritesInit ==
  /\ emitted = [p \in Producer |-> <<>>]
  /\ pc = [p \in Producer |-> "idle"]
  /\ todo = [p \in Producer |-> {}]
  /\ buffer = [s \in Stream |-> <<>>]
  /\ waiting = <<>> /\ chain = <<>> /\ log = <<>>
  /\ failed = FALSE

-----------------------------------------------------------------------------
Goes(p, to) == pc' = [pc EXCEPT ![p] = to]

(* What a producer is at: the number of it, and whether it is text.        *)
Number(p) == Len(emitted[p])
LaneNow(p) == emitted[p][Number(p)]
IsText(p) == LaneNow(p) \in Stream

(* writes.append: a slot if there is one, else a place among the waiters;  *)
(* nothing after a failure.                                                *)
Enter(w) ==
  IF failed THEN UNCHANGED <<chain, waiting>>
  ELSE IF Len(chain) < MaxWrites
  THEN chain' = Append(chain, w) /\ UNCHANGED waiting
  ELSE waiting' = Append(waiting, w) /\ UNCHANGED chain

(* flushAssistantDelta: take the buffer out of the map and write it.       *)
Flush(s, by) ==
  /\ buffer' = [buffer EXCEPT ![s] = <<>>]
  /\ Enter([stream |-> s, items |-> buffer[s], by |-> by])

Emit(p) ==
  /\ pc[p] = "idle" /\ Number(p) < MaxEmits[p]
  /\ \E s \in Lanes(p) : emitted' = [emitted EXCEPT ![p] = Append(@, s)]
  /\ Goes(p, "admit")
  /\ UNCHANGED <<todo, buffer, waiting, chain, log, failed>>

(* waitForCapacity; the loop of queueAssistantDelta does not ask again.    *)
Admitted(p) == pc[p] = "admit" /\ Len(chain) < MaxWrites /\ ~failed
AtText(p) == (Admitted(p) \/ pc[p] = "gather") /\ IsText(p)

Filled == {s \in Stream : buffer[s] # <<>>}
NoRoom(s) == s \notin Filled /\ Cardinality(Filled) >= MaxStreams

(* queueAssistantDelta: the text fits in the buffer ...                    *)
GatherDelta(p) ==
  /\ AtText(p) /\ ~NoRoom(LaneNow(p))
  /\ buffer' = [buffer EXCEPT ![LaneNow(p)] = Append(@, Number(p))]
  /\ Goes(p, "idle")
  /\ UNCHANGED <<emitted, todo, waiting, chain, log, failed>>

(* ... or fills it, and the producer waits for the write; there may be     *)
(* more of the text.                                                       *)
FillDelta(p) ==
  /\ AtText(p) /\ ~NoRoom(LaneNow(p))
  /\ Enter([stream |-> LaneNow(p), items |-> Append(buffer[LaneNow(p)], Number(p)), by |-> p])
  /\ buffer' = [buffer EXCEPT ![LaneNow(p)] = <<>>]
  /\ Goes(p, "written") \/ (Number(p) < MaxEmits[p] /\ Goes(p, "parting"))
  /\ UNCHANGED <<emitted, todo, log, failed>>

(* The next part of a long text counts as emitted on its own.              *)
NextPart(p) ==
  /\ pc[p] = "part" /\ Number(p) < MaxEmits[p]
  /\ emitted' = [emitted EXCEPT ![p] = Append(@, LaneNow(p))]
  /\ Goes(p, "gather")
  /\ UNCHANGED <<todo, buffer, waiting, chain, log, failed>>

FlushOwn(p) ==  \* mutant: an event flushes the text of one stream only
  /\ Admitted(p) /\ ~IsText(p)
  /\ \E s \in Stream : todo' = [todo EXCEPT ![p] = Filled \cap {s}]
  /\ Goes(p, "flush")
  /\ UNCHANGED <<emitted, buffer, waiting, chain, log, failed>>

(* Any other event flushes all streams, one after the other, and so does a *)
(* stream for which there is no buffer ...                                 *)
BeginFlush(p) ==
  /\ Admitted(p) \/ pc[p] = "gather"
  /\ IsText(p) => NoRoom(LaneNow(p))
  /\ todo' = [todo EXCEPT ![p] = Filled]
  /\ Goes(p, "flush")
  /\ UNCHANGED <<emitted, buffer, waiting, chain, log, failed>>

FlushNext(p) ==
  /\ pc[p] = "flush"
  /\ IF todo[p] = {}
     THEN Goes(p, "drain") /\ UNCHANGED <<todo, buffer, waiting, chain>>
     ELSE \E s \in todo[p] :
            /\ todo' = [todo EXCEPT ![p] = @ \ {s}]
            /\ IF buffer[s] = <<>> THEN UNCHANGED <<pc, buffer, waiting, chain>>
               ELSE Flush(s, p) /\ Goes(p, "flushing")
  /\ UNCHANGED <<emitted, log, failed>>

(* ... and waits until no append is under way; then the event is written,  *)
(* and the text looks for a buffer again.                                  *)
Drained(p) ==
  /\ pc[p] = "drain"
  /\ chain = <<>> /\ waiting = <<>>
  /\ Goes(p, IF failed THEN "failed" ELSE IF IsText(p) THEN "gather" ELSE "write")
  /\ UNCHANGED <<emitted, todo, buffer, waiting, chain, log, failed>>

WriteEvent(p) ==
  /\ pc[p] = "write"
  /\ Enter([stream |-> p, items |-> <<Number(p)>>, by |-> p])
  /\ Goes(p, "written")
  /\ UNCHANGED <<emitted, todo, buffer, log, failed>>

NoTimer(s) == FALSE /\ UNCHANGED writesVars  \* mutant: only a full buffer or an event is written

(* setTimeout(flushAssistantDelta, 40): nobody awaits it.                  *)
Timer(s) ==
  /\ buffer[s] # <<>>
  /\ Flush(s, "timer")
  /\ UNCHANGED <<emitted, pc, todo, log, failed>>

Numbered(w) == [i \in 1..Len(w.items) |-> <<w.stream, w.items[i]>>]

(* What the caller of a finished append does next.                         *)
Resumes(w) ==
  IF w.by = "timer" THEN pc
  ELSE [pc EXCEPT ![w.by] = CASE @ = "flushing" -> "flush" [] @ = "parting" -> "part" [] OTHER -> "idle"]

(* A slot is free: the first that waits has it.                            *)
NextInChain ==
  IF waiting = <<>>
  THEN chain' = Tail(chain) /\ UNCHANGED waiting
  ELSE chain' = Append(Tail(chain), Head(waiting)) /\ waiting' = Tail(waiting)

Stored ==
  /\ chain # <<>> /\ ~failed
  /\ log' = log \o Numbered(Head(chain))
  /\ pc' = Resumes(Head(chain))
  /\ NextInChain
  /\ UNCHANGED <<emitted, todo, buffer, failed>>

SkipFailure ==  \* mutant: a write that failed does not stop the others
  /\ chain # <<>> /\ ~failed
  /\ pc' = Resumes(Head(chain))
  /\ NextInChain
  /\ UNCHANGED <<emitted, todo, buffer, log, failed>>

(* The first failure: every write under way or to come fails with it, and  *)
(* so does whoever waits for one.                                          *)
WriteFails ==
  /\ chain # <<>> /\ ~failed
  /\ failed' = TRUE
  /\ chain' = <<>> /\ waiting' = <<>>
  /\ pc' = [p \in Producer |-> IF pc[p] \in {"written", "parting", "flushing"} THEN "failed" ELSE pc[p]]
  /\ UNCHANGED <<emitted, todo, buffer, log>>

(* An append after the failure.                                            *)
Refused(p) ==
  /\ failed /\ pc[p] \in {"admit", "written", "parting", "flushing"}
  /\ Goes(p, "failed")
  /\ UNCHANGED <<emitted, todo, buffer, waiting, chain, log, failed>>

ProducerStep(p) ==
  \/ GatherDelta(p) \/ FillDelta(p) \/ NextPart(p) \/ BeginFlush(p) \/ FlushNext(p) \/ Drained(p) \/ WriteEvent(p)

WritesNext ==
  \/ \E p \in Producer : Emit(p) \/ ProducerStep(p) \/ Refused(p)
  \/ \E s \in Stream : Timer(s)
  \/ Stored \/ WriteFails

(* Producers go on, timers fire and the table answers.                     *)
WritesProgress ==
  \/ Stored
  \/ \E p \in Producer : ProducerStep(p) \/ Refused(p)
  \/ \E s \in Stream : Timer(s)

WritesFairness == WF_writesVars(WritesProgress)

WritesSpec == WritesInit /\ [][WritesNext]_writesVars /\ WritesFairness

-----------------------------------------------------------------------------
(* What the order of storing keeps of the order of emitting: text of one   *)
(* stream, and anything before or after an event that is no text.  Text of *)
(* two streams may be stored the other way round.                          *)
Follows(p, m, n) == m < n /\ (emitted[p][m] = emitted[p][n] \/ emitted[p][m] = p \/ emitted[p][n] = p)

(* What a turn emits is stored once; the text of a stream in its order and *)
(* without a gap; an event after all its turn emitted before it, and text  *)
(* after the events before it.  So nothing is stored after something it    *)
(* follows that was lost: "the first failure prevents a successful final   *)
(* flush".                                                                 *)
StoredInOrder ==
  \A k \in 1..Len(log) :
    /\ \A j \in 1..(k - 1) : log[j] # log[k]
    /\ LET p == Emitter(log[k][1]) IN
       \A m \in 1..Len(emitted[p]) :
         Follows(p, m, log[k][2]) => \E j \in 1..(k - 1) : log[j] = <<emitted[p][m], m>>

OfProducer(p) == SelectSeq(log, LAMBDA i : Emitter(i[1]) = p)

(* What a turn emitted and is not stored gets there, if the table does not *)
(* fail: no text stays in a buffer and no write without a slot.            *)
EverythingIsStored ==
  (\E p \in Producer : Number(p) > Len(OfProducer(p)))
    ~> failed \/ \A p \in Producer : Number(p) = Len(OfProducer(p))
=============================================================================
