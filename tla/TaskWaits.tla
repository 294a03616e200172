----------------------------- MODULE TaskWaits -----------------------------
(***************************************************************************)
(* A turn that waits for another task, for a message, or for its deadline: *)
(* the row in task_waits, the loop of TaskSignals.wait and everything that *)
(* may happen between two of its awaits.                                   *)
(*                                                                         *)
(* Durable facts (a turn ended, a child reported, a message was accepted)  *)
(* are committed first and signalled later, by a call that sits in notices *)
(* meanwhile.  Signals are process-local: a crash loses them.              *)
(***************************************************************************)
EXTENDS Naturals, FiniteSets

CONSTANTS Task,      \* sessions, each with one turn
          Child,     \* those that are subagents: their report follows the turn
          Call,      \* calls of openpond_wait_for_task
          CallerOf,  \* the task whose turn makes the call
          NoTask,    \* no target: wait for inbox activity
          MaxEvents  \* messages, Stops and cancellations that arrive

ASSUME WaitTaskAssumption == Child \subseteq Task /\ NoTask \notin Task
ASSUME WaitCallAssumption == CallerOf \in [Call -> Task]
ASSUME WaitEventAssumption == MaxEvents \in Nat

VARIABLES row,        \* task_waits: state and target of each call's wait
          call,       \* where each call is
          found,      \* what its read has found
          changed,    \* revision # before, in TaskSignals.wait
          late,       \* calls whose deadline has passed
          ended,      \* tasks whose turn is not in_progress
          closed,     \* tasks whose inbox row the turn has closed
          cancelled,  \* children whose run is cancelled
          reported,   \* children with a row in the completion outbox
          mail,       \* tasks with a pending message beyond afterSequence
          stopped,    \* tasks whose turn's controller is aborted
          notices,    \* tasks that a caller of notify is about to signal
          host        \* the server: up, down, or recovering

waitVars == <<row, call, found, changed, late, ended, closed, cancelled, reported, mail, stopped, notices, host>>

WaitOutcome == {"completed", "message", "timeout", "cancelled", "unavailable"}

(* From subscription to unsubscription in TaskSignals.wait.                *)
Listening == {"loop", "reading_turn", "reading_run", "reading_run_of_ended", "reading_report",
              "reading_inbox", "judging", "asleep"}

InWait == Listening \cup {"announcing", "settling", "telling", "caught"}

WaitsTypeOK ==
  /\ row \in [Call -> [state : {"none", "waiting"} \cup WaitOutcome, target : Task \cup {NoTask}]]
  /\ call \in [Call -> {"idle", "done", "unannounced", "lost"} \cup InWait]
  /\ found \in [Call -> {"nothing"} \cup WaitOutcome]
  /\ changed \subseteq Call /\ late \subseteq Call
  /\ ended \subseteq Task /\ closed \subseteq ended /\ mail \subseteq Task /\ stopped \subseteq Task /\ notices \subseteq Task
  /\ cancelled \subseteq Child /\ reported \subseteq Child
  /\ host \in {"up", "down", "recovering"}

WaitsInit ==
  /\ row = [c \in Call |-> [state |-> "none", target |-> NoTask]]
  /\ call = [c \in Call |-> "idle"]
  /\ found = [c \in Call |-> "nothing"]
  /\ changed = {} /\ late = {}
  /\ ended = {} /\ closed = {} /\ cancelled = {} /\ reported = {} /\ mail = {} /\ stopped = {} /\ notices = {}
  /\ host = "up"

-----------------------------------------------------------------------------
Waiting(c) == row[c].state = "waiting"
Becomes(c, to) == call' = [call EXCEPT ![c] = to]

Targets(S) == {row[c].target : c \in {d \in Call : Waiting(d) /\ CallerOf[d] \in S}} \ {NoTask}

WaitersFor(t) == {CallerOf[c] : c \in {d \in Call : Waiting(d) /\ row[d].target = t}}  \* mutant: the wrong direction

(* The recursive query of createTaskWait: the least set that holds what t  *)
(* waits for and what its members wait for.                                *)
Dependencies(t) ==
  {x \in Task : \A S \in SUBSET Task : Targets({t}) \subseteq S /\ Targets(S) \subseteq S => x \in S}

SettleAgain(c, state) == row' = [row EXCEPT ![c].state = state]  \* mutant: does not look at the state

(* settleTaskWait: only a wait that is still waiting is settled.           *)
Settle(c, state) == row' = IF Waiting(c) THEN [row EXCEPT ![c].state = state] ELSE row

-----------------------------------------------------------------------------
(* wait, up to the transaction of createTaskWait, which refuses cycles.    *)
Create(c, t) ==
  /\ host # "down" /\ call[c] = "idle"
  /\ CallerOf[c] \notin ended
  /\ t # CallerOf[c]
  /\ CallerOf[c] \notin Dependencies(t)
  /\ row' = [row EXCEPT ![c] = [state |-> "waiting", target |-> t]]
  /\ Becomes(c, "announcing")
  /\ UNCHANGED <<found, changed, late, ended, closed, cancelled, reported, mail, stopped, notices, host>>

CreateFails(c, t) ==
  /\ host # "down" /\ call[c] = "idle"
  /\ t = CallerOf[c] \/ CallerOf[c] \in Dependencies(t)
  /\ Becomes(c, "done")
  /\ UNCHANGED <<row, found, changed, late, ended, closed, cancelled, reported, mail, stopped, notices, host>>

(* The first waitEvent is written outside the try: if it throws, the call  *)
(* fails and its row stays.                                                *)
Announce(c) ==
  /\ call[c] = "announcing"
  /\ Becomes(c, "loop") \/ Becomes(c, "unannounced")
  /\ UNCHANGED <<row, found, changed, late, ended, closed, cancelled, reported, mail, stopped, notices, host>>

(* The top of the loop: throwIfAborted, before = revision, read.           *)
Loop(c) ==
  /\ call[c] = "loop"
  /\ Becomes(c, IF CallerOf[c] \in stopped THEN "caught"
                ELSE IF row[c].target = NoTask THEN "reading_inbox" ELSE "reading_turn")
  /\ changed' = changed \ {c}
  /\ found' = [found EXCEPT ![c] = "nothing"]
  /\ UNCHANGED <<row, late, ended, closed, cancelled, reported, mail, stopped, notices, host>>

ReadTurn(c) ==
  /\ call[c] = "reading_turn"
  /\ Becomes(c, IF row[c].target \in ended THEN "reading_run_of_ended" ELSE "reading_run")
  /\ UNCHANGED <<row, found, changed, late, ended, closed, cancelled, reported, mail, stopped, notices, host>>

(* A task that is waited for has had a turn; a child still queued without *)
(* one, whose run alone decides, is left out.                              *)
ReadRun(c) ==
  /\ call[c] \in {"reading_run", "reading_run_of_ended"}
  /\ LET t == row[c].target IN
     IF t \in cancelled
     THEN Becomes(c, "judging") /\ found' = [found EXCEPT ![c] = "cancelled"]
     ELSE IF call[c] = "reading_run" THEN Becomes(c, "reading_inbox") /\ UNCHANGED found
     ELSE IF t \in Child THEN Becomes(c, "reading_report") /\ UNCHANGED found
     ELSE Becomes(c, "judging") /\ found' = [found EXCEPT ![c] = "completed"]
  /\ UNCHANGED <<row, changed, late, ended, closed, cancelled, reported, mail, stopped, notices, host>>

(* A child's turn counts when its report is committed; until then the read *)
(* returns null, without a look at the inbox.                              *)
ReadReport(c) ==
  /\ call[c] = "reading_report"
  /\ Becomes(c, "judging")
  /\ found' = [found EXCEPT ![c] = IF row[c].target \in reported THEN "completed" ELSE "nothing"]
  /\ UNCHANGED <<row, changed, late, ended, closed, cancelled, reported, mail, stopped, notices, host>>

ReadInbox(c) ==
  /\ call[c] = "reading_inbox"
  /\ Becomes(c, "judging")
  /\ found' = [found EXCEPT ![c] = IF CallerOf[c] \in mail THEN "message" ELSE "nothing"]
  /\ UNCHANGED <<row, changed, late, ended, closed, cancelled, reported, mail, stopped, notices, host>>

JudgeUnheard(c) ==  \* mutant: what changed during the read is not looked at
  /\ call[c] = "judging"
  /\ IF found[c] # "nothing" THEN Becomes(c, "settling") /\ UNCHANGED found
     ELSE IF c \in late THEN Becomes(c, "settling") /\ found' = [found EXCEPT ![c] = "timeout"]
     ELSE Becomes(c, "asleep") /\ UNCHANGED found
  /\ changed' = changed \ {c}
  /\ UNCHANGED <<row, late, ended, closed, cancelled, reported, mail, stopped, notices, host>>

Judge(c) ==
  /\ call[c] = "judging"
  /\ IF found[c] # "nothing" THEN Becomes(c, "settling") /\ UNCHANGED found
     ELSE IF c \in late THEN Becomes(c, "settling") /\ found' = [found EXCEPT ![c] = "timeout"]
     ELSE Becomes(c, IF c \in changed \/ CallerOf[c] \in stopped THEN "loop" ELSE "asleep") /\ UNCHANGED found
  /\ UNCHANGED <<row, changed, late, ended, closed, cancelled, reported, mail, stopped, notices, host>>

Awake(c) ==
  /\ call[c] = "asleep" /\ c \in changed
  /\ Becomes(c, "loop")
  /\ UNCHANGED <<row, found, changed, late, ended, closed, cancelled, reported, mail, stopped, notices, host>>

(* After the finally of TaskSignals.wait: unsubscribed, the timer cleared.  *)
SettleWait(c) ==
  /\ call[c] = "settling"
  /\ Settle(c, found[c])
  /\ Becomes(c, "telling")
  /\ found' = [found EXCEPT ![c] = "nothing"]
  /\ changed' = changed \ {c}
  /\ late' = late \ {c}
  /\ UNCHANGED <<ended, closed, cancelled, reported, mail, stopped, notices, host>>

(* The event that tells the outcome may fail, which the catch takes for a  *)
(* failed wait.                                                            *)
Tell(c) ==
  /\ call[c] = "telling"
  /\ Becomes(c, "done") \/ Becomes(c, "caught")
  /\ UNCHANGED <<row, found, changed, late, ended, closed, cancelled, reported, mail, stopped, notices, host>>

CaughtOnly(c) ==  \* mutant: the catch leaves the row to others
  /\ call[c] = "caught"
  /\ Becomes(c, "done")
  /\ changed' = changed \ {c}
  /\ late' = late \ {c}
  /\ UNCHANGED <<row, found, ended, closed, cancelled, reported, mail, stopped, notices, host>>

Caught(c) ==
  /\ call[c] = "caught"
  /\ Settle(c, "cancelled")
  /\ Becomes(c, "done")
  /\ changed' = changed \ {c}
  /\ late' = late \ {c}
  /\ UNCHANGED <<found, ended, closed, cancelled, reported, mail, stopped, notices, host>>

CallStep(c) ==
  \/ Announce(c) \/ Loop(c) \/ ReadTurn(c) \/ ReadRun(c) \/ ReadReport(c) \/ ReadInbox(c)
  \/ Judge(c) \/ Awake(c) \/ SettleWait(c) \/ Tell(c) \/ Caught(c)

-----------------------------------------------------------------------------
(* setTimeout(changed, ...), after which Date.now() >= deadline.           *)
Deadline(c) ==
  /\ call[c] \in Listening /\ c \notin late
  /\ late' = late \cup {c}
  /\ changed' = changed \cup {c}
  /\ UNCHANGED <<row, call, found, ended, closed, cancelled, reported, mail, stopped, notices, host>>

(* signals.notify: every listener of the task, then each wakes its loop.   *)
Notify(t) ==
  /\ t \in notices
  /\ notices' = notices \ {t}
  /\ changed' = changed \cup {c \in Call : call[c] \in Listening /\ t \in {CallerOf[c], row[c].target}}
  /\ UNCHANGED <<row, call, found, late, ended, closed, cancelled, reported, mail, stopped, host>>

(* The status is written while the turn makes its last steps, or earlier   *)
(* by a Stop, which may also find a turn that a crash left behind.         *)
TurnEnds(t) ==
  /\ host # "down" /\ t \notin ended
  /\ t \in stopped \/ host = "recovering" \/ \A c \in Call : CallerOf[c] = t => call[c] \notin InWait
  /\ ended' = ended \cup {t}
  /\ UNCHANGED <<row, call, found, changed, late, closed, cancelled, reported, mail, stopped, notices, host>>

(* settled, when the tools of the turn have returned.                      *)
CloseInbox(t) ==
  /\ host = "up" /\ t \in ended \ closed
  /\ \A c \in Call : CallerOf[c] = t => call[c] \notin InWait
  /\ closed' = closed \cup {t}
  /\ notices' = notices \cup {t}
  /\ UNCHANGED <<row, call, found, changed, late, ended, cancelled, reported, mail, stopped, host>>

Report(t) ==
  /\ host = "up" /\ t \in (Child \cap ended) \ (reported \cup cancelled)
  /\ reported' = reported \cup {t}
  /\ notices' = notices \cup {t}
  /\ UNCHANGED <<row, call, found, changed, late, ended, closed, cancelled, mail, stopped, host>>

MayHappen == Cardinality(mail) + Cardinality(stopped) + Cardinality(cancelled) < MaxEvents

CancelChild(t) ==
  /\ MayHappen
  /\ host # "down" /\ t \in Child \ (cancelled \cup reported)
  /\ cancelled' = cancelled \cup {t}
  /\ notices' = notices \cup {t}
  /\ UNCHANGED <<row, call, found, changed, late, ended, closed, reported, mail, stopped, host>>

Message(t) ==
  /\ MayHappen
  /\ host # "down" /\ t \notin mail
  /\ mail' = mail \cup {t}
  /\ notices' = notices \cup {t}
  /\ UNCHANGED <<row, call, found, changed, late, ended, closed, cancelled, reported, stopped, host>>

(* The abort listener of every wait of the turn.                           *)
StopTurn(t) ==
  /\ MayHappen
  /\ host = "up" /\ t \notin stopped \cup ended
  /\ stopped' = stopped \cup {t}
  /\ changed' = changed \cup {c \in Call : CallerOf[c] = t /\ call[c] \in Listening}
  /\ UNCHANGED <<row, call, found, late, ended, closed, cancelled, reported, mail, notices, host>>

HostCrash ==
  /\ host # "down"
  /\ host' = "down"
  /\ call' = [c \in Call |-> IF call[c] \in InWait \cup {"idle"} THEN "lost" ELSE call[c]]
  /\ found' = [c \in Call |-> "nothing"]
  /\ changed' = {} /\ late' = {} /\ notices' = {}
  /\ UNCHANGED <<row, ended, closed, cancelled, reported, mail, stopped>>

HostStart ==
  /\ host = "down"
  /\ host' = "recovering"
  /\ UNCHANGED <<row, call, found, changed, late, ended, closed, cancelled, reported, mail, stopped, notices>>

RecoverTurnsOnly ==  \* mutant: the waits of a turn are not recovered
  /\ host = "recovering"
  /\ host' = "up"
  /\ ended' = Task /\ closed' = Task
  /\ notices' = notices \cup (Task \ closed)
  /\ UNCHANGED <<row, call, found, changed, late, cancelled, reported, mail, stopped>>

(* recoverTaskInboxOwners: the waits of every turn whose inbox was open;   *)
(* then these turns are interrupted.                                       *)
RecoverWaits ==
  /\ host = "recovering"
  /\ host' = "up"
  /\ row' = [c \in Call |-> IF Waiting(c) /\ CallerOf[c] \notin closed
                            THEN [row[c] EXCEPT !.state = "unavailable"] ELSE row[c]]
  /\ ended' = Task /\ closed' = Task
  /\ notices' = notices \cup (Task \ closed)
  /\ UNCHANGED <<call, found, changed, late, cancelled, reported, mail, stopped>>

WaitsNext ==
  \/ \E c \in Call : CallStep(c) \/ Deadline(c) \/ \E t \in Task \cup {NoTask} : Create(c, t) \/ CreateFails(c, t)
  \/ \E t \in Task : Notify(t) \/ TurnEnds(t) \/ CloseInbox(t) \/ Report(t) \/ CancelChild(t) \/ Message(t) \/ StopTurn(t)
  \/ HostCrash \/ HostStart \/ RecoverWaits

(* Calls go on, timers fire, and a crashed server is started again until   *)
(* it recovers.  No turn has to end, nobody has to send or signal.         *)
WaitsProgress == HostStart \/ \E c \in Call : CallStep(c) \/ Deadline(c)

WaitsFairness == WF_waitVars(WaitsProgress) /\ SF_waitVars(RecoverWaits)

WaitsSpec == WaitsInit /\ [][WaitsNext]_waitVars /\ WaitsFairness

-----------------------------------------------------------------------------
(* Tasks never wait for each other in a circle: every set of tasks has one *)
(* that waits for none of the set.                                         *)
NoWaitCycle == \A S \in (SUBSET Task) \ {{}} : \E t \in S : Targets({t}) \cap S = {}

(* "A wait settles once": the outcome a model was told is not replaced by  *)
(* a late timeout, by the failure of the event that tells it, or by        *)
(* recovery.                                                               *)
SettledIsFinal == [][\A c \in Call : row[c].state \in WaitOutcome => row'[c] = row[c]]_waitVars

(* What a read that begins now would find.                                 *)
Due(c) ==
  LET t == row[c].target IN
  IF t = NoTask \/ t \notin ended \cup cancelled THEN CallerOf[c] \in mail
  ELSE t \in cancelled \cup reported \/ t \notin Child

Announced(t) == t \in notices \cup (ended \ closed)

(* "Subscribe before reading the condition to close the arrival-before-    *)
(* wait race": a call that sleeps has seen everything that is already      *)
(* there, unless the signal for it is still to come.                       *)
NothingMissed ==
  \A c \in Call : call[c] = "asleep" /\ c \notin changed =>
    /\ CallerOf[c] \notin stopped /\ c \notin late
    /\ Due(c) => \E t \in {CallerOf[c], row[c].target} : Announced(t)

(* A row that is waiting has a call that will settle it or a recovery that *)
(* will; but a call whose first event failed leaves its row behind.        *)
WaitingIsServed ==
  \A c \in Call : Waiting(c) =>
    call[c] \in InWait \cup {"unannounced"} \/ (call[c] = "lost" /\ host # "up")

(* Every wait that was announced ends, at its deadline if nothing happens, *)
(* across any number of crashes.                                           *)
EveryWaitEnds ==
  (\E c \in Call : Waiting(c)) ~> (\A c \in Call : Waiting(c) => call[c] = "unannounced")
=============================================================================
