----------------------------- MODULE ChildRuns -----------------------------
(***************************************************************************)
(* Subagents: a child's run from its queued job to the report its parent   *)
(* receives, with a cancellation at any time, calls that fail and a server *)
(* that crashes.                                                           *)
(*                                                                         *)
(* The run's status and the completion outbox are durable; the job, the    *)
(* retry timer and the recovery batch live in the process.  A report is    *)
(* delivered in steps (admit an input, settle the outbox row, tell) by the *)
(* job, by a retry, or by the next server start.                           *)
(***************************************************************************)
EXTENDS Naturals, FiniteSets

CONSTANTS Kid,          \* child runs, each with one turn; ordered as turn ids are
          Cancellable,  \* those somebody may cancel
          Recovery,     \* recoverBatch, as the one who delivers
          MaxCrashes    \* crashes

ASSUME KidAssumption == Kid \subseteq Nat \ {0} /\ Cancellable \subseteq Kid /\ Recovery \notin Kid
ASSUME KidCrashAssumption == MaxCrashes \in Nat

VARIABLES run,      \* subagent_runs.status
          outbox,   \* task_completion_outbox: absent, pending, or with an input_id
          arrived,  \* how many inputs the parent got for the child's turn
          kidJob,   \* where the background job of the run is
          stage,    \* how far each deliverer is with its report
          cancel,   \* where the call that cancels the run is
          timer,    \* retryTimer
          sweep,    \* recovering: what recoverBatch has read, its cursor, its place
          crashes

kidVars == <<run, outbox, arrived, kidJob, stage, cancel, timer, sweep, crashes>>

RunStatus == {"queued", "running", "completed", "failed", "cancelled"}
Stage == {"none", "sending", "settling", "telling"}

NoBatch == [pc |-> "idle", todo |-> {}, cursor |-> 0]

KidsTypeOK ==
  /\ run \in [Kid -> RunStatus]
  /\ outbox \in [Kid -> {"none", "pending", "settled"}]
  /\ arrived \in [Kid -> 0..2]
  /\ kidJob \in [Kid -> {"queued", "starting", "turn", "turned", "stopped_turn", "failed_turn", "finishing",
                      "integrating", "reporting", "catching", "failing",
                      "reporting_failure", "delivering", "done", "dropped", "lost"}]
  /\ stage \in [Kid \cup {Recovery} -> Stage]
  /\ cancel \in [Kid -> {"none", "decided", "interrupting", "rewriting", "done"}]
  /\ timer \in BOOLEAN
  /\ sweep \in [pc : {"idle", "reading", "next", "delivering", "down"}, todo : SUBSET Kid,
                cursor : Kid \cup {0}]
  /\ crashes \in 0..MaxCrashes

KidsInit ==
  /\ run = [c \in Kid |-> "queued"]
  /\ outbox = [c \in Kid |-> "none"]
  /\ arrived = [c \in Kid |-> 0]
  /\ kidJob = [c \in Kid |-> "queued"]
  /\ stage = [w \in Kid \cup {Recovery} |-> "none"]
  /\ cancel = [c \in Kid |-> "none"]
  /\ timer = FALSE
  /\ sweep = NoBatch
  /\ crashes = 0

-----------------------------------------------------------------------------
Alive == sweep.pc # "down"   \* a server runs
JobTo(c, to) == kidJob' = [kidJob EXCEPT ![c] = to]
Run(c, status) == run' = [run EXCEPT ![c] = status]

rest == <<arrived, stage, cancel, timer, sweep, crashes>>

(* A cancelled job returns before it touches the run.                      *)
JobReads(c) ==
  /\ kidJob[c] = "queued"
  /\ JobTo(c, IF run[c] = "queued" THEN "starting" ELSE "done")
  /\ UNCHANGED <<run, outbox, rest>>

(* The upsert and two receipts, before the try: an error there ends the    *)
(* job with the run in status running.                                     *)
JobStarts(c) ==
  /\ kidJob[c] = "starting"
  /\ Run(c, "running")
  /\ JobTo(c, "turn") \/ JobTo(c, "dropped")
  /\ UNCHANGED <<outbox, rest>>

ChildTurnEnds(c) ==
  /\ kidJob[c] = "turn"
  /\ JobTo(c, "turned") \/ JobTo(c, "failed_turn")
  /\ UNCHANGED <<run, outbox, rest>>

(* finalizedSubagentChildTurn, and the run as it is now.                   *)
JobChecks(c) ==
  /\ kidJob[c] \in {"turned", "failed_turn", "stopped_turn"}
  /\ JobTo(c, IF run[c] = "cancelled" THEN "done"
            ELSE IF kidJob[c] = "turned" THEN "finishing" ELSE "catching")
  /\ UNCHANGED <<run, outbox, rest>>

(* Usage, progress and the workspace handoff, then upsertPersistedRun.     *)
JobStores(c) ==
  /\ kidJob[c] = "finishing"
  /\ \/ Run(c, "completed") /\ JobTo(c, "integrating")
     \/ JobTo(c, "catching") /\ UNCHANGED run
  /\ UNCHANGED <<outbox, rest>>

(* The workspace patch is applied or makes the run count as failed; the    *)
(* catch only knows failure.                                               *)
Outcomes(c) == IF kidJob[c] = "integrating" THEN {"completed", "failed"} ELSE {"failed"}

(* commitSubagentCompletion: the run and the outbox row, in one            *)
(* transaction; of two rows for a turn the first stays.                    *)
JobCommits(c) ==
  /\ kidJob[c] \in {"integrating", "failing"}
  /\ \/ /\ \E status \in Outcomes(c) : Run(c, status)
        /\ outbox' = [outbox EXCEPT ![c] = IF @ = "none" THEN "pending" ELSE @]
        /\ JobTo(c, IF kidJob[c] = "integrating" THEN "reporting" ELSE "reporting_failure")
     \/ /\ JobTo(c, IF kidJob[c] = "integrating" THEN "catching" ELSE "dropped")
        /\ UNCHANGED <<run, outbox>>
  /\ UNCHANGED rest

(* The receipt in the parent's timeline, then the delivery begins.         *)
JobReports(c) ==
  /\ kidJob[c] \in {"reporting", "reporting_failure"}
  /\ \/ JobTo(c, "delivering") /\ stage' = [stage EXCEPT ![c] = "sending"]
     \/ JobTo(c, IF kidJob[c] = "reporting" THEN "catching" ELSE "dropped") /\ UNCHANGED stage
  /\ UNCHANGED <<run, outbox, arrived, cancel, timer, sweep, crashes>>

(* The catch, which leaves alone a run that is no longer running.  (The    *)
(* read of the run may fail as well; the catch then goes on.)              *)
JobCatches(c) ==
  /\ kidJob[c] = "catching"
  /\ JobTo(c, "failing") \/ (run[c] # "running" /\ JobTo(c, "dropped"))
  /\ UNCHANGED <<run, outbox, rest>>

KidStep(c) ==
  \/ JobReads(c) \/ JobStarts(c) \/ ChildTurnEnds(c) \/ JobChecks(c) \/ JobStores(c)
  \/ JobCommits(c) \/ JobReports(c) \/ JobCatches(c)

-----------------------------------------------------------------------------
(* cancelSubagentFromModelTool: read the run, store it cancelled, stop the *)
(* child's turn, clean up, store it again.                                 *)
CancelReads(c) ==
  /\ Alive /\ c \in Cancellable /\ cancel[c] = "none"
  /\ run[c] \notin {"completed", "cancelled"}
  /\ cancel' = [cancel EXCEPT ![c] = "decided"]
  /\ UNCHANGED <<run, outbox, arrived, kidJob, stage, timer, sweep, crashes>>

CancelWrites(c) ==
  /\ cancel[c] \in {"decided", "rewriting"}
  /\ Run(c, "cancelled")
  /\ cancel' = [cancel EXCEPT ![c] = IF @ = "decided" THEN "interrupting" ELSE "done"]
  /\ UNCHANGED <<outbox, arrived, kidJob, stage, timer, sweep, crashes>>

CancelInterrupts(c) ==
  /\ cancel[c] = "interrupting"
  /\ cancel' = [cancel EXCEPT ![c] = "rewriting"]
  /\ kidJob' = IF kidJob[c] = "turn" THEN [kidJob EXCEPT ![c] = "stopped_turn"] ELSE kidJob
  /\ UNCHANGED <<run, outbox, arrived, stage, timer, sweep, crashes>>

-----------------------------------------------------------------------------
(* deliverCompletion for the child a deliverer is at.                      *)
Subject(w) == IF w = Recovery THEN sweep.cursor ELSE w

AdmitAgain(w) ==  \* mutant: without the idempotency key
  /\ stage[w] = "sending"
  /\ stage' = [stage EXCEPT ![w] = "settling"]
  /\ arrived' = [arrived EXCEPT ![Subject(w)] = IF @ < 2 THEN @ + 1 ELSE @]
  /\ UNCHANGED <<run, outbox, kidJob, cancel, timer, sweep, crashes>>

(* inbox.send with the key `completion:${childTurnId}`: the same key gets  *)
(* the receipt that is there.  The message for the timeline comes next.    *)
Admit(w) ==
  /\ stage[w] = "sending"
  /\ stage' = [stage EXCEPT ![w] = "settling"]
  /\ arrived' = [arrived EXCEPT ![Subject(w)] = IF @ = 0 THEN 1 ELSE @]
  /\ UNCHANGED <<run, outbox, kidJob, cancel, timer, sweep, crashes>>

(* settleTaskCompletion: the first input id stays.                         *)
SettleCompletion(w) ==
  /\ stage[w] = "settling"
  /\ stage' = [stage EXCEPT ![w] = "telling"]
  /\ outbox' = [outbox EXCEPT ![Subject(w)] = "settled"]
  /\ UNCHANGED <<run, arrived, kidJob, cancel, timer, sweep, crashes>>

AfterDelivery(w) ==
  sweep' = IF w = Recovery THEN [sweep EXCEPT !.pc = "next"] ELSE sweep

TellParent(w) ==
  /\ stage[w] = "telling"
  /\ stage' = [stage EXCEPT ![w] = "none"]
  /\ AfterDelivery(w)
  /\ UNCHANGED <<run, outbox, arrived, kidJob, cancel, timer, crashes>>

GiveUp(w) ==  \* mutant: a failed delivery is not tried again
  /\ stage[w] # "none"
  /\ stage' = [stage EXCEPT ![w] = "none"]
  /\ AfterDelivery(w)
  /\ UNCHANGED <<run, outbox, arrived, kidJob, cancel, timer, crashes>>

(* Any step throws: notifyParentOfSubagentCompletion catches, retryLater.  *)
DeliveryFails(w) ==
  /\ stage[w] # "none"
  /\ stage' = [stage EXCEPT ![w] = "none"]
  /\ timer' = TRUE
  /\ AfterDelivery(w)
  /\ UNCHANGED <<run, outbox, arrived, kidJob, cancel, crashes>>

-----------------------------------------------------------------------------
(* The retry timer.  recoverPendingCompletions starts a batch; if one is   *)
(* under way its promise is all the timer gets, and the timer is gone.     *)
RetryFires ==
  /\ timer
  /\ timer' = FALSE
  /\ sweep' = IF sweep.pc = "idle" THEN [NoBatch EXCEPT !.pc = "reading"] ELSE sweep
  /\ UNCHANGED <<run, outbox, arrived, kidJob, stage, cancel, crashes>>

(* pendingTaskCompletions(cursor).                                         *)
PendingReports == {c \in Kid : outbox[c] = "pending" /\ c > sweep.cursor}

BatchReads ==
  /\ sweep.pc = "reading"
  /\ sweep' = IF PendingReports = {} THEN NoBatch
              ELSE [sweep EXCEPT !.pc = "next", !.todo = PendingReports]
  /\ UNCHANGED <<run, outbox, arrived, kidJob, stage, cancel, timer, crashes>>

BatchGoesOn ==
  /\ sweep.pc = "next"
  /\ IF sweep.todo = {}
     THEN sweep' = [sweep EXCEPT !.pc = "reading"] /\ UNCHANGED stage
     ELSE \E c \in sweep.todo :
            /\ \A d \in sweep.todo : c <= d
            /\ sweep' = [pc |-> "delivering", todo |-> sweep.todo \ {c}, cursor |-> c]
            /\ stage' = [stage EXCEPT ![Recovery] = "sending"]
  /\ UNCHANGED <<run, outbox, arrived, kidJob, cancel, timer, crashes>>

(* Nothing in memory survives: neither the queued jobs nor the timer.      *)
KidCrash ==
  /\ Alive /\ crashes < MaxCrashes
  /\ crashes' = crashes + 1
  /\ kidJob' = [c \in Kid |-> IF kidJob[c] \in {"done", "dropped"} THEN kidJob[c] ELSE "lost"]
  /\ stage' = [w \in Kid \cup {Recovery} |-> "none"]
  /\ cancel' = [c \in Kid |-> IF cancel[c] = "none" THEN "none" ELSE "done"]
  /\ timer' = FALSE
  /\ sweep' = [NoBatch EXCEPT !.pc = "down"]
  /\ UNCHANGED <<run, outbox, arrived>>

(* A new server recovers pending reports first.                            *)
KidRestart ==
  /\ ~Alive
  /\ sweep' = [NoBatch EXCEPT !.pc = "reading"]
  /\ UNCHANGED <<run, outbox, arrived, kidJob, stage, cancel, timer, crashes>>

KidsNext ==
  \/ \E c \in Kid : KidStep(c) \/ CancelReads(c) \/ CancelWrites(c) \/ CancelInterrupts(c)
  \/ \E w \in Kid \cup {Recovery} :
       Admit(w) \/ SettleCompletion(w) \/ TellParent(w) \/ DeliveryFails(w)
  \/ RetryFires \/ BatchReads \/ BatchGoesOn \/ KidCrash \/ KidRestart

KidsSpec == KidsInit /\ [][KidsNext]_kidVars

-----------------------------------------------------------------------------
(* A child's turn is reported at most once to its parent, whoever delivers *)
(* it, and a report counts as delivered only when the parent has it.       *)
ReportedOnce ==
  \A c \in Kid : /\ arrived[c] <= 1
                 /\ outbox[c] = "settled" => arrived[c] = 1
                 /\ arrived[c] = 1 => outbox[c] # "none"

(* Someone will deliver the report of a child: its job, a delivery under   *)
(* way, the timer, the batch that will still come to it, or the next start *)
(* of a server.  What became pending behind the rows a batch has read is   *)
(* not ahead of it.                                                        *)
AheadOfBatch(c) ==
  \/ sweep.pc = "reading" /\ sweep.cursor < c
  \/ sweep.pc \in {"next", "delivering"} /\ (c \in sweep.todo \/ (sweep.cursor < c /\ \A d \in sweep.todo : d < c))

Driven(c) ==
  \/ kidJob[c] \in {"reporting", "reporting_failure", "catching", "failing"}
  \/ stage[c] # "none"
  \/ sweep.pc = "delivering" /\ sweep.cursor = c
  \/ timer \/ AheadOfBatch(c) \/ sweep.pc = "down"

(* A report that becomes pending has someone who will deliver it, and one  *)
(* that stays pending keeps having someone, with two exceptions: its job   *)
(* fails between the commit and the delivery, and the timer fires while a  *)
(* batch is under way that has the report behind it.  Then it waits for    *)
(* the next failure of another or the next start of a server.              *)
DriverIsKept ==
  [][\A c \in Kid :
       outbox'[c] = "pending" /\ (outbox[c] # "pending" \/ Driven(c))
         => \/ Driven(c)'
            \/ kidJob[c] # "dropped" /\ kidJob'[c] = "dropped"
            \/ timer /\ ~timer' /\ sweep.pc # "idle"]_kidVars

(* "Final child outcome and notification intent cannot be separated by a   *)
(* crash": when no job is left to commit it, an outcome has its report.    *)
OutcomeIsReported ==
  \A c \in Kid : run[c] \in {"completed", "failed"} /\ kidJob[c] \in {"done", "dropped", "lost", "delivering"}
    => outbox[c] # "none"
=============================================================================
