----------------------------- MODULE TurnClose -----------------------------
(***************************************************************************)
(* Closing the turn runner while turns run, start and wait in queues: the  *)
(* order of close (stop scheduling, interrupt what is registered, wait for *)
(* what was begun, drain the queues, look whether anything is left) against*)
(* sends of users and follow-up jobs that do not know of it.               *)
(*                                                                         *)
(* A close step waits for the promises it collected when it began, as the  *)
(* code does, and not for what came later.                                 *)
(***************************************************************************)
EXTENDS Naturals, FiniteSets

CONSTANTS UserSend,      \* sendTurn calls of users, schedules and children
          FollowupSend,  \* sendTurn calls of follow-up jobs
          Followup       \* jobs of the queues; each may start several turns

ASSUME CloseAssumption == IsFiniteSet(Followup) /\ UserSend \cap FollowupSend = {}

Send == UserSend \cup FollowupSend

VARIABLES closer,    \* where close is
          send,      \* where each sendTurn call is; its finish is called at "over"
          caller,    \* the job that made the call
          aborted,   \* calls whose turn's controller is aborted
          owing,     \* promises that the current step of close waits for
          unstored,  \* turns of interruptAll whose interruption is not stored yet
          faulty,    \* interruptAll failed to store an interruption
          followup   \* where each job is

closeVars == <<closer, send, caller, aborted, owing, unstored, faulty, followup>>

Begun == {"begun", "running", "settling"}   \* pendingSendTurns

(* Everything is of the kind the code declares.                            *)
CloseTypeOK ==
  /\ closer \in {"open", "stopped", "interrupting", "finishing", "draining", "idle", "leaked", "closed", "failed"}
  /\ send \in [Send -> {"none", "refused", "over"} \cup Begun]
  /\ caller \in [FollowupSend -> Followup \cup {"nobody"}]
  /\ aborted \subseteq Send /\ owing \subseteq Send /\ unstored \subseteq Send
  /\ faulty \in BOOLEAN
  /\ followup \in [Followup -> {"none", "queued", "looking", "reserving", "starting", "sending", "over"}]

CloseInit ==
  /\ closer = "open"
  /\ send = [s \in Send |-> "none"]
  /\ caller = [s \in FollowupSend |-> "nobody"]
  /\ aborted = {} /\ owing = {} /\ unstored = {} /\ faulty = FALSE
  /\ followup = [j \in Followup |-> "none"]

-----------------------------------------------------------------------------
Closing == closer \notin {"open", "stopped"}     \* closing of the lifecycle
Stopped == closer # "open"                       \* closed of the inbox runtime

SendGoes(s, to) == send' = [send EXCEPT ![s] = to]
JobGoes(j, to) == followup' = [followup EXCEPT ![j] = to]

ActiveTurns == {s \in Send : send[s] = "running"}
PendingSends == {s \in Send : send[s] \in Begun}
PendingJobs == {j \in Followup : followup[j] \notin {"none", "over"}}

BeginSendTurn(s) == SendGoes(s, IF Closing THEN "refused" ELSE "begun")

UserSends(s) ==
  /\ s \in UserSend /\ send[s] = "none"
  /\ BeginSendTurn(s)
  /\ UNCHANGED <<closer, caller, aborted, owing, unstored, faulty, followup>>

RegisterOnly(s) ==  \* mutant: a turn that registers late is not aborted
  /\ send[s] = "begun"
  /\ SendGoes(s, "running")
  /\ UNCHANGED <<closer, caller, aborted, owing, unstored, faulty, followup>>

(* registerActiveTurn, at the end of the setup.                            *)
Register(s) ==
  /\ send[s] = "begun"
  /\ SendGoes(s, "running")
  /\ aborted' = IF Closing THEN aborted \cup {s} ELSE aborted
  /\ UNCHANGED <<closer, caller, owing, unstored, faulty, followup>>

(* An error before the turn is registered.                                 *)
SetupFails(s) ==
  /\ send[s] = "begun"
  /\ SendGoes(s, "settling")
  /\ UNCHANGED <<closer, caller, aborted, owing, unstored, faulty, followup>>

(* The finally of executeTurn: the turn leaves activeTurns and settles.    *)
TurnSettles(s) ==
  /\ send[s] = "running"
  /\ SendGoes(s, "settling")
  /\ UNCHANGED <<closer, caller, aborted, owing, unstored, faulty, followup>>

(* The finally of sendTurn, after the inbox is settled; a job that called  *)
(* it looks for more if the turn completed.                                *)
SendReturns(s) ==
  /\ send[s] = "settling"
  /\ SendGoes(s, "over")
  /\ IF s \in FollowupSend
     THEN \E to \in IF s \in aborted THEN {"over"} ELSE {"looking", "over"} : JobGoes(caller[s], to)
     ELSE UNCHANGED followup
  /\ UNCHANGED <<closer, caller, aborted, owing, unstored, faulty>>

-----------------------------------------------------------------------------
(* The dispatcher puts a job in the queue, unless it is stopped; an        *)
(* admitted approval does so at any time ("An admitted approval may        *)
(* enqueue its apply job while shutdown is starting").                     *)
EnqueueFollowup(j) ==
  /\ followup[j] = "none"
  /\ JobGoes(j, "queued")
  /\ UNCHANGED <<closer, send, caller, aborted, owing, unstored, faulty>>

(* The loop of the job: stop if the inbox runtime is closed.               *)
JobLooks(j) ==
  /\ followup[j] \in {"queued", "looking"}
  /\ JobGoes(j, IF Stopped THEN "over" ELSE "reserving")
  /\ UNCHANGED <<closer, send, caller, aborted, owing, unstored, faulty>>

(* reserveTaskFollowup, which may find nothing.                            *)
JobReserves(j) ==
  /\ followup[j] = "reserving"
  /\ JobGoes(j, "starting") \/ JobGoes(j, "over")
  /\ UNCHANGED <<closer, send, caller, aborted, owing, unstored, faulty>>

(* startFollowup.  When the runner refuses, the reserved input is rejected *)
(* and the job is over.                                                    *)
JobSends(j) ==
  /\ followup[j] = "starting"
  /\ \E s \in FollowupSend :
       /\ send[s] = "none"
       /\ BeginSendTurn(s)
       /\ caller' = [caller EXCEPT ![s] = j]
  /\ JobGoes(j, IF Closing THEN "over" ELSE "sending")
  /\ UNCHANGED <<closer, aborted, owing, unstored, faulty>>

(* Bound: every id was used; the job starts nothing more.                  *)
JobGivesUp(j) ==
  /\ followup[j] = "starting" /\ \A s \in FollowupSend : send[s] # "none"
  /\ JobGoes(j, "over")
  /\ UNCHANGED <<closer, send, caller, aborted, owing, unstored, faulty>>

-----------------------------------------------------------------------------
StopScheduling ==
  /\ closer = "open"
  /\ closer' = "stopped"
  /\ UNCHANGED <<send, caller, aborted, owing, unstored, faulty, followup>>

(* lifecycle.close: from here sends are refused; interruptAll takes the    *)
(* registered turns and aborts them.                                       *)
InterruptAll ==
  /\ closer = "stopped"
  /\ closer' = "interrupting"
  /\ aborted' = aborted \cup ActiveTurns
  /\ owing' = ActiveTurns /\ unstored' = ActiveTurns
  /\ UNCHANGED <<send, caller, faulty, followup>>

InterruptStored(s) ==
  /\ closer = "interrupting" /\ s \in unstored
  /\ unstored' = unstored \ {s}
  /\ faulty' \in {faulty, TRUE}
  /\ UNCHANGED <<closer, send, caller, aborted, owing, followup>>

(* All interruptions settled, and the turns; then the sends that were      *)
(* begun before the runner closed.                                         *)
AwaitSends ==
  /\ closer = "interrupting"
  /\ unstored = {} /\ owing \cap ActiveTurns = {}
  /\ closer' = "finishing"
  /\ owing' = PendingSends
  /\ UNCHANGED <<send, caller, aborted, unstored, faulty, followup>>

SkipSends ==  \* mutant: close waits for registered turns only
  /\ closer = "finishing"
  /\ closer' = "draining"
  /\ owing' = {}
  /\ UNCHANGED <<send, caller, aborted, unstored, faulty, followup>>

SendsFinished ==
  /\ closer = "finishing"
  /\ owing \cap PendingSends = {}
  /\ closer' = "draining"
  /\ owing' = {}
  /\ UNCHANGED <<send, caller, aborted, unstored, faulty, followup>>

(* drainQueues, until no queue has a receipt, and assertIdle.              *)
QueuesDrained ==
  /\ closer = "draining"
  /\ PendingJobs = {}
  /\ closer' = IF ActiveTurns \cup PendingSends = {} THEN "idle" ELSE "leaked"
  /\ UNCHANGED <<send, caller, aborted, owing, unstored, faulty, followup>>

(* An interruption that failed is reported now.  If none did, the close of *)
(* the runner drains once more what was enqueued since.                    *)
Closed ==
  /\ closer = "idle"
  /\ faulty \/ PendingJobs = {}
  /\ closer' = IF faulty THEN "failed" ELSE "closed"
  /\ UNCHANGED <<send, caller, aborted, owing, unstored, faulty, followup>>

CloserStep == InterruptAll \/ (\E s \in Send : InterruptStored(s)) \/ AwaitSends \/ SendsFinished \/ QueuesDrained \/ Closed
SendStep(s) == Register(s) \/ SetupFails(s) \/ SendReturns(s)
FollowupStep(j) == JobLooks(j) \/ JobReserves(j) \/ JobSends(j) \/ JobGivesUp(j)

CloseNext ==
  \/ \E s \in Send : UserSends(s) \/ SendStep(s) \/ TurnSettles(s)
  \/ \E j \in Followup : EnqueueFollowup(j) \/ FollowupStep(j)
  \/ StopScheduling \/ CloserStep

(* Setup, settlement, jobs and close go on, and a turn ends once it is     *)
(* aborted.  Nobody has to close, and no other turn need end.              *)
CloseProgress ==
  \/ CloserStep
  \/ \E s \in Send : SendStep(s) \/ (s \in aborted /\ TurnSettles(s))
  \/ \E j \in Followup : FollowupStep(j)

CloseFairness == WF_closeVars(CloseProgress)

CloseSpec == CloseInit /\ [][CloseNext]_closeVars /\ CloseFairness

-----------------------------------------------------------------------------
(* assertIdle never throws: when the queues are drained no turn is active  *)
(* and no send is pending.  Nor does one begin later: a job that is still  *)
(* enqueued then gets no further than its look at the closed runtime.      *)
CloseLeaksNothing ==
  /\ closer # "leaked"
  /\ closer \in {"idle", "closed", "failed"} =>
       /\ ActiveTurns \cup PendingSends = {}
       /\ \A j \in PendingJobs : followup[j] = "queued"

(* Close ends, whatever was starting when it began: a turn that registers  *)
(* after the interrupts is aborted too.                                    *)
CloseEnds == closer = "stopped" ~> closer \in {"closed", "failed"}
=============================================================================
