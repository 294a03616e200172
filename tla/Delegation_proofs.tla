-------------------------- MODULE Delegation_proofs --------------------------
(***************************************************************************)
(* What TLAPS proves about work that one task gives to another: that the   *)
(* reports of subagents arrive, for any number of child runs,              *)
(* cancellations and crashes; and that whoever waits is answered, for any  *)
(* number of tasks, children, calls and events, with crashes.              *)
(***************************************************************************)
EXTENDS ChildRuns, TaskWaits, TLAPS

Deliverer == Kid \cup {Recovery}

(* A deliverer is at a child whose turn has a report; what it has done     *)
(* already shows in the tables.                                            *)
DelivererOk(w) ==
  stage[w] # "none" =>
    /\ w = Recovery => sweep.pc = "delivering"
    /\ Subject(w) \in Kid
    /\ outbox[Subject(w)] # "none"
    /\ stage[w] \in {"settling", "telling"} => arrived[Subject(w)] = 1
    /\ stage[w] = "telling" => outbox[Subject(w)] = "settled"

ReportInv ==
  /\ KidsTypeOK
  /\ ReportedOnce
  /\ \A w \in Deliverer : DelivererOk(w)
  /\ \A c \in Kid : kidJob[c] \in {"reporting", "reporting_failure"} => outbox[c] # "none"
  /\ \A c \in sweep.todo : outbox[c] # "none" /\ sweep.cursor < c
  /\ sweep.pc \in {"idle", "down"} => sweep.cursor = 0

-----------------------------------------------------------------------------
Batch == [pc : {"idle", "reading", "next", "delivering", "down"}, todo : SUBSET Kid, cursor : Kid \cup {0}]

LEMMA KidsTypeInit == KidsInit => KidsTypeOK
  <1> SUFFICES ASSUME KidsInit
               PROVE  KidsTypeOK
    OBVIOUS
  <1>1. NoBatch \in Batch
    BY DEF NoBatch, Batch
  <1>2. 0 \in 0..MaxCrashes /\ 0 \in 0..2
    BY KidCrashAssumption
  <1> QED BY <1>1, <1>2 DEF KidsInit, KidsTypeOK, Batch, Stage, RunStatus

LEMMA KidsTypeStep == KidsTypeOK /\ [KidsNext]_kidVars => KidsTypeOK'
  <1> SUFFICES ASSUME KidsTypeOK, [KidsNext]_kidVars
               PROVE  KidsTypeOK'
    OBVIOUS
  <1> USE DEF KidsTypeOK
  <1>1. CASE UNCHANGED kidVars
    BY <1>1 DEF kidVars
  <1>2. ASSUME NEW c \in Kid, KidStep(c)
        PROVE  KidsTypeOK'
    <2> USE DEF JobTo, Run, rest, RunStatus
    <2>1. CASE JobReads(c) \/ JobStarts(c) \/ ChildTurnEnds(c) \/ JobChecks(c)
      BY <2>1 DEF JobReads, JobStarts, ChildTurnEnds, JobChecks
    <2>2. CASE JobStores(c) \/ JobCatches(c)
      BY <2>2 DEF JobStores, JobCatches
    <2>3. CASE JobCommits(c)
      BY <2>3 DEF JobCommits, Outcomes
    <2>4. CASE JobReports(c)
      BY <2>4 DEF JobReports, Stage
    <2> QED BY <1>2, <2>1, <2>2, <2>3, <2>4 DEF KidStep
  <1>3. ASSUME NEW c \in Kid, CancelReads(c) \/ CancelWrites(c) \/ CancelInterrupts(c)
        PROVE  KidsTypeOK'
    BY <1>3 DEF CancelReads, CancelWrites, CancelInterrupts, Run, RunStatus
  <1>4. ASSUME NEW w \in Deliverer, Admit(w) \/ SettleCompletion(w) \/ TellParent(w) \/ DeliveryFails(w)
        PROVE  KidsTypeOK'
    <2> USE DEF Stage
    <2>1. CASE Admit(w)
      <3>1. arrived' \in [Kid -> 0..2]
        <4>1. \A n \in 0..2 : (IF n = 0 THEN 1 ELSE n) \in 0..2
          OBVIOUS
        <4> QED BY <2>1, <4>1, Zenon DEF Admit
      <3> QED BY <2>1, <3>1 DEF Admit
    <2>2. CASE SettleCompletion(w) BY <2>2 DEF SettleCompletion
    <2>3. CASE TellParent(w) BY <2>3 DEF TellParent, AfterDelivery
    <2>4. CASE DeliveryFails(w) BY <2>4 DEF DeliveryFails, AfterDelivery
    <2> QED BY <1>4, <2>1, <2>2, <2>3, <2>4
  <1>5. CASE RetryFires BY <1>5 DEF RetryFires, NoBatch
  <1>6. CASE BatchReads BY <1>6 DEF BatchReads, PendingReports, NoBatch
  <1>7. CASE BatchGoesOn BY <1>7 DEF BatchGoesOn, Stage
  <1>8. CASE KidCrash
    <2>1. crashes' \in 0..MaxCrashes
      BY <1>8, KidCrashAssumption DEF KidCrash
    <2>2. sweep' \in Batch
      BY <1>8 DEF KidCrash, NoBatch, Batch
    <2>3. kidJob' \in [Kid -> {"done", "dropped", "lost"}] /\ cancel' \in [Kid -> {"none", "done"}]
      BY <1>8 DEF KidCrash
    <2>4. stage' \in [Kid \cup {Recovery} -> Stage]
      BY <1>8 DEF KidCrash, Stage
    <2>5. UNCHANGED <<run, outbox, arrived>> /\ timer' = FALSE
      BY <1>8 DEF KidCrash
    <2> QED BY <2>1, <2>2, <2>3, <2>4, <2>5 DEF Batch
  <1>9. CASE KidRestart BY <1>9 DEF KidRestart, Alive, NoBatch
  <1> QED BY <1>1, <1>2, <1>3, <1>4, <1>5, <1>6, <1>7, <1>8, <1>9 DEF KidsNext, Deliverer

-----------------------------------------------------------------------------
LEMMA ReportInit == KidsInit => ReportInv
  BY KidsTypeInit
  DEF KidsInit, NoBatch, ReportInv, ReportedOnce, DelivererOk, Deliverer

(* What the reports have to say when a step leaves deliveries alone.       *)
LEMMA OutboxGrows ==
  ASSUME ReportInv, KidsTypeOK', UNCHANGED <<arrived, stage, sweep>>,
         \A c \in Kid : outbox'[c] = outbox[c] \/ (outbox[c] = "none" /\ outbox'[c] = "pending"),
         \A c \in Kid : kidJob'[c] \in {"reporting", "reporting_failure"}
                        => outbox'[c] # "none" \/ kidJob'[c] = kidJob[c]
  PROVE  ReportInv'
  <1>1. ReportedOnce'
    BY DEF ReportInv, ReportedOnce
  <1>2. \A w \in Deliverer : DelivererOk(w)'
    BY DEF ReportInv, DelivererOk, Subject
  <1>3. \A c \in sweep'.todo : outbox'[c] # "none"
    BY DEF ReportInv, KidsTypeOK
  <1> QED BY <1>1, <1>2, <1>3 DEF ReportInv

(* The job of a run and the call that cancels it touch the outbox only to  *)
(* put a report into it.                                                   *)
LEMMA JobsKeepReports ==
  ASSUME ReportInv, KidsTypeOK', NEW c \in Kid,
         KidStep(c) \/ CancelReads(c) \/ CancelWrites(c) \/ CancelInterrupts(c)
  PROVE  ReportInv'
  <1>0. KidsTypeOK
    BY DEF ReportInv
  <1>1. CASE JobReads(c) \/ JobStarts(c) \/ ChildTurnEnds(c) \/ JobChecks(c)
    BY <1>0, <1>1, OutboxGrows DEF JobReads, JobStarts, ChildTurnEnds, JobChecks, JobTo, rest, KidsTypeOK
  <1>2. CASE JobStores(c) \/ JobCatches(c)
    BY <1>0, <1>2, OutboxGrows DEF JobStores, JobCatches, JobTo, rest, KidsTypeOK
  <1>3. CASE JobCommits(c)
    BY <1>0, <1>3, OutboxGrows DEF JobCommits, JobTo, rest, KidsTypeOK
  <1>4. CASE JobReports(c)
    <2>1. UNCHANGED <<arrived, outbox, sweep>>
      BY <1>4 DEF JobReports
    <2>2. \A w \in Deliverer : stage'[w] = stage[w] \/ (w = c /\ stage'[w] = "sending" /\ outbox[c] # "none")
      BY <1>4, <1>0 DEF JobReports, KidsTypeOK, Deliverer, ReportInv
    <2>3. \A d \in Kid : kidJob'[d] \in {"reporting", "reporting_failure"} => kidJob'[d] = kidJob[d]
      BY <1>4, <1>0 DEF JobReports, JobTo, KidsTypeOK
    <2>4. \A w \in Deliverer : DelivererOk(w)'
      BY <2>1, <2>2, KidAssumption DEF ReportInv, DelivererOk, Subject
    <2> QED BY <2>1, <2>3, <2>4 DEF ReportInv, ReportedOnce
  <1>5. CASE CancelReads(c) \/ CancelWrites(c) \/ CancelInterrupts(c)
    BY <1>0, <1>5, OutboxGrows DEF CancelReads, CancelWrites, CancelInterrupts, Run, KidsTypeOK
  <1> QED BY <1>1, <1>2, <1>3, <1>4, <1>5 DEF KidStep

(* A delivery writes the parent's input before it settles the report.      *)
LEMMA DeliveriesKeepReports ==
  ASSUME ReportInv, KidsTypeOK', NEW w \in Deliverer,
         Admit(w) \/ SettleCompletion(w) \/ TellParent(w) \/ DeliveryFails(w)
  PROVE  ReportInv'
  <1> USE KidAssumption DEF ReportInv, KidsTypeOK, ReportedOnce, DelivererOk, Subject, Stage, Deliverer
  <1>1. CASE Admit(w)
    <2>1. Subject(w) \in Kid /\ outbox[Subject(w)] # "none"
      BY <1>1 DEF Admit
    <2>2. arrived'[Subject(w)] = 1
      <3>1. arrived[Subject(w)] \in {0, 1}
        <4> HIDE DEF DelivererOk, Subject
        <4>1. arrived[Subject(w)] \in 0..2 /\ arrived[Subject(w)] <= 1
          BY <2>1, Zenon
        <4> QED BY <4>1
      <3> QED BY <1>1, <2>1, <3>1 DEF Admit
    <2>3. \A c \in Kid : arrived'[c] = arrived[c] \/ (c = Subject(w) /\ arrived'[c] = 1)
      BY <1>1, <2>1, <2>2 DEF Admit
    <2>4. \A v \in Deliverer : stage'[v] = stage[v] \/ (v = w /\ stage'[v] = "settling")
      BY <1>1 DEF Admit
    <2>5. \A v \in Deliverer : DelivererOk(v)'
      BY <1>1, <2>1, <2>2, <2>3, <2>4 DEF Admit
    <2>6. ReportedOnce'
      BY <1>1, <2>1, <2>2, <2>3 DEF Admit
    <2> QED BY <1>1, <2>5, <2>6 DEF Admit
  <1>2. CASE SettleCompletion(w) BY <1>2 DEF SettleCompletion
  <1>3. CASE TellParent(w) BY <1>3 DEF TellParent, AfterDelivery
  <1>4. CASE DeliveryFails(w) BY <1>4 DEF DeliveryFails, AfterDelivery
  <1> QED BY <1>1, <1>2, <1>3, <1>4

(* The batch goes through pending reports in the order of its cursor.      *)
LEMMA BatchKeepsReports ==
  ASSUME ReportInv, KidsTypeOK', RetryFires \/ BatchReads \/ BatchGoesOn \/ KidCrash \/ KidRestart
  PROVE  ReportInv'
  <1> USE KidAssumption
      DEF ReportInv, KidsTypeOK, ReportedOnce, DelivererOk, Subject, Deliverer, NoBatch
  <1>1. CASE RetryFires BY <1>1 DEF RetryFires
  <1>2. CASE BatchReads BY <1>2 DEF BatchReads, PendingReports
  <1>3. CASE BatchGoesOn BY <1>3 DEF BatchGoesOn
  <1>4. CASE KidCrash BY <1>4 DEF KidCrash
  <1>5. CASE KidRestart BY <1>5 DEF KidRestart, Alive
  <1> QED BY <1>1, <1>2, <1>3, <1>4, <1>5

LEMMA ReportStep == ReportInv /\ [KidsNext]_kidVars => ReportInv'
  <1> SUFFICES ASSUME ReportInv, [KidsNext]_kidVars
               PROVE  ReportInv'
    OBVIOUS
  <1>1. CASE UNCHANGED kidVars
    BY <1>1 DEF kidVars, ReportInv, KidsTypeOK, ReportedOnce, DelivererOk, Subject
  <1>2. CASE KidsNext
    <2>1. KidsTypeOK'
      BY KidsTypeStep DEF ReportInv
    <2> QED BY <1>2, <2>1, JobsKeepReports, DeliveriesKeepReports, BatchKeepsReports DEF KidsNext, Deliverer
  <1> QED BY <1>1, <1>2

(* A child's turn is reported at most once to its parent, and a report that*)
(* counts as delivered has arrived (deliverCompletion, admitTaskInput with *)
(* the key of the turn, settleTaskCompletion).                             *)
THEOREM ReportsArriveOnce == KidsSpec => []ReportedOnce
  <1>1. ReportInv => ReportedOnce
    BY DEF ReportInv
  <1> QED BY <1>1, ReportInit, ReportStep, PTL DEF KidsSpec

-----------------------------------------------------------------------------
(* Who is left to deliver a pending report after a step: all but the two   *)
(* exceptions hand it over to each other.                                  *)
DriverKept(c) ==
  \/ Driven(c)'
  \/ kidJob[c] # "dropped" /\ kidJob'[c] = "dropped"
  \/ timer /\ ~timer' /\ sweep.pc # "idle"

LEMMA DriveStep ==
  ASSUME ReportInv, [KidsNext]_kidVars, NEW c \in Kid, outbox'[c] = "pending", outbox[c] # "pending" \/ Driven(c)
  PROVE  DriverKept(c)
  <1> USE KidAssumption DEF ReportInv, KidsTypeOK, Driven, DriverKept, AheadOfBatch
  <1>1. CASE UNCHANGED kidVars
    BY <1>1 DEF kidVars
  <1>2. ASSUME NEW d \in Kid, KidStep(d)
        PROVE  DriverKept(c)
    <2> USE DEF JobTo, Run, rest, Stage
    <2>1. CASE JobReads(d) \/ JobStarts(d) \/ ChildTurnEnds(d) \/ JobChecks(d)
      BY <2>1 DEF JobReads, JobStarts, ChildTurnEnds, JobChecks
    <2>2. CASE JobStores(d) \/ JobCatches(d)
      BY <2>2 DEF JobStores, JobCatches
    <2>3. CASE JobCommits(d)
      BY <2>3 DEF JobCommits
    <2>4. CASE JobReports(d)
      BY <2>4 DEF JobReports
    <2> QED BY <1>2, <2>1, <2>2, <2>3, <2>4 DEF KidStep
  <1>3. ASSUME NEW d \in Kid, CancelReads(d) \/ CancelWrites(d) \/ CancelInterrupts(d)
        PROVE  DriverKept(c)
    BY <1>3 DEF CancelReads, CancelWrites, CancelInterrupts, Run
  <1>4. ASSUME NEW w \in Deliverer, Admit(w) \/ SettleCompletion(w) \/ TellParent(w) \/ DeliveryFails(w)
        PROVE  DriverKept(c)
    <2> USE <1>4 DEF Deliverer, DelivererOk, Subject, Stage
    <2>1. CASE Admit(w) BY <2>1 DEF Admit
    <2>2. CASE SettleCompletion(w) BY <2>2 DEF SettleCompletion
    <2>3. CASE TellParent(w) BY <2>3 DEF TellParent, AfterDelivery
    <2>4. CASE DeliveryFails(w) BY <2>4 DEF DeliveryFails, AfterDelivery
    <2> QED BY <1>4, <2>1, <2>2, <2>3, <2>4
  <1>5. CASE RetryFires BY <1>5 DEF RetryFires, NoBatch
  <1>6. CASE BatchReads BY <1>6 DEF BatchReads, PendingReports
  <1>7. CASE BatchGoesOn BY <1>7 DEF BatchGoesOn
  <1>8. CASE KidCrash BY <1>8 DEF KidCrash, Alive, NoBatch
  <1>9. CASE KidRestart BY <1>9 DEF KidRestart, Alive, NoBatch
  <1> QED BY <1>1, <1>2, <1>3, <1>4, <1>5, <1>6, <1>7, <1>8, <1>9 DEF KidsNext, Deliverer

(* A report that becomes pending, or has someone who will deliver it, has   *)
(* someone afterwards: the job, the retry timer, the cursor of recoverBatch*)
(* and a restart hand it over to each other.  A gap opens only when the job*)
(* fails, or when the timer fires during a batch.                          *)
THEOREM DriversAreKept == KidsSpec => DriverIsKept
  <1>1. ReportInv /\ [KidsNext]_kidVars
        => [\A c \in Kid : outbox'[c] = "pending" /\ (outbox[c] # "pending" \/ Driven(c))
              => \/ Driven(c)'
                 \/ kidJob[c] # "dropped" /\ kidJob'[c] = "dropped"
                 \/ timer /\ ~timer' /\ sweep.pc # "idle"]_kidVars
    BY DriveStep DEF DriverKept
  <1> QED BY <1>1, ReportInit, ReportStep, PTL DEF KidsSpec, DriverIsKept

-----------------------------------------------------------------------------
(* Waits.                                                                  *)

WaitRow == [state : {"none", "waiting"} \cup WaitOutcome, target : Task \cup {NoTask}]

Place == {"idle", "done", "unannounced", "lost"} \cup InWait

(* Who answers for a row that is waiting.                                  *)
WaitInv ==
  /\ WaitsTypeOK
  /\ WaitingIsServed
  /\ \A c \in Call : row[c].state # "none" => call[c] # "idle"
  /\ \A c \in Call : call[c] = "settling" => found[c] # "nothing"
  /\ \A c \in Call : call[c] = "telling" => ~Waiting(c)
  /\ \A c \in Call : CallerOf[c] \in closed /\ Waiting(c) => call[c] = "unannounced"

LEMMA WaitInit == WaitsInit => WaitInv
  BY DEF WaitsInit, WaitInv, WaitsTypeOK, WaitingIsServed, Waiting, WaitOutcome, InWait, Listening

(* The steps of a call that write no row.                                  *)
ReadStep(c) ==
  Announce(c) \/ Loop(c) \/ ReadTurn(c) \/ ReadRun(c) \/ ReadReport(c) \/ ReadInbox(c) \/ Judge(c) \/ Awake(c)

Around == UNCHANGED <<row, ended, closed, cancelled, reported, mail, stopped, notices, host>>

LEMMA ReadsStayInWait ==
  ASSUME WaitInv, NEW c \in Call, ReadStep(c)
  PROVE  /\ Around
         /\ call[c] \in InWait /\ call[c] # "telling"
         /\ call' \in [Call -> Place] /\ found' \in [Call -> {"nothing"} \cup WaitOutcome]
         /\ \A d \in Call \ {c} : call'[d] = call[d] /\ found'[d] = found[d]
         /\ call'[c] \in (InWait \ {"telling"}) \cup {"unannounced"}
         /\ call'[c] = "settling" => found'[c] # "nothing"
         /\ changed' \subseteq Call /\ late' \subseteq Call
  <1> USE DEF Around, Place, InWait, Listening, Becomes, WaitInv, WaitsTypeOK, WaitOutcome
  <1>1. CASE Announce(c) BY <1>1 DEF Announce
  <1>2. CASE Loop(c) BY <1>2 DEF Loop
  <1>3. CASE ReadTurn(c) BY <1>3 DEF ReadTurn
  <1>4. CASE ReadRun(c) BY <1>4 DEF ReadRun
  <1>5. CASE ReadReport(c) BY <1>5 DEF ReadReport
  <1>6. CASE ReadInbox(c) BY <1>6 DEF ReadInbox
  <1>7. CASE Judge(c) BY <1>7 DEF Judge
  <1>8. CASE Awake(c) BY <1>8 DEF Awake
  <1> QED BY <1>1, <1>2, <1>3, <1>4, <1>5, <1>6, <1>7, <1>8 DEF ReadStep

(* A call moves; rows that are waiting stay in the care of their calls.    *)
LEMMA CallsKeepWaits ==
  ASSUME WaitInv, NEW c \in Call, CallStep(c)
  PROVE  WaitInv'
  <1> USE DEF WaitInv, WaitsTypeOK, WaitingIsServed, Waiting
  <1>1. CASE ReadStep(c)
    <2>1. Around /\ WaitsTypeOK'
      BY <1>1, ReadsStayInWait DEF Around, Place
    <2>2. \A d \in Call : Waiting(d)' <=> Waiting(d)
      BY <2>1 DEF Around
    <2>3. WaitingIsServed'
      BY <1>1, <2>1, <2>2, ReadsStayInWait DEF Around, InWait
    <2>4. \A d \in Call : row'[d].state # "none" => call'[d] # "idle"
      BY <1>1, <2>1, <2>2, ReadsStayInWait DEF Around, InWait, Listening
    <2>5. \A d \in Call : call'[d] = "settling" => found'[d] # "nothing"
      BY <1>1, <2>1, <2>2, ReadsStayInWait DEF Around, InWait, Listening
    <2>6. \A d \in Call : call'[d] = "telling" => ~Waiting(d)'
      BY <1>1, <2>1, <2>2, ReadsStayInWait DEF Around, InWait, Listening
    <2>7. \A d \in Call : CallerOf[d] \in closed' /\ Waiting(d)' => call'[d] = "unannounced"
      BY <1>1, <2>1, <2>2, ReadsStayInWait DEF Around, InWait, Listening
    <2> HIDE DEF WaitsTypeOK, WaitingIsServed
    <2> QED BY <2>1, <2>3, <2>4, <2>5, <2>6, <2>7
  <1>2. CASE SettleWait(c)
    <2>1. found[c] \in WaitOutcome /\ call[c] = "settling"
      BY <1>2 DEF SettleWait
    <2>2. row' \in [Call -> WaitRow] /\ ~Waiting(c)'
      BY <1>2, <2>1 DEF SettleWait, Settle, WaitRow, WaitOutcome
    <2>3. \A d \in Call \ {c} : row'[d] = row[d] /\ call'[d] = call[d] /\ found'[d] = found[d]
      BY <1>2 DEF SettleWait, Settle, Becomes
    <2>4. call' \in [Call -> Place] /\ call'[c] = "telling" /\ found' \in [Call -> {"nothing"} \cup WaitOutcome]
      BY <1>2 DEF SettleWait, Becomes, Place, InWait
    <2>5. UNCHANGED <<ended, closed, cancelled, reported, mail, stopped, notices, host>>
          /\ changed' \subseteq Call /\ late' \subseteq Call
      BY <1>2 DEF SettleWait
    <2>6. WaitsTypeOK'
      BY <2>2, <2>4, <2>5 DEF WaitRow, Place
    <2>7. WaitingIsServed'
      BY <2>2, <2>3, <2>5
    <2> HIDE DEF WaitsTypeOK, WaitingIsServed
    <2> QED BY <2>2, <2>3, <2>4, <2>5, <2>6, <2>7
  <1>3. CASE Tell(c)
    BY <1>3 DEF Tell, Becomes, InWait
  <1>4. CASE Caught(c)
    BY <1>4 DEF Caught, Settle, Becomes, InWait, WaitOutcome
  <1> QED BY <1>1, <1>2, <1>3, <1>4 DEF CallStep, ReadStep

LEMMA CreateKeepsWaits ==
  ASSUME WaitInv, NEW c \in Call, NEW t \in Task \cup {NoTask}, Create(c, t) \/ CreateFails(c, t)
  PROVE  WaitInv'
  <1> USE DEF WaitInv, WaitsTypeOK, WaitingIsServed, Waiting, Becomes, InWait
  <1>1. CASE Create(c, t) BY <1>1 DEF Create
  <1>2. CASE CreateFails(c, t) BY <1>2 DEF CreateFails
  <1> QED BY <1>1, <1>2

(* What happens around the calls.                                          *)
LEMMA OthersKeepWaits ==
  ASSUME WaitInv, NEW t \in Task,
         \/ \E c \in Call : Deadline(c)
         \/ Notify(t) \/ TurnEnds(t) \/ Report(t) \/ CancelChild(t) \/ Message(t) \/ StopTurn(t)
  PROVE  WaitInv'
  <1> USE DEF WaitInv, WaitsTypeOK, WaitingIsServed, Waiting
  <1>1. ASSUME NEW c \in Call, Deadline(c)
        PROVE  WaitInv'
    BY <1>1 DEF Deadline
  <1>2. CASE Notify(t) BY <1>2 DEF Notify
  <1>3. CASE TurnEnds(t) BY <1>3 DEF TurnEnds
  <1>4. CASE Report(t) BY <1>4 DEF Report
  <1>5. CASE CancelChild(t) BY <1>5 DEF CancelChild
  <1>6. CASE Message(t) BY <1>6 DEF Message
  <1>7. CASE StopTurn(t) BY <1>7 DEF StopTurn
  <1> QED BY <1>1, <1>2, <1>3, <1>4, <1>5, <1>6, <1>7

(* A turn closes its inbox when its waits have returned; recovery settles  *)
(* the waits of every other turn.                                          *)
LEMMA HostKeepsWaits ==
  ASSUME WaitInv, (\E t \in Task : CloseInbox(t)) \/ HostCrash \/ HostStart \/ RecoverWaits
  PROVE  WaitInv'
  <1> USE WaitCallAssumption DEF WaitInv, WaitsTypeOK, WaitingIsServed, Waiting
  <1>1. ASSUME NEW t \in Task, CloseInbox(t)
        PROVE  WaitInv'
    BY <1>1 DEF CloseInbox
  <1>2. CASE HostCrash BY <1>2 DEF HostCrash, InWait, Listening
  <1>3. CASE HostStart BY <1>3 DEF HostStart
  <1>4. CASE RecoverWaits BY <1>4 DEF RecoverWaits, WaitOutcome
  <1> QED BY <1>1, <1>2, <1>3, <1>4

LEMMA WaitStep == WaitInv /\ [WaitsNext]_waitVars => WaitInv'
  <1> SUFFICES ASSUME WaitInv, [WaitsNext]_waitVars
               PROVE  WaitInv'
    OBVIOUS
  <1>1. CASE UNCHANGED waitVars
    BY <1>1 DEF waitVars, WaitInv, WaitsTypeOK, WaitingIsServed, Waiting
  <1>2. ASSUME NEW c \in Call, Deadline(c)
        PROVE  WaitInv'
    BY <1>2, WaitCallAssumption, OthersKeepWaits
  <1>3. CASE WaitsNext
    BY <1>2, <1>3, CallsKeepWaits, CreateKeepsWaits, OthersKeepWaits, HostKeepsWaits DEF WaitsNext
  <1> QED BY <1>1, <1>3

(* A row that waits has a call that will settle it, or a recovery that     *)
(* will (TaskInboxRuntime.wait, recoverTaskInboxOwners).                   *)
THEOREM WaitsAreServed == WaitsSpec => []WaitingIsServed
  <1>1. WaitInv => WaitingIsServed
    BY DEF WaitInv
  <1> QED BY <1>1, WaitInit, WaitStep, PTL DEF WaitsSpec

-----------------------------------------------------------------------------
(* What a transaction may do to a row: a call that has none gets one, and  *)
(* one that waits gets its outcome.                                        *)
LEMMA RowsMove ==
  ASSUME WaitInv, [WaitsNext]_waitVars, NEW c \in Call
  PROVE  \/ row'[c] = row[c]
         \/ row[c].state = "none" /\ \E t \in Task \cup {NoTask} : Create(c, t)
         \/ Waiting(c) /\ row'[c].target = row[c].target
  <1> USE DEF WaitInv, WaitsTypeOK, Waiting
  <1>1. CASE UNCHANGED waitVars
    BY <1>1 DEF waitVars
  <1>2. ASSUME NEW d \in Call, CallStep(d)
        PROVE  row'[c] = row[c] \/ (Waiting(c) /\ row'[c].target = row[c].target)
    <2>1. CASE ReadStep(d)
      BY <2>1, ReadsStayInWait DEF Around
    <2>2. CASE SettleWait(d) BY <2>2 DEF SettleWait, Settle
    <2>3. CASE Tell(d) BY <2>3 DEF Tell
    <2>4. CASE Caught(d) BY <2>4 DEF Caught, Settle
    <2> QED BY <1>2, <2>1, <2>2, <2>3, <2>4 DEF CallStep, ReadStep
  <1>3. ASSUME NEW d \in Call, NEW t \in Task \cup {NoTask}, Create(d, t) \/ CreateFails(d, t)
        PROVE  row'[c] = row[c] \/ (row[c].state = "none" /\ d = c /\ Create(c, t))
    BY <1>3 DEF Create, CreateFails
  <1>4. CASE \/ \E d \in Call : Deadline(d)
             \/ \E t \in Task : \/ Notify(t) \/ TurnEnds(t) \/ CloseInbox(t) \/ Report(t) \/ CancelChild(t)
                                 \/ Message(t) \/ StopTurn(t)
             \/ HostCrash \/ HostStart
    BY <1>4 DEF Deadline, Notify, TurnEnds, CloseInbox, Report, CancelChild, Message, StopTurn, HostCrash, HostStart
  <1>5. CASE RecoverWaits
    BY <1>5 DEF RecoverWaits
  <1> QED BY <1>1, <1>2, <1>3, <1>4, <1>5 DEF WaitsNext

(* The outcome a model was told is not replaced (settleTaskWait and the    *)
(* states it asks for).                                                    *)
THEOREM OutcomesAreFinal == WaitsSpec => SettledIsFinal
  <1>1. WaitInv /\ [WaitsNext]_waitVars
          => [\A c \in Call : row[c].state \in WaitOutcome => row'[c] = row[c]]_waitVars
    BY RowsMove DEF Waiting, WaitOutcome
  <1> QED BY <1>1, WaitInit, WaitStep, PTL DEF WaitsSpec, SettledIsFinal

-----------------------------------------------------------------------------
(* What the recursive query finds: the targets of t, and theirs.           *)
LEMMA DependenciesClosed ==
  ASSUME WaitsTypeOK, NEW t
  PROVE  /\ Targets({t}) \subseteq Dependencies(t)
         /\ Targets(Dependencies(t)) \subseteq Dependencies(t)
  <1>1. \A S : Targets(S) \subseteq Task
    BY DEF WaitsTypeOK, Targets
  <1>2. ASSUME NEW S \in SUBSET Task, Targets({t}) \subseteq S /\ Targets(S) \subseteq S
        PROVE  Dependencies(t) \subseteq S /\ Targets(Dependencies(t)) \subseteq S
    <2>1. Dependencies(t) \subseteq S
      BY <1>2 DEF Dependencies
    <2>2. Targets(Dependencies(t)) \subseteq Targets(S)
      BY <2>1 DEF Targets
    <2> QED BY <1>2, <2>1, <2>2
  <1> QED BY <1>1, <1>2 DEF Dependencies

(* A new wait closes no circle: were there one, the tasks it passes through*)
(* after the new wait would have been a circle before.                     *)
LEMMA CreateClosesNoCycle ==
  ASSUME WaitInv, NoWaitCycle, NEW c \in Call, NEW t \in Task \cup {NoTask}, Create(c, t),
         NEW S \in (SUBSET Task) \ {{}}, \A x \in S : Targets({x})' \cap S # {}
  PROVE  FALSE
  <1> DEFINE D == Dependencies(t)
             R == S \cap (D \cup {t})
             me == CallerOf[c]
  <1>1. WaitsTypeOK /\ row[c].state = "none"
    BY DEF WaitInv, Create
  <1>2. \A x : x # me => Targets({x})' = Targets({x})
    BY <1>1 DEF Targets, Waiting, Create, WaitsTypeOK
  <1>3. \A x : Targets({x})' \subseteq Targets({x}) \cup {t}
    BY <1>1 DEF Targets, Waiting, Create, WaitsTypeOK
  <1>4. me \notin R
    BY DEF Create
  <1>5. ASSUME NEW x \in R
        PROVE  Targets({x}) \cap R # {}
    <2>1. PICK y \in S : y \in Targets({x})
      BY <1>2, <1>4
    <2>2. y \in D
      <3>1. CASE x = t
        BY <3>1, <2>1, <1>1, DependenciesClosed
      <3>2. CASE x \in D
        <4>1. Targets({x}) \subseteq Targets(D)
          BY <3>2 DEF Targets
        <4> QED BY <4>1, <2>1, <1>1, DependenciesClosed
      <3> QED BY <3>1, <3>2
    <2> QED BY <2>1, <2>2
  <1>6. R = {}
    BY <1>5 DEF NoWaitCycle
  <1>7. t \notin S
    BY <1>6
  <1>8. ASSUME NEW x \in S
        PROVE  Targets({x}) \cap S # {}
    <2>1. PICK y \in S : y \in Targets({x})'
      OBVIOUS
    <2>2. y \in Targets({x})
      BY <1>3, <1>7, <2>1
    <2> QED BY <2>2
  <1> QED BY <1>8 DEF NoWaitCycle

LEMMA CycleStep == WaitInv /\ NoWaitCycle /\ [WaitsNext]_waitVars => NoWaitCycle'
  <1> SUFFICES ASSUME WaitInv, NoWaitCycle, [WaitsNext]_waitVars,
                      NEW S \in (SUBSET Task) \ {{}}, \A x \in S : Targets({x})' \cap S # {}
               PROVE  FALSE
    BY DEF NoWaitCycle
  <1>1. CASE \E c \in Call, t \in Task \cup {NoTask} : Create(c, t)
    BY <1>1, CreateClosesNoCycle
  <1>2. CASE ~\E c \in Call, t \in Task \cup {NoTask} : Create(c, t)
    <2>1. \A c \in Call : Waiting(c)' => Waiting(c) /\ row'[c].target = row[c].target
      <3> SUFFICES ASSUME NEW c \in Call, Waiting(c)'
                   PROVE  Waiting(c) /\ row'[c].target = row[c].target
        OBVIOUS
      <3> QED BY <1>2, RowsMove DEF Waiting
    <2>2. \A x : Targets({x})' \subseteq Targets({x})
      BY <2>1 DEF Targets
    <2>3. PICK x \in S : Targets({x}) \cap S = {}
      BY DEF NoWaitCycle
    <2> QED BY <2>2, <2>3
  <1> QED BY <1>1, <1>2

(* Tasks never wait for each other in a circle (createTaskWait).           *)
THEOREM WaitsHaveNoCycle == WaitsSpec => []NoWaitCycle
  <1>1. WaitsInit => NoWaitCycle
    BY DEF WaitsInit, NoWaitCycle, Targets, Waiting
  <1> QED BY <1>1, WaitInit, WaitStep, CycleStep, PTL DEF WaitsSpec

-----------------------------------------------------------------------------
Tidings(c) == Due(c) => Announced(CallerOf[c]) \/ Announced(row[c].target)

(* What a read has still to hear of when nothing woke its call: for what it*)
(* has already read, whatever changed is announced.                        *)
Heard(c) ==
  LET t == row[c].target IN
  /\ call[c] \in {"reading_turn", "reading_run"} => t # NoTask
  /\ call[c] = "reading_run" /\ t \in ended => Announced(t)
  /\ call[c] \in {"reading_run_of_ended", "reading_report"} => t \in ended
  /\ call[c] = "reading_report" => t \in Child /\ (t \in cancelled => Announced(t))
  /\ call[c] = "reading_inbox" /\ t \in ended \cup cancelled => Announced(t)
  /\ call[c] = "judging" /\ found[c] = "nothing" => Tidings(c)
  /\ call[c] \in {"reading_turn", "reading_run", "reading_run_of_ended", "reading_report", "reading_inbox"}
       => found[c] = "nothing"

Asleep(c) ==
  call[c] = "asleep" => CallerOf[c] \notin stopped /\ c \notin late /\ Tidings(c)

HeardInv == \A c \in Call : c \notin changed => Heard(c) /\ Asleep(c)

(* A step that leaves a call and its surroundings alone.                   *)
LEMMA HeardAlone ==
  ASSUME NEW c \in Call, c \notin changed, Heard(c), Asleep(c),
         call'[c] = call[c], found'[c] = found[c], row'[c].target = row[c].target, c \in late' => c \in late,
         UNCHANGED <<ended, closed, cancelled, reported, mail, stopped, notices>>
  PROVE  Heard(c)' /\ Asleep(c)'
  BY DEF Heard, Asleep, Tidings, Due, Announced

(* The steps of the call itself: what it reads is what is so at that moment*)
LEMMA HeardReads ==
  ASSUME WaitInv, NEW c \in Call, c \in changed \/ (Heard(c) /\ Asleep(c)), c \notin changed', CallStep(c)
  PROVE  Heard(c)' /\ Asleep(c)'
  <1> USE WaitTaskAssumption DEF WaitInv, WaitsTypeOK, Heard, Asleep, Tidings, Due, Announced, Becomes
  <1>1. CASE Announce(c) BY <1>1 DEF Announce
  <1>2. CASE Loop(c) BY <1>2 DEF Loop
  <1>3. CASE ReadTurn(c) BY <1>3 DEF ReadTurn
  <1>4. CASE ReadRun(c) BY <1>4 DEF ReadRun
  <1>5. CASE ReadReport(c) BY <1>5 DEF ReadReport
  <1>6. CASE ReadInbox(c) BY <1>6 DEF ReadInbox
  <1>7. CASE Judge(c) BY <1>7 DEF Judge
  <1>8. CASE Awake(c) BY <1>8 DEF Awake
  <1>9. CASE SettleWait(c) \/ Tell(c) \/ Caught(c)
    BY <1>9 DEF SettleWait, Tell, Caught
  <1> QED BY <1>1, <1>2, <1>3, <1>4, <1>5, <1>6, <1>7, <1>8, <1>9 DEF CallStep

(* What changes around a call is announced, or wakes it.                   *)
LEMMA HeardAround ==
  ASSUME WaitInv, NEW c \in Call, c \notin changed, Heard(c), Asleep(c), c \notin changed', NEW t \in Task,
         \/ Notify(t) \/ TurnEnds(t) \/ CloseInbox(t) \/ Report(t) \/ CancelChild(t) \/ Message(t) \/ StopTurn(t)
  PROVE  Heard(c)' /\ Asleep(c)'
  <1> USE WaitTaskAssumption DEF WaitInv, WaitsTypeOK, Heard, Asleep, Tidings, Due, Announced
  <1>1. CASE Notify(t) BY <1>1 DEF Notify, Listening
  <1>2. CASE TurnEnds(t) BY <1>2 DEF TurnEnds
  <1>3. CASE CloseInbox(t) BY <1>3 DEF CloseInbox
  <1>4. CASE Report(t) BY <1>4 DEF Report
  <1>5. CASE CancelChild(t) BY <1>5 DEF CancelChild
  <1>6. CASE Message(t) BY <1>6 DEF Message
  <1>7. CASE StopTurn(t) BY <1>7 DEF StopTurn, Listening
  <1> QED BY <1>1, <1>2, <1>3, <1>4, <1>5, <1>6, <1>7

LEMMA HeardHost ==
  ASSUME WaitInv, NEW c \in Call, c \notin changed, Heard(c), Asleep(c),
         HostCrash \/ HostStart \/ RecoverWaits
  PROVE  Heard(c)' /\ Asleep(c)'
  <1> USE WaitTaskAssumption DEF WaitInv, WaitsTypeOK, Heard, Asleep, Tidings, Due, Announced
  <1>1. CASE HostCrash BY <1>1 DEF HostCrash, InWait, Listening
  <1>2. CASE HostStart BY <1>2 DEF HostStart
  <1>3. CASE RecoverWaits BY <1>3 DEF RecoverWaits
  <1> QED BY <1>1, <1>2, <1>3

LEMMA HeardStep == WaitInv /\ HeardInv /\ [WaitsNext]_waitVars => HeardInv'
  <1> SUFFICES ASSUME WaitInv, HeardInv, [WaitsNext]_waitVars, NEW c \in Call, c \notin changed'
               PROVE  Heard(c)' /\ Asleep(c)'
    BY DEF HeardInv
  <1>0. c \in changed \/ (Heard(c) /\ Asleep(c))
    BY DEF HeardInv
  <1>1. CASE UNCHANGED waitVars
    BY <1>0, <1>1, HeardAlone DEF waitVars
  <1>2. CASE CallStep(c)
    BY <1>0, <1>2, HeardReads
  <1>3. ASSUME NEW d \in Call \ {c}, CallStep(d)
        PROVE  Heard(c)' /\ Asleep(c)'
    <2> USE DEF WaitInv, WaitsTypeOK, Becomes
    <2>1. c \notin changed
      BY <1>3 DEF CallStep, Announce, Loop, ReadTurn, ReadRun, ReadReport, ReadInbox, Judge, Awake, SettleWait,
                  Tell, Caught
    <2>2. UNCHANGED <<ended, closed, cancelled, reported, mail, stopped, notices>> /\ late' \subseteq late
      BY <1>3 DEF CallStep, Announce, Loop, ReadTurn, ReadRun, ReadReport, ReadInbox, Judge, Awake, SettleWait,
                  Tell, Caught
    <2>3. call'[c] = call[c] /\ found'[c] = found[c]
      BY <1>3 DEF CallStep, Announce, Loop, ReadTurn, ReadRun, ReadReport, ReadInbox, Judge, Awake, SettleWait,
                  Tell, Caught
    <2>4. row'[c].target = row[c].target
      BY <1>3 DEF CallStep, Announce, Loop, ReadTurn, ReadRun, ReadReport, ReadInbox, Judge, Awake, SettleWait,
                  Tell, Caught, Settle
    <2> QED BY <1>0, <2>1, <2>2, <2>3, <2>4, HeardAlone
  <1>4. ASSUME NEW d \in Call, NEW t \in Task \cup {NoTask}, Create(d, t) \/ CreateFails(d, t)
        PROVE  Heard(c)' /\ Asleep(c)'
    <2> USE DEF WaitInv, WaitsTypeOK, Becomes
    <2>1. CASE d = c
      BY <1>4, <2>1 DEF Create, CreateFails, Heard, Asleep
    <2>2. CASE d # c
      <3>1. /\ c \notin changed /\ call'[c] = call[c] /\ found'[c] = found[c] /\ row'[c] = row[c]
            /\ UNCHANGED <<ended, closed, cancelled, reported, mail, stopped, notices, late>>
        BY <1>4, <2>2 DEF Create, CreateFails
      <3> QED BY <1>0, <3>1, HeardAlone
    <2> QED BY <2>1, <2>2
  <1>5. ASSUME NEW d \in Call, Deadline(d)
        PROVE  Heard(c)' /\ Asleep(c)'
    BY <1>0, <1>5, HeardAlone DEF Deadline
  <1>6. ASSUME NEW t \in Task,
               \/ Notify(t) \/ TurnEnds(t) \/ CloseInbox(t) \/ Report(t) \/ CancelChild(t)
               \/ Message(t) \/ StopTurn(t)
        PROVE  Heard(c)' /\ Asleep(c)'
    <2>1. c \notin changed
      BY <1>6 DEF Notify, TurnEnds, CloseInbox, Report, CancelChild, Message, StopTurn
    <2> QED BY <1>0, <1>6, <2>1, HeardAround
  <1>7. CASE HostCrash
    BY <1>7 DEF HostCrash, Heard, Asleep, InWait, Listening, WaitInv, WaitsTypeOK
  <1>8. CASE HostStart \/ RecoverWaits
    BY <1>0, <1>8, HeardHost DEF HostStart, RecoverWaits
  <1> QED BY <1>1, <1>2, <1>3, <1>4, <1>5, <1>6, <1>7, <1>8 DEF WaitsNext

(* No signal is lost between the read of the condition and the sleep, with *)
(* children that report later, Stops, deadlines and recovery               *)
(* (TaskSignals.wait, TaskInboxRuntime.wait).                              *)
THEOREM NoSignalMissed == WaitsSpec => []NothingMissed
  <1>1. WaitsInit => HeardInv
    BY DEF WaitsInit, HeardInv, Heard, Asleep
  <1>2. HeardInv => NothingMissed
    BY DEF HeardInv, Asleep, Tidings, NothingMissed
  <1> QED BY <1>1, <1>2, WaitInit, WaitStep, HeardStep, PTL DEF WaitsSpec

=============================================================================
