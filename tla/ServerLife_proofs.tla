------------------------- MODULE ServerLife_proofs -------------------------
(***************************************************************************)
(* What TLAPS proves about the life of a server: that it alone owns its    *)
(* home, for any number of launches, deaths and nested recoveries of a     *)
(* lock; and that closing its turn runner leaves nothing behind, for any   *)
(* number of sends, jobs and turns of a job.                               *)
(***************************************************************************)
EXTENDS HomeOwner, TurnClose, TLAPS

(* From the publication of a lock to the end of its release.               *)
HasLock == Owning \cup Reclaiming \cup {"freeing", "unlinking"}

(* Whoever has a lock is named in it; whatever it found below its level    *)
(* belonged to a launch that is dead; and what it is about to remove is    *)
(* still that dead launch's.                                               *)
Named(l) == at[l] \in HasLock => lock[level[l]] = l
Placed(l) == (at[l] \in Owning => level[l] = 0) /\ (at[l] \in Reclaiming => level[l] # 0)
FoundDead(l) == \A n \in Level : n < level[l] => seen[l][n] \in Gone
StillStale(l) == at[l] = "clearing" => lock[level[l] - 1] = seen[l][level[l] - 1]
Reachable(l) == at[l] = "serving" => endpoint = l

LaunchOk(l) == Named(l) /\ Placed(l) /\ FoundDead(l) /\ StillStale(l) /\ Reachable(l)

OwnerInv == HomeTypeOK /\ \A l \in Launch : LaunchOk(l)

LaunchStep(l) ==
  \/ Launches(l) \/ PublishLock(l) \/ ReadPrevious(l) \/ JudgePrevious(l)
  \/ ComparePrevious(l) \/ ClearStale(l) \/ ReleaseReads(l) \/ ReleaseUnlinks(l)
  \/ PublishEndpoint(l) \/ StartFails(l) \/ CloseHome(l) \/ RemoveEndpoint(l)
  \/ Dies(l)

LEMMA OwnerInit == HomeInit => OwnerInv
  BY LevelAssumption DEF HomeInit, OwnerInv, LaunchOk, Named, Placed, FoundDead, StillStale, Reachable,
                         HomeTypeOK, HomePlace, NothingSeen, Level, HasLock, Owning, Reclaiming

LEMMA HomeTyped ==
  ASSUME OwnerInv, NEW l \in Launch, LaunchStep(l)
  PROVE  HomeTypeOK'
  <1>0. HomeTypeOK /\ level[l] \in Level
    BY DEF OwnerInv, HomeTypeOK
  <1>1. at' \in [Launch -> HomePlace]
    BY <1>0 DEF LaunchStep, HomeTypeOK, HomePlace, Owning, Reclaiming, Moves, Launches, PublishLock, ReadPrevious,
                JudgePrevious, TriesAgain, ComparePrevious, ClearStale, ReleaseReads, ReleaseUnlinks, Released,
                PublishEndpoint, StartFails, CloseHome, RemoveEndpoint, Dies
  <1>2. endpoint' \in Launch \cup {Nobody}
    BY <1>0 DEF LaunchStep, HomeTypeOK, Launches, PublishLock, ReadPrevious, JudgePrevious, ComparePrevious,
                ClearStale, ReleaseReads, ReleaseUnlinks, PublishEndpoint, StartFails, CloseHome, RemoveEndpoint, Dies
  <1>3. lock' \in [Level -> Launch \cup {Nobody}]
    BY <1>0 DEF LaunchStep, HomeTypeOK, Launches, PublishLock, ReadPrevious, JudgePrevious, ComparePrevious,
                ClearStale, ReleaseReads, ReleaseUnlinks, PublishEndpoint, StartFails, CloseHome, RemoveEndpoint, Dies
  <1>4. level' \in [Launch -> Level]
    <2>1. 0 \in Level /\ (level[l] < MaxLevel => level[l] + 1 \in Level) /\ (level[l] # 0 => level[l] - 1 \in Level)
      BY <1>0, LevelAssumption DEF Level
    <2>2. \E m \in Level : level' = [level EXCEPT ![l] = m]
      <3>1. CASE UNCHANGED level BY <1>0, <3>1 DEF HomeTypeOK
      <3>2. CASE JudgePrevious(l) \/ ReleaseReads(l) \/ ReleaseUnlinks(l) \/ Dies(l)
        BY <1>0, <2>1, <3>1, <3>2 DEF JudgePrevious, ReleaseReads, ReleaseUnlinks, Released, Dies
      <3> QED BY <3>1, <3>2 DEF LaunchStep, Launches, PublishLock, ReadPrevious, ComparePrevious, ClearStale,
                                PublishEndpoint, StartFails, CloseHome, RemoveEndpoint
    <2> QED BY <1>0, <2>2 DEF HomeTypeOK
  <1>5. seen' \in [Launch -> [Level -> Launch \cup {Nobody}]]
    <2>1. CASE ReadPrevious(l) BY <1>0, <2>1 DEF ReadPrevious, HomeTypeOK
    <2>2. CASE Dies(l) BY <1>0, <2>2 DEF Dies, NothingSeen, HomeTypeOK
    <2>3. CASE UNCHANGED seen BY <1>0, <2>3 DEF HomeTypeOK
    <2> QED BY <2>1, <2>2, <2>3
            DEF LaunchStep, Launches, PublishLock, JudgePrevious, ComparePrevious, ClearStale, ReleaseReads,
                ReleaseUnlinks, PublishEndpoint, StartFails, CloseHome, RemoveEndpoint
  <1> QED BY <1>1, <1>2, <1>3, <1>4, <1>5 DEF HomeTypeOK

(* A step of one launch leaves the memory of the others alone.             *)
LEMMA StepIsLocal ==
  ASSUME OwnerInv, NEW l \in Launch, LaunchStep(l), NEW k \in Launch, k # l
  PROVE  at'[k] = at[k] /\ level'[k] = level[k] /\ seen'[k] = seen[k]
  BY DEF LaunchStep, OwnerInv, HomeTypeOK, Moves, Launches, PublishLock, ReadPrevious, JudgePrevious, TriesAgain,
         ComparePrevious, ClearStale, ReleaseReads, ReleaseUnlinks, Released, PublishEndpoint, StartFails,
         CloseHome, RemoveEndpoint, Dies

LEMMA DeadStayDead ==
  ASSUME OwnerInv, NEW l \in Launch, LaunchStep(l)
  PROVE  Gone \subseteq Gone'
  <1>1. at[l] # "dead"
    BY DEF LaunchStep, Launches, PublishLock, ReadPrevious, JudgePrevious, ComparePrevious, ClearStale,
           ReleaseReads, ReleaseUnlinks, PublishEndpoint, StartFails, CloseHome, RemoveEndpoint, Dies
  <1> QED BY <1>1, StepIsLocal DEF Gone

(* A lock is written only where there is none, and removed by its owner or *)
(* from a dead one by the launch that has the lock above it.               *)
LEMMA LockMoves ==
  ASSUME OwnerInv, NEW l \in Launch, LaunchStep(l), NEW n \in Level, lock'[n] # lock[n]
  PROVE  \/ lock[n] = Nobody /\ n = level[l]
         \/ lock[n] = l /\ at[l] \in HasLock /\ n = level[l]
         \/ lock[n] \in Gone /\ at[l] \in HasLock /\ n + 1 = level[l]
  <1>0. level[l] \in Level /\ Level \subseteq Nat /\ LaunchOk(l) /\ lock \in [Level -> Launch \cup {Nobody}]
    BY LevelAssumption DEF OwnerInv, HomeTypeOK, Level
  <1>1. CASE PublishLock(l) BY <1>0, <1>1 DEF PublishLock
  <1>2. CASE ClearStale(l)
    <2>1. at[l] \in HasLock /\ level[l] # 0 /\ lock[level[l] - 1] = seen[l][level[l] - 1]
      BY <1>0, <1>2 DEF ClearStale, LaunchOk, StillStale, Placed, Reclaiming, HasLock
    <2>2. n = level[l] - 1 /\ n < level[l] /\ n + 1 = level[l]
      <3>1. n = level[l] - 1 BY <1>0, <1>2 DEF ClearStale
      <3>2. level[l] \in Nat BY <1>0
      <3> QED BY <3>1, <3>2
    <2>3. seen[l][n] \in Gone
      BY <1>0, <2>1, <2>2 DEF LaunchOk, FoundDead
    <2> QED BY <1>0, <2>1, <2>2, <2>3
  <1>3. CASE ReleaseUnlinks(l)
    BY <1>0, <1>3 DEF ReleaseUnlinks, LaunchOk, Named, HasLock
  <1>4. CASE UNCHANGED lock BY <1>4
  <1> QED BY <1>1, <1>2, <1>3, <1>4
          DEF LaunchStep, Launches, ReadPrevious, JudgePrevious, ComparePrevious, ReleaseReads,
              PublishEndpoint, StartFails, CloseHome, RemoveEndpoint, Dies

(* The others: what one launch does to a lock or to the endpoint is not to *)
(* what another relies on, since no two have one lock.                     *)
LEMMA OthersKeepOk ==
  ASSUME OwnerInv, HomeTypeOK', NEW l \in Launch, LaunchStep(l), NEW k \in Launch, k # l
  PROVE  LaunchOk(k)'
  <1>0. LaunchOk(k) /\ LaunchOk(l) /\ level[k] \in Level /\ level[l] \in Level /\ Level \subseteq Nat
    BY LevelAssumption DEF OwnerInv, HomeTypeOK, Level
  <1>1. at'[k] = at[k] /\ level'[k] = level[k] /\ seen'[k] = seen[k]
    BY StepIsLocal
  <1>2. Named(k)'
    <2> SUFFICES ASSUME at[k] \in HasLock PROVE lock'[level[k]] = k
      BY <1>1 DEF Named
    <2>1. lock[level[k]] = k
      BY <1>0 DEF LaunchOk, Named
    <2>2. k \notin Gone /\ k # Nobody
      BY LaunchAssumption DEF Gone, HasLock, Owning, Reclaiming
    <2> QED BY <1>0, <2>1, <2>2, LockMoves
  <1>3. Placed(k)' /\ FoundDead(k)'
    BY <1>0, <1>1, DeadStayDead DEF LaunchOk, Placed, FoundDead
  <1>4. StillStale(k)'
    <2> SUFFICES ASSUME at[k] = "clearing" PROVE lock'[level[k] - 1] = seen[k][level[k] - 1]
      BY <1>1 DEF StillStale
    <2> DEFINE n == level[k] - 1
    <2>1. level[k] # 0 /\ lock[level[k]] = k /\ at[k] \in HasLock
      BY <1>0 DEF LaunchOk, Placed, Named, Reclaiming, HasLock
    <2>2. n \in Level /\ n < level[k]
      BY <1>0, <2>1, LevelAssumption DEF Level
    <2>3. lock[n] = seen[k][n] /\ seen[k][n] \in Gone
      BY <1>0, <2>2 DEF LaunchOk, StillStale, FoundDead
    <2>4. lock[n] # Nobody /\ ~(lock[n] = l /\ at[l] \in HasLock)
      BY <2>3, LaunchAssumption DEF Gone, HasLock, Owning, Reclaiming
    <2>5. ~(at[l] \in HasLock /\ n + 1 = level[l])
      <3>0. level[k] \in Nat
        BY <1>0
      <3>1. n + 1 = level[k]
        BY <3>0
      <3>2. at[l] \in HasLock => lock[level[l]] = l
        BY <1>0 DEF LaunchOk, Named
      <3> HIDE DEF n
      <3> QED BY <2>1, <3>1, <3>2
    <2>6. lock'[n] = lock[n]
      BY <2>2, <2>4, <2>5, LockMoves
    <2> QED BY <2>3, <2>6
  <1>5. Reachable(k)'
    <2> SUFFICES ASSUME at[k] = "serving", endpoint' # endpoint PROVE FALSE
      BY <1>0, <1>1 DEF LaunchOk, Reachable
    <2>1. at[l] \in Owning
      BY DEF LaunchStep, Launches, PublishLock, ReadPrevious, JudgePrevious, ComparePrevious, ClearStale,
             ReleaseReads, ReleaseUnlinks, PublishEndpoint, StartFails, CloseHome, RemoveEndpoint, Dies, Owning
    <2> QED BY <1>0, <2>1 DEF LaunchOk, Named, Placed, HasLock, Owning
  <1> QED BY <1>2, <1>3, <1>4, <1>5 DEF LaunchOk

(* The launch itself.                                                      *)
LEMMA StepKeepsOk ==
  ASSUME OwnerInv, HomeTypeOK', NEW l \in Launch, LaunchStep(l)
  PROVE  LaunchOk(l)'
  <1>0. /\ LaunchOk(l) /\ level[l] \in Level /\ Level = 0..MaxLevel /\ MaxLevel \in Nat
        /\ at \in [Launch -> HomePlace] /\ level \in [Launch -> Level]
        /\ seen \in [Launch -> [Level -> Launch \cup {Nobody}]]
        /\ lock \in [Level -> Launch \cup {Nobody}]
    BY LevelAssumption DEF OwnerInv, HomeTypeOK, Level
  <1>1. Gone \subseteq Gone'
    BY DeadStayDead
  <1> USE DEF LaunchOk, Named, Placed, FoundDead, StillStale, Reachable, HasLock, Owning, Reclaiming, Moves
  <1>2. CASE Launches(l) BY <1>0, <1>1, <1>2 DEF Launches
  <1>3. CASE PublishLock(l) BY <1>0, <1>1, <1>3 DEF PublishLock
  <1>4. CASE ReadPrevious(l) BY <1>0, <1>1, <1>4 DEF ReadPrevious
  <1>5. CASE JudgePrevious(l)
    <2>1. CASE UNCHANGED level BY <1>0, <1>1, <1>5, <2>1 DEF JudgePrevious, TriesAgain
    <2>2. CASE level'[l] = level[l] + 1 /\ seen[l][level[l]] \in Gone
      BY <1>0, <1>1, <1>5, <2>2 DEF JudgePrevious, TriesAgain
    <2> QED BY <1>0, <1>5, <2>1, <2>2 DEF JudgePrevious
  <1>6. CASE ComparePrevious(l) BY <1>0, <1>1, <1>6 DEF ComparePrevious
  <1>7. CASE ClearStale(l) BY <1>0, <1>1, <1>7 DEF ClearStale
  <1>8. CASE ReleaseReads(l) BY <1>0, <1>1, <1>8 DEF ReleaseReads, Released, TriesAgain
  <1>9. CASE ReleaseUnlinks(l) BY <1>0, <1>1, <1>9 DEF ReleaseUnlinks, Released, TriesAgain
  <1>10. CASE PublishEndpoint(l) BY <1>0, <1>1, <1>10 DEF PublishEndpoint
  <1>11. CASE StartFails(l) \/ CloseHome(l) BY <1>0, <1>1, <1>11 DEF StartFails, CloseHome
  <1>12. CASE RemoveEndpoint(l) BY <1>0, <1>1, <1>12 DEF RemoveEndpoint
  <1>13. CASE Dies(l) BY <1>0, <1>1, <1>13 DEF Dies
  <1> QED BY <1>2, <1>3, <1>4, <1>5, <1>6, <1>7, <1>8, <1>9, <1>10, <1>11, <1>12, <1>13 DEF LaunchStep

LEMMA OwnerStep == OwnerInv /\ [HomeNext]_homeVars => OwnerInv'
  <1>1. ASSUME OwnerInv, UNCHANGED homeVars PROVE OwnerInv'
    BY <1>1 DEF OwnerInv, HomeTypeOK, LaunchOk, Named, Placed, FoundDead, StillStale, Reachable, homeVars, Gone
  <1>2. ASSUME OwnerInv, NEW l \in Launch, LaunchStep(l) PROVE OwnerInv'
    <2>1. HomeTypeOK' BY <1>2, HomeTyped
    <2>2. \A k \in Launch : LaunchOk(k)' BY <1>2, <2>1, OthersKeepOk, StepKeepsOk
    <2> QED BY <2>1, <2>2 DEF OwnerInv
  <1> QED BY <1>1, <1>2 DEF HomeNext, LaunchStep

(* One server owns a home, at most one launch removes a stale lock at a    *)
(* time, and the endpoint is the server's (acquireFileLock, ownHomeRuntime)*)
THEOREM OneServerPerHome == HomeSpec => []OneOwner
  <1>1. OwnerInv => OneOwner
    BY DEF OwnerInv, OneOwner, LaunchOk, Named, Reachable, HasLock
  <1> QED BY <1>1, OwnerStep, OwnerInit, PTL DEF HomeSpec

-----------------------------------------------------------------------------
Emptied == {"idle", "leaked", "closed", "failed"}

(* From the moment close looked at the pending sends, only those can still *)
(* be under way; when it has waited for them, none is; and when the queues *)
(* are empty, what is put there has only to look.                          *)
CloseInv ==
  /\ CloseTypeOK
  /\ closer = "finishing" => PendingSends \subseteq owing
  /\ closer \in {"draining"} \cup Emptied => PendingSends = {}
  /\ closer \in Emptied => \A j \in PendingJobs : followup[j] = "queued"
  /\ closer # "leaked"

LEMMA CloseTypeStep == CloseTypeOK /\ [CloseNext]_closeVars => CloseTypeOK'
  <1> SUFFICES ASSUME CloseTypeOK, [CloseNext]_closeVars
               PROVE  CloseTypeOK'
    OBVIOUS
  <1> USE DEF CloseTypeOK, Begun, SendGoes, JobGoes, ActiveTurns, PendingSends, Send
  <1>1. CASE UNCHANGED closeVars
    BY <1>1 DEF closeVars
  <1>2. ASSUME NEW s \in Send, UserSends(s) \/ SendStep(s) \/ TurnSettles(s)
        PROVE  CloseTypeOK'
    <2>1. CASE UserSends(s) BY <2>1 DEF UserSends, BeginSendTurn
    <2>2. CASE Register(s) BY <2>2 DEF Register
    <2>3. CASE SetupFails(s) BY <2>3 DEF SetupFails
    <2>4. CASE SendReturns(s) BY <2>4 DEF SendReturns
    <2>5. CASE TurnSettles(s) BY <2>5 DEF TurnSettles
    <2> QED BY <1>2, <2>1, <2>2, <2>3, <2>4, <2>5 DEF SendStep
  <1>3. ASSUME NEW j \in Followup, EnqueueFollowup(j) \/ FollowupStep(j)
        PROVE  CloseTypeOK'
    <2>1. CASE EnqueueFollowup(j) BY <2>1 DEF EnqueueFollowup
    <2>2. CASE JobLooks(j) BY <2>2 DEF JobLooks
    <2>3. CASE JobReserves(j) BY <2>3 DEF JobReserves
    <2>4. CASE JobSends(j) BY <2>4 DEF JobSends, BeginSendTurn
    <2>5. CASE JobGivesUp(j) BY <2>5 DEF JobGivesUp
    <2> QED BY <1>3, <2>1, <2>2, <2>3, <2>4, <2>5 DEF FollowupStep
  <1>4. CASE StopScheduling \/ CloserStep
    BY <1>4 DEF StopScheduling, CloserStep, InterruptAll, InterruptStored, AwaitSends, SendsFinished,
                QueuesDrained, Closed
  <1> QED BY <1>1, <1>2, <1>3, <1>4 DEF CloseNext

(* A send begins only before the runner closes, and a send that returns was*)
(* pending.                                                                *)
LEMMA SendsKeepClose ==
  ASSUME CloseInv, CloseTypeOK', NEW s \in Send, UserSends(s) \/ SendStep(s) \/ TurnSettles(s)
  PROVE  CloseInv'
  <1>1. closer' = closer /\ owing' = owing
    BY DEF UserSends, SendStep, Register, SetupFails, SendReturns, TurnSettles
  <1>2. PendingSends' \subseteq PendingSends \/ ~Closing
    BY DEF CloseInv, CloseTypeOK, UserSends, BeginSendTurn, SendStep, Register, SetupFails, SendReturns,
           TurnSettles, SendGoes, PendingSends, Begun
  <1>3. closer \in Emptied => followup' = followup
    BY DEF CloseInv, Emptied, PendingSends, Begun, UserSends, SendStep, Register, SetupFails, SendReturns,
           TurnSettles
  <1> QED BY <1>1, <1>2, <1>3 DEF CloseInv, Closing, PendingJobs, Emptied

LEMMA JobsKeepClose ==
  ASSUME CloseInv, CloseTypeOK', NEW j \in Followup, EnqueueFollowup(j) \/ FollowupStep(j)
  PROVE  CloseInv'
  <1>1. closer' = closer /\ owing' = owing
    BY DEF EnqueueFollowup, FollowupStep, JobLooks, JobReserves, JobSends, JobGivesUp
  <1>2. PendingSends' \subseteq PendingSends \/ ~Closing
    BY DEF CloseInv, CloseTypeOK, EnqueueFollowup, FollowupStep, JobLooks, JobReserves, JobSends, JobGivesUp,
           BeginSendTurn, SendGoes, PendingSends, Begun, Send
  <1>3. closer \in Emptied => \A k \in PendingJobs' : followup'[k] = "queued"
    <2> SUFFICES ASSUME closer \in Emptied
                 PROVE  followup'[j] \in {"queued", "over"} /\ \A k \in Followup \ {j} : followup'[k] = followup[k]
      BY DEF CloseInv, CloseTypeOK, PendingJobs
    <2>1. followup[j] \in {"none", "queued", "over"} /\ Stopped
      BY DEF CloseInv, CloseTypeOK, PendingJobs, Stopped, Emptied
    <2> QED
      BY <2>1 DEF CloseInv, CloseTypeOK, EnqueueFollowup, FollowupStep, JobLooks, JobReserves, JobSends,
                  JobGivesUp, JobGoes
  <1> QED BY <1>1, <1>2, <1>3 DEF CloseInv, Closing, Emptied

LEMMA CloserKeepsClose ==
  ASSUME CloseInv, CloseTypeOK', StopScheduling \/ CloserStep
  PROVE  CloseInv'
  <1> USE DEF CloseInv, Emptied, PendingSends, PendingJobs, ActiveTurns, Begun
  <1>1. CASE StopScheduling BY <1>1 DEF StopScheduling
  <1>2. CASE InterruptAll BY <1>2 DEF InterruptAll
  <1>3. CASE \E s \in Send : InterruptStored(s) BY <1>3 DEF InterruptStored
  <1>4. CASE AwaitSends BY <1>4 DEF AwaitSends
  <1>5. CASE SendsFinished BY <1>5 DEF SendsFinished
  <1>6. CASE QueuesDrained BY <1>6 DEF QueuesDrained
  <1>7. CASE Closed BY <1>7 DEF Closed
  <1> QED BY <1>1, <1>2, <1>3, <1>4, <1>5, <1>6, <1>7 DEF CloserStep

LEMMA CloseStep == CloseInv /\ [CloseNext]_closeVars => CloseInv'
  <1> SUFFICES ASSUME CloseInv, [CloseNext]_closeVars
               PROVE  CloseInv'
    OBVIOUS
  <1>0. CloseTypeOK'
    BY CloseTypeStep DEF CloseInv
  <1>1. CASE UNCHANGED closeVars
    BY <1>0, <1>1 DEF closeVars, CloseInv, PendingSends, PendingJobs
  <1>2. CASE CloseNext
    BY <1>0, <1>2, SendsKeepClose, JobsKeepClose, CloserKeepsClose DEF CloseNext
  <1> QED BY <1>1, <1>2

(* When close has drained the queues nothing is left and nothing begins:   *)
(* assertIdle does not throw (lifecycle.close, turn-runner close).         *)
THEOREM CloseIsClean == CloseSpec => []CloseLeaksNothing
  <1>1. CloseInit => CloseInv
    BY DEF CloseInit, CloseInv, CloseTypeOK, Emptied, PendingSends, PendingJobs, Begun, Send
  <1>2. CloseInv => CloseLeaksNothing
    BY DEF CloseInv, CloseLeaksNothing, Emptied, ActiveTurns, PendingSends, Begun
  <1> QED BY <1>1, <1>2, CloseStep, PTL DEF CloseSpec
=============================================================================
