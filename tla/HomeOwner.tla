----------------------------- MODULE HomeOwner -----------------------------
(***************************************************************************)
(* Launches of a server on one home: the lock file that names its owner,   *)
(* its recovery when the owner has died, and the endpoint file that tells  *)
(* later launchers where the server is.                                    *)
(*                                                                         *)
(* A stale lock is removed under a second lock, the reclaim lock, which    *)
(* may be stale itself and is then removed under a third, and so on: lock  *)
(* n + 1 guards the removal of lock n.  Calls of the file system are atomic*)
(* and may fail; a process may die between any two.                        *)
(***************************************************************************)
EXTENDS Naturals

CONSTANTS Launch,    \* processes, each with its pid and nonce
          Nobody,    \* no lock file, no endpoint file
          MaxLevel   \* how deep acquireFileLock may call itself

ASSUME LaunchAssumption == Nobody \notin Launch
ASSUME LevelAssumption == MaxLevel \in Nat

Level == 0..MaxLevel

VARIABLES lock,      \* the owner each lock file names
          at,        \* where each launch is
          level,     \* the lock it asks for or has
          seen,      \* previous, in each of its calls of acquireFileLock
          endpoint   \* whose endpoint.json it is

homeVars == <<lock, at, level, seen, endpoint>>

(* With the home's own lock, and with a reclaim lock.                      *)
Owning == {"starting", "serving", "closing", "failing"}
Reclaiming == {"comparing", "clearing"}
HomePlace == {"none", "publishing", "reading", "judging", "freeing", "unlinking", "over", "dead"}
             \cup Owning \cup Reclaiming

(* Everything is of the kind the code declares.                            *)
HomeTypeOK ==
  /\ lock \in [Level -> Launch \cup {Nobody}]
  /\ at \in [Launch -> HomePlace]
  /\ level \in [Launch -> Level]
  /\ seen \in [Launch -> [Level -> Launch \cup {Nobody}]]
  /\ endpoint \in Launch \cup {Nobody}

NothingSeen == [n \in Level |-> Nobody]

HomeInit ==
  /\ lock = [n \in Level |-> Nobody]
  /\ at = [l \in Launch |-> "none"]
  /\ level = [l \in Launch |-> 0]
  /\ seen = [l \in Launch |-> NothingSeen]
  /\ endpoint = Nobody

Moves(l, to) == at' = [at EXCEPT ![l] = to]
Gone == {l \in Launch : at[l] = "dead"}

-----------------------------------------------------------------------------
(* acquireFileLock.                                                        *)
Launches(l) ==
  /\ at[l] = "none"
  /\ Moves(l, "publishing")
  /\ UNCHANGED <<lock, level, seen, endpoint>>

(* fs.link of a complete file; if it is there already, read it.  An error  *)
(* may come before the link or, from the removal of the candidate, after   *)
(* it: then the lock stays, with an owner that does not know of it.        *)
PublishLock(l) ==
  /\ at[l] = "publishing"
  /\ \/ /\ lock[level[l]] = Nobody
        /\ lock' = [lock EXCEPT ![level[l]] = l]
        /\ Moves(l, IF level[l] = 0 THEN "starting" ELSE "comparing") \/ Moves(l, "over")
     \/ lock[level[l]] # Nobody /\ Moves(l, "reading") /\ UNCHANGED lock
     \/ Moves(l, "over") /\ UNCHANGED lock
  /\ UNCHANGED <<level, seen, endpoint>>

ReadPrevious(l) ==
  /\ at[l] = "reading"
  /\ seen' = [seen EXCEPT ![l][level[l]] = lock[level[l]]]
  /\ Moves(l, "judging")
  /\ UNCHANGED <<lock, level, endpoint>>

(* The end of an attempt: sleep and try again, or the deadline has passed. *)
TriesAgain(l) == Moves(l, "publishing") \/ Moves(l, "over")

(* A dead owner's pid may belong to another process by now, which makes it *)
(* look alive.                                                             *)
JudgePrevious(l) ==
  /\ at[l] = "judging"
  /\ \/ TriesAgain(l) /\ UNCHANGED level
     \/ /\ seen[l][level[l]] \in Gone
        /\ level[l] < MaxLevel
        /\ level' = [level EXCEPT ![l] = @ + 1]
        /\ Moves(l, "publishing")
  /\ UNCHANGED <<lock, seen, endpoint>>

CompareNothing(l) ==  \* mutant: the lock is not read again
  /\ at[l] = "comparing"
  /\ Moves(l, "clearing")
  /\ UNCHANGED <<lock, level, seen, endpoint>>

(* Is it still the lock of the dead owner?                                 *)
ComparePrevious(l) ==
  /\ at[l] = "comparing"
  /\ \/ lock[level[l] - 1] = seen[l][level[l] - 1] /\ Moves(l, "clearing")
     \/ Moves(l, "freeing")  \* it is not, or the read failed
  /\ UNCHANGED <<lock, level, seen, endpoint>>

(* fs.unlink of whatever is there by now.                                  *)
ClearStale(l) ==
  /\ at[l] = "clearing"
  /\ Moves(l, "freeing")
  /\ lock' = [lock EXCEPT ![level[l] - 1] = Nobody] \/ UNCHANGED lock
  /\ UNCHANGED <<level, seen, endpoint>>

-----------------------------------------------------------------------------
(* The release that acquireFileLock returns, for the home and for a        *)
(* reclaim lock.  If one of its calls fails the lock stays.                *)
Released(l) ==
  IF level[l] = 0 THEN Moves(l, "over") /\ UNCHANGED level
  ELSE TriesAgain(l) /\ level' = [level EXCEPT ![l] = @ - 1]

ReleaseReads(l) ==
  /\ at[l] = "freeing"
  /\ \/ lock[level[l]] = l /\ Moves(l, "unlinking") /\ UNCHANGED level
     \/ lock[level[l]] # l /\ Released(l)
     \/ Moves(l, "over") /\ UNCHANGED level
  /\ UNCHANGED <<lock, seen, endpoint>>

ReleaseUnlinks(l) ==
  /\ at[l] = "unlinking"
  /\ \/ lock' = [lock EXCEPT ![level[l]] = Nobody] /\ Released(l)
     \/ Moves(l, "over") /\ UNCHANGED <<lock, level>>
  /\ UNCHANGED <<seen, endpoint>>

-----------------------------------------------------------------------------
(* ownHomeRuntime.                                                         *)
PublishEndpoint(l) ==
  /\ at[l] = "starting"
  /\ endpoint' = l
  /\ Moves(l, "serving")
  /\ UNCHANGED <<lock, level, seen>>

StartFails(l) ==
  /\ at[l] \in {"starting", "serving"}
  /\ Moves(l, "failing")
  /\ UNCHANGED <<lock, level, seen, endpoint>>

CloseHome(l) ==
  /\ at[l] \in {"starting", "serving"}
  /\ Moves(l, "closing")
  /\ UNCHANGED <<lock, level, seen, endpoint>>

(* fs.rm of endpoint.json, then release; in close an error of the removal  *)
(* leaves the lock, in the catch of a failed start it does not.            *)
RemoveEndpoint(l) ==
  /\ at[l] \in {"closing", "failing"}
  /\ \/ endpoint' = Nobody /\ Moves(l, "freeing")
     \/ Moves(l, IF at[l] = "closing" THEN "over" ELSE "freeing") /\ UNCHANGED endpoint
  /\ UNCHANGED <<lock, level, seen>>

(* The process is killed, or it exits; its files stay.                     *)
Dies(l) ==
  /\ at[l] \notin {"none", "dead"}
  /\ Moves(l, "dead")
  /\ level' = [level EXCEPT ![l] = 0]
  /\ seen' = [seen EXCEPT ![l] = NothingSeen]
  /\ UNCHANGED <<lock, endpoint>>

HomeNext ==
  \E l \in Launch :
    \/ Launches(l) \/ PublishLock(l) \/ ReadPrevious(l) \/ JudgePrevious(l)
    \/ ComparePrevious(l) \/ ClearStale(l) \/ ReleaseReads(l) \/ ReleaseUnlinks(l)
    \/ PublishEndpoint(l) \/ StartFails(l) \/ CloseHome(l) \/ RemoveEndpoint(l)
    \/ Dies(l)

HomeSpec == HomeInit /\ [][HomeNext]_homeVars

-----------------------------------------------------------------------------
(* "Only one runtime may own a home": no two processes have one lock, that *)
(* of the home or one that guards the removal of another, whoever dies and *)
(* however many reclaim at once.  And "a second launcher reports the       *)
(* existing runtime": while a server serves, the endpoint is its own.      *)
OneOwner ==
  /\ \A l, k \in Launch :
       at[l] \in Owning \cup Reclaiming /\ at[k] \in Owning \cup Reclaiming /\ level[l] = level[k] => l = k
  /\ \A l \in Launch : at[l] = "serving" => endpoint = l
=============================================================================
