--------------------------- MODULE BrowserControl ---------------------------
(***************************************************************************)
(* Browser tools: a turn's request waits in the server until a desktop     *)
(* claims it with a long poll, carries it out and answers.  Requests time  *)
(* out and are interrupted, polls time out, a new desktop process takes    *)
(* over from an old one, and a response may not reach its desktop.         *)
(*                                                                         *)
(* A poll is woken by the resolution of a promise: it looks at the queue   *)
(* again in a continuation of its own.                                     *)
(***************************************************************************)
EXTENDS Naturals, Sequences, FiniteSets

CONSTANTS Request,     \* requests of turns
          Poll,        \* calls of claimNext
          Executor,    \* desktop processes, each with its executorToken
          NoExecutor,
          TokenOf,     \* the process that makes each poll
          MaxRequests  \* MAX_PENDING_BROWSER_REQUESTS

ASSUME ExecutorAssumption == NoExecutor \notin Executor /\ TokenOf \in [Poll -> Executor]
ASSUME RequestLimitAssumption == MaxRequests \in Nat \ {0}
ASSUME PollAssumption == Poll \subseteq Nat \ {0} /\ Request \subseteq Nat \ {0}

VARIABLES tool,      \* what each turn knows of its request
          answer,    \* the poll whose result it was given
          queue,     \* pending, oldest first
          inFlight,  \* requests that a poll has taken
          handed,    \* the request each poll returned
          poll,      \* where each poll and the desktop behind it is
          waiters,   \* polls whose waiter is registered
          desktop,   \* the registered executor
          connected, \* it was seen in the last 35 s
          shut       \* closed

controlVars == <<tool, answer, queue, inFlight, handed, poll, waiters, desktop, connected, shut>>

Nothing == 0

(* Everything is of the kind the code declares.                            *)
ControlTypeOK ==
  /\ tool \in [Request -> {"none", "asking", "answered", "refused", "interrupted", "timeout", "closed"}]
  /\ answer \in [Request -> Poll \cup {Nothing}]
  /\ queue \in Seq(Request)
  /\ inFlight \subseteq Request
  /\ handed \in [Poll -> Request \cup {Nothing}]
  /\ poll \in [Poll -> {"none", "asleep", "awake", "empty", "refused", "working", "over"}]
  /\ waiters \subseteq Poll
  /\ desktop \in Executor \cup {NoExecutor}
  /\ connected \in BOOLEAN /\ shut \in BOOLEAN

ControlInit ==
  /\ tool = [r \in Request |-> "none"]
  /\ answer = [r \in Request |-> Nothing]
  /\ queue = <<>>
  /\ inFlight = {}
  /\ handed = [p \in Poll |-> Nothing]
  /\ poll = [p \in Poll |-> "none"]
  /\ waiters = {}
  /\ desktop = NoExecutor /\ connected = FALSE /\ shut = FALSE

-----------------------------------------------------------------------------
Pending == {queue[i] : i \in 1..Len(queue)}

NoWakeWaiters == UNCHANGED <<poll, waiters>>  \* mutant

(* Every waiter resolves its promise and is removed.                       *)
WakeWaiters ==
  /\ poll' = [p \in Poll |-> IF p \in waiters /\ poll[p] = "asleep" THEN "awake" ELSE poll[p]]
  /\ waiters' = {}

KeepClaimed(r, verdict) ==  \* mutant: a request that was given up stays in pending
  /\ tool' = [tool EXCEPT ![r] = verdict]
  /\ inFlight' = inFlight \ {r}
  /\ UNCHANGED queue

Splice(i) == SubSeq(queue, 1, i - 1) \o SubSeq(queue, i + 1, Len(queue))

(* Out of pending, or out of inFlight, and resolved.                       *)
GiveUpRequest(r, verdict) ==
  /\ tool' = [tool EXCEPT ![r] = verdict]
  /\ inFlight' = inFlight \ {r}
  /\ IF r \in Pending
     THEN \E i \in 1..Len(queue) : queue[i] = r /\ queue' = Splice(i)
     ELSE UNCHANGED queue

(* enqueue, refused when closed, not connected or full.                    *)
AskDesktop(r) ==
  /\ tool[r] = "none"
  /\ IF shut \/ ~connected \/ Len(queue) + Cardinality(inFlight) >= MaxRequests
     THEN tool' = [tool EXCEPT ![r] = "refused"] /\ UNCHANGED <<queue, poll, waiters>>
     ELSE /\ tool' = [tool EXCEPT ![r] = "asking"]
          /\ queue' = Append(queue, r)
          /\ WakeWaiters
  /\ UNCHANGED <<answer, inFlight, handed, desktop, connected, shut>>

RequestTimesOut(r) ==
  /\ tool[r] = "asking"
  /\ GiveUpRequest(r, "timeout")
  /\ UNCHANGED <<answer, handed, poll, waiters, desktop, connected, shut>>

Interrupt(r) ==
  /\ tool[r] = "asking"
  /\ GiveUpRequest(r, "interrupted")
  /\ UNCHANGED <<answer, handed, poll, waiters, desktop, connected, shut>>

-----------------------------------------------------------------------------
RegisterExecutor(d) ==
  /\ desktop' = d /\ connected' = TRUE
  /\ WakeWaiters
  /\ UNCHANGED <<tool, answer, queue, inFlight, handed, shut>>

HeartbeatExpires ==
  /\ connected
  /\ connected' = FALSE
  /\ UNCHANGED <<tool, answer, queue, inFlight, handed, poll, waiters, desktop, shut>>

Authentic(p) == desktop = TokenOf[p]

(* The oldest request goes to the poll.  Its response may be lost on the   *)
(* way; the request then stays in flight.                                  *)
HandOut(p) ==
  /\ queue' = Tail(queue)
  /\ inFlight' = inFlight \cup {Head(queue)}
  /\ handed' = [handed EXCEPT ![p] = Head(queue)]
  /\ poll' = [poll EXCEPT ![p] = "working"]

(* claimNext up to its await.                                              *)
Claim(p) ==
  /\ poll[p] = "none"
  /\ IF ~Authentic(p)
     THEN poll' = [poll EXCEPT ![p] = "refused"] /\ UNCHANGED <<queue, inFlight, handed, waiters, connected>>
     ELSE /\ connected' = TRUE
          /\ IF queue # <<>> THEN HandOut(p) /\ UNCHANGED waiters
             ELSE /\ poll' = [poll EXCEPT ![p] = "asleep"]
                  /\ waiters' = waiters \cup {p}
                  /\ UNCHANGED <<queue, inFlight, handed>>
  /\ UNCHANGED <<tool, answer, desktop, shut>>

(* setTimeout(resolve, 25 s), which leaves the waiter in the set.          *)
PollTimesOut(p) ==
  /\ poll[p] = "asleep"
  /\ poll' = [poll EXCEPT ![p] = "awake"]
  /\ UNCHANGED <<tool, answer, queue, inFlight, handed, waiters, desktop, connected, shut>>

ClaimUnchecked(p) ==  \* mutant: the token is not looked at again after the wait
  /\ poll[p] = "awake"
  /\ connected' = TRUE
  /\ IF queue # <<>> THEN HandOut(p)
     ELSE poll' = [poll EXCEPT ![p] = "empty"] /\ UNCHANGED <<queue, inFlight, handed>>
  /\ UNCHANGED <<tool, answer, waiters, desktop, shut>>

(* The rest of claimNext: the token is checked once more.                  *)
ClaimAgain(p) ==
  /\ poll[p] = "awake"
  /\ IF ~Authentic(p)
     THEN poll' = [poll EXCEPT ![p] = "refused"] /\ UNCHANGED <<queue, inFlight, handed, connected>>
     ELSE /\ connected' = TRUE
          /\ IF queue # <<>> THEN HandOut(p)
             ELSE poll' = [poll EXCEPT ![p] = "empty"] /\ UNCHANGED <<queue, inFlight, handed>>
  /\ UNCHANGED <<tool, answer, waiters, desktop, shut>>

(* completeRequest, with the result or an error: only what is still in     *)
(* flight is resolved.                                                     *)
Complete(p) ==
  /\ poll[p] = "working"
  /\ poll' = [poll EXCEPT ![p] = "over"]
  /\ IF Authentic(p) /\ handed[p] \in inFlight
     THEN /\ tool' = [tool EXCEPT ![handed[p]] = "answered"]
          /\ answer' = [answer EXCEPT ![handed[p]] = p]
          /\ inFlight' = inFlight \ {handed[p]}
     ELSE UNCHANGED <<tool, answer, inFlight>>
  /\ connected' = (connected \/ Authentic(p))
  /\ UNCHANGED <<queue, handed, waiters, desktop, shut>>

CloseControl ==
  /\ ~shut
  /\ shut' = TRUE
  /\ WakeWaiters
  /\ tool' = [r \in Request |-> IF r \in Pending \cup inFlight THEN "closed" ELSE tool[r]]
  /\ queue' = <<>> /\ inFlight' = {}
  /\ UNCHANGED <<answer, handed, desktop, connected>>

ControlNext ==
  \/ \E r \in Request : AskDesktop(r) \/ RequestTimesOut(r) \/ Interrupt(r)
  \/ \E d \in Executor : RegisterExecutor(d)
  \/ \E p \in Poll : Claim(p) \/ PollTimesOut(p) \/ ClaimAgain(p) \/ Complete(p)
  \/ HeartbeatExpires \/ CloseControl

ControlSpec == ControlInit /\ [][ControlNext]_controlVars

-----------------------------------------------------------------------------
(* No poll sleeps while a request waits: it is woken when one comes, when  *)
(* the executor changes and when the queue closes.                         *)
NoPollSleepsOnWork ==
  \A p \in Poll : poll[p] = "asleep" => queue = <<>> /\ p \in waiters

(* A request is handed to one poll, so it is carried out at most once; its *)
(* turn gets the result of that poll; and a request whose turn was told    *)
(* otherwise is not handed out afterwards.                                 *)
HandedOutOnce ==
  /\ \A p, q \in Poll : handed[p] = handed[q] /\ handed[p] # Nothing => p = q
  /\ \A r \in Request :
       /\ tool[r] = "answered" => answer[r] # Nothing /\ handed[answer[r]] = r
       /\ r \in Pending \cup inFlight <=> tool[r] = "asking"
       /\ r \in inFlight <=> r \notin Pending /\ tool[r] = "asking"

(* Only the desktop that is registered gets requests, also when it changed *)
(* while an older one was polling.                                         *)
HandedToRegistered ==
  [][\A p \in Poll : handed'[p] # handed[p] => TokenOf[p] = desktop]_controlVars
=============================================================================
