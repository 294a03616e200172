# OpenPond: specification and verification of the task core

OpenPond runs coding and work agents for a user: a local server keeps chats
("tasks" or "sessions"), runs turns of agents on them against model providers,
and lets users, schedules, other tasks and child agents send input to a task
while it works. This directory holds TLA+ models of that core and of the services
around it, the TLC runs that check them on small instances and the TLAPS proofs
about them.

## 1. Inventory

Paths are relative to `src/apps/server/src` unless they start with `src/`.

### The task core

| Component | State | Operations | Talks to |
|---|---|---|---|
| Task inbox store: `store/store-task-inbox.ts`, `task-inbox-records.ts`, `task-inbox-recovery.ts`, `store-task-inbox-schema.ts` | SQLite tables `task_inputs`, `task_inbox_turns` (one row per session: turn, owner, accepting, paused, lease), `task_input_requests` (manifests), `task_waits` | admit, mutate (edit, cancel, promote, resume), reject, open, renew, pause, reserve follow-up, include, settle, seal, seal native, close, recover owners; create and settle a wait | serialized by one promise chain (`inboxWrite`) |
| Task inbox runtime: `runtime/task-inbox/runtime.ts` | `ownerId`, `dispatching`, `reschedule`, `requests`, `recordedInputsByTurn`, `closed` | `admit`/`mutate` + `notify`, `schedule` (the dispatcher), `include`, `beginRequest`, `settled`, `recover`, `deliverCodex`, `wait` | store, turn runner, event bus |
| Turn runner: `runtime/turn-runner.ts`, `runtime/turns/*` | `activeTurns`, abort controllers, `turns` table | `sendTurn`, `executeTurn`, `startFollowup`, interruption, `close` | inbox runtime, providers, session store |
| Hosted tool loop: `runtime/hosted-turn/tool-loop-runtime.ts`, `src/packages/harness/src/provider-loop.ts` | messages, round index | one provider request per round, tools, seal at the final answer | inbox runtime and store |
| Session and turn store: `store/session-store.ts`, `store/store-chat.ts` | `turns.status`, sessions | `completeTurn`, `failTurn`, `interruptTurn` | all of the above |

### Around it

| Component | State and operations | Hard behaviour | What makes it correct | Here |
|---|---|---|---|---|
| Task waits and signals (`src/packages/agent-runtime/src/task-signals.ts`, `wait` in the runtime) | listeners, revision counter, `task_waits` rows | signal between read and wait, deadline racing a late signal, cycles of waiting tasks | no lost signal, a wait settles once, no cycle of live waits | `TaskWaits` |
| Background worker queue (`runtime/background-worker-queue.ts`) | pending jobs, running count, yields | a waiting job holds a slot its child needs | limit respected, every job settles, a yield gives the slot back | `WorkerQueue` |
| Runtime events (`runtime/runtime-event-bus.ts`, `runtime-event-write-queue.ts`, `src/apps/web/src/api/event-stream.ts`) | text buffers, pending writes, the event table; per client a cursor, a queue and the last event applied | order of buffered text against other events; catch-up from the table against live delivery | an event stored after all its turn emitted before it, a stream of text in its order, no event lost to a client | `EventWrites`, `EventStream` |
| Turn lifecycle and shutdown (`runtime/turns/lifecycle-runtime.ts`, `runtime/server-shutdown.ts`) | `closing`, pending sends, drains | a turn that starts while the runner closes | close settles everything, nothing starts after | `TurnClose` |
| Codex and native agents (`runtime/native-agents/`, `runtime/codex-bridge.ts`, `runtime/codex-ownership.ts`) | native thread, its running turn, writer ownership | a steer racing the end of the native turn | a delivery is settled before the turn is sealed | planned; its store transactions are modelled |
| Subagents, completion outbox (`runtime/subagents/`) | runs, child sessions, `task_completion_outbox` | report after a crash, child cancelled while reporting | a report reaches its parent exactly once | `ChildRuns` |
| Browser control (`openpond/browser-control-queue.ts`) | pending and in-flight requests, long polls, the registered desktop | a poll woken by a promise while requests time out and desktops change | a request is carried out once, by the registered desktop; no poll sleeps on work | `BrowserControl` |
| Home owner (`runtime/home-runtime-owner.ts`, `src/packages/persistence/src/private-file.ts`) | lock file, reclaim locks, endpoint file | two launchers that both find the lock of a dead server | one server per home, the endpoint is its own | `HomeOwner` |
| Scheduled work recovery, workflows (`runtime/scheduled-work-recovery.ts`, `store/store-chat-workflows.ts`) | schedule rows | uncertain outcome after a crash | not replayed blindly | not modelled |
| Terminals, create pipeline, harness refinement, evaluations, training, remote relay, HTTP API, web, CLI, desktop, SDK packages | - | mostly I/O, prompts, schema checks or the state of external services | - | not modelled |

`PROJECT.json` lists each with its status, and under `hazards` what in this code
is hard to reach with a test, at the line where it bites.

## 2. The modules

    TaskReceipts          what a sender is promised (abstract)
       ^ implemented by (KeepsReceipts, proved)
    TaskInboxStore        the tables and every transaction on them
       ^ implemented by (StoreSpec, proved)
    TaskRuntime           the processes that call them: users, notifications,
                          dispatcher, turns, crash and restart

    WorkerQueue  TaskWaits  ChildRuns  EventWrites  EventStream  TurnClose  BrowserControl
    HomeOwner
                          the services around a task; MCServices instantiates them all

**TaskReceipts.** One variable, the receipt of each input, and the only ways it
may move: pending, included, resolved, or back to pending when the request was
replaced, or rejected or cancelled. A correction (kind `steer`) is bound to a
turn, and no other turn carries it. It takes its words from `TaskInputSchema`
("A receipt describes transport/context inclusion").

**TaskInboxStore.** One task. `input` is `task_inputs`, `row` the session's
`task_inbox_turns` row, `req` the manifests, `tstatus` the `turns` table. Each
transaction of `StoreTaskInbox` is one action with the guards, early returns
and writes of the code, because `inboxWrite` runs one at a time in
`BEGIN IMMEDIATE`. A caller may issue any of them, with any turn, owner and
request. Inputs are named by their sequence number, so order is `<`. The wall
clock is left out: a lease is `none` (`lease_until = 0`, or no row), `live` or
`expired`, and `LeaseExpires` may come at any time. Bodies are left out: which
inputs fit in a batch (32 inputs, 64 000 characters, at most 32 000 each) is a
choice among the prefixes that sizes allow, and two always fit. The kind
`result` behaves as `message`. Revoked local control (`assertLocalPonderAdmission`)
is the set `Revocable`, of which any part may be refused. Any call may throw
and change nothing: that is a disabled action here.

**TaskRuntime.** One server at a time and the calls of one session. An action is
what a process does between two awaits: it reads memory, issues at most one
transaction and moves on. `run[t].pc` is where the `sendTurn` call of turn `t` is:

| pc | where in the code |
|---|---|
| `starting` | reserved by the dispatcher, before `sendTurn` |
| `opened`, `checked`, `inserted` | `openTaskInboxTurn`, the idle check, `insertStoredTurn` |
| `round`, `begun`, `calling`, `judging`, `acting` | a round: before it, after `beginRequest`, after the inclusion commit, in the catch, after the settlement |
| `finishing`, `ended` | sealed or paused; status written |
| `throwing`, `interrupting`, `faulting` | the catch of `executeTurn` and its two branches |
| `closing`, `closed`, `threw`, `refused`, `done` | `settled`, return or throw, and what the dispatcher does with a throw |
| `lost` | the process died |

`active` is `activeTurns`, `aborted` the aborted controllers, `disp` the
dispatcher (`dispatching`, `reschedule`), `notes` what `notify` has still to do
after a commit, in its two parts (abort the request; write the receipt event,
then schedule). `server` carries the start number (`ownerId`) and how far
`recover` has come; the server takes requests before it has recovered, as in
`index.ts`. Tools, compaction and prompts are a step that ends in another round
or in an error. `DirectAnswer` stands for the turns that answer without the
loop.

**WorkerQueue.** `BackgroundWorkerQueue`. `ready` is `pending`, `activeSlots`
`active`, `activeKeys` the keys under way, `held[j]` the closure variable of
`run`, `slotOf` what `AsyncLocalStorage` hands to work. An action is what one call
does up to its first await. `pump` is a series of `Start` steps, each of which
skips entries whose key is taken, during which nothing else happens (`pumping`);
`pumpDue` is the microtask that `enqueue` leaves. `Wait` and `Wake` are
`yieldWhileWaiting`: release the slot and wait for another job or for something
outside; then ask again with a `resume` entry. A `Guest` is work of another
queue: `enqueue` keeps the asynchronous context of its caller, so a guest that a
job sets off has that job's slot in its context, and what it does there is done in
the job's name. Jobs wait along their keys and never in a circle, which is what
`TaskWaits` shows of task waits.

**TaskWaits.** `row` is `task_waits`, `call` where each call of the wait tool is in
`wait` and in the loop of `TaskSignals.wait`, await by await. `Create` is the
transaction with its cycle check, which fails without a row. `found` is what the
reads have seen, `changed` the revision of the signal, `late` the timer. What a wait
looks at (`ended`, `closed`, `reported`, `cancelled`, `mail`, `stopped`) is
committed first and signalled later: `notices` holds the calls in between, and
anything may happen meanwhile. A crash loses calls and subscriptions, the next
server settles waiting rows as unavailable (`RecoverWaits`).

**ChildRuns.** `run` is the status in `subagent_runs`, `outbox` the row in
`task_completion_outbox`, `arrived` the inputs the parent's inbox got, `kidJob` the
background job from its start through turn, patch and report, with its catch,
`cancel` the call that cancels, `timer` and `sweep` the retry and
`recoverBatch` with the ids it has read and its cursor. A report is delivered in
three steps (`Admit`, `SettleCompletion`, `TellParent`) by the job or by the
batch; the inbox knows a child's turn by its idempotency key. Any of the calls may
throw (`DeliveryFails`, the branches of `KidStep`), any number of times, and the
server may crash anywhere. The retry timer may fire at any time; when a batch is under way it
gets that batch's promise and is gone.

**EventWrites.** From `appendRuntimeEvent` to the table: `buffer` is the text that
waits for more, one buffer for each `assistantDeltaKey` (event name, turn, provider request: the
constants `Stream` and `TurnOf`), `waiting` writes without capacity, `chain` those with a
place in `tail`, `log` the table. Each producer is a turn and emits one thing at a time,
text of one of its streams or another event. Another event flushes all streams first, and
so does text of a stream without a buffer when `MaxStreams` have one. A text longer than
its buffer is written in parts (`NextPart`); each part counts as one emission. A write
that fails makes the queue refuse everything after it (`failed`).

The code keeps the order of a stream and the place of events among text, and no order between two
streams of one turn: reasoning r1, answer t1, reasoning r2, answer t2 may be stored as r1 r2, t1 t2.
`Follows` says which order counts, and `StoredInOrder` is about that.

**EventStream.** From the table to one client: `Persist` and `Broadcast` in
the order of the writes, `Connect` and `Catchup` for the pages of
`openEventSubscriber`, then `subscriber.pending`, then live. A socket whose buffer is full
queues up to `MaxQueued` events and is closed beyond that. The client reconnects
after its `last` event and drops whatever is not beyond it: an event that came too
late is lost, which is what the property is about. One client is enough, as
subscribers share nothing but the table.

**TurnClose.** `closer` is `turnRunner.close` step by step: stop scheduling,
interrupt the registered turns, wait for the promises of pending sends,
drain the queues, `assertIdle`. `send` is where each `sendTurn` call is
(`beginSendTurn`, registration, settlement), `followup` the dispatcher's jobs, which
look at `closed`, reserve and send. A step waits for the promises it
collected when it began (`owing`), as the code does. A job may be enqueued at any time
("An admitted approval may enqueue its apply job while shutdown is starting"): `Closed` is
the second drain that `turnRunner.close` makes for it.

**BrowserControl.** `queue` and `inFlight` are the pending and the claimed requests, `tool` what
the turn that asked has been told, `poll` each `claimNext` call with the desktop
behind it, `waiters` the registered promises. A wake-up resolves a promise, and
the poll looks at the queue again in a continuation of its own (`ClaimAgain`). Timeouts,
interrupts, a new desktop, heartbeat expiry and close come at any time. `Complete`
is the answer of a desktop, which may come late.

**HomeOwner.** `lock[0]` is `server-owner.lock`, `lock[n]` the file with `.reclaim`
n times behind it. A launch that finds the lock of a dead process acquires lock
n + 1, compares and removes lock n, releases lock n + 1 and tries again: `level`
is the lock a launch asks for or has, `seen` the `previous` of each of its nested calls. Every
call of the file system is a step, any of them may fail and a process may die
between any two. A dead owner's pid may have been given to another process, which
makes it look alive. `endpoint` is `endpoint.json`, removed before the release.
`MaxLevel` bounds the recursion: beyond it a launch takes the owner for alive.

**MCServices** extends the eight and gives each its own instance. They share no
variable: what one needs of another is part of its own model (the worker queue's
drain in `TurnClose`, the inbox's idempotency in `ChildRuns`). `focus` selects one
of them in the initial state, so the run explores the sum of their state spaces
and not the product, which would show nothing more. **MCWorkerQueue** gives each
job a key of its own.

Operators whose comment says "mutant" are plausible bugs; nothing uses them.
`PROJECT.json` says which definition each would replace, and the property that
then fails.

## 3. Runs

| Run | Bounds | Question |
|---|---|---|
| `store` | 2 inputs, 2 turns, 2 owners, 2 requests, `MaxPending` 1 | do the tables keep the promises, whatever the callers do |
| `corrections` | 2 inputs of 3 kinds, 2 turns, 2 rounds each, no faults | nothing accepted is lost or repeated |
| `restart` | 2 inputs of 3 kinds, at most 1 pending, 2 turns, a crash anywhere, users at a server that has not recovered | what a crash leaves behind |
| `faults` | 1 input (followup, correction), 2 turns, hosted and direct paths, Stop, lease expiry, failed setup, revoked control | every step is a store transaction |
| `liveness` | 1 input (queued, correction), 2 turns, no faults | wake-ups and corrections are not lost, and no input is started twice |
| `services` | below | each service around a task keeps its promises |
| `stop_race`, `direct_turn`, `late_restart`, `restart_twice` | 1 input, 2 turns | see findings |
| `slot_leak` | 2 jobs, 1 slot, 1 guest that waits | see findings |
| `lost_report` | 1 child, 1 crash | see findings |

The run `services`, service by service (and `ServicesTypeOK`, the types of all of them):

| Service | Bounds | Properties |
|---|---|---|
| `WorkerQueue` | 3 jobs, two of one key, 2 slots, 1 guest that may wait in the slot it inherits, 1 wait each | `SlotsAreOwned`, `OneJobPerKey`, `NothingOverlooked`, `EveryJobEnds` |
| `TaskWaits` | 2 tasks, one a child, a call of each, 1 message, Stop or cancellation | `NoWaitCycle`, `SettledIsFinal`, `NothingMissed`, `WaitingIsServed`, `EveryWaitEnds` |
| `ChildRuns` | 2 children, one may be cancelled, 1 crash, any number of failed calls | `ReportedOnce`, `DriverIsKept` |
| `EventWrites` | 2 turns, one with 3 emissions in 2 streams and events, one with 1; 1 write under way, 2 open streams | `StoredInOrder`, `EverythingIsStored` |
| `EventStream` | 4 events, pages of 1, a queue of 2, 1 broken connection or restart | `AppliedWithoutGap`, `EveryEventArrives` |
| `TurnClose` | 1 send of a user, 1 follow-up job with up to 2 sends | `CloseLeaksNothing`, `CloseEnds` |
| `BrowserControl` | 2 requests, 2 polls of 2 desktops, room for 1 request | `NoPollSleepsOnWork`, `HandedOutOnce`, `HandedToRegistered` |
| `HomeOwner` | 3 launches, each of which may die, reclaim locks of 2 levels | `OneOwner` |

*Why the bounds are enough.* The races are between two inputs (one delivered, one
overtaken), two turns (one holding the row, one taking it or waiting) and two
owners (before and after a crash); the row and the requests map hold one entry
per session, so a third turn meets the same states. Two rounds are needed for a
replacement followed by a second delivery; with `MaxRounds = 1` the replaced
turn runs out of rounds, which `restart`, `faults` and `liveness` include.
`BatchMax = 2` stands for 32: with it, and two inputs, every batch may hold all
that waits. The case of a batch that is too small is in the hazards and
not in a run. `MaxPending` is 1 in `store`, `restart` and `faults`, so that the full inbox is met.
Turn ids are used once; `Turn` bounds how many there are.

In `services`: two slots and three jobs of which two share a key give a job that waits
for a slot, one that waits for a key and one that passes both in the queue. Two tasks
are the shortest cycle, and a call of each lets two creations race. Two children are
needed for a cursor that has passed one and not the other; one crash interrupts any
step, and the proofs cover more. Three emissions are text of two streams and an event,
or text in parts; three streams and room for two make the limit flush them; one write
under way makes every other wait. Pages of one and a queue of two put a seam after every
event and let the queue overflow. Two follow-up sends make one that follows another in
the same job. Room for one request makes the second be refused, or follow the first.
With three launches one may die with the home's lock, two find it stale, and one of
these may die with the reclaim lock, which takes the last one to the second level.

*Reductions.* `MCSymmetry` permutes ids that the code only compares for equality.
Inputs are ordered and never permuted. The liveness run uses no symmetry and no
view. `MCView` leaves out what nothing reads again: receipts that are final,
manifests of only such inputs, the memory of calls that returned (except the
input they completed), and who held a closed inbox. The properties under it
speak of pending inputs, live requests, turns in progress and completed seeds,
all of which it keeps. `MCExplored` in `store` stops at states that repeat
others: more than one inserted turn (no transaction relates two of them), a
finished turn (the store only asks for `in_progress` and for existence), the
second starter kind, the second way of being declined, requests that carry
nothing, and more than one settled request.

*Deadlock.* Checking is off: users need not send anything, turn ids run out and an
idle task rightly does nothing.

*Fairness.* In `liveness`: notifications, the dispatcher, each turn's steps and
recovery are weakly fair: each is a chain of awaits on the database, the event
writer or the provider, which answers, fails or is aborted (HTTP and stream
timeouts are outside `src/`'s models). Users, Stop, crashes and lease expiry
are not fair. A turn's step is fair as a whole and not per branch: nothing
obliges a provider to answer rather than fail. `QueueServed` allows for an
exhausted supply of turn ids and a paused queue, which is how a failed or
interrupted turn leaves it. It does not cover archived or child sessions, for which the
dispatcher may return, nor a full worker queue.

In `services`, each service's progress is weakly fair as a whole, and nobody has to
begin anything: enqueue, wait, emit, store, connect or close. `QueueProgress`: a
microtask runs, jobs end and waits end (a task wait has a deadline of an hour at most);
once a guest has waited in a job's slot `EveryJobEnds` asks nothing more, as the slot
may be gone. `WaitsProgress`: awaits on the database return, timers fire, a crashed
server is started again; `RecoverWaits` is strongly fair, because a crash may disable it
any number of times before it succeeds. No turn has to end and no signal has to come: a
wait ends by its deadline. `WritesProgress`: the table answers (with an error, perhaps,
after which `EverythingIsStored` asks nothing). `StreamProgress`: the client reads and
reconnects. `CloseProgress`: setup and settlement go on and an aborted turn ends; other
turns may run for ever. A step of the whole is fair and not each actor; it suffices
because the steps of each service run out. `ChildRuns`, `BrowserControl` and `HomeOwner`
have no liveness property: a delivery may fail for ever, a desktop need not answer, and
a pid may be in use again for ever.

### What the violation runs show

- `stop_race`: a Stop written between `insertStoredTurn` and
  `registerActiveTurn`, or after the last abort check, is overwritten:
  `completeTurn` does not look at the status (`store/session-store.ts:285`).
- `direct_turn`: a turn for a queued input that is answered directly never takes
  the input in, its close gives it back, and the dispatcher starts it again.
- `late_restart`: after a crash, a turn sent to the new server before it
  recovers (and after the lease ran out) takes the row, and recovery, which goes
  by rows, never marks what the dead turn had included.
- `restart_twice`: `recover` frees the inbox in one transaction and interrupts the
  turn later; a second crash in between leaves the turn in progress.

- `slot_leak`: the turn of a child runs in the asynchronous context of the follow-up
  job that set it off. When the child's wait ends, it takes a slot of the follow-up
  queue in the name of that job, which may itself be waiting; `held` is one boolean for
  two acquisitions, so one slot is never given back.
- `lost_report`: a completed child run is stored first and committed with its outbox
  row later. A crash in between, or an error of the commit, leaves an
  outcome that no recovery reports.

Two more are recorded as hazards: a lease takeover inside one server leaves corrections
bound to the old turn, and an exception before a turn is registered leaves it in
progress. The passing runs therefore check `NoStrandedInput` without lease expiry and
`NoGhostTurn` without failed setup; `Events` in each configuration says so. A third, the
retry timer that fires during a batch (`completion-runtime.ts:88`), is an exception that
`DriverIsKept` names.

## 4. Proofs

`TaskInboxStore_proofs` proves, for every value of the constants that satisfies
the assumptions in `TaskInboxStore` (inputs are a finite set of naturals, `NoTurn`
and `NoOwner` are no ids, the limits are positive), all six properties of the
run `store`:

| Theorem | States |
|---|---|
| `TypeCorrect` | `[]TypeOK` |
| `SteersStayBound` | `[]SteerIsBound` |
| `AcceptingMeansOpen` | `[]AcceptingIsOpen` |
| `DeliveryInOrder` | `DeliveredInOrder` |
| `ManifestsBackReceipts` | `[]ReceiptHasManifest` |
| `StoreKeepsReceipts` | the store implements `TaskReceipts` |

The argument. `TypeOK` is inductive; one lemma per group of transactions, and
`EveryEdit` says what any transaction may do to one input, so that later proofs
split on what happened to an input and not on twenty actions. `SteerIsBound` and
`AcceptingIsOpen` are inductive with `TypeOK`. `DeliveredInOrder` is an action
property: only `IncludeTaskInputs` delivers, and a batch is a prefix of what is
eligible. `ReceiptHasManifest` is not inductive: recovery fails requests and
marks inputs in one transaction, both selected by the row's turn, and it needs to
know that a request's inputs carry that request's turn. `ManifestInv` adds that,
with absent inputs in no manifest. The refinement needs that absent inputs are
unbound and that a correction is bound, then goes transaction by transaction
through `ReceiptStep`. The oldest startable input exists by well-foundedness on
finite sets (`OldestIn`).

`TaskRuntime_proofs` builds on it and on the assumptions of `TaskRuntime` (request
ids are turns and rounds, owner ids are naturals, `Events` and `UserKinds` are
what they are declared to be). All of it holds under every event: Stop, crashes
and any number of restarts, lease expiry, failed setup.

| Theorem | States |
|---|---|
| `RuntimeTypeCorrect` | `[]RuntimeTypeOK` |
| `RuntimeUsesStore` | the processes implement `StoreSpec` |
| `RuntimeKeepsReceipts` | so they implement `TaskReceipts` |
| `InputsNotSentTwice` | `[]NotSentTwice` |

The argument. `RuntimeTypeOK` is not inductive alone: a call that waits to write
`interrupted` must find a status, and one that includes must have a round, so
`CallInv` says so. With it each action is a store transaction (`StepIsStoreStep`),
which gives the implementation, and `TypeOK` in turn. `NotSentTwice` needs to know
three more things (`SendInv`, `HolderInv`): the request of a call that waits for
a provider is out, so a settlement gives back what was out for that call
only; a pending input was in replaced manifests only; and recovery fails
requests of other server starts only, because a live call that has the row has it
under this server's owner id, and nothing is alive while the server is down.
The steps that send nothing (`Others`, `SendsOfQuiet`) cannot make an included
input pending (`NoneReturned`); the three that touch requests have a lemma each.
`SendInv`, `HolderInv` and `CallInv` were explored with TLC before they were proved.

`TurnOwnership_proofs` proves the invariants that tie the tables to the processes.
Each needs that a lease does not expire under a running turn, which the heartbeat
is there for: the premise is `Renewed`, `"lease" \notin Events`, and the hazards
say what happens without it.

| Theorem | States | Also assumes |
|---|---|---|
| `TurnsTakeTurns` | `[]OneTurnAtATime` | |
| `NoInputStranded` | `[]NoStrandedInput` | |
| `InclusionsAreLive` | `[]InclusionIsLive` | |
| `CorrectionsAreSeen` | `[]NoCorrectionDropped` | hosted turns only |
| `InputsStartOnce` | `[]StartedOnce` | hosted turns only, no step `AskedEarly` |
| `FirstRequestsTakeSeeds` | `[]StartedOnce` | hosted turns only, always `NotCrowded` |
| `NoGhosts` | `[]NoGhostTurn` | no step `Forgets` |

The argument. `HoldInv`: a call between its reservation or opening and its closing has
the row under this server's owner id, and a row that is not given up has a call behind
it or belongs to an earlier start. Every step is classified by what it does to the row
(it keeps, takes, releases or recovers it), so the later proofs split on four cases. Two
calls in progress would both hold the row, hence `OneTurnAtATime` (`TurnInv`). `LinkInv`
follows inputs: a pending input with a turn id is bound to the row's turn, a request
that is out belongs to a call that awaits it, an inclusion without an error is in such a
request or in one that recovery has still to settle. `SealInv`: the seal closes the
inbox in the transaction that finds no correction, and a closed inbox admits none.
`GhostInv` accounts for each turn in progress by its call, by the row recovery will
find, or by the turn it has found, for any number of restarts. Two steps lose a turn,
and `Forgets` names them: a setup that fails after the turn was inserted, and a crash
between the recovery of the inboxes and the interruption of their turns
(`restart_twice`). The hosted premise is needed since a direct turn includes nothing. In
`CorrectionsAreSeen` a turn that is done counts from its final answer (`Finishing`)
until it gives up the row, and a paused one does not.

`StartedOnce` takes two invariants more. What any step may do to one input, knowing
which process does it, is one of seven things (`EveryTouch`: it arrives, is bound,
departs in a request, is withdrawn, given up, returned by its request's end, or
orphaned by a crash), and what it may do to one call is `EveryAhead`. `InputInv`
collects what that keeps of inputs. `SeedInv` follows the input a turn was started
for: while the turn has the row, it is the oldest of all the turn may be given, so
the first batch takes or refuses it (`FirstIsTaken`); nothing makes it pending again
before the answer, except a replacement, after which the turn must begin another
request; so when the turn is about to complete it is settled, and what is settled
stays so (`SettledForGood`) and starts no other turn. Messages of peers may arrive at any
time; they are eligible for any turn and may be older, so with more of them than a batch holds
a turn may ask the user a question, complete and give its input back unseen: the hazard at
`store-task-inbox.ts:373`. `InputsStartOnce` excludes just that step (`AskedEarly`: a turn asks
while the input it was started for is pending). `FirstRequestsTakeSeeds` says when it
cannot happen: while the inputs that may go before a turn's first and that input fit in one batch
(`NotCrowded`), the first request takes or refuses it. Without either premise TLC finds the second
start with one message, one queued input and a batch of one.

The services:

| Module | Theorem | States |
|---|---|---|
| `Queues_proofs` | `SlotsOwned`, `KeysAreExclusive`, `NoJobOverlooked` | `[]SlotsAreOwned`, `[]OneJobPerKey`, `[]NothingOverlooked` |
| `Delegation_proofs` | `WaitsAreServed`, `OutcomesAreFinal`, `WaitsHaveNoCycle`, `NoSignalMissed` | `[]WaitingIsServed`, `SettledIsFinal`, `[]NoWaitCycle`, `[]NothingMissed` |
| `Delegation_proofs` | `ReportsArriveOnce`, `DriversAreKept` | `[]ReportedOnce`, `DriverIsKept` |
| `ServerLife_proofs` | `OneServerPerHome`, `CloseIsClean` | `[]OneOwner`, `[]CloseLeaksNothing` |
| `Queues_proofs` | `PollsAreWoken`, `RequestsAreHandedOutOnce`, `OnlyTheRegisteredAreServed` | `[]NoPollSleepsOnWork`, `[]HandedOutOnce`, `HandedToRegistered` |
| `Events_proofs` | `EventsStoredInOrder`, `NoEventSkipped` | `[]StoredInOrder`, `[]AppliedWithoutGap` |
| `Services_proofs` | `ServicesTypeCorrect` | `[]ServicesTypeOK` |

- *Worker queue.* No premise: guests wait in the slots they inherit, as `slot_leak`
  shows they do. The invariants say what still holds then: the limit, the exclusion of
  keys, and that only the job in whose slot a guest waited (`Lent`) may disagree with
  `held`, with the count and with the keys taken. `NothingOverlooked` excepts a key that
  such a job freed when it ended, for which the code calls no pump (`FreedUnseen`).
  `QueueInv` says that each entry of the queue belongs to one job at the place the entry
  says, and bounds the count of slots by the jobs that hold one.
- *Task waits.* A row that waits has a call in its wait (`WaitInv`). For the signal,
  `HeardInv` says for each await of the loop that what has been read still holds, or
  has a signal on its way, or has raised the revision. It requires that recovery keeps
  the notices that are still pending. For cycles: a wait is created
  only if its caller is not among the tasks its target depends on. A set of
  tasks that wait within itself would have to contain the caller, then the target,
  then all that the target depends on, and so would have been one before.
- *Child runs.* `ReportInv`: a deliverer that has gone past `Admit` left the input, and
  one past `SettleCompletion` the outbox row; the idempotency key stops the second.
  `DriverIsKept` is an action property, as the code does lose drivers: a job that fails
  between the commit and the delivery, and a timer that fires while a batch has
  passed the report. `Driven` needs where the cursor is: what a batch has read is ahead of it
  until its try, which sets the timer if it failed, and what became pending behind it is not.
- *Home.* `OwnerInv`: who has a lock is named in it, what a launch found below its
  level belonged to the dead, and what it is about to remove is still the dead
  owner's. The last part needs exclusion one level above, which is the first part there:
  the same invariant over all levels, so the nesting needs no induction. It
  discharges what `TaskRuntime` assumes, one server at a time.
- *Close.* From the moment it looks at pending sends only those it waits for can be
  under way; a job that comes after the queues are drained finds the dispatcher stopped and
  sends nothing (`CloseInv`).
- *Browser control.* `ControlInv` says where a request is (queue, in flight, told) and
  that two polls never hold the same; the poll that sleeps has its waiter registered,
  and every way to fill the queue wakes the waiters in the same step.

- *Events, written.* What a turn emitted is, lane by lane (its events, and each of its
  streams), in the log, in a write that is under way or waiting, in the buffer or in the
  producer's hands. `WritesInv` says that each place continues the one before it
  (`LogRises`, `PipeRises`, `BufferRises`), that nothing emitted is in none
  (`NothingLost`), and that a producer waits for one write at a time, which comes after
  its flushed text (`WriterWaits`). Any write may fail; from then on the log only stays.
  The assumption that the timer is no producer separates its flushes from theirs.
- *Events, delivered.* `StreamInv`: what is on the wire comes after what it follows
  (`WireInOrder`), all up to the cursor was sent (`CatchesUp`), the pending queue is the
  tail of what the subscriber was told, and what it was told before it is in a page
  that is read or still to be written (`NoneLeftOut`). So the last page and the
  queue together leave nothing out when the connection goes live.
- *Together.* A step of the composition is a step of one service and a stutter of the
  others, so each keeps its types by its own lemma.

*Only model-checked:* liveness under fairness, which is out of the prover's reach
(`QueueServed`, `SteerSettles`, `EveryJobEnds`, `EveryWaitEnds`, `EverythingIsStored`,
`EveryEventArrives`, `CloseEnds`). Every invariant and action property of a passing run is
a theorem, under the premises named above.

## 5. Not modelled, and why

The repository has over half a million lines; the models stand for the part whose
correctness depends on the order of steps. Most of the rest has none: views and
components of the web app, HTTP parsing, schemas and migrations, prompts and
profiles, wrappers of files, terminals, git and external services, builders of
packages. The training, evaluation and harness packages keep states of
remote jobs, where what matters is decided by those services.

Of the task core:

- Bodies, attachments, revisions, idempotency keys and the correction history
  budget: they refuse an admission or an edit, and a refused call changes nothing.
- Receipts as timeline events (`record`): they follow the table.
- Codex, local providers, create/improve and subagent turns in `executeTurn`: they use
  the same transactions, which `store` checks under any caller; their own order is
  planned.
- Several sessions: the tables of one session are disjoint from those of another,
  and the queue they share is `WorkerQueue`.
- `completeTurn` writes the turn and then the session (`store/session-store.ts:292`);
  the model has only the turn. An error between the two makes the catch of `executeTurn`
  write failed over completed.
- Sessions other than open chats: the dispatcher returns for a closed or archived
  session and for a child session whose run is missing, running, queued or cancelled
  (`runtime/task-inbox/runtime.ts:290-294`), so `QueueServed` is about chats only.
- `RecoverTurn` takes `recoverInterruptedTurn`, the receipts of the recovered inputs and
  the wake-up of the dispatcher as one step. A crash between the last two loses a
  wake-up in memory, which the recovery of the next server makes again.
- `resumeRemoteTaskInput` (`store/task-inbox-records.ts:107-112`) clears `paused` in the
  transaction of the admission; here that is `ResumeQueue` and then the admission.
- `Editable` asks for the kind `queued` where `mutateTaskInput` asks for the sender: a
  user sends queued inputs and corrections only, and a pending correction has its turn,
  which refuses the edit first.
- Time: leases expire at any moment, renewals are on time unless `lease` is enabled.

Of the services:

- `WorkerQueue`: receipts that are kept for readers after a job ended; they are a map
  nothing in the queue reads.
- `TaskWaits`: `TaskSerialExecutor`, the loss of control over a target, waits for one
  queued input, a queued child without a turn (`runtime/task-inbox/runtime.ts:254-257`,
  where the status of the run decides and a missing turn is unavailable). A wait whose
  first event fails leaves its row waiting until the next restart; the model has this
  (`unannounced`).
- `ChildRuns`: follow-ups of a child (a second turn of one run), joins, isolated
  workspaces, foreground roles, an error of the read in `recoverBatch`. The model has,
  and no property forbids, that receipts written before the `try` leave a run `running`
  when they fail, that a report committed just before an error waits for the next start,
  and that jobs of queued children are gone after a crash.
- `EventWrites`, `EventStream`: filters by session, live subscribers inside the server,
  where a text is cut (a surrogate pair may make the code flush first and gather then).
  That a slot freed by a write goes to the first that waits rests on the order of
  continuations in one turn of the event loop. An event that was stored although its
  write reported an error is never broadcast; a client sees it when it connects again.
- `TurnClose`: the registries of create and improve jobs, the rest of
  `turnRunner.close`. An interruption that cannot be stored makes close fail
  (`failed`) and skips what would follow.
- `BrowserControl`: the desktop's worker and `waitForPreviewConnection`. An
  interrupted request that a desktop has already claimed is still carried out, and
  a poll of a desktop that died may claim a request, which then times out.
- `HomeOwner`: the disposers of a failed start; `fs.link` and `fs.unlink` are atomic, and
  processes on one home share one space of pids.

## 6. Plan

Done: `TaskReceipts`, `TaskInboxStore`, `TaskRuntime` and the eight services, with
proofs of their safety.

1. The native path of `TaskRuntime`: Codex delivery, `finishCodex`, the native seal.
2. Child follow-ups and joins in `ChildRuns`, composed with `TaskWaits`: a parent that
   waits for a child whose report is retried.
3. The remote relay's reconnection, and scheduled work after a crash.
