# Peppy: a TLA+ verification project

Peppy is a robotics middleware in Rust. A *daemon* on every host keeps a stack
of *nodes* (a configuration and its running *instances*), starts and supervises
their processes, and federates with the daemons of other hosts over Zenoh.
*Node processes* link `peppylib` and talk to each other with topics, services
and *actions*, long-running goals with feedback, a result and a cancel. The
robot logic, the daemon's own goals (`node_run`, `node_add`, `node_stop`,
`stack_launch`) and the tools that the MCP server offers run on that one action
engine.

This directory holds TLA+ models of the parts whose correctness rests on
interleavings, failures and retries, the TLC configurations that check them on
small instances, and theorems about them that TLAPS checks for every instance.
`PROJECT.json` lists the components, the runs, the hazards, the findings, the
mutants that show each property can fail, and the source lines behind every
definition.

Contents: [the system](#1-the-system), [the modules](#2-the-modules),
[the action engine](#3-the-action-engine), [the goal client and its followers](#4-the-goal-client-and-its-followers),
[the instance lifecycle](#5-the-instance-lifecycle), [leases and the halt](#6-leases-and-the-halt),
[pairs](#7-pairs), [presence](#8-presence), [the theorems](#9-the-theorems),
[what the models disagree with](#10-what-the-models-disagree-with),
[limits](#11-limits), [plan](#12-plan), [running it](#13-running-it).

## 1. The system

| component | state | operations | what is hard | correct when |
|---|---|---|---|---|
| action engine, provider (`peppylib-rs/src/messaging/actions.rs`) | registry of goal slots, early polls (`pending_waiters`), early cancels, tombstones, sender watches, linked tokens | admit a goal, end it, poll its result, cancel it, sweep, watch its sender | the request loops, a sweeper and one task per sender share several maps, each under its own lock; queries overtake each other; clients die | each goal has one outcome, every poll gets it, a cancel reaches its goal and no other, a dead client's goals are cancelled |
| action client (same file, `subscription_buffer.rs`, `stack-goal-internal`) | goal handle, feedback buffer, producer watch | send, read feedback, await the result, cancel, drop | bounded buffer against its reader; late replies; death of the producer | an accepted goal is awaited or cancelled; a stream that ended has no gap |
| MCP bridge (`mcp-server-internal/src/{bridges,moves}.rs`) | the followed goal and its guard, the view of the fleet | fire a goal for a tool, follow it, cancel it, let it go | a future that is dropped at any await; a halt; a client that falls behind | no goal runs on with nobody to follow it; a halt reaches every goal that moves a robot |
| instance lifecycle (`node-stack-internal/src/node_stack/entity.rs`, `supervision.rs`; `core-node-internal/src/services/node/{run,stop,remove,add,supervisor,gate,health_monitor}.rs`) | one slot per instance id, shutdown claims, supervision record, run permits, reset epoch | start, commit, exit, restart, health kill, stop, remove, overwrite, reset | six kinds of tasks act on a slot between awaits, and waits last as long as a grace period | one process per id, no process the stack cannot reach, what was stopped stays stopped |
| robot leases and the halt (`services/fleet.rs`, `fleet/book.rs`, `stack/action.rs`) | holders, leases, offers, halt flag and its file, the changes of the stack | take, offer, give back, remove, halt, clear | goals of earlier processes of a holder end late; a crash beside the file; a removal against takers | every lease has a live holder, an answered halt holds, holders are told the truth |
| pairing and slot updates (`services/node/{pairing,relationship_notify}.rs`, `peppylib-rs/src/services/slot_update.rs`) | two registries, held pairs, sequence numbers | pair, commit at the peer, tell the node, dissolve, pair again | calls unanswered, lost or late; both ends restart; locks held across awaits | a node's slot is what its daemon's registry says, both daemons agree, no pair is inherited |
| name claim (`services/presence.rs`) and node watchdog (`peppylib-rs/src/services/daemon_watchdog.rs`) | candidate and process tokens; beats and reports heard | claim a name, alarm, watch one's daemon | registries lag, reads miss tokens, sessions drop | one daemon per name; a node outlives a blink, not its daemon |
| federation and admission (`services/federation.rs`, `federation/service.rs`) | reservations of a slice, their owner and expiry | reserve, confirm, expire | the driver dies between the phases | a reservation ends |
| stack launch, add, build, sync, cache (`services/stack/`, `services/node/{add,sync}.rs`) | the stack lock, files, archives | resolve, add, build, run, roll back | mostly I/O; the rollback | a failed launch leaves no copy |
| log export (`log-export-internal`) | bounded queue, batch in flight | queue, send, retry, flush | shutdown against a retry | each record is sent or counted as discarded, once |
| MCP resources (`peppy-mcp-runtime`) | resource gates, tasks | read, wait, rate-limit | a reader against the message in flight | no reader waits for a message that has passed |
| daemon process, router federation, clock, datastore, messaging adapters | lock and state files, router process | start, stop, reconfigure | external processes | see `PROJECT.json` |
| configuration, generators, codecs, containers, authentication, command line, Python bindings, test support | none that is shared | pure or I/O | nothing concurrent | not modelled |

How they interact: a client's `send_goal`, result poll and cancel are queries
that reach three independent loops of the engine; its handle keeps the feedback
and watches the provider. `node_run` and the other daemon operations are goals
on that engine; their handlers take a permit of the run gate, look the node up
in the stack and then work on the node's entity under its lock, which they
release at every wait. A process watcher and a supervisor task turn exits into
restarts, which pass the same gate and make the pairs of the instance again with
the daemons of its peers. A `lease` goal makes a client a holder of robots; the
leases admit or refuse the changes of the stack. The MCP server is a client of
the engine: it follows the goal behind a tool, and the halt of the fleet cancels
the goals that move a robot. Presence tokens of the transport tell the engine of
dead clients, a booting daemon of others under its name, and a node of its
daemon.

The hazards that follow from this, each at its line and with the properties
that would show it, are the `hazards` of `PROJECT.json`.

## 2. The modules

| module | models | used by |
|---|---|---|
| `ActionEngine` | the provider side of one action endpoint | `EngineKeepsPromise` |
| `GoalPromise` | the abstract specification of a provider: what a client may rely on | `EngineKeepsPromise` |
| `EngineKeepsPromise` | the refinement mapping from the engine to the promise | `MCActionEngine`, `EngineResultsProofs` |
| `MCActionEngine` | the instances TLC checks: who sends, polls and cancels what | the `engine_*` runs |
| `ActionEngineProofs` | theorems: types, early polls and cancels, the first end, the answers of cancels | the two below |
| `EngineResultsProofs` | theorems: parked polls, dropped goals, the refinement of the promise | |
| `EngineWatchProofs` | theorems: the sender watches and the linked tokens | |
| `GoalClient` | the client of one goal, thread by thread | `FollowedGoal` |
| `FollowedGoal` | who follows that goal: the command line or the MCP bridge | `MCGoalClient` |
| `MCGoalClient` | the instance TLC checks | `goal_client` |
| `FollowedGoalProofs` | theorems: the stream without a gap, the followed goal kept | |
| `InstanceLifecycle` | one instance id of one node on one daemon | `MCInstanceLifecycle` |
| `MCInstanceLifecycle` | the instances TLC checks: policies and run lengths | the `life_*` runs |
| `InstanceLifecycleProofs` | theorems: processes and slots, stops, claims, notes and resets | |
| `FleetBook` | the fleet of one daemon: leases, halt, stack changes | `MCFleetBook` |
| `MCFleetBook` | its symmetry | `fleet_leases` |
| `FleetBookProofs` | theorems: leases, what holders are told, the halt, goals, removals | |
| `PairedEnds` | one pair of instances on two daemons | `pair_restarts` |
| `PairedEndsProofs` | theorems: slots and registries, links, reported pairs, the locks, the agreement of the daemons | |
| `DaemonPresence` | the daemons of one name and a node that watches its own | `MCDaemonPresence` |
| `MCDaemonPresence` | the routers of the instance | `presence_claims` |
| `DaemonPresenceProofs` | theorems: one owner per name, the nodes that are kept | |

An action is one critical section of the code, or the code between two awaits
when it touches one piece of shared state. Where the code holds a lock over an
await or over several of them, the model holds it over several actions. Payloads
and durations are abstract: a deadline is a fact that may become true at any
time, a message is its identity. Definitions that read like variants of another
one and are used by no action (`ForkUnrecorded` beside `Fork`, say) are
the mutated forms the list of mutants refers to: each is the code with one
plausible mistake.

Each module has a type invariant. It documents the variables and is not listed
with the runs, which spend their time on the properties below; it was checked
with each of them.

## 3. The action engine

### State and actions

| variables | code |
|---|---|
| `registry`, `state`, `waiters`, `outcome`, `due` | the registry and the slot of each goal: pending or terminal, its parked polls, its retention |
| `phase`, `adopted` | how far `accept` went and what it holds in locals; the life of the `GoalContext` |
| `terminal`, `ender`, `ending`, `waking`, `ends` | the atomic flag and the calls that end a goal (`transition_terminal`, `Drop`) |
| `cause`, `cancelled`, `linked`, `tokens`, `held` | the cancel signal and the tokens linked to it (`signal_cancel`, `cancel_at_signal`) |
| `pending`, `parkDue`, `early`, `earlyDue`, `tombs` | `pending_waiters`, the early cancels, the tombstones and their deadlines |
| `resPc`, `resPoll`, `canPc`, `canReq`, `canTok`, `swPc`, `expired` | `run_result_loop`, `run_cancel_loop`, the sweeper |
| `entry`, `owner`, `watch`, `doomed`, `unread`, `signalling`, `watchTok`, `alive`, `visible` | the sender watches (`run_sender_watch`, `confirm_gone`) and the transport's presence tokens |

Groups of actions: *accept* (register the slot and adopt early polls under the
`pending_waiters` lock, apply early cancels, track the sender, answer), *enders*
(`complete`, `fail`, `complete_cancelled`, and the abandon of a dropped context:
swap the flag, publish the outcome, close the stream, answer the waiters), the
*result loop* (look the slot up, wait, answer, park, or answer Expired), the
*cancel loop* (check the owner, signal, cancel the linked tokens, answer), the
*sweeper* (evict old slots, insert tombstones, expire early polls and cancels,
stop idle watches) and the *sender watch* (Gone event, probes, signal). The
environment makes queries arrive, clients die or blink, and deadlines pass.

A sender-watch task is named after the goal that started it, so that a task that
outlives its entry and the task of a new entry can be told apart: that is the
point of the entry's owner and of the abort in `end_idle_sender_watches`.

The `Faults` of a run choose what may go wrong: `reply_fails` (the admission
reply errs), `engine_drop` (the loops are stopped), `sender_dies`,
`router_bounce` (a Gone that is not a death), `watch_fails` (no subscription),
`probe_fails` (a presence probe errs), `deliver_dropped` (the future of an end
is dropped at an await), `replay_late` (a late replay of the token's presence).

### The promise

`GoalPromise` says what a client sees, without the registry, the locks and the
loops: a goal gets one result, its stream ends once and not before that, a
result request gets that result, or Expired once the result need not be kept, or
is dropped. `EngineKeepsPromise` maps the engine onto it: a goal is decided when
the state of its slot is replaced, not when the flag is swapped, and its result
is aged when `evict_at` has passed. `PromiseKept` is that every step of the
engine, faults included, is a step of the promise or one no client can see.

### Runs

| run | instance | checks |
|---|---|---|
| `engine_results` | 1 goal, 2 enders, 2 polls; `reply_fails`, `engine_drop` | `NoOrphanPoll`, `NoLostWakeup`, `DroppedGoalEnds`, `FirstEndWins`, `PromiseKept` |
| `engine_cancels` | 1 goal, 2 senders, a cancel of the owner and one of another client, 1 linked token, a grace period; `sender_dies`, `reply_fails`, `watch_fails`, `probe_fails`, `deliver_dropped`, `replay_late` | `NoFabricatedDeath`, `NoOrphanCancel`, `OnlyOwnerCancels`, `CancelReplyTrue`, `SignalledReachedLinksOrRaces` |
| `engine_senders` | 2 goals of 1 sender; `sender_dies`, `router_bounce`; deadlock checked | `LiveGoalWatched` |
| `engine_live` | 1 goal, 1 poll, a grace period, fair scheduling; `sender_dies`, `router_bounce`; deadlock checked | `SenderGoneCancels`, `ParkedPollsLeave` |

Goals are bounded and so are the requests, so `engine_results` and
`engine_cancels` may end with everything answered, and they switch the deadlock
check off.

What they show: a poll or a cancel that beats the goal it is for is adopted by
accept or expires, and is never left with a registered goal; a poll that parks
while the goal ends is answered; all polls of a goal are told the outcome of the
end that won, and a context dropped without an end ends its goal; nobody cancels
another client's goal on a checked endpoint; Signalled and AlreadyTerminal are
true; a live goal of a sender keeps a watch whose task runs, whatever the
sweeper aborts; a dead sender's goals get their signal.

The bounds are enough because the protocols are per goal and per sender. Two
polls give one parked and one in the loop, two enders give the race for the
flag, two goals of one sender give the hand-over of a watch from one task to the
next, and two cancels give an owner and another client. The three capacity
constants are 1, so that the second early poll, early cancel or tombstone
already meets a full table. Nothing is assumed about the order of arrivals.

### Fairness

`FairSpec` assumes weak fairness of each step of the engine's own loops and
tasks: accept once begun, an ender past its swap, the watch of each goal's
sender, both loops, the sweeper (a timer of the engine), and the park deadline.
The tokio runtime polls a task that is ready and a timer fires; each of these
steps stays enabled until it is taken. Nothing is assumed of clients or of the
worker that owns a goal: it may never end it.

## 4. The goal client and its followers

### State and actions

`GoalClient` is one goal seen by its client.

| variables | code |
|---|---|
| `call`, `attempts`, `req`, `replies` | `send_goal` and `poll_service`: the query, its ack and its answer |
| `sink`, `dlv`, `queue`, `raised` | `FeedbackSink::deliver`, the bounded buffer and `FeedbackOverflow` |
| `gone`, `watcher` | `ProducerGoneWatch` and its task |
| `rd`, `reg`, `woken`, `read`, `stage`, `ending` | `on_next_feedback`, one poll of its select at a time, and `RunningStackGoal` |
| `oc`, `ocReg`, `handle` | the task of `OverflowCancel`, and the drop of the handle field by field |
| `goal`, `alive`, `knows`, `own`, `pub`, `pubAtEnd`, `wire` | the provider and the wire (external): what it decided, whether a cancel reached it, the client's own cancel, the feedback on its way |

A read runs on one thread, the delivery, the watch and the overflow's task on
others: each load, store, registration and wake-up is a step, because a lost
wake-up is the hazard. A provider may die with feedback on the wire; a query may
run ahead of discovery and be sent again; a deadline may pass before or after
the ack.

`FollowedGoal` adds who follows the goal once it is admitted. With `mode`
*stack* it is the command line, read by read. The other modes are the bridge of
the MCP server: a whole-goal deadline with feedback (`settle_after_feedback`) or
without (`settle_on_result`), or a progress window (`follow_progress`).

| variables | code |
|---|---|
| `br` | where the bridge's future is: a turn, a report to its client, a cancel, the result, gone; or the task of `follow_unwaited_goal` |
| `armed`, `endRead`, `cancelSent` | the guard `CancelOnDrop` and the fields of `FollowedGoal` |
| `moves`, `stop` | the goal moves a robot; `must_stop` as the view of the fleet shows it |
| `wish`, `ask` | the client's cancel, and the bridge's own on its way |

The runtime may drop the bridge's future at each await. Under the bridge the
handle moves in larger steps (a read, a delivery, the latch, the overflow's task
and the drop of the handle are one step each): the small ones are what the stack
mode checks.

### The run

`goal_client`: a buffer of 2, 3 messages, 2 queries of the request.

| property | shows |
|---|---|
| `NoSilentGap` | a follower whose stream was closed got every message published before the end; one that fell behind gets the overflow |
| `KeepsFollowedGoal` | a goal that is followed is cancelled by the client itself only after an overflow, or as a bridge that did not read the end lets it go |
| `LeftGoalCancelled` | an overflowed goal, a goal whose answer was not read and a goal whose bridge ended before its end are cancelled at the provider |
| `ReadsEnd` | a read comes back once the goal ended or its provider died: no wake-up is lost, the end is never dropped |
| `HaltCancelsMove` | a halt that lasts cancels a goal that moves a robot, also after its client stopped waiting |

One message more than the buffer keeps is what an overflow takes, and two
queries what a retry takes; the protocol is per goal. Callers may stop for good,
so the deadlock check is off.

Fairness: the threads and tasks of the runtime run on, the bridge among them,
whose waits for the provider are all bounded; a cancel on the wire arrives or is
lost; the watch confirms a death. Nothing is assumed of the caller, the worker,
the client of the bridge or the fleet.

## 5. The instance lifecycle

### State and actions

One instance id. A *life* is one process of it, numbered by the order in which
the starts begin; the number is its pid. A slot is numbered by the life that
registered it and keeps that number over its restarts, so that two instances
run one after the other under the same id can be told apart.

| variables | code |
|---|---|
| `slot` (state, process, policy, attempt, shutdown notes, health kill) | `TrackedNodeInstance`, `Supervision` |
| `claimed` | the `stopping` flag of the slot |
| `proc`, `watch`, `mon` | the process, the exit watcher and the health monitor of each life |
| `run`, `info` | each `node_run` goal and each restart task: where it is, what it holds, which goal began it and which slot it serves |
| `stop`, `rem`, `over` | the `node_stop` and `node_remove` requests, the overwrite in `node_add` |
| `reset`, `epoch` | the stack reset, and the cancellation token it replaces |
| `detached` | the `node_run` goals whose node left the stack since they looked it up |
| `stopped`, `lost`, `crossed` | histories that no action reads: the slots a `node_stop` answered for; the processes a path left behind; whether a panic was taken for another start than its own |

A start passes the gate, reads its inputs, registers (a new id) or takes over
its slot (`begin_respawn`), prepares, forks and records the pid in one critical
section, waits for the process to be ready, passes its setup and commits; it may
fail, be refused, be cancelled by a claim, panic, or be dropped by a reset at any
wait. An exit records its cause on the slot, and the policy decides on a restart
up to `MaxRestarts`. The stop paths claim first, wait, kill and remove; they
differ in how they find what to remove, which is what several properties are
about.

### Runs

| run | instance | checks |
|---|---|---|
| `life_stop_remove` | 2 lives, 2 `node_run` goals, short and long runs, `always`, 1 stop, 1 removal, 1 reset | `NoOtherOrphan`, `StoppedStaysStopped` |
| `life_removes` | 2 lives, 2 goals, every policy, 1 removal, 1 overwrite that may be cancelled, 1 reset | `ClaimHasOwner`, `OneProcess`, `NothingInherited` |
| `life_live` | 2 lives, 1 goal, `always`, 1 stop, 1 reset, fair scheduling | `ResetEndsAll`, `WaitsEnd` |
| `life_detached_run` | 2 lives, 1 goal, `always`, 1 removal | `NoOrphan`, violated: section 10 |

What they show: whatever path claims a slot and wherever the start, restart or
exit of its process stands at that moment, every live process is on its slot and
the id has one process; a stopped instance does not come back; a claimed slot has
somebody who will remove it; notes and health kills do not leak from one process
to the next; a reset leaves no process, and every stop, restart and reset that
began ends.

No request is kept from overlapping another. Where the code loses a race, the
model takes the losing step, and the properties name what it leaves:

* `lost` has the processes left behind by three paths: a `node_run` that registers
  on a node removed after its look-up (`RegisterDetached`), a removal that went on
  without a kill because another path had claimed the slot, when a reset or the
  cancel of a `node_add` has dropped that path (`RemoveClears`, `ClaimerDropped`),
  and an overwrite that removes by id an instance it did not claim
  (`OverwriteRemoves`). `NoOtherOrphan` says that nothing else leaves one behind;
  `NoOrphan`, without the exception, is what `life_detached_run` refutes.
* `Cancelled(id)` is the claim that a cancelled `node_add` leaves without an owner,
  the exception of `ClaimHasOwner`.
* `crossed` is set when a panicking restart takes another start for its own
  (section 10). It needs more lives than the runs have, so in the runs it stays
  false and the properties are checked without the exception.

Two processes are the least that can be confused with each other, and two goals
let a second instance come under the id while a path still waits for the first;
every stop path needs at most one wait in which the id changes hands, so two or
three paths per run meet every pairwise overlap. `life_live` has the stop; with a
removal in its place it passes too (59,169 states, outside the runs), while a
stop, a removal and a reset under fairness are too many states. The lives are
bounded, so an instance that exited in its last life starts nothing more; with an
idle stack that is a legitimate end, and the cfgs switch the deadlock check off
(`WaitsEnd` is what would show a real one).

### Timing the model takes from the code

The model has no clocks. Four guards state an order that the code's durations
give and untimed steps would lose: the monitor arms for a process that is still
the slot's (its first probe is an interval after the spawn); `BeginRespawn`
acts on a claim made in its window; a removal that meets another path's claim
kills only after that claimer has acted, whose equal deadline began earlier; and
the overwrite claims what it looked at in the same step, there being no await in
between.

### Fairness

`LiveSpec` assumes weak fairness of a start's, a restart's, a watcher's, a
stop's, a removal's, an overwrite's and a reset's own steps: all are tasks or
request handlers the runtime polls, and every wait in them has a deadline.
Nothing is assumed of the processes, the callers, the health monitor, or of a
reset being asked for at all.

## 6. Leases and the halt

### State and actions

The book of `fleet/book.rs` is behind one mutex, so each of its operations is a
step. A `lease` goal and a stack change are tasks of several steps around it.

| variables | code |
|---|---|
| `halt`, `onDisk`, `promised` | the flag of the book, the halt file, and whether a halt was answered and not cleared since |
| `lease`, `leaving` | per robot its holder, whether it is open to others, who gave it and to whom it is offered; the robots a removal takes off |
| `holders`, `proc`, `goal`, `ended` | the generation of the process that holds, the latest process, the task of each generation's goal, and the tokens the book cancelled |
| `copies`, `active` | the record of the launch the daemon coordinates |
| `change`, `mutation`, `gate` | the stack changes in flight, the stack's mutation lock, the gate of each kind |
| `lifted` | history: the removals whose hold on their robot the end of another removal lifted |
| `knows`, `offered` | what each holder knows from its replies and events |

`GoalNext` is the life of a `lease` goal: begun, accepted or not, ended, and the
restart of a client's process, whose new goal ends the earlier one's.
`ServiceNext` is take (of a free, an offered or an open lease), release (which
gives a received lease back), open, close and offer. `HaltNext` is the halt,
written or not, its clear, and the crash and restart of the daemon, also
in the middle of a clear. `ChangeNext` is a join, removal, launch or reset from
the leases' answer through gate and mutation lock to its release.

### The run

`fleet_leases`: three clients, one of which has two processes and asks for the
changes (`Askers`), one robot, two changes that may overlap, clients
interchangeable except that one; the deadlock check is on.

| property | shows |
|---|---|
| `LeasesHaveHolders` | a lease is of a client whose goal runs, its giver is another such client, a received lease is not offered again, and none lives under a halt |
| `AnsweredHaltHolds` | a halt that was answered survives crashes of the daemon at any step and earlier halts that failed |
| `EventsTellAll` | a holder that applies its replies and events knows exactly its leases and open offers, and the move check agrees with it |
| `HolderHasGoal` | a holder leaves the book with its own goal only: the late end of an earlier process's goal ends no later one's leases |
| `NoTakeDuringRemoval` | while a removal of a robot runs, its lease passes to nobody new, unless the end of another removal of the robot lifted the hold: no other step does |

Three clients are a giver, a receiver and a third who takes what they let go. Two
changes give one that runs and one that waits for it, whatever their kinds.
The rules speak of one robot at a time, except that the end of a holder takes all
its leases, which is the same step for each of them. No liveness is claimed: a
goal lasts as long as its client wants.

## 7. Pairs

### State and actions

`PairedEnds` is one pair whose ends run on two daemons. The first start on
daemon 1 links them; both may exit and restart, and the end on a daemon of
`Stoppable` may be stopped and started anew under the same id, unlinked.

| variables | code |
|---|---|
| `inst`, `held` | each instance and its latest process, and the pair its slot keeps for restarts |
| `reg`, `lock` | the registry of each `PairingCoordinator`, and who keeps its `op_lock` over an await |
| `task` | each process's start: reserve, tell its node, ask the peer's daemon, revert |
| `serve`, `notice`, `forgets`, `down` | the handlers of `pair_commit` and `relationship_notify`, and the teardowns |
| `tell`, `updates`, `node` | the `peer_update` that is awaited, those no node took, and the node's slot with its sequence gate |
| `commits`, `ends` | the requests between daemons that nobody took |
| `told`, `linked`, `made`, `solo` | histories the properties read: the last update, the link of the id, a reported pair, a lone restart |
| `faults`, `stops` | the bounds |

An operation that awaits nothing under `op_lock` is a step; one that awaits an
answer keeps it. Every call has a timeout, so an answer that does not come is a
fault, after which the request is lost or handled late.

### The run

`pair_restarts`: at most three processes of an id and four of both, one fault,
one stop of end 2.

| property | shows |
|---|---|
| `SlotFollowsRegistry` | a running node that took its last update has in its slot what its daemon's registry says |
| `OnlyLinkedEnds` | an instance that was stopped and started anew unlinked inherits no pair, however late its peer asks |
| `ReportedPairStays` | a pair a process was told of is not cleared by a request of an earlier process |
| `AgreeAfterRestart` | after a lone restart without a fault both daemons hold the pair or neither does, whatever half of it was left before |
| `NoMutualWait` | two restarts never wait for each other's daemon with the lock the other needs |

Four processes are a restart of both ends, or two of one: the second restart is
what repairs the half pair of the first. The instance with one process more
(5.0 million states) was checked outside the runs. The processes are bounded, so
the deadlock check is off.

Assumptions taken from the code's durations, each stated at its guard: a waiter
of `op_lock` is served in order (a tokio mutex is fair), so a teardown that came
first goes before the restart; and the answer to a stop is read before the id is
started anew (`StopAnswered`). The second one matters: without it a late notice
of the old instance unpins the new one, and `SlotFollowsRegistry` fails. It is
also all that is needed: the proof showed that the order of the other answers,
which an earlier form of `StartFirst` fixed too, follows from it. An update whose
answer timed out may be applied later (`run.rs`, 2057); the node then disagrees
until its next update, and `told` exempts it. Two ends that restart at the same
time, one of whose answers is not delivered, leave a half pair: the code's
comment accepts that, and `AgreeAfterRestart` says what the next restart mends.
End 2 is the one that may be stopped: when the instance that links the two is
stopped and started anew, `AgreeAfterRestart` does not hold (section 10).

## 8. Presence

### State and actions

`DaemonPresence` composes the daemons that boot under one name with the node of
one of them.

| variables | code |
|---|---|
| `phase`, `before`, `settled`, `blind` | `claim_name`: candidate, reads, settle window, declared, up, or refused |
| `trail`, `applied`, `offline` | the tokens each process held and how much of it each router was told (external) |
| `alarmed` | `watch_for_duplicate_name` |
| `node`, `ownLive`, `told`, `reports`, `beats`, `missed` | `watch_own_daemon`: its belief about its own daemon's token, reports and beats that are unread |
| `faults` | the faults that void the election's premises |
| `hasty` | history: the daemons that booted without a settle window while their router had not heard of another such daemon |

The constant `Federated` has the daemons whose own managed router has configured
`connect` links; only they hold their claim open for the settle window
(`daemon-internal/src/builder.rs`, 308-317). Another daemon goes by what its router
lists, even when other routers dial it.

A router learns another's tokens in order and late; a process that dies takes
its tokens with it late; a session drops and comes back; a read lists
everything, is visibly degraded (it misses the reader's own token), or, as a
fault, silently misses a token.

### The run

`presence_claims`: two daemons on two routers, one that dials and is `Federated`,
one that is only dialled and has no window, a node of the first, two faults,
fair.

| property | shows |
|---|---|
| `OneOwner` | under the premises of the election (`Clean`: no fault, nobody hasty) no two daemons hold the name, in whatever order they boot and die, and no alarm is false |
| `NodeKept` | the beats of a second daemon do not end a node whose own daemon runs and is connected, unless a read missed its token |
| `ClaimsEnd` | open claims end, and daemons that boot together do not all refuse each other |
| `CollisionReported` | two owners, after a fault, both raise the alarm |
| `OrphanCleared` | the node of a dead daemon is ended by the beats of its successor |

The election compares pairs of candidates, and the theorem of section 9 covers
any number of them on any routers. Of the pairs, one with a window and one without
is the instance of the run, and `hasty` stays empty in it; two daemons without a
window on two routers (`Federated = {}`) are in section 10. Daemons may stop for
good, so the deadlock check is off.

Fairness: time passes (windows end, links and dead tokens flush, sessions come
back), a claim is not degraded in every read, the owner's watch, the node's loop
and its presence reports run, and a beat of a running daemon arrives. A node's
silence has none, so `OrphanCleared` does not lean on the grace period. That
links flush within the settle window, in both directions (`Flushed`: the claim has
been told of what it waits for, and its own candidacy is known at every router), is
the premise `presence.rs` states for the window's length; a link that is slower is
a fault. Merged reports are modelled by their latest; the alarm's cooldown is left
out.

## 9. The theorems

They hold for every value of the constants that the named assumptions allow:
any number of goals, senders, polls, cancels, clients, robots, messages,
daemons, routers and processes, and every subset of the faults, unless a theorem
says otherwise. The assumptions give the constants the types their comments name
and are evaluated by TLC in the runs: `ActionEngineAssumptions` and
`NoGoalAssumption` (the mark of an empty owner is no goal), `ClientAssumption`,
`LifecycleAssumption`, `FleetAssumption`, `PairAssumption`, `IdsAssumption` (process ids are numbers,
finitely many) and `PlacesAssumption`.

Every inductive invariant below was an invariant of a TLC run before it was
proved. Each proof has one step per action and, under it, one per conjunct the
action can disturb; actions that leave the variables of an invariant alone are
dispatched by frame lemmas; the last step of a theorem combines the initial and
the inductive step by propositional temporal logic.

### The action engine

| theorem | statement | from |
|---|---|---|
| `TypeCorrect` | `[]TypeOK` | inductive as it stands |
| `PollsNotOrphaned`, `CancelsNotOrphaned` | `[]NoOrphanPoll`, `[]NoOrphanCancel` | `EarlyInv` |
| `FirstEndAlwaysWins` | `FirstEndWins` | `EndInv` |
| `CancelRepliesTrue`, `OnlyTheOwnerCancels` | `[]CancelReplyTrue`, `[]OnlyOwnerCancels` | `CancelInv` |
| `DroppedGoalsEnd` | `[]DroppedGoalEnds`, if `deliver_dropped` is no fault | `LifeInv` |
| `NoWakeupLost` | `[]NoLostWakeup` | `HomeInv` |
| `EngineImplementsPromise` | `PromiseKept`: the engine implements `GoalPromise` | all of these and `AgeInv` |
| `LiveGoalsWatched` | `[]LiveGoalWatched`, if `watch_fails` is no fault | `SenderInv` |
| `SignalReachesLinks` | `[]SignalledReachedLinksOrRaces` | `LinkInv` |
| `NoDeathFabricated` | `[]NoFabricatedDeath` (which excepts `router_bounce`) | `DeathInv` |

* `NoOrphanPoll` is not inductive. The result loop takes the `pending_waiters`
  lock, looks once more for the slot and parks the poll a step later; a state in
  which it holds the lock for a poll whose goal already has a slot would break
  the invariant by one step. `EarlyInv` adds `LockedPollEarly`: while the lock is
  held for a poll, its goal has no slot. Accept registers under the same lock,
  so it holds, and that lock is the reason no poll is lost.
* `FirstEndWins` says that an outcome never changes and the stream is closed at
  most once. `EndInv` ties what each ender has done to the flag it swapped: at
  most one ender of a goal is past its swap, the flag is set when one is, and an
  outcome or a closed stream implies the flag.
* `CancelReplyTrue` needs that the tombstoned and the evicted goals are
  terminal, since the cancel loop answers from either, and that a goal the loop
  found terminal stays so: `CancelInv`, over `EndInv`.
* `LifeInv` follows a slot from its registration: no call ends a goal that no
  context serves, the slot is terminal exactly when it shows an outcome, and a
  set flag means a call that is still ending the goal or a closed stream. The
  last part is what `deliver_dropped` breaks (section 10).
* `HomeInv` gives each poll one home: the wire, the result loop,
  `pending_waiters`, the local of accept, the waiters of a slot that is not
  terminal, or the list that the winner of the end drains. A poll that is not
  answered is in exactly one of them, so none is forgotten and none is answered
  twice.
* The refinement maps each step of the engine to the step of `GoalPromise` that
  the client sees, or to none. What it needs of the invariants is that an
  outcome is written once and before the stream closes (`EndInv`, `LifeInv`), that
  a poll is answered from where it is (`HomeInv`), and that a tombstone stands
  only for a goal whose retention has passed (`AgeInv`).
* `SenderInv` says of the watches that a task guards the entry it owns, that a
  goal which did not end keeps its slot, and that a live goal is in the entry of
  its sender beside a task, or in the hands of a task that signals it. A goal
  admitted while the idle watch of its sender is being ended is the case that
  needs all three. `LinkInv` follows a linked token: it is still linked, or in the
  hands of the cancel loop or of a watch, or cancelled. `DeathInv` says that the
  tasks past their sentence are of dead senders.

### The goal client and its followers

| theorem | statement |
|---|---|
| `FollowTypeCorrect` | `[]FollowTypeOK` |
| `NoGapIsSilent` | `[]NoSilentGap` |
| `FollowedGoalsKept` | `[]KeepsFollowedGoal` |

One inductive invariant, `FollowInv`. The part behind `NoSilentGap` counts: as
long as the sink is open, what was read, what is in the buffer and what is on
the wire are all the messages that were published, in their order, and the end
comes after all of them (`WireFull`, `QueueInv`). An overflow leaves this state for
good, and the reader then ends with the overflow, not with the end of the
stream. `KeepInv` gives every cancel of the client's own its reason: a call that
failed, an overflow that was raised, or a bridge that let a goal go whose end it
had not read.

### The instance lifecycle

| theorem | statement |
|---|---|
| `LifecycleTypeCorrect` | `[]TypeOK` |
| `ProcessesHeld` | `[]NoOtherOrphan` |
| `OneProcessRuns` | `[]OneProcess` |
| `StoppedInstancesStay` | `[]StoppedStaysStopped` |
| `ClaimsOwned` | `[]ClaimHasOwner` |
| `MarksNotInherited` | `[]NothingInherited` |
| `ResetsEndProcesses` | `ResetEndsAll` |

All hold of every behaviour of the specification, for any number of lives, goals,
stops, removals, overwrites and resets that meet in any order; none has a
hypothesis on the constants or on the steps beyond `LifecycleAssumption`. What the
code loses is in the statements, by name (section 5): the processes in `lost`, the
claim of a cancelled `node_add`, and everything after `crossed`.

The inductive invariant, `LifecycleInv`, has the types and, as long as no panic was
`crossed`, the parts below. Its core is `HeldInv`: a process that is alive is the
one the slot has, or is in `lost`. `NoOtherOrphan` and `OneProcess` follow at once;
what takes the other parts is that no step loses it.

* `SlotInv`, `LifeInv`: what a slot says of its process, and that a life forks once,
  is committed once and is watched to its end.
* `StartInv`: a start between its registration and its commit has the slot alone
  and its pid is on it from the fork on, so an undo or a drop hits its own process.
  That two restart tasks may serve one slot does no harm to it: only the one that
  takes the slot over gets that far.
* `StopInv`: a stop that claimed a slot finds the process it claimed on it or the
  slot gone, and when it comes to remove, the process is dead. What was answered
  as stopped was claimed, hence no first start or task brings it back.
* `RemoveInv`, `OwnerInv`: a removal that met another path's claim may go on without
  a kill, which is sound because a claimed slot has an owner that kills before it
  clears, or a start that has no process yet and finds the claim. A reset or the
  cancel of a `node_add` drops the owner: `ClaimerDropped` is exactly when a process
  may be left.
* `OverInv`: an overwrite claims in any state and removes by id. If it finds the
  slot it claimed, that keeps its process or has none, and a start it claimed is
  still preparing; if it finds another, that one's process goes to `lost`.
* `ResetInv`: under the write guard nothing starts, and the slot keeps the process
  the teardown collected or none.
* `NoteInv`: a starting or restarting slot has no notes, and a removal's note is of
  the process it collected.

The 29 actions of a life come down to the effects of `LifeDoes`, and what the 28
of a stop, a removal, an overwrite and a reset do to the lives to `RequestDoes`;
each part is shown to survive the effects.

### Leases and the halt

| theorem | statement | from |
|---|---|---|
| `FleetTypeCorrect` | `[]TypeOK` | inductive as it stands |
| `LeasesAlwaysHeld`, `HoldersToldTruth` | `[]LeasesHaveHolders`, `[]EventsTellAll` | `BookInv` |
| `AnsweredHaltKept` | `[]AnsweredHaltHolds` | `HaltInv` |
| `HoldersHaveGoals` | `HolderHasGoal` | `GoalInv` |
| `RemovalsKeepTakersOut` | `NoTakeDuringRemoval` | `HoldInv` |

`BookInv` is about one robot at a time: who its lease is of, and what each client
was told about it. The end of a holder changes every robot at once and is proved
per robot; this is what the run's single robot leaves open. `HaltInv` adds that a
promised halt is on disk too, since a crash keeps only that. `HoldInv` says that one
change works on the stack at a time, and that the robot of a removal is held
unless the removal is in `lifted`; any number of changes may be under way.

### Pairs

| theorem | statement |
|---|---|
| `PairTypeCorrect` | `[]TypeOK` |
| `SlotsFollow` | `[]SlotFollowsRegistry` |
| `OnlyLinkedPaired` | `[]OnlyLinkedEnds` |
| `ReportedPairsStay` | `[]ReportedPairStays` |
| `MutualWaitExcluded` | `[]NoMutualWait` |
| `HalvesKept` | `[](Halves /\ Refusals)`, if `1 \notin Stoppable` |
| `EndsAgree` | `[]AgreeAfterRestart`, if `1 \notin Stoppable` |

The first five rest on one inductive invariant, `PairInv`, which is the same
formula `EndInv` for each end: nothing has to be known about both ends at once. A request that arrives at
an end is judged there by what that end keeps, and this is why late and lost
requests do no harm. Its parts:

* `LockInv`: `op_lock` has one keeper, and a start that keeps it awaits its own
  node or, a first start only, the peer's daemon. Only daemon 1 has first starts
  that ask, hence `NoMutualWait`.
* `DownInv`: a teardown is of the last process, and until it is over no other is
  started; what waits for the lock does so with the process it began with.
* `FirstInv`, `ReserveInv`: while a first start is not over the slot keeps no pair,
  so no request of the peer and no restart is served beside it.
* `SeqInv`, `PinInv`: updates under way are of the running process, none is ahead of
  the daemon's sequence, and the awaited one carries what the operation that
  keeps the lock makes of the pair. With the sequence gate of the node this
  gives `SlotInv`, and `SlotFollowsRegistry`.
* `LinkInv`: everything that may still make the slot keep or show the pair belongs
  to a linked instance. `MadeInv`: while a reported pair stands nothing is under
  way that could clear it.

That the daemons come to agree is about both ends, and takes two more invariants
on top of `PairInv`:

* `HalfInv` says what half an end may be left with. The first start's request is the
  only one that is not for a held pair; once it is taken (`Taken`), an end whose
  slot does not keep the pair and that serves no request can never be made to keep
  it again: it gave the pair up (`Gave1`, `Gave2`). A half that a process has is
  kept for its restarts unless the other end gave the pair up (`Halves`), and a
  restart is refused only by an end that did (`Refusals`). So a half is never
  stranded: either a restart can complete it, or a restart learns that it is void.
* `Solo(d, o)` says how far a restart of `d` is that began when all was at rest and has
  met no fault since: the peer runs and starts nothing (`PeerIdle`), what is under
  way is of the last process of `d` and one of each kind (`OnlyOf`), its notice is
  answered before the process is started (`NoticeOf`), and at each stage of
  `pair_again` the request and the peer's registry are where the answer says
  (`RestartAt`, `Asked`). At its end the two registries are equal. `Halves` is needed
  where it begins: the half the peer holds then is one that it keeps, so that the
  request is accepted.

Both need that the instance on daemon 1, which links the two, is not stopped:
`1 \notin Stoppable`. End 2 may be stopped, at any time and any number of times.
The assumption was found to be necessary by TLC, before the proof (section 10).

### Presence

| theorem | statement |
|---|---|
| `PresenceTypeCorrect` | `[]TypeOK` |
| `ElectionIsUnique` | `[]OneOwner` |
| `NodesAreKept` | `NodeKept` |

Of two claims that are open at once one waits for the other, which is in its
`before`: the one declared later, or, when a daemon without a window could not have
heard of the other, that other one. A claim that settled has been told of
everything in its `before`, so it sees such a claim until that has ended, and cannot
stand alone. Hence whoever runs beside a process that stood alone has its claim open
and waits for it (`OpenInv`, `ChosenInv`), for any number of daemons, with or without
a window, and any placement on routers. `HeardInv` is what a daemon without a window
rests on: a federated daemon that settled is known at every router. The premises
are the ones of `Clean`: no link slower than the settle window, no read that
silently misses a token, no session that drops during the election, and no two
daemons without a window on two routers that boot within one flush of the links.

### Only model-checked

* Liveness and everything under fairness: `SenderGoneCancels`,
  `ParkedPollsLeave`, `LeftGoalCancelled`, `ReadsEnd`, `HaltCancelsMove`, `WaitsEnd`,
  `ClaimsEnd`, `CollisionReported`, `OrphanCleared`. They are out of this prover's
  reach.

No model has a recursive operator or needs induction over data.

## 10. What the models disagree with

`life_detached_run` is expected to end with a counterexample. `remove_config`
holds the entity's lock so that no start "can slip an instance in" between its
check and the unlink, and a start relies on its entity not being detached. A
`node_run` that looked the node up before the unlink and registers after it holds
a handle to an entity whose stage still says Ready: its process runs where no
stop, removal, reset or teardown finds it. The finding in `PROJECT.json` quotes
the lines.

Other races, which the models show with a change of a cfg:

| what the code does | how to see it |
|---|---|
| a `node_add` cancelled while it stops instances leaves a claim nobody acts on | `life_removes` with `ClaimHasOwner` without `Cancelled(slot.id)` |
| the overwrite removes a slot by id after its wait, when the id may have a new process (`lost`) | `life_removes` with `Stops <- OneStop`, `Removers <- NoRequests`, `MaxResets = 0` and `NoOrphan` |
| a removal that met the claim of a stop goes on without a kill; a reset drops the stop before its kill, and the removal takes the slot of a live process from the stack (`lost`) | `life_stop_remove` with the invariant `\A i \in Alive : slot.pid = i \/ i \in detached` |
| the future of `complete` dropped at an await, after the flag is set, leaves the goal without outcome or end of stream | `engine_results` with `"deliver_dropped"` among the faults: `DroppedGoalEnds` |
| an instance that links a pair is stopped, the notice of that goes unanswered, and its successor under the same id links the pair again; the peer's daemon then acts on the old notice, forgets the new pair for restarts (the notice names an instance id) and refuses the successor's restart while its own registry still has the pair | `pair_restarts` with `Stoppable = {1}`: `AgreeAfterRestart` |
| the hold of a removal (`action.rs`, 241-243: "no client takes the lease of the robot meanwhile") is not counted: the end of one removal lifts it from a robot that another removal works on (`lifted`) | `fleet_leases` with `RemovalRuns` without `x \notin lifted`: `NoTakeDuringRemoval` |
| two daemons whose own routers have no `connect` links, both dialled by a third, take their router for authoritative (`builder.rs`, 308-317) and both get the name when they boot within one flush of the links (`hasty`) | `presence_claims` with `Federated = {}` and the invariant `faults = 0 => Cardinality(Owners) <= 1` |
| a goal that moves a robot, let go by its waiter after its feedback was read, is still cancelled when its feedback overflows, though `bridges.rs` (679-682) says that it is not cancelled when the bridge stops following it | `goal_client` with the invariant `br = "unwaited" => own = "none"` |

And some that shaped a model or a property without a run:

* *at most one cancel* (`bridges.rs`, 662 and 756) holds of the bridge's own: the
  overflow's task of the handle may send another after it.
* `FollowedGoal::cancel` disarms the guard before its cancel is sent
  (`bridges.rs`, 834-838). A future dropped there, or a cancel that fails, leaves
  the goal without one, and a later halt does not cancel it. Hence
  `LeftGoalCancelled` and `HaltCancelsMove` except a cancel that missed
  (`ask = "missed"`).
* A halt that is set and cleared before the bridge looks is missed, because the
  watch channel keeps the latest view; and a client that does not take its
  feedback delays the halt's cancel, because a report is awaited. Hence
  `HaltCancelsMove` speaks of a halt that lasts and excepts a report that never
  ends.
* A `send_goal` whose future is dropped during admission, or that reported the
  provider unreachable and is handled late, sends no cancel.
* A poll routed between the eviction of its goal and the insertion of the
  tombstone (two critical sections of `sweep_once`) parks for its whole deadline.
* A cancel can be answered Signalled while a sender watch that signals the same
  goal holds the linked tokens it took and did not cancel yet: the exception of
  `SignalledReachedLinksOrRaces`.
* `mark_start_failed` (`entity.rs`, 1588) finds its slot by the id alone, so a
  failure reported late counts against whatever instance restarts under the id
  (`SettleStartFailed`). That instance then has two restart tasks of the same
  count. When the second one panics at its start, `end_abandoned_start` takes the
  start of the first for its own and undoes it, and the first forks a process that
  no slot has. It takes five lives, a stop and a panic, more than the runs have;
  `crossed` records it, and the properties of the lifecycle speak of behaviours in
  which it has not happened.

## 11. Limits

* Engine: one endpoint, and one linked token per goal in the runs; framing,
  metrics and logging are left out.
* Goal client: one goal. Its own cancel reaches a live provider unless the
  attempt fails; a probe of the provider tells the truth; `try_next_feedback`
  and the result mode's unread stream are left out. In the bridge the session of
  the server lasts, so a missing result has no other cause than an outcome that
  does not convert, and `follow_unwaited_goal` does not end on another error
  (`moves.rs`, 472-475 and 511: it then lets go of a goal that a halt no longer
  reaches); the check before a move, and the loop that follows the
  fleet's changes and gives the bridge its view, are the environment.
* Lifecycle: one id, one daemon. Not modelled: the daemon's shutdown (the
  teardown of every instance), the wait for reservations of other daemons, the
  pair deliveries (which `PairedEnds` has), the kill inside a container's guest,
  builds, and `max_restarts` without a limit. The replacement of a node's entity
  by `push_config` shows only as a start that fails before its spawn.
* Leases: two changes in the run; a process of a client begins one `lease` goal, at
  any time, also after a later process of it did; the revision and the followers of
  the listing, and the software state of a robot, are left out.
* Pairs: one pair between two daemons. Observation and binding slots, pairs
  within one daemon and the cancel of a start that a stop signals (a stop is one
  step here) are left out, and so is a daemon that restarts and counts its updates
  from a lower number; updates are tied to the process they were sent to.
* Presence: a node's own beats and grace period are one step that may happen
  whenever its daemon is silent; a presence report may be late and not be lost. A
  read and the look at the settle window are one step, while the code looks at
  `claimed_at.elapsed()` after a read that may have taken `LIST_TIMEOUT` (2 s of the
  window's 3 s): the deciding read may be of the window's first second, which is
  still ten times the flush of the links that `Flushed` presumes.

Not modelled, in short (the reasons are with the components of `PROJECT.json`):
federated admission, log export and MCP resources, which are in the plan; the
daemon process and router federation, whose state is mostly another process's;
`node_add`, builds, sync and the cache, which are files and external tools; and
the configuration model, parsers, generators, codecs, containers,
authentication, command line and bindings, which are pure or I/O and make up most
of the repository's lines. The models therefore cover the concurrent core and a
small share of the repository.

## 12. Plan

Modules: `ExportWorker` (each record is sent or counted once; a queue of two and
one retry), `ResourceGate` (no reader waits for a message that has passed), the
bridge's follow of the fleet composed with `FleetBook`, federated admission
(a driver that dies between the phases), and the daemon's shutdown over
`InstanceLifecycle`.

## 13. Running it

    tlc -workers 2 -config engine_results.cfg MCActionEngine
    tlapm ActionEngineProofs.tla

The table of section 2 says which module a run's cfg belongs to, and
`PROJECT.json` lists them all. Every passing run ends within about three minutes
on two cores. The modules named `...Proofs` hold the theorems; each is checked by
itself, the longest of them, `PairedEndsProofs`, in about fifteen minutes.
