--------------------------- MODULE InstanceLifecycle ---------------------------
(***************************************************************************)
(* The life of ONE instance id on one daemon: its slot in the node entity, *)
(* the processes started for it, and every task that acts on the slot:     *)
(* the node_run goal and the supervisor's restart task that start a        *)
(* process, the exit watcher and the health monitor of each process, the   *)
(* node_stop and node_remove requests, the node_add overwrite, and the     *)
(* stack reset.                                                            *)
(*                                                                         *)
(* A LIFE is one start: it forks at most one process, so its number also   *)
(* names that process's pid (pids are not reused), its exit watcher and    *)
(* its health monitor, and the number of a first start names the slot it   *)
(* registered (the Arc of its goal and its restart token).  An action is   *)
(* one critical section on the entity's lock, or what a task does between  *)
(* two awaits.  Durations are abstracted: a deadline, a backoff wait or a  *)
(* probe may end at any time.                                              *)
(***************************************************************************)
EXTENDS Naturals, FiniteSets

CONSTANTS
    MaxLives,     \* bound: the starts of a behaviour
    MaxRuns,      \* bound: the starts of a behaviour that are node_run goals
    Policies,     \* the restart policies a first start may name
    MaxRestarts,  \* max_restarts of the restart declaration
    RunLengths,   \* {"short"}, or with "long": a run past reset_after
    Stops,        \* node_stop requests
    Removers,     \* node_remove requests
    Overwriters,  \* node_add goals that overwrite the node
    MaxResets     \* bound: the stack resets of a behaviour

ASSUME LifecycleAssumption ==
    /\ MaxLives \in Nat \ {0}
    /\ MaxRuns \in Nat
    /\ Policies \subseteq {"never", "on_failure", "always"}
    /\ MaxRestarts \in Nat \ {0}
    /\ RunLengths \subseteq {"short", "long"}
    /\ IsFiniteSet(Removers)
    /\ MaxResets \in Nat

Lives == 1 .. MaxLives

VARIABLES
    slot,     \* the instance's entry in the entity's instances list
    claimed,  \* the slots (by first life) whose stopping flag is set
    run,      \* per life: where the task that starts its process is
    info,     \* per life: what that task holds
    proc,     \* per life: its process
    watch,    \* per life: its exit watcher
    mon,      \* per life: its health monitor
    stop,     \* per node_stop request
    rem,      \* per node_remove request
    over,     \* per node_add overwrite
    reset,    \* the stack reset
    epoch,    \* the stack's cancellation token: resets that replaced it
    detached, \* the node_run goals whose node left the stack since their look
    \* History, which no action reads:
    stopped,  \* slots a node_stop answered it stopped
    lost,     \* processes left behind by a path that took their slot away, or
              \* that never gave them one, without their kill
    crossed   \* whether a panic was taken for another start than its own

lifeVars == <<run, info, proc, watch, mon>>
history == <<stopped, lost, crossed>>
requestVars == <<stop, rem, over, reset, epoch, detached, history>>
vars == <<slot, claimed, run, info, proc, watch, mon, stop, rem, over,
          reset, epoch, detached, stopped, lost, crossed>>

States == {"vacant", "starting", "running", "restarting", "finished", "failed"}
RunPcs == {"unused", "waiting", "admitting", "inputs", "begin", "preparing",
           "forked", "ready", "committing", "giving_up", "delivering",
           "settle", "done"}
Outcomes == {"none", "start_failed", "refused", "cancelled", "gone"}

Slots == [id : 0 .. MaxLives, st : States, pid : 0 .. MaxLives,
          policy : Policies \cup {"never"}, attempt : 0 .. (MaxRestarts + 1),
          count : Nat, kill : BOOLEAN, notes : Nat]

\* No slot has the id.
NoSlot == [id |-> 0, st |-> "vacant", pid |-> 0, policy |-> "never",
           attempt |-> 0, count |-> 0, kill |-> FALSE, notes |-> 0]

\* What the task of a life holds: its restart token is that of slot `slot`, its
\* start is named by the first goal of slot `goal` and the restarts `count`, and
\* it began on slot `home` (0: not yet).
Infos == [kind : {"new", "respawn"}, slot : 0 .. MaxLives,
          goal : 0 .. MaxLives, home : 0 .. MaxLives,
          epoch : 0 .. MaxResets, count : Nat, outcome : Outcomes]

(***************************************************************************)
(* What the code reads of a slot (TrackedNodeInstance).                    *)
(***************************************************************************)

IsStopping == slot.id \in claimed

AwaitsRestart == slot.st = "restarting" /\ ~IsStopping

RunsUnclaimed == slot.st = "running" /\ ~IsStopping

RunsProcess(pid) == slot.st = "running" /\ slot.pid = pid

StartsARestart == slot.st = "starting" /\ slot.attempt > 0

\* The start in flight under the slot is the one life i made.
StartsFor(i) ==
    /\ slot.st = "starting"
    /\ slot.id = info[i].goal
    /\ IF info[i].kind = "new" THEN ~StartsARestart
       ELSE StartsARestart /\ slot.count = info[i].count

AwaitsRestartOf(i) ==
    /\ info[i].kind = "respawn"
    /\ AwaitsRestart
    /\ slot.id = info[i].goal
    /\ slot.count = info[i].count

Alive == {i \in Lives : proc[i] = "alive"}

RestartsAfter(policy, failed) ==
    policy = "always" \/ (policy = "on_failure" /\ failed)

(***************************************************************************)
(* Who holds the stack.  A node goal, a node request and an admitted       *)
(* restart hold the read guard of the mutation lock through completion; a  *)
(* reset queues for the write guard, and no read is admitted behind it.    *)
(***************************************************************************)

HoldingPcs == {"inputs", "begin", "preparing", "forked", "ready",
               "committing", "giving_up", "delivering"}

DrainedOfRestarts ==
    /\ \A i \in Lives : run[i] \in {"unused", "done"}
    /\ \A s \in Stops : stop[s].pc \in {"idle", "done"}
    /\ \A r \in Removers : rem[r].pc \in {"idle", "standing", "done"}
    /\ \A o \in Overwriters : over[o].pc \in {"idle", "cancelled", "done"}

Drained ==
    /\ \A i \in Lives : run[i] \notin HoldingPcs
    /\ \A s \in Stops : stop[s].pc \in {"idle", "done"}
    /\ \A r \in Removers : rem[r].pc \in {"idle", "standing", "done"}
    /\ \A o \in Overwriters : over[o].pc \in {"idle", "cancelled", "done"}

CanRead == reset.pc = "idle"

\* The cancellation token of epoch e: begin_reset cancels the current one and
\* puts a new one in its place once it has the write guard.
ResetCancelled(e) == e < epoch \/ reset.pc = "draining"

\* hold_restarts: a removal in progress holds restarts off.
RestartsHeld ==
    \E r \in Removers : rem[r].pc \notin {"idle", "standing", "done"}

\* The token a start races: a reset cancels any, the slot's claim a respawn's.
StartCancelled(i) ==
    \/ ResetCancelled(info[i].epoch)
    \/ info[i].kind = "respawn" /\ info[i].slot \in claimed

Fresh(i) == run[i] = "unused" /\ \A j \in 1 .. (i - 1) : run[j] # "unused"

Init ==
    /\ slot = NoSlot
    /\ claimed = {}
    /\ run = [i \in Lives |-> "unused"]
    /\ info = [i \in Lives |-> [kind |-> "new", slot |-> 0, goal |-> 0,
                                home |-> 0, epoch |-> 0, count |-> 0,
                                outcome |-> "none"]]
    /\ proc = [i \in Lives |-> "none"]
    /\ watch = [i \in Lives |-> "off"]
    /\ mon = [i \in Lives |-> "off"]
    /\ stop = [s \in Stops |-> [pc |-> "idle", st |-> "vacant", pid |-> 0,
                                target |-> 0]]
    /\ rem = [r \in Removers |-> [pc |-> "idle", st |-> "vacant", pid |-> 0,
                                  noted |-> 0, claim |-> FALSE]]
    /\ over = [o \in Overwriters |-> [pc |-> "idle", pid |-> 0,
                                     target |-> 0]]
    /\ reset = [pc |-> "idle", pid |-> 0]
    /\ epoch = 0
    /\ detached = {}
    /\ stopped = {}
    /\ lost = {}
    /\ crossed = FALSE

(***************************************************************************)
(* Mutations of the slot shared by several actions.                        *)
(***************************************************************************)

\* undo_start: a respawn's slot waits again, unless a stop path claimed it;
\* any other starting slot is removed.  Its form forgets the claim.
UndoStartIgnoringClaim ==
    IF slot.st # "starting" THEN slot
    ELSE IF StartsARestart THEN [slot EXCEPT !.st = "restarting", !.pid = 0]
    ELSE NoSlot

UndoStart ==
    IF slot.st # "starting" THEN slot
    ELSE IF StartsARestart /\ ~IsStopping
         THEN [slot EXCEPT !.st = "restarting", !.pid = 0]
    ELSE NoSlot

\* Supervision::advance_backoff and take_next_attempt: the attempt past
\* max_restarts fails the slot.
TakeNextAttempt(sl, length) ==
    LET attempt == IF length = "long" THEN 1 ELSE sl.attempt + 1
    IN  [sl EXCEPT !.attempt = attempt,
                   !.st = IF attempt > MaxRestarts THEN "failed"
                          ELSE "restarting"]

\* record_exit: the health monitor's kill is taken and makes the exit a
\* failure, the pid is cleared, and the policy has its say unless a removal
\* stops the process.
RecordExitKeepsKill(cause, length) ==
    LET failed == slot.kill \/ cause = "failed"
        again  == RestartsAfter(slot.policy, failed) /\ slot.notes = 0
        gone   == [slot EXCEPT !.pid = 0,
                       !.attempt = IF slot.notes > 0 THEN 0 ELSE @]
    IN  IF again THEN TakeNextAttempt(gone, length)
        ELSE [gone EXCEPT !.st = IF failed THEN "failed" ELSE "finished"]

RecordExit(cause, length) ==
    LET failed == slot.kill \/ cause = "failed"
        again  == RestartsAfter(slot.policy, failed) /\ slot.notes = 0
        gone   == [slot EXCEPT !.pid = 0, !.kill = FALSE,
                       !.attempt = IF slot.notes > 0 THEN 0 ELSE @]
    IN  IF again THEN TakeNextAttempt(gone, length)
        ELSE [gone EXCEPT !.st = IF failed THEN "failed" ELSE "finished"]

\* spawn_next_attempt: the restart task of the slot, in a life of its own.
SpawnRestartTask(i, id) ==
    /\ run[i] = "unused"
    /\ run' = [run EXCEPT ![i] = "waiting"]
    /\ info' = [info EXCEPT ![i] = [kind |-> "respawn", slot |-> id,
                                    goal |-> 0, home |-> 0,
                                    epoch |-> epoch, count |-> 0,
                                    outcome |-> "none"]]

Kill(p, pid) == IF pid \in Lives /\ p[pid] = "alive"
                THEN [p EXCEPT ![pid] = "failed"] ELSE p

(***************************************************************************)
(* The node_run goal: one at a time (its ConcurrencyGate).                 *)
(***************************************************************************)

RunAdmit(i) ==
    /\ Fresh(i)
    /\ Cardinality({j \in Lives : run[j] # "unused" /\ info[j].kind = "new"})
           < MaxRuns
    /\ CanRead
    /\ \A j \in Lives : ~(info[j].kind = "new" /\ run[j] \in HoldingPcs)
    /\ run' = [run EXCEPT ![i] = "begin"]
    /\ info' = [info EXCEPT ![i] = [kind |-> "new", slot |-> i,
                                    goal |-> i, home |-> i,
                                    epoch |-> epoch, count |-> 0,
                                    outcome |-> "none"]]
    /\ UNCHANGED <<slot, claimed, proc, watch, mon, requestVars>>

(***************************************************************************)
(* The supervisor's restart task.                                          *)
(***************************************************************************)

\* The wait of restart_task runs out.
RestartDue(i) ==
    /\ run[i] = "waiting"
    /\ run' = [run EXCEPT ![i] = "admitting"]
    /\ UNCHANGED <<slot, claimed, info, proc, watch, mon, requestVars>>

\* A reset or the slot's claim ends the wait; the claim ends the admission.
RestartEnds(i) ==
    /\ \/ run[i] = "waiting" /\ StartCancelled(i)
       \/ run[i] = "admitting" /\ info[i].slot \in claimed
    /\ run' = [run EXCEPT ![i] = "done"]
    /\ UNCHANGED <<slot, claimed, info, proc, watch, mon, requestVars>>

\* admit_restart: once no reset holds the stack and no removal holds restarts.
AdmitRestart(i) ==
    /\ run[i] = "admitting"
    /\ CanRead
    /\ ~RestartsHeld
    /\ run' = [run EXCEPT ![i] = "inputs"]
    /\ UNCHANGED <<slot, claimed, info, proc, watch, mon, requestVars>>

\* respawn_inputs_of, after the look at the reset that may have run meanwhile.
ReadInputs(i) ==
    /\ run[i] = "inputs"
    /\ IF ResetCancelled(info[i].epoch) \/ ~AwaitsRestart
       THEN run' = [run EXCEPT ![i] = "done"] /\ UNCHANGED info
       ELSE /\ run' = [run EXCEPT ![i] = "begin"]
            /\ info' = [info EXCEPT ![i].goal = slot.id,
                                    ![i].count = slot.count]
    /\ UNCHANGED <<slot, claimed, proc, watch, mon, requestVars>>

(***************************************************************************)
(* process_node_run: the start itself, of both kinds.                      *)
(***************************************************************************)

\* The start ends with an outcome: a respawn's is the supervisor's to act on.
EndStart(i, outcome) ==
    /\ run' = [run EXCEPT ![i] = IF info[i].kind = "new" THEN "done"
                                 ELSE "settle"]
    /\ info' = [info EXCEPT ![i].outcome = outcome]

\* The start is refused, fails or is cancelled before it touches the slot.
EndBeforeSpawn(i) ==
    /\ run[i] = "begin"
    /\ \/ \E outcome \in {"refused", "start_failed"} : EndStart(i, outcome)
       \/ StartCancelled(i) /\ EndStart(i, "cancelled")
    /\ UNCHANGED <<slot, claimed, proc, watch, mon, requestVars>>

\* prepare_and_spawn, phase 1.  The look at the cancel token and the write
\* lock are one stretch of code: a claim may fall between them, the life of
\* another instance under the id does not.
RegisterNew(i) ==
    /\ run[i] = "begin"
    /\ info[i].kind = "new"
    /\ i \notin detached
    /\ IF slot.st = "vacant"
       THEN /\ \E policy \in Policies :
                   slot' = [NoSlot EXCEPT !.id = i, !.st = "starting",
                                          !.policy = policy]
            /\ run' = [run EXCEPT ![i] = "preparing"]
            /\ UNCHANGED info
       ELSE EndStart(i, "start_failed") /\ UNCHANGED slot
    /\ UNCHANGED <<claimed, proc, watch, mon, requestVars>>

\* The handle of a node that left the stack is still Ready: the start
\* registers, forks and commits there, on a slot that no stop path, removal,
\* reset or monitor reads, so only its process is kept of it.
RegisterDetached(i) ==
    /\ run[i] = "begin"
    /\ info[i].kind = "new"
    /\ i \in detached
    /\ proc' = [proc EXCEPT ![i] = "alive"]
    /\ run' = [run EXCEPT ![i] = "done"]
    /\ lost' = lost \cup {i}
    /\ UNCHANGED <<slot, claimed, info, watch, mon, stop, rem, over, reset,
                   epoch, detached, stopped, crossed>>

BeginRespawn(i) ==
    /\ run[i] = "begin"
    /\ info[i].kind = "respawn"
    /\ StartCancelled(i) => slot.id \in {0, info[i].slot}
    /\ IF AwaitsRestart
       THEN /\ slot' = [slot EXCEPT !.st = "starting", !.pid = 0]
            /\ run' = [run EXCEPT ![i] = "preparing"]
            /\ info' = [info EXCEPT ![i].home = slot.id]
       ELSE EndStart(i, "gone") /\ UNCHANGED slot
    /\ UNCHANGED <<claimed, proc, watch, mon, requestVars>>

\* An I/O step of the spawn fails.  Its form reports a slot that is gone.
PrepareFailsGone(i) ==
    /\ run[i] = "preparing"
    /\ slot' = UndoStart
    /\ EndStart(i, "gone")
    /\ UNCHANGED <<claimed, proc, watch, mon, requestVars>>

PrepareFails(i) ==
    /\ run[i] = "preparing"
    /\ slot' = UndoStart
    /\ EndStart(i, "start_failed")
    /\ UNCHANGED <<claimed, proc, watch, mon, requestVars>>

\* Phase 3b: the look for a claim, the fork and the record of the pid are one
\* critical section.  Its form leaves the record to the commit.
ForkUnrecorded(i) ==
    /\ run[i] = "preparing"
    /\ IF IsStopping
       THEN /\ slot' = UndoStart
            /\ EndStart(i, "gone")
            /\ UNCHANGED proc
       ELSE /\ proc' = [proc EXCEPT ![i] = "alive"]
            /\ run' = [run EXCEPT ![i] = "forked"]
            /\ UNCHANGED <<slot, info>>
    /\ UNCHANGED <<claimed, watch, mon, requestVars>>

Fork(i) ==
    /\ run[i] = "preparing"
    /\ IF IsStopping
       THEN /\ slot' = UndoStart
            /\ EndStart(i, "gone")
            /\ UNCHANGED proc
       ELSE /\ proc' = [proc EXCEPT ![i] = "alive"]
            /\ slot' = IF slot.st = "starting" THEN [slot EXCEPT !.pid = i]
                       ELSE slot
            /\ run' = [run EXCEPT ![i] = "forked"]
            /\ UNCHANGED info
    /\ UNCHANGED <<claimed, watch, mon, requestVars>>

\* The process answers the ready signal.
Ready(i) ==
    /\ run[i] = "forked"
    /\ proc[i] = "alive"
    /\ run' = [run EXCEPT ![i] = "ready"]
    /\ UNCHANGED <<slot, claimed, info, proc, watch, mon, requestVars>>

\* A pair cannot be reserved, a probe times out, the leader exits, or the
\* token is cancelled: the start is given up.
GiveUp(i) ==
    /\ run[i] \in {"forked", "ready"}
    /\ run' = [run EXCEPT ![i] = "giving_up"]
    /\ \/ info' = [info EXCEPT ![i].outcome = "start_failed"]
       \/ /\ StartCancelled(i)
          /\ info' = [info EXCEPT ![i].outcome = "cancelled"]
    /\ UNCHANGED <<slot, claimed, proc, watch, mon, requestVars>>

\* abort_started: the group is killed and reaped, then the slot undone.
AbortWithoutKill(i) ==
    /\ run[i] = "giving_up"
    /\ slot' = UndoStart
    /\ EndStart(i, info[i].outcome)
    /\ UNCHANGED <<claimed, proc, watch, mon, requestVars>>

AbortStarted(i) ==
    /\ run[i] = "giving_up"
    /\ proc' = Kill(proc, i)
    /\ slot' = UndoStart
    /\ EndStart(i, info[i].outcome)
    /\ UNCHANGED <<claimed, watch, mon, requestVars>>

\* The setup passed and the last look finds the start uncancelled.
PassSetup(i) ==
    /\ run[i] = "ready"
    /\ ~StartCancelled(i)
    /\ run' = [run EXCEPT ![i] = "committing"]
    /\ UNCHANGED <<slot, claimed, info, proc, watch, mon, requestVars>>

\* commit_started: Starting -> Running, and the watchers of the process.
CommitStarted(i) ==
    /\ run[i] = "committing"
    /\ IF slot.st = "starting"
       THEN /\ slot' = [slot EXCEPT !.st = "running",
                            !.count = IF slot.attempt > 0 THEN @ + 1 ELSE @]
            /\ watch' = [watch EXCEPT ![i] = "waiting"]
            /\ mon' = [mon EXCEPT ![i] = "probing"]
            /\ run' = [run EXCEPT ![i] = "delivering"]
            /\ UNCHANGED <<info, proc>>
       ELSE /\ proc' = Kill(proc, i)
            /\ EndStart(i, "start_failed")
            /\ UNCHANGED <<slot, watch, mon>>
    /\ UNCHANGED <<claimed, requestVars>>

\* What follows the commit (announcements, held pairs, pair deliveries) ends.
Delivered(i) ==
    /\ run[i] = "delivering"
    /\ run' = [run EXCEPT ![i] = "done"]
    /\ UNCHANGED <<slot, claimed, info, proc, watch, mon, requestVars>>

\* run_node catches a panic before the commit: end_abandoned_start kills the
\* group of the start in flight and undoes it.  The first goal and the restart
\* count name that start, not the task: a panic before the task's own start may
\* be taken for the start of another restart task of the instance, and a start
\* begun at a later count for none.
RunPanics(i) ==
    /\ run[i] \in {"begin", "preparing", "forked", "ready", "giving_up",
                  "committing"}
    /\ IF StartsFor(i)
       THEN proc' = Kill(proc, slot.pid) /\ slot' = UndoStart
       ELSE UNCHANGED <<proc, slot>>
    /\ EndStart(i, IF StartsFor(i) \/ AwaitsRestartOf(i) THEN "start_failed"
                   ELSE "gone")
    /\ crossed' = (crossed \/ StartsFor(i) # (run[i] # "begin"))
    /\ UNCHANGED <<claimed, watch, mon, stop, rem, over, reset, epoch,
                   detached, stopped, lost>>

\* finish_on_reset: the budget of a cancelled start runs out and its future
\* is dropped where it is, its child neither killed nor reaped.
RunDropped(i) ==
    /\ reset.pc = "draining"
    /\ run[i] \in HoldingPcs \ {"inputs"}
    /\ run' = [run EXCEPT ![i] = "done"]
    /\ UNCHANGED <<slot, claimed, info, proc, watch, mon, requestVars>>

\* The supervisor acts on the outcome: a failed start takes the backoff's
\* next attempt (mark_start_failed), any other schedules nothing.
SettleStartFailed(i, j) ==
    /\ run[i] = "settle"
    /\ info[i].outcome = "start_failed"
    /\ AwaitsRestart
    /\ slot' = TakeNextAttempt(slot, "short")
    /\ IF slot'.st = "restarting"
       THEN /\ Fresh(j)
            /\ run' = [run EXCEPT ![i] = "done", ![j] = "waiting"]
            /\ info' = [info EXCEPT ![j] = [kind |-> "respawn",
                            slot |-> slot.id, goal |-> 0, home |-> 0,
                            epoch |-> epoch, count |-> 0,
                            outcome |-> "none"]]
       ELSE /\ j = i
            /\ run' = [run EXCEPT ![i] = "done"]
            /\ UNCHANGED info
    /\ UNCHANGED <<claimed, proc, watch, mon, requestVars>>

\* A refusal ends the restarts (mark_restart_refused).
SettleRefused(i) ==
    /\ run[i] = "settle"
    /\ info[i].outcome = "refused"
    /\ AwaitsRestart
    /\ slot' = [slot EXCEPT !.st = "failed"]
    /\ run' = [run EXCEPT ![i] = "done"]
    /\ UNCHANGED <<claimed, info, proc, watch, mon, requestVars>>

SettleNothing(i) ==
    /\ run[i] = "settle"
    /\ info[i].outcome \notin {"start_failed", "refused"} \/ ~AwaitsRestart
    /\ run' = [run EXCEPT ![i] = "done"]
    /\ UNCHANGED <<slot, claimed, info, proc, watch, mon, requestVars>>

(***************************************************************************)
(* A process, its exit watcher and its health monitor.                     *)
(***************************************************************************)

\* External: the process ends by itself, of a signal or of a request.
ProcExits(i) ==
    /\ proc[i] = "alive"
    /\ \E cause \in {"clean", "failed"} : proc' = [proc EXCEPT ![i] = cause]
    /\ UNCHANGED <<slot, claimed, run, info, watch, mon, requestVars>>

\* child.wait() returns: instance_done is cancelled and the group killed.  Its
\* form takes the signal of a health kill for the exit.
WatcherTakesSignalForExit(i) ==
    /\ watch[i] = "waiting"
    /\ proc[i] \in {"clean", "failed"} \/ mon[i] = "armed"
    /\ watch' = [watch EXCEPT ![i] = "exited"]
    /\ UNCHANGED <<slot, claimed, run, info, proc, mon, requestVars>>

WatcherSees(i) ==
    /\ watch[i] = "waiting"
    /\ proc[i] \in {"clean", "failed"}
    /\ watch' = [watch EXCEPT ![i] = "exited"]
    /\ UNCHANGED <<slot, claimed, run, info, proc, mon, requestVars>>

\* mark_instance_exited: only a slot that runs this process unclaimed.
MarkInstanceExited(i) ==
    /\ watch[i] = "exited"
    /\ IF RunsProcess(i) /\ ~IsStopping
       THEN \E length \in RunLengths : slot' = RecordExit(proc[i], length)
       ELSE UNCHANGED slot
    /\ watch' = [watch EXCEPT ![i] =
                   IF RunsProcess(i) /\ ~IsStopping /\ slot'.st = "restarting"
                   THEN "announcing" ELSE "done"]
    /\ UNCHANGED <<claimed, run, info, proc, mon, requestVars>>

\* The exit is announced; then spawn_next_attempt, unless a claim came.
SpawnNextAttempt(i, j) ==
    /\ watch[i] = "announcing"
    /\ watch' = [watch EXCEPT ![i] = "done"]
    /\ IF info[i].home \in claimed
       THEN j = i /\ UNCHANGED <<run, info>>
       ELSE Fresh(j) /\ SpawnRestartTask(j, info[i].home)
    /\ UNCHANGED <<slot, claimed, proc, mon, requestVars>>

\* The process answered no check for kill_after, and no messaging outage is
\* under way: arm_health_kill, then SIGTERM.  The monitor looks at
\* instance_done just before, so it acts while its process is the slot's.
MonitorArms(i) ==
    /\ mon[i] = "probing"
    /\ watch[i] = "waiting"
    /\ RunsProcess(i)
    /\ RestartsAfter(slot.policy, TRUE)
    /\ IF RunsUnclaimed
       THEN /\ slot' = [slot EXCEPT !.kill = TRUE]
            /\ mon' = [mon EXCEPT ![i] = "armed"]
       ELSE /\ mon' = [mon EXCEPT ![i] = "done"]
            /\ UNCHANGED slot
    /\ UNCHANGED <<claimed, run, info, proc, watch, requestVars>>

\* The force-kill deadline of a health kill passes: SIGKILL of the group.
MonitorKills(i) ==
    /\ mon[i] = "armed"
    /\ watch[i] = "waiting"
    /\ proc' = Kill(proc, i)
    /\ mon' = [mon EXCEPT ![i] = "done"]
    /\ UNCHANGED <<slot, claimed, run, info, watch, requestVars>>

\* instance_done is cancelled, or the instance left the stack.
MonitorEnds(i) ==
    /\ mon[i] \in {"probing", "armed"}
    /\ watch[i] # "waiting" \/ (mon[i] = "probing" /\ slot.st = "vacant")
    /\ mon' = [mon EXCEPT ![i] = "done"]
    /\ UNCHANGED <<slot, claimed, run, info, proc, watch, requestVars>>

(***************************************************************************)
(* node_stop (handle_node_stop_request_inner).                             *)
(***************************************************************************)

StopAdmit(s) ==
    /\ stop[s].pc = "idle"
    /\ CanRead
    /\ stop' = [stop EXCEPT ![s].pc = "look"]
    /\ UNCHANGED <<slot, claimed, lifeVars, rem, over, reset, epoch, detached,
                   history>>

\* act_on_slot reads a clone of the slot; none is the refusal `not found`.
StopLook(s) ==
    /\ stop[s].pc = "look"
    /\ stop' = [stop EXCEPT ![s].pc = IF slot.st = "vacant" THEN "done"
                                      ELSE "act",
                            ![s].st = slot.st, ![s].pid = slot.pid]
    /\ UNCHANGED <<slot, claimed, lifeVars, rem, over, reset, epoch, detached,
                   history>>

\* claim_running: a process still running is claimed, or another path's
\* claim on it joined; a slot that moved on is read again.
StopClaimsRunning(s) ==
    /\ stop[s].pc = "act"
    /\ stop[s].st = "running"
    /\ IF RunsProcess(stop[s].pid)
       THEN /\ claimed' = claimed \cup {slot.id}
            /\ stop' = [stop EXCEPT ![s].pc = "stopping",
                                    ![s].target = slot.id]
       ELSE /\ stop' = [stop EXCEPT ![s].pc = "look"]
            /\ UNCHANGED claimed
    /\ UNCHANGED <<slot, lifeVars, rem, over, reset, epoch, detached, history>>

\* What claim_and_remove removes, with the process the caller stopped (or 0).
\* Its forms do not look at the process,
\* and take a slot that starts.
RemovableById(pid) == slot.st \notin {"vacant", "starting"}

RemovableStarting(pid) ==
    \/ slot.st \in {"starting", "restarting", "finished", "failed"}
    \/ slot.st = "running" /\ slot.pid = pid

Removable(pid) ==
    \/ slot.st \in {"restarting", "finished", "failed"}
    \/ slot.st = "running" /\ slot.pid = pid

\* clear_without_process.
StopClears(s) ==
    /\ stop[s].pc = "act"
    /\ stop[s].st \in {"restarting", "finished", "failed"}
    /\ IF Removable(0)
       THEN /\ claimed' = claimed \cup {slot.id}
            /\ slot' = NoSlot
            /\ stopped' = stopped \cup {slot.id}
            /\ stop' = [stop EXCEPT ![s].pc = "done", ![s].target = slot.id]
       ELSE /\ stop' = [stop EXCEPT ![s].pc = "look"]
            /\ UNCHANGED <<claimed, slot, stopped>>
    /\ UNCHANGED <<lifeVars, rem, over, reset, epoch, detached, lost, crossed>>

\* claim_starting: a restart's start is claimed, which cancels it; a first
\* start, and one another path claimed, is refused.
StopClaimsStarting(s) ==
    /\ stop[s].pc = "act"
    /\ stop[s].st = "starting"
    /\ \/ /\ slot.st # "starting"
          /\ stop' = [stop EXCEPT ![s].pc = "look"]
          /\ UNCHANGED claimed
       \/ /\ slot.st = "starting"
          /\ IsStopping \/ ~StartsARestart
          /\ stop' = [stop EXCEPT ![s].pc = "done"]
          /\ UNCHANGED claimed
       \/ /\ StartsARestart
          /\ ~IsStopping
          /\ claimed' = claimed \cup {slot.id}
          /\ stop' = [stop EXCEPT ![s].pc = "await_start",
                                  ![s].target = slot.id]
    /\ UNCHANGED <<slot, lifeVars, rem, over, reset, epoch, detached, history>>

\* wait_for_claimed_start polls the slot now under the id: a claimed one that
\* starts is waited for, a claimed one that runs is stopped, any other says
\* the claimed start ended.  Its form waits for the slot to go.
StopAwaitsVacant(s) ==
    /\ stop[s].pc = "await_start"
    /\ slot.st = "vacant"
    /\ stop' = [stop EXCEPT ![s].pc = "done"]
    /\ stopped' = stopped \cup {stop[s].target}
    /\ UNCHANGED <<slot, claimed, lifeVars, rem, over, reset, epoch, detached,
                   lost, crossed>>

StopAwaitsStart(s) ==
    /\ stop[s].pc = "await_start"
    /\ ~(IsStopping /\ slot.st = "starting")
    /\ IF IsStopping /\ slot.st = "running"
       THEN /\ stop' = [stop EXCEPT ![s].pc = "stopping", ![s].pid = slot.pid]
            /\ UNCHANGED stopped
       ELSE /\ stop' = [stop EXCEPT ![s].pc = "done"]
            /\ stopped' = stopped \cup {stop[s].target}
    /\ UNCHANGED <<slot, claimed, lifeVars, rem, over, reset, epoch, detached,
                   lost, crossed>>

\* force_stop_instance: the request, the grace, then the kill of the group.
StopKills(s) ==
    /\ stop[s].pc = "stopping"
    /\ proc' = Kill(proc, stop[s].pid)
    /\ stop' = [stop EXCEPT ![s].pc = "removing"]
    /\ UNCHANGED <<slot, claimed, run, info, watch, mon, rem, over, reset,
                   epoch, detached, history>>

\* The registry removal of stop_process, which looks at the process.
StopRemoves(s) ==
    /\ stop[s].pc = "removing"
    /\ stop' = [stop EXCEPT ![s].pc = "done"]
    /\ stopped' = stopped \cup {stop[s].target}
    /\ IF Removable(stop[s].pid)
       THEN claimed' = claimed \cup {slot.id} /\ slot' = NoSlot
       ELSE UNCHANGED <<claimed, slot>>
    /\ UNCHANGED <<lifeVars, rem, over, reset, epoch, detached, lost, crossed>>

\* finish_on_reset drops the stop where it is.
StopDropped(s) ==
    /\ reset.pc = "draining"
    /\ stop[s].pc \notin {"idle", "done"}
    /\ stop' = [stop EXCEPT ![s].pc = "done"]
    /\ UNCHANGED <<slot, claimed, lifeVars, rem, over, reset, epoch, detached,
                   history>>

(***************************************************************************)
(* node_remove (handle_node_remove_request_inner).                         *)
(***************************************************************************)

\* The admission, the hold on restarts and the snapshot of the instances.
RemoveCollects(r) ==
    /\ rem[r].pc = "idle"
    /\ CanRead
    /\ rem' = [rem EXCEPT ![r].pc = "collected", ![r].st = slot.st,
                          ![r].pid = IF slot.st = "running" THEN slot.pid
                                     ELSE 0]
    /\ UNCHANGED <<slot, claimed, lifeVars, stop, over, reset, epoch, detached,
                   history>>

\* A probe fails, or the request does not stop instances.
RemoveRefuses(r) ==
    /\ rem[r].pc = "collected"
    /\ rem' = [rem EXCEPT ![r].pc = "done"]
    /\ UNCHANGED <<slot, claimed, lifeVars, stop, over, reset, epoch, detached,
                   history>>

\* NotedShutdownRequests::note, on a slot that still runs the process.
RemoveNotes(r) ==
    /\ rem[r].pc = "collected"
    /\ rem[r].st = "running"
    /\ slot' = IF RunsProcess(rem[r].pid)
               THEN [slot EXCEPT !.notes = @ + 1] ELSE slot
    /\ rem' = [rem EXCEPT ![r].pc = "asking", ![r].noted = rem[r].pid]
    /\ UNCHANGED <<claimed, lifeVars, stop, over, reset, epoch, detached,
                   history>>

\* withdraw_shutdown_request: while the slot still runs the noted process.
\* Its form forgets the note.
WithdrawnNever(pid) == slot

Withdrawn(pid) == IF RunsProcess(pid) /\ slot.notes > 0
                  THEN [slot EXCEPT !.notes = @ - 1] ELSE slot

\* A shutdown request fails: this instance's own, whose note is withdrawn, or
\* another's, and then the note of this one, which answered, stands a while.
RemoveFails(r) ==
    /\ rem[r].pc = "asking"
    /\ \/ /\ slot' = Withdrawn(rem[r].noted)
          /\ rem' = [rem EXCEPT ![r].pc = "done", ![r].noted = 0]
       \/ /\ rem' = [rem EXCEPT ![r].pc = "standing"]
          /\ UNCHANGED slot
    /\ UNCHANGED <<claimed, lifeVars, stop, over, reset, epoch, detached,
                   history>>

RemoveWithdraws(r) ==
    /\ rem[r].pc = "standing"
    /\ slot' = Withdrawn(rem[r].noted)
    /\ rem' = [rem EXCEPT ![r].pc = "done", ![r].noted = 0]
    /\ UNCHANGED <<claimed, lifeVars, stop, over, reset, epoch, detached,
                   history>>

\* claim_process: a slot still running the process is claimed once.
RemoveClaims(r) ==
    /\ rem[r].pc = "asking"
    /\ rem' = [rem EXCEPT ![r].pc = "killing",
                          ![r].claim = RunsProcess(rem[r].pid) /\ ~IsStopping]
    /\ claimed' = IF RunsProcess(rem[r].pid) THEN claimed \cup {slot.id}
                  ELSE claimed
    /\ UNCHANGED <<slot, lifeVars, stop, over, reset, epoch, detached,
                   history>>

\* Another path has claimed the slot and has yet to kill its process.
ClaimerAtWork(pid) ==
    /\ RunsProcess(pid)
    /\ proc[pid] = "alive"
    /\ \/ \E s \in Stops : /\ stop[s].target = slot.id
                           /\ stop[s].pc \in {"await_start", "stopping"}
       \/ \E r \in Removers : /\ rem[r].pc = "killing" /\ rem[r].claim
                              /\ rem[r].pid = pid
       \/ \E o \in Overwriters : over[o].pc = "killing" /\ over[o].pid = pid

\* The path that claimed the slot was dropped before its kill: by a reset, or
\* by the cancel of a node_add.
Cancelled(id) ==
    \E o \in Overwriters : over[o].pc = "cancelled" /\ over[o].target = id
ClaimerDropped == reset.pc = "draining" \/ Cancelled(slot.id)

\* await_exit_then_force_kill: what it claimed is killed; what another path
\* claimed is waited for.  The deadline of that wait is the one the claimer
\* gives the process, which it started first: the claimer's kill comes first.
RemoveKills(r) ==
    /\ rem[r].pc = "killing"
    /\ rem[r].claim \/ ~ClaimerAtWork(rem[r].pid)
    /\ proc' = IF rem[r].claim THEN Kill(proc, rem[r].pid) ELSE proc
    /\ rem' = [rem EXCEPT ![r].pc = "clearing"]
    /\ UNCHANGED <<slot, claimed, run, info, watch, mon, stop, over, reset,
                   epoch, detached, history>>

\* The node_run goals past their look at the node and not yet registered.
LookedUp == {i \in Lives : run[i] = "begin" /\ info[i].kind = "new"}

\* claim_and_remove of each collected instance, the notes left withdrawn, then
\* remove_config: a node with no instance left is taken off the stack, and the
\* goals that looked it up keep a handle of it.
RemoveClears(r) ==
    /\ \/ rem[r].pc = "clearing"
       \/ rem[r].pc = "collected" /\ rem[r].st # "running"
    /\ IF Removable(rem[r].pid)
       THEN claimed' = claimed \cup {slot.id} /\ slot' = NoSlot
       ELSE slot' = Withdrawn(rem[r].noted) /\ UNCHANGED claimed
    /\ lost' = lost \cup {i \in Alive : RunsProcess(i) /\ i = rem[r].pid
                                      /\ ClaimerDropped}
    /\ detached' = IF slot'.st = "vacant" THEN detached \cup LookedUp
                   ELSE detached
    /\ rem' = [rem EXCEPT ![r].pc = "done", ![r].noted = 0]
    /\ UNCHANGED <<lifeVars, stop, over, reset, epoch, stopped, crossed>>

\* finish_on_reset drops the removal, which withdraws its notes.
RemoveDropped(r) ==
    /\ reset.pc = "draining"
    /\ rem[r].pc \notin {"idle", "standing", "done"}
    /\ slot' = Withdrawn(rem[r].noted)
    /\ rem' = [rem EXCEPT ![r].pc = "done", ![r].noted = 0]
    /\ UNCHANGED <<claimed, lifeVars, stop, over, reset, epoch, detached,
                   history>>

(***************************************************************************)
(* The node_add overwrite (shutdown_existing_instances, stop_instances).   *)
(***************************************************************************)

\* The look that refuses the add while an instance starts.
OverwriteLooks(o) ==
    /\ over[o].pc = "idle"
    /\ CanRead
    /\ over' = [over EXCEPT ![o].pc =
                  IF slot.st \in {"vacant", "starting"} THEN "done"
                  ELSE "claiming"]
    /\ UNCHANGED <<slot, claimed, lifeVars, stop, rem, reset, epoch, detached,
                   history>>

\* claim_instance, in any state, and the pid of the slot.  No await parts the
\* look and the claim: a start that begins between them is still preparing.
OverwriteClaims(o) ==
    /\ over[o].pc = "claiming"
    /\ slot.st = "starting" => \E i \in Lives : run[i] = "preparing"
    /\ over' = [over EXCEPT ![o].pc = "killing", ![o].pid = slot.pid,
                            ![o].target = slot.id]
    /\ claimed' = IF slot.st = "vacant" THEN claimed
                  ELSE claimed \cup {slot.id}
    /\ UNCHANGED <<slot, lifeVars, stop, rem, reset, epoch, detached, history>>

\* force_stop_instances, one grace shared by the whole batch of the node.
OverwriteKills(o) ==
    /\ over[o].pc = "killing"
    /\ proc' = Kill(proc, over[o].pid)
    /\ over' = [over EXCEPT ![o].pc = "removing"]
    /\ UNCHANGED <<slot, claimed, run, info, watch, mon, stop, rem, reset,
                   epoch, detached, history>>

\* remove_instance_from_registry, by the id alone: an instance that took the id
\* since the claim goes too, its process left behind.  Its form leaves a slot
\* that has no process.
OverwriteRemovesRunning(o) ==
    /\ over[o].pc = "removing"
    /\ over' = [over EXCEPT ![o].pc = "done"]
    /\ slot' = IF slot.st = "running" THEN NoSlot ELSE slot
    /\ lost' = lost \cup {i \in Alive : RunsProcess(i)
                                      /\ slot.id # over[o].target}
    /\ UNCHANGED <<claimed, lifeVars, stop, rem, reset, epoch, detached,
                   stopped, crossed>>

OverwriteRemoves(o) ==
    /\ over[o].pc = "removing"
    /\ over' = [over EXCEPT ![o].pc = "done"]
    /\ slot' = IF slot.st = "starting" THEN slot ELSE NoSlot
    /\ lost' = lost \cup {i \in Alive : RunsProcess(i)
                                      /\ slot.id # over[o].target}
    /\ UNCHANGED <<claimed, lifeVars, stop, rem, reset, epoch, detached,
                   stopped, crossed>>

\* A cancel of the goal, or a reset, drops the add at its next step; what it
\* claimed stays claimed.
OverwriteDropped(o) ==
    /\ over[o].pc \in {"claiming", "killing", "removing"}
    /\ over' = [over EXCEPT ![o].pc = "cancelled"]
    /\ UNCHANGED <<slot, claimed, lifeVars, stop, rem, reset, epoch, detached,
                   history>>

(***************************************************************************)
(* The stack reset: begin_reset, then teardown_all_instances and the       *)
(* clear of the stack under the write guard.                               *)
(***************************************************************************)

ResetBegins ==
    /\ reset.pc = "idle"
    /\ epoch < MaxResets
    /\ reset' = [reset EXCEPT !.pc = "draining"]
    /\ UNCHANGED <<slot, claimed, lifeVars, stop, rem, over, epoch, detached,
                   history>>

ResetTakesStack ==
    /\ reset.pc = "draining"
    /\ Drained
    /\ epoch' = epoch + 1
    /\ reset' = [reset EXCEPT !.pc = "claiming"]
    /\ UNCHANGED <<slot, claimed, lifeVars, stop, rem, over, detached,
                   history>>

\* collect_doomed_instances.
ResetClaims ==
    /\ reset.pc = "claiming"
    /\ claimed' = IF slot.st = "vacant" THEN claimed
                  ELSE claimed \cup {slot.id}
    /\ reset' = [pc |-> "killing", pid |-> slot.pid]
    /\ UNCHANGED <<slot, lifeVars, stop, rem, over, epoch, detached, history>>

ResetKills ==
    /\ reset.pc = "killing"
    /\ proc' = Kill(proc, reset.pid)
    /\ reset' = [reset EXCEPT !.pc = "clearing"]
    /\ UNCHANGED <<slot, claimed, run, info, watch, mon, stop, rem, over,
                   epoch, detached, history>>

ResetClears ==
    /\ reset.pc = "clearing"
    /\ slot' = NoSlot
    /\ reset' = [pc |-> "idle", pid |-> 0]
    /\ UNCHANGED <<claimed, lifeVars, stop, rem, over, epoch, detached,
                   history>>

(***************************************************************************)
(* The specification.                                                      *)
(***************************************************************************)

StartStep(i) ==
    \/ RegisterNew(i) \/ RegisterDetached(i) \/ BeginRespawn(i)
    \/ PrepareFails(i) \/ Fork(i) \/ Ready(i) \/ GiveUp(i)
    \/ AbortStarted(i) \/ PassSetup(i)
    \/ CommitStarted(i) \/ Delivered(i) \/ RunPanics(i) \/ RunDropped(i)
    \/ EndBeforeSpawn(i)

RestartStep(i) ==
    \/ RestartDue(i) \/ RestartEnds(i) \/ AdmitRestart(i) \/ ReadInputs(i)
    \/ SettleRefused(i) \/ SettleNothing(i)
    \/ \E j \in Lives : SettleStartFailed(i, j)

WatchStep(i) ==
    \/ WatcherSees(i) \/ MarkInstanceExited(i)
    \/ \E j \in Lives : SpawnNextAttempt(i, j)

MonitorStep(i) == MonitorArms(i) \/ MonitorKills(i) \/ MonitorEnds(i)

StopStep(s) ==
    \/ StopLook(s) \/ StopClaimsRunning(s) \/ StopClears(s)
    \/ StopClaimsStarting(s) \/ StopAwaitsStart(s) \/ StopKills(s)
    \/ StopRemoves(s) \/ StopDropped(s)

RemoveStep(r) ==
    \/ RemoveRefuses(r) \/ RemoveNotes(r) \/ RemoveFails(r)
    \/ RemoveWithdraws(r) \/ RemoveClaims(r) \/ RemoveKills(r)
    \/ RemoveClears(r) \/ RemoveDropped(r)

OverwriteStep(o) ==
    \/ OverwriteClaims(o) \/ OverwriteKills(o) \/ OverwriteRemoves(o)
    \/ OverwriteDropped(o)

ResetStep == ResetTakesStack \/ ResetClaims \/ ResetKills \/ ResetClears

Next ==
    \/ \E i \in Lives : RunAdmit(i)
    \/ \E i \in Lives : StartStep(i)
    \/ \E i \in Lives : RestartStep(i)
    \/ \E i \in Lives : WatchStep(i)
    \/ \E i \in Lives : MonitorStep(i)
    \/ \E i \in Lives : ProcExits(i)
    \/ \E s \in Stops : StopAdmit(s)
    \/ \E s \in Stops : StopStep(s)
    \/ \E r \in Removers : RemoveCollects(r)
    \/ \E r \in Removers : RemoveStep(r)
    \/ \E o \in Overwriters : OverwriteLooks(o)
    \/ \E o \in Overwriters : OverwriteStep(o)
    \/ ResetBegins
    \/ ResetStep

Spec == Init /\ [][Next]_vars

(***************************************************************************)
(* Fairness: the runtime keeps polling every task that can move, and every *)
(* wait of a start has a deadline, so each task with a step left takes     *)
(* one.  Nothing is assumed of the processes, of the callers or of a reset *)
(* being asked for.                                                        *)
(***************************************************************************)

Fairness ==
    /\ \A i \in Lives : WF_vars(StartStep(i)) /\ WF_vars(RestartStep(i))
                        /\ WF_vars(WatchStep(i))
    /\ \A s \in Stops : WF_vars(StopStep(s))
    /\ \A r \in Removers : WF_vars(RemoveStep(r))
    /\ \A o \in Overwriters : WF_vars(OverwriteStep(o))
    /\ WF_vars(ResetStep)

LiveSpec == Spec /\ Fairness

(***************************************************************************)
(* Properties.                                                             *)
(***************************************************************************)

\* Every variable stays in its type: in particular no attempt passes the one
\* max_restarts refuses (advance_backoff) and no note count goes negative.
TypeOK ==
    /\ slot \in Slots
    /\ claimed \subseteq Lives
    /\ run \in [Lives -> RunPcs]
    /\ info \in [Lives -> Infos]
    /\ proc \in [Lives -> {"none", "alive", "clean", "failed"}]
    /\ watch \in [Lives -> {"off", "waiting", "exited", "announcing", "done"}]
    /\ mon \in [Lives -> {"off", "probing", "armed", "done"}]
    /\ stop \in [Stops -> [pc : {"idle", "look", "act", "await_start",
                                 "stopping", "removing", "done"},
                           st : States, pid : 0 .. MaxLives,
                           target : 0 .. MaxLives]]
    /\ rem \in [Removers -> [pc : {"idle", "collected", "asking", "standing",
                                   "killing", "clearing", "done"},
                             st : States, pid : 0 .. MaxLives,
                             noted : 0 .. MaxLives, claim : BOOLEAN]]
    /\ over \in [Overwriters -> [pc : {"idle", "claiming", "killing",
                                       "removing", "cancelled", "done"},
                                 pid : 0 .. MaxLives, target : 0 .. MaxLives]]
    /\ reset \in [pc : {"idle", "draining", "claiming", "killing",
                        "clearing"}, pid : 0 .. MaxLives]
    /\ epoch \in 0 .. MaxResets
    /\ detached \subseteq Lives
    /\ stopped \subseteq Lives
    /\ lost \subseteq Lives
    /\ crossed \in BOOLEAN

\* The safety properties below, NoOrphan aside, speak of behaviours up to a panic
\* that is `crossed`: when two restart tasks serve one instance and one of them
\* panics at its start, end_abandoned_start may undo the start of the other, whose
\* process is then on no slot.

\* No live process escapes the daemon: the slot holds its pid, so every stop
\* path, the health kill and the teardown reach it.  This is what the code says
\* of remove_config; a removal beside a node_run does not keep it.
NoOrphan == \A i \in Alive : slot.pid = i

\* Three paths leave a process behind and no other does: a node_run on a node
\* that was removed after its look-up, a removal that waited for a claimer that
\* was dropped, and an overwrite that removes an instance it did not claim.
\* Beside them the slot holds the pid of every live process, whatever overlaps:
\* the fork records the pid in its own critical section, an undo follows the
\* kill, and a removal follows the exit.
NoOtherOrphan == crossed \/ \A i \in Alive : slot.pid = i \/ i \in lost

\* At most one process of the instance id runs at a time, the ones left behind
\* aside: across the restarts, failed starts and panics of an instance, its
\* removal, an overwrite that may be cancelled, and a reset.
OneProcess == crossed \/ \A i, j \in Alive \ lost : i = j

\* Once a node_stop answered that it stopped the instance, its slot is gone
\* for good and none of its processes runs: no restart, no start in flight
\* and no exit watcher brings it back.
StoppedStaysStopped ==
    crossed \/ /\ slot.id \notin stopped
               /\ \A i \in Alive \ lost : info[i].home \notin stopped

\* The stop paths that will remove the slot, or the start that will.
Enders ==
    {s \in Stops : stop[s].target = slot.id /\ stop[s].pc # "done"}
    \cup {r \in Removers : /\ rem[r].pc \in {"killing", "clearing"}
                           /\ RunsProcess(rem[r].pid)}
    \cup {o \in Overwriters : /\ over[o].target = slot.id
                              /\ over[o].pc \in {"killing", "removing"}}
    \cup {i \in Lives : run[i] \in {"preparing", "forked", "ready",
                                    "giving_up"}}

\* A claimed slot has an owner that will remove it: its exit watcher and its
\* restarts leave it alone, so one without would stay on the stack forever.
\* A cancelled node_add leaves one, and nothing else does.
ClaimHasOwner ==
    slot.st # "vacant" /\ IsStopping /\ reset.pc = "idle" =>
        crossed \/ Enders # {} \/ Cancelled(slot.id)

\* A process inherits nothing from the one before it in its slot: a removal's
\* shutdown note is there exactly while the removal keeps it for the process
\* the slot runs (an instance that a failed removal leaves has its policy
\* back), and a health kill belongs to that process, or the clean exit of the
\* next one would count as failed (note_shutdown_request,
\* record_exit).
NothingInherited ==
    crossed \/
    /\ slot.st = "running" =>
           slot.notes = Cardinality({r \in Removers : rem[r].noted = slot.pid})
    /\ slot.kill => slot.st = "running" /\ mon[slot.pid] \in {"armed", "done"}

\* When a reset ends, no process of the id runs that was not left behind: the
\* starts it dropped where they were left their pid on the slot for the
\* teardown to kill.
ResetStepClean ==
    reset.pc = "clearing" /\ reset'.pc = "idle"
        => crossed \/ Alive' \subseteq lost
ResetEndsAll == [][ResetStepClean]_vars

\* Nobody waits for somebody forever: a node_stop the daemon took up is
\* answered, one that waits for a claimed start included; a restarting
\* instance runs again, ends or is removed; a reset drains the admitted work
\* and completes (stop.rs, supervisor.rs, gate.rs).
WaitsEnd ==
    /\ \A s \in Stops : stop[s].pc # "idle" ~> stop[s].pc = "done"
    /\ slot.st = "restarting" ~> slot.st # "restarting"
    /\ reset.pc = "draining" ~> reset.pc = "idle"
================================================================================
