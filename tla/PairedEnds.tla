------------------------------ MODULE PairedEnds ------------------------------
(***************************************************************************)
(* One pair whose two ends run on two daemons, each end an instance that   *)
(* may exit, restart, be stopped and be started anew: the two daemons'     *)
(* PairingCoordinators, the requests between them (pair_commit and the     *)
(* notice that an instance ended), the peer_update calls that tell a node  *)
(* its slot's peers, and the sequence gate by which the node takes them.   *)
(*                                                                         *)
(* The first start of the instance on daemon 1 links the two.  A daemon's  *)
(* pairing operations exclude one another by op_lock: an action that needs *)
(* it free and awaits nothing under it is one step, one that awaits an     *)
(* answer keeps it.  A process is named by its number, so the start task   *)
(* and the teardown of each process are told apart.  Every call is bounded *)
(* by a timeout: an answer that does not come is a fault, after which the  *)
(* request may be lost or may still be handled late.                       *)
(***************************************************************************)
EXTENDS Naturals, FiniteSets

CONSTANTS
    MaxPids,   \* bound: the processes of an instance id
    MaxProcs,  \* bound: the processes of both
    MaxFaults, \* bound: the calls that are not answered in time
    Stoppable, \* the ends whose instance may be stopped and started anew
    MaxStops   \* bound: the deliberate stops and the starts that fail

ASSUME PairAssumption ==
    /\ MaxPids \in Nat \ {0}
    /\ MaxProcs \in Nat
    /\ MaxFaults \in Nat
    /\ Stoppable \subseteq {1, 2}
    /\ MaxStops \in Nat

Ends == {1, 2}
Other(d) == 3 - d
Pids == 1 .. MaxPids

VARIABLES
    inst,    \* per daemon: the state of its instance and its latest process
    reg,     \* per daemon: its registry holds the pair
    held,    \* per daemon: the instance's slot keeps the pair for its restarts
    lock,    \* per daemon: the operation that keeps op_lock across an await
    task,    \* per process: its start's part in the pairing
    serve,   \* per daemon: the pair_commit it is pinning its node for
    notice,  \* per daemon: the end of the peer it is telling its node of
    forgets, \* notices of a stop, dissolved, whose held pairs go next
    down,    \* the teardowns in progress
    tell,    \* per daemon: the peer_update that op_lock's holder awaits
    node,    \* per daemon: the slot of the running process
    updates, \* peer_update requests a node has not taken
    commits, \* pair_commit requests no daemon has taken
    ends,    \* relationship_notify requests no daemon has taken
    faults,  \* the calls not answered in time
    stops,   \* the stops made and the starts that failed
    told,    \* ghost: how the last update to the running process went
    linked,  \* ghost: a first start made the pair for this instance
    made,    \* ghost: the running process was told its pair is made
    solo     \* ghost: the end that alone restarted, without fault, since all
             \* was at rest

registry == <<reg, held>>
wire == <<updates, commits, ends>>
ghosts == <<told, linked, made, solo>>
bounds == <<faults, stops>>
vars == <<inst, reg, held, lock, task, serve, notice, forgets, down, tell,
          node, updates, commits, ends, faults, stops, told, linked, made,
          solo>>

TaskPcs == {"none", "reserve", "boot", "deliver", "again", "lock", "telling",
            "asking", "revert", "reverting", "dissolve", "outcome", "done"}
Answers == {"none", "ok", "refused", "undelivered"}

NoTask == [pc |-> "none", again |-> FALSE, ans |-> "none"]
NoCommit == [from |-> 0, pid |-> 0, held |-> FALSE]
NoEnd == [from |-> 0, pid |-> 0, stopped |-> FALSE]
NoTell == [pc |-> "none", seq |-> 0, pid |-> 0]
Unpaired == [seq |-> 0, pin |-> FALSE]

(***************************************************************************)
(* What the coordinators read of the stack.                                *)
(***************************************************************************)

\* instance_is_live_for_pairing.
Live(d) == inst[d].st \in {"starting", "running"}

\* runs_process.
Runs(d, p) == inst[d].st = "running" /\ inst[d].pid = p

StartsARestart(d) == inst[d].st = "starting" /\ inst[d].again

\* keeps_held_pair, of the slot as it is now.
KeepsHeld(d) == held[d]

\* What pair_failure makes of a local end without a process.
WithoutProcess(d) == IF inst[d].st = "absent" THEN "refused" ELSE "undelivered"

\* pair_slots_impl for the pair: the answer that spares the caller its delivery,
\* a pair the registry holds counting as made; "none" when it was recorded now.
StackAnswer(d) ==
    CASE ~Live(d) -> WithoutProcess(d)
      [] Live(d) /\ reg[d] -> "ok"
      [] OTHER -> "none"

Free(d) == lock[d] = "free"

\* The bounds leave the id another process.
MayStart(d) ==
    inst[d].pid < MaxPids /\ inst[1].pid + inst[2].pid < MaxProcs

AtRest ==
    /\ down = {} /\ updates = {} /\ commits = {} /\ ends = {} /\ forgets = {}
    /\ \A d \in Ends :
           /\ Free(d)
           /\ inst[d].st = "running"
           /\ \A p \in Pids : task[d][p].pc \in {"none", "done"}

Init ==
    /\ inst = [d \in Ends |->
                 IF d = 1 THEN [st |-> "absent", again |-> FALSE, pid |-> 0]
                 ELSE [st |-> "running", again |-> FALSE, pid |-> 1]]
    /\ reg = [d \in Ends |-> FALSE]
    /\ held = [d \in Ends |-> FALSE]
    /\ lock = [d \in Ends |-> "free"]
    /\ task = [d \in Ends |-> [p \in Pids |-> NoTask]]
    /\ serve = [d \in Ends |-> NoCommit]
    /\ notice = [d \in Ends |-> NoEnd]
    /\ forgets = {}
    /\ down = {}
    /\ tell = [d \in Ends |-> NoTell]
    /\ node = [d \in Ends |-> Unpaired]
    /\ updates = {}
    /\ commits = {}
    /\ ends = {}
    /\ faults = 0
    /\ stops = 0
    /\ told = [d \in Ends |-> "ok"]
    /\ linked = [d \in Ends |-> FALSE]
    /\ made = [d \in Ends |-> FALSE]
    /\ solo = 0

(***************************************************************************)
(* send_peer_update and the node's side of it.                             *)
(***************************************************************************)

\* The sequences a daemon sends only grow; a process starts below them all, so
\* they are counted from each process on.
NextSequence(d) == IF tell[d].pid = inst[d].pid THEN tell[d].seq + 1 ELSE 1

\* The update carries the pairs the registry then holds, and op_lock's holder
\* awaits its answer.
SendPeerUpdate(d, pin) ==
    /\ updates' = updates \cup {[to |-> d, pid |-> inst[d].pid,
                                 seq |-> NextSequence(d), pin |-> pin]}
    /\ tell' = [tell EXCEPT ![d] = [pc |-> "wait", seq |-> NextSequence(d),
                                    pid |-> inst[d].pid]]

\* The answer has been read.
EndTell(d) == tell' = [tell EXCEPT ![d].pc = "none"]

\* How an update the holder awaited ended, for the process that runs now.
Told(d, how) == IF tell[d].pid = inst[d].pid
                THEN [told EXCEPT ![d] = how] ELSE told

\* apply_slot_update: a smaller sequence than the slot's is stale and leaves
\* the slot.  Its form takes every update.
ApplyAnyUpdate(slot, u) == [seq |-> u.seq, pin |-> u.pin]

ApplySlotUpdate(slot, u) ==
    IF u.seq > slot.seq THEN [seq |-> u.seq, pin |-> u.pin] ELSE slot

\* The process takes an update, in time for the daemon or late.
NodeTakes(u) ==
    /\ u \in updates
    /\ Live(u.to) /\ inst[u.to].pid = u.pid
    /\ updates' = updates \ {u}
    /\ node' = [node EXCEPT ![u.to] = ApplySlotUpdate(@, u)]
    /\ IF tell[u.to].pc = "wait" /\ tell[u.to].pid = u.pid
              /\ tell[u.to].seq = u.seq
       THEN /\ tell' = [tell EXCEPT ![u.to].pc = "ok"]
            /\ told' = [told EXCEPT ![u.to] = "ok"]
       ELSE UNCHANGED <<tell, told>>
    /\ UNCHANGED <<inst, registry, lock, task, serve, notice, forgets, down,
                   commits, ends, bounds, linked, made, solo>>

\* The call fails: its process is gone, or it does not answer in time.
TellFails(d) ==
    /\ tell[d].pc = "wait"
    /\ tell' = [tell EXCEPT ![d].pc = "err"]
    /\ told' = Told(d, "err")
    /\ \/ /\ ~(Live(d) /\ inst[d].pid = tell[d].pid)
          /\ UNCHANGED <<updates, faults, solo>>
       \/ /\ faults < MaxFaults
          /\ faults' = faults + 1
          /\ solo' = 0
          /\ \/ UNCHANGED updates
             \/ updates' = {u \in updates : ~(u.to = d /\ u.pid = tell[d].pid
                                              /\ u.seq = tell[d].seq)}
    /\ UNCHANGED <<inst, registry, lock, task, serve, notice, forgets, down,
                   node, commits, ends, stops, linked, made>>

(***************************************************************************)
(* The instances.  What they do besides pairing is InstanceLifecycle's.    *)
(***************************************************************************)

\* A new process under the id: its slots boot unpaired, and nothing sent to
\* an earlier one reaches it.
NewProcess(d, again, pc) ==
    LET p == inst[d].pid + 1
    IN  /\ MayStart(d)
        /\ inst' = [inst EXCEPT ![d] = [st |-> "starting", again |-> again,
                                        pid |-> p]]
        /\ task' = [task EXCEPT ![d][p] = [pc |-> pc, again |-> again,
                                           ans |-> "none"]]
        /\ node' = [node EXCEPT ![d] = Unpaired]
        /\ updates' = {u \in updates : u.to # d}
        /\ told' = [told EXCEPT ![d] = "ok"]
        /\ made' = [made EXCEPT ![d] = FALSE]

\* The caller starts an id anew once the stop of the old instance answered.
StopAnswered(d) == ~\E t \in down : t.from = d

\* node_run, one at a time: on daemon 1 it plans the pair.
StartFirst(d) ==
    /\ inst[d].st = "absent"
    /\ StopAnswered(d)
    /\ \A p \in Pids : task[d][p].again \/ task[d][p].pc \in {"none", "done"}
    /\ NewProcess(d, FALSE, IF d = 1 THEN "reserve" ELSE "boot")
    /\ held' = [held EXCEPT ![d] = FALSE]
    /\ linked' = [linked EXCEPT ![d] = FALSE]
    /\ solo' = 0
    /\ UNCHANGED <<reg, lock, serve, notice, forgets, down, tell, commits,
                   ends, bounds>>

\* The restart, once the exit before it was announced.
StartAgain(d) ==
    /\ inst[d].st = "restarting"
    /\ ~\E t \in down : t.from = d /\ t.pid = inst[d].pid /\ ~t.stopped
    /\ NewProcess(d, TRUE, "boot")
    /\ UNCHANGED <<registry, lock, serve, notice, forgets, down, tell,
                   commits, ends, bounds, linked, solo>>

\* reserve: any refusal of the stack, a pair it holds already included, gives
\* the start up, which dissolves what the id has.
Reserve(p) ==
    /\ task[1][p].pc = "reserve"
    /\ inst[1].st = "starting" /\ inst[1].pid = p
    /\ Free(1)
    /\ IF reg[1]
       THEN /\ inst' = [inst EXCEPT ![1].st = "absent"]
            /\ reg' = [reg EXCEPT ![1] = FALSE]
            /\ task' = [task EXCEPT ![1][p].pc = "done"]
            /\ UNCHANGED linked
       ELSE /\ reg' = [reg EXCEPT ![1] = TRUE]
            /\ task' = [task EXCEPT ![1][p].pc = "boot"]
            /\ linked' = [linked EXCEPT ![1] = TRUE]
            /\ UNCHANGED inst
    /\ UNCHANGED <<held, lock, serve, notice, forgets, down, tell, node, wire,
                   bounds, told, made, solo>>

\* give_up: the start fails before its commit; its pairs are dissolved and the
\* slot undone.
StartFails(d) ==
    /\ inst[d].st = "starting"
    /\ MayStart(d)
    /\ Free(d)
    /\ stops < MaxStops
    /\ stops' = stops + 1
    /\ reg' = [reg EXCEPT ![d] = FALSE]
    /\ inst' = [inst EXCEPT ![d].st = IF inst[d].again THEN "restarting"
                                      ELSE "absent"]
    /\ task' = [task EXCEPT ![d][inst[d].pid].pc = "done"]
    /\ UNCHANGED <<held, lock, serve, notice, forgets, down, tell, node, wire,
                   faults, ghosts>>

\* The start commits: a restart asks again for what it held, a first start
\* delivers what it reserved.
CommitRunning(d) ==
    LET p == inst[d].pid IN
    /\ inst[d].st = "starting"
    /\ task[d][p].pc = "boot"
    /\ inst' = [inst EXCEPT ![d].st = "running"]
    /\ task' = [task EXCEPT ![d][p].pc = IF inst[d].again THEN "again"
                                         ELSE IF d = 1 THEN "deliver"
                                         ELSE "done"]
    /\ UNCHANGED <<registry, lock, serve, notice, forgets, down, tell, node,
                   wire, bounds, ghosts>>

\* The process exits by itself and its restart policy has its say; the exit
\* watcher announces the end.
ProcExits(d) ==
    /\ inst[d].st = "running"
    /\ MayStart(d)
    /\ inst' = [inst EXCEPT ![d].st = "restarting"]
    /\ down' = down \cup {[from |-> d, pid |-> inst[d].pid, stopped |-> FALSE,
                           kept |-> FALSE, pc |-> "announce"]}
    /\ made' = [made EXCEPT ![d] = FALSE]
    /\ solo' = IF AtRest /\ held[d] THEN d ELSE 0
    /\ UNCHANGED <<registry, lock, task, serve, notice, forgets, tell, node,
                   wire, bounds, told, linked>>

\* node_stop: the slot is removed with what it kept, and torn down.
Stop(d) ==
    /\ d \in Stoppable
    /\ inst[d].st \in {"running", "restarting"}
    /\ stops < MaxStops
    /\ stops' = stops + 1
    /\ inst' = [inst EXCEPT ![d].st = "absent"]
    /\ held' = [held EXCEPT ![d] = FALSE]
    /\ down' = down \cup {[from |-> d, pid |-> inst[d].pid, stopped |-> TRUE,
                           kept |-> held[d], pc |-> "announce"]}
    /\ made' = [made EXCEPT ![d] = FALSE]
    /\ linked' = [linked EXCEPT ![d] = FALSE]
    /\ solo' = 0
    /\ UNCHANGED <<reg, lock, task, serve, notice, forgets, tell, node, wire,
                   faults, told>>

(***************************************************************************)
(* A start's delivery of the pair it reserved (deliver_pairs_for_instance, *)
(* op_lock held throughout) and a restart's request for the pair it held   *)
(* (pair_again, op_lock released around the peer's answer).                *)
(***************************************************************************)

SetTask(d, p, pc) == task' = [task EXCEPT ![d][p].pc = pc]

EndTask(d, p, ans) ==
    task' = [task EXCEPT ![d][p].pc = "outcome", ![d][p].ans = ans]

\* The delivery of a first start: the pair a concurrent end dissolved fails
\* it, and the own node is told first.
Deliver(d, p) ==
    /\ task[d][p].pc = "deliver"
    /\ Free(d)
    /\ IF reg[d] /\ Live(d)
       THEN /\ SendPeerUpdate(d, TRUE)
            /\ lock' = [lock EXCEPT ![d] = "start"]
            /\ SetTask(d, p, "telling")
            /\ UNCHANGED reg
       ELSE /\ reg' = [reg EXCEPT ![d] = FALSE]
            /\ SetTask(d, p, "dissolve")
            /\ UNCHANGED <<lock, updates, tell>>
    /\ UNCHANGED <<inst, held, serve, notice, forgets, down, node, commits,
                   ends, bounds, ghosts>>

\* pair_again_best_effort's look, before it waits for op_lock.
LookAgain(d, p) ==
    /\ task[d][p].pc = "again"
    /\ SetTask(d, p, IF Runs(d, p) /\ KeepsHeld(d) THEN "lock" ELSE "done")
    /\ UNCHANGED <<inst, registry, lock, serve, notice, forgets, down, tell,
                   node, wire, bounds, ghosts>>

\* pair_again under op_lock: pair_planned, then the own node is told.
PairAgain(d, p) ==
    /\ task[d][p].pc = "lock"
    /\ Free(d)
    /\ IF StackAnswer(d) # "none"
       THEN /\ EndTask(d, p, StackAnswer(d))
            /\ UNCHANGED <<reg, lock, updates, tell>>
       ELSE /\ reg' = [reg EXCEPT ![d] = TRUE]
            /\ SendPeerUpdate(d, TRUE)
            /\ lock' = [lock EXCEPT ![d] = "start"]
            /\ SetTask(d, p, "telling")
    /\ UNCHANGED <<inst, held, serve, notice, forgets, down, node, commits,
                   ends, bounds, ghosts>>

\* The own node did not take its pin: the pair is cleared, the node told
\* nothing.
OwnPinFails(d, p) ==
    /\ task[d][p].pc = "telling"
    /\ tell[d].pc = "err"
    /\ EndTell(d)
    /\ lock' = [lock EXCEPT ![d] = "free"]
    /\ reg' = [reg EXCEPT ![d] = FALSE]
    /\ IF task[d][p].again THEN EndTask(d, p, "undelivered")
       ELSE SetTask(d, p, "dissolve")
    /\ UNCHANGED <<inst, held, serve, notice, forgets, down, node, wire,
                   bounds, ghosts>>

\* The own node took its pin: the peer's daemon is asked for its half last,
\* unless the own instance lost its process meanwhile.  Its forms keep op_lock
\* for a restart's request too, and skip the end on the other daemon.
AskPeerLocked(d, p) ==
    /\ task[d][p].pc = "telling"
    /\ tell[d].pc = "ok"
    /\ EndTell(d)
    /\ task' = [task EXCEPT ![d][p].pc = "asking",
                   ![d][p].ans = IF Live(d) THEN "none" ELSE WithoutProcess(d)]
    /\ commits' = IF Live(d)
                  THEN commits \cup {[from |-> d, pid |-> p,
                                      held |-> task[d][p].again]}
                  ELSE commits
    /\ UNCHANGED <<inst, registry, lock, serve, notice, forgets, down, node,
                   updates, ends, bounds, ghosts>>

AskPeerNever(d, p) ==
    /\ task[d][p].pc = "telling"
    /\ tell[d].pc = "ok"
    /\ EndTell(d)
    /\ lock' = [lock EXCEPT ![d] = IF task[d][p].again THEN "free" ELSE @]
    /\ task' = [task EXCEPT ![d][p].pc = "asking", ![d][p].ans = "ok"]
    /\ UNCHANGED <<inst, registry, serve, notice, forgets, down, node, wire,
                   bounds, ghosts>>

AskPeer(d, p) ==
    /\ task[d][p].pc = "telling"
    /\ tell[d].pc = "ok"
    /\ EndTell(d)
    /\ lock' = [lock EXCEPT ![d] = IF task[d][p].again THEN "free" ELSE @]
    /\ task' = [task EXCEPT ![d][p].pc = "asking",
                   ![d][p].ans = IF Live(d) THEN "none" ELSE WithoutProcess(d)]
    /\ commits' = IF Live(d)
                  THEN commits \cup {[from |-> d, pid |-> p,
                                      held |-> task[d][p].again]}
                  ELSE commits
    /\ UNCHANGED <<inst, registry, serve, notice, forgets, down, node,
                   updates, ends, bounds, ghosts>>

\* The peer's daemon does not answer in time: the request is lost, or late,
\* or its answer is lost.
AskUnanswered(d, p) ==
    /\ task[d][p].pc = "asking"
    /\ task[d][p].ans = "none"
    /\ faults < MaxFaults
    /\ faults' = faults + 1
    /\ solo' = 0
    /\ task' = [task EXCEPT ![d][p].ans = "undelivered"]
    /\ \/ UNCHANGED commits
       \/ commits' = {c \in commits : ~(c.from = d /\ c.pid = p)}
    /\ UNCHANGED <<inst, registry, lock, serve, notice, forgets, down, tell,
                   node, updates, ends, stops, told, linked, made>>

\* The peer made its half.
PeerAgrees(d, p) ==
    /\ task[d][p].pc = "asking"
    /\ task[d][p].ans = "ok"
    /\ IF task[d][p].again
       THEN SetTask(d, p, "outcome") /\ UNCHANGED <<held, lock, made>>
       ELSE /\ SetTask(d, p, "done")
            /\ lock' = [lock EXCEPT ![d] = "free"]
            /\ held' = [held EXCEPT ![d] = inst[d].st # "absent"]
            /\ made' = [made EXCEPT ![d] = reg[d] /\ Runs(d, p)]
    /\ UNCHANGED <<inst, reg, serve, notice, forgets, down, tell, node, wire,
                   bounds, told, linked, solo>>

\* revert_delivery: the pair is cleared and the own node told its set without
\* it, under op_lock.
Revert(d, p, next) ==
    /\ reg' = [reg EXCEPT ![d] = FALSE]
    /\ IF Live(d)
       THEN /\ SendPeerUpdate(d, FALSE)
            /\ lock' = [lock EXCEPT ![d] = "start"]
            /\ SetTask(d, p, "reverting")
       ELSE /\ lock' = [lock EXCEPT ![d] = "free"]
            /\ SetTask(d, p, next)
            /\ UNCHANGED <<updates, tell>>

\* The peer did not make its half: a first start reverts under the op_lock it
\* keeps; a restart waits for it and leaves the pair to a later process.  Its
\* form does not look whether its process still runs.
PeerDoesNotForAnyProcess(d, p) ==
    /\ task[d][p].pc = "asking"
    /\ task[d][p].ans \in {"refused", "undelivered"}
    /\ task[d][p].again => Free(d)
    /\ Revert(d, p, IF task[d][p].again THEN "outcome" ELSE "dissolve")
    /\ UNCHANGED <<inst, held, serve, notice, forgets, down, node, commits,
                   ends, bounds, ghosts>>

PeerDoesNot(d, p) ==
    /\ task[d][p].pc = "asking"
    /\ task[d][p].ans \in {"refused", "undelivered"}
    /\ task[d][p].again => Free(d)
    /\ IF task[d][p].again /\ ~Runs(d, p)
       THEN SetTask(d, p, "outcome") /\ UNCHANGED <<reg, lock, updates, tell>>
       ELSE Revert(d, p, IF task[d][p].again THEN "outcome" ELSE "dissolve")
    /\ UNCHANGED <<inst, held, serve, notice, forgets, down, node, commits,
                   ends, bounds, ghosts>>

Reverted(d, p) ==
    /\ task[d][p].pc = "reverting"
    /\ tell[d].pc \in {"ok", "err"}
    /\ EndTell(d)
    /\ lock' = [lock EXCEPT ![d] = "free"]
    /\ SetTask(d, p, IF task[d][p].again THEN "outcome" ELSE "dissolve")
    /\ UNCHANGED <<inst, registry, serve, notice, forgets, down, node, wire,
                   bounds, ghosts>>

\* A first start whose delivery failed dissolves the pairs of its instance and
\* leaves it running.
DissolveFailed(d, p) ==
    /\ task[d][p].pc = "dissolve"
    /\ Free(d)
    /\ reg' = [reg EXCEPT ![d] = FALSE]
    /\ SetTask(d, p, "done")
    /\ UNCHANGED <<inst, held, lock, serve, notice, forgets, down, tell, node,
                   wire, bounds, ghosts>>

\* The outcome of a restart's request, while the process it is for runs.
Outcome(d, p) ==
    /\ task[d][p].pc = "outcome"
    /\ SetTask(d, p, "done")
    /\ IF Runs(d, p)
       THEN /\ held' = [held EXCEPT ![d] =
                           CASE task[d][p].ans = "ok" -> TRUE
                             [] task[d][p].ans = "refused" -> FALSE
                             [] OTHER -> @]
            /\ made' = [made EXCEPT ![d] = task[d][p].ans = "ok" /\ reg[d]
                                            /\ Free(d)]
       ELSE UNCHANGED <<held, made>>
    /\ UNCHANGED <<inst, reg, lock, serve, notice, forgets, down, tell, node,
                   wire, bounds, told, linked, solo>>

(***************************************************************************)
(* commit_pair_from_peer: the peer's daemon asks for this daemon's half.   *)
(***************************************************************************)

\* The answer reaches the start that still waits for it.
Answered(c, ans) ==
    [task EXCEPT ![c.from][c.pid].ans =
        IF task[c.from][c.pid].pc = "asking" /\ @ = "none" THEN ans ELSE @]

\* How the stack answers a request it does not pin the node for; "none" when
\* it does.  Its form does not ask whether the slot still keeps a held pair.
CommitAnswerKeepingAny(d, c) ==
    IF StartsARestart(d) THEN "undelivered" ELSE StackAnswer(d)

CommitAnswer(d, c) ==
    IF c.held /\ ~KeepsHeld(d) THEN "refused"
    ELSE IF StartsARestart(d) THEN "undelivered"
    ELSE StackAnswer(d)

CommitFromPeer(d, c) ==
    /\ c \in commits
    /\ c.from = Other(d)
    /\ Free(d)
    /\ commits' = commits \ {c}
    /\ IF CommitAnswer(d, c) # "none"
       THEN /\ task' = Answered(c, CommitAnswer(d, c))
            /\ UNCHANGED <<reg, lock, serve, tell, updates, linked>>
       ELSE /\ reg' = [reg EXCEPT ![d] = TRUE]
            /\ SendPeerUpdate(d, TRUE)
            /\ lock' = [lock EXCEPT ![d] = "serve"]
            /\ serve' = [serve EXCEPT ![d] = c]
            /\ linked' = [linked EXCEPT ![d] = @ \/ ~c.held]
            /\ UNCHANGED task
    /\ UNCHANGED <<inst, held, notice, forgets, down, node, ends, bounds,
                   told, made, solo>>

\* The node took its pin, and the slot keeps the pair; or it did not, and the
\* half is cleared before the answer.
CommitEnds(d) ==
    /\ lock[d] = "serve"
    /\ tell[d].pc \in {"ok", "err"}
    /\ EndTell(d)
    /\ lock' = [lock EXCEPT ![d] = "free"]
    /\ serve' = [serve EXCEPT ![d] = NoCommit]
    /\ IF tell[d].pc = "ok"
       THEN /\ held' = [held EXCEPT ![d] = inst[d].st # "absent"]
            /\ task' = Answered(serve[d], "ok")
            /\ UNCHANGED reg
       ELSE /\ reg' = [reg EXCEPT ![d] = FALSE]
            /\ task' = Answered(serve[d], "undelivered")
            /\ UNCHANGED held
    /\ UNCHANGED <<inst, notice, forgets, down, node, wire, bounds, ghosts>>

(***************************************************************************)
(* The end of an instance: announce_down on its own daemon, and the notice *)
(* at the peer's.                                                          *)
(***************************************************************************)

\* announce_end: the peer named by the registry, or by what a stopped slot
\* kept, is told.
AnnounceEnd(t) ==
    /\ t \in down
    /\ t.pc = "announce"
    /\ IF reg[t.from] \/ t.kept
       THEN /\ ends' = ends \cup {[from |-> t.from, pid |-> t.pid,
                                   stopped |-> t.stopped]}
            /\ down' = (down \ {t}) \cup {[t EXCEPT !.pc = "telling"]}
       ELSE /\ down' = (down \ {t}) \cup {[t EXCEPT !.pc = "dissolve"]}
            /\ UNCHANGED ends
    /\ UNCHANGED <<inst, registry, lock, task, serve, notice, forgets, tell,
                   node, updates, commits, bounds, ghosts>>

\* Best effort: the notice may be lost, or taken late.
EndUnanswered(t) ==
    /\ t \in down
    /\ t.pc = "telling"
    /\ faults < MaxFaults
    /\ faults' = faults + 1
    /\ solo' = 0
    /\ down' = (down \ {t}) \cup {[t EXCEPT !.pc = "dissolve"]}
    /\ \/ UNCHANGED ends
       \/ ends' = {e \in ends : ~(e.from = t.from /\ e.pid = t.pid
                                  /\ e.stopped = t.stopped)}
    /\ UNCHANGED <<inst, registry, lock, task, serve, notice, forgets, tell,
                   node, updates, commits, stops, told, linked, made>>

\* dissolve_for_instance: the other end is remote, so no node is told here.
\* op_lock is served in turn, and a request that waits for it was made while
\* the process ran, before its teardown.
Dissolve(t) ==
    /\ t \in down
    /\ t.pc = "dissolve"
    /\ Free(t.from)
    /\ \A p \in Pids : task[t.from][p].pc # "lock"
    /\ reg' = [reg EXCEPT ![t.from] = FALSE]
    /\ down' = down \ {t}
    /\ made' = [made EXCEPT ![t.from] = FALSE]
    /\ UNCHANGED <<inst, held, lock, task, serve, notice, forgets, tell, node,
                   wire, bounds, told, linked, solo>>

\* An operation on another pair of the daemon reads pairs(), which prunes the
\* pairs whose local end has no process.
Prune(d) ==
    /\ reg[d]
    /\ ~Live(d)
    /\ reg' = [reg EXCEPT ![d] = FALSE]
    /\ UNCHANGED <<inst, held, lock, task, serve, notice, forgets, down, tell,
                   node, wire, bounds, ghosts>>

\* The announcer of e goes on.
Acked(e) ==
    {IF t.pc = "telling" /\ t.from = e.from /\ t.pid = e.pid
          /\ t.stopped = e.stopped
     THEN [t EXCEPT !.pc = "dissolve"] ELSE t : t \in down}

\* What follows the dissolution: the end of a stop is forgotten next.
EndTaken(e) ==
    IF e.stopped THEN forgets' = forgets \cup {e} /\ UNCHANGED down
    ELSE down' = Acked(e) /\ UNCHANGED forgets

\* dissolve_pairs_with_remote_instance: the local end of the pair is told its
\* set without it.
EndArrives(d, e) ==
    /\ e \in ends
    /\ e.from = Other(d)
    /\ Free(d)
    /\ ends' = ends \ {e}
    /\ reg' = [reg EXCEPT ![d] = FALSE]
    /\ made' = [made EXCEPT ![d] = FALSE]
    /\ IF reg[d] /\ Live(d)
       THEN /\ SendPeerUpdate(d, FALSE)
            /\ lock' = [lock EXCEPT ![d] = "notice"]
            /\ notice' = [notice EXCEPT ![d] = e]
            /\ UNCHANGED <<down, forgets>>
       ELSE EndTaken(e) /\ UNCHANGED <<lock, notice, tell, updates>>
    /\ UNCHANGED <<inst, held, task, serve, node, commits, bounds, told,
                   linked, solo>>

EndTold(d) ==
    /\ lock[d] = "notice"
    /\ tell[d].pc \in {"ok", "err"}
    /\ EndTell(d)
    /\ lock' = [lock EXCEPT ![d] = "free"]
    /\ notice' = [notice EXCEPT ![d] = NoEnd]
    /\ EndTaken(notice[d])
    /\ UNCHANGED <<inst, registry, task, serve, node, wire, bounds, ghosts>>

\* forget_pairs_held_with, for a stopped peer.
Forget(e) ==
    /\ e \in forgets
    /\ forgets' = forgets \ {e}
    /\ held' = [held EXCEPT ![Other(e.from)] = FALSE]
    /\ down' = Acked(e)
    /\ UNCHANGED <<inst, reg, lock, task, serve, notice, tell, node, wire,
                   bounds, ghosts>>

(***************************************************************************)
(* The specification.                                                      *)
(***************************************************************************)

TaskStep(d, p) ==
    \/ Deliver(d, p) \/ LookAgain(d, p) \/ PairAgain(d, p)
    \/ OwnPinFails(d, p) \/ AskPeer(d, p) \/ PeerAgrees(d, p)
    \/ PeerDoesNot(d, p) \/ Reverted(d, p) \/ DissolveFailed(d, p)
    \/ Outcome(d, p)

\* What a daemon or a node does with what it has before it.
DaemonStep(d) ==
    \/ \E p \in Pids : TaskStep(d, p)
    \/ StartAgain(d) \/ CommitRunning(d)
    \/ d = 1 /\ \E p \in Pids : Reserve(p)
    \/ TellFails(d) \/ CommitEnds(d) \/ EndTold(d)
    \/ \E u \in updates : u.to = d /\ NodeTakes(u)
    \/ \E c \in commits : CommitFromPeer(d, c)
    \/ \E e \in ends : EndArrives(d, e)
    \/ \E e \in forgets : e.from = d /\ Forget(e)
    \/ \E t \in down : t.from = d /\ (AnnounceEnd(t) \/ Dissolve(t))

Next ==
    \/ \E d \in Ends : DaemonStep(d)
    \/ \E d \in Ends : StartFirst(d) \/ StartFails(d) \/ ProcExits(d)
                       \/ Stop(d) \/ Prune(d)
    \/ \E d \in Ends : \E p \in Pids : AskUnanswered(d, p)
    \/ \E t \in down : EndUnanswered(t)

Spec == Init /\ [][Next]_vars

(***************************************************************************)
(* The properties.                                                         *)
(***************************************************************************)

\* Types; and only an operation that keeps op_lock awaits its node
\* (every caller of send_peer_update holds it).
TypeOK ==
    /\ inst \in [Ends -> [st : {"absent", "starting", "running",
                                "restarting"},
                          again : BOOLEAN, pid : Nat]]
    /\ reg \in [Ends -> BOOLEAN]
    /\ held \in [Ends -> BOOLEAN]
    /\ lock \in [Ends -> {"free", "start", "serve", "notice"}]
    /\ task \in [Ends -> [Pids -> [pc : TaskPcs, again : BOOLEAN,
                                   ans : Answers]]]
    /\ tell \in [Ends -> [pc : {"none", "wait", "ok", "err"}, seq : Nat,
                          pid : Nat]]
    /\ node \in [Ends -> [seq : Nat, pin : BOOLEAN]]
    /\ faults \in 0 .. MaxFaults
    /\ stops \in 0 .. MaxStops
    /\ solo \in {0} \cup Ends
    /\ \A d \in Ends : tell[d].pc # "none" => lock[d] # "free"

\* The process has a pair reserved that its start has yet to deliver to it.
Undelivered(d) == task[d][inst[d].pid].pc = "deliver"

\* Between operations a running node that took the last update it was sent has
\* in its slot what its daemon's registry holds: no revert, dissolution, late
\* update or overlapping request leaves it pinned to a pair that is gone, or
\* unpinned from one that stands (revert_delivery, notify_set_best_effort and
\* the sequence gate of apply_slot_update).
SlotFollowsRegistry ==
    \A d \in Ends :
        inst[d].st = "running" /\ Free(d) /\ told[d] = "ok" /\ ~Undelivered(d)
            => node[d].pin = reg[d]

\* A restart asks only for what was linked: an instance whose id was linked,
\* stopped and started anew unlinked is neither pinned to the old peer nor
\* made to keep the pair, however late or often the peer asks
\* (commit_pair_from_peer's look at keeps_held_pair, forget_pairs_held_with).
OnlyLinkedEnds ==
    \A d \in Ends : held[d] \/ (Live(d) /\ node[d].pin) => linked[d]

\* A pair a process was told is made stays in its daemon's registry until an
\* end is announced: no request of an earlier process, answered late or not at
\* all, clears it (pair_again's look at runs_process before its revert).
ReportedPairStays == \A d \in Ends : made[d] => reg[d]

\* After an end that kept the pair restarted alone and without a fault, both
\* daemons hold the pair or neither does, whatever faults and crossed restarts
\* left a half of it before (announce_end, pair_again, commit_pair_from_peer),
\* while the instance that links the two is not stopped and started anew.
AgreeAfterRestart == AtRest /\ solo # 0 => reg[1] = reg[2]

\* The start that keeps the op_lock of daemon d awaits no answer of its own
\* node: it waits for the other daemon.
WaitsLocked(d) ==
    /\ lock[d] = "start" /\ tell[d].pc = "none"
    /\ \E p \in Pids : task[d][p].pc = "asking" /\ task[d][p].ans = "none"

\* Two starts never wait for each other's daemon, each with the op_lock the
\* other's request needs: both ends may restart at once, or one start while
\* the other restarts, and every request is answered without a timeout
\* (pair_again releases op_lock around commit_pair_remotely).
NoMutualWait == ~(WaitsLocked(1) /\ WaitsLocked(2))
================================================================================
