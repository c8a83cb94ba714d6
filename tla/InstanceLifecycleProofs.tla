------------------------ MODULE InstanceLifecycleProofs ------------------------
(***************************************************************************)
(* Proofs about InstanceLifecycle, for any number of starts, resets and    *)
(* restarts, any policies and any node_stop, node_remove and overwriting   *)
(* node_add requests.                                                      *)
(*                                                                         *)
(* The theorems are of every behaviour of the module, the races that the   *)
(* code loses included: the processes those leave behind are in `lost`,    *)
(* and once a panic was taken for another start than its own (`crossed`)   *)
(* nothing is claimed.                                                     *)
(*                                                                         *)
(* Their invariant says that the slot has the process that is alive; that  *)
(* this is kept rests on what the slot is to each task that acts on it: a  *)
(* start in flight has it alone, and a claimed slot has an owner that      *)
(* kills before it clears, or a start that finds the claim.                *)
(*                                                                         *)
(* A step of a life has one of a few effects (LifeDoes), and so has a step *)
(* of a stop, a removal, an overwrite or a reset (RequestDoes): each part  *)
(* of the invariant is shown to survive the effects, not the actions.      *)
(***************************************************************************)
EXTENDS InstanceLifecycle, FiniteSetTheorems, TLAPS

\* Overwrite o has claimed what it found under the id and is yet to remove it.
Overwriting(o) == over[o].pc \in {"killing", "removing"}

Driving == {"preparing", "forked", "ready", "giving_up", "committing"}
Unforked == {"unused", "waiting", "admitting", "inputs", "begin", "preparing"}

\* The first start that registered slot a is past its registration.
Registered(a) == a \in Lives /\ info[a].kind = "new" /\ run[a] \notin {"unused", "begin"}

\* The process of life k was committed.
Committed(k) == k \in Lives /\ watch[k] # "off"

\* The parts of the types, each with what keeps its numbers and names in them.
SlotTypes ==
  /\ slot \in Slots
  /\ slot.st = "vacant" <=> slot.id = 0
  /\ slot.st # "failed" => slot.attempt <= MaxRestarts
RunTypes == run \in [Lives -> RunPcs]
InfoTypes == info \in [Lives -> Infos]
ProcTypes ==
  /\ proc \in [Lives -> {"none", "alive", "clean", "failed"}]
  /\ watch \in [Lives -> {"off", "waiting", "exited", "announcing", "done"}]
  /\ mon \in [Lives -> {"off", "probing", "armed", "done"}]
StopRecs == [pc : {"idle", "look", "act", "await_start", "stopping", "removing", "done"},
             st : States, pid : 0 .. MaxLives, target : 0 .. MaxLives]
StopTypes ==
  /\ stop \in [Stops -> StopRecs]
  /\ \A s \in Stops :
       stop[s].pc \in {"await_start", "stopping", "removing"} => stop[s].target # 0
  /\ stopped \subseteq Lives
RemRecs == [pc : {"idle", "collected", "asking", "standing", "killing", "clearing", "done"},
            st : States, pid : 0 .. MaxLives, noted : 0 .. MaxLives, claim : BOOLEAN]
RemTypes == rem \in [Removers -> RemRecs] /\ detached \subseteq Lives
OverRecs == [pc : {"idle", "claiming", "killing", "removing", "cancelled", "done"},
             pid : 0 .. MaxLives, target : 0 .. MaxLives]
ResetTypes ==
  /\ over \in [Overwriters -> OverRecs]
  /\ reset \in [pc : {"idle", "draining", "claiming", "killing", "clearing"},
                  pid : 0 .. MaxLives]
  /\ epoch \in 0 .. MaxResets
  /\ reset.pc = "draining" => epoch < MaxResets
TypeInv ==
  /\ SlotTypes /\ RunTypes /\ InfoTypes /\ ProcTypes /\ StopTypes /\ RemTypes /\ ResetTypes
  /\ claimed \subseteq Lives /\ lost \subseteq Lives /\ crossed \in BOOLEAN

\* The slot and the process it has.
SlotInv ==
  /\ slot.id # 0 => Registered(slot.id)
  /\ slot.st \notin {"starting", "running"} => slot.pid = 0
  /\ slot.st = "running" => Committed(slot.pid)
  /\ slot.pid # 0 => info[slot.pid].home = slot.id /\ proc[slot.pid] # "none"
  /\ slot.st = "restarting" => slot.attempt > 0

\* A life forks once, is committed once and is watched to its end.
LifeInv ==
  \A i \in Lives :
    /\ info[i].kind = "new" => run[i] \notin {"waiting", "admitting", "inputs", "settle"}
    /\ info[i].kind = "new" /\ run[i] # "unused" => info[i].goal = i /\ info[i].home = i
    /\ run[i] = "unused" => info[i].kind = "new"
    /\ run[i] \in Unforked => proc[i] = "none"
    /\ watch[i] # "off" => run[i] \in {"delivering", "done"} /\ proc[i] # "none"
    /\ watch[i] \in {"exited", "announcing", "done"} => proc[i] # "alive"

\* A start in flight has the slot to itself, and records its process there.
StartInv ==
  /\ \A i \in Lives : run[i] \in Driving =>
       /\ slot.st = "starting" /\ slot.id = info[i].home
       /\ info[i].kind = "new" => slot.attempt = 0
       /\ info[i].kind = "respawn" => slot.attempt > 0
       /\ slot.pid = IF run[i] = "preparing" THEN 0 ELSE i
  /\ \A i, j \in Lives : run[i] \in Driving /\ run[j] \in Driving => i = j

\* The slot has the process that is alive, if it was not left behind.
HeldInv == \A i \in Lives : proc[i] = "alive" => slot.pid = i \/ i \in lost

\* A stop that claimed a slot finds there the process it claimed, until it is gone.
StopSound(s) ==
  /\ stop[s].target # 0 => stop[s].target \in claimed
  /\ stop[s].pc = "await_start" /\ slot.id = stop[s].target
       => slot.st \in {"starting", "running"}
  /\ stop[s].pc \in {"stopping", "removing"} =>
       /\ Committed(stop[s].pid)
       /\ slot.id = stop[s].target => RunsProcess(stop[s].pid)
  /\ stop[s].pc = "removing" => proc[stop[s].pid] # "alive"
StopInv ==
  /\ \A a \in claimed : Registered(a)
  /\ stopped \subseteq claimed
  /\ slot.id \notin stopped
  /\ \A s \in Stops : StopSound(s)

\* What a removal stops was committed, and is claimed, then dead by the time it is
\* cleared, unless the path that was to kill it was dropped.
RemoveSound(r) ==
  /\ rem[r].pc \in {"asking", "standing", "killing", "clearing"} => Committed(rem[r].pid)
  /\ rem[r].pc = "collected" =>
       IF rem[r].st = "running" THEN Committed(rem[r].pid) ELSE rem[r].pid = 0
  /\ rem[r].pc = "killing" /\ RunsProcess(rem[r].pid) => IsStopping
  /\ rem[r].pc = "clearing" /\ RunsProcess(rem[r].pid) /\ proc[rem[r].pid] = "alive"
       => ClaimerDropped
RemoveInv == \A r \in Removers : RemoveSound(r)

\* A claimed slot has somebody who will kill its process and remove it, or a start
\* that finds the claim and undoes itself, or it is what a cancelled node_add left.
StopOwns(s) ==
  stop[s].target = slot.id /\ stop[s].pc \in {"await_start", "stopping", "removing"}
RemoverOwns(r) ==
  rem[r].pc \in {"killing", "clearing"} /\ rem[r].claim /\ RunsProcess(rem[r].pid)
Preparing == \E i \in Lives : run[i] = "preparing"
OwnerInv ==
  reset.pc = "idle" /\ IsStopping =>
    \/ \E s \in Stops : StopOwns(s)
    \/ \E r \in Removers : RemoverOwns(r)
    \/ \E o \in Overwriters : Overwriting(o) /\ over[o].target = slot.id
    \/ Cancelled(slot.id)
    \/ Preparing

\* An overwrite that finds under the id what it claimed finds its process or none: a
\* start it claimed has no process yet, and will find the claim before it forks one.
OverSound(o) ==
  /\ over[o].target # 0 => over[o].target \in claimed
  /\ Overwriting(o) /\ over[o].pid # 0 => Committed(over[o].pid)
  /\ Overwriting(o) /\ over[o].target = slot.id =>
       /\ slot.pid \in {0, over[o].pid}
       /\ slot.st = "starting" /\ reset.pc = "idle" => Preparing
  /\ over[o].pc = "removing" /\ over[o].pid # 0 => proc[over[o].pid] # "alive"
OverInv == \A o \in Overwriters : OverSound(o)

\* A reset works on a stack without starts, and its slot keeps no other process.
ResetInv ==
  /\ reset.pc \in {"claiming", "killing", "clearing"} =>
       /\ \A i \in Lives : run[i] \notin HoldingPcs
       /\ \A r \in Removers : rem[r].pc \in {"idle", "standing", "done"}
  /\ reset.pc \in {"killing", "clearing"} =>
       /\ slot.id \in claimed \cup {0}
       /\ slot.pid \in {0, reset.pid}
  /\ reset.pc = "clearing" /\ reset.pid # 0 => proc[reset.pid] # "alive"

\* The notes and the health kill of a slot are those of the process it runs.
NoteInv ==
  /\ slot.st \in {"starting", "restarting"} => slot.notes = 0
  /\ \A r \in Removers : rem[r].noted # 0 =>
       /\ rem[r].noted = rem[r].pid
       /\ rem[r].pc \in {"asking", "standing", "killing", "clearing"}

LifecycleInv ==
  /\ TypeInv
  /\ ~crossed =>
       /\ SlotInv /\ LifeInv /\ StartInv /\ HeldInv
       /\ StopInv /\ RemoveInv /\ OwnerInv /\ OverInv /\ ResetInv /\ NoteInv /\ NothingInherited

LEMMA NoSlotTypes == NoSlot \in Slots /\ NoSlot.st = "vacant" /\ NoSlot.id = 0 /\ NoSlot.attempt = 0
BY LifecycleAssumption DEF NoSlot, Slots, States, LifecycleAssumption

LEMMA SlotUpdates ==
  ASSUME NEW sl \in Slots
  PROVE  /\ \A x \in States : [sl EXCEPT !.st = x] \in Slots
         /\ \A x \in States, p \in 0 .. MaxLives :
              [sl EXCEPT !.st = x, !.pid = p] \in Slots
         /\ \A p \in 0 .. MaxLives : [sl EXCEPT !.pid = p] \in Slots
         /\ \A x \in States, c \in Nat : [sl EXCEPT !.st = x, !.count = c] \in Slots
         /\ \A x \in States, a \in 0 .. (MaxRestarts + 1) :
              [sl EXCEPT !.attempt = a, !.st = x] \in Slots
         /\ \A a \in 0 .. (MaxRestarts + 1) :
              [sl EXCEPT !.pid = 0, !.kill = FALSE, !.attempt = a] \in Slots
         /\ \A b \in BOOLEAN : [sl EXCEPT !.kill = b] \in Slots
         /\ \A n \in Nat : [sl EXCEPT !.notes = n] \in Slots
<1> USE LifecycleAssumption DEF Slots, LifecycleAssumption
<1>1. \A x \in States : [sl EXCEPT !.st = x] \in Slots
  OBVIOUS
<1>2. \A x \in States, p \in 0 .. MaxLives : [sl EXCEPT !.st = x, !.pid = p] \in Slots
  OBVIOUS
<1>3. \A p \in 0 .. MaxLives : [sl EXCEPT !.pid = p] \in Slots
  OBVIOUS
<1>4. \A x \in States, c \in Nat : [sl EXCEPT !.st = x, !.count = c] \in Slots
  OBVIOUS
<1>5. \A x \in States, a \in 0 .. (MaxRestarts + 1) :
              [sl EXCEPT !.attempt = a, !.st = x] \in Slots
  OBVIOUS
<1>6. \A a \in 0 .. (MaxRestarts + 1) :
              [sl EXCEPT !.pid = 0, !.kill = FALSE, !.attempt = a] \in Slots
  <2> SUFFICES ASSUME NEW a \in 0 .. (MaxRestarts + 1)
               PROVE  [sl EXCEPT !.pid = 0, !.kill = FALSE, !.attempt = a] \in Slots
    OBVIOUS
  <2> DEFINE s1 == [sl EXCEPT !.pid = 0]
             s2 == [s1 EXCEPT !.kill = FALSE]
  <2>1. s1 \in Slots
    OBVIOUS
  <2> HIDE DEF s1
  <2>2. s2 \in Slots
    BY <2>1
  <2> HIDE DEF s2
  <2>3. [s2 EXCEPT !.attempt = a] \in Slots
    BY <2>2
  <2> QED BY <2>3 DEF s1, s2
<1>7. \A b \in BOOLEAN : [sl EXCEPT !.kill = b] \in Slots
  OBVIOUS
<1>8. \A n \in Nat : [sl EXCEPT !.notes = n] \in Slots
  OBVIOUS
<1> QED BY <1>1, <1>2, <1>3, <1>4, <1>5, <1>6, <1>7, <1>8

LEMMA UndoTypes ==
  ASSUME SlotTypes
  PROVE  /\ UndoStart \in Slots
         /\ UndoStart.st = "vacant" <=> UndoStart.id = 0
         /\ UndoStart.st # "failed" => UndoStart.attempt <= MaxRestarts
<1>1. CASE slot.st # "starting"
  BY <1>1 DEF UndoStart, SlotTypes
<1>2. CASE UndoStart = NoSlot
  BY <1>2, NoSlotTypes, LifecycleAssumption DEF LifecycleAssumption
<1>3. CASE slot.st = "starting" /\ UndoStart = [slot EXCEPT !.st = "restarting", !.pid = 0]
  <2>0. slot \in Slots /\ "restarting" \in States /\ 0 \in 0 .. MaxLives
    BY LifecycleAssumption DEF SlotTypes, States, LifecycleAssumption
  <2>1. UndoStart \in Slots
    BY <1>3, <2>0, SlotUpdates
  <2> QED BY <1>3, <2>1 DEF SlotTypes, Slots
<1> QED BY <1>1, <1>2, <1>3 DEF UndoStart

LEMMA InfoUpdates ==
  ASSUME InfoTypes, NEW i \in Lives
  PROVE  /\ \A o \in Outcomes : [info EXCEPT ![i].outcome = o] \in [Lives -> Infos]
         /\ \A g \in 0 .. MaxLives, n \in Nat :
              [info EXCEPT ![i].goal = g, ![i].count = n] \in [Lives -> Infos]
         /\ \A h \in 0 .. MaxLives : [info EXCEPT ![i].home = h] \in [Lives -> Infos]
         /\ \A k \in {"new", "respawn"}, a \in 0 .. MaxLives, g \in 0 .. MaxLives,
              e \in 0 .. MaxResets :
              [info EXCEPT ![i] = [kind |-> k, slot |-> a, goal |-> g, home |-> g,
                                   epoch |-> e, count |-> 0, outcome |-> "none"]]
                \in [Lives -> Infos]
<1> USE DEF InfoTypes, Infos
<1>1. \A o \in Outcomes : [info EXCEPT ![i].outcome = o] \in [Lives -> Infos]
  OBVIOUS
<1>2. \A g \in 0 .. MaxLives, n \in Nat :
        [info EXCEPT ![i].goal = g, ![i].count = n] \in [Lives -> Infos]
  OBVIOUS
<1>3. \A h \in 0 .. MaxLives : [info EXCEPT ![i].home = h] \in [Lives -> Infos]
  OBVIOUS
<1>4. \A k \in {"new", "respawn"}, a \in 0 .. MaxLives, g \in 0 .. MaxLives,
        e \in 0 .. MaxResets :
        [info EXCEPT ![i] = [kind |-> k, slot |-> a, goal |-> g, home |-> g,
                             epoch |-> e, count |-> 0, outcome |-> "none"]]
          \in [Lives -> Infos]
  BY DEF Outcomes
<1> QED BY <1>1, <1>2, <1>3, <1>4

\* What an attempt of the backoff makes of a slot that has not failed.
LEMMA AttemptTypes ==
  ASSUME NEW sl \in Slots, NEW length, sl.st # "vacant", sl.id # 0,
         sl.attempt <= MaxRestarts
  PROVE  /\ TakeNextAttempt(sl, length) \in Slots
         /\ TakeNextAttempt(sl, length).st \in {"failed", "restarting"}
         /\ TakeNextAttempt(sl, length).id = sl.id
         /\ TakeNextAttempt(sl, length).st # "failed" =>
              TakeNextAttempt(sl, length).attempt \in 1 .. MaxRestarts
         /\ TakeNextAttempt(sl, length).pid = sl.pid
         /\ TakeNextAttempt(sl, length).count = sl.count
         /\ TakeNextAttempt(sl, length).notes = sl.notes
         /\ TakeNextAttempt(sl, length).kill = sl.kill
<1> DEFINE a == IF length = "long" THEN 1 ELSE sl.attempt + 1
           x == IF a > MaxRestarts THEN "failed" ELSE "restarting"
<1>1. a \in 1 .. (MaxRestarts + 1) /\ a \in 0 .. (MaxRestarts + 1)
  BY LifecycleAssumption DEF Slots, LifecycleAssumption
<1>2. x \in {"failed", "restarting"} /\ x \in States /\ (x # "failed" => a <= MaxRestarts)
  BY <1>1, LifecycleAssumption DEF States, LifecycleAssumption
<1>3. TakeNextAttempt(sl, length) = [sl EXCEPT !.attempt = a, !.st = x]
  BY DEF TakeNextAttempt
<1> HIDE DEF a, x
<1>4. [sl EXCEPT !.attempt = a, !.st = x] \in Slots
  BY <1>1, <1>2, SlotUpdates
<1>5. /\ [sl EXCEPT !.attempt = a, !.st = x].st = x
      /\ [sl EXCEPT !.attempt = a, !.st = x].attempt = a
      /\ [sl EXCEPT !.attempt = a, !.st = x].id = sl.id
      /\ [sl EXCEPT !.attempt = a, !.st = x].pid = sl.pid
      /\ [sl EXCEPT !.attempt = a, !.st = x].count = sl.count
      /\ [sl EXCEPT !.attempt = a, !.st = x].notes = sl.notes
      /\ [sl EXCEPT !.attempt = a, !.st = x].kill = sl.kill
  BY DEF Slots
<1> QED BY <1>1, <1>2, <1>3, <1>4, <1>5

\* What an exit makes of the slot that runs the process.
LEMMA ExitTypes ==
  ASSUME SlotTypes, slot.st = "running", NEW cause, NEW length
  PROVE  /\ RecordExit(cause, length) \in Slots
         /\ RecordExit(cause, length).st \in {"failed", "finished", "restarting"}
         /\ RecordExit(cause, length).id = slot.id
         /\ RecordExit(cause, length).pid = 0
         /\ RecordExit(cause, length).count = slot.count
         /\ RecordExit(cause, length).kill = FALSE
         /\ RecordExit(cause, length).st # "failed" =>
              RecordExit(cause, length).attempt <= MaxRestarts
         /\ RecordExit(cause, length).st = "restarting" =>
              /\ slot.notes = 0 /\ RecordExit(cause, length).notes = 0
              /\ RecordExit(cause, length).attempt > 0
<1> DEFINE failed == slot.kill \/ cause = "failed"
           again  == RestartsAfter(slot.policy, failed) /\ slot.notes = 0
           a == IF slot.notes > 0 THEN 0 ELSE slot.attempt
           gone == [slot EXCEPT !.pid = 0, !.kill = FALSE, !.attempt = a]
           ended == [gone EXCEPT !.st = IF failed THEN "failed" ELSE "finished"]
<1>1. RecordExit(cause, length) = IF again THEN TakeNextAttempt(gone, length) ELSE ended
  BY DEF RecordExit, SlotTypes, Slots
<1>2. slot \in Slots /\ slot.id # 0 /\ slot.attempt <= MaxRestarts
  BY DEF SlotTypes
<1>3. a \in 0 .. (MaxRestarts + 1) /\ a <= MaxRestarts
  BY <1>2, LifecycleAssumption DEF Slots, LifecycleAssumption
<1> HIDE DEF a
<1>4. gone \in Slots
  BY <1>2, <1>3, SlotUpdates
<1>5. /\ gone.st = "running" /\ gone.id = slot.id /\ gone.pid = 0 /\ gone.count = slot.count
      /\ gone.notes = slot.notes /\ gone.kill = FALSE /\ gone.attempt = a
  BY <1>2 DEF Slots
<1> HIDE DEF gone
<1>6. ended \in Slots
  BY <1>4, SlotUpdates DEF States
<1>7. /\ ended.st \in {"failed", "finished"} /\ ended.id = gone.id /\ ended.pid = gone.pid
      /\ ended.count = gone.count /\ ended.kill = gone.kill /\ ended.attempt = gone.attempt
  BY <1>4 DEF Slots
<1> HIDE DEF ended
<1>8. CASE ~again
  BY <1>1, <1>2, <1>3, <1>5, <1>6, <1>7, <1>8
<1>9. CASE again
  <2>1. /\ TakeNextAttempt(gone, length) \in Slots
        /\ TakeNextAttempt(gone, length).st \in {"failed", "restarting"}
        /\ TakeNextAttempt(gone, length).id = gone.id
        /\ TakeNextAttempt(gone, length).st # "failed" =>
             TakeNextAttempt(gone, length).attempt \in 1 .. MaxRestarts
        /\ TakeNextAttempt(gone, length).pid = gone.pid
        /\ TakeNextAttempt(gone, length).count = gone.count
        /\ TakeNextAttempt(gone, length).notes = gone.notes
        /\ TakeNextAttempt(gone, length).kill = gone.kill
    BY <1>2, <1>3, <1>4, <1>5, AttemptTypes
  <2> QED BY <1>1, <1>5, <1>9, <2>1
<1> QED BY <1>8, <1>9

LEMMA ExitKeepsTypes ==
  ASSUME SlotTypes, slot.st = "running", NEW cause, NEW length, slot' = RecordExit(cause, length)
  PROVE  SlotTypes'
<1>1. slot.id # 0
  BY DEF SlotTypes
<1> DEFINE after == RecordExit(cause, length)
<1>2. /\ after \in Slots /\ after.st \in {"failed", "finished", "restarting"}
      /\ after.id = slot.id /\ (after.st # "failed" => after.attempt <= MaxRestarts)
  BY ExitTypes
<1> HIDE DEF after
<1>3. slot' = after
  BY DEF after
<1> QED BY <1>1, <1>2, <1>3 DEF SlotTypes

(***************************************************************************)
(* The steps of the model, by who takes them, and what they leave alone.   *)
(***************************************************************************)

\* A step of a life: of its start or restart task, its process, its watchers.
LifeStep(i) ==
  RunAdmit(i) \/ StartStep(i) \/ RestartStep(i) \/ WatchStep(i) \/ MonitorStep(i) \/ ProcExits(i)

LEMMA StepCases ==
  ASSUME [Next]_vars
  PROVE  \/ \E i \in Lives : LifeStep(i)
         \/ \E s \in Stops : StopAdmit(s) \/ StopStep(s)
         \/ \E r \in Removers : RemoveCollects(r) \/ RemoveStep(r)
         \/ \E o \in Overwriters : OverwriteLooks(o) \/ OverwriteStep(o)
         \/ ResetBegins \/ ResetStep
         \/ UNCHANGED vars
BY DEF Next, LifeStep

asked == <<stop, rem, over, reset, epoch, detached, stopped>>

LEMMA LifeFrame ==
  ASSUME NEW i \in Lives, LifeStep(i)
  PROVE  /\ UNCHANGED <<claimed, asked>>
         /\ \/ RegisterDetached(i) /\ lost' = lost \cup {i} /\ UNCHANGED crossed
            \/ RunPanics(i) /\ UNCHANGED lost /\ crossed' \in BOOLEAN /\ (crossed => crossed')
            \/ UNCHANGED <<lost, crossed>>
<1> USE DEF requestVars, history, asked
<1>1. CASE RegisterDetached(i)
  BY <1>1 DEF RegisterDetached
<1>6. CASE RunPanics(i)
  BY <1>6 DEF RunPanics
<1>2. CASE \/ RunAdmit(i) \/ RegisterNew(i) \/ BeginRespawn(i) \/ PrepareFails(i)
           \/ Fork(i) \/ Ready(i) \/ GiveUp(i)
  BY <1>2 DEF RunAdmit, RegisterNew, BeginRespawn, PrepareFails, Fork, Ready, GiveUp
<1>3. CASE \/ AbortStarted(i) \/ PassSetup(i) \/ CommitStarted(i) \/ Delivered(i)
           \/ RunDropped(i) \/ EndBeforeSpawn(i) \/ RestartDue(i)
  BY <1>3 DEF AbortStarted, PassSetup, CommitStarted, Delivered, RunDropped,
       EndBeforeSpawn, RestartDue
<1>4. CASE \/ RestartEnds(i) \/ AdmitRestart(i) \/ ReadInputs(i) \/ SettleRefused(i)
           \/ SettleNothing(i) \/ WatcherSees(i) \/ MarkInstanceExited(i)
  BY <1>4 DEF RestartEnds, AdmitRestart, ReadInputs, SettleRefused, SettleNothing,
       WatcherSees, MarkInstanceExited
<1>5. CASE \/ MonitorArms(i) \/ MonitorKills(i) \/ MonitorEnds(i) \/ ProcExits(i)
           \/ \E j \in Lives : SettleStartFailed(i, j)
           \/ \E j \in Lives : SpawnNextAttempt(i, j)
  BY <1>5 DEF MonitorArms, MonitorKills, MonitorEnds, ProcExits, SettleStartFailed,
       SpawnNextAttempt
<1> QED BY <1>1, <1>2, <1>3, <1>4, <1>5, <1>6 DEF LifeStep, StartStep, RestartStep, WatchStep,
    MonitorStep

LEMMA StopFrame ==
  ASSUME NEW s \in Stops, StopAdmit(s) \/ StopStep(s)
  PROVE  UNCHANGED <<run, info, watch, mon, rem, over, reset, epoch, detached, lost, crossed>>
<1> USE DEF history
<1>1. CASE StopAdmit(s) \/ StopLook(s) \/ StopClaimsRunning(s)
           \/ StopClears(s) \/ StopClaimsStarting(s)
  BY <1>1 DEF StopAdmit, StopLook, StopClaimsRunning, StopClears, StopClaimsStarting,
       lifeVars, requestVars
<1>2. CASE StopAwaitsStart(s) \/ StopKills(s) \/ StopRemoves(s) \/ StopDropped(s)
  BY <1>2 DEF StopAwaitsStart, StopKills, StopRemoves, StopDropped, lifeVars,
       requestVars
<1> QED BY <1>1, <1>2 DEF StopStep

LEMMA RemoveFrame ==
  ASSUME NEW r \in Removers, RemoveCollects(r) \/ RemoveStep(r)
  PROVE  /\ UNCHANGED <<run, info, watch, mon, stop, over, reset, epoch, stopped, crossed>>
         /\ RemoveClears(r) \/ UNCHANGED lost
<1> USE DEF history
<1>1. CASE RemoveCollects(r) \/ RemoveRefuses(r) \/ RemoveNotes(r)
           \/ RemoveFails(r) \/ RemoveWithdraws(r)
  BY <1>1 DEF RemoveCollects, RemoveRefuses, RemoveNotes, RemoveFails,
       RemoveWithdraws, lifeVars, requestVars
<1>2. CASE RemoveClaims(r) \/ RemoveKills(r) \/ RemoveClears(r) \/ RemoveDropped(r)
  BY <1>2 DEF RemoveClaims, RemoveKills, RemoveClears, RemoveDropped, lifeVars,
       requestVars
<1> QED BY <1>1, <1>2 DEF RemoveStep

LEMMA OverwriteFrame ==
  ASSUME NEW o \in Overwriters, OverwriteLooks(o) \/ OverwriteStep(o)
  PROVE  /\ UNCHANGED <<run, info, watch, mon, stop, rem, reset, epoch, detached, stopped,
                       crossed>>
         /\ OverwriteRemoves(o) \/ UNCHANGED lost
<1> USE DEF history
<1>1. CASE OverwriteLooks(o) \/ OverwriteClaims(o) \/ OverwriteKills(o)
           \/ OverwriteRemoves(o) \/ OverwriteDropped(o)
  BY <1>1 DEF OverwriteLooks, OverwriteClaims, OverwriteKills, OverwriteRemoves,
       OverwriteDropped, lifeVars, requestVars
<1> QED BY <1>1 DEF OverwriteStep

LEMMA ResetFrame ==
  ASSUME ResetBegins \/ ResetStep
  PROVE  UNCHANGED <<run, info, watch, mon, stop, rem, over, detached, stopped, lost, crossed>>
<1> USE DEF history
<1>1. CASE ResetBegins \/ ResetTakesStack \/ ResetClaims \/ ResetKills \/ ResetClears
  BY <1>1 DEF ResetBegins, ResetTakesStack, ResetClaims, ResetKills, ResetClears,
       lifeVars, requestVars
<1> QED BY <1>1 DEF ResetStep

(***************************************************************************)
(* Type correctness, whatever the requests and however they overlap.       *)
(***************************************************************************)

LEMMA SlotTypesLife ==
  ASSUME SlotTypes, NEW i \in Lives, LifeStep(i)
  PROVE  SlotTypes'
<1> USE LifecycleAssumption
<1>0. slot \in Slots /\ 0 \in 0 .. MaxLives /\ i \in 0 .. MaxLives /\ i # 0
  BY DEF SlotTypes, Lives, LifecycleAssumption
<1>1. ASSUME RegisterNew(i) PROVE SlotTypes'
  <2>1. CASE UNCHANGED slot
    BY <2>1 DEF SlotTypes
  <2>2. CASE \E policy \in Policies :
               slot' = [NoSlot EXCEPT !.id = i, !.st = "starting", !.policy = policy]
    <3>1. PICK policy \in Policies :
                 slot' = [NoSlot EXCEPT !.id = i, !.st = "starting", !.policy = policy]
      BY <2>2
    <3>2. slot' = [id |-> i, st |-> "starting", pid |-> 0, policy |-> policy, attempt |-> 0,
                   count |-> 0, kill |-> FALSE, notes |-> 0]
      BY <3>1 DEF NoSlot
    <3> QED BY <1>0, <3>2 DEF SlotTypes, Slots, States, LifecycleAssumption
  <2> QED BY <1>1, <2>1, <2>2 DEF RegisterNew
<1>2. ASSUME BeginRespawn(i) PROVE SlotTypes'
  <2>1. CASE UNCHANGED slot
    BY <2>1 DEF SlotTypes
  <2>2. CASE AwaitsRestart /\ slot' = [slot EXCEPT !.st = "starting", !.pid = 0]
    <3>1. slot' \in Slots
      BY <1>0, <2>2, SlotUpdates DEF States
    <3> QED BY <1>0, <2>2, <3>1 DEF SlotTypes, Slots, AwaitsRestart
  <2> QED BY <1>2, <2>1, <2>2 DEF BeginRespawn
<1>3. ASSUME slot' = UndoStart PROVE SlotTypes'
  BY <1>3, UndoTypes DEF SlotTypes
<1>4. ASSUME Fork(i) PROVE SlotTypes'
  <2>1. CASE slot' = [slot EXCEPT !.pid = i]
    <3>1. slot' \in Slots
      BY <1>0, <2>1, SlotUpdates
    <3> QED BY <1>0, <2>1, <3>1 DEF SlotTypes, Slots
  <2>2. CASE UNCHANGED slot
    BY <2>2 DEF SlotTypes
  <2> QED BY <1>3, <1>4, <2>1, <2>2 DEF Fork
<1>5. ASSUME CommitStarted(i) PROVE SlotTypes'
  <2>1. CASE UNCHANGED slot
    BY <2>1 DEF SlotTypes
  <2>2. CASE /\ slot.st = "starting"
             /\ slot' = [slot EXCEPT !.st = "running",
                                     !.count = IF slot.attempt > 0 THEN @ + 1 ELSE @]
    <3>0. slot.count \in Nat /\ slot.count + 1 \in Nat
      BY <1>0 DEF Slots
    <3>1. PICK c \in Nat : slot' = [slot EXCEPT !.st = "running", !.count = c]
      BY <2>2, <3>0
    <3>2. slot' \in Slots
      BY <1>0, <3>1, SlotUpdates DEF States
    <3> QED BY <1>0, <2>2, <3>1, <3>2 DEF SlotTypes, Slots
  <2> QED BY <1>5, <2>1, <2>2 DEF CommitStarted
<1>6. ASSUME SettleRefused(i) PROVE SlotTypes'
  <2>1. AwaitsRestart /\ slot' = [slot EXCEPT !.st = "failed"]
    BY <1>6 DEF SettleRefused
  <2>2. slot' \in Slots
    BY <1>0, <2>1, SlotUpdates DEF States
  <2> QED BY <1>0, <2>1, <2>2 DEF SlotTypes, Slots, AwaitsRestart
<1>7. ASSUME NEW j \in Lives, SettleStartFailed(i, j) PROVE SlotTypes'
  <2>1. AwaitsRestart /\ slot' = TakeNextAttempt(slot, "short")
    BY <1>7 DEF SettleStartFailed
  <2>2. slot.st # "vacant" /\ slot.id # 0 /\ slot.attempt <= MaxRestarts
    BY <2>1 DEF AwaitsRestart, SlotTypes
  <2>3. /\ slot' \in Slots /\ slot'.st \in {"failed", "restarting"} /\ slot'.id = slot.id
        /\ slot'.st # "failed" => slot'.attempt \in 1 .. MaxRestarts
    BY <1>0, <2>1, <2>2, AttemptTypes
  <2> QED BY <2>2, <2>3, <1>0 DEF SlotTypes, LifecycleAssumption
<1>8. ASSUME MarkInstanceExited(i) PROVE SlotTypes'
  <2>1. CASE UNCHANGED slot
    BY <2>1 DEF SlotTypes
  <2>2. CASE RunsProcess(i) /\ \E length \in RunLengths : slot' = RecordExit(proc[i], length)
    <3>1. PICK length \in RunLengths : slot' = RecordExit(proc[i], length)
      BY <2>2
    <3>2. slot.st = "running"
      BY <2>2 DEF RunsProcess
    <3> QED BY <3>1, <3>2, ExitKeepsTypes
  <2> QED BY <1>8, <2>1, <2>2 DEF MarkInstanceExited
<1>9. ASSUME MonitorArms(i) PROVE SlotTypes'
  <2>1. CASE UNCHANGED slot
    BY <2>1 DEF SlotTypes
  <2>2. CASE slot' = [slot EXCEPT !.kill = TRUE]
    <3>1. slot' \in Slots
      BY <1>0, <2>2, SlotUpdates
    <3> QED BY <1>0, <2>2, <3>1 DEF SlotTypes, Slots
  <2> QED BY <1>9, <2>1, <2>2 DEF MonitorArms
<1>10. ASSUME PrepareFails(i) \/ AbortStarted(i) \/ RunPanics(i) PROVE SlotTypes'
  <2>1. UNCHANGED slot \/ slot' = UndoStart
    BY <1>10 DEF PrepareFails, AbortStarted, RunPanics
  <2> QED BY <1>3, <2>1 DEF SlotTypes
<1>11. CASE \/ RunAdmit(i) \/ RegisterDetached(i) \/ Ready(i)
           \/ GiveUp(i) \/ PassSetup(i) \/ Delivered(i)
           \/ RunDropped(i) \/ EndBeforeSpawn(i) \/ RestartDue(i)
  <2>1. UNCHANGED slot
    BY <1>11 DEF RunAdmit, RegisterDetached, Ready, GiveUp, PassSetup, Delivered,
         RunDropped, EndBeforeSpawn, RestartDue, lifeVars, requestVars
  <2> QED BY <2>1 DEF SlotTypes
<1>12. CASE \/ RestartEnds(i) \/ AdmitRestart(i) \/ ReadInputs(i)
           \/ SettleNothing(i) \/ WatcherSees(i) \/ MonitorKills(i)
           \/ MonitorEnds(i) \/ ProcExits(i) \/ (\E j \in Lives : SpawnNextAttempt(i, j))
  <2>1. UNCHANGED slot
    BY <1>12 DEF RestartEnds, AdmitRestart, ReadInputs, SettleNothing, WatcherSees,
         MonitorKills, MonitorEnds, ProcExits, SpawnNextAttempt, lifeVars, requestVars
  <2> QED BY <2>1 DEF SlotTypes
<1> QED BY <1>1, <1>2, <1>3, <1>4, <1>5, <1>6, <1>7, <1>8, <1>9, <1>10, <1>11, <1>12
    DEF LifeStep, StartStep, RestartStep, WatchStep, MonitorStep

LEMMA WithdrawnTypes ==
  ASSUME SlotTypes, NEW pid
  PROVE  /\ Withdrawn(pid) \in Slots
         /\ Withdrawn(pid).st = slot.st /\ Withdrawn(pid).id = slot.id
         /\ Withdrawn(pid).attempt = slot.attempt /\ Withdrawn(pid).pid = slot.pid
         /\ Withdrawn(pid).count = slot.count /\ Withdrawn(pid).kill = slot.kill
<1>1. slot \in Slots
  BY DEF SlotTypes
<1>2. CASE Withdrawn(pid) = slot
  BY <1>1, <1>2
<1>3. CASE slot.notes > 0 /\ Withdrawn(pid) = [slot EXCEPT !.notes = slot.notes - 1]
  <2>1. slot.notes - 1 \in Nat
    BY <1>1, <1>3 DEF Slots
  <2>2. Withdrawn(pid) \in Slots
    BY <1>1, <1>3, <2>1, SlotUpdates
  <2> QED BY <1>1, <1>3, <2>2 DEF Slots
<1> QED BY <1>1, <1>2, <1>3 DEF Withdrawn

LEMMA SlotTypesRequests ==
  ASSUME SlotTypes,
         \/ \E s \in Stops : StopAdmit(s) \/ StopStep(s)
         \/ \E r \in Removers : RemoveCollects(r) \/ RemoveStep(r)
         \/ \E o \in Overwriters : OverwriteLooks(o) \/ OverwriteStep(o)
         \/ ResetBegins \/ ResetStep
  PROVE  SlotTypes'
<1>0. slot \in Slots
  BY DEF SlotTypes
<1>1. CASE UNCHANGED slot
  BY <1>1 DEF SlotTypes
<1>2. CASE slot' = NoSlot
  BY <1>2, NoSlotTypes, LifecycleAssumption DEF SlotTypes, LifecycleAssumption
<1>3. CASE \E pid : slot' = Withdrawn(pid)
  BY <1>3, WithdrawnTypes DEF SlotTypes
<1>4. CASE slot' = [slot EXCEPT !.notes = slot.notes + 1]
  <2>1. slot.notes + 1 \in Nat
    BY <1>0 DEF Slots
  <2>2. slot' \in Slots
    BY <1>0, <1>4, <2>1, SlotUpdates
  <2> QED BY <1>0, <1>4, <2>2 DEF SlotTypes, Slots
<1>5. ASSUME NEW s \in Stops, StopAdmit(s) \/ StopStep(s)
      PROVE  UNCHANGED slot \/ slot' = NoSlot
  BY <1>5 DEF StopAdmit, StopStep, StopLook, StopClaimsRunning, StopClears,
     StopClaimsStarting, StopAwaitsStart, StopKills, StopRemoves, StopDropped
<1>6. ASSUME NEW r \in Removers, RemoveCollects(r) \/ RemoveStep(r)
      PROVE  \/ UNCHANGED slot \/ slot' = NoSlot
             \/ (\E pid : slot' = Withdrawn(pid))
             \/ slot' = [slot EXCEPT !.notes = slot.notes + 1]
  <2>1. CASE RemoveNotes(r)
    BY <2>1 DEF RemoveNotes
  <2>2. CASE RemoveFails(r) \/ RemoveWithdraws(r) \/ RemoveDropped(r)
    BY <2>2 DEF RemoveFails, RemoveWithdraws, RemoveDropped
  <2>3. CASE RemoveClears(r)
    BY <2>3 DEF RemoveClears
  <2>4. CASE RemoveCollects(r) \/ RemoveRefuses(r) \/ RemoveClaims(r) \/ RemoveKills(r)
    BY <2>4 DEF RemoveCollects, RemoveRefuses, RemoveClaims, RemoveKills
  <2> QED BY <1>6, <2>1, <2>2, <2>3, <2>4 DEF RemoveStep
<1>7. ASSUME NEW o \in Overwriters, OverwriteLooks(o) \/ OverwriteStep(o)
      PROVE  UNCHANGED slot \/ slot' = NoSlot
  BY <1>7 DEF OverwriteLooks, OverwriteStep, OverwriteClaims, OverwriteKills,
     OverwriteRemoves, OverwriteDropped
<1>8. ASSUME ResetBegins \/ ResetStep PROVE UNCHANGED slot \/ slot' = NoSlot
  BY <1>8 DEF ResetBegins, ResetStep, ResetTakesStack, ResetClaims, ResetKills, ResetClears
<1> QED BY <1>1, <1>2, <1>3, <1>4, <1>5, <1>6, <1>7, <1>8

LEMMA RunTypesLife ==
  ASSUME RunTypes, NEW i \in Lives, LifeStep(i)
  PROVE  RunTypes'
<1> USE DEF RunTypes
<1>1. CASE \/ RunAdmit(i) \/ RegisterNew(i) \/ RegisterDetached(i)
           \/ BeginRespawn(i)
  BY <1>1 DEF RunAdmit, RegisterNew, RegisterDetached, BeginRespawn, EndStart, RunPcs,
       HoldingPcs
<1>2. CASE \/ PrepareFails(i) \/ Fork(i) \/ Ready(i)
           \/ GiveUp(i)
  BY <1>2 DEF PrepareFails, Fork, Ready, GiveUp, EndStart, RunPcs, HoldingPcs
<1>3. CASE \/ AbortStarted(i) \/ PassSetup(i) \/ CommitStarted(i)
           \/ Delivered(i)
  BY <1>3 DEF AbortStarted, PassSetup, CommitStarted, Delivered, EndStart, RunPcs,
       HoldingPcs
<1>4. CASE \/ RunPanics(i) \/ RunDropped(i) \/ EndBeforeSpawn(i)
           \/ RestartDue(i)
  BY <1>4 DEF RunPanics, RunDropped, EndBeforeSpawn, RestartDue, EndStart, RunPcs,
       HoldingPcs
<1>5. CASE \/ RestartEnds(i) \/ AdmitRestart(i) \/ ReadInputs(i)
           \/ SettleRefused(i)
  BY <1>5 DEF RestartEnds, AdmitRestart, ReadInputs, SettleRefused, RunPcs, HoldingPcs
<1>6. CASE SettleNothing(i)
  BY <1>6 DEF SettleNothing, RunPcs, HoldingPcs
<1>7. ASSUME NEW j \in Lives, SettleStartFailed(i, j) PROVE RunTypes'
  BY <1>7 DEF SettleStartFailed, RunPcs
<1>8. ASSUME NEW j \in Lives, SpawnNextAttempt(i, j) PROVE RunTypes'
  BY <1>8 DEF SpawnNextAttempt, SpawnRestartTask, RunPcs
<1>9. CASE \/ WatcherSees(i) \/ MarkInstanceExited(i) \/ MonitorArms(i)
           \/ MonitorKills(i) \/ MonitorEnds(i) \/ ProcExits(i)
  <2>1. UNCHANGED run
    BY <1>9 DEF WatcherSees, MarkInstanceExited, MonitorArms, MonitorKills,
         MonitorEnds, ProcExits, lifeVars, requestVars
  <2> QED BY <2>1 DEF RunTypes
<1> QED BY <1>1, <1>2, <1>3, <1>4, <1>5, <1>6, <1>7, <1>8, <1>9 DEF LifeStep,
    StartStep, RestartStep, WatchStep, MonitorStep

LEMMA InfoTypesLife ==
  ASSUME InfoTypes, SlotTypes, ResetTypes, NEW i \in Lives, LifeStep(i)
  PROVE  InfoTypes'
<1> USE DEF InfoTypes
<1>0. /\ i \in 0 .. MaxLives /\ slot.id \in 0 .. MaxLives /\ epoch \in 0 .. MaxResets
      /\ slot.count \in Nat /\ info[i].home \in 0 .. MaxLives /\ info[i].outcome \in Outcomes
      /\ 0 \in 0 .. MaxLives
  <2>1. info[i] \in Infos
    OBVIOUS
  <2>2. info[i].home \in 0 .. MaxLives /\ info[i].outcome \in Outcomes
    BY <2>1 DEF Infos
  <2> QED BY <2>2, LifecycleAssumption DEF SlotTypes, Slots, ResetTypes, Lives, LifecycleAssumption
<1>1. CASE RunAdmit(i)
  <2>1. info' = [info EXCEPT ![i] = [kind |-> "new", slot |-> i, goal |-> i, home |-> i,
                                     epoch |-> epoch, count |-> 0, outcome |-> "none"]]
    BY <1>1 DEF RunAdmit
  <2> QED BY <1>0, <2>1, InfoUpdates
<1>2. CASE \/ RegisterNew(i) \/ PrepareFails(i) \/ Fork(i)
           \/ GiveUp(i) \/ AbortStarted(i) \/ CommitStarted(i)
           \/ RunPanics(i) \/ EndBeforeSpawn(i)
  <2>1. UNCHANGED info \/ \E x \in Outcomes : info' = [info EXCEPT ![i].outcome = x]
    BY <1>2, <1>0 DEF RegisterNew, PrepareFails, Fork, GiveUp, AbortStarted,
         CommitStarted, RunPanics, EndBeforeSpawn, EndStart, Outcomes
  <2>2. \A x \in Outcomes : [info EXCEPT ![i].outcome = x] \in [Lives -> Infos]
    BY InfoUpdates
  <2> QED BY <2>1, <2>2
<1>3. CASE ReadInputs(i) \/ BeginRespawn(i)
  <2>1. \/ UNCHANGED info
        \/ info' = [info EXCEPT ![i].goal = slot.id, ![i].count = slot.count]
        \/ info' = [info EXCEPT ![i].home = slot.id]
        \/ \E x \in Outcomes : info' = [info EXCEPT ![i].outcome = x]
    BY <1>3 DEF ReadInputs, BeginRespawn, EndStart, Outcomes
  <2>2. /\ \A x \in Outcomes : [info EXCEPT ![i].outcome = x] \in [Lives -> Infos]
        /\ [info EXCEPT ![i].goal = slot.id, ![i].count = slot.count] \in [Lives -> Infos]
        /\ [info EXCEPT ![i].home = slot.id] \in [Lives -> Infos]
    BY <1>0, InfoUpdates
  <2> QED BY <2>1, <2>2
<1>4. ASSUME NEW j \in Lives, SettleStartFailed(i, j) \/ SpawnNextAttempt(i, j)
      PROVE  InfoTypes'
  <2>1. \/ UNCHANGED info
        \/ \E a \in 0 .. MaxLives :
             info' = [info EXCEPT ![j] = [kind |-> "respawn", slot |-> a, goal |-> 0,
                                          home |-> 0, epoch |-> epoch, count |-> 0,
                                          outcome |-> "none"]]
    BY <1>4, <1>0 DEF SettleStartFailed, SpawnNextAttempt, SpawnRestartTask
  <2>2. \A a \in 0 .. MaxLives :
          [info EXCEPT ![j] = [kind |-> "respawn", slot |-> a, goal |-> 0, home |-> 0,
                               epoch |-> epoch, count |-> 0, outcome |-> "none"]]
            \in [Lives -> Infos]
    BY <1>0, InfoUpdates
  <2> QED BY <2>1, <2>2
<1>5. CASE \/ RegisterDetached(i) \/ Ready(i) \/ PassSetup(i)
           \/ Delivered(i) \/ RunDropped(i) \/ RestartDue(i)
           \/ RestartEnds(i) \/ AdmitRestart(i) \/ SettleRefused(i)
  <2>1. UNCHANGED info
    BY <1>5 DEF RegisterDetached, Ready, PassSetup, Delivered, RunDropped, RestartDue,
         RestartEnds, AdmitRestart, SettleRefused, lifeVars, requestVars
  <2> QED BY <2>1 DEF InfoTypes
<1>6. CASE \/ SettleNothing(i) \/ WatcherSees(i) \/ MarkInstanceExited(i)
           \/ MonitorArms(i) \/ MonitorKills(i) \/ MonitorEnds(i)
           \/ ProcExits(i)
  <2>1. UNCHANGED info
    BY <1>6 DEF SettleNothing, WatcherSees, MarkInstanceExited, MonitorArms,
         MonitorKills, MonitorEnds, ProcExits, lifeVars, requestVars
  <2> QED BY <2>1 DEF InfoTypes
<1> QED BY <1>1, <1>2, <1>3, <1>4, <1>5, <1>6 DEF LifeStep, StartStep, RestartStep,
    WatchStep, MonitorStep

LEMMA KillTypes ==
  ASSUME proc \in [Lives -> {"none", "alive", "clean", "failed"}], NEW pid
  PROVE  Kill(proc, pid) \in [Lives -> {"none", "alive", "clean", "failed"}]
BY DEF Kill

LEMMA ProcTypesLife ==
  ASSUME ProcTypes, NEW i \in Lives, LifeStep(i)
  PROVE  ProcTypes'
<1> USE KillTypes DEF ProcTypes
<1>1. CASE RegisterDetached(i) \/ Fork(i)
  BY <1>1 DEF RegisterDetached, Fork, requestVars
<1>2. CASE AbortStarted(i) \/ CommitStarted(i)
  BY <1>2 DEF AbortStarted, CommitStarted, requestVars
<1>3. CASE RunPanics(i) \/ WatcherSees(i)
  BY <1>3 DEF RunPanics, WatcherSees, requestVars
<1>4. CASE MarkInstanceExited(i) \/ MonitorArms(i)
  BY <1>4 DEF MarkInstanceExited, MonitorArms, requestVars
<1>5. CASE MonitorKills(i) \/ MonitorEnds(i)
  BY <1>5 DEF MonitorKills, MonitorEnds, requestVars
<1>6. CASE ProcExits(i)
  BY <1>6 DEF ProcExits, requestVars
<1>7. ASSUME NEW j \in Lives, SettleStartFailed(i, j) \/ SpawnNextAttempt(i, j)
      PROVE  ProcTypes'
  BY <1>7 DEF SettleStartFailed, SpawnNextAttempt
<1>8. CASE \/ RunAdmit(i) \/ RegisterNew(i) \/ BeginRespawn(i)
           \/ PrepareFails(i) \/ Ready(i) \/ GiveUp(i)
           \/ PassSetup(i) \/ Delivered(i) \/ RunDropped(i)
  <2>1. UNCHANGED <<proc, watch, mon>>
    BY <1>8 DEF RunAdmit, RegisterNew, BeginRespawn, PrepareFails, Ready, GiveUp,
         PassSetup, Delivered, RunDropped, lifeVars, requestVars
  <2> QED BY <2>1 DEF ProcTypes
<1>9. CASE \/ EndBeforeSpawn(i) \/ RestartDue(i) \/ RestartEnds(i)
           \/ AdmitRestart(i) \/ ReadInputs(i) \/ SettleRefused(i)
           \/ SettleNothing(i)
  <2>1. UNCHANGED <<proc, watch, mon>>
    BY <1>9 DEF EndBeforeSpawn, RestartDue, RestartEnds, AdmitRestart, ReadInputs,
         SettleRefused, SettleNothing, lifeVars, requestVars
  <2> QED BY <2>1 DEF ProcTypes
<1> QED BY <1>1, <1>2, <1>3, <1>4, <1>5, <1>6, <1>7, <1>8, <1>9 DEF LifeStep,
    StartStep, RestartStep, WatchStep, MonitorStep

LEMMA ProcTypesRequests ==
  ASSUME ProcTypes,
         \/ \E s \in Stops : StopAdmit(s) \/ StopStep(s)
         \/ \E r \in Removers : RemoveCollects(r) \/ RemoveStep(r)
         \/ \E o \in Overwriters : OverwriteLooks(o) \/ OverwriteStep(o)
         \/ ResetBegins \/ ResetStep
  PROVE  ProcTypes'
<1>1. UNCHANGED <<watch, mon>>
  BY StopFrame, RemoveFrame, OverwriteFrame, ResetFrame
<1>2. UNCHANGED proc \/ \E pid : proc' = Kill(proc, pid)
  <2>1. ASSUME NEW s \in Stops, StopAdmit(s) \/ StopStep(s)
        PROVE  UNCHANGED proc \/ \E pid : proc' = Kill(proc, pid)
    BY <2>1 DEF StopAdmit, StopStep, StopLook, StopClaimsRunning, StopClears,
       StopClaimsStarting, StopAwaitsStart, StopKills, StopRemoves, StopDropped, lifeVars
  <2>2. ASSUME NEW r \in Removers, RemoveCollects(r) \/ RemoveStep(r)
        PROVE  UNCHANGED proc \/ \E pid : proc' = Kill(proc, pid)
    BY <2>2 DEF RemoveCollects, RemoveStep, RemoveRefuses, RemoveNotes, RemoveFails,
       RemoveWithdraws, RemoveClaims, RemoveKills, RemoveClears, RemoveDropped, lifeVars
  <2>3. ASSUME NEW o \in Overwriters, OverwriteLooks(o) \/ OverwriteStep(o)
        PROVE  UNCHANGED proc \/ \E pid : proc' = Kill(proc, pid)
    BY <2>3 DEF OverwriteLooks, OverwriteStep, OverwriteClaims, OverwriteKills,
       OverwriteRemoves, OverwriteDropped, lifeVars
  <2>4. ASSUME ResetBegins \/ ResetStep
        PROVE  UNCHANGED proc \/ \E pid : proc' = Kill(proc, pid)
    BY <2>4 DEF ResetBegins, ResetStep, ResetTakesStack, ResetClaims, ResetKills,
       ResetClears, lifeVars
  <2> QED BY <2>1, <2>2, <2>3, <2>4
<1> QED BY <1>1, <1>2, KillTypes DEF ProcTypes

LEMMA StopTypesStep ==
  ASSUME StopTypes, SlotTypes, NEW s \in Stops, StopAdmit(s) \/ StopStep(s)
  PROVE  StopTypes'
<1> USE DEF StopTypes, StopRecs, history
<1>0. slot.st \in States /\ slot.pid \in 0 .. MaxLives /\ slot.id \in 0 .. MaxLives
  BY DEF SlotTypes, Slots
<1>1. slot.st # "vacant" => slot.id # 0 /\ slot.id \in Lives
  BY <1>0, LifecycleAssumption DEF SlotTypes, Lives, LifecycleAssumption
<1>2. CASE StopAdmit(s)
  BY <1>0, <1>1, <1>2 DEF StopAdmit
<1>3. CASE StopLook(s)
  <2>1. PICK p \in {"done", "act"} :
          stop' = [stop EXCEPT ![s].pc = p, ![s].st = slot.st, ![s].pid = slot.pid]
    BY <1>3 DEF StopLook
  <2>2. stopped' = stopped
    BY <1>3 DEF StopLook
  <2>3. stop' \in [Stops -> StopRecs]
    <3>1. [stop EXCEPT ![s].pc = p] \in [Stops -> StopRecs]
      OBVIOUS
    <3>2. ASSUME NEW f \in [Stops -> StopRecs]
          PROVE  [f EXCEPT ![s].st = slot.st] \in [Stops -> StopRecs]
      BY <1>0
    <3>3. ASSUME NEW f \in [Stops -> StopRecs]
          PROVE  [f EXCEPT ![s].pid = slot.pid] \in [Stops -> StopRecs]
      BY <1>0
    <3> QED BY <2>1, <3>1, <3>2, <3>3
  <2>4. /\ stop'[s].pc = p
        /\ \A x \in Stops \ {s} : stop'[x] = stop[x]
    BY <2>1
  <2> QED BY <2>2, <2>3, <2>4
<1>4. CASE StopClaimsRunning(s)
  BY <1>0, <1>1, <1>4 DEF StopClaimsRunning, RunsProcess
<1>5. CASE StopClears(s)
  BY <1>0, <1>1, <1>5 DEF StopClears, Removable
<1>6. CASE StopClaimsStarting(s)
  <2>1. \/ \E p \in {"look", "done"} : stop' = [stop EXCEPT ![s].pc = p]
        \/ /\ slot.id # 0
           /\ stop' = [stop EXCEPT ![s].pc = "await_start", ![s].target = slot.id]
    BY <1>1, <1>6 DEF StopClaimsStarting, StartsARestart
  <2>2. stopped' = stopped
    BY <1>6 DEF StopClaimsStarting
  <2> QED BY <1>0, <2>1, <2>2
<1>7. CASE StopAwaitsStart(s)
  BY <1>0, <1>1, <1>7 DEF StopAwaitsStart, Lives
<1>8. CASE StopKills(s)
  BY <1>0, <1>1, <1>8 DEF StopKills
<1>9. CASE StopRemoves(s)
  BY <1>0, <1>1, <1>9 DEF StopRemoves, Lives
<1>10. CASE StopDropped(s)
  BY <1>0, <1>1, <1>10 DEF StopDropped
<1> QED BY <1>1, <1>2, <1>3, <1>4, <1>5, <1>6, <1>7, <1>8, <1>9, <1>10 DEF StopStep

LEMMA RemTypesStep ==
  ASSUME RemTypes, SlotTypes, NEW r \in Removers, RemoveCollects(r) \/ RemoveStep(r)
  PROVE  RemTypes'
<1> USE DEF RemTypes, RemRecs
<1>0. slot.st \in States /\ slot.pid \in 0 .. MaxLives /\ 0 \in 0 .. MaxLives
  BY LifecycleAssumption DEF SlotTypes, Slots, LifecycleAssumption
<1>1. CASE RemoveCollects(r)
  <2>1. PICK p \in 0 .. MaxLives :
          rem' = [rem EXCEPT ![r].pc = "collected", ![r].st = slot.st, ![r].pid = p]
    BY <1>0, <1>1 DEF RemoveCollects
  <2>2. detached' = detached
    BY <1>1 DEF RemoveCollects
  <2>3. [rem[r] EXCEPT !.pc = "collected", !.st = slot.st, !.pid = p] \in RemRecs
    BY <1>0
  <2> HIDE DEF RemRecs
  <2>4. rem' \in [Removers -> RemRecs]
    BY <2>1, <2>3
  <2> QED BY <2>2, <2>4
<1>2. CASE RemoveNotes(r)
  <2>1. rem' = [rem EXCEPT ![r].pc = "asking", ![r].noted = rem[r].pid] /\ detached' = detached
    BY <1>2 DEF RemoveNotes
  <2> QED BY <2>1
<1>3. CASE RemoveFails(r) \/ RemoveWithdraws(r) \/ RemoveDropped(r) \/ RemoveClears(r)
  <2>1. \/ rem' = [rem EXCEPT ![r].pc = "done", ![r].noted = 0]
        \/ rem' = [rem EXCEPT ![r].pc = "standing"]
    BY <1>3 DEF RemoveFails, RemoveWithdraws, RemoveDropped, RemoveClears
  <2>2. detached' \subseteq Lives
    BY <1>3 DEF RemoveFails, RemoveWithdraws, RemoveDropped, RemoveClears, LookedUp
  <2>3. rem' \in [Removers -> RemRecs]
    BY <1>0, <2>1
  <2> QED BY <2>2, <2>3
<1>4. CASE RemoveClaims(r)
  <2>1. PICK b \in BOOLEAN : rem' = [rem EXCEPT ![r].pc = "killing", ![r].claim = b]
    BY <1>4 DEF RemoveClaims, RunsProcess, IsStopping
  <2>2. detached' = detached
    BY <1>4 DEF RemoveClaims
  <2> QED BY <2>1, <2>2
<1>5. CASE RemoveRefuses(r) \/ RemoveKills(r)
  BY <1>5 DEF RemoveRefuses, RemoveKills
<1> QED BY <1>1, <1>2, <1>3, <1>4, <1>5 DEF RemoveStep

LEMMA ResetTypesStep ==
  ASSUME ResetTypes, SlotTypes,
         \/ \E o \in Overwriters : OverwriteLooks(o) \/ OverwriteStep(o)
         \/ ResetBegins \/ ResetStep
  PROVE  ResetTypes'
<1> USE DEF ResetTypes
<1>0. /\ slot.pid \in 0 .. MaxLives /\ slot.id \in 0 .. MaxLives
      /\ 0 \in 0 .. MaxLives /\ MaxResets \in Nat
  BY LifecycleAssumption DEF SlotTypes, Slots, LifecycleAssumption
<1>1. ASSUME NEW o \in Overwriters, OverwriteLooks(o) \/ OverwriteStep(o)
      PROVE  ResetTypes'
  <2>1. UNCHANGED <<reset, epoch>>
    BY <1>1, OverwriteFrame
  <2>2. \/ \E p \in {"done", "claiming", "killing", "removing", "cancelled"} :
             over' = [over EXCEPT ![o].pc = p]
        \/ over' = [over EXCEPT ![o].pc = "killing", ![o].pid = slot.pid,
                                ![o].target = slot.id]
    BY <1>1 DEF OverwriteLooks, OverwriteStep, OverwriteClaims, OverwriteKills,
       OverwriteRemoves, OverwriteDropped
  <2>3. ASSUME NEW rec \in OverRecs, NEW a \in 0 .. MaxLives, NEW b \in 0 .. MaxLives
        PROVE  [rec EXCEPT !.pc = "killing", !.pid = a, !.target = b] \in OverRecs
    BY DEF OverRecs
  <2>4. CASE over' = [over EXCEPT ![o].pc = "killing", ![o].pid = slot.pid,
                                  ![o].target = slot.id]
    <3>1. over[o] \in OverRecs
      OBVIOUS
    <3>2. [over[o] EXCEPT !.pc = "killing", !.pid = slot.pid, !.target = slot.id] \in OverRecs
      BY <1>0, <2>3, <3>1
    <3> QED BY <2>1, <2>4, <3>2
  <2>5. CASE \E p \in {"done", "claiming", "killing", "removing", "cancelled"} :
               over' = [over EXCEPT ![o].pc = p]
    <3>1. over' \in [Overwriters -> OverRecs]
      BY <2>5 DEF OverRecs
    <3> QED BY <2>1, <3>1
  <2> QED BY <2>2, <2>4, <2>5
<1>2. ASSUME ResetBegins \/ ResetStep PROVE ResetTypes'
  <2>1. UNCHANGED over
    BY <1>2, ResetFrame
  <2> QED BY <1>0, <1>2, <2>1 DEF ResetBegins, ResetStep, ResetTakesStack, ResetClaims,
       ResetKills, ResetClears
<1> QED BY <1>1, <1>2

\* A slot is claimed while it is there.
LEMMA ClaimsNow ==
  ASSUME SlotTypes, StopTypes, [Next]_vars
  PROVE  /\ claimed' \in {claimed, claimed \cup {slot.id}}
         /\ claimed' # claimed => slot.st # "vacant"
<1> DEFINE Goal == /\ claimed' \in {claimed, claimed \cup {slot.id}}
                   /\ claimed' # claimed => slot.st # "vacant"
<1>1. ASSUME NEW s \in Stops, StopAdmit(s) \/ StopStep(s) PROVE Goal
  <2>1. CASE StopClaimsRunning(s) \/ StopClaimsStarting(s)
    BY <2>1 DEF StopClaimsRunning, StopClaimsStarting, RunsProcess, StartsARestart
  <2>2. CASE StopClears(s) \/ StopRemoves(s)
    BY <2>2 DEF StopClears, StopRemoves, Removable
  <2>3. CASE StopAdmit(s) \/ StopLook(s) \/ StopAwaitsStart(s) \/ StopKills(s) \/ StopDropped(s)
    BY <2>3 DEF StopAdmit, StopLook, StopAwaitsStart, StopKills, StopDropped
  <2> QED BY <1>1, <2>1, <2>2, <2>3 DEF StopStep
<1>2. ASSUME NEW r \in Removers, RemoveCollects(r) \/ RemoveStep(r) PROVE Goal
  <2>1. CASE RemoveClaims(r) \/ RemoveClears(r)
    BY <2>1 DEF RemoveClaims, RemoveClears, RunsProcess, Removable
  <2>2. CASE \/ RemoveCollects(r) \/ RemoveRefuses(r) \/ RemoveNotes(r) \/ RemoveFails(r)
             \/ RemoveWithdraws(r) \/ RemoveKills(r) \/ RemoveDropped(r)
    BY <2>2 DEF RemoveCollects, RemoveRefuses, RemoveNotes, RemoveFails, RemoveWithdraws,
       RemoveKills, RemoveDropped
  <2> QED BY <1>2, <2>1, <2>2 DEF RemoveStep
<1>3. ASSUME NEW o \in Overwriters, OverwriteLooks(o) \/ OverwriteStep(o) PROVE Goal
  BY <1>3 DEF OverwriteLooks, OverwriteStep, OverwriteClaims, OverwriteKills,
     OverwriteRemoves, OverwriteDropped
<1>4. ASSUME ResetBegins \/ ResetStep PROVE Goal
  BY <1>4 DEF ResetBegins, ResetStep, ResetTakesStack, ResetClaims, ResetKills, ResetClears
<1>5. CASE (\E i \in Lives : LifeStep(i)) \/ UNCHANGED vars
  BY <1>5, LifeFrame DEF vars
<1> QED BY <1>1, <1>2, <1>3, <1>4, <1>5, StepCases

\* What was left behind, or taken for another's, stays so.
LEMMA HistoryGrows ==
  ASSUME lost \subseteq Lives, crossed \in BOOLEAN, [Next]_vars
  PROVE  lost' \subseteq Lives /\ lost \subseteq lost' /\ crossed' \in BOOLEAN /\ (crossed => crossed')
<1>1. ASSUME NEW i \in Lives, LifeStep(i)
      PROVE  lost' \subseteq Lives /\ lost \subseteq lost' /\ crossed' \in BOOLEAN /\ (crossed => crossed')
  BY <1>1, LifeFrame
<1>2. ASSUME NEW r \in Removers, RemoveCollects(r) \/ RemoveStep(r)
      PROVE  lost' \subseteq Lives /\ lost \subseteq lost' /\ crossed' \in BOOLEAN /\ (crossed => crossed')
  BY <1>2, RemoveFrame DEF RemoveClears, Alive
<1>3. ASSUME NEW o \in Overwriters, OverwriteLooks(o) \/ OverwriteStep(o)
      PROVE  lost' \subseteq Lives /\ lost \subseteq lost' /\ crossed' \in BOOLEAN /\ (crossed => crossed')
  BY <1>3, OverwriteFrame DEF OverwriteRemoves, Alive
<1>4. CASE \/ \E s \in Stops : StopAdmit(s) \/ StopStep(s)
           \/ ResetBegins \/ ResetStep
  BY <1>4, StopFrame, ResetFrame
<1>5. CASE UNCHANGED vars
  BY <1>5 DEF vars
<1> QED BY <1>1, <1>2, <1>3, <1>4, <1>5, StepCases

LEMMA TypeInit == Init => TypeInv
<1> SUFFICES ASSUME Init PROVE TypeInv
  OBVIOUS
<1>1. 0 \in 0 .. MaxLives /\ 0 \in 0 .. MaxResets
  BY LifecycleAssumption DEF LifecycleAssumption
<1>2. SlotTypes
  BY LifecycleAssumption, NoSlotTypes DEF Init, SlotTypes, LifecycleAssumption
<1>7. claimed \subseteq Lives /\ lost \subseteq Lives /\ crossed \in BOOLEAN
  BY DEF Init
<1>3. RunTypes /\ ProcTypes
  BY DEF Init, RunTypes, ProcTypes, RunPcs
<1>4. InfoTypes
  BY <1>1 DEF Init, InfoTypes, Infos, Outcomes
<1>5. StopTypes /\ RemTypes
  BY <1>1 DEF Init, StopTypes, RemTypes, StopRecs, RemRecs, States
<1>6. ResetTypes
  BY <1>1 DEF Init, ResetTypes, OverRecs
<1> QED BY <1>2, <1>3, <1>4, <1>5, <1>6, <1>7 DEF TypeInv

LEMMA TypeStep == TypeInv /\ [Next]_vars => TypeInv'
<1> SUFFICES ASSUME TypeInv, [Next]_vars PROVE TypeInv'
  OBVIOUS
<1>0. /\ SlotTypes /\ RunTypes /\ InfoTypes /\ ProcTypes /\ StopTypes /\ RemTypes /\ ResetTypes
      /\ claimed \subseteq Lives /\ lost \subseteq Lives /\ crossed \in BOOLEAN
  BY DEF TypeInv
<1>1. claimed' \subseteq Lives /\ lost' \subseteq Lives /\ crossed' \in BOOLEAN
  <2>1. slot.st # "vacant" => slot.id \in Lives
    BY <1>0, LifecycleAssumption DEF SlotTypes, Slots, Lives, LifecycleAssumption
  <2>2. claimed' \subseteq Lives
    BY <1>0, <2>1, ClaimsNow
  <2>3. lost' \subseteq Lives /\ crossed' \in BOOLEAN
    BY <1>0, HistoryGrows
  <2> QED BY <2>2, <2>3
<1>2. ASSUME NEW i \in Lives, LifeStep(i) PROVE TypeInv'
  <2>1. UNCHANGED asked
    BY <1>2, LifeFrame
  <2>2. StopTypes' /\ RemTypes' /\ ResetTypes'
    BY <1>0, <2>1 DEF asked, StopTypes, RemTypes, ResetTypes
  <2>3. SlotTypes' /\ RunTypes' /\ InfoTypes' /\ ProcTypes'
    BY <1>0, <1>2, SlotTypesLife, RunTypesLife, InfoTypesLife, ProcTypesLife
  <2> QED BY <1>1, <2>2, <2>3 DEF TypeInv
<1>3. ASSUME NEW s \in Stops, StopAdmit(s) \/ StopStep(s) PROVE TypeInv'
  <2>1. RunTypes' /\ InfoTypes' /\ RemTypes' /\ ResetTypes'
    BY <1>0, <1>3, StopFrame DEF RunTypes, InfoTypes, RemTypes, ResetTypes
  <2>2. SlotTypes' /\ ProcTypes' /\ StopTypes'
    BY <1>0, <1>3, SlotTypesRequests, ProcTypesRequests, StopTypesStep
  <2> QED BY <1>1, <2>1, <2>2 DEF TypeInv
<1>4. ASSUME NEW r \in Removers, RemoveCollects(r) \/ RemoveStep(r) PROVE TypeInv'
  <2>1. RunTypes' /\ InfoTypes' /\ StopTypes' /\ ResetTypes'
    BY <1>0, <1>4, RemoveFrame DEF RunTypes, InfoTypes, StopTypes, ResetTypes
  <2>2. SlotTypes' /\ ProcTypes' /\ RemTypes'
    BY <1>0, <1>4, SlotTypesRequests, ProcTypesRequests, RemTypesStep
  <2> QED BY <1>1, <2>1, <2>2 DEF TypeInv
<1>5. ASSUME NEW o \in Overwriters, OverwriteLooks(o) \/ OverwriteStep(o) PROVE TypeInv'
  <2>1. RunTypes' /\ InfoTypes' /\ StopTypes' /\ RemTypes'
    BY <1>0, <1>5, OverwriteFrame DEF RunTypes, InfoTypes, StopTypes, RemTypes
  <2>2. SlotTypes' /\ ProcTypes' /\ ResetTypes'
    BY <1>0, <1>5, SlotTypesRequests, ProcTypesRequests, ResetTypesStep
  <2> QED BY <1>1, <2>1, <2>2 DEF TypeInv
<1>6. ASSUME ResetBegins \/ ResetStep PROVE TypeInv'
  <2>1. RunTypes' /\ InfoTypes' /\ StopTypes' /\ RemTypes'
    BY <1>0, <1>6, ResetFrame DEF RunTypes, InfoTypes, StopTypes, RemTypes
  <2>2. SlotTypes' /\ ProcTypes' /\ ResetTypes'
    BY <1>0, <1>6, SlotTypesRequests, ProcTypesRequests, ResetTypesStep
  <2> QED BY <1>1, <2>1, <2>2 DEF TypeInv
<1>7. CASE UNCHANGED vars
  BY <1>0, <1>7 DEF vars, TypeInv, SlotTypes, RunTypes, InfoTypes, ProcTypes, StopTypes,
     RemTypes, ResetTypes
<1> QED BY <1>2, <1>3, <1>4, <1>5, <1>6, <1>7, StepCases

LEMMA TypesHold == Spec => []TypeInv
BY TypeInit, TypeStep, PTL DEF Spec

\* Every variable keeps its type whatever requests overlap: no attempt passes the
\* one that max_restarts refuses (advance_backoff), no count of notes goes below
\* zero, and nothing but an instance that is on the stack is claimed or stopped.
THEOREM LifecycleTypeCorrect == Spec => []TypeOK
<1>1. TypeInv => TypeOK
  BY DEF TypeInv, SlotTypes, RunTypes, InfoTypes, ProcTypes, StopTypes, RemTypes, ResetTypes,
     StopRecs, RemRecs, OverRecs, TypeOK
<1> QED BY <1>1, TypesHold, PTL

(***************************************************************************)
(* What a step of a life does, in the terms the invariant speaks of.       *)
(***************************************************************************)

SameInfo(k) ==
  info'[k].kind = info[k].kind /\ info'[k].goal = info[k].goal /\ info'[k].home = info[k].home
InfoKept == \A k \in Lives : SameInfo(k)

\* Life j begins, as a first start (its own home h) or as a restart task (0).
Begins(j, kind, h) ==
  /\ info'[j].kind = kind /\ info'[j].goal = h /\ info'[j].home = h
  /\ \A k \in Lives \ {j} : SameInfo(k)

SlotBecomes(a, x, p, at, c) ==
  slot'.id = a /\ slot'.st = x /\ slot'.pid = p /\ slot'.attempt = at /\ slot'.count = c
SlotKept == SlotBecomes(slot.id, slot.st, slot.pid, slot.attempt, slot.count)
MarksKept == slot'.notes = slot.notes /\ slot'.kill = slot.kill

Admits(i) ==
  /\ run[i] = "unused" /\ reset.pc = "idle"
  /\ run' = [run EXCEPT ![i] = "begin"] /\ Begins(i, "new", i)
  /\ UNCHANGED <<slot, proc, watch, mon>>

\* The start or the task of life i moves on.
Advances(i) ==
  /\ \E x \in RunPcs :
       /\ run' = [run EXCEPT ![i] = x]
       /\ \/ run[i] = "waiting" /\ x = "admitting"
          \/ run[i] = "admitting" /\ x = "inputs" /\ reset.pc = "idle"
          \/ run[i] \in {"forked", "ready"} /\ x \in {"ready", "giving_up", "committing"}
  /\ InfoKept /\ UNCHANGED <<slot, proc, watch, mon>>

\* It reads the slot that awaits a restart.
Reads(i) ==
  /\ run[i] = "inputs" /\ run' = [run EXCEPT ![i] = "begin"]
  /\ info'[i].kind = info[i].kind /\ info'[i].home = info[i].home
  /\ \A k \in Lives \ {i} : SameInfo(k)
  /\ UNCHANGED <<slot, proc, watch, mon>>

\* It ends, or leaves its outcome to the supervisor, and the slot as it is.
Retires(i) ==
  /\ run[i] # "unused"
  /\ \/ run' = [run EXCEPT ![i] = "done"]
     \/ run' = [run EXCEPT ![i] = "settle"] /\ run[i] = "begin" /\ info[i].kind = "respawn"
  /\ run[i] \in Driving => reset.pc = "draining"
  /\ InfoKept /\ UNCHANGED <<slot, proc, watch, mon>>

Registers(i) ==
  /\ run[i] = "begin" /\ info[i].kind = "new" /\ slot.st = "vacant"
  /\ run' = [run EXCEPT ![i] = "preparing"]
  /\ SlotBecomes(i, "starting", 0, 0, 0) /\ slot'.notes = 0 /\ slot'.kill = FALSE
  /\ InfoKept /\ UNCHANGED <<proc, watch, mon>>

\* It registers on a handle that left the stack.
Detaches(i) ==
  /\ run[i] = "begin" /\ info[i].kind = "new" /\ run' = [run EXCEPT ![i] = "done"]
  /\ proc' = [proc EXCEPT ![i] = "alive"] /\ i \in lost'
  /\ InfoKept /\ UNCHANGED <<slot, watch, mon>>

Respawns(i) ==
  /\ run[i] = "begin" /\ info[i].kind = "respawn" /\ AwaitsRestart
  /\ run' = [run EXCEPT ![i] = "preparing"]
  /\ SlotBecomes(slot.id, "starting", 0, slot.attempt, slot.count) /\ MarksKept
  /\ info'[i].kind = info[i].kind /\ info'[i].home = slot.id
  /\ \A k \in Lives \ {i} : SameInfo(k)
  /\ UNCHANGED <<proc, watch, mon>>

\* The start in flight is undone, its process killed.
Undoes(i) ==
  /\ run[i] \in Driving
  /\ run' = [run EXCEPT ![i] = IF info[i].kind = "new" THEN "done" ELSE "settle"]
  /\ proc' \in {proc, Kill(proc, i)} /\ proc'[i] # "alive"
  /\ IF info[i].kind = "new" \/ IsStopping THEN slot' = NoSlot
     ELSE SlotBecomes(slot.id, "restarting", 0, slot.attempt, slot.count) /\ MarksKept
  /\ InfoKept /\ UNCHANGED <<watch, mon>>

Forks(i) ==
  /\ run[i] = "preparing" /\ ~IsStopping
  /\ run' = [run EXCEPT ![i] = "forked"] /\ proc' = [proc EXCEPT ![i] = "alive"]
  /\ SlotBecomes(slot.id, slot.st, i, slot.attempt, slot.count) /\ MarksKept
  /\ InfoKept /\ UNCHANGED <<watch, mon>>

Commits(i) ==
  /\ run[i] = "committing" /\ run' = [run EXCEPT ![i] = "delivering"]
  /\ \E c \in Nat : SlotBecomes(slot.id, "running", slot.pid, slot.attempt, c)
  /\ MarksKept
  /\ watch' = [watch EXCEPT ![i] = "waiting"] /\ mon' = [mon EXCEPT ![i] = "probing"]
  /\ InfoKept /\ UNCHANGED proc

\* A process ends or is seen to.
Observes(i) ==
  /\ UNCHANGED <<run, info>> /\ SlotKept
  /\ \/ UNCHANGED proc
     \/ \E x \in {"clean", "failed"} : proc[i] = "alive" /\ proc' = [proc EXCEPT ![i] = x]
  /\ \/ UNCHANGED watch
     \/ /\ watch[i] = "waiting" /\ proc[i] \in {"clean", "failed"} /\ UNCHANGED proc
        /\ watch' = [watch EXCEPT ![i] = "exited"]
  /\ slot'.notes = slot.notes
  /\ \/ slot'.kill = slot.kill /\ (\A k \in Lives : mon'[k] \in {mon[k], "done"})
     \/ mon' = [mon EXCEPT ![i] = "armed"] /\ RunsProcess(i)

\* The exit of the process the slot runs is recorded.
Records(i) ==
  /\ watch[i] = "exited" /\ RunsProcess(i) /\ ~IsStopping
  /\ slot'.id = slot.id /\ slot'.st \in {"failed", "finished", "restarting"}
  /\ slot'.pid = 0 /\ slot'.kill = FALSE
  /\ slot'.st = "restarting" => slot'.attempt > 0 /\ slot'.notes = 0
  /\ watch' = [watch EXCEPT ![i] = IF slot'.st = "restarting" THEN "announcing" ELSE "done"]
  /\ UNCHANGED <<run, info, proc, mon>>

\* A watcher is done, its process another's matter.
Leaves(i) ==
  /\ \/ watch[i] = "exited"
     \/ watch[i] = "announcing" /\ info[i].home \in claimed
  /\ watch' = [watch EXCEPT ![i] = "done"]
  /\ UNCHANGED <<slot, run, info, proc, mon>>

Spawns(i, j) ==
  /\ watch[i] = "announcing" /\ info[i].home \notin claimed /\ run[j] = "unused"
  /\ watch' = [watch EXCEPT ![i] = "done"]
  /\ run' = [run EXCEPT ![j] = "waiting"] /\ Begins(j, "respawn", 0)
  /\ UNCHANGED <<slot, proc, mon>>

\* The supervisor counts the outcome against the slot that awaits a restart.
Fails(i) ==
  /\ run[i] = "settle" /\ AwaitsRestart
  /\ run' = [run EXCEPT ![i] = "done"]
  /\ slot'.id = slot.id /\ slot'.st = "failed" /\ slot'.pid = slot.pid /\ MarksKept
  /\ UNCHANGED <<info, proc, watch, mon>>

TriesAgain(i, j) ==
  /\ run[i] = "settle" /\ AwaitsRestart /\ run[j] = "unused"
  /\ run' = [run EXCEPT ![i] = "done", ![j] = "waiting"] /\ Begins(j, "respawn", 0)
  /\ slot'.id = slot.id /\ slot'.st = "restarting" /\ slot'.pid = slot.pid
  /\ slot'.attempt > 0 /\ slot'.count = slot.count /\ MarksKept
  /\ UNCHANGED <<proc, watch, mon>>

LifeDoes ==
  \/ \E i \in Lives :
       \/ Admits(i) \/ Advances(i) \/ Reads(i) \/ Retires(i) \/ Registers(i) \/ Respawns(i)
       \/ Undoes(i) \/ Forks(i) \/ Commits(i) \/ Observes(i) \/ Records(i) \/ Leaves(i)
       \/ Fails(i) \/ Detaches(i)
  \/ \E i, j \in Lives : Spawns(i, j) \/ TriesAgain(i, j)

LEMMA InfoSame == ASSUME UNCHANGED info PROVE InfoKept
BY DEF InfoKept, SameInfo

LEMMA InfoOutcome ==
  ASSUME InfoTypes, NEW i \in Lives, NEW x, info' = [info EXCEPT ![i].outcome = x]
  PROVE  InfoKept
BY DEF InfoTypes, Infos, InfoKept, SameInfo

LEMMA InfoBegins ==
  ASSUME InfoTypes, NEW j \in Lives, NEW kind, NEW a, NEW h, NEW e, NEW c, NEW x,
         info' = [info EXCEPT ![j] = [kind |-> kind, slot |-> a, goal |-> h, home |-> h,
                                      epoch |-> e, count |-> c, outcome |-> x]]
  PROVE  Begins(j, kind, h)
BY DEF InfoTypes, Infos, Begins, SameInfo

LEMMA AdmitDoes ==
  ASSUME InfoTypes, NEW i \in Lives, RunAdmit(i)
  PROVE  Admits(i)
<1>1. Begins(i, "new", i)
  BY InfoBegins DEF RunAdmit
<1> QED BY <1>1 DEF RunAdmit, Admits, Fresh, CanRead

LEMMA AdvanceDoes ==
  ASSUME InfoTypes, NEW i \in Lives,
         RestartDue(i) \/ AdmitRestart(i) \/ Ready(i) \/ GiveUp(i) \/ PassSetup(i)
  PROVE  Advances(i)
<1>1. CASE RestartDue(i) \/ AdmitRestart(i) \/ Ready(i) \/ PassSetup(i)
  BY <1>1, InfoSame DEF RestartDue, AdmitRestart, Ready, PassSetup, Advances, CanRead, RunPcs
<1>2. CASE GiveUp(i)
  <2>1. InfoKept
    BY <1>2, InfoOutcome DEF GiveUp
  <2> QED BY <1>2, <2>1 DEF GiveUp, Advances, RunPcs
<1> QED BY <1>1, <1>2

LEMMA EndsInfo ==
  ASSUME InfoTypes, NEW i \in Lives, NEW x, EndStart(i, x)
  PROVE  /\ run' = [run EXCEPT ![i] = IF info[i].kind = "new" THEN "done" ELSE "settle"]
         /\ InfoKept
         /\ info[i].kind \in {"new", "respawn"}
BY InfoOutcome DEF EndStart, InfoTypes, Infos

\* What a start does before its slot is its own.
LEMMA BeginDoes ==
  ASSUME TypeInv, ~crossed', NEW i \in Lives,
         \/ EndBeforeSpawn(i) \/ RegisterNew(i) \/ BeginRespawn(i) \/ RegisterDetached(i)
         \/ RunPanics(i) /\ run[i] = "begin"
  PROVE  Retires(i) \/ Registers(i) \/ Respawns(i) \/ Detaches(i)
<1>0. InfoTypes /\ SlotTypes /\ RunTypes
  BY DEF TypeInv
<1>1. CASE EndBeforeSpawn(i)
  <2>1. \E x : EndStart(i, x)
    BY <1>1 DEF EndBeforeSpawn
  <2>2. UNCHANGED <<slot, proc, watch, mon>>
    BY <1>1 DEF EndBeforeSpawn
  <2> QED BY <1>0, <1>1, <2>1, <2>2, EndsInfo DEF EndBeforeSpawn, Retires, Driving
<1>2. CASE RegisterNew(i)
  <2>1. CASE slot.st # "vacant"
    BY <1>0, <1>2, <2>1, EndsInfo DEF RegisterNew, Retires, Driving
  <2>2. CASE slot.st = "vacant"
    <3>1. PICK policy \in Policies :
            slot' = [NoSlot EXCEPT !.id = i, !.st = "starting", !.policy = policy]
      BY <1>2, <2>2 DEF RegisterNew
    <3>2. SlotBecomes(i, "starting", 0, 0, 0) /\ slot'.notes = 0 /\ slot'.kill = FALSE
      BY <3>1 DEF NoSlot, SlotBecomes
    <3> QED BY <1>2, <2>2, <3>2, InfoSame DEF RegisterNew, Registers
  <2> QED BY <2>1, <2>2
<1>3. CASE BeginRespawn(i)
  <2>1. CASE ~AwaitsRestart
    BY <1>0, <1>3, <2>1, EndsInfo DEF BeginRespawn, Retires, Driving
  <2>2. CASE AwaitsRestart
    <3>1. info' = [info EXCEPT ![i].home = slot.id]
      BY <1>3, <2>2 DEF BeginRespawn
    <3>2. slot' = [slot EXCEPT !.st = "starting", !.pid = 0]
      BY <1>3, <2>2 DEF BeginRespawn
    <3>3. SlotBecomes(slot.id, "starting", 0, slot.attempt, slot.count) /\ MarksKept
      BY <1>0, <3>2 DEF SlotTypes, Slots, SlotBecomes, MarksKept
    <3>4. /\ info'[i].kind = info[i].kind /\ info'[i].home = slot.id
          /\ \A k \in Lives \ {i} : SameInfo(k)
      BY <1>0, <3>1 DEF InfoTypes, Infos, SameInfo
    <3> QED BY <1>3, <2>2, <3>3, <3>4 DEF BeginRespawn, Respawns
  <2> QED BY <2>1, <2>2
<1>4. CASE RunPanics(i) /\ run[i] = "begin"
  <2>1. ~StartsFor(i)
    BY <1>4 DEF RunPanics
  <2>2. UNCHANGED <<slot, proc, watch, mon>>
    BY <1>4, <2>1 DEF RunPanics
  <2>3. \E x : EndStart(i, x)
    BY <1>4 DEF RunPanics
  <2> QED BY <1>0, <1>4, <2>2, <2>3, EndsInfo DEF Retires, Driving
<1>5. CASE RegisterDetached(i)
  BY <1>5, InfoSame DEF RegisterDetached, Detaches
<1> QED BY <1>1, <1>2, <1>3, <1>4, <1>5

LEMMA UndoDoes ==
  ASSUME TypeInv, StartInv, NEW i \in Lives, run[i] \in Driving, slot' = UndoStart
  PROVE  IF info[i].kind = "new" \/ IsStopping THEN slot' = NoSlot
         ELSE SlotBecomes(slot.id, "restarting", 0, slot.attempt, slot.count) /\ MarksKept
<1>0. slot \in Slots /\ info[i].kind \in {"new", "respawn"}
  BY DEF TypeInv, SlotTypes, InfoTypes, Infos
<1>1. slot.st = "starting" /\ (StartsARestart <=> info[i].kind = "respawn")
  BY <1>0 DEF StartInv, StartsARestart, Slots
<1>2. CASE info[i].kind = "new" \/ IsStopping
  BY <1>0, <1>1, <1>2 DEF UndoStart
<1>3. CASE ~(info[i].kind = "new" \/ IsStopping)
  <2>1. slot' = [slot EXCEPT !.st = "restarting", !.pid = 0]
    BY <1>0, <1>1, <1>3 DEF UndoStart
  <2> QED BY <1>0, <1>3, <2>1 DEF Slots, SlotBecomes, MarksKept
<1> QED BY <1>2, <1>3

\* What a start does with the slot it has.
LEMMA DriveDoes ==
  ASSUME TypeInv, LifeInv, StartInv, ~crossed', NEW i \in Lives, run[i] \in Driving,
         PrepareFails(i) \/ Fork(i) \/ AbortStarted(i) \/ CommitStarted(i) \/ RunPanics(i)
  PROVE  Undoes(i) \/ Forks(i) \/ Commits(i)
<1>0. /\ InfoTypes /\ SlotTypes /\ slot \in Slots
      /\ proc \in [Lives -> {"none", "alive", "clean", "failed"}]
      /\ info[i].kind \in {"new", "respawn"}
  BY DEF TypeInv, ProcTypes, SlotTypes, InfoTypes, Infos
<1>1. slot.st = "starting"
  BY DEF StartInv
<1>2. CASE slot' = UndoStart /\ (\E x : EndStart(i, x)) /\ UNCHANGED <<proc, watch, mon>>
           /\ run[i] = "preparing"
  <2>1. proc'[i] # "alive"
    BY <1>2 DEF LifeInv, Unforked
  <2> QED BY <1>0, <1>2, <2>1, UndoDoes, EndsInfo DEF Undoes
<1>3. CASE slot' = UndoStart /\ (\E x : EndStart(i, x)) /\ UNCHANGED <<watch, mon>>
           /\ proc' = Kill(proc, i)
  <2>1. proc'[i] # "alive"
    BY <1>0, <1>3 DEF Kill
  <2> QED BY <1>0, <1>3, <2>1, UndoDoes, EndsInfo DEF Undoes
<1>4. CASE PrepareFails(i)
  BY <1>2, <1>4 DEF PrepareFails
<1>5. CASE Fork(i)
  <2>1. CASE IsStopping
    BY <1>2, <1>5, <2>1 DEF Fork
  <2>2. CASE ~IsStopping
    <3>1. slot' = [slot EXCEPT !.pid = i]
      BY <1>1, <1>5, <2>2 DEF Fork
    <3>2. SlotBecomes(slot.id, slot.st, i, slot.attempt, slot.count) /\ MarksKept
      BY <1>0, <3>1 DEF Slots, SlotBecomes, MarksKept
    <3> QED BY <1>5, <2>2, <3>2, InfoSame DEF Fork, Forks
  <2> QED BY <2>1, <2>2
<1>6. CASE AbortStarted(i)
  BY <1>3, <1>6 DEF AbortStarted
<1>7. CASE CommitStarted(i)
  <2>0. slot.count \in Nat /\ slot.count + 1 \in Nat
    BY <1>0 DEF Slots
  <2>1. PICK c \in Nat : slot' = [slot EXCEPT !.st = "running", !.count = c]
    BY <1>1, <1>7, <2>0 DEF CommitStarted
  <2>2. SlotBecomes(slot.id, "running", slot.pid, slot.attempt, c) /\ MarksKept
    BY <1>0, <2>1 DEF Slots, SlotBecomes, MarksKept
  <2> QED BY <1>1, <1>7, <2>2, InfoSame DEF CommitStarted, Commits
<1>8. CASE RunPanics(i)
  <2>1. StartsFor(i)
    BY <1>8 DEF RunPanics, Driving
  <2>2. /\ slot' = UndoStart /\ (\E x : EndStart(i, x)) /\ UNCHANGED <<watch, mon>>
        /\ proc' = Kill(proc, slot.pid)
    BY <1>8, <2>1 DEF RunPanics
  <2>3. CASE run[i] # "preparing"
    <3>1. slot.pid = i
      BY <2>3 DEF StartInv
    <3> QED BY <1>3, <2>2, <3>1
  <2>4. CASE run[i] = "preparing"
    <3>1. slot.pid = 0
      BY <2>4 DEF StartInv
    <3>2. proc' = proc
      BY <2>2, <3>1 DEF Kill, Lives
    <3> QED BY <1>2, <2>2, <2>4, <3>2
  <2> QED BY <2>3, <2>4
<1> QED BY <1>4, <1>5, <1>6, <1>7, <1>8

LEMMA EndDoes ==
  ASSUME TypeInv, LifeInv, NEW i \in Lives,
         \/ RestartEnds(i) \/ ReadInputs(i) \/ Delivered(i) \/ RunDropped(i) \/ SettleNothing(i)
  PROVE  Retires(i) \/ Reads(i)
<1>0. InfoTypes
  BY DEF TypeInv
<1>1. CASE RestartEnds(i) \/ Delivered(i) \/ SettleNothing(i)
  BY <1>1, InfoSame DEF RestartEnds, Delivered, SettleNothing, Retires, Driving
<1>2. CASE RunDropped(i)
  BY <1>2, InfoSame DEF RunDropped, Retires, HoldingPcs
<1>3. CASE ReadInputs(i) /\ UNCHANGED info /\ run' = [run EXCEPT ![i] = "done"]
  BY <1>3, InfoSame DEF ReadInputs, Retires, Driving
<1>4. CASE /\ ReadInputs(i)
           /\ info' = [info EXCEPT ![i].goal = slot.id, ![i].count = slot.count]
           /\ run' = [run EXCEPT ![i] = "begin"]
  <2>1. /\ info'[i].kind = info[i].kind /\ info'[i].home = info[i].home
        /\ \A k \in Lives \ {i} : SameInfo(k)
    BY <1>0, <1>4 DEF InfoTypes, Infos, SameInfo
  <2> QED BY <1>4, <2>1 DEF ReadInputs, Reads
<1> QED BY <1>1, <1>2, <1>3, <1>4 DEF ReadInputs

LEMMA SettleDoes ==
  ASSUME TypeInv, NEW i \in Lives, NEW j \in Lives,
         SettleRefused(i) \/ SettleStartFailed(i, j)
  PROVE  Fails(i) \/ TriesAgain(i, j)
<1>0. slot \in Slots /\ SlotTypes /\ InfoTypes
  BY DEF TypeInv, SlotTypes
<1>2. CASE SettleRefused(i)
  <2>1. slot' = [slot EXCEPT !.st = "failed"]
    BY <1>2 DEF SettleRefused
  <2>2. slot'.id = slot.id /\ slot'.st = "failed" /\ slot'.pid = slot.pid /\ MarksKept
    BY <1>0, <2>1 DEF Slots, MarksKept
  <2> QED BY <1>2, <2>2 DEF SettleRefused, Fails
<1>3. CASE SettleStartFailed(i, j)
  <2>1. AwaitsRestart /\ slot' = TakeNextAttempt(slot, "short")
    BY <1>3 DEF SettleStartFailed
  <2>2. slot.st # "vacant" /\ slot.id # 0 /\ slot.attempt <= MaxRestarts
    BY <1>0, <2>1 DEF AwaitsRestart, SlotTypes
  <2>3. /\ slot'.st \in {"failed", "restarting"} /\ slot'.id = slot.id
        /\ slot'.st # "failed" => slot'.attempt \in 1 .. MaxRestarts
        /\ slot'.pid = slot.pid /\ slot'.count = slot.count /\ MarksKept
    BY <1>0, <2>1, <2>2, AttemptTypes DEF MarksKept
  <2>4. CASE slot'.st = "failed"
    BY <1>3, <2>1, <2>3, <2>4 DEF SettleStartFailed, Fails
  <2>5. CASE slot'.st = "restarting"
    <3>1. Begins(j, "respawn", 0)
      BY <1>0, <1>3, <2>5, InfoBegins DEF SettleStartFailed
    <3>2. slot'.attempt > 0
      BY <2>3, <2>5, LifecycleAssumption DEF LifecycleAssumption
    <3> QED BY <1>3, <2>1, <2>3, <2>5, <3>1, <3>2 DEF SettleStartFailed, TriesAgain, Fresh
  <2> QED BY <2>3, <2>4, <2>5
<1> QED BY <1>2, <1>3

LEMMA WatchDoes ==
  ASSUME TypeInv, NEW i \in Lives, NEW j \in Lives,
         MarkInstanceExited(i) \/ SpawnNextAttempt(i, j)
  PROVE  Records(i) \/ Leaves(i) \/ Spawns(i, j)
<1>0. slot \in Slots /\ SlotTypes /\ InfoTypes
  BY DEF TypeInv, SlotTypes
<1>1. CASE MarkInstanceExited(i) /\ ~(RunsProcess(i) /\ ~IsStopping)
  BY <1>1 DEF MarkInstanceExited, Leaves
<1>2. CASE MarkInstanceExited(i) /\ RunsProcess(i) /\ ~IsStopping
  <2>1. PICK length \in RunLengths : slot' = RecordExit(proc[i], length)
    BY <1>2 DEF MarkInstanceExited
  <2>2. slot.st = "running"
    BY <1>2 DEF RunsProcess
  <2>3. /\ slot'.id = slot.id /\ slot'.st \in {"failed", "finished", "restarting"}
        /\ slot'.pid = 0 /\ slot'.kill = FALSE
        /\ slot'.st = "restarting" => slot'.attempt > 0 /\ slot'.notes = 0
    BY <1>0, <2>1, <2>2, ExitTypes
  <2> QED BY <1>2, <2>3 DEF MarkInstanceExited, Records
<1>3. CASE SpawnNextAttempt(i, j) /\ info[i].home \in claimed
  BY <1>3 DEF SpawnNextAttempt, Leaves
<1>4. CASE SpawnNextAttempt(i, j) /\ info[i].home \notin claimed
  <2>1. Begins(j, "respawn", 0)
    BY <1>0, <1>4, InfoBegins DEF SpawnNextAttempt, SpawnRestartTask
  <2> QED BY <1>4, <2>1 DEF SpawnNextAttempt, SpawnRestartTask, Spawns
<1> QED BY <1>1, <1>2, <1>3, <1>4

LEMMA ObserveDoes ==
  ASSUME TypeInv, NEW i \in Lives,
         WatcherSees(i) \/ MonitorArms(i) \/ MonitorKills(i) \/ MonitorEnds(i) \/ ProcExits(i)
  PROVE  Observes(i)
<1>0. slot \in Slots /\ ProcTypes
  BY DEF TypeInv, SlotTypes
<1>1. ASSUME UNCHANGED slot PROVE SlotKept /\ MarksKept
  BY <1>1 DEF SlotKept, SlotBecomes, MarksKept
<1>2. CASE WatcherSees(i)
  BY <1>1, <1>2 DEF WatcherSees, Observes, MarksKept
<1>3. CASE ProcExits(i)
  BY <1>1, <1>3 DEF ProcExits, Observes, MarksKept
<1>4. CASE MonitorKills(i)
  <2>1. UNCHANGED proc \/ (proc[i] = "alive" /\ proc' = [proc EXCEPT ![i] = "failed"])
    BY <1>4 DEF MonitorKills, Kill
  <2>2. \A k \in Lives : mon'[k] \in {mon[k], "done"}
    BY <1>0, <1>4 DEF MonitorKills, ProcTypes
  <2> QED BY <1>1, <1>4, <2>1, <2>2 DEF MonitorKills, Observes, MarksKept
<1>5. CASE MonitorEnds(i)
  <2>2. \A k \in Lives : mon'[k] \in {mon[k], "done"}
    BY <1>0, <1>5 DEF MonitorEnds, ProcTypes
  <2> QED BY <1>1, <1>5, <2>2 DEF MonitorEnds, Observes, MarksKept
<1>6. CASE MonitorArms(i)
  <2>1. CASE UNCHANGED slot
    <3>1. \/ \A k \in Lives : mon'[k] \in {mon[k], "done"}
          \/ mon' = [mon EXCEPT ![i] = "armed"] /\ RunsProcess(i)
      BY <1>0, <1>6 DEF MonitorArms, ProcTypes
    <3> QED BY <1>1, <1>6, <2>1, <3>1 DEF MonitorArms, Observes, MarksKept
  <2>2. CASE slot' = [slot EXCEPT !.kill = TRUE] /\ mon' = [mon EXCEPT ![i] = "armed"]
    <3>1. SlotKept /\ slot'.notes = slot.notes
      BY <1>0, <2>2 DEF Slots, SlotKept, SlotBecomes
    <3> QED BY <1>6, <2>2, <3>1 DEF MonitorArms, Observes
  <2> QED BY <1>6, <2>1, <2>2 DEF MonitorArms
<1> QED BY <1>2, <1>3, <1>4, <1>5, <1>6

LEMMA LifeStepDoes ==
  ASSUME TypeInv, LifeInv, StartInv, ~crossed', NEW i \in Lives, LifeStep(i)
  PROVE  LifeDoes
<1>0. InfoTypes
  BY DEF TypeInv
<1>1. CASE RunAdmit(i)
  BY <1>0, <1>1, AdmitDoes DEF LifeDoes
<1>2. CASE RestartDue(i) \/ AdmitRestart(i) \/ Ready(i) \/ GiveUp(i) \/ PassSetup(i)
  BY <1>0, <1>2, AdvanceDoes DEF LifeDoes
<1>3. CASE \/ EndBeforeSpawn(i) \/ RegisterNew(i) \/ BeginRespawn(i) \/ RegisterDetached(i)
           \/ RunPanics(i) /\ run[i] = "begin"
  BY <1>3, BeginDoes DEF LifeDoes
<1>4. CASE \/ PrepareFails(i) \/ Fork(i) \/ AbortStarted(i) \/ CommitStarted(i)
           \/ RunPanics(i) /\ run[i] # "begin"
  <2>1. run[i] \in Driving
    BY <1>4 DEF PrepareFails, Fork, AbortStarted, CommitStarted, RunPanics, Driving
  <2> QED BY <1>4, <2>1, DriveDoes DEF LifeDoes
<1>5. CASE \/ RestartEnds(i) \/ ReadInputs(i) \/ Delivered(i) \/ RunDropped(i) \/ SettleNothing(i)
  BY <1>5, EndDoes DEF LifeDoes
<1>6. CASE SettleRefused(i) \/ \E j \in Lives : SettleStartFailed(i, j)
  BY <1>6, SettleDoes DEF LifeDoes
<1>7. CASE MarkInstanceExited(i) \/ \E j \in Lives : SpawnNextAttempt(i, j)
  BY <1>7, WatchDoes DEF LifeDoes
<1>8. CASE WatcherSees(i) \/ MonitorStep(i) \/ ProcExits(i)
  BY <1>8, ObserveDoes DEF LifeDoes, MonitorStep
<1> QED BY <1>1, <1>2, <1>3, <1>4, <1>5, <1>6, <1>7, <1>8
    DEF LifeStep, StartStep, RestartStep, WatchStep

(***************************************************************************)
(* A step of a life keeps what the invariant says of the lives.            *)
(***************************************************************************)

\* What the proofs use of the types.
Shape ==
  /\ run \in [Lives -> RunPcs] /\ proc \in [Lives -> {"none", "alive", "clean", "failed"}]
  /\ watch \in [Lives -> {"off", "waiting", "exited", "announcing", "done"}]
  /\ \A k \in Lives : info[k].kind \in {"new", "respawn"}
  /\ 0 \notin Lives /\ 0 \notin claimed /\ (slot.st = "vacant" <=> slot.id = 0)
  /\ slot.pid # 0 => slot.pid \in Lives

LEMMA TypeFacts == ASSUME TypeInv PROVE Shape
<1>1. slot.pid \in 0 .. MaxLives /\ MaxLives \in Nat
  BY LifecycleAssumption DEF TypeInv, SlotTypes, Slots, LifecycleAssumption
<1>2. 0 \notin Lives /\ (slot.pid # 0 => slot.pid \in Lives)
  BY <1>1 DEF Lives
<1> QED BY <1>2 DEF TypeInv, RunTypes, ProcTypes, InfoTypes, Infos, SlotTypes, Shape

LEMMA SlotLife ==
  ASSUME TypeInv, SlotInv, LifeInv, StartInv, LifeDoes, UNCHANGED <<claimed, asked>>
  PROVE  SlotInv'
<1>0. Shape
  BY TypeFacts
<1>1. ASSUME NEW i \in Lives, Admits(i) PROVE SlotInv'
  BY <1>0, <1>1 DEF Admits, Begins, SameInfo, Shape, SlotInv, LifeInv, StartInv,
       Registered, Committed, Driving, Unforked
<1>2. ASSUME NEW i \in Lives, Advances(i) PROVE SlotInv'
  BY <1>0, <1>2 DEF Advances, InfoKept, SameInfo, Shape, SlotInv, LifeInv, StartInv,
       Registered, Committed, Driving, Unforked
<1>3. ASSUME NEW i \in Lives, Reads(i) PROVE SlotInv'
  BY <1>0, <1>3 DEF Reads, SameInfo, Shape, SlotInv, LifeInv, StartInv, Registered,
       Committed, Driving, Unforked
<1>4. ASSUME NEW i \in Lives, Retires(i) PROVE SlotInv'
  BY <1>0, <1>4 DEF Retires, InfoKept, SameInfo, Shape, SlotInv, LifeInv, StartInv,
       Registered, Committed, Driving, Unforked
<1>5. ASSUME NEW i \in Lives, Registers(i) PROVE SlotInv'
  BY <1>0, <1>5 DEF Registers, InfoKept, SameInfo, SlotBecomes, Shape, SlotInv,
       LifeInv, StartInv, Registered, Committed, Driving, Unforked
<1>6. ASSUME NEW i \in Lives, Respawns(i) PROVE SlotInv'
  BY <1>0, <1>6 DEF Respawns, InfoKept, SameInfo, SlotBecomes, AwaitsRestart, Shape,
       SlotInv, LifeInv, StartInv, Registered, Committed, Driving, Unforked
<1>7. ASSUME NEW i \in Lives, Undoes(i) PROVE SlotInv'
  BY <1>0, <1>7 DEF Undoes, InfoKept, SameInfo, SlotBecomes, Kill, NoSlot, Shape,
       SlotInv, LifeInv, StartInv, Registered, Committed, Driving, Unforked
<1>8. ASSUME NEW i \in Lives, Forks(i) PROVE SlotInv'
  BY <1>0, <1>8 DEF Forks, InfoKept, SameInfo, SlotBecomes, Shape, SlotInv, LifeInv,
       StartInv, Registered, Committed, Driving, Unforked
<1>9. ASSUME NEW i \in Lives, Commits(i) PROVE SlotInv'
  BY <1>0, <1>9 DEF Commits, InfoKept, SameInfo, SlotBecomes, Shape, SlotInv, LifeInv,
       StartInv, Registered, Committed, Driving, Unforked
<1>10. ASSUME NEW i \in Lives, Observes(i) PROVE SlotInv'
  BY <1>0, <1>10 DEF Observes, SlotBecomes, SlotKept, Shape, SlotInv, LifeInv,
       StartInv, Registered, Committed, Driving, Unforked
<1>11. ASSUME NEW i \in Lives, Records(i) PROVE SlotInv'
  BY <1>0, <1>11 DEF Records, RunsProcess, Shape, SlotInv, LifeInv, StartInv,
       Registered, Committed, Driving, Unforked
<1>12. ASSUME NEW i \in Lives, Leaves(i) PROVE SlotInv'
  BY <1>0, <1>12 DEF Leaves, Shape, SlotInv, LifeInv, StartInv, Registered, Committed,
       Driving, Unforked
<1>13. ASSUME NEW i \in Lives, Fails(i) PROVE SlotInv'
  BY <1>0, <1>13 DEF Fails, AwaitsRestart, Shape, SlotInv, LifeInv, StartInv,
       Registered, Committed, Driving, Unforked
<1>14. ASSUME NEW i \in Lives, NEW j \in Lives, Spawns(i, j) PROVE SlotInv'
  BY <1>0, <1>14 DEF Spawns, Begins, SameInfo, Shape, SlotInv, LifeInv, StartInv,
       Registered, Committed, Driving, Unforked
<1>15. ASSUME NEW i \in Lives, NEW j \in Lives, TriesAgain(i, j) PROVE SlotInv'
  BY <1>0, <1>15 DEF TriesAgain, Begins, SameInfo, AwaitsRestart, Shape, SlotInv,
       LifeInv, StartInv, Registered, Committed, Driving, Unforked
<1>16. ASSUME NEW i \in Lives, Detaches(i) PROVE SlotInv'
  BY <1>0, <1>16 DEF Detaches, InfoKept, SameInfo, Shape, SlotInv, LifeInv, StartInv, Registered, Committed, Driving, Unforked
<1> QED BY <1>1, <1>2, <1>3, <1>4, <1>5, <1>6, <1>7, <1>8, <1>9, <1>10, <1>11, <1>12,
    <1>13, <1>14, <1>15, <1>16 DEF LifeDoes

LEMMA LivesLife ==
  ASSUME TypeInv, LifeInv, SlotInv, StartInv, LifeDoes, UNCHANGED <<claimed, asked>>
  PROVE  LifeInv'
<1>0. Shape
  BY TypeFacts
<1>1. ASSUME NEW i \in Lives, Admits(i) PROVE LifeInv'
  BY <1>0, <1>1 DEF Admits, Begins, SameInfo, Shape, LifeInv, Unforked, Driving,
       asked
<1>2. ASSUME NEW i \in Lives, Advances(i) PROVE LifeInv'
  BY <1>0, <1>2 DEF Advances, InfoKept, SameInfo, Shape, LifeInv, Unforked, Driving,
       asked
<1>3. ASSUME NEW i \in Lives, Reads(i) PROVE LifeInv'
  BY <1>0, <1>3 DEF Reads, SameInfo, Shape, LifeInv, Unforked, Driving, asked
<1>4. ASSUME NEW i \in Lives, Retires(i) PROVE LifeInv'
  BY <1>0, <1>4 DEF Retires, InfoKept, SameInfo, Shape, LifeInv, Unforked, Driving,
       asked
<1>5. ASSUME NEW i \in Lives, Registers(i) PROVE LifeInv'
  BY <1>0, <1>5 DEF Registers, InfoKept, SameInfo, SlotBecomes, Shape, LifeInv,
       Unforked, Driving, asked
<1>6. ASSUME NEW i \in Lives, Respawns(i) PROVE LifeInv'
  BY <1>0, <1>6 DEF Respawns, InfoKept, SameInfo, SlotBecomes, AwaitsRestart, Shape,
       LifeInv, Unforked, Driving, asked
<1>7. ASSUME NEW i \in Lives, Undoes(i) PROVE LifeInv'
  BY <1>0, <1>7 DEF Undoes, InfoKept, SameInfo, SlotBecomes, Kill, NoSlot, Shape,
       LifeInv, Unforked, Driving, asked
<1>8. ASSUME NEW i \in Lives, Forks(i) PROVE LifeInv'
  BY <1>0, <1>8 DEF Forks, InfoKept, SameInfo, SlotBecomes, Shape, LifeInv, Unforked,
       Driving, asked
<1>9. ASSUME NEW i \in Lives, Commits(i) PROVE LifeInv'
  BY <1>0, <1>9 DEF Commits, InfoKept, SameInfo, SlotBecomes, Shape, LifeInv,
       Unforked, Driving, asked, SlotInv, StartInv
<1>10. ASSUME NEW i \in Lives, Observes(i) PROVE LifeInv'
  BY <1>0, <1>10 DEF Observes, SlotBecomes, SlotKept, Shape, LifeInv, Unforked,
       Driving, asked
<1>11. ASSUME NEW i \in Lives, Records(i) PROVE LifeInv'
  BY <1>0, <1>11 DEF Records, RunsProcess, Shape, LifeInv, Unforked, Driving,
       asked
<1>12. ASSUME NEW i \in Lives, Leaves(i) PROVE LifeInv'
  BY <1>0, <1>12 DEF Leaves, Shape, LifeInv, Unforked, Driving, asked
<1>13. ASSUME NEW i \in Lives, Fails(i) PROVE LifeInv'
  BY <1>0, <1>13 DEF Fails, AwaitsRestart, Shape, LifeInv, Unforked, Driving,
       asked
<1>14. ASSUME NEW i \in Lives, NEW j \in Lives, Spawns(i, j) PROVE LifeInv'
  BY <1>0, <1>14 DEF Spawns, Begins, SameInfo, Shape, LifeInv, Unforked, Driving,
       asked
<1>15. ASSUME NEW i \in Lives, NEW j \in Lives, TriesAgain(i, j) PROVE LifeInv'
  BY <1>0, <1>15 DEF TriesAgain, Begins, SameInfo, AwaitsRestart, Shape, LifeInv,
       Unforked, Driving, asked
<1>16. ASSUME NEW i \in Lives, Detaches(i) PROVE LifeInv'
  BY <1>0, <1>16 DEF Detaches, InfoKept, SameInfo, Shape, LifeInv, Unforked, Driving
<1> QED BY <1>1, <1>2, <1>3, <1>4, <1>5, <1>6, <1>7, <1>8, <1>9, <1>10, <1>11, <1>12,
    <1>13, <1>14, <1>15, <1>16 DEF LifeDoes

LEMMA StartLife ==
  ASSUME TypeInv, StartInv, SlotInv, LifeInv, LifeDoes, UNCHANGED <<claimed, asked>>
  PROVE  StartInv'
<1>0. Shape
  BY TypeFacts
<1>1. ASSUME NEW i \in Lives, Admits(i) PROVE StartInv'
  BY <1>0, <1>1 DEF Admits, Begins, SameInfo, Shape, StartInv, Driving
<1>2. ASSUME NEW i \in Lives, Advances(i) PROVE StartInv'
  BY <1>0, <1>2 DEF Advances, InfoKept, SameInfo, Shape, StartInv, Driving
<1>3. ASSUME NEW i \in Lives, Reads(i) PROVE StartInv'
  BY <1>0, <1>3 DEF Reads, SameInfo, Shape, StartInv, Driving
<1>4. ASSUME NEW i \in Lives, Retires(i) PROVE StartInv'
  BY <1>0, <1>4 DEF Retires, InfoKept, SameInfo, Shape, StartInv, Driving
<1>5. ASSUME NEW i \in Lives, Registers(i) PROVE StartInv'
  BY <1>0, <1>5 DEF Registers, InfoKept, SameInfo, SlotBecomes, Shape, StartInv,
       Driving, LifeInv
<1>6. ASSUME NEW i \in Lives, Respawns(i) PROVE StartInv'
  BY <1>0, <1>6 DEF Respawns, InfoKept, SameInfo, SlotBecomes, AwaitsRestart, Shape,
       StartInv, Driving, SlotInv
<1>7. ASSUME NEW i \in Lives, Undoes(i) PROVE StartInv'
  BY <1>0, <1>7 DEF Undoes, InfoKept, SameInfo, SlotBecomes, Kill, NoSlot, Shape,
       StartInv, Driving
<1>8. ASSUME NEW i \in Lives, Forks(i) PROVE StartInv'
  BY <1>0, <1>8 DEF Forks, InfoKept, SameInfo, SlotBecomes, Shape, StartInv, Driving
<1>9. ASSUME NEW i \in Lives, Commits(i) PROVE StartInv'
  BY <1>0, <1>9 DEF Commits, InfoKept, SameInfo, SlotBecomes, Shape, StartInv, Driving
<1>10. ASSUME NEW i \in Lives, Observes(i) PROVE StartInv'
  BY <1>0, <1>10 DEF Observes, SlotBecomes, SlotKept, Shape, StartInv, Driving
<1>11. ASSUME NEW i \in Lives, Records(i) PROVE StartInv'
  BY <1>0, <1>11 DEF Records, RunsProcess, Shape, StartInv, Driving
<1>12. ASSUME NEW i \in Lives, Leaves(i) PROVE StartInv'
  BY <1>0, <1>12 DEF Leaves, Shape, StartInv, Driving
<1>13. ASSUME NEW i \in Lives, Fails(i) PROVE StartInv'
  BY <1>0, <1>13 DEF Fails, AwaitsRestart, Shape, StartInv, Driving
<1>14. ASSUME NEW i \in Lives, NEW j \in Lives, Spawns(i, j) PROVE StartInv'
  BY <1>0, <1>14 DEF Spawns, Begins, SameInfo, Shape, StartInv, Driving
<1>15. ASSUME NEW i \in Lives, NEW j \in Lives, TriesAgain(i, j) PROVE StartInv'
  BY <1>0, <1>15 DEF TriesAgain, Begins, SameInfo, AwaitsRestart, Shape, StartInv,
       Driving
<1>16. ASSUME NEW i \in Lives, Detaches(i) PROVE StartInv'
  BY <1>0, <1>16 DEF Detaches, InfoKept, SameInfo, Shape, StartInv, Driving
<1> QED BY <1>1, <1>2, <1>3, <1>4, <1>5, <1>6, <1>7, <1>8, <1>9, <1>10, <1>11, <1>12,
    <1>13, <1>14, <1>15, <1>16 DEF LifeDoes

LEMMA HeldLife ==
  ASSUME TypeInv, HeldInv, SlotInv, LifeInv, StartInv, LifeDoes, lost \subseteq lost'
  PROVE  HeldInv'
<1>0. Shape
  BY TypeFacts
<1>1. ASSUME NEW i \in Lives, Admits(i) PROVE HeldInv'
  BY <1>0, <1>1 DEF Admits, Begins, SameInfo, Shape, HeldInv, SlotInv, LifeInv,
       StartInv, Driving, Unforked
<1>2. ASSUME NEW i \in Lives, Advances(i) PROVE HeldInv'
  BY <1>0, <1>2 DEF Advances, InfoKept, SameInfo, Shape, HeldInv, SlotInv, LifeInv,
       StartInv, Driving, Unforked
<1>3. ASSUME NEW i \in Lives, Reads(i) PROVE HeldInv'
  BY <1>0, <1>3 DEF Reads, SameInfo, Shape, HeldInv, SlotInv, LifeInv, StartInv,
       Driving, Unforked
<1>4. ASSUME NEW i \in Lives, Retires(i) PROVE HeldInv'
  BY <1>0, <1>4 DEF Retires, InfoKept, SameInfo, Shape, HeldInv, SlotInv, LifeInv,
       StartInv, Driving, Unforked
<1>5. ASSUME NEW i \in Lives, Registers(i) PROVE HeldInv'
  BY <1>0, <1>5 DEF Registers, InfoKept, SameInfo, SlotBecomes, Shape, HeldInv,
       SlotInv, LifeInv, StartInv, Driving, Unforked
<1>6. ASSUME NEW i \in Lives, Respawns(i) PROVE HeldInv'
  BY <1>0, <1>6 DEF Respawns, InfoKept, SameInfo, SlotBecomes, AwaitsRestart, Shape,
       HeldInv, SlotInv, LifeInv, StartInv, Driving, Unforked
<1>7. ASSUME NEW i \in Lives, Undoes(i) PROVE HeldInv'
  BY <1>0, <1>7 DEF Undoes, InfoKept, SameInfo, SlotBecomes, Kill, NoSlot, Shape,
       HeldInv, SlotInv, LifeInv, StartInv, Driving, Unforked
<1>8. ASSUME NEW i \in Lives, Forks(i) PROVE HeldInv'
  BY <1>0, <1>8 DEF Forks, InfoKept, SameInfo, SlotBecomes, Shape, HeldInv, SlotInv,
       LifeInv, StartInv, Driving, Unforked
<1>9. ASSUME NEW i \in Lives, Commits(i) PROVE HeldInv'
  BY <1>0, <1>9 DEF Commits, InfoKept, SameInfo, SlotBecomes, Shape, HeldInv, SlotInv,
       LifeInv, StartInv, Driving, Unforked
<1>10. ASSUME NEW i \in Lives, Observes(i) PROVE HeldInv'
  BY <1>0, <1>10 DEF Observes, SlotBecomes, SlotKept, Shape, HeldInv, SlotInv,
       LifeInv, StartInv, Driving, Unforked
<1>11. ASSUME NEW i \in Lives, Records(i) PROVE HeldInv'
  BY <1>0, <1>11 DEF Records, RunsProcess, Shape, HeldInv, SlotInv, LifeInv, StartInv,
       Driving, Unforked
<1>12. ASSUME NEW i \in Lives, Leaves(i) PROVE HeldInv'
  BY <1>0, <1>12 DEF Leaves, Shape, HeldInv, SlotInv, LifeInv, StartInv, Driving,
       Unforked
<1>13. ASSUME NEW i \in Lives, Fails(i) PROVE HeldInv'
  BY <1>0, <1>13 DEF Fails, AwaitsRestart, Shape, HeldInv, SlotInv, LifeInv, StartInv,
       Driving, Unforked
<1>14. ASSUME NEW i \in Lives, NEW j \in Lives, Spawns(i, j) PROVE HeldInv'
  BY <1>0, <1>14 DEF Spawns, Begins, SameInfo, Shape, HeldInv, SlotInv, LifeInv,
       StartInv, Driving, Unforked
<1>15. ASSUME NEW i \in Lives, NEW j \in Lives, TriesAgain(i, j) PROVE HeldInv'
  BY <1>0, <1>15 DEF TriesAgain, Begins, SameInfo, AwaitsRestart, Shape, HeldInv,
       SlotInv, LifeInv, StartInv, Driving, Unforked
<1>16. ASSUME NEW i \in Lives, Detaches(i) PROVE HeldInv'
  BY <1>0, <1>16 DEF Detaches, InfoKept, SameInfo, Shape, HeldInv, SlotInv, LifeInv, StartInv, Driving, Unforked
<1> QED BY <1>1, <1>2, <1>3, <1>4, <1>5, <1>6, <1>7, <1>8, <1>9, <1>10, <1>11, <1>12,
    <1>13, <1>14, <1>15, <1>16 DEF LifeDoes

(***************************************************************************)
(* What a stop, a removal or a reset does to the lives: it kills, it       *)
(* claims the slot, and it takes from the stack a slot that nobody starts  *)
(* and whose process is dead or left behind.                               *)
(***************************************************************************)

RequestDoes ==
  /\ UNCHANGED <<run, info, watch, mon>> /\ lost \subseteq lost'
  /\ proc' = proc \/ \E p : proc' = Kill(proc, p)
  /\ claimed' \in {claimed, claimed \cup {slot.id}} /\ (claimed' # claimed => slot.st # "vacant")
  /\ \/ SlotKept /\ slot'.kill = slot.kill
     \/ /\ slot' = NoSlot
        /\ \A k \in Lives : /\ run[k] \notin Driving
                            /\ proc'[k] = "alive" => slot.pid # k \/ k \in lost'

LEMMA RemovableGone ==
  ASSUME TypeInv, SlotInv, StartInv, NEW p, Removable(p)
  PROVE  /\ slot.st # "vacant"
         /\ \A k \in Lives : /\ run[k] \notin Driving
                             /\ slot.pid = k => RunsProcess(k) /\ k = p
<1>1. Shape
  BY TypeFacts
<1>2. slot.st \notin {"vacant", "starting"}
  BY DEF Removable
<1>3. \A k \in Lives : run[k] \notin Driving
  BY <1>2 DEF StartInv
<1>4. \A k \in Lives : slot.pid = k => RunsProcess(k) /\ k = p
  BY <1>1 DEF Removable, SlotInv, Shape, RunsProcess
<1> QED BY <1>2, <1>3, <1>4

LEMMA StopDoes ==
  ASSUME TypeInv, SlotInv, StartInv, StopInv, NEW s \in Stops, StopAdmit(s) \/ StopStep(s)
  PROVE  RequestDoes
<1>0. UNCHANGED <<run, info, watch, mon>> /\ lost \subseteq lost'
  BY StopFrame
<1>1. UNCHANGED slot => SlotKept /\ slot'.kill = slot.kill
  BY DEF SlotKept, SlotBecomes
<1>2. CASE StopAdmit(s) \/ StopLook(s) \/ StopAwaitsStart(s) \/ StopKills(s) \/ StopDropped(s)
  <2>1. UNCHANGED <<slot, claimed>> /\ (proc' = proc \/ \E p : proc' = Kill(proc, p))
    BY <1>2 DEF StopAdmit, StopLook, StopAwaitsStart, StopKills, StopDropped, lifeVars
  <2> QED BY <1>0, <1>1, <2>1 DEF RequestDoes
<1>3. CASE StopClaimsRunning(s) \/ StopClaimsStarting(s)
  <2>1. UNCHANGED <<slot, proc>>
    BY <1>3 DEF StopClaimsRunning, StopClaimsStarting, lifeVars
  <2>2. claimed' \in {claimed, claimed \cup {slot.id}} /\ (claimed' # claimed => slot.st # "vacant")
    BY <1>3 DEF StopClaimsRunning, StopClaimsStarting, RunsProcess, StartsARestart
  <2> QED BY <1>0, <1>1, <2>1, <2>2 DEF RequestDoes
<1>4. CASE UNCHANGED <<slot, claimed, proc>>
  BY <1>0, <1>1, <1>4 DEF RequestDoes
<1>5. ASSUME NEW p, Removable(p), p = 0 \/ proc[p] # "alive",
             claimed' = claimed \cup {slot.id}, slot' = NoSlot, proc' = proc
      PROVE  RequestDoes
  <2>1. /\ slot.st # "vacant"
        /\ \A k \in Lives : run[k] \notin Driving /\ (slot.pid = k => RunsProcess(k) /\ k = p)
    BY <1>5, RemovableGone DEF RunsProcess
  <2>2. 0 \notin Lives
    BY TypeFacts DEF Shape
  <2> QED BY <1>0, <1>5, <2>1, <2>2 DEF RequestDoes
<1>6. CASE StopClears(s)
  BY <1>4, <1>5, <1>6 DEF StopClears, lifeVars
<1>7. CASE StopRemoves(s)
  <2>1. proc[stop[s].pid] # "alive"
    BY <1>7 DEF StopRemoves, StopInv, StopSound
  <2> QED BY <1>4, <1>5, <1>7, <2>1 DEF StopRemoves, lifeVars
<1> QED BY <1>2, <1>3, <1>6, <1>7 DEF StopStep

LEMMA RemoveDoes ==
  ASSUME TypeInv, SlotInv, StartInv, RemoveInv, NEW r \in Removers,
         RemoveCollects(r) \/ RemoveStep(r)
  PROVE  RequestDoes
<1>0. UNCHANGED <<run, info, watch, mon>>
  BY RemoveFrame
<1>1. lost \subseteq lost'
  BY RemoveFrame DEF RemoveClears
<1>2. UNCHANGED slot => SlotKept /\ slot'.kill = slot.kill
  BY DEF SlotKept, SlotBecomes
<1>3. ASSUME NEW p, slot' = Withdrawn(p) PROVE SlotKept /\ slot'.kill = slot.kill
  BY <1>3, WithdrawnTypes DEF TypeInv, SlotKept, SlotBecomes
<1>4. CASE RemoveCollects(r) \/ RemoveRefuses(r) \/ RemoveKills(r)
  <2>1. UNCHANGED <<slot, claimed>> /\ (proc' = proc \/ \E p : proc' = Kill(proc, p))
    BY <1>4 DEF RemoveCollects, RemoveRefuses, RemoveKills, lifeVars
  <2> QED BY <1>0, <1>1, <1>2, <2>1 DEF RequestDoes
<1>5. CASE RemoveNotes(r)
  <2>1. UNCHANGED <<claimed, proc>>
    BY <1>5 DEF RemoveNotes, lifeVars
  <2>2. UNCHANGED slot \/ slot' = [slot EXCEPT !.notes = slot.notes + 1]
    BY <1>5 DEF RemoveNotes
  <2>3. SlotKept /\ slot'.kill = slot.kill
    BY <1>2, <2>2 DEF TypeInv, SlotTypes, Slots, SlotKept, SlotBecomes
  <2> QED BY <1>0, <1>1, <2>1, <2>3 DEF RequestDoes
<1>6. CASE RemoveFails(r) \/ RemoveWithdraws(r) \/ RemoveDropped(r)
  <2>1. UNCHANGED <<claimed, proc>>
    BY <1>6 DEF RemoveFails, RemoveWithdraws, RemoveDropped, lifeVars
  <2>2. UNCHANGED slot \/ slot' = Withdrawn(rem[r].noted)
    BY <1>6 DEF RemoveFails, RemoveWithdraws, RemoveDropped
  <2>3. SlotKept /\ slot'.kill = slot.kill
    BY <1>2, <1>3, <2>2
  <2> QED BY <1>0, <1>1, <2>1, <2>3 DEF RequestDoes
<1>7. CASE RemoveClaims(r)
  <2>1. UNCHANGED <<slot, proc>>
    BY <1>7 DEF RemoveClaims, lifeVars
  <2>2. claimed' \in {claimed, claimed \cup {slot.id}} /\ (claimed' # claimed => slot.st # "vacant")
    BY <1>7 DEF RemoveClaims, RunsProcess
  <2> QED BY <1>0, <1>1, <1>2, <2>1, <2>2 DEF RequestDoes
<1>8. CASE RemoveClears(r)
  <2>1. UNCHANGED proc
    BY <1>8 DEF RemoveClears, lifeVars
  <2>2. CASE Removable(rem[r].pid)
    <3>1. claimed' = claimed \cup {slot.id} /\ slot' = NoSlot
      BY <1>8, <2>2 DEF RemoveClears
    <3>2. /\ slot.st # "vacant"
          /\ \A k \in Lives : /\ run[k] \notin Driving
                              /\ slot.pid = k => RunsProcess(k) /\ k = rem[r].pid
      BY <2>2, RemovableGone
    <3>3. \A k \in Lives : proc[k] = "alive" /\ slot.pid = k => k \in lost'
      <4> SUFFICES ASSUME NEW k \in Lives, proc[k] = "alive", slot.pid = k PROVE k \in lost'
        OBVIOUS
      <4>1. RunsProcess(k) /\ k = rem[r].pid
        BY <3>2 DEF RunsProcess
      <4>2. rem[r].pc = "clearing"
        <5>1. rem[r].pc = "collected" /\ rem[r].st # "running" => rem[r].pid = 0
          BY DEF RemoveInv, RemoveSound
        <5>2. 0 \notin Lives
          BY TypeFacts DEF Shape
        <5> QED BY <1>8, <4>1, <5>1, <5>2 DEF RemoveClears
      <4>3. ClaimerDropped
        BY <4>1, <4>2 DEF RemoveInv, RemoveSound
      <4> QED BY <1>8, <4>1, <4>3 DEF RemoveClears, Alive
    <3> QED BY <1>0, <1>1, <2>1, <3>1, <3>2, <3>3 DEF RequestDoes
  <2>3. CASE ~Removable(rem[r].pid)
    <3>1. UNCHANGED claimed /\ slot' = Withdrawn(rem[r].noted)
      BY <1>8, <2>3 DEF RemoveClears
    <3> QED BY <1>0, <1>1, <1>3, <2>1, <3>1 DEF RequestDoes
  <2> QED BY <2>2, <2>3
<1> QED BY <1>4, <1>5, <1>6, <1>7, <1>8 DEF RemoveStep

LEMMA ResetDoes ==
  ASSUME TypeInv, ResetInv, ResetBegins \/ ResetStep
  PROVE  RequestDoes
<1>0. UNCHANGED <<run, info, watch, mon>> /\ lost \subseteq lost'
  BY ResetFrame
<1>1. UNCHANGED slot => SlotKept /\ slot'.kill = slot.kill
  BY DEF SlotKept, SlotBecomes
<1>2. CASE ResetBegins \/ ResetTakesStack \/ ResetClaims \/ ResetKills
  <2>1. UNCHANGED slot /\ (proc' = proc \/ \E p : proc' = Kill(proc, p))
    BY <1>2 DEF ResetBegins, ResetTakesStack, ResetClaims, ResetKills, lifeVars
  <2>2. claimed' \in {claimed, claimed \cup {slot.id}} /\ (claimed' # claimed => slot.st # "vacant")
    BY <1>2 DEF ResetBegins, ResetTakesStack, ResetClaims, ResetKills
  <2> QED BY <1>0, <1>1, <2>1, <2>2 DEF RequestDoes
<1>3. CASE ResetClears
  <2>1. reset.pc = "clearing" /\ slot' = NoSlot /\ UNCHANGED <<claimed, proc>>
    BY <1>3 DEF ResetClears, lifeVars
  <2>2. slot.pid \in {0, reset.pid}
    BY <2>1 DEF ResetInv
  <2>3. \A k \in Lives : run[k] \notin Driving
    BY <2>1 DEF ResetInv, HoldingPcs, Driving
  <2>4. \A k \in Lives : proc[k] = "alive" => slot.pid # k
    BY <2>1, <2>2, TypeFacts DEF ResetInv, Shape
  <2> QED BY <1>0, <2>1, <2>2, <2>3, <2>4 DEF RequestDoes
<1> QED BY <1>2, <1>3 DEF ResetStep

LEMMA OverwriteDoes ==
  ASSUME TypeInv, SlotInv, StartInv, OverInv, NEW o \in Overwriters,
         OverwriteLooks(o) \/ OverwriteStep(o)
  PROVE  RequestDoes
<1>0. UNCHANGED <<run, info, watch, mon>> /\ lost \subseteq lost'
  BY OverwriteFrame DEF OverwriteRemoves
<1>1. UNCHANGED slot => SlotKept /\ slot'.kill = slot.kill
  BY DEF SlotKept, SlotBecomes
<1>2. CASE \/ OverwriteLooks(o) \/ OverwriteClaims(o) \/ OverwriteKills(o) \/ OverwriteDropped(o)
           \/ OverwriteRemoves(o) /\ slot.st = "starting"
  <2>1. UNCHANGED slot /\ (proc' = proc \/ \E p : proc' = Kill(proc, p))
    BY <1>2 DEF OverwriteLooks, OverwriteClaims, OverwriteKills, OverwriteDropped,
       OverwriteRemoves, lifeVars
  <2>2. claimed' \in {claimed, claimed \cup {slot.id}} /\ (claimed' # claimed => slot.st # "vacant")
    BY <1>2 DEF OverwriteLooks, OverwriteClaims, OverwriteKills, OverwriteDropped, OverwriteRemoves
  <2> QED BY <1>0, <1>1, <2>1, <2>2 DEF RequestDoes
<1>3. CASE OverwriteRemoves(o) /\ slot.st # "starting"
  <2>1. over[o].pc = "removing" /\ slot' = NoSlot /\ UNCHANGED <<claimed, proc>>
    BY <1>3 DEF OverwriteRemoves, lifeVars
  <2>2. slot.id = over[o].target =>
          slot.pid \in {0, over[o].pid} /\ (over[o].pid # 0 => proc[over[o].pid] # "alive")
    BY <2>1 DEF OverInv, OverSound, Overwriting
  <2>3. \A k \in Lives : run[k] \notin Driving
    BY <1>3 DEF StartInv
  <2>4. \A k \in Lives : proc[k] = "alive" => slot.pid # k \/ k \in lost'
    <3> SUFFICES ASSUME NEW k \in Lives, proc[k] = "alive", slot.pid = k PROVE k \in lost'
      OBVIOUS
    <3>1. k # 0 /\ RunsProcess(k)
      BY <1>3, TypeFacts DEF Shape, SlotInv, RunsProcess
    <3>2. slot.id # over[o].target
      BY <2>2, <3>1
    <3> QED BY <1>3, <3>1, <3>2 DEF OverwriteRemoves, Alive
  <2> QED BY <1>0, <2>1, <2>2, <2>3, <2>4 DEF RequestDoes
<1> QED BY <1>2, <1>3 DEF OverwriteStep

LEMMA RequestsKeepLives ==
  ASSUME TypeInv, SlotInv, LifeInv, StartInv, HeldInv, RequestDoes
  PROVE  SlotInv' /\ LifeInv' /\ StartInv' /\ HeldInv'
<1>0. Shape
  BY TypeFacts
<1>1. /\ UNCHANGED <<run, info, watch>> /\ lost \subseteq lost'
      /\ \A k \in Lives : proc'[k] = proc[k] \/ (proc[k] = "alive" /\ proc'[k] = "failed")
  BY <1>0 DEF RequestDoes, Kill, Shape
<1>2. LifeInv'
  BY <1>0, <1>1 DEF LifeInv, Unforked, Shape
<1>3. CASE SlotKept
  <2>1. SlotInv'
    BY <1>0, <1>1, <1>3 DEF SlotInv, SlotKept, SlotBecomes, Registered, Committed, Shape
  <2>2. StartInv'
    BY <1>1, <1>3 DEF StartInv, SlotKept, SlotBecomes
  <2>3. HeldInv'
    BY <1>1, <1>3 DEF HeldInv, SlotKept, SlotBecomes
  <2> QED BY <1>2, <2>1, <2>2, <2>3
<1>4. CASE /\ slot' = NoSlot
           /\ \A k \in Lives : /\ run[k] \notin Driving
                               /\ proc'[k] = "alive" => slot.pid # k \/ k \in lost'
  <2>0. slot'.id = 0 /\ slot'.st = "vacant" /\ slot'.pid = 0
    BY <1>4 DEF NoSlot
  <2>1. SlotInv'
    BY <2>0 DEF SlotInv
  <2>2. StartInv'
    <3>1. \A k \in Lives : run'[k] \notin Driving
      BY <1>1, <1>4
    <3> QED BY <3>1 DEF StartInv
  <2>3. HeldInv'
    <3> SUFFICES ASSUME NEW k \in Lives, proc'[k] = "alive" PROVE k \in lost'
      BY DEF HeldInv
    <3>1. proc[k] = "alive" /\ (slot.pid # k \/ k \in lost')
      BY <1>1, <1>4
    <3> QED BY <1>1, <3>1 DEF HeldInv
  <2> QED BY <1>2, <2>1, <2>2, <2>3
<1> QED BY <1>3, <1>4 DEF RequestDoes

(***************************************************************************)
(* What the stop paths see of a step of a life: a claimed slot keeps its   *)
(* process until the start that has it is undone, and a process committed  *)
(* before does not come back.                                              *)
(***************************************************************************)

LifeSeen ==
  /\ \A k \in Lives : Registered(k) => Registered(k)'
  /\ \A k \in Lives : Committed(k) => Committed(k)'
  /\ \A k \in Lives : Committed(k) /\ RunsProcess(k)' => RunsProcess(k)
  /\ \A k \in Lives : proc'[k] = "alive" /\ proc[k] # "alive" => run[k] \in {"begin", "preparing"}
  /\ \A k \in Lives : run'[k] \in HoldingPcs /\ run[k] \notin HoldingPcs => reset.pc = "idle"
  /\ IsStopping =>
       \/ slot'.id = 0 /\ slot'.pid = 0
       \/ /\ slot'.id = slot.id /\ slot'.pid = slot.pid
          /\ slot'.st = slot.st \/ (slot.st = "starting" /\ slot'.st = "running")
  /\ \/ slot'.id \in {0, slot.id}
     \/ slot.st = "vacant" /\ \E k \in Lives : slot'.id = k /\ run[k] = "begin"
  /\ slot.st = "vacant" /\ slot'.id = 0 => slot'.pid = 0
  /\ \A k \in Lives : run[k] = "preparing" /\ IsStopping /\ reset.pc = "idle" =>
       run'[k] = "preparing" \/ slot'.id = 0

LEMMA LifeSees ==
  ASSUME TypeInv, SlotInv, LifeInv, StartInv, LifeDoes, UNCHANGED <<claimed, asked>>
  PROVE  LifeSeen
<1>0. Shape
  BY TypeFacts
<1>1. ASSUME NEW i \in Lives, Admits(i) PROVE LifeSeen
  BY <1>0, <1>1 DEF Admits, Begins, SameInfo, Shape, LifeSeen, Registered, Committed,
       RunsProcess, HoldingPcs, Driving, IsStopping, LifeInv, SlotInv, StartInv,
       Unforked
<1>2. ASSUME NEW i \in Lives, Advances(i) PROVE LifeSeen
  BY <1>0, <1>2 DEF Advances, InfoKept, SameInfo, Shape, LifeSeen, Registered,
       Committed, RunsProcess, HoldingPcs, Driving, IsStopping, LifeInv, SlotInv,
       StartInv, Unforked
<1>3. ASSUME NEW i \in Lives, Reads(i) PROVE LifeSeen
  BY <1>0, <1>3 DEF Reads, SameInfo, Shape, LifeSeen, Registered, Committed,
       RunsProcess, HoldingPcs, Driving, IsStopping, LifeInv, SlotInv, StartInv,
       Unforked
<1>4. ASSUME NEW i \in Lives, Retires(i) PROVE LifeSeen
  BY <1>0, <1>4 DEF Retires, InfoKept, SameInfo, Shape, LifeSeen, Registered,
       Committed, RunsProcess, HoldingPcs, Driving, IsStopping, LifeInv, SlotInv,
       StartInv, Unforked
<1>5. ASSUME NEW i \in Lives, Registers(i) PROVE LifeSeen
  BY <1>0, <1>5 DEF Registers, InfoKept, SameInfo, SlotBecomes, Shape, LifeSeen,
       Registered, Committed, RunsProcess, HoldingPcs, Driving, IsStopping, LifeInv,
       SlotInv, StartInv, Unforked
<1>6. ASSUME NEW i \in Lives, Respawns(i) PROVE LifeSeen
  BY <1>0, <1>6 DEF Respawns, InfoKept, SameInfo, SlotBecomes, AwaitsRestart, Shape,
       LifeSeen, Registered, Committed, RunsProcess, HoldingPcs, Driving, IsStopping,
       LifeInv, SlotInv, StartInv, Unforked
<1>7. ASSUME NEW i \in Lives, Undoes(i) PROVE LifeSeen
  BY <1>0, <1>7 DEF Undoes, InfoKept, SameInfo, SlotBecomes, Kill, NoSlot, Shape,
       LifeSeen, Registered, Committed, RunsProcess, HoldingPcs, Driving, IsStopping,
       LifeInv, SlotInv, StartInv, Unforked
<1>8. ASSUME NEW i \in Lives, Forks(i) PROVE LifeSeen
  BY <1>0, <1>8 DEF Forks, InfoKept, SameInfo, SlotBecomes, Shape, LifeSeen,
       Registered, Committed, RunsProcess, HoldingPcs, Driving, IsStopping, LifeInv,
       SlotInv, StartInv, Unforked
<1>9. ASSUME NEW i \in Lives, Commits(i) PROVE LifeSeen
  BY <1>0, <1>9 DEF Commits, InfoKept, SameInfo, SlotBecomes, Shape, LifeSeen,
       Registered, Committed, RunsProcess, HoldingPcs, Driving, IsStopping, LifeInv,
       SlotInv, StartInv, Unforked
<1>10. ASSUME NEW i \in Lives, Observes(i) PROVE LifeSeen
  BY <1>0, <1>10 DEF Observes, SlotBecomes, SlotKept, Shape, LifeSeen, Registered,
       Committed, RunsProcess, HoldingPcs, Driving, IsStopping, LifeInv, SlotInv,
       StartInv, Unforked
<1>11. ASSUME NEW i \in Lives, Records(i) PROVE LifeSeen
  BY <1>0, <1>11 DEF Records, RunsProcess, Shape, LifeSeen, Registered, Committed,
       HoldingPcs, Driving, IsStopping, LifeInv, SlotInv, StartInv, Unforked
<1>12. ASSUME NEW i \in Lives, Leaves(i) PROVE LifeSeen
  BY <1>0, <1>12 DEF Leaves, Shape, LifeSeen, Registered, Committed, RunsProcess,
       HoldingPcs, Driving, IsStopping, LifeInv, SlotInv, StartInv, Unforked
<1>13. ASSUME NEW i \in Lives, Fails(i) PROVE LifeSeen
  BY <1>0, <1>13 DEF Fails, AwaitsRestart, Shape, LifeSeen, Registered, Committed,
       RunsProcess, HoldingPcs, Driving, IsStopping, LifeInv, SlotInv, StartInv,
       Unforked
<1>14. ASSUME NEW i \in Lives, NEW j \in Lives, Spawns(i, j) PROVE LifeSeen
  BY <1>0, <1>14 DEF Spawns, Begins, SameInfo, Shape, LifeSeen, Registered, Committed,
       RunsProcess, HoldingPcs, Driving, IsStopping, LifeInv, SlotInv, StartInv,
       Unforked
<1>15. ASSUME NEW i \in Lives, NEW j \in Lives, TriesAgain(i, j) PROVE LifeSeen
  BY <1>0, <1>15 DEF TriesAgain, Begins, SameInfo, AwaitsRestart, Shape, LifeSeen,
       Registered, Committed, RunsProcess, HoldingPcs, Driving, IsStopping, LifeInv,
       SlotInv, StartInv, Unforked
<1>16. ASSUME NEW i \in Lives, Detaches(i) PROVE LifeSeen
  BY <1>0, <1>16 DEF Detaches, InfoKept, SameInfo, Shape, LifeSeen, Registered, Committed, RunsProcess, HoldingPcs, Driving, IsStopping, LifeInv, SlotInv, StartInv, Unforked
<1> QED BY <1>1, <1>2, <1>3, <1>4, <1>5, <1>6, <1>7, <1>8, <1>9, <1>10, <1>11, <1>12,
    <1>13, <1>14, <1>15, <1>16 DEF LifeDoes

LEMMA LifeKeepsStops ==
  ASSUME TypeInv, LifeInv, StopInv, LifeSeen, UNCHANGED <<claimed, asked>>
  PROVE  StopInv'
<1>0. UNCHANGED <<claimed, stop, stopped>>
  BY DEF asked
<1>1. 0 \notin claimed /\ claimed \subseteq Lives
  BY TypeFacts DEF TypeInv, Shape
<1>2. \A a \in claimed : Registered(a)'
  BY <1>1 DEF StopInv, LifeSeen
<1>3. slot'.id \in claimed => slot'.id = slot.id
  BY <1>1 DEF LifeSeen, StopInv, Registered
<1>4. slot'.id \notin stopped'
  BY <1>0, <1>3 DEF StopInv
<1>5. ASSUME NEW s \in Stops
      PROVE  /\ stop'[s].target # 0 => stop'[s].target \in claimed'
             /\ stop'[s].pc = "await_start" /\ slot'.id = stop'[s].target
                  => slot'.st \in {"starting", "running"}
             /\ stop'[s].pc \in {"stopping", "removing"} =>
                  /\ Committed(stop[s].pid)'
                  /\ slot'.id = stop'[s].target => RunsProcess(stop[s].pid)'
             /\ stop'[s].pc = "removing" => proc'[stop'[s].pid] # "alive"
  <2>1. stop'[s].target # 0 => stop'[s].target \in claimed'
    BY <1>0 DEF StopInv, StopSound
  <2>2. slot'.id = stop[s].target /\ stop[s].target # 0
          => IsStopping /\ slot'.id = slot.id /\ slot'.pid = slot.pid
             /\ (slot'.st = slot.st \/ (slot.st = "starting" /\ slot'.st = "running"))
    BY <1>3 DEF StopInv, StopSound, LifeSeen, IsStopping
  <2>3. stop[s].pc \in {"await_start", "stopping", "removing"} => stop[s].target # 0
    BY DEF TypeInv, StopTypes
  <2>4. stop[s].pc \in {"stopping", "removing"} => stop[s].pid \in Lives
    BY DEF StopInv, StopSound, Committed
  <2>5. stop[s].pc \in {"stopping", "removing"} => run[stop[s].pid] \notin {"begin", "preparing"}
    BY <2>4 DEF StopInv, StopSound, Committed, LifeInv
  <2> QED BY <1>0, <2>1, <2>2, <2>3, <2>4, <2>5 DEF StopInv, StopSound, LifeSeen, RunsProcess
<1> QED BY <1>0, <1>2, <1>4, <1>5 DEF StopInv, StopSound, Committed, RunsProcess

LEMMA LifeKeepsRequests ==
  ASSUME TypeInv, TypeInv', LifeInv, StopInv, RemoveInv, OwnerInv, ResetInv, LifeSeen,
         UNCHANGED <<claimed, asked>>
  PROVE  RemoveInv' /\ OwnerInv' /\ ResetInv'
<1>0. UNCHANGED <<claimed, stop, rem, over, reset>>
  BY DEF asked
<1>1. Shape /\ 0 \notin claimed /\ (slot'.st = "vacant" <=> slot'.id = 0)
  BY TypeFacts DEF TypeInv, Shape, SlotTypes
<1>2. slot'.id \in claimed => slot'.id = slot.id
  BY <1>1 DEF LifeSeen, StopInv, Registered
<1>3. ASSUME NEW k, Committed(k)
      PROVE  k \in Lives /\ Committed(k)' /\ run[k] \notin {"begin", "preparing"}
  BY <1>3 DEF LifeSeen, Committed, LifeInv
<1>4. RemoveInv'
  <2> SUFFICES ASSUME NEW r \in Removers, NEW p, p = rem[r].pid
      PROVE /\ rem[r].pc \in {"asking", "standing", "killing", "clearing"} => Committed(p)'
            /\ rem[r].pc = "collected" =>
                 IF rem[r].st = "running" THEN Committed(p)' ELSE p = 0
            /\ rem[r].pc = "killing" /\ RunsProcess(p)' => IsStopping'
            /\ rem[r].pc = "clearing" /\ RunsProcess(p)' /\ proc'[p] = "alive" => ClaimerDropped'
    BY <1>0 DEF RemoveInv, RemoveSound, RunsProcess, Committed
  <2>1. /\ rem[r].pc \in {"asking", "standing", "killing", "clearing"} => Committed(p)
        /\ rem[r].pc = "collected" =>
             IF rem[r].st = "running" THEN Committed(p) ELSE p = 0
        /\ rem[r].pc = "killing" /\ RunsProcess(p) => IsStopping
        /\ rem[r].pc = "clearing" /\ RunsProcess(p) /\ proc[p] = "alive" => ClaimerDropped
    BY DEF RemoveInv, RemoveSound
  <2>2. Committed(p) /\ RunsProcess(p)' => RunsProcess(p)
    BY <1>3 DEF LifeSeen
  <2>3. Committed(p) /\ RunsProcess(p)' => slot'.id = slot.id
    BY <1>1, <2>2 DEF LifeSeen, RunsProcess
  <2>4. Committed(p) /\ proc'[p] = "alive" => proc[p] = "alive"
    BY <1>3 DEF LifeSeen
  <2>5. slot'.id = slot.id => (IsStopping => IsStopping') /\ (ClaimerDropped => ClaimerDropped')
    BY <1>0 DEF IsStopping, ClaimerDropped, Cancelled
  <2> QED BY <1>3, <2>1, <2>2, <2>3, <2>4, <2>5
<1>5. OwnerInv'
  <2> SUFFICES ASSUME reset.pc = "idle", slot'.id \in claimed
               PROVE  \/ \E s \in Stops : StopOwns(s)'
                      \/ \E r \in Removers : RemoverOwns(r)'
                      \/ \E o \in Overwriters : Overwriting(o)' /\ over'[o].target = slot'.id
                      \/ Cancelled(slot.id)'
                      \/ Preparing'
    BY <1>0 DEF OwnerInv, IsStopping
  <2>1. IsStopping /\ slot'.id = slot.id /\ slot'.id # 0
    BY <1>1, <1>2 DEF IsStopping
  <2>2. /\ slot'.pid = slot.pid
        /\ slot'.st = slot.st \/ (slot.st = "starting" /\ slot'.st = "running")
    BY <2>1 DEF LifeSeen
  <2>3. ASSUME NEW s \in Stops, StopOwns(s) PROVE StopOwns(s)'
    BY <1>0, <2>1, <2>3 DEF StopOwns
  <2>4. ASSUME NEW r \in Removers, RemoverOwns(r) PROVE RemoverOwns(r)'
    BY <1>0, <2>2, <2>4 DEF RemoverOwns, RunsProcess
  <2>5. ASSUME NEW o \in Overwriters, Overwriting(o), over[o].target = slot.id
        PROVE  Overwriting(o)' /\ over'[o].target = slot'.id
    BY <1>0, <2>1, <2>5 DEF Overwriting
  <2>6. Preparing => Preparing'
    BY <2>1 DEF Preparing, LifeSeen
  <2>7. Cancelled(slot.id) => Cancelled(slot.id)'
    BY <1>0, <2>1 DEF Cancelled
  <2> QED BY <2>1, <2>3, <2>4, <2>5, <2>6, <2>7 DEF OwnerInv
<1>6. ResetInv'
  <2>1. reset.pid # 0 => reset.pid \in Lives
    BY LifecycleAssumption DEF TypeInv, ResetTypes, Lives, LifecycleAssumption
  <2>2. reset.pc \in {"claiming", "killing", "clearing"} =>
          \A i \in Lives : run[i] \notin HoldingPcs /\ run'[i] \notin HoldingPcs
    BY DEF ResetInv, LifeSeen
  <2>3. reset.pc \in {"killing", "clearing"}
          => slot'.id \in claimed \cup {0} /\ slot'.pid \in {0, reset.pid}
    BY <1>1, <2>2 DEF ResetInv, LifeSeen, IsStopping, HoldingPcs, Shape
  <2>4. reset.pc = "clearing" /\ reset.pid # 0 => proc'[reset.pid] # "alive"
    BY <2>1, <2>2 DEF ResetInv, LifeSeen, HoldingPcs
  <2> QED BY <1>0, <2>2, <2>3, <2>4 DEF ResetInv
<1> QED BY <1>4, <1>5, <1>6

LEMMA LifeKeepsOverwrites ==
  ASSUME TypeInv, TypeInv', LifeInv, SlotInv', StopInv, OverInv, LifeSeen, UNCHANGED <<claimed, asked>>
  PROVE  OverInv'
<1> SUFFICES ASSUME NEW o \in Overwriters PROVE OverSound(o)'
  BY DEF OverInv
<1>0. UNCHANGED <<claimed, over, reset>> /\ OverSound(o)
  BY DEF asked, OverInv
<1>1. Shape /\ (slot'.st = "vacant" <=> slot'.id = 0)
  BY TypeFacts DEF TypeInv, SlotTypes
<1>2. ASSUME NEW k, k = over[o].pid, k # 0, Overwriting(o)
      PROVE  /\ k \in Lives /\ Committed(k)'
             /\ proc'[k] = "alive" => proc[k] = "alive"
  <2>1. Committed(k)
    BY <1>0, <1>2 DEF OverSound
  <2>2. k \in Lives /\ run[k] \notin {"begin", "preparing"}
    BY <2>1 DEF Committed, LifeInv
  <2> QED BY <2>1, <2>2 DEF LifeSeen, Committed
<1>3. CASE ~Overwriting(o)
  BY <1>0, <1>3 DEF OverSound, Overwriting
<1>4. CASE Overwriting(o) /\ slot'.id = 0
  <2>1. slot'.id = 0 /\ slot'.pid = 0 /\ slot'.st = "vacant"
    BY <1>1, <1>4 DEF SlotInv
  <2> QED BY <1>0, <1>2, <1>4, <2>1 DEF OverSound, Overwriting, Committed
<1>5. CASE Overwriting(o) /\ slot'.id # over[o].target
  BY <1>0, <1>2, <1>5 DEF OverSound, Overwriting, Committed
<1>6. CASE Overwriting(o) /\ slot'.id # 0 /\ slot'.id = over[o].target
  <2>1. slot'.id \in claimed
    BY <1>0, <1>6 DEF OverSound
  <2>2. slot'.id = slot.id /\ IsStopping
    BY <1>1, <2>1 DEF LifeSeen, StopInv, Registered, IsStopping, Shape
  <2>3. slot'.pid = slot.pid /\ (slot'.st = "starting" => slot.st = "starting")
    BY <1>6, <2>2 DEF LifeSeen
  <2>4. slot.pid \in {0, over[o].pid}
    BY <1>0, <1>6, <2>2 DEF OverSound
  <2>5. slot'.st = "starting" /\ reset.pc = "idle" => Preparing'
    <3> SUFFICES ASSUME slot'.st = "starting", reset.pc = "idle" PROVE Preparing'
      OBVIOUS
    <3>1. PICK k \in Lives : run[k] = "preparing"
      BY <1>0, <1>6, <2>2, <2>3 DEF OverSound, Preparing
    <3> QED BY <1>6, <2>2, <3>1 DEF LifeSeen, Preparing
  <2> QED BY <1>0, <1>2, <1>6, <2>1, <2>3, <2>4, <2>5 DEF OverSound, Overwriting, Committed
<1> QED BY <1>3, <1>4, <1>5, <1>6

(***************************************************************************)
(* The stop paths among themselves.                                        *)
(***************************************************************************)

\* What every request leaves of the claims.
LEMMA ClaimsKept ==
  ASSUME TypeInv, SlotInv, StopInv, RequestDoes
  PROVE  /\ claimed \subseteq claimed'
         /\ \A a \in claimed' : Registered(a)'
         /\ \A k : Committed(k)' <=> Committed(k)
         /\ \A k \in Lives : proc'[k] = "alive" => proc[k] = "alive"
         /\ \/ slot'.id = slot.id /\ slot'.st = slot.st /\ slot'.pid = slot.pid
            \/ slot'.id = 0 /\ slot'.st = "vacant" /\ slot'.pid = 0
<1>0. Shape
  BY TypeFacts
<1>1. UNCHANGED <<run, info, watch>>
  BY DEF RequestDoes
<1>2. claimed \subseteq claimed' /\ \A a \in claimed' : Registered(a)'
  BY <1>0, <1>1 DEF RequestDoes, SlotInv, StopInv, Registered, Shape
<1>3. \A k \in Lives : proc'[k] = "alive" => proc[k] = "alive"
  BY <1>0 DEF RequestDoes, Kill, Shape
<1>4. \/ slot'.id = slot.id /\ slot'.st = slot.st /\ slot'.pid = slot.pid
      \/ slot'.id = 0 /\ slot'.st = "vacant" /\ slot'.pid = 0
  BY DEF RequestDoes, SlotKept, SlotBecomes, NoSlot
<1> QED BY <1>1, <1>2, <1>3, <1>4 DEF Committed

LEMMA OtherStops ==
  ASSUME TypeInv, SlotInv, StopInv, RequestDoes, NEW x \in Stops, stop'[x] = stop[x]
  PROVE  StopSound(x)'
<1>1. StopSound(x)
  BY DEF StopInv
<1>2. stop[x].pc \in {"await_start", "stopping", "removing"} => stop[x].target # 0
  BY DEF TypeInv, StopTypes
<1> QED BY <1>1, <1>2, ClaimsKept DEF StopSound, Committed, RunsProcess

\* A path that was dropped is not taken up again while a removal waits for it.
StaysDropped ==
  /\ \A o \in Overwriters : over[o].pc = "cancelled" => over'[o] = over[o]
  /\ reset.pc = "draining" =>
       reset'.pc = "draining" \/ \A r \in Removers : rem[r].pc # "clearing"

LEMMA OtherRemovals ==
  ASSUME TypeInv, TypeInv', SlotInv, StopInv, RemoveInv, RequestDoes, StaysDropped,
         NEW x \in Removers, rem'[x] = rem[x]
  PROVE  RemoveSound(x)'
<1>1. RemoveSound(x)
  BY DEF RemoveInv
<1>2. RunsProcess(rem[x].pid)' /\ rem'[x].pc \in {"killing", "clearing"} => RunsProcess(rem[x].pid)
  BY ClaimsKept DEF RunsProcess
<1>3. rem[x].pc = "killing" /\ RunsProcess(rem[x].pid)' => IsStopping'
  BY <1>1, <1>2, ClaimsKept DEF RemoveSound, RunsProcess, IsStopping
<1>4. rem[x].pc = "clearing" /\ RunsProcess(rem[x].pid)' /\ proc'[rem[x].pid] = "alive"
        => ClaimerDropped'
  <2> SUFFICES ASSUME rem[x].pc = "clearing", RunsProcess(rem[x].pid)', proc'[rem[x].pid] = "alive"
               PROVE  ClaimerDropped'
    OBVIOUS
  <2>1. Committed(rem[x].pid) /\ RunsProcess(rem[x].pid)
    BY <1>1, <1>2 DEF RemoveSound
  <2>2. proc[rem[x].pid] = "alive" /\ slot'.id = slot.id
    BY <2>1, ClaimsKept DEF Committed, RunsProcess
  <2>3. ClaimerDropped
    BY <1>1, <2>1, <2>2 DEF RemoveSound
  <2> QED BY <2>2, <2>3 DEF StaysDropped, ClaimerDropped, Cancelled
<1> QED BY <1>1, <1>2, <1>3, <1>4, ClaimsKept DEF RemoveSound, Committed, RunsProcess

LEMMA OtherResets ==
  ASSUME TypeInv, SlotInv, StopInv, ResetInv, RequestDoes, UNCHANGED reset,
         reset.pc # "idle" => \A r \in Removers : rem'[r].pc \in {rem[r].pc, "standing", "done"}
                                                  \/ rem[r].pc \notin {"idle", "standing", "done"}
  PROVE  ResetInv'
<1>1. UNCHANGED run
  BY DEF RequestDoes
<1>2. reset.pid # 0 => reset.pid \in Lives
  BY LifecycleAssumption DEF TypeInv, ResetTypes, Lives, LifecycleAssumption
<1> QED BY <1>1, <1>2, ClaimsKept DEF ResetInv

LEMMA StopsKeepStops ==
  ASSUME TypeInv, SlotInv, StopInv, RequestDoes, NEW s \in Stops, StopAdmit(s) \/ StopStep(s)
  PROVE  StopInv'
<1>0. /\ Shape /\ claimed \subseteq Lives
      /\ stop \in [Stops -> StopRecs] /\ StopSound(s) /\ stopped \subseteq claimed
      /\ slot.id \notin stopped
      /\ stop[s].pc \in {"await_start", "stopping", "removing"} => stop[s].target # 0
  BY TypeFacts DEF TypeInv, StopTypes, StopInv
<1>1. /\ claimed \subseteq claimed' /\ (\A a \in claimed' : Registered(a)')
      /\ \A k : Committed(k)' <=> Committed(k)
      /\ \/ slot'.id = slot.id /\ slot'.st = slot.st /\ slot'.pid = slot.pid
         \/ slot'.id = 0 /\ slot'.st = "vacant" /\ slot'.pid = 0
  BY ClaimsKept
<1>2. ASSUME stopped' \subseteq claimed', slot'.id \notin stopped', StopSound(s)',
             \A x \in Stops \ {s} : stop'[x] = stop[x]
      PROVE  StopInv'
  <2>1. \A x \in Stops : StopSound(x)'
    BY <1>2, OtherStops
  <2> QED BY <1>1, <1>2, <2>1 DEF StopInv
<1>3. CASE StopAdmit(s) \/ StopLook(s) \/ StopDropped(s)
  <2>1. /\ stop'[s].target = stop[s].target /\ stop'[s].pc \in {"look", "act", "done"}
        /\ \A x \in Stops \ {s} : stop'[x] = stop[x]
    BY <1>0, <1>3 DEF StopAdmit, StopLook, StopDropped, StopRecs
  <2>2. UNCHANGED stopped
    BY <1>3 DEF StopAdmit, StopLook, StopDropped, history
  <2>3. StopSound(s)'
    BY <1>0, <1>1, <2>1 DEF StopSound
  <2> QED BY <1>0, <1>1, <1>2, <2>1, <2>2, <2>3 DEF Shape
<1>4. CASE StopClaimsRunning(s)
  <2>1. UNCHANGED <<slot, stopped>> /\ \A x \in Stops \ {s} : stop'[x] = stop[x]
    BY <1>0, <1>4 DEF StopClaimsRunning, StopRecs, history
  <2>2. CASE RunsProcess(stop[s].pid)
    <3>1. /\ stop'[s].target = slot.id /\ stop'[s].pc = "stopping" /\ stop'[s].pid = stop[s].pid
          /\ slot.id \in claimed'
      BY <1>0, <1>4, <2>2 DEF StopClaimsRunning, StopRecs
    <3>2. Committed(stop[s].pid)
      BY <2>2 DEF RunsProcess, SlotInv
    <3>3. StopSound(s)'
      BY <1>1, <2>1, <2>2, <3>1, <3>2 DEF StopSound, RunsProcess, Committed
    <3> QED BY <1>0, <1>1, <1>2, <2>1, <3>3
  <2>3. CASE ~RunsProcess(stop[s].pid)
    <3>1. stop'[s].target = stop[s].target /\ stop'[s].pc = "look"
      BY <1>0, <1>4, <2>3 DEF StopClaimsRunning, StopRecs
    <3>2. StopSound(s)'
      BY <1>0, <1>1, <3>1 DEF StopSound
    <3> QED BY <1>0, <1>1, <1>2, <2>1, <3>2
  <2> QED BY <2>2, <2>3
<1>5. CASE StopClears(s)
  <2>1. CASE Removable(0)
    <3>1. /\ stop'[s].target = slot.id /\ stop'[s].pc = "done" /\ slot.id \in claimed'
          /\ stopped' = stopped \cup {slot.id} /\ slot' = NoSlot
          /\ \A x \in Stops \ {s} : stop'[x] = stop[x]
      BY <1>0, <1>5, <2>1 DEF StopClears, StopRecs
    <3>2. slot.id # 0 /\ slot'.id = 0
      BY <1>0, <2>1, <3>1 DEF Removable, NoSlot, Shape
    <3>3. StopSound(s)'
      BY <3>1 DEF StopSound
    <3> QED BY <1>0, <1>1, <1>2, <3>1, <3>2, <3>3 DEF Shape
  <2>2. CASE ~Removable(0)
    <3>1. /\ stop'[s].target = stop[s].target /\ stop'[s].pc = "look"
          /\ UNCHANGED <<slot, stopped>> /\ \A x \in Stops \ {s} : stop'[x] = stop[x]
      BY <1>0, <1>5, <2>2 DEF StopClears, StopRecs
    <3>2. StopSound(s)'
      BY <1>0, <1>1, <3>1 DEF StopSound
    <3> QED BY <1>0, <1>1, <1>2, <3>1, <3>2
  <2> QED BY <2>1, <2>2
<1>6. CASE StopClaimsStarting(s)
  <2>1. UNCHANGED <<slot, stopped>> /\ \A x \in Stops \ {s} : stop'[x] = stop[x]
    BY <1>0, <1>6 DEF StopClaimsStarting, StopRecs, history
  <2>2. \/ stop'[s].target = stop[s].target /\ stop'[s].pc \in {"look", "done"}
        \/ /\ stop'[s].target = slot.id /\ stop'[s].pc = "await_start" /\ slot.id \in claimed'
           /\ slot.st = "starting"
    BY <1>0, <1>6 DEF StopClaimsStarting, StartsARestart, StopRecs
  <2>3. StopSound(s)'
    BY <1>0, <1>1, <2>1, <2>2 DEF StopSound
  <2> QED BY <1>0, <1>1, <1>2, <2>1, <2>3
<1>7. CASE StopAwaitsStart(s)
  <2>1. UNCHANGED <<slot, claimed>> /\ \A x \in Stops \ {s} : stop'[x] = stop[x]
    BY <1>0, <1>7 DEF StopAwaitsStart, StopRecs
  <2>2. stop[s].pc = "await_start" /\ stop'[s].target = stop[s].target /\ stop[s].target \in claimed
    BY <1>0, <1>7 DEF StopAwaitsStart, StopRecs, StopSound
  <2>3. CASE IsStopping /\ slot.st = "running"
    <3>1. stop'[s].pc = "stopping" /\ stop'[s].pid = slot.pid /\ UNCHANGED stopped
      BY <1>0, <1>7, <2>3 DEF StopAwaitsStart, StopRecs
    <3>2. Committed(slot.pid)
      BY <2>3 DEF SlotInv
    <3>3. StopSound(s)'
      BY <1>1, <2>1, <2>2, <2>3, <3>1, <3>2 DEF StopSound, RunsProcess, Committed
    <3> QED BY <1>0, <1>1, <1>2, <2>1, <3>1, <3>3
  <2>4. CASE ~(IsStopping /\ slot.st = "running")
    <3>1. stop'[s].pc = "done" /\ stopped' = stopped \cup {stop[s].target}
      BY <1>0, <1>7, <2>4 DEF StopAwaitsStart, StopRecs
    <3>2. slot.id # stop[s].target
      BY <1>0, <1>7, <2>2, <2>4 DEF StopAwaitsStart, StopSound, IsStopping
    <3>3. StopSound(s)'
      BY <1>1, <2>2, <3>1 DEF StopSound
    <3> QED BY <1>0, <1>1, <1>2, <2>1, <2>2, <3>1, <3>2, <3>3
  <2> QED BY <2>3, <2>4
<1>8. CASE StopKills(s)
  <2>1. /\ UNCHANGED <<slot, claimed, stopped>> /\ (\A x \in Stops \ {s} : stop'[x] = stop[x])
        /\ stop'[s].pc = "removing" /\ stop'[s].pid = stop[s].pid
        /\ stop'[s].target = stop[s].target /\ stop[s].pc = "stopping"
        /\ proc' = Kill(proc, stop[s].pid)
    BY <1>0, <1>8 DEF StopKills, StopRecs, history
  <2>2. stop[s].pid \in Lives /\ Committed(stop[s].pid)
    BY <1>0, <2>1 DEF StopSound, Committed
  <2>3. proc'[stop[s].pid] # "alive"
    BY <1>0, <2>1, <2>2 DEF Kill, Shape
  <2>4. StopSound(s)'
    BY <1>0, <1>1, <2>1, <2>2, <2>3 DEF StopSound, RunsProcess, Committed
  <2> QED BY <1>0, <1>1, <1>2, <2>1, <2>4
<1>9. CASE StopRemoves(s)
  <2>1. /\ (\A x \in Stops \ {s} : stop'[x] = stop[x]) /\ stop'[s].pc = "done"
        /\ stop'[s].target = stop[s].target /\ stop[s].pc = "removing"
        /\ stopped' = stopped \cup {stop[s].target}
    BY <1>0, <1>9 DEF StopRemoves, StopRecs
  <2>2. stop[s].target \in claimed /\ stop[s].target # 0
    BY <1>0, <2>1 DEF StopSound
  <2>3. slot'.id # stop[s].target
    <3>1. CASE slot.id # stop[s].target
      BY <1>1, <2>2, <3>1
    <3>2. CASE slot.id = stop[s].target
      <4>1. Removable(stop[s].pid)
        BY <1>0, <2>1, <3>2 DEF StopSound, RunsProcess, Removable
      <4> QED BY <1>9, <2>2, <4>1 DEF StopRemoves, NoSlot
    <3> QED BY <3>1, <3>2
  <2>4. StopSound(s)'
    BY <1>1, <2>1, <2>2 DEF StopSound
  <2> QED BY <1>0, <1>1, <1>2, <2>1, <2>2, <2>3, <2>4 DEF Shape
<1> QED BY <1>3, <1>4, <1>5, <1>6, <1>7, <1>8, <1>9 DEF StopStep

\* A removal or a reset leaves the stops alone, and a stop or a reset the removals.
LEMMA OthersKeepStops ==
  ASSUME TypeInv, SlotInv, StopInv, RequestDoes, UNCHANGED <<stop, stopped>>
  PROVE  StopInv'
<1>1. \A s \in Stops : StopSound(s)'
  BY OtherStops
<1>2. /\ claimed \subseteq claimed' /\ (\A a \in claimed' : Registered(a)')
      /\ slot'.id \in {slot.id, 0}
  BY ClaimsKept
<1>3. 0 \notin stopped
  BY TypeFacts DEF Shape, StopInv
<1>4. stopped' \subseteq claimed' /\ slot'.id \notin stopped'
  BY <1>2, <1>3 DEF StopInv
<1> QED BY <1>1, <1>2, <1>4 DEF StopInv

LEMMA OthersKeepRemovals ==
  ASSUME TypeInv, TypeInv', SlotInv, StopInv, RemoveInv, RequestDoes, StaysDropped, UNCHANGED rem
  PROVE  RemoveInv'
BY OtherRemovals DEF RemoveInv

\* A removal that met another path's claim goes on once that path has killed the
\* process, unless it was dropped: a claimed slot has an owner, who kills before it
\* clears.
LEMMA WaitedForClaimer ==
  ASSUME TypeInv, SlotInv, StartInv, StopInv, RemoveInv, OwnerInv, OverInv, reset.pc = "idle",
         NEW p, RunsProcess(p), IsStopping, ~ClaimerAtWork(p)
  PROVE  proc[p] # "alive" \/ ClaimerDropped
<1>1. ASSUME NEW s \in Stops, StopOwns(s) PROVE proc[p] # "alive"
  <2>1. CASE stop[s].pc \in {"await_start", "stopping"}
    BY <1>1, <2>1 DEF StopOwns, ClaimerAtWork
  <2>2. CASE stop[s].pc = "removing"
    <3>1. stop[s].pid = p
      BY <1>1, <2>2 DEF StopOwns, StopInv, StopSound, RunsProcess
    <3> QED BY <2>2, <3>1 DEF StopInv, StopSound
  <2> QED BY <1>1, <2>1, <2>2 DEF StopOwns
<1>2. ASSUME NEW x \in Removers, RemoverOwns(x) PROVE proc[p] # "alive" \/ ClaimerDropped
  <2>1. rem[x].pid = p
    BY <1>2 DEF RemoverOwns, RunsProcess
  <2>2. CASE rem[x].pc = "killing"
    BY <1>2, <2>1, <2>2 DEF RemoverOwns, ClaimerAtWork
  <2>3. CASE rem[x].pc = "clearing"
    BY <2>1, <2>3 DEF RemoveInv, RemoveSound
  <2> QED BY <1>2, <2>2, <2>3 DEF RemoverOwns
<1>3. ASSUME NEW o \in Overwriters, Overwriting(o), over[o].target = slot.id
      PROVE  proc[p] # "alive"
  <2>0. p \in Lives /\ slot.pid = p /\ 0 \notin Lives
    BY TypeFacts DEF SlotInv, RunsProcess, Committed, Shape
  <2>3. over[o].pid = p
    BY <1>3, <2>0 DEF OverInv, OverSound
  <2>1. CASE over[o].pc = "killing"
    BY <2>1, <2>3 DEF ClaimerAtWork
  <2>2. CASE over[o].pc = "removing"
    BY <2>0, <2>2, <2>3 DEF OverInv, OverSound
  <2> QED BY <1>3, <2>1, <2>2 DEF Overwriting
<1>4. ~Preparing
  BY DEF Preparing, StartInv, Driving, RunsProcess
<1> QED BY <1>1, <1>2, <1>3, <1>4 DEF OwnerInv, ClaimerDropped

LEMMA RemovalsKeepRemovals ==
  ASSUME TypeInv, TypeInv', SlotInv, StartInv, StopInv, RemoveInv, OwnerInv, OverInv, ResetInv,
         RequestDoes, NEW r \in Removers, RemoveCollects(r) \/ RemoveStep(r)
  PROVE  RemoveInv'
<1>0. Shape /\ rem \in [Removers -> RemRecs] /\ RemoveSound(r)
  BY TypeFacts DEF TypeInv, RemTypes, RemoveInv
<1>1. \A x \in Removers \ {r} : rem'[x] = rem[x]
  BY <1>0 DEF RemoveCollects, RemoveStep, RemoveRefuses, RemoveNotes, RemoveFails,
     RemoveWithdraws, RemoveClaims, RemoveKills, RemoveClears, RemoveDropped
<1>2. ASSUME RemoveSound(r)' PROVE RemoveInv'
  <2>1. StaysDropped
    BY RemoveFrame DEF StaysDropped
  <2> QED BY <1>1, <1>2, <2>1, OtherRemovals DEF RemoveInv
<1>3. \A k : Committed(k)' <=> Committed(k)
  BY ClaimsKept
<1>4. CASE RemoveCollects(r)
  <2>1. /\ rem'[r].pc = "collected" /\ rem'[r].st = slot.st
        /\ rem'[r].pid = IF slot.st = "running" THEN slot.pid ELSE 0
    BY <1>0, <1>4 DEF RemoveCollects, RemRecs
  <2>2. slot.st = "running" => Committed(slot.pid)
    BY DEF SlotInv
  <2> QED BY <1>2, <1>3, <2>1, <2>2 DEF RemoveSound, Committed
<1>5. ASSUME rem'[r].pc = "done" PROVE RemoveInv'
  BY <1>2, <1>5 DEF RemoveSound
<1>6. CASE RemoveRefuses(r) \/ RemoveWithdraws(r) \/ RemoveClears(r) \/ RemoveDropped(r)
  BY <1>0, <1>5, <1>6 DEF RemoveRefuses, RemoveWithdraws, RemoveClears, RemoveDropped, RemRecs
<1>7. CASE RemoveNotes(r) \/ RemoveFails(r)
  <2>1. /\ rem'[r].pc \in {"asking", "standing", "done"} /\ rem'[r].pid = rem[r].pid
        /\ rem[r].pc = "asking" \/ (rem[r].pc = "collected" /\ rem[r].st = "running")
    BY <1>0, <1>7 DEF RemoveNotes, RemoveFails, RemRecs
  <2> QED BY <1>0, <1>2, <1>3, <2>1 DEF RemoveSound, Committed
<1>8. CASE RemoveClaims(r)
  <2>1. /\ rem'[r].pc = "killing" /\ rem'[r].pid = rem[r].pid /\ rem[r].pc = "asking"
        /\ UNCHANGED slot /\ (RunsProcess(rem[r].pid) => slot.id \in claimed')
    BY <1>0, <1>8 DEF RemoveClaims, RemRecs
  <2> QED BY <1>0, <1>2, <1>3, <2>1 DEF RemoveSound, Committed, RunsProcess, IsStopping
<1>9. CASE RemoveKills(r)
  <2>1. /\ rem'[r].pc = "clearing" /\ rem'[r].pid = rem[r].pid /\ rem[r].pc = "killing"
        /\ UNCHANGED slot /\ (rem[r].claim \/ ~ClaimerAtWork(rem[r].pid))
        /\ proc' = IF rem[r].claim THEN Kill(proc, rem[r].pid) ELSE proc
    BY <1>0, <1>9 DEF RemoveKills, RemRecs
  <2>2. rem[r].pid \in Lives /\ Committed(rem[r].pid)
    BY <1>0, <2>1 DEF RemoveSound, Committed
  <2>3. RunsProcess(rem[r].pid) /\ proc'[rem[r].pid] = "alive" => ClaimerDropped
    <3>1. CASE rem[r].claim
      BY <1>0, <2>1, <2>2, <3>1 DEF Kill, Shape
    <3>2. CASE ~rem[r].claim /\ RunsProcess(rem[r].pid) /\ proc[rem[r].pid] = "alive"
      <4>1. reset.pc \in {"idle", "draining"}
        BY <2>1 DEF ResetInv, TypeInv, ResetTypes
      <4>2. CASE reset.pc = "draining"
        BY <4>2 DEF ClaimerDropped
      <4>3. CASE reset.pc = "idle"
        BY <1>0, <2>1, <3>2, <4>3, WaitedForClaimer DEF RemoveSound
      <4> QED BY <4>1, <4>2, <4>3
    <3>3. CASE ~rem[r].claim /\ proc[rem[r].pid] # "alive"
      BY <2>1, <3>3
    <3> QED BY <3>1, <3>2, <3>3
  <2>4. ClaimerDropped' <=> ClaimerDropped
    BY <2>1, RemoveFrame DEF ClaimerDropped, Cancelled
  <2> QED BY <1>2, <1>3, <2>1, <2>2, <2>3, <2>4 DEF RemoveSound, Committed, RunsProcess
<1> QED BY <1>4, <1>6, <1>7, <1>8, <1>9 DEF RemoveStep

(***************************************************************************)
(* A claimed slot keeps an owner: whoever claims is one, and an owner      *)
(* stops being one when it takes the slot from the stack.                  *)
(***************************************************************************)

LEMMA StopsKeepOwner ==
  ASSUME TypeInv, StopInv, OwnerInv, RequestDoes, NEW s \in Stops, StopAdmit(s) \/ StopStep(s)
  PROVE  OwnerInv'
<1>0. /\ Shape /\ stop \in [Stops -> StopRecs] /\ StopSound(s)
  BY TypeFacts DEF TypeInv, StopTypes, StopInv
<1>1. /\ UNCHANGED <<rem, over, reset, run>> /\ 0 \notin claimed'
      /\ \A x \in Stops \ {s} : stop'[x] = stop[x]
  <2>1. UNCHANGED <<rem, over, reset, run>>
    BY StopFrame
  <2>2. 0 \notin claimed'
    BY <1>0 DEF RequestDoes, Shape
  <2> QED BY <1>0, <2>1, <2>2 DEF StopAdmit, StopStep, StopLook, StopClaimsRunning, StopClears,
      StopClaimsStarting, StopAwaitsStart, StopKills, StopRemoves, StopDropped
<1>2. ASSUME slot' = NoSlot PROVE OwnerInv'
  BY <1>1, <1>2 DEF OwnerInv, IsStopping, NoSlot
<1>3. ASSUME UNCHANGED <<slot, claimed>>, StopOwns(s) => StopOwns(s)' PROVE OwnerInv'
  <2>1. \A x \in Stops : StopOwns(x) => StopOwns(x)'
    BY <1>1, <1>3 DEF StopOwns
  <2>2. \A x \in Removers : RemoverOwns(x) => RemoverOwns(x)'
    BY <1>1, <1>3 DEF RemoverOwns, RunsProcess
  <2>3. IsStopping' => IsStopping
    BY <1>3 DEF IsStopping
  <2> QED BY <1>1, <1>3, <2>1, <2>2, <2>3 DEF OwnerInv, Overwriting, Cancelled, Preparing
<1>4. ASSUME StopOwns(s)' PROVE OwnerInv'
  BY <1>4 DEF OwnerInv
<1>5. CASE StopAdmit(s) \/ StopLook(s)
  <2>1. UNCHANGED <<slot, claimed>> /\ ~StopOwns(s)
    BY <1>5 DEF StopAdmit, StopLook, StopOwns
  <2> QED BY <1>3, <2>1
<1>6. CASE StopClaimsRunning(s) \/ StopClaimsStarting(s)
  <2>1. UNCHANGED slot /\ ~StopOwns(s)
    BY <1>6 DEF StopClaimsRunning, StopClaimsStarting, StopOwns
  <2>2. \/ UNCHANGED claimed
        \/ stop'[s].target = slot.id /\ stop'[s].pc \in {"stopping", "await_start"}
    BY <1>0, <1>6 DEF StopClaimsRunning, StopClaimsStarting, StopRecs
  <2>3. CASE UNCHANGED claimed
    BY <1>3, <2>1, <2>3
  <2>4. CASE stop'[s].target = slot.id /\ stop'[s].pc \in {"stopping", "await_start"}
    BY <1>4, <2>1, <2>4 DEF StopOwns
  <2> QED BY <2>2, <2>3, <2>4
<1>7. CASE StopClears(s)
  <2>1. ~StopOwns(s) /\ (slot' = NoSlot \/ UNCHANGED <<slot, claimed>>)
    BY <1>7 DEF StopClears, StopOwns
  <2> QED BY <1>2, <1>3, <2>1
<1>8. CASE StopAwaitsStart(s)
  <2>1. UNCHANGED <<slot, claimed>> /\ stop'[s].target = stop[s].target
    BY <1>0, <1>8 DEF StopAwaitsStart, StopRecs
  <2>2. StopOwns(s) => StopOwns(s)'
    <3> SUFFICES ASSUME StopOwns(s) PROVE StopOwns(s)'
      OBVIOUS
    <3>1. stop[s].pc = "await_start" /\ stop[s].target = slot.id /\ slot.id # 0
      BY <1>8 DEF StopAwaitsStart, StopOwns, TypeInv, StopTypes
    <3>2. IsStopping /\ slot.st \in {"starting", "running"}
      BY <1>0, <3>1 DEF StopSound, IsStopping
    <3>3. stop'[s].pc = "stopping"
      BY <1>0, <1>8, <3>2 DEF StopAwaitsStart, StopRecs
    <3> QED BY <2>1, <3>1, <3>3 DEF StopOwns
  <2> QED BY <1>3, <2>1, <2>2
<1>9. CASE StopKills(s)
  <2>1. /\ UNCHANGED <<slot, claimed>> /\ stop'[s].target = stop[s].target
        /\ stop'[s].pc = "removing"
    BY <1>0, <1>9 DEF StopKills, StopRecs
  <2> QED BY <1>3, <2>1 DEF StopOwns
<1>10. CASE StopRemoves(s)
  <2>1. CASE Removable(stop[s].pid)
    BY <1>2, <1>10, <2>1 DEF StopRemoves
  <2>2. CASE ~Removable(stop[s].pid)
    <3>1. UNCHANGED <<slot, claimed>> /\ stop[s].pc = "removing"
      BY <1>10, <2>2 DEF StopRemoves
    <3>2. ~StopOwns(s)
      BY <1>0, <2>2, <3>1 DEF StopOwns, StopSound, RunsProcess, Removable
    <3> QED BY <1>3, <3>1, <3>2
  <2> QED BY <2>1, <2>2
<1>11. CASE StopDropped(s)
  BY <1>1, <1>11 DEF StopDropped, OwnerInv
<1> QED BY <1>5, <1>6, <1>7, <1>8, <1>9, <1>10, <1>11 DEF StopStep

LEMMA RemovalsKeepOwner ==
  ASSUME TypeInv, StopInv, RemoveInv, OwnerInv, RequestDoes,
         NEW r \in Removers, RemoveCollects(r) \/ RemoveStep(r)
  PROVE  OwnerInv'
<1>0. Shape /\ rem \in [Removers -> RemRecs]
  BY TypeFacts DEF TypeInv, RemTypes
<1>1. /\ UNCHANGED <<stop, over, reset, run>> /\ 0 \notin claimed'
      /\ \A x \in Removers \ {r} : rem'[x] = rem[x]
  <2>1. UNCHANGED <<stop, over, reset, run>>
    BY RemoveFrame
  <2>2. 0 \notin claimed'
    BY <1>0 DEF RequestDoes, Shape
  <2> QED BY <1>0, <2>1, <2>2 DEF RemoveCollects, RemoveStep, RemoveRefuses, RemoveNotes,
      RemoveFails, RemoveWithdraws, RemoveClaims, RemoveKills, RemoveClears, RemoveDropped
<1>2. ASSUME slot' = NoSlot PROVE OwnerInv'
  BY <1>1, <1>2 DEF OwnerInv, IsStopping, NoSlot
<1>3. ASSUME slot'.id = slot.id, slot'.st = slot.st, slot'.pid = slot.pid,
             IsStopping' => IsStopping, RemoverOwns(r) => RemoverOwns(r)'
      PROVE  OwnerInv'
  <2>1. \A x \in Stops : StopOwns(x) => StopOwns(x)'
    BY <1>1, <1>3 DEF StopOwns
  <2>2. \A x \in Removers : RemoverOwns(x) => RemoverOwns(x)'
    BY <1>1, <1>3 DEF RemoverOwns, RunsProcess
  <2> QED BY <1>1, <1>3, <2>1, <2>2 DEF OwnerInv, Overwriting, Cancelled, Preparing
<1>4. ASSUME NEW p, slot' = Withdrawn(p)
      PROVE  slot'.id = slot.id /\ slot'.st = slot.st /\ slot'.pid = slot.pid
  BY <1>4, WithdrawnTypes DEF TypeInv
<1>5. CASE RemoveCollects(r) \/ RemoveRefuses(r) \/ RemoveNotes(r) \/ RemoveFails(r)
           \/ RemoveWithdraws(r)
  <2>1. UNCHANGED claimed /\ rem[r].pc \in {"idle", "collected", "asking", "standing"}
    BY <1>5 DEF RemoveCollects, RemoveRefuses, RemoveNotes, RemoveFails, RemoveWithdraws
  <2>2. slot'.id = slot.id /\ slot'.st = slot.st /\ slot'.pid = slot.pid
    <3>1. CASE RemoveNotes(r)
      <4>1. UNCHANGED slot \/ slot' = [slot EXCEPT !.notes = slot.notes + 1]
        BY <3>1 DEF RemoveNotes
      <4> QED BY <4>1 DEF TypeInv, SlotTypes, Slots
    <3>2. CASE ~RemoveNotes(r)
      <4>1. UNCHANGED slot \/ slot' = Withdrawn(rem[r].noted)
        BY <1>5, <3>2 DEF RemoveCollects, RemoveRefuses, RemoveFails, RemoveWithdraws
      <4> QED BY <1>4, <4>1
    <3> QED BY <3>1, <3>2
  <2> QED BY <1>3, <2>1, <2>2 DEF RemoverOwns, IsStopping
<1>6. CASE RemoveClaims(r)
  <2>1. /\ UNCHANGED slot /\ rem[r].pc = "asking" /\ rem'[r].pc = "killing"
        /\ rem'[r].pid = rem[r].pid
        /\ rem'[r].claim = (RunsProcess(rem[r].pid) /\ ~IsStopping)
        /\ claimed' = IF RunsProcess(rem[r].pid) THEN claimed \cup {slot.id} ELSE claimed
    BY <1>0, <1>6 DEF RemoveClaims, RemRecs
  <2>2. CASE RunsProcess(rem[r].pid) /\ ~IsStopping
    BY <2>1, <2>2 DEF OwnerInv, RemoverOwns, RunsProcess
  <2>3. CASE ~RunsProcess(rem[r].pid) \/ IsStopping
    <3>1. IsStopping' => IsStopping
      BY <2>1, <2>3 DEF IsStopping
    <3> QED BY <1>3, <2>1, <3>1 DEF RemoverOwns
  <2> QED BY <2>2, <2>3
<1>7. CASE RemoveKills(r)
  <2>1. /\ UNCHANGED <<slot, claimed>> /\ rem'[r].pc = "clearing"
        /\ rem'[r].pid = rem[r].pid /\ rem'[r].claim = rem[r].claim
    BY <1>0, <1>7 DEF RemoveKills, RemRecs
  <2> QED BY <1>3, <2>1 DEF RemoverOwns, RunsProcess, IsStopping
<1>8. CASE RemoveClears(r)
  <2>1. CASE Removable(rem[r].pid)
    BY <1>2, <1>8, <2>1 DEF RemoveClears
  <2>2. CASE ~Removable(rem[r].pid)
    <3>1. UNCHANGED claimed /\ slot' = Withdrawn(rem[r].noted)
      BY <1>8, <2>2 DEF RemoveClears
    <3>2. ~RemoverOwns(r)
      BY <2>2 DEF RemoverOwns, RunsProcess, Removable
    <3> QED BY <1>3, <1>4, <3>1, <3>2 DEF IsStopping
  <2> QED BY <2>1, <2>2
<1>9. CASE RemoveDropped(r)
  BY <1>1, <1>9 DEF RemoveDropped, OwnerInv
<1> QED BY <1>5, <1>6, <1>7, <1>8, <1>9 DEF RemoveStep

LEMMA ResetsKeep ==
  ASSUME TypeInv, OwnerInv, ResetInv, RequestDoes, ResetBegins \/ ResetStep
  PROVE  OwnerInv' /\ ResetInv'
<1>0. /\ Shape /\ reset \in [pc : {"idle", "draining", "claiming", "killing", "clearing"},
                             pid : 0 .. MaxLives]
      /\ 0 \notin claimed' /\ (reset.pid # 0 => reset.pid \in Lives)
  <2>1. Shape
    BY TypeFacts
  <2>2. 0 \notin claimed'
    BY <2>1 DEF RequestDoes, Shape
  <2> QED BY <2>1, <2>2, LifecycleAssumption DEF TypeInv, ResetTypes, Lives, LifecycleAssumption
<1>1. UNCHANGED <<run, stop, rem>>
  BY ResetFrame
<1>2. CASE ResetBegins
  <2>1. reset'.pc = "draining"
    BY <1>0, <1>2 DEF ResetBegins
  <2> QED BY <1>0, <2>1 DEF OwnerInv, ResetInv
<1>3. CASE ResetTakesStack
  <2>1. reset.pc = "draining" /\ reset'.pc = "claiming" /\ Drained
    BY <1>0, <1>3 DEF ResetTakesStack
  <2> QED BY <1>1, <2>1 DEF OwnerInv, ResetInv, Drained
<1>4. CASE ResetClaims
  <2>1. /\ reset.pc = "claiming" /\ reset'.pc = "killing" /\ reset'.pid = slot.pid
        /\ UNCHANGED slot /\ (slot.st # "vacant" => slot.id \in claimed')
    BY <1>4 DEF ResetClaims
  <2> QED BY <1>0, <1>1, <2>1 DEF OwnerInv, ResetInv, Shape
<1>5. CASE ResetKills
  <2>1. /\ reset.pc = "killing" /\ reset'.pc = "clearing" /\ reset'.pid = reset.pid
        /\ UNCHANGED <<slot, claimed>> /\ proc' = Kill(proc, reset.pid)
    BY <1>0, <1>5 DEF ResetKills
  <2>2. reset.pid # 0 => proc'[reset.pid] # "alive"
    BY <1>0, <2>1 DEF Kill, Shape
  <2> QED BY <1>1, <2>1, <2>2 DEF OwnerInv, ResetInv
<1>6. CASE ResetClears
  <2>1. reset'.pc = "idle" /\ slot'.id = 0
    BY <1>6 DEF ResetClears, NoSlot
  <2> QED BY <1>0, <2>1 DEF OwnerInv, ResetInv, IsStopping
<1> QED BY <1>2, <1>3, <1>4, <1>5, <1>6 DEF ResetStep

(***************************************************************************)
(* What an overwrite claimed is there until it removes it.                 *)
(***************************************************************************)

LEMMA OtherOverwrites ==
  ASSUME TypeInv, SlotInv, StopInv, OverInv, RequestDoes, NEW o \in Overwriters, over'[o] = over[o],
         reset'.pc = "idle" => reset.pc = "idle" \/ slot'.st = "vacant"
  PROVE  OverSound(o)'
<1>1. OverSound(o)
  BY DEF OverInv
<1>2. /\ Overwriting(o)' <=> Overwriting(o)
      /\ over[o].target # 0 => over[o].target \in claimed /\ over[o].target \in claimed'
  BY <1>1, ClaimsKept DEF Overwriting, OverSound
<1>3. /\ claimed \subseteq claimed'
      /\ over[o].pid # 0 /\ Overwriting(o) => Committed(over[o].pid) /\ Committed(over[o].pid)'
  BY <1>1, ClaimsKept DEF OverSound
<1>4. over[o].pid # 0 /\ Overwriting(o) /\ proc'[over[o].pid] = "alive"
        => proc[over[o].pid] = "alive"
  BY <1>3, ClaimsKept DEF Committed
<1>5. Preparing => Preparing'
  BY DEF Preparing, RequestDoes
<1>6. CASE slot'.id = slot.id /\ slot'.st = slot.st /\ slot'.pid = slot.pid
  BY <1>1, <1>2, <1>3, <1>4, <1>5, <1>6 DEF OverSound, Overwriting
<1>7. CASE slot'.id = 0 /\ slot'.st = "vacant" /\ slot'.pid = 0
  BY <1>1, <1>2, <1>3, <1>4, <1>7 DEF OverSound, Overwriting
<1> QED BY <1>6, <1>7, ClaimsKept

LEMMA OthersKeepOverwrites ==
  ASSUME TypeInv, SlotInv, StopInv, OverInv, RequestDoes, UNCHANGED over,
         reset'.pc = "idle" => reset.pc = "idle" \/ slot'.st = "vacant"
  PROVE  OverInv'
BY OtherOverwrites DEF OverInv

LEMMA OverwritesKeepOverwrites ==
  ASSUME TypeInv, SlotInv, StartInv, StopInv, OverInv, RequestDoes, NEW o \in Overwriters,
         OverwriteLooks(o) \/ OverwriteStep(o)
  PROVE  OverInv'
<1>0. /\ Shape /\ over \in [Overwriters -> OverRecs] /\ UNCHANGED <<run, watch, reset>>
      /\ OverSound(o)
  BY TypeFacts, OverwriteFrame DEF TypeInv, ResetTypes, OverInv
<1>1. \A x \in Overwriters \ {o} : over'[x] = over[x]
  BY <1>0 DEF OverwriteLooks, OverwriteStep, OverwriteClaims, OverwriteKills, OverwriteRemoves,
     OverwriteDropped
<1>2. ASSUME OverSound(o)' PROVE OverInv'
  BY <1>0, <1>1, <1>2, OtherOverwrites DEF OverInv
<1>3. CASE OverwriteLooks(o) \/ OverwriteRemoves(o) \/ OverwriteDropped(o)
  <2>1. over'[o].pc \in {"claiming", "cancelled", "done"} /\ over'[o].target = over[o].target
    BY <1>0, <1>3 DEF OverwriteLooks, OverwriteRemoves, OverwriteDropped, OverRecs
  <2>2. over[o].target # 0 => over[o].target \in claimed'
    BY <1>0, ClaimsKept DEF OverSound
  <2> QED BY <1>2, <2>1, <2>2 DEF OverSound, Overwriting
<1>4. CASE OverwriteClaims(o)
  <2>1. /\ over'[o].pc = "killing" /\ over'[o].pid = slot.pid /\ UNCHANGED slot
        /\ over'[o].target = slot.id
        /\ slot.st # "vacant" => slot.id \in claimed'
        /\ slot.st = "starting" => Preparing
    BY <1>0, <1>4 DEF OverwriteClaims, OverRecs, Preparing
  <2>2. slot.pid # 0 => Committed(slot.pid)
    <3>1. CASE slot.st = "starting"
      BY <2>1, <3>1 DEF Preparing, StartInv, Driving
    <3>2. CASE slot.st # "starting"
      BY <3>2 DEF SlotInv
    <3> QED BY <3>1, <3>2
  <2> QED BY <1>0, <1>2, <2>1, <2>2 DEF OverSound, Overwriting, Committed, Preparing, Shape
<1>5. CASE OverwriteKills(o)
  <2>1. /\ over[o].pc = "killing" /\ over'[o].pc = "removing" /\ over'[o].pid = over[o].pid
        /\ over'[o].target = over[o].target
        /\ UNCHANGED <<slot, claimed>> /\ proc' = Kill(proc, over[o].pid)
    BY <1>0, <1>5 DEF OverwriteKills, OverRecs
  <2>2. over[o].pid # 0 => proc'[over[o].pid] # "alive"
    BY <1>0, <2>1 DEF OverSound, Overwriting, Committed, Kill, Shape
  <2> QED BY <1>0, <1>2, <2>1, <2>2 DEF OverSound, Overwriting, Committed, Preparing
<1> QED BY <1>3, <1>4, <1>5 DEF OverwriteStep

LEMMA OverwritesKeepOwner ==
  ASSUME TypeInv, OwnerInv, OverInv, RequestDoes, NEW o \in Overwriters,
         OverwriteLooks(o) \/ OverwriteStep(o)
  PROVE  OwnerInv'
<1>0. /\ Shape /\ over \in [Overwriters -> OverRecs] /\ UNCHANGED <<run, stop, rem, reset>>
      /\ 0 \notin claimed'
  <2>1. Shape
    BY TypeFacts
  <2>2. 0 \notin claimed'
    BY <2>1 DEF RequestDoes, Shape
  <2> QED BY <2>1, <2>2, OverwriteFrame DEF TypeInv, ResetTypes
<1>1. ASSUME slot' = NoSlot PROVE OwnerInv'
  BY <1>0, <1>1 DEF OwnerInv, IsStopping, NoSlot
<1>2. ASSUME Overwriting(o)', over'[o].target = slot'.id PROVE OwnerInv'
  BY <1>2 DEF OwnerInv
<1>3. /\ \A x \in Overwriters \ {o} : over'[x] = over[x]
      /\ OverwriteClaims(o) \/ over'[o].target = over[o].target
  BY <1>0 DEF OverwriteLooks, OverwriteStep, OverwriteClaims, OverwriteKills, OverwriteRemoves,
     OverwriteDropped, OverRecs
<1>4. ASSUME UNCHANGED <<slot, claimed>>, over'[o].target = over[o].target,
             over[o].target = slot.id /\ Overwriting(o) =>
               Overwriting(o)' \/ over'[o].pc = "cancelled" \/ (reset.pc = "idle" => Preparing),
             over[o].pc # "cancelled"
      PROVE  OwnerInv'
  <2> SUFFICES ASSUME reset'.pc = "idle", IsStopping' PROVE OwnerInv'
    BY DEF OwnerInv
  <2>1. reset.pc = "idle" /\ IsStopping
    BY <1>0, <1>4 DEF IsStopping
  <2>2. CASE (\E x \in Stops : StopOwns(x)) \/ (\E x \in Removers : RemoverOwns(x)) \/ Preparing
    BY <1>0, <1>4, <2>2 DEF OwnerInv, StopOwns, RemoverOwns, RunsProcess, Preparing
  <2>3. ASSUME NEW x \in Overwriters, Overwriting(x), over[x].target = slot.id PROVE OwnerInv'
    <3>1. CASE x # o
      BY <1>3, <1>4, <2>3, <3>1 DEF OwnerInv, Overwriting
    <3>2. CASE x = o /\ Overwriting(o)'
      BY <1>2, <1>4, <2>3, <3>2
    <3>3. CASE x = o /\ over'[o].pc = "cancelled"
      BY <1>4, <2>3, <3>3 DEF OwnerInv, Cancelled
    <3>4. CASE x = o /\ Preparing
      BY <1>0, <3>4 DEF OwnerInv, Preparing
    <3> QED BY <1>4, <2>1, <2>3, <3>1, <3>2, <3>3, <3>4
  <2>4. CASE Cancelled(slot.id)
    BY <1>3, <1>4, <2>4 DEF OwnerInv, Cancelled
  <2> QED BY <2>1, <2>2, <2>3, <2>4 DEF OwnerInv
<1>5. CASE OverwriteLooks(o) \/ OverwriteKills(o) \/ OverwriteDropped(o)
  <2>1. UNCHANGED <<slot, claimed>>
    BY <1>5 DEF OverwriteLooks, OverwriteKills, OverwriteDropped
  <2>2. /\ over[o].pc = "idle" \/ over'[o].pc \in {"removing", "cancelled"}
        /\ over[o].pc # "cancelled"
    BY <1>0, <1>5 DEF OverwriteLooks, OverwriteKills, OverwriteDropped, OverRecs
  <2>3. over'[o].target = over[o].target
    BY <1>0, <1>5 DEF OverwriteLooks, OverwriteKills, OverwriteDropped, OverRecs
  <2> QED BY <1>4, <2>1, <2>2, <2>3 DEF Overwriting
<1>6. CASE OverwriteClaims(o)
  BY <1>0, <1>2, <1>6 DEF OverwriteClaims, Overwriting, OverRecs
<1>7. CASE OverwriteRemoves(o) /\ slot.st # "starting"
  BY <1>1, <1>7 DEF OverwriteRemoves
<1>8. CASE OverwriteRemoves(o) /\ slot.st = "starting"
  <2>1. UNCHANGED <<slot, claimed>> /\ over[o].pc = "removing" /\ over'[o].target = over[o].target
    BY <1>0, <1>8 DEF OverwriteRemoves, OverRecs
  <2>2. over[o].target = slot.id /\ reset.pc = "idle" => Preparing
    BY <1>8, <2>1 DEF OverInv, OverSound, Overwriting
  <2> QED BY <1>4, <2>1, <2>2
<1> QED BY <1>5, <1>6, <1>7, <1>8 DEF OverwriteStep

(***************************************************************************)
(* The marks of a slot: its notes and its health kill.                     *)
(***************************************************************************)

\* The removals that noted process p.
Noters(p) == {r \in Removers : rem[r].noted = p}

NotesHeld == slot.st = "running" => slot.notes = Cardinality(Noters(slot.pid))
KillHeld == slot.kill => slot.st = "running" /\ mon[slot.pid] \in {"armed", "done"}
Marked == NoteInv /\ NotesHeld /\ KillHeld

LEMMA MarkedIs == ~crossed => (Marked <=> NoteInv /\ NothingInherited)
BY DEF Marked, NotesHeld, KillHeld, NothingInherited, Noters

LEMMA FiniteNoters ==
  ASSUME NEW p PROVE IsFiniteSet(Noters(p)) /\ Cardinality(Noters(p)) \in Nat
<1>1. Noters(p) \in SUBSET Removers /\ IsFiniteSet(Removers)
  BY LifecycleAssumption DEF Noters, LifecycleAssumption
<1>2. IsFiniteSet(Noters(p))
  BY <1>1, FS_Subset
<1> QED BY <1>2, FS_CardinalityType

\* Nobody noted a process that is not committed.
LEMMA UnnotedStart ==
  ASSUME RemoveInv, NoteInv, NEW i \in Lives, 0 \notin Lives, ~Committed(i)
  PROVE  Cardinality(Noters(i)) = 0
<1>1. Noters(i) = {}
  <2> SUFFICES ASSUME NEW r \in Removers, rem[r].noted = i PROVE FALSE
    BY DEF Noters
  <2>1. rem[r].pid = i /\ rem[r].pc \in {"asking", "standing", "killing", "clearing"}
    BY DEF NoteInv
  <2> QED BY <2>1 DEF RemoveInv, RemoveSound
<1> QED BY <1>1, FS_EmptySet

LEMMA MarksLife ==
  ASSUME TypeInv, SlotInv, LifeInv, StartInv, RemoveInv, Marked, LifeDoes,
         UNCHANGED <<claimed, asked>>
  PROVE  Marked'
<1>0. Shape /\ mon \in [Lives -> {"off", "probing", "armed", "done"}]
  BY TypeFacts DEF TypeInv, ProcTypes
<1>1. UNCHANGED rem /\ \A p : Noters(p)' = Noters(p)
  BY DEF asked, Noters
<1>2. ASSUME slot'.st \in {"starting", "restarting"} => slot'.notes = 0, slot'.st # "running",
             slot'.kill = FALSE
      PROVE  Marked'
  BY <1>1, <1>2 DEF Marked, NoteInv, NotesHeld, KillHeld
<1>3. ASSUME UNCHANGED <<slot, mon>> PROVE Marked'
  BY <1>1, <1>3 DEF Marked, NoteInv, NotesHeld, KillHeld, Noters
<1>4. slot.kill \in BOOLEAN /\ (slot.st # "running" => slot.kill = FALSE)
  BY DEF Marked, KillHeld, TypeInv, SlotTypes, Slots
<1>5. slot.st \in {"starting", "restarting"} => slot.notes = 0
  BY DEF Marked, NoteInv
<1>6. ASSUME NEW i \in Lives,
             Admits(i) \/ Advances(i) \/ Reads(i) \/ Retires(i) \/ Leaves(i) \/ Detaches(i)
      PROVE  Marked'
  BY <1>3, <1>6 DEF Admits, Advances, Reads, Retires, Leaves, Detaches
<1>7. ASSUME NEW i \in Lives, NEW j \in Lives, Spawns(i, j) PROVE Marked'
  BY <1>3, <1>7 DEF Spawns
<1>8. ASSUME NEW i \in Lives, Registers(i) PROVE Marked'
  BY <1>2, <1>8 DEF Registers, SlotBecomes
<1>9. ASSUME NEW i \in Lives, Respawns(i) PROVE Marked'
  BY <1>2, <1>4, <1>5, <1>9 DEF Respawns, SlotBecomes, MarksKept, AwaitsRestart
<1>10. ASSUME NEW i \in Lives, Undoes(i) PROVE Marked'
  <2>1. slot.st = "starting"
    BY <1>10 DEF Undoes, StartInv
  <2>2. CASE slot' = NoSlot
    BY <1>2, <2>2 DEF NoSlot
  <2>3. CASE SlotBecomes(slot.id, "restarting", 0, slot.attempt, slot.count) /\ MarksKept
    BY <1>2, <1>4, <1>5, <2>1, <2>3 DEF SlotBecomes, MarksKept
  <2> QED BY <1>10, <2>2, <2>3 DEF Undoes
<1>11. ASSUME NEW i \in Lives, Forks(i) PROVE Marked'
  <2>1. slot.st = "starting"
    BY <1>11 DEF Forks, StartInv, Driving
  <2> QED BY <1>2, <1>4, <1>5, <1>11, <2>1 DEF Forks, SlotBecomes, MarksKept
<1>12. ASSUME NEW i \in Lives, Commits(i) PROVE Marked'
  <2>1. slot.st = "starting" /\ slot.pid = i
    BY <1>12 DEF Commits, StartInv, Driving
  <2>2. slot'.st = "running" /\ slot'.pid = i /\ slot'.notes = 0 /\ slot'.kill = FALSE
    BY <1>4, <1>5, <1>12, <2>1 DEF Commits, SlotBecomes, MarksKept
  <2>3. ~Committed(i)
    BY <1>12 DEF Commits, Committed, LifeInv
  <2>4. Cardinality(Noters(i)) = 0
    BY <1>0, <2>3, UnnotedStart DEF Marked, Shape
  <2> QED BY <1>1, <2>2, <2>4 DEF Marked, NoteInv, NotesHeld, KillHeld
<1>13. ASSUME NEW i \in Lives, Observes(i) PROVE Marked'
  <2>1. slot'.id = slot.id /\ slot'.st = slot.st /\ slot'.pid = slot.pid /\ slot'.notes = slot.notes
    BY <1>13 DEF Observes, SlotKept, SlotBecomes
  <2>2. slot.st = "running" => slot.pid \in Lives
    BY DEF SlotInv, Committed
  <2>3. KillHeld'
    <3>1. CASE slot'.kill = slot.kill /\ \A k \in Lives : mon'[k] \in {mon[k], "done"}
      BY <2>1, <2>2, <3>1 DEF Marked, KillHeld
    <3>2. CASE mon' = [mon EXCEPT ![i] = "armed"] /\ RunsProcess(i)
      BY <1>0, <2>1, <3>2 DEF KillHeld, RunsProcess
    <3> QED BY <1>13, <3>1, <3>2 DEF Observes
  <2> QED BY <1>1, <2>1, <2>3 DEF Marked, NoteInv, NotesHeld
<1>14. ASSUME NEW i \in Lives, Records(i) PROVE Marked'
  BY <1>2, <1>14 DEF Records
<1>15. ASSUME NEW i \in Lives, Fails(i) PROVE Marked'
  BY <1>2, <1>4, <1>15 DEF Fails, MarksKept, AwaitsRestart
<1>16. ASSUME NEW i \in Lives, NEW j \in Lives, TriesAgain(i, j) PROVE Marked'
  BY <1>2, <1>4, <1>5, <1>16 DEF TriesAgain, MarksKept, AwaitsRestart
<1> QED BY <1>6, <1>7, <1>8, <1>9, <1>10, <1>11, <1>12, <1>13, <1>14, <1>15, <1>16 DEF LifeDoes

LEMMA MarksOthers ==
  ASSUME Marked, UNCHANGED <<rem, mon>>, slot' = slot \/ slot' = NoSlot
  PROVE  Marked'
<1>1. CASE slot' = slot
  BY <1>1 DEF Marked, NoteInv, NotesHeld, KillHeld, Noters
<1>2. CASE slot' = NoSlot
  BY <1>2 DEF Marked, NoteInv, NotesHeld, KillHeld, NoSlot
<1> QED BY <1>1, <1>2

\* A removal's note is in the slot of the process it noted, as long as that runs.
LEMMA MarksRemovals ==
  ASSUME TypeInv, SlotInv, RemoveInv, Marked, NEW r \in Removers,
         RemoveCollects(r) \/ RemoveStep(r)
  PROVE  Marked'
<1>0. /\ Shape /\ rem \in [Removers -> RemRecs] /\ UNCHANGED mon /\ slot \in Slots
      /\ slot.notes \in Nat /\ RemoveSound(r)
      /\ \A x \in Removers : rem[x].noted # 0 =>
           /\ rem[x].noted = rem[x].pid
           /\ rem[x].pc \in {"asking", "standing", "killing", "clearing"}
      /\ slot.st = "running" => slot.pid \in Lives
  BY TypeFacts, RemoveFrame DEF TypeInv, RemTypes, SlotTypes, Slots, Marked, NoteInv, RemoveInv,
     SlotInv, Committed
<1>1. \A x \in Removers \ {r} : rem'[x] = rem[x]
  BY <1>0 DEF RemoveCollects, RemoveStep, RemoveRefuses, RemoveNotes, RemoveFails,
     RemoveWithdraws, RemoveClaims, RemoveKills, RemoveClears, RemoveDropped
<1>2. ASSUME rem'[r].noted = rem[r].noted, UNCHANGED slot,
             rem'[r].noted # 0 => /\ rem'[r].pid = rem[r].pid
                                  /\ rem'[r].pc \in {"asking", "standing", "killing", "clearing"}
      PROVE  Marked'
  <2>1. \A p : Noters(p)' = Noters(p)
    BY <1>1, <1>2 DEF Noters
  <2> QED BY <1>0, <1>1, <1>2, <2>1 DEF Marked, NoteInv, NotesHeld, KillHeld
<1>3. ASSUME rem'[r].noted = 0, slot' = Withdrawn(rem[r].noted) PROVE Marked'
  <2>0. /\ slot'.id = slot.id /\ slot'.st = slot.st /\ slot'.pid = slot.pid
        /\ slot'.kill = slot.kill
        /\ slot'.notes = IF RunsProcess(rem[r].noted) /\ slot.notes > 0
                         THEN slot.notes - 1 ELSE slot.notes
    BY <1>0, <1>3 DEF Withdrawn, Slots
  <2>1. NoteInv'
    BY <1>0, <1>1, <1>3, <2>0 DEF NoteInv, Marked, RunsProcess
  <2>2. KillHeld'
    BY <1>0, <2>0 DEF KillHeld, Marked
  <2>3. NotesHeld'
    <3> SUFFICES ASSUME slot.st = "running"
                 PROVE  slot'.notes = Cardinality(Noters(slot.pid)')
      BY <2>0 DEF NotesHeld, Noters
    <3>1. slot.notes = Cardinality(Noters(slot.pid)) /\ slot.pid # 0
      BY <1>0 DEF Marked, NotesHeld, Shape
    <3>2. CASE rem[r].noted = slot.pid
      <4>1. Noters(slot.pid)' = Noters(slot.pid) \ {r} /\ r \in Noters(slot.pid)
        <5>1. Noters(slot.pid)' = {x \in Removers : rem'[x].noted = slot'.pid}
          BY DEF Noters
        <5> QED BY <1>1, <1>3, <2>0, <3>1, <3>2, <5>1 DEF Noters
      <4>2. Cardinality(Noters(slot.pid) \ {r}) = Cardinality(Noters(slot.pid)) - 1
        BY <4>1, FiniteNoters, FS_RemoveElement
      <4>3. Cardinality(Noters(slot.pid)) # 0 /\ Cardinality(Noters(slot.pid)) \in Nat
        BY <4>1, FiniteNoters, FS_EmptySet
      <4> QED BY <2>0, <3>1, <3>2, <4>1, <4>2, <4>3 DEF RunsProcess
    <3>3. CASE rem[r].noted # slot.pid
      <4>1. Noters(slot.pid)' = Noters(slot.pid)
        <5>1. Noters(slot.pid)' = {x \in Removers : rem'[x].noted = slot'.pid}
          BY DEF Noters
        <5> QED BY <1>1, <1>3, <2>0, <3>1, <3>3, <5>1 DEF Noters
      <4> QED BY <2>0, <3>1, <3>3, <4>1 DEF RunsProcess
    <3> QED BY <3>2, <3>3
  <2> QED BY <2>1, <2>2, <2>3 DEF Marked
<1>4. CASE RemoveCollects(r) \/ RemoveRefuses(r)
  <2>1. UNCHANGED slot /\ rem'[r].noted = rem[r].noted /\ rem[r].pc \in {"idle", "collected"}
    BY <1>0, <1>4 DEF RemoveCollects, RemoveRefuses, RemRecs
  <2> QED BY <1>0, <1>2, <2>1
<1>5. CASE RemoveClaims(r) \/ RemoveKills(r)
  <2>1. /\ UNCHANGED slot /\ rem'[r].noted = rem[r].noted /\ rem'[r].pid = rem[r].pid
        /\ rem'[r].pc \in {"killing", "clearing"}
    BY <1>0, <1>5 DEF RemoveClaims, RemoveKills, RemRecs
  <2> QED BY <1>2, <2>1
<1>6. CASE RemoveNotes(r)
  <2>1. /\ rem[r].pc = "collected" /\ rem'[r].pc = "asking" /\ rem'[r].pid = rem[r].pid
        /\ rem'[r].noted = rem[r].pid /\ rem[r].st = "running"
    BY <1>0, <1>6 DEF RemoveNotes, RemRecs
  <2>2. rem[r].noted = 0 /\ rem[r].pid \in Lives /\ rem[r].pid # 0
    BY <1>0, <2>1 DEF RemoveSound, Committed, Shape
  <2>3. /\ slot'.id = slot.id /\ slot'.st = slot.st /\ slot'.pid = slot.pid
        /\ slot'.kill = slot.kill
        /\ slot'.notes = IF RunsProcess(rem[r].pid) THEN slot.notes + 1 ELSE slot.notes
    BY <1>0, <1>6 DEF RemoveNotes, Slots
  <2>4. NoteInv'
    BY <1>0, <1>1, <2>1, <2>3 DEF NoteInv, Marked, RunsProcess
  <2>5. KillHeld'
    BY <1>0, <2>3 DEF KillHeld, Marked
  <2>6. NotesHeld'
    <3> SUFFICES ASSUME slot.st = "running"
                 PROVE  slot'.notes = Cardinality(Noters(slot.pid)')
      BY <2>3 DEF NotesHeld, Noters
    <3>1. slot.notes = Cardinality(Noters(slot.pid)) /\ slot.pid # 0
      BY <1>0 DEF Marked, NotesHeld, Shape
    <3>2. Noters(slot.pid)' = {x \in Removers : rem'[x].noted = slot'.pid}
      BY DEF Noters
    <3>3. CASE rem[r].pid = slot.pid
      <4>1. Noters(slot.pid)' = Noters(slot.pid) \cup {r} /\ r \notin Noters(slot.pid)
        BY <1>1, <2>1, <2>2, <2>3, <3>1, <3>2, <3>3 DEF Noters
      <4>2. Cardinality(Noters(slot.pid) \cup {r}) = Cardinality(Noters(slot.pid)) + 1
        BY <4>1, FiniteNoters, FS_AddElement
      <4> QED BY <2>3, <3>1, <3>3, <4>1, <4>2 DEF RunsProcess
    <3>4. CASE rem[r].pid # slot.pid
      <4>1. Noters(slot.pid)' = Noters(slot.pid)
        BY <1>1, <2>1, <2>2, <2>3, <3>1, <3>2, <3>4 DEF Noters
      <4> QED BY <2>3, <3>1, <3>4, <4>1 DEF RunsProcess
    <3> QED BY <3>3, <3>4
  <2> QED BY <2>4, <2>5, <2>6 DEF Marked
<1>7. CASE RemoveFails(r)
  <2>1. CASE slot' = Withdrawn(rem[r].noted) /\ rem' = [rem EXCEPT ![r].pc = "done", ![r].noted = 0]
    <3>1. rem'[r].noted = 0
      BY <1>0, <2>1 DEF RemRecs
    <3> QED BY <1>3, <2>1, <3>1
  <2>2. CASE UNCHANGED slot /\ rem' = [rem EXCEPT ![r].pc = "standing"]
    <3>1. rem'[r].noted = rem[r].noted /\ rem'[r].pid = rem[r].pid /\ rem'[r].pc = "standing"
      BY <1>0, <2>2 DEF RemRecs
    <3> QED BY <1>2, <2>2, <3>1
  <2> QED BY <1>7, <2>1, <2>2 DEF RemoveFails
<1>8. CASE RemoveWithdraws(r) \/ RemoveDropped(r)
  <2>1. slot' = Withdrawn(rem[r].noted) /\ rem'[r].noted = 0
    BY <1>0, <1>8 DEF RemoveWithdraws, RemoveDropped, RemRecs
  <2> QED BY <1>3, <2>1
<1>9. CASE RemoveClears(r)
  <2>1. rem'[r].noted = 0
    BY <1>0, <1>9 DEF RemoveClears, RemRecs
  <2>2. CASE slot' = NoSlot
    <3>1. slot'.st = "vacant" /\ slot'.kill = FALSE
      BY <2>2 DEF NoSlot
    <3> QED BY <1>0, <1>1, <2>1, <3>1 DEF Marked, NoteInv, NotesHeld, KillHeld
  <2>3. CASE slot' = Withdrawn(rem[r].noted)
    BY <1>3, <2>1, <2>3
  <2> QED BY <1>9, <2>2, <2>3 DEF RemoveClears
<1> QED BY <1>4, <1>5, <1>6, <1>7, <1>8, <1>9 DEF RemoveStep

(***************************************************************************)
(* The invariant holds.                                                    *)
(***************************************************************************)

LEMMA LifecycleInit == Init => LifecycleInv
<1> SUFFICES ASSUME Init PROVE LifecycleInv
  OBVIOUS
<1>1. TypeInv
  BY TypeInit
<1>2. /\ slot.id = 0 /\ slot.st = "vacant" /\ slot.pid = 0 /\ slot.kill = FALSE
      /\ claimed = {} /\ stopped = {} /\ reset.pc = "idle"
      /\ \A i \in Lives : /\ run[i] = "unused" /\ proc[i] = "none" /\ watch[i] = "off"
                          /\ info[i].kind = "new"
      /\ \A s \in Stops : stop[s].pc = "idle" /\ stop[s].target = 0
      /\ \A r \in Removers : rem[r].pc = "idle" /\ rem[r].noted = 0
      /\ \A o \in Overwriters : over[o].pc = "idle" /\ over[o].target = 0
  BY DEF Init, NoSlot
<1>3. SlotInv /\ LifeInv /\ StartInv /\ HeldInv
  BY <1>2 DEF SlotInv, LifeInv, StartInv, HeldInv, Driving
<1>4. StopInv /\ RemoveInv /\ OwnerInv /\ OverInv /\ ResetInv
  BY <1>2 DEF StopInv, StopSound, RemoveInv, RemoveSound, OwnerInv, IsStopping, OverInv, OverSound,
     Overwriting, ResetInv
<1>5. NoteInv /\ NothingInherited
  BY <1>2 DEF NoteInv, NothingInherited
<1> QED BY <1>1, <1>3, <1>4, <1>5 DEF LifecycleInv

LEMMA LifecycleStep == LifecycleInv /\ [Next]_vars => LifecycleInv'
<1> SUFFICES ASSUME LifecycleInv, [Next]_vars PROVE LifecycleInv'
  OBVIOUS
<1>1. TypeInv /\ TypeInv'
  BY TypeStep DEF LifecycleInv
<1> SUFFICES ASSUME ~crossed' PROVE LifecycleInv'
  BY <1>1 DEF LifecycleInv
<1>2. ~crossed
  BY <1>1, HistoryGrows DEF TypeInv
<1>0. /\ SlotInv /\ LifeInv /\ StartInv /\ HeldInv
      /\ StopInv /\ RemoveInv /\ OwnerInv /\ OverInv /\ ResetInv /\ Marked
  BY <1>2, MarkedIs DEF LifecycleInv
<1>3. ASSUME SlotInv', LifeInv', StartInv', HeldInv',
             StopInv', RemoveInv', OwnerInv', OverInv', ResetInv', Marked'
      PROVE  LifecycleInv'
  <2>1. NoteInv' /\ NothingInherited'
    BY <1>3, MarkedIs, PTL
  <2> QED BY <1>1, <1>3, <2>1 DEF LifecycleInv
<1>4. CASE UNCHANGED vars
  <2>1. UNCHANGED <<slot, claimed, run, info, proc, watch, mon, stop, rem, over, reset, epoch,
                    detached, stopped, lost, crossed>>
    BY <1>4 DEF vars
  <2>2. SlotInv' /\ LifeInv' /\ StartInv' /\ HeldInv'
    BY <1>0, <2>1 DEF SlotInv, LifeInv, StartInv, HeldInv, Registered, Committed
  <2>3. StopInv' /\ RemoveInv' /\ OwnerInv' /\ OverInv' /\ ResetInv'
    BY <1>0, <2>1 DEF StopInv, StopSound, RemoveInv, RemoveSound, OwnerInv, StopOwns, RemoverOwns,
       OverInv, OverSound, Overwriting, Preparing, ResetInv, Registered, Committed, IsStopping,
       RunsProcess, Cancelled, ClaimerDropped
  <2>4. Marked'
    BY <1>0, <2>1, MarksOthers
  <2> QED BY <1>3, <2>2, <2>3, <2>4
<1>5. ASSUME NEW i \in Lives, LifeStep(i) PROVE LifecycleInv'
  <2>1. UNCHANGED <<claimed, asked>> /\ lost \subseteq lost'
    BY <1>5, LifeFrame
  <2>2. LifeDoes
    BY <1>0, <1>1, <1>5, LifeStepDoes
  <2>3. LifeSeen
    BY <1>0, <1>1, <2>1, <2>2, LifeSees
  <2>4. SlotInv' /\ LifeInv' /\ StartInv' /\ HeldInv'
    BY <1>0, <1>1, <2>1, <2>2, SlotLife, LivesLife, StartLife, HeldLife
  <2>5. StopInv' /\ RemoveInv' /\ OwnerInv' /\ OverInv' /\ ResetInv'
    BY <1>0, <1>1, <2>1, <2>3, <2>4, LifeKeepsStops, LifeKeepsRequests, LifeKeepsOverwrites
  <2>6. Marked'
    BY <1>0, <1>1, <2>1, <2>2, MarksLife
  <2> QED BY <1>3, <2>4, <2>5, <2>6
<1>6. ASSUME NEW s \in Stops, StopAdmit(s) \/ StopStep(s) PROVE LifecycleInv'
  <2>1. RequestDoes
    BY <1>0, <1>1, <1>6, StopDoes
  <2>2. SlotInv' /\ LifeInv' /\ StartInv' /\ HeldInv'
    BY <1>0, <1>1, <2>1, RequestsKeepLives
  <2>3. UNCHANGED <<mon, rem, over, reset>> /\ StaysDropped
    BY <1>6, StopFrame DEF StaysDropped
  <2>4. StopInv' /\ OwnerInv'
    BY <1>0, <1>1, <1>6, <2>1, StopsKeepStops, StopsKeepOwner
  <2>5. RemoveInv' /\ OverInv' /\ ResetInv'
    BY <1>0, <1>1, <2>1, <2>3, OthersKeepRemovals, OthersKeepOverwrites, OtherResets
  <2>6. slot' = slot \/ slot' = NoSlot
    BY <1>6 DEF StopAdmit, StopStep, StopLook, StopClaimsRunning, StopClears, StopClaimsStarting,
       StopAwaitsStart, StopKills, StopRemoves, StopDropped
  <2>7. Marked'
    BY <1>0, <2>3, <2>6, MarksOthers
  <2> QED BY <1>3, <2>2, <2>4, <2>5, <2>7
<1>7. ASSUME NEW r \in Removers, RemoveCollects(r) \/ RemoveStep(r) PROVE LifecycleInv'
  <2>1. RequestDoes
    BY <1>0, <1>1, <1>7, RemoveDoes
  <2>2. SlotInv' /\ LifeInv' /\ StartInv' /\ HeldInv'
    BY <1>0, <1>1, <2>1, RequestsKeepLives
  <2>3. UNCHANGED <<stop, over, reset, stopped>>
    BY <1>7, RemoveFrame
  <2>4. RemoveInv' /\ OwnerInv'
    BY <1>0, <1>1, <1>7, <2>1, RemovalsKeepRemovals, RemovalsKeepOwner
  <2>5. StopInv' /\ OverInv'
    BY <1>0, <1>1, <2>1, <2>3, OthersKeepStops, OthersKeepOverwrites
  <2>6. ASSUME reset.pc # "idle", NEW x \in Removers
        PROVE  \/ rem'[x].pc \in {rem[x].pc, "standing", "done"}
               \/ rem[x].pc \notin {"idle", "standing", "done"}
    <3>1. rem \in [Removers -> RemRecs] /\ ~RemoveCollects(r)
      BY <1>1, <2>6 DEF TypeInv, RemTypes, RemoveCollects, CanRead
    <3> QED BY <1>7, <3>1 DEF RemoveStep, RemoveRefuses, RemoveNotes, RemoveFails,
        RemoveWithdraws, RemoveClaims, RemoveKills, RemoveClears, RemoveDropped, RemRecs
  <2>7. ResetInv'
    BY <1>0, <1>1, <2>1, <2>3, <2>6, OtherResets
  <2>8. Marked'
    BY <1>0, <1>1, <1>7, MarksRemovals
  <2> QED BY <1>3, <2>2, <2>4, <2>5, <2>7, <2>8
<1>8. ASSUME ResetBegins \/ ResetStep PROVE LifecycleInv'
  <2>1. RequestDoes
    BY <1>0, <1>1, <1>8, ResetDoes
  <2>2. SlotInv' /\ LifeInv' /\ StartInv' /\ HeldInv'
    BY <1>0, <1>1, <2>1, RequestsKeepLives
  <2>3. UNCHANGED <<mon, stop, rem, over, stopped>>
    BY <1>8, ResetFrame
  <2>4. OwnerInv' /\ ResetInv'
    BY <1>0, <1>1, <1>8, <2>1, ResetsKeep
  <2>5. StaysDropped
    BY <1>8, <2>3 DEF StaysDropped, ResetBegins, ResetStep, ResetTakesStack, ResetClaims, ResetKills,
       ResetClears, Drained
  <2>6. StopInv' /\ RemoveInv'
    BY <1>0, <1>1, <2>1, <2>3, <2>5, OthersKeepStops, OthersKeepRemovals
  <2>7. slot' = slot \/ slot' = NoSlot
    BY <1>8 DEF ResetBegins, ResetStep, ResetTakesStack, ResetClaims, ResetKills, ResetClears
  <2>8. reset'.pc = "idle" => reset.pc = "idle" \/ slot'.st = "vacant"
    BY <1>1, <1>8 DEF TypeInv, ResetTypes, ResetBegins, ResetStep, ResetTakesStack, ResetClaims,
       ResetKills, ResetClears, NoSlot
  <2>9. OverInv'
    BY <1>0, <1>1, <2>1, <2>3, <2>8, OthersKeepOverwrites
  <2>10. Marked'
    BY <1>0, <2>3, <2>7, MarksOthers
  <2> QED BY <1>3, <2>2, <2>4, <2>6, <2>9, <2>10
<1>9. ASSUME NEW o \in Overwriters, OverwriteLooks(o) \/ OverwriteStep(o) PROVE LifecycleInv'
  <2>1. RequestDoes
    BY <1>0, <1>1, <1>9, OverwriteDoes
  <2>2. SlotInv' /\ LifeInv' /\ StartInv' /\ HeldInv'
    BY <1>0, <1>1, <2>1, RequestsKeepLives
  <2>3. UNCHANGED <<mon, stop, rem, reset, stopped>>
    BY <1>9, OverwriteFrame
  <2>4. OwnerInv' /\ OverInv'
    BY <1>0, <1>1, <1>9, <2>1, OverwritesKeepOwner, OverwritesKeepOverwrites
  <2>5. StaysDropped
    <3>1. over \in [Overwriters -> OverRecs]
      BY <1>1 DEF TypeInv, ResetTypes
    <3> QED BY <1>9, <2>3, <3>1 DEF StaysDropped, OverwriteLooks, OverwriteStep, OverwriteClaims,
        OverwriteKills, OverwriteRemoves, OverwriteDropped
  <2>6. StopInv' /\ RemoveInv' /\ ResetInv'
    BY <1>0, <1>1, <2>1, <2>3, <2>5, OthersKeepStops, OthersKeepRemovals, OtherResets
  <2>7. slot' = slot \/ slot' = NoSlot
    BY <1>9 DEF OverwriteLooks, OverwriteStep, OverwriteClaims, OverwriteKills, OverwriteRemoves,
       OverwriteDropped
  <2>8. Marked'
    BY <1>0, <2>3, <2>7, MarksOthers
  <2> QED BY <1>3, <2>2, <2>4, <2>6, <2>8
<1> QED BY <1>4, <1>5, <1>6, <1>7, <1>8, <1>9, StepCases

LEMMA LifecycleHolds == Spec => []LifecycleInv
BY LifecycleInit, LifecycleStep, PTL DEF Spec

\* The theorems below hold of every behaviour; like their properties they say nothing
\* of what follows a panic that is `crossed`.

\* No process of the id escapes the daemon but on the three paths that leave one
\* behind: beside those the slot has the pid of every live process, so every stop
\* path, the health kill and the teardown reach it (Phase 3b of prepare_and_spawn
\* records the pid with the fork; undo_start and claim_and_remove follow the kill).
THEOREM ProcessesHeld == Spec => []NoOtherOrphan
<1>1. LifecycleInv => NoOtherOrphan
  BY DEF LifecycleInv, HeldInv, NoOtherOrphan, Alive
<1> QED BY <1>1, LifecycleHolds, PTL

\* At most one process of the id is alive, the ones left behind aside, across
\* restarts, failed starts, stops, removals, overwrites, resets and new instances:
\* begin_respawn and prepare_and_spawn take a slot that has none.
THEOREM OneProcessRuns == Spec => []OneProcess
<1>1. LifecycleInv => OneProcess
  BY DEF LifecycleInv, HeldInv, OneProcess, Alive
<1> QED BY <1>1, LifecycleHolds, PTL

\* What a node_stop answered it stopped never runs again: its slot does not come
\* back, and a restart task, a start in flight or an exit watcher of it finds the
\* claim or another slot (stop.rs, and the claim's look in supervisor.rs).
THEOREM StoppedInstancesStay == Spec => []StoppedStaysStopped
<1>1. LifecycleInv => StoppedStaysStopped
  <2> SUFFICES ASSUME LifecycleInv, ~crossed PROVE StoppedStaysStopped
    BY DEF StoppedStaysStopped
  <2>1. slot.id \notin stopped
    BY DEF LifecycleInv, StopInv
  <2>2. \A i \in Alive \ lost : info[i].home = slot.id
    BY TypeFacts DEF LifecycleInv, HeldInv, SlotInv, Shape, Alive
  <2> QED BY <2>1, <2>2 DEF StoppedStaysStopped
<1> QED BY <1>1, LifecycleHolds, PTL

\* A slot claimed while no reset works has a stop, a removal or an overwrite that
\* will take it from the stack, or a start that will find the claim, or a node_add
\* claimed it and was cancelled (claim_running, claim_starting, claim_process and
\* claim_instance, whose callers end in a removal of the slot).
THEOREM ClaimsOwned == Spec => []ClaimHasOwner
<1>1. LifecycleInv => ClaimHasOwner
  <2> SUFFICES ASSUME OwnerInv, slot.st # "vacant", IsStopping, reset.pc = "idle"
               PROVE  Enders # {} \/ Cancelled(slot.id)
    BY DEF LifecycleInv, ClaimHasOwner
  <2>1. CASE \E s \in Stops : StopOwns(s)
    BY <2>1 DEF StopOwns, Enders
  <2>2. CASE \E r \in Removers : RemoverOwns(r)
    BY <2>2 DEF RemoverOwns, Enders
  <2>3. CASE \E o \in Overwriters : Overwriting(o) /\ over[o].target = slot.id
    BY <2>3 DEF Overwriting, Enders
  <2>4. CASE Preparing
    BY <2>4 DEF Preparing, Enders
  <2> QED BY <2>1, <2>2, <2>3, <2>4 DEF OwnerInv
<1> QED BY <1>1, LifecycleHolds, PTL

\* A running slot has exactly the notes of the removals that noted its process, and
\* a health kill only of that process's monitor (note_shutdown_request,
\* withdraw_shutdown_request, arm_health_kill and record_exit).
THEOREM MarksNotInherited == Spec => []NothingInherited
<1>1. LifecycleInv => NothingInherited
  BY DEF LifecycleInv, NothingInherited
<1> QED BY <1>1, LifecycleHolds, PTL

\* When a reset ends, no process of the id is alive that was not left behind: a
\* start it dropped where it was left its pid on the slot, which the teardown killed
\* before the clear (teardown_all_instances).
THEOREM ResetsEndProcesses == Spec => ResetEndsAll
<1>1. LifecycleInv /\ LifecycleInv' /\ [Next]_vars => [ResetStepClean]_vars
  <2> SUFFICES ASSUME ~crossed' => HeldInv', [Next]_vars, ~UNCHANGED vars, ~crossed,
                      reset.pc = "clearing", reset'.pc = "idle", NEW i \in Lives,
                      proc'[i] = "alive"
               PROVE  i \in lost
    BY DEF LifecycleInv, ResetStepClean, Alive
  <2>1. ResetClears
    <3>1. ~UNCHANGED reset
      OBVIOUS
    <3>2. ResetBegins \/ ResetStep
      BY <3>1, StepCases, LifeFrame, StopFrame, RemoveFrame, OverwriteFrame DEF asked
    <3> QED BY <3>1, <3>2 DEF ResetBegins, ResetStep, ResetTakesStack, ResetClaims, ResetKills
  <2>2. slot'.pid = 0 /\ 0 \notin Lives /\ UNCHANGED <<lost, crossed>>
    BY <2>1, LifecycleAssumption, ResetFrame DEF ResetClears, NoSlot, Lives, LifecycleAssumption,
       ResetStep
  <2> QED BY <2>2 DEF HeldInv
<1> QED BY <1>1, LifecycleHolds, PTL DEF Spec, ResetEndsAll
================================================================================
