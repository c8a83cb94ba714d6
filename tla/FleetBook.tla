----------------------------- MODULE FleetBook -----------------------------
(***************************************************************************)
(* The fleet of the stack that one daemon coordinates: the leases of the   *)
(* robots, the offers, the halt and the file that keeps it, the `lease`    *)
(* goals of the clients, and the stack changes (join, removal, launch,     *)
(* reset) that the leases admit.                                           *)
(*                                                                         *)
(* Sources: services/fleet/book.rs (every rule), services/fleet.rs (the    *)
(* halt on disk), services/daemon_interfaces/robot_leases.rs (the goals    *)
(* and the service handlers), services/stack/action.rs (the pipeline of a  *)
(* stack change), services/stack/copies.rs and state.rs (the record of the *)
(* launch).  The book is behind one mutex, so each of its operations is    *)
(* one step; a goal and a stack change are tasks of several steps.         *)
(***************************************************************************)
EXTENDS Naturals, FiniteSets

CONSTANTS
    Clients,   \* instances that may hold leases
    Robots,    \* names of copies
    Changes,   \* stack changes that may be in flight, one per handler
    MaxGen,    \* bound: processes of one client
    Restarting,\* bound: the clients whose process is replaced
    Askers     \* bound: the clients that ask for joins and removals

(* No client, and no lease of a robot. *)
NoClient == "none"
NoLease  == [holder |-> NoClient]

(* Who gave a lease to its holder: nobody, a client, or one that is gone. *)
Own  == "own"
Gone == "gone"

ASSUME FleetAssumption ==
    /\ MaxGen \in Nat \ {0}
    /\ {NoClient, Own, Gone} \cap Clients = {}
    /\ "free" \notin Changes
    /\ Restarting \subseteq Clients /\ Askers \subseteq Clients

VARIABLES
    halt,       \* BOOLEAN: the stack is halted
    onDisk,     \* BOOLEAN: the halt file exists
    lease,      \* robot -> its lease, or NoLease
    leaving,    \* robots that a removal takes off the stack
    holders,    \* client -> generation of the process whose goal runs, or 0
    proc,       \* client -> generation of its latest process
    goal,       \* client -> generation -> where the task of its goal is
    ended,      \* <<client, generation>> whose token the book cancelled
    copies,     \* robots in the record of the launch
    active,     \* BOOLEAN: the daemon coordinates a launch
    change,     \* change -> its task
    mutation,   \* the change that holds the stack, or "free"
    gate,       \* kinds of change whose gate is taken
    lifted,     \* history: the removals whose hold another removal lifted
    knows,      \* client -> robots it holds, as its replies and events say
    offered,    \* client -> robots offered to it, as its events say
    promised    \* BOOLEAN: a halt was answered, and no clear since

bookVars   == <<halt, lease, leaving, holders, ended, knows, offered>>
goalVars   == <<proc, goal>>
changeVars == <<change, mutation, gate, lifted>>
recordVars == <<copies, active>>
diskVars   == <<onDisk, promised>>
vars == <<bookVars, goalVars, changeVars, recordVars, diskVars>>

Gens  == 1..MaxGen
Lease == [holder : Clients, open : BOOLEAN, giver : Clients \cup {Own, Gone},
          offer : Clients \cup {NoClient}]
Kinds == {"join", "remove", "launch", "reset"}
Idle  == [kind |-> "none", pc |-> "idle"]
Steps == {"leases", "gate", "run", "launched", "drop", "unhold", "release"}
Task  == [kind : {"join", "remove"}, robot : Robots, client : Clients, pc : Steps]
           \cup [kind : {"launch", "reset"}, pc : Steps]

TypeOK ==
    /\ halt \in BOOLEAN /\ onDisk \in BOOLEAN /\ promised \in BOOLEAN
    /\ active \in BOOLEAN
    /\ lease \in [Robots -> Lease \cup {NoLease}]
    /\ leaving \subseteq Robots /\ copies \subseteq Robots
    /\ holders \in [Clients -> Gens \cup {0}]
    /\ proc \in [Clients -> Gens]
    /\ goal \in [Clients -> [Gens -> {"none", "begun", "running"}]]
    /\ ended \subseteq Clients \X Gens
    /\ change \in [Changes -> Task \cup {Idle}]
    /\ mutation \in Changes \cup {"free"}
    /\ gate \subseteq Kinds /\ lifted \subseteq Changes
    /\ knows \in [Clients -> SUBSET Robots]
    /\ offered \in [Clients -> SUBSET Robots]

Init ==
    /\ halt = FALSE /\ onDisk = FALSE /\ promised = FALSE
    /\ lease = [r \in Robots |-> NoLease]
    /\ leaving = {}
    /\ holders = [c \in Clients |-> 0]
    /\ proc = [c \in Clients |-> 1]
    /\ goal = [c \in Clients |-> [g \in Gens |-> "none"]]
    /\ ended = {}
    /\ copies = {} /\ active = FALSE
    /\ change = [x \in Changes |-> Idle]
    /\ mutation = "free" /\ gate = {} /\ lifted = {}
    /\ knows = [c \in Clients |-> {}]
    /\ offered = [c \in Clients |-> {}]

-----------------------------------------------------------------------------
(* Leases and the events that tell of them. *)

Holding    == {c \in Clients : holders[c] # 0}
Leased     == {r \in Robots : lease[r] # NoLease}
HeldBy(c)  == {r \in Leased : lease[r].holder = c}
IsHeld(c, r) == lease[r] # NoLease /\ lease[r].holder = c

NewLease(c, giver) ==
    [holder |-> c, open |-> FALSE, giver |-> giver, offer |-> NoClient]

(* The lease l of a robot after its holder leaves it, when the clients hs
   hold leases. *)
GiveBackOrEnd(l, hs) ==
    IF l.giver \in hs THEN NewLease(l.giver, Own) ELSE NoLease

(* What the book tells when the lease l of r goes; the ending is not told
   of by wording but by kind. *)
EndOfferEvents(r, l) ==
    IF l.offer = NoClient THEN {} ELSE {<<l.offer, "offer_end", r>>}

(* Mutant: the giver is not told that the lease is its own again. *)
GiveBackSilently(r, l, hs) ==
    EndOfferEvents(r, l) \cup {<<l.holder, "lease_end", r>>}

GiveBackEvents(r, l, hs) ==
    EndOfferEvents(r, l)
      \cup {<<l.holder, "lease_end", r>>}
      \cup (IF l.giver \in hs THEN {<<l.giver, "lease_back", r>>} ELSE {})

(* The clients hs hear the events: each applies them to what it knows. *)
Heard(ev, c, kind) == {e[3] : e \in {x \in ev : x[1] = c /\ x[2] = kind}}

Tell(ev, hs) ==
    /\ knows' = [c \in Clients |->
         IF c \in hs
           THEN (knows[c] \cup Heard(ev, c, "lease_back") \cup Heard(ev, c, "taken"))
                  \ Heard(ev, c, "lease_end")
           ELSE {}]
    /\ offered' = [c \in Clients |->
         IF c \in hs
           THEN (offered[c] \cup Heard(ev, c, "offer"))
                  \ (Heard(ev, c, "offer_end") \cup Heard(ev, c, "taken"))
           ELSE {}]

(* Every lease ends with no give-back. *)
EndEveryLeaseEvents ==
    UNION {EndOfferEvents(r, lease[r]) \cup {<<lease[r].holder, "lease_end", r>>} :
             r \in Leased}

EndEveryLease ==
    /\ lease' = [r \in Robots |-> NoLease]
    /\ Tell(EndEveryLeaseEvents, Holding)

-----------------------------------------------------------------------------
(* The `lease` goal of a client. *)

(* Mutant: the leases that c gave keep c as their giver. *)
LeasesKeepGiver(c, hs) ==
    [r \in Robots |->
       IF lease[r] = NoLease THEN NoLease
       ELSE IF lease[r].holder = c THEN GiveBackOrEnd(lease[r], hs)
       ELSE [lease[r] EXCEPT !.offer = IF @ = c THEN NoClient ELSE @]]

(* The leases once the goal of c is off the book and the clients hs hold. *)
LeasesWithout(c, hs) ==
    [r \in Robots |->
       IF lease[r] = NoLease THEN NoLease
       ELSE IF lease[r].holder = c THEN GiveBackOrEnd(lease[r], hs)
       ELSE [lease[r] EXCEPT
               !.offer = IF @ = c THEN NoClient ELSE @,
               !.giver = IF @ = c THEN Gone ELSE @]]

EndHoldingEvents(c, hs) ==
    UNION {GiveBackEvents(r, lease[r], hs) : r \in HeldBy(c)}

(* Mutant: the goal is ended whatever process it is of. *)
MatchesAnyGeneration(c, g) == TRUE

(* end_holding, called by the task of generation g as it ends: only the goal
   of the generation that runs is ended; the token of g goes with its task. *)
MatchesGeneration(c, g) == holders[c] = g

EndHolding(c, g) ==
    IF MatchesGeneration(c, g) /\ holders[c] # 0
      THEN /\ holders' = [holders EXCEPT ![c] = 0]
           /\ ended' = (ended \cup {<<c, holders[c]>>}) \ {<<c, g>>}
           /\ lease' = LeasesWithout(c, Holding \ {c})
           /\ Tell(EndHoldingEvents(c, Holding \ {c}), Holding \ {c})
      ELSE /\ ended' = ended \ {<<c, g>>}
           /\ UNCHANGED <<holders, lease, knows, offered>>

(* begin_holding: the goal of another process of the client ends first.  The
   request may be a late one of an earlier process. *)
BeginGoal(c, g) ==
    /\ g <= proc[c]
    /\ goal[c][g] = "none"
    /\ holders[c] # g
    /\ holders' = [holders EXCEPT ![c] = g]
    /\ goal' = [goal EXCEPT ![c][g] = "begun"]
    /\ IF holders[c] = 0
         THEN ended' = ended \ {<<c, g>>} /\ UNCHANGED <<lease, knows, offered>>
         ELSE /\ ended' = (ended \cup {<<c, holders[c]>>}) \ {<<c, g>>}
              /\ lease' = LeasesWithout(c, Holding \ {c})
              /\ Tell(EndHoldingEvents(c, Holding \ {c}), Holding \ {c})
    /\ UNCHANGED <<halt, leaving, proc, changeVars, recordVars, diskVars>>

(* The goal is accepted and its loop runs. *)
AcceptGoal(c, g) ==
    /\ goal[c][g] = "begun"
    /\ goal' = [goal EXCEPT ![c][g] = "running"]
    /\ UNCHANGED <<bookVars, proc, changeVars, recordVars, diskVars>>

(* Mutant: the goal that was not accepted stays on the book. *)
AcceptFailsStays(c, g) ==
    /\ goal[c][g] = "begun"
    /\ goal' = [goal EXCEPT ![c][g] = "none"]
    /\ UNCHANGED <<bookVars, proc, changeVars, recordVars, diskVars>>

(* The accept fails, and the goal comes off the book. *)
AcceptFails(c, g) ==
    /\ goal[c][g] = "begun"
    /\ goal' = [goal EXCEPT ![c][g] = "none"]
    /\ EndHolding(c, g)
    /\ UNCHANGED <<halt, leaving, proc, changeVars, recordVars, diskVars>>

(* The loop ends: the caller cancelled the goal, its process is gone, or the
   book ended it; the task then ends the holding of its own generation. *)
EndGoal(c, g) ==
    /\ goal[c][g] = "running"
    /\ goal' = [goal EXCEPT ![c][g] = "none"]
    /\ EndHolding(c, g)
    /\ UNCHANGED <<halt, leaving, proc, changeVars, recordVars, diskVars>>

(* External: the process of the client dies and a later one starts. *)
ProcessRestarts(c) ==
    /\ c \in Restarting /\ proc[c] < MaxGen
    /\ proc' = [proc EXCEPT ![c] = @ + 1]
    /\ UNCHANGED <<bookVars, goal, changeVars, recordVars, diskVars>>

-----------------------------------------------------------------------------
(* The services of robot_leases:v1. *)

(* Mutant: a robot that leaves is taken all the same. *)
CanTakeLeaving(c, r) == holders[c] # 0 /\ ~halt /\ ~IsHeld(c, r)

CanTake(c, r) ==
    /\ holders[c] # 0
    /\ ~halt
    /\ ~IsHeld(c, r)
    /\ r \notin leaving

Take(c, r) ==
    /\ r \in copies \/ lease[r] # NoLease
    /\ CanTake(c, r)
    /\ IF lease[r] = NoLease
         THEN /\ lease' = [lease EXCEPT ![r] = NewLease(c, Own)]
              /\ Tell({<<c, "taken", r>>}, Holding)
         ELSE /\ lease[r].offer = c
              /\ lease' = [lease EXCEPT ![r] = NewLease(c, lease[r].holder)]
              /\ Tell({<<c, "taken", r>>, <<lease[r].holder, "lease_end", r>>}, Holding)
    /\ UNCHANGED <<halt, leaving, holders, ended, goalVars, changeVars, recordVars, diskVars>>

Release(c, r) ==
    /\ IsHeld(c, r)
    /\ lease' = [lease EXCEPT ![r] = GiveBackOrEnd(@, Holding)]
    /\ Tell(GiveBackEvents(r, lease[r], Holding), Holding)
    /\ UNCHANGED <<halt, leaving, holders, ended, goalVars, changeVars, recordVars, diskVars>>

Offer(c, rs, to) ==
    /\ active
    /\ holders[c] # 0 /\ ~halt
    /\ to # c
    /\ \A r \in rs : IsHeld(c, r) /\ lease[r].giver = Own
    /\ lease' = [r \in Robots |-> IF r \in rs THEN [lease[r] EXCEPT !.offer = to]
                                              ELSE lease[r]]
    /\ LET fresh == {r \in rs : lease[r].offer # to}
       IN  Tell((UNION {EndOfferEvents(r, lease[r]) : r \in fresh})
                  \cup {<<to, "offer", r>> : r \in fresh}, Holding)
    /\ UNCHANGED <<halt, leaving, holders, ended, goalVars, changeVars, recordVars, diskVars>>

Open(c, r) ==
    /\ ~halt /\ IsHeld(c, r) /\ ~lease[r].open
    /\ lease' = [lease EXCEPT ![r].open = TRUE]
    /\ UNCHANGED <<halt, leaving, holders, ended, knows, offered>>
    /\ UNCHANGED <<goalVars, changeVars, recordVars, diskVars>>

Close(c, r) ==
    /\ IsHeld(c, r) /\ lease[r].open
    /\ lease' = [lease EXCEPT ![r].open = FALSE]
    /\ UNCHANGED <<halt, leaving, holders, ended, knows, offered>>
    /\ UNCHANGED <<goalVars, changeVars, recordVars, diskVars>>

(* Mutant: a robot with no lease is free to everyone. *)
MayMoveUnleased(c, r) ==
    ~halt /\ (lease[r] # NoLease => lease[r].open \/ lease[r].holder = c)

(* check_move: whether c may move r now. *)
MayMove(c, r) ==
    /\ ~halt
    /\ \/ lease[r] # NoLease /\ (lease[r].open \/ lease[r].holder = c)
       \/ lease[r] = NoLease /\ holders[c] = 0

-----------------------------------------------------------------------------
(* The halt.  Book and file change under the lock of the book. *)

HaltBook ==
    /\ halt' = TRUE
    /\ IF halt THEN UNCHANGED <<lease, knows, offered>> ELSE EndEveryLease

(* Mutant: only a halt that starts now is written. *)
HaltWrittenOnce ==
    /\ HaltBook
    /\ onDisk' = (onDisk \/ ~halt) /\ promised' = TRUE
    /\ UNCHANGED <<leaving, holders, ended, goalVars, changeVars, recordVars>>

(* The halt is written again even when the book was halted already. *)
HaltWritten ==
    /\ HaltBook
    /\ onDisk' = TRUE /\ promised' = TRUE
    /\ UNCHANGED <<leaving, holders, ended, goalVars, changeVars, recordVars>>

HaltNotWritten ==
    /\ HaltBook
    /\ UNCHANGED <<leaving, holders, ended, goalVars, changeVars, recordVars, diskVars>>

(* A file that is not removed keeps the stack halted: no step. *)
ClearHalt ==
    /\ halt
    /\ onDisk' = FALSE /\ halt' = FALSE /\ promised' = FALSE
    /\ UNCHANGED <<lease, leaving, holders, ended, knows, offered>>
    /\ UNCHANGED <<goalVars, changeVars, recordVars>>

(* The daemon dies and a new one starts: the book, the goals, the changes and
   the record are lost, and the halt is what the file says, or a halt when
   the file does not read. *)
Restart(file) ==
    /\ onDisk' = file
    /\ halt' \in {file, TRUE}
    /\ lease' = [r \in Robots |-> NoLease]
    /\ leaving' = {}
    /\ holders' = [c \in Clients |-> 0]
    /\ goal' = [c \in Clients |-> [g \in Gens |-> "none"]]
    /\ ended' = {}
    /\ copies' = {} /\ active' = FALSE
    /\ change' = [x \in Changes |-> Idle]
    /\ mutation' = "free" /\ gate' = {} /\ lifted' = {}
    /\ knows' = [c \in Clients |-> {}]
    /\ offered' = [c \in Clients |-> {}]
    /\ UNCHANGED proc

Crash == Restart(onDisk) /\ UNCHANGED promised

(* The crash falls between the removal of the file and the clear of the book. *)
CrashInClear == halt /\ Restart(FALSE) /\ promised' = FALSE

-----------------------------------------------------------------------------
(* A stack change: it takes the stack, is admitted by the leases, takes the
   gate of its kind, runs, and lets go in the order of the task. *)

BeginChange(x, task) ==
    /\ change[x] = Idle
    /\ mutation = "free"
    /\ mutation' = x
    /\ change' = [change EXCEPT ![x] = task]
    /\ UNCHANGED <<bookVars, goalVars, gate, lifted, recordVars, diskVars>>

BeginOfCopy(x, k, r, c) ==
    BeginChange(x, [kind |-> k, robot |-> r, client |-> c, pc |-> "leases"])

(* The leases admit a launch as it is; a reset passes neither check. *)
BeginOfStack(x, k) ==
    BeginChange(x, [kind |-> k, pc |-> IF k = "reset" THEN "run" ELSE "gate"])

Goto(x, pc) == change' = [change EXCEPT ![x].pc = pc]

CheckJoin(c, r) ==
    IF holders[c] # 0
      THEN ~halt /\ (lease[r] # NoLease => lease[r].holder = c)
      ELSE lease[r] = NoLease

CheckRemoval(c, r) ==
    lease[r] # NoLease => c \in {lease[r].holder, lease[r].giver}

AdmitsByLeases(x) ==
    IF change[x].kind = "join" THEN CheckJoin(change[x].client, change[x].robot)
                               ELSE CheckRemoval(change[x].client, change[x].robot)

AdmitByLeases(x) ==
    /\ change[x].pc = "leases"
    /\ IF AdmitsByLeases(x)
         THEN /\ Goto(x, "gate")
              /\ leaving' = IF change[x].kind = "remove"
                              THEN leaving \cup {change[x].robot} ELSE leaving
              /\ UNCHANGED mutation
         ELSE /\ change' = [change EXCEPT ![x] = Idle]
              /\ mutation' = "free"
              /\ UNCHANGED leaving
    /\ UNCHANGED <<halt, lease, holders, ended, knows, offered>>
    /\ UNCHANGED <<goalVars, gate, lifted, recordVars, diskVars>>

HoldsRemoval(x) == change[x].kind = "remove"

(* The drop of x's RemovalHold: the robot leaves the set of the book, whoever
   else holds a removal of it. *)
DropHold(x) ==
    leaving' = IF HoldsRemoval(x) THEN leaving \ {change[x].robot} ELSE leaving

(* History: the other removals of the robot past their admission. *)
AlsoLifted(x) ==
    {y \in Changes \ {x} : /\ HoldsRemoval(x) /\ HoldsRemoval(y)
                           /\ change[y].robot = change[x].robot
                           /\ change[y].pc \notin {"leases", "release"}}

(* try_admit of the gate; a refused change drops its hold and the stack. *)
PassGate(x) ==
    /\ change[x].pc = "gate"
    /\ change[x].kind \notin gate
    /\ gate' = gate \cup {change[x].kind}
    /\ Goto(x, "run")
    /\ UNCHANGED <<bookVars, goalVars, mutation, lifted, recordVars, diskVars>>

(* The gate is taken, or the log or the accept of the goal fails. *)
RefuseChange(x) ==
    /\ change[x].pc = "gate"
    /\ change' = [change EXCEPT ![x] = Idle]
    /\ mutation' = "free"
    /\ DropHold(x) /\ lifted' = (lifted \ {x}) \cup AlsoLifted(x)
    /\ UNCHANGED <<halt, lease, holders, ended, knows, offered>>
    /\ UNCHANGED <<goalVars, gate, recordVars, diskVars>>

(* Mutant: a halt that came while the join ran is not read. *)
LeasesJoinedHalted(c, r) == holders[c] # 0 /\ lease[r] = NoLease

LeasesJoined(c, r) == holders[c] # 0 /\ ~halt /\ lease[r] = NoLease

(* A join commits its copy to the record, and leases the robot to its client
   when that client holds leases. *)
CommitJoin(x) ==
    LET c == change[x].client r == change[x].robot IN
    /\ change[x].pc = "run" /\ change[x].kind = "join"
    /\ active /\ r \notin copies
    /\ copies' = copies \cup {r}
    /\ IF LeasesJoined(c, r)
         THEN /\ lease' = [lease EXCEPT ![r] = NewLease(c, Own)]
              /\ Tell({<<c, "taken", r>>}, Holding)
         ELSE UNCHANGED <<lease, knows, offered>>
    /\ Goto(x, "drop")
    /\ UNCHANGED <<halt, leaving, holders, ended, goalVars, mutation, gate, lifted, active, diskVars>>

CommitRemoval(x) ==
    /\ change[x].pc = "run" /\ change[x].kind = "remove"
    /\ active /\ change[x].robot \in copies
    /\ copies' = copies \ {change[x].robot}
    /\ Goto(x, "drop")
    /\ UNCHANGED <<bookVars, goalVars, mutation, gate, lifted, active, diskVars>>

(* drop_active_launch: a launch drops the stack it replaces, a reset empties
   it.  A launch goes on to commit its own. *)
DropLaunch(x) ==
    /\ change[x].pc = "run" /\ change[x].kind \in {"launch", "reset"}
    /\ EndEveryLease
    /\ copies' = {} /\ active' = FALSE
    /\ Goto(x, IF change[x].kind = "launch" THEN "launched" ELSE "drop")
    /\ UNCHANGED <<halt, leaving, holders, ended, goalVars, mutation, gate, lifted, diskVars>>

CommitLaunch(x, rs) ==
    /\ change[x].pc = "launched"
    /\ copies' = rs /\ active' = TRUE
    /\ Goto(x, "drop")
    /\ UNCHANGED <<bookVars, goalVars, mutation, gate, lifted, diskVars>>

(* The work fails, is cancelled, panics, or a reset drops it: a join and a
   removal write back the record as it was, a launch leaves none. *)
ChangeFails(x) ==
    /\ \/ change[x].pc = "launched"
       \/ change[x].pc = "run" /\ change[x].kind # "reset"
    /\ Goto(x, "drop")
    /\ UNCHANGED <<bookVars, goalVars, mutation, gate, lifted, recordVars, diskVars>>

DropMutation(x) ==
    /\ change[x].pc = "drop"
    /\ mutation' = "free"
    /\ IF change[x].kind = "reset" THEN change' = [change EXCEPT ![x] = Idle]
                                   ELSE Goto(x, "unhold")
    /\ UNCHANGED <<bookVars, goalVars, gate, lifted, recordVars, diskVars>>

(* The removal's hold drops after the stack is free again. *)
DropRemovalHold(x) ==
    /\ change[x].pc = "unhold"
    /\ DropHold(x) /\ lifted' = lifted \cup AlsoLifted(x)
    /\ Goto(x, "release")
    /\ UNCHANGED <<halt, lease, holders, ended, knows, offered>>
    /\ UNCHANGED <<goalVars, mutation, gate, recordVars, diskVars>>

ReleaseGate(x) ==
    /\ change[x].pc = "release"
    /\ gate' = gate \ {change[x].kind}
    /\ change' = [change EXCEPT ![x] = Idle] /\ lifted' = lifted \ {x}
    /\ UNCHANGED <<bookVars, goalVars, mutation, recordVars, diskVars>>

-----------------------------------------------------------------------------
GoalNext ==
    \E c \in Clients :
      \/ ProcessRestarts(c)
      \/ \E g \in Gens : \/ BeginGoal(c, g) \/ AcceptGoal(c, g)
                         \/ AcceptFails(c, g) \/ EndGoal(c, g)

ServiceNext ==
    \E c \in Clients :
      \/ \E r \in Robots : Take(c, r) \/ Release(c, r) \/ Open(c, r) \/ Close(c, r)
      \/ \E rs \in (SUBSET Robots) \ {{}}, to \in Clients : Offer(c, rs, to)

HaltNext == HaltWritten \/ HaltNotWritten \/ ClearHalt \/ Crash \/ CrashInClear

ChangeNext ==
    \E x \in Changes :
      \/ \E k \in {"join", "remove"}, r \in Robots, c \in Askers : BeginOfCopy(x, k, r, c)
      \/ \E k \in {"launch", "reset"} : BeginOfStack(x, k)
      \/ AdmitByLeases(x) \/ PassGate(x) \/ RefuseChange(x)
      \/ CommitJoin(x) \/ CommitRemoval(x) \/ DropLaunch(x)
      \/ \E rs \in SUBSET Robots : CommitLaunch(x, rs)
      \/ ChangeFails(x) \/ DropMutation(x) \/ DropRemovalHold(x) \/ ReleaseGate(x)

Next == GoalNext \/ ServiceNext \/ HaltNext \/ ChangeNext

Spec == Init /\ [][Next]_vars

-----------------------------------------------------------------------------
(* A lease is of a client whose `lease` goal runs; its giver, while the lease
   names one, is another such client; and a lease that was received is not
   offered again; and no lease lives under a halt, whatever ran when it began.
   Ends of goals, give-backs, offers to clients that hold nothing, joins by a
   holder and restarts of processes have to keep all of it (book.rs). *)
LeasesHaveHolders ==
    \A r \in Leased :
      /\ ~halt
      /\ lease[r].holder \in Holding
      /\ lease[r].giver \in Clients => lease[r].giver \in Holding \ {lease[r].holder}
      /\ lease[r].offer # NoClient =>
           lease[r].giver = Own /\ lease[r].offer # lease[r].holder

(* A halt that was answered holds until a clear of it, over crashes of the
   daemon at any point and over earlier halts that were not written. *)
AnsweredHaltHolds == promised => halt

(* Each holder on the book has a task that will take it off: its goal is
   being accepted or runs, and a goal that the book has not ended is the
   holder; and a holder leaves the book only with that very task or with the
   daemon: the late end of an earlier process's goal takes no later one off
   (book.rs, end_holding). *)
HolderHasGoal ==
    [][\A c \in Clients, g \in Gens :
         /\ holders[c] = g => goal[c][g] # "none"
         /\ goal[c][g] # "none" /\ <<c, g>> \notin ended => holders[c] = g
         /\ holders[c] = g /\ holders'[c] = 0 => goal'[c][g] = "none"]_vars

(* A holder that applies its replies and events, from the start of its goal,
   knows exactly its leases, and never takes an offer for open that ended; and
   without the halt the move check lets it move a robot exactly when it was
   told that it holds the lease, or when another holder opened it. *)
EventsTellAll ==
    \A c \in Holding :
      /\ knows[c] = HeldBy(c)
      /\ \A r \in offered[c] : lease[r] # NoLease /\ lease[r].offer = c
      /\ \A r \in Robots :
           ~halt => (MayMove(c, r) <=>
                       (r \in knows[c] \/ (lease[r] # NoLease /\ lease[r].open)))

(* While a removal of a robot runs with its hold, the lease of the robot passes
   to nobody new: it stays, ends, or goes back to the client that gave it.  The
   hold is not counted, so the end of one removal lifts that of another that
   was admitted meanwhile; no other step lifts it. *)
RemovalRuns(x) == HoldsRemoval(x) /\ change[x].pc = "run" /\ x \notin lifted

StaysOrBack(r) ==
    \/ lease'[r] = NoLease
    \/ /\ lease[r] # NoLease
       /\ lease'[r].holder \in {lease[r].holder, lease[r].giver}

NoTakeDuringRemoval ==
    [][\A x \in Changes : RemovalRuns(x) => StaysOrBack(change[x].robot)]_vars
=============================================================================
