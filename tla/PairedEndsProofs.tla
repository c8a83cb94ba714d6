-------------------------- MODULE PairedEndsProofs --------------------------
(***************************************************************************)
(* Proofs about one pair across two daemons, for any number of processes,  *)
(* faults and stops.                                                       *)
(*                                                                         *)
(* The inductive invariant is one formula per end: the ends share nothing  *)
(* but requests, and what a request may do at an end is judged there by    *)
(* what that end keeps.  A step acts at one end: XDoes derives from action *)
(* X its effect at that end and that the other end is left alone (Same),   *)
(* XKeeps that the effect keeps the end's invariant, and SameKeeps that    *)
(* the other end keeps its own.                                            *)
(*                                                                         *)
(* That both ends come to agree needs what one end's half says of the      *)
(* other: HalfInv, which XHalf shows kept, and Solo, what is under way     *)
(* while one end restarts alone, which XSolo shows kept.                   *)
(***************************************************************************)
EXTENDS PairedEnds, TLAPS

-----------------------------------------------------------------------------
(***************************************************************************)
(* The inductive invariant                                                 *)
(***************************************************************************)

\* The teardown of a process of daemon d is in progress.
Torn(d) == \E t \in down : t.from = d

Present(d) == inst[d].st # "absent"

\* The first start of process q on daemon 1 is not over.
Unfinished(d, q) == d = 1 /\ ~task[d][q].again /\ task[d][q].pc \notin {"none", "done"}

\* The start of process p keeps the op_lock of daemon d: a restart does not while
\* it asks the peer's daemon.
Keeps(d, p) ==
  \/ task[d][p].pc \in {"telling", "reverting"}
  \/ task[d][p].pc = "asking" /\ ~task[d][p].again

\* What the operation that keeps op_lock makes of the pair.
Expect(d) == lock[d] # "notice" /\ \A p \in Pids : task[d][p].pc # "reverting"

\* The process has a pair that its first start reserved and has yet to deliver.
Reserved(d) ==
  \E q \in Pids : q = inst[d].pid /\ Unfinished(d, q) /\ task[d][q].pc \in {"boot", "deliver"}

Sts == {"absent", "starting", "running", "restarting"}
TaskRecs == [pc : TaskPcs, again : BOOLEAN, ans : Answers]

InstTypes ==
  /\ inst \in [Ends -> [st : Sts, again : BOOLEAN, pid : Nat]]
  /\ \A d \in Ends : inst[d].pid <= MaxPids
LockTypes == lock \in [Ends -> {"free", "start", "serve", "notice"}]
TaskTypes == task \in [Ends -> [Pids -> TaskRecs]]
TellTypes == tell \in [Ends -> [pc : {"none", "wait", "ok", "err"}, seq : Nat, pid : Nat]]
NodeTypes == node \in [Ends -> [seq : Nat, pin : BOOLEAN]]
ToldTypes == told \in [Ends -> {"ok", "err"}]
WireTypes ==
  /\ updates \subseteq [to : Ends, pid : Nat, seq : Nat, pin : BOOLEAN]
  /\ commits \subseteq [from : Ends, pid : Pids, held : BOOLEAN]
  /\ ends \subseteq [from : Ends, pid : Nat, stopped : BOOLEAN]
  /\ forgets \subseteq [from : Ends, pid : Nat, stopped : BOOLEAN]
ServeTypes ==
  /\ serve \in [Ends -> [from : 0 .. 2, pid : Nat, held : BOOLEAN]]
  /\ notice \in [Ends -> [from : 0 .. 2, pid : Nat, stopped : BOOLEAN]]
DownTypes ==
  down \subseteq [from : Ends, pid : Nat, stopped : BOOLEAN, kept : BOOLEAN,
                  pc : {"announce", "telling", "dissolve"}]
FlagTypes ==
  /\ reg \in [Ends -> BOOLEAN] /\ held \in [Ends -> BOOLEAN]
  /\ linked \in [Ends -> BOOLEAN] /\ made \in [Ends -> BOOLEAN]
BoundTypes == faults \in 0 .. MaxFaults /\ stops \in 0 .. MaxStops /\ solo \in {0} \cup Ends

Types ==
  /\ InstTypes /\ LockTypes /\ TaskTypes /\ TellTypes /\ NodeTypes /\ ToldTypes
  /\ WireTypes /\ ServeTypes /\ DownTypes /\ FlagTypes /\ BoundTypes

\* op_lock has at most one keeper; a start that keeps it awaits its own node or,
\* a first start only, the peer's daemon.
LockInv(d) ==
  /\ \A p \in Pids : Keeps(d, p) => lock[d] = "start"
  /\ \A p, q \in Pids : Keeps(d, p) /\ Keeps(d, q) => p = q
  /\ lock[d] = "start" => \E p \in Pids : Keeps(d, p)
  /\ lock[d] = "free" => tell[d].pc = "none"
  /\ lock[d] \in {"serve", "notice"} => tell[d].pc # "none"
  /\ \A p \in Pids : task[d][p].pc \in {"telling", "reverting"} => tell[d].pc # "none"
  /\ \A p \in Pids : task[d][p].pc = "asking" /\ ~task[d][p].again => tell[d].pc = "none"
  /\ lock[d] = "serve" => serve[d].from = Other(d) /\ serve[d].pid \in Pids
  /\ lock[d] = "notice" => notice[d].from = Other(d)

\* A start boots with its process; a restart asks again, a first start of daemon 1
\* delivers, and one of daemon 2 does neither.
TaskInv(d) ==
  /\ Present(d) => inst[d].pid \in Pids
  /\ \A p \in Pids :
       /\ inst[d].st = "starting" /\ inst[d].pid = p =>
            task[d][p].pc \in {"reserve", "boot"} /\ (task[d][p].again <=> inst[d].again)
       /\ p > inst[d].pid => task[d][p].pc = "none"
       /\ task[d][p].pc \in {"reserve", "boot"} => inst[d].st = "starting" /\ inst[d].pid = p
       /\ task[d][p].pc \in {"again", "lock", "outcome"} => task[d][p].again
       /\ task[d][p].pc \in {"reserve", "deliver", "dissolve"} => ~task[d][p].again
       /\ d # 1 /\ ~task[d][p].again => task[d][p].pc \in {"none", "boot", "done"}

\* A teardown is of the last process, and until it is over no other is started:
\* who waits for op_lock, or keeps it, does so with the process it began with.
DownInv(d) ==
  /\ \A t \in down : t.from = d =>
       /\ t.pid = inst[d].pid /\ ~Live(d)
       /\ t.stopped => inst[d].st = "absent"
  /\ \A p \in Pids :
       task[d][p].pc = "lock" => inst[d].pid = p /\ (inst[d].st = "running" \/ Torn(d))
  /\ ~Free(d) => tell[d].pid = inst[d].pid /\ (Live(d) \/ Torn(d))
  /\ ~Live(d) /\ ~Torn(d) => ~reg[d]

\* Only a first start of daemon 1 asks for a pair that it did not hold.
AskInv(d) == \A c \in commits : c.from = d /\ d # 1 => c.held

\* While a first start is not over the slot keeps no pair, so that no request of
\* the peer and no restart is served.
FirstInv(d) == \A q \in Pids : Unfinished(d, q) =>
  /\ \A r \in Pids : Unfinished(d, r) => r = q
  /\ ~held[d] /\ lock[d] # "serve"
  /\ \A p \in Pids : p > q => task[d][p].pc \in {"none", "boot", "again", "done"}

\* What a first start has told its node.
ReserveInv(d) == \A q \in Pids : Unfinished(d, q) =>
  /\ task[d][q].pc \in {"reserve", "boot", "deliver"} =>
       ~node[d].pin /\ \A u \in updates : u.to = d => ~u.pin
  /\ task[d][q].pc \in {"reserve", "reverting", "dissolve"} => ~reg[d]
  /\ task[d][q].pc = "deliver" /\ inst[d].pid # q => ~reg[d]
  /\ task[d][q].pc = "asking" => told[d] = "ok" /\ node[d].pin

\* While a pair that was reported stands nothing is under way that could clear it.
MadeInv(d) == made[d] =>
  /\ reg[d] /\ inst[d].st = "running" /\ Free(d)
  /\ \A p \in Pids : inst[d].pid = p => task[d][p].pc = "done"
  /\ \A q \in Pids : ~Unfinished(d, q)

\* Whatever may still make the slot keep or show the pair was linked.
LinkInv(d) ==
  /\ held[d] => linked[d]
  /\ node[d].pin /\ Present(d) => linked[d]
  /\ lock[d] = "serve" /\ Present(d) => linked[d]
  /\ \A u \in updates : u.to = d /\ u.pin /\ Present(d) => linked[d]
  /\ \A p \in Pids :
       /\ task[d][p].again
       /\ task[d][p].pc \in {"lock", "telling", "asking", "reverting", "outcome"}
       /\ Runs(d, p)
       => linked[d]
  /\ \A q \in Pids :
       Unfinished(d, q) /\ task[d][q].pc # "reserve" /\ Present(d) => linked[d]

\* The updates under way are the running process's and have the sequences sent to
\* it; a node that took the last one is ahead of them all.
SeqInv(d) ==
  /\ \A u \in updates : u.to = d =>
       u.pid = inst[d].pid /\ tell[d].pid = u.pid /\ u.seq <= tell[d].seq
  /\ tell[d].pid <= inst[d].pid
  /\ tell[d].pid = inst[d].pid => node[d].seq <= tell[d].seq
  /\ tell[d].pid # inst[d].pid => node[d].seq = 0 /\ ~node[d].pin /\ told[d] = "ok"
  /\ tell[d].pid = inst[d].pid /\ told[d] = "ok" /\ tell[d].pc # "wait" =>
       node[d].seq = tell[d].seq
  /\ tell[d].pc = "wait" => node[d].seq < tell[d].seq
  /\ tell[d].pc = "ok" => told[d] = "ok"
  /\ tell[d].pc = "err" => told[d] = "err"

\* The update that is awaited carries what its operation makes of the pair.
PinInv(d) ==
  /\ tell[d].pc = "ok" => (node[d].pin <=> Expect(d))
  /\ tell[d].pc = "wait" =>
       \A u \in updates : u.to = d /\ u.seq = tell[d].seq => (u.pin <=> Expect(d))

\* The registry has what the operation makes of the pair, and the node what the
\* registry has.
SlotInv(d) ==
  /\ ~Free(d) /\ Live(d) => (reg[d] <=> Expect(d))
  /\ Free(d) /\ Live(d) /\ told[d] = "ok" /\ ~Reserved(d) => (node[d].pin <=> reg[d])

EndInv(d) ==
  /\ LockInv(d) /\ TaskInv(d) /\ DownInv(d) /\ AskInv(d) /\ FirstInv(d) /\ ReserveInv(d)
  /\ MadeInv(d) /\ LinkInv(d) /\ SeqInv(d) /\ PinInv(d) /\ SlotInv(d)

PairInv == Types /\ \A d \in Ends : EndInv(d)

-----------------------------------------------------------------------------
(***************************************************************************)
(* What a step leaves alone at one end                                     *)
(***************************************************************************)

InstSame(d) == inst'[d] = inst[d]
LockSame(d) == lock'[d] = lock[d]
ServeSame(d) == serve'[d] = serve[d] /\ notice'[d] = notice[d]
TaskSame(d) == \A p \in Pids : task'[d][p].pc = task[d][p].pc
                               /\ task'[d][p].again = task[d][p].again
TellSame(d) == tell'[d] = tell[d]
NodeSame(d) == node'[d] = node[d]
ToldSame(d) == told'[d] = told[d]
RegSame(d) == reg'[d] = reg[d]
HeldSame(d) == held'[d] = held[d]
LinkSame(d) == linked'[d] = linked[d]
MadeSame(d) == made'[d] = made[d]
SentSame(d) == \A u : u.to = d => (u \in updates' <=> u \in updates)
DownSame(d) ==
  /\ Torn(d)' <=> Torn(d)
  /\ \A t \in down' : t.from = d =>
       \E s \in down : s.from = d /\ s.pid = t.pid /\ s.stopped = t.stopped
AskSame(d) == \A c \in commits' : c.from = d => c \in commits

Same(d) ==
  /\ InstSame(d) /\ LockSame(d) /\ ServeSame(d) /\ TaskSame(d) /\ TellSame(d) /\ NodeSame(d)
  /\ ToldSame(d) /\ RegSame(d) /\ HeldSame(d) /\ LinkSame(d) /\ MadeSame(d) /\ SentSame(d)
  /\ DownSame(d) /\ AskSame(d)

\* An end that a step leaves alone keeps its invariant.
LEMMA SameKeeps ==
  ASSUME Types, NEW d \in Ends, EndInv(d), Same(d)
  PROVE  EndInv(d)'
<1> USE DEF Same, InstSame, LockSame, ServeSame, TaskSame, TellSame, NodeSame, ToldSame, RegSame,
        HeldSame, LinkSame, MadeSame, SentSame, DownSame, AskSame
<1>1. LockInv(d)'
  BY DEF EndInv, LockInv, Keeps
<1>2. TaskInv(d)'
  BY DEF EndInv, TaskInv, Present
<1>3. DownInv(d)'
  BY DEF EndInv, DownInv, Live, Free
<1>4. AskInv(d)'
  BY DEF EndInv, AskInv
<1>5. FirstInv(d)'
  BY DEF EndInv, FirstInv, Unfinished
<1>6. ReserveInv(d)'
  BY DEF EndInv, ReserveInv, Unfinished
<1>7. MadeInv(d)'
  BY DEF EndInv, MadeInv, Unfinished, Free
<1>8. LinkInv(d)'
  BY DEF EndInv, LinkInv, Unfinished, Runs, Present
<1>9. SeqInv(d)'
  BY DEF EndInv, SeqInv
<1>10. PinInv(d)'
  BY DEF EndInv, PinInv, Expect
<1>11. SlotInv(d)'
  BY DEF EndInv, SlotInv, Expect, Reserved, Unfinished, Live, Free
<1> QED BY <1>1, <1>2, <1>3, <1>4, <1>5, <1>6, <1>7, <1>8, <1>9, <1>10, <1>11 DEF EndInv

-----------------------------------------------------------------------------
(***************************************************************************)
(* What a step changes at one end                                          *)
(***************************************************************************)

OtherTasks(d, p) ==
  /\ \A x \in Ends : x # d => TaskSame(x)
  /\ \A q \in Pids : q # p => /\ task'[d][q].pc = task[d][q].pc
                              /\ task'[d][q].again = task[d][q].again

\* The start of process p goes on to pc; the other starts stay where they are.
TaskMoves(d, p, pc) ==
  /\ task'[d][p].pc = pc /\ task'[d][p].again = task[d][p].again
  /\ OtherTasks(d, p)

TasksStay == \A d \in Ends : TaskSame(d)

\* The state of the instance becomes st; the other end's stays.
InstMoves(d, st) ==
  /\ inst'[d].st = st /\ inst'[d].pid = inst[d].pid /\ inst'[d].again = inst[d].again
  /\ \A x \in Ends : x # d => InstSame(x)

\* The call to the node gets to pc.
TellMoves(d, pc) ==
  /\ tell'[d].pc = pc /\ tell'[d].seq = tell[d].seq /\ tell'[d].pid = tell[d].pid
  /\ \A x \in Ends : x # d => TellSame(x)

\* A new update to the node is under way, and awaited.
Sends(d, pin) ==
  /\ tell'[d].pc = "wait" /\ tell'[d].pid = inst[d].pid
  /\ tell'[d].seq \in Nat
  /\ tell'[d].seq = IF tell[d].pid = inst[d].pid THEN tell[d].seq + 1 ELSE 1
  /\ \A x \in Ends : x # d => TellSame(x) /\ SentSame(x)
  /\ \A u : u.to = d /\ u \in updates' =>
       \/ u \in updates
       \/ u.pid = inst[d].pid /\ u.seq = tell'[d].seq /\ u.pin = pin

\* A new process is started under the id, its slot unpaired.
Starts(d, again, pc) ==
  /\ inst[d].pid + 1 \in Pids
  /\ inst'[d].st = "starting" /\ inst'[d].again = again /\ inst'[d].pid = inst[d].pid + 1
  /\ task'[d][inst[d].pid + 1].pc = pc /\ task'[d][inst[d].pid + 1].again = again
  /\ OtherTasks(d, inst[d].pid + 1)
  /\ node'[d].seq = 0 /\ ~node'[d].pin /\ told'[d] = "ok" /\ ~made'[d]
  /\ \A u \in updates' : u.to # d
  /\ \A x \in Ends : x # d => /\ InstSame(x) /\ NodeSame(x) /\ ToldSame(x) /\ MadeSame(x)
                              /\ SentSame(x)

LEMMA ReplaceTask ==
  ASSUME TaskTypes, NEW d \in Ends, NEW p \in Pids, NEW r \in TaskRecs,
         task' = [task EXCEPT ![d] = [task[d] EXCEPT ![p] = r]]
  PROVE  TaskTypes' /\ task'[d][p] = r /\ OtherTasks(d, p)
<1>1. [task[d] EXCEPT ![p] = r] \in [Pids -> TaskRecs]
  BY DEF TaskTypes
<1>2. TaskTypes'
  BY <1>1 DEF TaskTypes
<1>3. task'[d][p] = r
  BY DEF TaskTypes
<1>4. OtherTasks(d, p)
  BY DEF OtherTasks, TaskSame, TaskTypes
<1> QED BY <1>2, <1>3, <1>4

LEMMA SetTaskMoves ==
  ASSUME TaskTypes, NEW d \in Ends, NEW p \in Pids, NEW pc \in TaskPcs, SetTask(d, p, pc)
  PROVE  TaskTypes' /\ TaskMoves(d, p, pc)
<1> DEFINE r == [task[d][p] EXCEPT !.pc = pc]
<1>1. task' = [task EXCEPT ![d] = [task[d] EXCEPT ![p] = r]]
  BY DEF SetTask, TaskTypes
<1>2. r \in TaskRecs /\ r.pc = pc /\ r.again = task[d][p].again
  BY DEF TaskTypes, TaskRecs
<1> HIDE DEF r
<1>3. TaskTypes' /\ task'[d][p] = r /\ OtherTasks(d, p)
  BY <1>1, <1>2, ReplaceTask
<1> QED BY <1>2, <1>3 DEF TaskMoves

LEMMA BothSetMoves ==
  ASSUME TaskTypes, NEW d \in Ends, NEW p \in Pids, NEW pc \in TaskPcs, NEW ans \in Answers,
         task' = [task EXCEPT ![d][p].pc = pc, ![d][p].ans = ans]
  PROVE  TaskTypes' /\ TaskMoves(d, p, pc)
<1> DEFINE r == [task[d][p] EXCEPT !.pc = pc]
<1> DEFINE g == [task EXCEPT ![d] = [task[d] EXCEPT ![p] = r]]
<1> DEFINE s == [r EXCEPT !.ans = ans]
<1>1. task' = [g EXCEPT ![d][p].ans = ans]
  BY DEF TaskTypes
<1>2. r \in TaskRecs /\ r.pc = pc /\ r.again = task[d][p].again
  BY DEF TaskTypes, TaskRecs
<1> HIDE DEF r
<1>3. s \in TaskRecs /\ s.pc = r.pc /\ s.again = r.again
  BY <1>2 DEF TaskRecs
<1>4. [task[d] EXCEPT ![p] = r] \in [Pids -> TaskRecs]
  BY <1>2 DEF TaskTypes
<1>5. g \in [Ends -> [Pids -> TaskRecs]] /\ g[d] = [task[d] EXCEPT ![p] = r] /\ g[d][p] = r
  BY <1>4 DEF TaskTypes
<1>6. task' = [g EXCEPT ![d] = [g[d] EXCEPT ![p] = [g[d][p] EXCEPT !.ans = ans]]]
  BY <1>1, <1>5
<1>7. task' = [g EXCEPT ![d] = [g[d] EXCEPT ![p] = s]]
  BY <1>5, <1>6
<1> HIDE DEF s
<1>8. task' = [task EXCEPT ![d] = [task[d] EXCEPT ![p] = s]]
  BY <1>5, <1>7 DEF TaskTypes
<1>9. TaskTypes' /\ task'[d][p] = s /\ OtherTasks(d, p)
  BY <1>3, <1>8, ReplaceTask
<1> QED BY <1>2, <1>3, <1>9 DEF TaskMoves

LEMMA AnswerStays ==
  ASSUME TaskTypes, NEW d \in Ends, NEW p \in Pids, NEW ans \in Answers,
         task' = [task EXCEPT ![d][p].ans = ans]
  PROVE  TaskTypes' /\ TasksStay
<1> DEFINE r == [task[d][p] EXCEPT !.ans = ans]
<1>1. task' = [task EXCEPT ![d] = [task[d] EXCEPT ![p] = r]]
  BY DEF TaskTypes
<1>2. r \in TaskRecs /\ r.pc = task[d][p].pc /\ r.again = task[d][p].again
  BY DEF TaskTypes, TaskRecs
<1> HIDE DEF r
<1>3. TaskTypes' /\ task'[d][p] = r /\ OtherTasks(d, p)
  BY <1>1, <1>2, ReplaceTask
<1> QED BY <1>2, <1>3 DEF TasksStay, OtherTasks, TaskSame

LEMMA AnsweredStays ==
  ASSUME TaskTypes, NEW c, c.from \in Ends, c.pid \in Pids, NEW ans \in Answers,
         task' = Answered(c, ans)
  PROVE  TaskTypes' /\ TasksStay
<1> DEFINE a == IF task[c.from][c.pid].pc = "asking" /\ task[c.from][c.pid].ans = "none"
                THEN ans ELSE task[c.from][c.pid].ans
<1>1. a \in Answers
  BY DEF TaskTypes, TaskRecs
<1>2. task' = [task EXCEPT ![c.from][c.pid].ans = a]
  BY DEF Answered
<1> HIDE DEF a
<1> QED BY <1>1, <1>2, AnswerStays

LEMMA SetStMoves ==
  ASSUME InstTypes, NEW d \in Ends, NEW s \in Sts, inst' = [inst EXCEPT ![d].st = s]
  PROVE  InstTypes' /\ InstMoves(d, s)
<1>1. inst' = [inst EXCEPT ![d] = [inst[d] EXCEPT !.st = s]]
  BY DEF InstTypes
<1>2. [inst[d] EXCEPT !.st = s] \in [st : Sts, again : BOOLEAN, pid : Nat]
  BY DEF InstTypes
<1>3. inst' \in [Ends -> [st : Sts, again : BOOLEAN, pid : Nat]]
  BY <1>1, <1>2 DEF InstTypes
<1>4. InstMoves(d, s)
  BY DEF InstMoves, InstSame, InstTypes
<1>5. \A x \in Ends : inst'[x].pid = inst[x].pid
  BY <1>4 DEF InstMoves, InstSame
<1> QED BY <1>3, <1>4, <1>5 DEF InstTypes

LEMMA SetTellMoves ==
  ASSUME TellTypes, NEW d \in Ends, NEW pc \in {"none", "wait", "ok", "err"},
         tell' = [tell EXCEPT ![d].pc = pc]
  PROVE  TellTypes' /\ TellMoves(d, pc)
<1>1. tell' = [tell EXCEPT ![d] = [tell[d] EXCEPT !.pc = pc]]
  BY DEF TellTypes
<1>2. [tell[d] EXCEPT !.pc = pc] \in [pc : {"none", "wait", "ok", "err"}, seq : Nat, pid : Nat]
  BY DEF TellTypes
<1>3. TellTypes'
  BY <1>1, <1>2 DEF TellTypes
<1>4. TellMoves(d, pc)
  BY DEF TellMoves, TellSame, TellTypes
<1> QED BY <1>3, <1>4

LEMMA EndTellMoves ==
  ASSUME TellTypes, NEW d \in Ends, EndTell(d)
  PROVE  TellTypes' /\ TellMoves(d, "none")
BY SetTellMoves DEF EndTell

LEMMA UpdateSends ==
  ASSUME InstTypes, TellTypes, WireTypes, NEW d \in Ends, NEW pin \in BOOLEAN,
         SendPeerUpdate(d, pin)
  PROVE  /\ TellTypes' /\ Sends(d, pin)
         /\ updates' \subseteq [to : Ends, pid : Nat, seq : Nat, pin : BOOLEAN]
<1>1. NextSequence(d) \in Nat /\ inst[d].pid \in Nat
  BY DEF InstTypes, TellTypes, NextSequence
<1>2. TellTypes'
  BY <1>1 DEF TellTypes, SendPeerUpdate
<1>3. updates' \subseteq [to : Ends, pid : Nat, seq : Nat, pin : BOOLEAN]
  BY <1>1 DEF WireTypes, SendPeerUpdate
<1>4. /\ tell'[d].pc = "wait" /\ tell'[d].pid = inst[d].pid /\ tell'[d].seq = NextSequence(d)
      /\ \A x \in Ends : x # d => tell'[x] = tell[x]
  BY DEF TellTypes, SendPeerUpdate
<1>5. \A x \in Ends : x # d => SentSame(x)
  BY DEF SentSame, SendPeerUpdate
<1>6. \A u : u.to = d /\ u \in updates' =>
        \/ u \in updates
        \/ u.pid = inst[d].pid /\ u.seq = tell'[d].seq /\ u.pin = pin
  BY <1>4 DEF SendPeerUpdate
<1> QED BY <1>1, <1>2, <1>3, <1>4, <1>5, <1>6 DEF Sends, TellSame, NextSequence

LEMMA EndTaskMoves ==
  ASSUME TaskTypes, NEW d \in Ends, NEW p \in Pids, NEW ans \in Answers, EndTask(d, p, ans)
  PROVE  TaskTypes' /\ TaskMoves(d, p, "outcome")
BY BothSetMoves DEF EndTask, TaskPcs

LEMMA OwnAnswers ==
  ASSUME NEW d \in Ends
  PROVE  /\ WithoutProcess(d) \in Answers /\ StackAnswer(d) \in Answers
         /\ \A c : CommitAnswer(d, c) \in Answers
BY DEF WithoutProcess, StackAnswer, Answers, CommitAnswer

LEMMA NewProcessStarts ==
  ASSUME PairInv, NEW d \in Ends, NEW again \in BOOLEAN, NEW pc \in TaskPcs,
         NewProcess(d, again, pc)
  PROVE  /\ InstTypes' /\ TaskTypes' /\ NodeTypes' /\ ToldTypes' /\ made' \in [Ends -> BOOLEAN]
         /\ updates' \subseteq updates
         /\ Starts(d, again, pc)
<1> DEFINE n == inst[d].pid + 1
           r == [pc |-> pc, again |-> again, ans |-> "none"]
<1> USE DEF PairInv, Types
<1>1. n \in Pids /\ n \in Nat /\ n <= MaxPids
  BY PairAssumption DEF PairAssumption, NewProcess, MayStart, InstTypes, Pids
<1>2. inst' = [inst EXCEPT ![d] = [st |-> "starting", again |-> again, pid |-> n]]
  BY DEF NewProcess
<1>3. InstTypes'
  <2>1. inst' \in [Ends -> [st : Sts, again : BOOLEAN, pid : Nat]]
    BY <1>1, <1>2 DEF InstTypes, Sts
  <2>2. \A x \in Ends : inst'[x].pid <= MaxPids
    BY <1>1, <1>2 DEF InstTypes
  <2> QED BY <2>1, <2>2 DEF InstTypes
<1>4. r \in TaskRecs
  BY DEF TaskRecs, Answers
<1>5. task' = [task EXCEPT ![d] = [task[d] EXCEPT ![n] = r]]
  BY DEF NewProcess, TaskTypes
<1>6. /\ inst'[d].st = "starting" /\ inst'[d].again = again /\ inst'[d].pid = n
      /\ \A x \in Ends : x # d => InstSame(x)
  BY <1>2 DEF InstTypes, InstSame
<1>7. /\ NodeTypes' /\ ToldTypes' /\ made' \in [Ends -> BOOLEAN] /\ updates' \subseteq updates
      /\ node'[d].seq = 0 /\ ~node'[d].pin /\ told'[d] = "ok" /\ ~made'[d]
      /\ \A u \in updates' : u.to # d
      /\ \A x \in Ends : x # d => /\ NodeSame(x) /\ ToldSame(x) /\ MadeSame(x)
                                  /\ SentSame(x)
  BY DEF NewProcess, NodeTypes, ToldTypes, FlagTypes, Unpaired, NodeSame, ToldSame, MadeSame, SentSame
<1> HIDE DEF n, r
<1>8. TaskTypes' /\ task'[d][n] = r /\ OtherTasks(d, n)
  BY <1>1, <1>4, <1>5, ReplaceTask
<1>9. r.pc = pc /\ r.again = again
  BY DEF r
<1> QED BY <1>1, <1>3, <1>6, <1>7, <1>8, <1>9 DEF Starts, n

LEMMA TeardownGoesOn ==
  ASSUME DownTypes, NEW t \in down, NEW pc \in {"announce", "telling", "dissolve"},
         down' = (down \ {t}) \cup {[t EXCEPT !.pc = pc]}
  PROVE  DownTypes' /\ \A x \in Ends : DownSame(x)
<1> DEFINE s == [t EXCEPT !.pc = pc]
<1>1. s \in [from : Ends, pid : Nat, stopped : BOOLEAN, kept : BOOLEAN,
             pc : {"announce", "telling", "dissolve"}]
  BY DEF DownTypes
<1>2. s.from = t.from /\ s.pid = t.pid /\ s.stopped = t.stopped
  BY DEF DownTypes
<1> HIDE DEF s
<1>3. down' = (down \ {t}) \cup {s}
  BY DEF s
<1>4. DownTypes'
  BY <1>1, <1>3 DEF DownTypes
<1>5. ASSUME NEW x \in Ends PROVE DownSame(x)
  BY <1>2, <1>3 DEF DownSame, Torn
<1> QED BY <1>4, <1>5

LEMMA AckedGoOn ==
  ASSUME DownTypes, NEW e, down' = Acked(e)
  PROVE  DownTypes' /\ \A x \in Ends : DownSame(x)
<1> DEFINE f(t) == IF t.pc = "telling" /\ t.from = e.from /\ t.pid = e.pid
                      /\ t.stopped = e.stopped
                   THEN [t EXCEPT !.pc = "dissolve"] ELSE t
<1>1. ASSUME NEW t \in down
      PROVE  /\ f(t) \in [from : Ends, pid : Nat, stopped : BOOLEAN, kept : BOOLEAN,
                           pc : {"announce", "telling", "dissolve"}]
             /\ f(t).from = t.from /\ f(t).pid = t.pid /\ f(t).stopped = t.stopped
  BY DEF DownTypes
<1>2. down' = {f(t) : t \in down}
  BY DEF Acked
<1> HIDE DEF f
<1>3. DownTypes'
  BY <1>1, <1>2 DEF DownTypes
<1>4. ASSUME NEW x \in Ends PROVE DownSame(x)
  <2>1. ASSUME NEW s \in down', s.from = x
        PROVE  \E t \in down : t.from = x /\ t.pid = s.pid /\ t.stopped = s.stopped
    BY <1>1, <1>2, <2>1
  <2>2. ASSUME NEW t \in down, t.from = x
        PROVE  \E s \in down' : s.from = x
    BY <1>1, <1>2, <2>2
  <2> QED BY <2>1, <2>2 DEF DownSame, Torn
<1> QED BY <1>3, <1>4

LEMMA TakenGoesOn ==
  ASSUME DownTypes, WireTypes, NEW e \in [from : Ends, pid : Nat, stopped : BOOLEAN], EndTaken(e)
  PROVE  /\ DownTypes' /\ \A x \in Ends : DownSame(x)
         /\ forgets' \subseteq [from : Ends, pid : Nat, stopped : BOOLEAN]
<1>1. CASE e.stopped
  BY <1>1 DEF EndTaken, WireTypes, DownTypes, DownSame, Torn
<1>2. CASE ~e.stopped
  BY <1>2, AckedGoOn DEF EndTaken, WireTypes
<1> QED BY <1>1, <1>2

LEMMA StartingPid ==
  ASSUME PairInv, NEW d \in Ends, inst[d].st = "starting"
  PROVE  inst[d].pid \in Pids
BY DEF PairInv, EndInv, TaskInv, Present

LEMMA ServedIsAsked ==
  ASSUME PairInv, NEW d \in Ends, lock[d] = "serve"
  PROVE  serve[d].from \in Ends /\ serve[d].pid \in Pids
BY DEF PairInv, EndInv, LockInv, Other, Ends

LEMMA NoticeIsEnd ==
  ASSUME PairInv, NEW d \in Ends, lock[d] = "notice"
  PROVE  notice[d] \in [from : Ends, pid : Nat, stopped : BOOLEAN]
<1>1. notice[d].from \in Ends
  BY DEF PairInv, EndInv, LockInv, Other, Ends
<1> QED BY <1>1 DEF PairInv, Types, ServeTypes

LEMMA UpdateIsTyped ==
  ASSUME PairInv, NEW u \in updates
  PROVE  u \in [to : Ends, pid : Nat, seq : Nat, pin : BOOLEAN] /\ u.to \in Ends
BY DEF PairInv, Types, WireTypes

LEMMA NodeTakesTyped ==
  ASSUME PairInv, NEW u \in updates, NodeTakes(u)
  PROVE  NodeTypes'
<1>1. ApplySlotUpdate(node[u.to], u) \in [seq : Nat, pin : BOOLEAN]
  BY UpdateIsTyped DEF PairInv, Types, NodeTypes, ApplySlotUpdate
<1> QED BY <1>1 DEF NodeTakes, NodeTypes, PairInv, Types

LEMMA CommitIsTyped ==
  ASSUME PairInv, NEW c \in commits
  PROVE  c.from \in Ends /\ c.pid \in Pids /\ c \in [from : Ends, pid : Pids, held : BOOLEAN]
BY DEF PairInv, Types, WireTypes

\* The types of the numbers and flags at one end.
Plain(d) ==
  /\ inst[d].pid \in Nat /\ MaxPids \in Nat /\ inst[d].pid <= MaxPids /\ inst[d].st \in Sts
  /\ tell[d].seq \in Nat /\ tell[d].pid \in Nat /\ node[d].seq \in Nat
  /\ node[d].pin \in BOOLEAN /\ reg[d] \in BOOLEAN /\ held[d] \in BOOLEAN
  /\ linked[d] \in BOOLEAN /\ made[d] \in BOOLEAN
  /\ \A u \in updates : u.seq \in Nat /\ u.pin \in BOOLEAN

LEMMA PlainTypes ==
  ASSUME Types, NEW d \in Ends
  PROVE  Plain(d)
BY PairAssumption DEF PairAssumption, Types, InstTypes, TellTypes, NodeTypes, WireTypes, FlagTypes,
   Plain

LEMMA PlainTypesNext ==
  ASSUME Types', NEW d \in Ends
  PROVE  Plain(d)'
BY PairAssumption DEF PairAssumption, Types, InstTypes, TellTypes, NodeTypes, WireTypes, FlagTypes,
   Plain

\* A restart that goes on leaves a pair alone that was reported: it is not the
\* start of the running process.
LEMMA MadeStays ==
  ASSUME NEW d \in Ends, NEW p \in Pids, NEW pc, MadeInv(d), TaskMoves(d, p, pc),
         task[d][p].again, task[d][p].pc # "done",
         InstSame(d), LockSame(d), RegSame(d), MadeSame(d)
  PROVE  MadeInv(d)'
<1> SUFFICES ASSUME made'[d] PROVE MadeInv(d)'
  BY DEF MadeInv
<1>1. made[d] /\ inst[d].pid # p
  BY DEF MadeSame, MadeInv
<1>2. reg'[d] /\ inst'[d].st = "running" /\ Free(d)'
  BY <1>1 DEF MadeInv, RegSame, InstSame, LockSame, Free
<1>3. \A q \in Pids : inst'[d].pid = q => task'[d][q].pc = "done"
  BY <1>1 DEF MadeInv, InstSame, TaskMoves, OtherTasks
<1>4. \A q \in Pids : ~Unfinished(d, q)'
  BY <1>1 DEF MadeInv, TaskMoves, OtherTasks, Unfinished
<1> QED BY <1>2, <1>3, <1>4 DEF MadeInv

\* A start that neither took op_lock nor takes it leaves its keeper alone.
LEMMA KeeperStays ==
  ASSUME NEW d \in Ends, LockInv(d), LockSame(d), ServeSame(d), TellSame(d),
         NEW p \in Pids, OtherTasks(d, p),
         task[d][p].pc \notin {"telling", "reverting", "asking"},
         task'[d][p].pc \notin {"telling", "reverting", "asking"}
  PROVE  LockInv(d)'
<1>1. \A q \in Pids : Keeps(d, q)' <=> Keeps(d, q)
  BY DEF OtherTasks, Keeps
<1>2. \A q \in Pids :
        /\ task'[d][q].pc \in {"telling", "reverting"} => task[d][q].pc \in {"telling", "reverting"}
        /\ task'[d][q].pc = "asking" /\ ~task'[d][q].again =>
             task[d][q].pc = "asking" /\ ~task[d][q].again
  BY DEF OtherTasks
<1> QED BY <1>1, <1>2 DEF LockInv, LockSame, ServeSame, TellSame

\* A start that neither has nor had the reserved pair in its hands.
LEMMA ReservedStays ==
  ASSUME NEW d \in Ends, NEW p \in Pids, OtherTasks(d, p), InstSame(d),
         task[d][p].pc \notin {"boot", "deliver"}
  PROVE  Reserved(d) => Reserved(d)'
BY DEF Reserved, Unfinished, OtherTasks, InstSame

LEMMA SlotStays ==
  ASSUME NEW d \in Ends, NEW p \in Pids, SlotInv(d), TaskMoves(d, p, "outcome"),
         task[d][p].pc \notin {"boot", "deliver", "reverting"},
         InstSame(d), LockSame(d), NodeSame(d), ToldSame(d), RegSame(d)
  PROVE  SlotInv(d)'
<1>1. Reserved(d) => Reserved(d)'
  BY ReservedStays DEF TaskMoves
<1>2. Expect(d)' <=> Expect(d)
  BY DEF Expect, TaskMoves, OtherTasks, LockSame
<1> QED BY <1>1, <1>2 DEF SlotInv, Live, Free, InstSame, LockSame, NodeSame, ToldSame, RegSame

\* A start past its boot goes on.
LEMMA TaskStays ==
  ASSUME NEW d \in Ends, NEW p \in Pids, NEW pc, TaskInv(d), TaskMoves(d, p, pc), InstSame(d),
         task[d][p].pc \notin {"none", "reserve", "boot"}, pc \notin {"none", "reserve", "boot"},
         pc \in {"again", "lock", "outcome"} => task[d][p].again,
         pc \in {"deliver", "dissolve"} => ~task[d][p].again,
         d # 1 /\ ~task[d][p].again => pc = "done"
  PROVE  TaskInv(d)'
<1>1. inst'[d] = inst[d]
  BY DEF InstSame
<1>2. Present(d)' => inst'[d].pid \in Pids
  BY <1>1 DEF TaskInv, Present
<1>3. ASSUME NEW q \in Pids, q # p
      PROVE  task'[d][q].pc = task[d][q].pc /\ task'[d][q].again = task[d][q].again
  BY <1>3 DEF TaskMoves, OtherTasks
<1>4. task'[d][p].pc = pc /\ task'[d][p].again = task[d][p].again
  BY DEF TaskMoves
<1> QED BY <1>1, <1>2, <1>3, <1>4 DEF TaskInv

\* Once the running process has looked for its slot no first start is unfinished.
LEMMA NoneUnfinished ==
  ASSUME NEW d \in Ends, NEW p \in Pids, Plain(d), TaskInv(d), FirstInv(d), Runs(d, p),
         task[d][p].pc = "outcome"
  PROVE  \A q \in Pids : ~Unfinished(d, q)
<1> SUFFICES ASSUME NEW q \in Pids, Unfinished(d, q) PROVE FALSE
  OBVIOUS
<1>1. q # p /\ q <= p
  BY DEF Unfinished, TaskInv, Runs, Plain, Pids
<1>2. q < p
  BY <1>1 DEF Pids
<1> QED BY <1>2 DEF FirstInv

-----------------------------------------------------------------------------
(***************************************************************************)
(* What each action does: its types, the end it leaves alone, and its      *)
(* effect at the end where it happens                                      *)
(***************************************************************************)

\* A first start tells its node of the pair it reserved, or finds it gone.
DeliverEffect(d, p) ==
  /\ task[d][p].pc = "deliver" /\ Free(d)
  /\ \/ /\ reg[d] /\ Live(d) /\ TaskMoves(d, p, "telling") /\ Sends(d, TRUE)
        /\ lock'[d] = "start" /\ InstSame(d) /\ ServeSame(d) /\ NodeSame(d) /\ ToldSame(d)
        /\ RegSame(d) /\ HeldSame(d) /\ LinkSame(d) /\ MadeSame(d) /\ DownSame(d) /\ AskSame(d)
     \/ /\ ~(reg[d] /\ Live(d)) /\ TaskMoves(d, p, "dissolve") /\ ~reg'[d] /\ InstSame(d)
        /\ LockSame(d) /\ ServeSame(d) /\ TellSame(d) /\ NodeSame(d) /\ ToldSame(d)
        /\ HeldSame(d) /\ LinkSame(d) /\ MadeSame(d) /\ SentSame(d) /\ DownSame(d) /\ AskSame(d)

LEMMA DeliverDoes ==
  ASSUME PairInv, NEW d \in Ends, NEW p \in Pids, Deliver(d, p)
  PROVE  Types' /\ (\A x \in Ends : x # d => Same(x)) /\ DeliverEffect(d, p)
<1> USE DEF PairInv, Types
<1>1. CASE reg[d] /\ Live(d)
  <2>1. TaskTypes' /\ TaskMoves(d, p, "telling")
    BY <1>1, SetTaskMoves DEF Deliver, TaskPcs
  <2>2. /\ TellTypes' /\ Sends(d, TRUE)
        /\ updates' \subseteq [to : Ends, pid : Nat, seq : Nat, pin : BOOLEAN]
    BY <1>1, UpdateSends DEF Deliver
  <2>3. Types'
    BY <1>1, <2>1, <2>2, PairAssumption DEF InstTypes, LockTypes, NodeTypes, ToldTypes, WireTypes,
       ServeTypes, DownTypes, FlagTypes, BoundTypes, PairAssumption, Deliver, bounds, ghosts
  <2>4. \A x \in Ends : x # d => Same(x)
    BY <1>1, <2>1, <2>2 DEF Same, InstSame, LockSame, ServeSame, TaskSame, TellSame, NodeSame,
       ToldSame, RegSame, HeldSame, LinkSame, MadeSame, SentSame, DownSame, AskSame, Torn,
       TaskMoves, OtherTasks, Sends, LockTypes, FlagTypes, NodeTypes, ToldTypes, ServeTypes,
       Deliver, bounds, ghosts
  <2>5. /\ TaskMoves(d, p, "telling") /\ Sends(d, TRUE) /\ lock'[d] = "start" /\ InstSame(d)
        /\ ServeSame(d) /\ NodeSame(d) /\ ToldSame(d) /\ RegSame(d) /\ HeldSame(d) /\ LinkSame(d)
        /\ MadeSame(d) /\ DownSame(d) /\ AskSame(d)
    BY <1>1, <2>1, <2>2 DEF InstSame, ServeSame, NodeSame, ToldSame, RegSame, HeldSame, LinkSame,
       MadeSame, DownSame, AskSame, Torn, LockTypes, Deliver, bounds, ghosts
  <2>6. /\ task[d][p].pc = "deliver" /\ Free(d)
    BY <1>1, <2>1, <2>2 DEF Deliver
  <2> QED BY <1>1, <2>3, <2>4, <2>5, <2>6 DEF DeliverEffect
<1>2. CASE ~(reg[d] /\ Live(d))
  <2>1. TaskTypes' /\ TaskMoves(d, p, "dissolve")
    BY <1>2, SetTaskMoves DEF Deliver, TaskPcs
  <2>2. Types'
    BY <1>2, <2>1, PairAssumption DEF InstTypes, LockTypes, TellTypes, NodeTypes, ToldTypes,
       WireTypes, ServeTypes, DownTypes, FlagTypes, BoundTypes, PairAssumption, Deliver, bounds,
       ghosts
  <2>3. \A x \in Ends : x # d => Same(x)
    BY <1>2, <2>1 DEF Same, InstSame, LockSame, ServeSame, TaskSame, TellSame, NodeSame, ToldSame,
       RegSame, HeldSame, LinkSame, MadeSame, SentSame, DownSame, AskSame, Torn, TaskMoves,
       OtherTasks, LockTypes, FlagTypes, NodeTypes, ToldTypes, ServeTypes, Deliver, bounds, ghosts
  <2>4. /\ TaskMoves(d, p, "dissolve") /\ ~reg'[d] /\ InstSame(d) /\ LockSame(d) /\ ServeSame(d)
        /\ TellSame(d) /\ NodeSame(d) /\ ToldSame(d) /\ HeldSame(d) /\ LinkSame(d) /\ MadeSame(d)
        /\ SentSame(d) /\ DownSame(d) /\ AskSame(d)
    BY <1>2, <2>1 DEF InstSame, LockSame, ServeSame, TellSame, NodeSame, ToldSame, HeldSame,
       LinkSame, MadeSame, SentSame, DownSame, AskSame, Torn, FlagTypes, Deliver, bounds, ghosts
  <2>5. /\ task[d][p].pc = "deliver" /\ Free(d)
    BY <1>2, <2>1 DEF Deliver
  <2> QED BY <1>2, <2>2, <2>3, <2>4, <2>5 DEF DeliverEffect
<1>3. (reg[d] /\ Live(d)) \/ (~(reg[d] /\ Live(d)))
  BY DEF Runs, Live
<1> QED BY <1>1, <1>2, <1>3 DEF DeliverEffect

\* A restart looks whether its slot keeps a pair.
LookAgainEffect(d, p) ==
  /\ task[d][p].pc = "again"
  /\ \/ /\ Runs(d, p) /\ held[d] /\ TaskMoves(d, p, "lock") /\ InstSame(d) /\ LockSame(d)
        /\ ServeSame(d) /\ TellSame(d) /\ NodeSame(d) /\ ToldSame(d) /\ RegSame(d)
        /\ HeldSame(d) /\ LinkSame(d) /\ MadeSame(d) /\ SentSame(d) /\ DownSame(d) /\ AskSame(d)
     \/ /\ ~(Runs(d, p) /\ held[d]) /\ TaskMoves(d, p, "done") /\ InstSame(d) /\ LockSame(d)
        /\ ServeSame(d) /\ TellSame(d) /\ NodeSame(d) /\ ToldSame(d) /\ RegSame(d)
        /\ HeldSame(d) /\ LinkSame(d) /\ MadeSame(d) /\ SentSame(d) /\ DownSame(d) /\ AskSame(d)

LEMMA LookAgainDoes ==
  ASSUME PairInv, NEW d \in Ends, NEW p \in Pids, LookAgain(d, p)
  PROVE  Types' /\ (\A x \in Ends : x # d => Same(x)) /\ LookAgainEffect(d, p)
<1> USE DEF PairInv, Types
<1>1. CASE Runs(d, p) /\ held[d]
  <2>1. TaskTypes' /\ TaskMoves(d, p, "lock")
    BY <1>1, SetTaskMoves DEF LookAgain, Runs, KeepsHeld, registry, wire, bounds, ghosts, TaskPcs,
       Answers
  <2>2. Types'
    BY <1>1, <2>1, PairAssumption DEF InstTypes, LockTypes, TellTypes, NodeTypes, ToldTypes,
       WireTypes, ServeTypes, DownTypes, FlagTypes, BoundTypes, PairAssumption, LookAgain,
       registry, wire, bounds, ghosts
  <2>3. \A x \in Ends : x # d => Same(x)
    BY <1>1, <2>1 DEF Same, InstSame, LockSame, ServeSame, TaskSame, TellSame, NodeSame, ToldSame,
       RegSame, HeldSame, LinkSame, MadeSame, SentSame, DownSame, AskSame, Torn, TaskMoves,
       OtherTasks, LockTypes, FlagTypes, NodeTypes, ToldTypes, ServeTypes, LookAgain, registry,
       wire, bounds, ghosts
  <2>4. /\ TaskMoves(d, p, "lock") /\ InstSame(d) /\ LockSame(d) /\ ServeSame(d) /\ TellSame(d)
        /\ NodeSame(d) /\ ToldSame(d) /\ RegSame(d) /\ HeldSame(d) /\ LinkSame(d) /\ MadeSame(d)
        /\ SentSame(d) /\ DownSame(d) /\ AskSame(d)
    BY <1>1, <2>1 DEF InstSame, LockSame, ServeSame, TellSame, NodeSame, ToldSame, RegSame,
       HeldSame, LinkSame, MadeSame, SentSame, DownSame, AskSame, Torn, LookAgain, registry, wire,
       bounds, ghosts
  <2>5. /\ task[d][p].pc = "again"
    BY <1>1, <2>1 DEF LookAgain
  <2> QED BY <1>1, <2>2, <2>3, <2>4, <2>5 DEF LookAgainEffect
<1>2. CASE ~(Runs(d, p) /\ held[d])
  <2>1. TaskTypes' /\ TaskMoves(d, p, "done")
    BY <1>2, SetTaskMoves DEF LookAgain, Runs, KeepsHeld, registry, wire, bounds, ghosts, TaskPcs,
       Answers
  <2>2. Types'
    BY <1>2, <2>1, PairAssumption DEF InstTypes, LockTypes, TellTypes, NodeTypes, ToldTypes,
       WireTypes, ServeTypes, DownTypes, FlagTypes, BoundTypes, PairAssumption, LookAgain,
       registry, wire, bounds, ghosts
  <2>3. \A x \in Ends : x # d => Same(x)
    BY <1>2, <2>1 DEF Same, InstSame, LockSame, ServeSame, TaskSame, TellSame, NodeSame, ToldSame,
       RegSame, HeldSame, LinkSame, MadeSame, SentSame, DownSame, AskSame, Torn, TaskMoves,
       OtherTasks, LockTypes, FlagTypes, NodeTypes, ToldTypes, ServeTypes, LookAgain, registry,
       wire, bounds, ghosts
  <2>4. /\ TaskMoves(d, p, "done") /\ InstSame(d) /\ LockSame(d) /\ ServeSame(d) /\ TellSame(d)
        /\ NodeSame(d) /\ ToldSame(d) /\ RegSame(d) /\ HeldSame(d) /\ LinkSame(d) /\ MadeSame(d)
        /\ SentSame(d) /\ DownSame(d) /\ AskSame(d)
    BY <1>2, <2>1 DEF InstSame, LockSame, ServeSame, TellSame, NodeSame, ToldSame, RegSame,
       HeldSame, LinkSame, MadeSame, SentSame, DownSame, AskSame, Torn, LookAgain, registry, wire,
       bounds, ghosts
  <2>5. /\ task[d][p].pc = "again"
    BY <1>2, <2>1 DEF LookAgain
  <2> QED BY <1>2, <2>2, <2>3, <2>4, <2>5 DEF LookAgainEffect
<1>3. (Runs(d, p) /\ held[d]) \/ (~(Runs(d, p) /\ held[d]))
  BY DEF Runs, Live
<1> QED BY <1>1, <1>2, <1>3 DEF LookAgainEffect

\* A restart records the pair under op_lock and tells its node, or need not.
PairAgainEffect(d, p) ==
  /\ task[d][p].pc = "lock" /\ Free(d)
  /\ \/ /\ (reg[d] \/ ~Live(d)) /\ TaskMoves(d, p, "outcome") /\ InstSame(d) /\ LockSame(d)
        /\ ServeSame(d) /\ TellSame(d) /\ NodeSame(d) /\ ToldSame(d) /\ RegSame(d)
        /\ HeldSame(d) /\ LinkSame(d) /\ MadeSame(d) /\ SentSame(d) /\ DownSame(d) /\ AskSame(d)
     \/ /\ ~reg[d] /\ Live(d) /\ TaskMoves(d, p, "telling") /\ Sends(d, TRUE) /\ reg'[d]
        /\ lock'[d] = "start" /\ InstSame(d) /\ ServeSame(d) /\ NodeSame(d) /\ ToldSame(d)
        /\ HeldSame(d) /\ LinkSame(d) /\ MadeSame(d) /\ DownSame(d) /\ AskSame(d)

LEMMA PairAgainDoes ==
  ASSUME PairInv, NEW d \in Ends, NEW p \in Pids, PairAgain(d, p)
  PROVE  Types' /\ (\A x \in Ends : x # d => Same(x)) /\ PairAgainEffect(d, p)
<1> USE DEF PairInv, Types
<1>1. CASE reg[d] \/ ~Live(d)
  <2>1. TaskTypes' /\ TaskMoves(d, p, "outcome")
    BY <1>1, EndTaskMoves DEF PairAgain, Free, StackAnswer, bounds, ghosts, Live, WithoutProcess,
       TaskPcs, Answers
  <2>2. Types'
    BY <1>1, <2>1, PairAssumption DEF InstTypes, LockTypes, TaskTypes, TellTypes, NodeTypes,
       ToldTypes, WireTypes, ServeTypes, DownTypes, FlagTypes, BoundTypes, PairAssumption,
       PairAgain, Free, StackAnswer, bounds, ghosts, Live, WithoutProcess
  <2>3. \A x \in Ends : x # d => Same(x)
    BY <1>1, <2>1 DEF Same, InstSame, LockSame, ServeSame, TaskSame, TellSame, NodeSame, ToldSame,
       RegSame, HeldSame, LinkSame, MadeSame, SentSame, DownSame, AskSame, Torn, TasksStay,
       Starts, TaskMoves, OtherTasks, InstMoves, TellMoves, Sends, LockTypes, FlagTypes,
       NodeTypes, ToldTypes, ServeTypes, PairAgain, Free, StackAnswer, bounds, ghosts, Live,
       WithoutProcess
  <2>4. /\ TaskMoves(d, p, "outcome") /\ InstSame(d) /\ LockSame(d) /\ ServeSame(d) /\ TellSame(d)
        /\ NodeSame(d) /\ ToldSame(d) /\ RegSame(d) /\ HeldSame(d) /\ LinkSame(d) /\ MadeSame(d)
        /\ SentSame(d) /\ DownSame(d) /\ AskSame(d)
    BY <1>1, <2>1 DEF InstSame, LockSame, ServeSame, TellSame, NodeSame, ToldSame, RegSame,
       HeldSame, LinkSame, MadeSame, SentSame, DownSame, AskSame, Torn, LockTypes, FlagTypes,
       NodeTypes, ToldTypes, ServeTypes, TasksStay, Present, PairAgain, Free, StackAnswer, bounds,
       ghosts, Live, WithoutProcess
  <2>5. /\ task[d][p].pc = "lock" /\ Free(d)
    BY <1>1, <2>1 DEF PairAgain
  <2> QED BY <1>1, <2>2, <2>3, <2>4, <2>5 DEF PairAgainEffect
<1>2. CASE ~reg[d] /\ Live(d)
  <2>1. TaskTypes' /\ TaskMoves(d, p, "telling")
    BY <1>2, SetTaskMoves DEF PairAgain, Free, StackAnswer, bounds, ghosts, Live, WithoutProcess,
       TaskPcs, Answers
  <2>2. /\ TellTypes' /\ Sends(d, TRUE)
        /\ updates' \subseteq [to : Ends, pid : Nat, seq : Nat, pin : BOOLEAN]
    BY <1>2, UpdateSends DEF PairAgain, Free, StackAnswer, bounds, ghosts, Live, WithoutProcess,
       TaskPcs, Answers
  <2>3. Types'
    BY <1>2, <2>1, <2>2, PairAssumption DEF InstTypes, LockTypes, TaskTypes, TellTypes, NodeTypes,
       ToldTypes, WireTypes, ServeTypes, DownTypes, FlagTypes, BoundTypes, PairAssumption,
       PairAgain, Free, StackAnswer, bounds, ghosts, Live, WithoutProcess
  <2>4. \A x \in Ends : x # d => Same(x)
    BY ZenonT(30), <1>2, <2>1, <2>2 DEF Same, InstSame, LockSame, ServeSame, TaskSame, TellSame,
       NodeSame, ToldSame, RegSame, HeldSame, LinkSame, MadeSame, SentSame, DownSame, AskSame, Torn,
       TaskMoves, OtherTasks, Sends, LockTypes, FlagTypes, PairAgain, bounds, ghosts
  <2>5. /\ TaskMoves(d, p, "telling") /\ Sends(d, TRUE) /\ reg'[d] /\ lock'[d] = "start"
        /\ InstSame(d) /\ ServeSame(d) /\ NodeSame(d) /\ ToldSame(d) /\ HeldSame(d) /\ LinkSame(d)
        /\ MadeSame(d) /\ DownSame(d) /\ AskSame(d)
    BY <1>2, <2>1, <2>2 DEF InstSame, ServeSame, NodeSame, ToldSame, HeldSame, LinkSame, MadeSame,
       DownSame, AskSame, Torn, LockTypes, FlagTypes, NodeTypes, ToldTypes, ServeTypes, TasksStay,
       Present, PairAgain, Free, StackAnswer, bounds, ghosts, Live, WithoutProcess
  <2>6. /\ task[d][p].pc = "lock" /\ Free(d)
    BY <1>2, <2>1, <2>2 DEF PairAgain
  <2> QED BY <1>2, <2>3, <2>4, <2>5, <2>6 DEF PairAgainEffect
<1>3. (reg[d] \/ ~Live(d)) \/ (~reg[d] /\ Live(d))
  BY DEF Runs, Live
<1> QED BY <1>1, <1>2, <1>3 DEF PairAgainEffect

\* The own node did not take the pair: it is cleared.
OwnPinFailsEffect(d, p) ==
  /\ task[d][p].pc = "telling" /\ tell[d].pc = "err"
  /\ \/ /\ task[d][p].again /\ TaskMoves(d, p, "outcome") /\ TellMoves(d, "none")
        /\ lock'[d] = "free" /\ ~reg'[d] /\ InstSame(d) /\ ServeSame(d) /\ NodeSame(d)
        /\ ToldSame(d) /\ HeldSame(d) /\ LinkSame(d) /\ MadeSame(d) /\ SentSame(d)
        /\ DownSame(d) /\ AskSame(d)
     \/ /\ ~task[d][p].again /\ TaskMoves(d, p, "dissolve") /\ TellMoves(d, "none")
        /\ lock'[d] = "free" /\ ~reg'[d] /\ InstSame(d) /\ ServeSame(d) /\ NodeSame(d)
        /\ ToldSame(d) /\ HeldSame(d) /\ LinkSame(d) /\ MadeSame(d) /\ SentSame(d)
        /\ DownSame(d) /\ AskSame(d)

LEMMA OwnPinFailsDoes ==
  ASSUME PairInv, NEW d \in Ends, NEW p \in Pids, OwnPinFails(d, p)
  PROVE  Types' /\ (\A x \in Ends : x # d => Same(x)) /\ OwnPinFailsEffect(d, p)
<1> USE DEF PairInv, Types
<1>1. CASE task[d][p].again
  <2>1. TaskTypes' /\ TaskMoves(d, p, "outcome")
    BY <1>1, EndTaskMoves DEF OwnPinFails, TaskPcs, Answers
  <2>2. TellTypes' /\ TellMoves(d, "none")
    BY <1>1, EndTellMoves DEF OwnPinFails
  <2>3. Types'
    BY <1>1, <2>1, <2>2, PairAssumption DEF InstTypes, LockTypes, NodeTypes, ToldTypes, WireTypes,
       ServeTypes, DownTypes, FlagTypes, BoundTypes, PairAssumption, OwnPinFails, wire, bounds,
       ghosts
  <2>4. \A x \in Ends : x # d => Same(x)
    BY <1>1, <2>1, <2>2 DEF Same, InstSame, LockSame, ServeSame, TaskSame, TellSame, NodeSame,
       ToldSame, RegSame, HeldSame, LinkSame, MadeSame, SentSame, DownSame, AskSame, Torn,
       TaskMoves, OtherTasks, TellMoves, LockTypes, FlagTypes, NodeTypes, ToldTypes, ServeTypes,
       OwnPinFails, wire, bounds, ghosts
  <2>5. /\ TaskMoves(d, p, "outcome") /\ TellMoves(d, "none") /\ lock'[d] = "free" /\ ~reg'[d]
        /\ InstSame(d) /\ ServeSame(d) /\ NodeSame(d) /\ ToldSame(d) /\ HeldSame(d) /\ LinkSame(d)
        /\ MadeSame(d) /\ SentSame(d) /\ DownSame(d) /\ AskSame(d)
    BY <1>1, <2>1, <2>2 DEF InstSame, ServeSame, NodeSame, ToldSame, HeldSame, LinkSame, MadeSame,
       SentSame, DownSame, AskSame, Torn, LockTypes, FlagTypes, OwnPinFails, wire, bounds, ghosts
  <2>6. /\ task[d][p].pc = "telling" /\ tell[d].pc = "err"
    BY <1>1, <2>1, <2>2 DEF OwnPinFails
  <2> QED BY <1>1, <2>3, <2>4, <2>5, <2>6 DEF OwnPinFailsEffect
<1>2. CASE ~task[d][p].again
  <2>1. TaskTypes' /\ TaskMoves(d, p, "dissolve")
    BY <1>2, SetTaskMoves DEF OwnPinFails, TaskPcs
  <2>2. TellTypes' /\ TellMoves(d, "none")
    BY <1>2, EndTellMoves DEF OwnPinFails
  <2>3. Types'
    BY <1>2, <2>1, <2>2, PairAssumption DEF InstTypes, LockTypes, NodeTypes, ToldTypes, WireTypes,
       ServeTypes, DownTypes, FlagTypes, BoundTypes, PairAssumption, OwnPinFails, wire, bounds,
       ghosts
  <2>4. \A x \in Ends : x # d => Same(x)
    BY <1>2, <2>1, <2>2 DEF Same, InstSame, LockSame, ServeSame, TaskSame, TellSame, NodeSame,
       ToldSame, RegSame, HeldSame, LinkSame, MadeSame, SentSame, DownSame, AskSame, Torn,
       TaskMoves, OtherTasks, TellMoves, LockTypes, FlagTypes, NodeTypes, ToldTypes, ServeTypes,
       OwnPinFails, wire, bounds, ghosts
  <2>5. /\ TaskMoves(d, p, "dissolve") /\ TellMoves(d, "none") /\ lock'[d] = "free" /\ ~reg'[d]
        /\ InstSame(d) /\ ServeSame(d) /\ NodeSame(d) /\ ToldSame(d) /\ HeldSame(d) /\ LinkSame(d)
        /\ MadeSame(d) /\ SentSame(d) /\ DownSame(d) /\ AskSame(d)
    BY <1>2, <2>1, <2>2 DEF InstSame, ServeSame, NodeSame, ToldSame, HeldSame, LinkSame, MadeSame,
       SentSame, DownSame, AskSame, Torn, LockTypes, FlagTypes, OwnPinFails, wire, bounds, ghosts
  <2>6. /\ task[d][p].pc = "telling" /\ tell[d].pc = "err"
    BY <1>2, <2>1, <2>2 DEF OwnPinFails
  <2> QED BY <1>2, <2>3, <2>4, <2>5, <2>6 DEF OwnPinFailsEffect
<1>3. (task[d][p].again) \/ (~task[d][p].again)
  BY DEF Runs, Live
<1> QED BY <1>1, <1>2, <1>3 DEF OwnPinFailsEffect

\* The own node took the pair: the other daemon is asked, a restart releasing op_lock.
AskPeerEffect(d, p) ==
  /\ task[d][p].pc = "telling" /\ tell[d].pc = "ok"
  /\ TaskMoves(d, p, "asking") /\ TellMoves(d, "none")
  /\ (lock'[d] = IF task[d][p].again THEN "free" ELSE lock[d])
  /\ (\A c \in commits' : c.from = d => c \in commits \/ c.held = task[d][p].again)
  /\ InstSame(d) /\ ServeSame(d) /\ NodeSame(d) /\ ToldSame(d) /\ RegSame(d) /\ HeldSame(d)
  /\ LinkSame(d) /\ MadeSame(d) /\ SentSame(d) /\ DownSame(d)

LEMMA AskPeerDoes ==
  ASSUME PairInv, NEW d \in Ends, NEW p \in Pids, AskPeer(d, p)
  PROVE  Types' /\ (\A x \in Ends : x # d => Same(x)) /\ AskPeerEffect(d, p)
<1> USE DEF PairInv, Types
<1>1. TaskTypes' /\ TaskMoves(d, p, "asking")
  BY BothSetMoves, OwnAnswers DEF AskPeer, TaskPcs, Answers
<1>2. TellTypes' /\ TellMoves(d, "none")
  BY EndTellMoves DEF AskPeer
<1>3. commits' \subseteq [from : Ends, pid : Pids, held : BOOLEAN]
  BY DEF TaskTypes, TaskRecs, WireTypes, AskPeer
<1>4. \A c \in commits' : c \in commits \/ (c.from = d /\ c.held = task[d][p].again)
  BY DEF AskPeer
<1>5. Types'
  BY <1>1, <1>2, <1>3, PairAssumption DEF InstTypes, LockTypes, NodeTypes, ToldTypes, WireTypes,
     ServeTypes, DownTypes, FlagTypes, BoundTypes, PairAssumption, AskPeer, registry, bounds,
     ghosts
<1>6. \A x \in Ends : x # d => Same(x)
  BY <1>1, <1>2, <1>3, <1>4 DEF Same, InstSame, LockSame, ServeSame, TaskSame, TellSame, NodeSame,
     ToldSame, RegSame, HeldSame, LinkSame, MadeSame, SentSame, DownSame, AskSame, Torn,
     TaskMoves, OtherTasks, TellMoves, LockTypes, FlagTypes, NodeTypes, ToldTypes, ServeTypes,
     AskPeer, registry, bounds, ghosts
<1>7. /\ TaskMoves(d, p, "asking") /\ TellMoves(d, "none")
      /\ (lock'[d] = IF task[d][p].again THEN "free" ELSE lock[d])
      /\ (\A c \in commits' : c.from = d => c \in commits \/ c.held = task[d][p].again)
      /\ InstSame(d) /\ ServeSame(d) /\ NodeSame(d) /\ ToldSame(d) /\ RegSame(d) /\ HeldSame(d)
      /\ LinkSame(d) /\ MadeSame(d) /\ SentSame(d) /\ DownSame(d)
  BY <1>1, <1>2, <1>3, <1>4 DEF InstSame, ServeSame, NodeSame, ToldSame, RegSame, HeldSame,
     LinkSame, MadeSame, SentSame, DownSame, Torn, LockTypes, AskPeer, registry, bounds, ghosts
<1>8. /\ task[d][p].pc = "telling" /\ tell[d].pc = "ok"
  BY <1>1, <1>2, <1>3, <1>4 DEF AskPeer
<1> QED BY <1>5, <1>6, <1>7, <1>8 DEF AskPeerEffect

\* The other daemon made its half: a first start is over and reports the pair.
PeerAgreesEffect(d, p) ==
  /\ task[d][p].pc = "asking"
  /\ \/ /\ task[d][p].again /\ TaskMoves(d, p, "outcome") /\ InstSame(d) /\ LockSame(d)
        /\ ServeSame(d) /\ TellSame(d) /\ NodeSame(d) /\ ToldSame(d) /\ RegSame(d)
        /\ HeldSame(d) /\ LinkSame(d) /\ MadeSame(d) /\ SentSame(d) /\ DownSame(d) /\ AskSame(d)
     \/ /\ ~task[d][p].again /\ TaskMoves(d, p, "done") /\ lock'[d] = "free"
        /\ held'[d] = Present(d) /\ made'[d] = (reg[d] /\ Runs(d, p)) /\ InstSame(d)
        /\ ServeSame(d) /\ TellSame(d) /\ NodeSame(d) /\ ToldSame(d) /\ RegSame(d)
        /\ LinkSame(d) /\ SentSame(d) /\ DownSame(d) /\ AskSame(d)

LEMMA PeerAgreesDoes ==
  ASSUME PairInv, NEW d \in Ends, NEW p \in Pids, PeerAgrees(d, p)
  PROVE  Types' /\ (\A x \in Ends : x # d => Same(x)) /\ PeerAgreesEffect(d, p)
<1> USE DEF PairInv, Types
<1>1. CASE task[d][p].again
  <2>1. TaskTypes' /\ TaskMoves(d, p, "outcome")
    BY <1>1, SetTaskMoves DEF PeerAgrees, TaskPcs
  <2>2. Types'
    BY <1>1, <2>1, PairAssumption DEF InstTypes, LockTypes, TellTypes, NodeTypes, ToldTypes,
       WireTypes, ServeTypes, DownTypes, FlagTypes, BoundTypes, PairAssumption, PeerAgrees, wire,
       bounds
  <2>3. \A x \in Ends : x # d => Same(x)
    BY <1>1, <2>1 DEF Same, InstSame, LockSame, ServeSame, TaskSame, TellSame, NodeSame, ToldSame,
       RegSame, HeldSame, LinkSame, MadeSame, SentSame, DownSame, AskSame, Torn, TaskMoves,
       OtherTasks, LockTypes, FlagTypes, NodeTypes, ToldTypes, ServeTypes, PeerAgrees, wire,
       bounds
  <2>4. /\ TaskMoves(d, p, "outcome") /\ InstSame(d) /\ LockSame(d) /\ ServeSame(d) /\ TellSame(d)
        /\ NodeSame(d) /\ ToldSame(d) /\ RegSame(d) /\ HeldSame(d) /\ LinkSame(d) /\ MadeSame(d)
        /\ SentSame(d) /\ DownSame(d) /\ AskSame(d)
    BY <1>1, <2>1 DEF InstSame, LockSame, ServeSame, TellSame, NodeSame, ToldSame, RegSame,
       HeldSame, LinkSame, MadeSame, SentSame, DownSame, AskSame, Torn, PeerAgrees, wire, bounds
  <2>5. /\ task[d][p].pc = "asking"
    BY <1>1, <2>1 DEF PeerAgrees
  <2> QED BY <1>1, <2>2, <2>3, <2>4, <2>5 DEF PeerAgreesEffect
<1>2. CASE ~task[d][p].again
  <2>1. TaskTypes' /\ TaskMoves(d, p, "done")
    BY <1>2, SetTaskMoves DEF PeerAgrees, TaskPcs
  <2>2. Types'
    BY ZenonT(30), <1>2, <2>1, PairAssumption DEF InstTypes, LockTypes, TellTypes, NodeTypes,
       ToldTypes, WireTypes, ServeTypes, DownTypes, FlagTypes, BoundTypes, PairAssumption,
       PeerAgrees, wire, bounds
  <2>3. \A x \in Ends : x # d => Same(x)
    BY <1>2, <2>1 DEF Same, InstSame, LockSame, ServeSame, TaskSame, TellSame, NodeSame, ToldSame,
       RegSame, HeldSame, LinkSame, MadeSame, SentSame, DownSame, AskSame, Torn, TaskMoves,
       OtherTasks, LockTypes, FlagTypes, NodeTypes, ToldTypes, ServeTypes, PeerAgrees, wire,
       bounds
  <2>4. /\ TaskMoves(d, p, "done") /\ lock'[d] = "free" /\ held'[d] = Present(d)
        /\ made'[d] = (reg[d] /\ Runs(d, p)) /\ InstSame(d) /\ ServeSame(d) /\ TellSame(d)
        /\ NodeSame(d) /\ ToldSame(d) /\ RegSame(d) /\ LinkSame(d) /\ SentSame(d) /\ DownSame(d)
        /\ AskSame(d)
    BY <1>2, <2>1 DEF InstSame, ServeSame, TellSame, NodeSame, ToldSame, RegSame, LinkSame,
       SentSame, DownSame, AskSame, Torn, LockTypes, FlagTypes, NodeTypes, ToldTypes, ServeTypes,
       TasksStay, Present, PeerAgrees, Runs, wire, bounds
  <2>5. /\ task[d][p].pc = "asking"
    BY <1>2, <2>1 DEF PeerAgrees
  <2> QED BY <1>2, <2>2, <2>3, <2>4, <2>5 DEF PeerAgreesEffect
<1>3. (task[d][p].again) \/ (~task[d][p].again)
  BY DEF Runs, Live
<1> QED BY <1>1, <1>2, <1>3 DEF PeerAgreesEffect

\* It did not: the pair is cleared and the node told, unless a later process has it.
PeerDoesNotEffect(d, p) ==
  /\ task[d][p].pc = "asking" /\ (task[d][p].again => Free(d))
  /\ \/ /\ task[d][p].again /\ ~Runs(d, p) /\ TaskMoves(d, p, "outcome") /\ InstSame(d)
        /\ LockSame(d) /\ ServeSame(d) /\ TellSame(d) /\ NodeSame(d) /\ ToldSame(d)
        /\ RegSame(d) /\ HeldSame(d) /\ LinkSame(d) /\ MadeSame(d) /\ SentSame(d) /\ DownSame(d)
        /\ AskSame(d)
     \/ /\ (~task[d][p].again \/ Runs(d, p)) /\ Live(d) /\ TaskMoves(d, p, "reverting")
        /\ Sends(d, FALSE) /\ ~reg'[d] /\ lock'[d] = "start" /\ InstSame(d) /\ ServeSame(d)
        /\ NodeSame(d) /\ ToldSame(d) /\ HeldSame(d) /\ LinkSame(d) /\ MadeSame(d)
        /\ DownSame(d) /\ AskSame(d)
     \/ /\ ~task[d][p].again /\ ~Live(d) /\ TaskMoves(d, p, "dissolve") /\ ~reg'[d]
        /\ lock'[d] = "free" /\ InstSame(d) /\ ServeSame(d) /\ TellSame(d) /\ NodeSame(d)
        /\ ToldSame(d) /\ HeldSame(d) /\ LinkSame(d) /\ MadeSame(d) /\ SentSame(d)
        /\ DownSame(d) /\ AskSame(d)

LEMMA PeerDoesNotDoes ==
  ASSUME PairInv, NEW d \in Ends, NEW p \in Pids, PeerDoesNot(d, p)
  PROVE  Types' /\ (\A x \in Ends : x # d => Same(x)) /\ PeerDoesNotEffect(d, p)
<1> USE DEF PairInv, Types
<1>1. CASE task[d][p].again /\ ~Runs(d, p)
  <2>1. TaskTypes' /\ TaskMoves(d, p, "outcome")
    BY <1>1, SetTaskMoves DEF PeerDoesNot, Revert, TaskPcs
  <2>2. Types'
    BY <1>1, <2>1, PairAssumption DEF InstTypes, LockTypes, TellTypes, NodeTypes, ToldTypes,
       WireTypes, ServeTypes, DownTypes, FlagTypes, BoundTypes, PairAssumption, PeerDoesNot,
       Revert, bounds, ghosts
  <2>3. \A x \in Ends : x # d => Same(x)
    BY <1>1, <2>1 DEF Same, InstSame, LockSame, ServeSame, TaskSame, TellSame, NodeSame, ToldSame,
       RegSame, HeldSame, LinkSame, MadeSame, SentSame, DownSame, AskSame, Torn, TaskMoves,
       OtherTasks, LockTypes, FlagTypes, NodeTypes, ToldTypes, ServeTypes, PeerDoesNot, Revert,
       bounds, ghosts
  <2>4. /\ TaskMoves(d, p, "outcome") /\ InstSame(d) /\ LockSame(d) /\ ServeSame(d) /\ TellSame(d)
        /\ NodeSame(d) /\ ToldSame(d) /\ RegSame(d) /\ HeldSame(d) /\ LinkSame(d) /\ MadeSame(d)
        /\ SentSame(d) /\ DownSame(d) /\ AskSame(d)
    BY <1>1, <2>1 DEF InstSame, LockSame, ServeSame, TellSame, NodeSame, ToldSame, RegSame,
       HeldSame, LinkSame, MadeSame, SentSame, DownSame, AskSame, Torn, PeerDoesNot, Revert,
       bounds, ghosts
  <2>5. /\ task[d][p].pc = "asking" /\ (task[d][p].again => Free(d))
    BY <1>1, <2>1 DEF PeerDoesNot
  <2> QED BY <1>1, <2>2, <2>3, <2>4, <2>5 DEF PeerDoesNotEffect
<1>2. CASE (~task[d][p].again \/ Runs(d, p)) /\ Live(d)
  <2>1. TaskTypes' /\ TaskMoves(d, p, "reverting")
    BY <1>2, SetTaskMoves DEF PeerDoesNot, Revert, TaskPcs
  <2>2. /\ TellTypes' /\ Sends(d, FALSE)
        /\ updates' \subseteq [to : Ends, pid : Nat, seq : Nat, pin : BOOLEAN]
    BY <1>2, UpdateSends DEF PeerDoesNot, Revert
  <2>3. Types'
    BY <1>2, <2>1, <2>2, PairAssumption DEF InstTypes, LockTypes, NodeTypes, ToldTypes, WireTypes,
       ServeTypes, DownTypes, FlagTypes, BoundTypes, PairAssumption, PeerDoesNot, Revert, bounds,
       ghosts
  <2>4. \A x \in Ends : x # d => Same(x)
    BY ZenonT(30), <1>2, <2>1, <2>2 DEF Same, InstSame, LockSame, ServeSame, TaskSame, TellSame,
       NodeSame, ToldSame, RegSame, HeldSame, LinkSame, MadeSame, SentSame, DownSame, AskSame, Torn,
       TaskMoves, OtherTasks, Sends, LockTypes, FlagTypes, NodeTypes, ToldTypes, ServeTypes,
       PeerDoesNot, Revert, bounds, ghosts
  <2>5. /\ TaskMoves(d, p, "reverting") /\ Sends(d, FALSE) /\ ~reg'[d] /\ lock'[d] = "start"
        /\ InstSame(d) /\ ServeSame(d) /\ NodeSame(d) /\ ToldSame(d) /\ HeldSame(d) /\ LinkSame(d)
        /\ MadeSame(d) /\ DownSame(d) /\ AskSame(d)
    BY <1>2, <2>1, <2>2 DEF InstSame, ServeSame, NodeSame, ToldSame, HeldSame, LinkSame, MadeSame,
       DownSame, AskSame, Torn, LockTypes, FlagTypes, PeerDoesNot, Revert, bounds, ghosts
  <2>6. /\ task[d][p].pc = "asking" /\ (task[d][p].again => Free(d))
    BY <1>2, <2>1, <2>2 DEF PeerDoesNot
  <2> QED BY <1>2, <2>3, <2>4, <2>5, <2>6 DEF PeerDoesNotEffect
<1>3. CASE ~task[d][p].again /\ ~Live(d)
  <2>1. TaskTypes' /\ TaskMoves(d, p, "dissolve")
    BY <1>3, SetTaskMoves DEF PeerDoesNot, Revert, TaskPcs
  <2>2. Types'
    BY <1>3, <2>1, PairAssumption DEF InstTypes, LockTypes, TellTypes, NodeTypes, ToldTypes,
       WireTypes, ServeTypes, DownTypes, FlagTypes, BoundTypes, PairAssumption, PeerDoesNot,
       Revert, bounds, ghosts
  <2>3. \A x \in Ends : x # d => Same(x)
    BY <1>3, <2>1 DEF Same, InstSame, LockSame, ServeSame, TaskSame, TellSame, NodeSame, ToldSame,
       RegSame, HeldSame, LinkSame, MadeSame, SentSame, DownSame, AskSame, Torn, TaskMoves,
       OtherTasks, LockTypes, FlagTypes, NodeTypes, ToldTypes, ServeTypes, PeerDoesNot, Revert,
       bounds, ghosts
  <2>4. /\ TaskMoves(d, p, "dissolve") /\ ~reg'[d] /\ lock'[d] = "free" /\ InstSame(d)
        /\ ServeSame(d) /\ TellSame(d) /\ NodeSame(d) /\ ToldSame(d) /\ HeldSame(d) /\ LinkSame(d)
        /\ MadeSame(d) /\ SentSame(d) /\ DownSame(d) /\ AskSame(d)
    BY <1>3, <2>1 DEF InstSame, ServeSame, TellSame, NodeSame, ToldSame, HeldSame, LinkSame,
       MadeSame, SentSame, DownSame, AskSame, Torn, LockTypes, FlagTypes, PeerDoesNot, Revert,
       bounds, ghosts
  <2>5. /\ task[d][p].pc = "asking" /\ (task[d][p].again => Free(d))
    BY <1>3, <2>1 DEF PeerDoesNot
  <2> QED BY <1>3, <2>2, <2>3, <2>4, <2>5 DEF PeerDoesNotEffect
<1>4. \/ task[d][p].again /\ ~Runs(d, p)
      \/ (~task[d][p].again \/ Runs(d, p)) /\ Live(d)
      \/ ~task[d][p].again /\ ~Live(d)
  BY DEF Runs, Live
<1> QED BY <1>1, <1>2, <1>3, <1>4 DEF PeerDoesNotEffect

\* The node answered the revert.
RevertedEffect(d, p) ==
  /\ task[d][p].pc = "reverting" /\ tell[d].pc \in {"ok", "err"}
  /\ (TaskMoves(d, p, IF task[d][p].again THEN "outcome" ELSE "dissolve"))
  /\ TellMoves(d, "none") /\ lock'[d] = "free" /\ InstSame(d) /\ ServeSame(d) /\ NodeSame(d)
  /\ ToldSame(d) /\ RegSame(d) /\ HeldSame(d) /\ LinkSame(d) /\ MadeSame(d) /\ SentSame(d)
  /\ DownSame(d) /\ AskSame(d)

LEMMA RevertedDoes ==
  ASSUME PairInv, NEW d \in Ends, NEW p \in Pids, Reverted(d, p)
  PROVE  Types' /\ (\A x \in Ends : x # d => Same(x)) /\ RevertedEffect(d, p)
<1> USE DEF PairInv, Types
<1>1. TaskTypes' /\ TaskMoves(d, p, IF task[d][p].again THEN "outcome" ELSE "dissolve")
  BY SetTaskMoves DEF Reverted, TaskPcs
<1>2. TellTypes' /\ TellMoves(d, "none")
  BY EndTellMoves DEF Reverted
<1>3. Types'
  BY <1>1, <1>2, PairAssumption DEF InstTypes, LockTypes, NodeTypes, ToldTypes, WireTypes,
     ServeTypes, DownTypes, FlagTypes, BoundTypes, PairAssumption, Reverted, registry, wire,
     bounds, ghosts
<1>4. \A x \in Ends : x # d => Same(x)
  BY <1>1, <1>2 DEF Same, InstSame, LockSame, ServeSame, TaskSame, TellSame, NodeSame, ToldSame,
     RegSame, HeldSame, LinkSame, MadeSame, SentSame, DownSame, AskSame, Torn, TaskMoves,
     OtherTasks, TellMoves, LockTypes, FlagTypes, NodeTypes, ToldTypes, ServeTypes, Reverted,
     registry, wire, bounds, ghosts
<1>5. /\ (TaskMoves(d, p, IF task[d][p].again THEN "outcome" ELSE "dissolve"))
      /\ TellMoves(d, "none") /\ lock'[d] = "free" /\ InstSame(d) /\ ServeSame(d) /\ NodeSame(d)
      /\ ToldSame(d) /\ RegSame(d) /\ HeldSame(d) /\ LinkSame(d) /\ MadeSame(d) /\ SentSame(d)
      /\ DownSame(d) /\ AskSame(d)
  BY <1>1, <1>2 DEF InstSame, ServeSame, NodeSame, ToldSame, RegSame, HeldSame, LinkSame,
     MadeSame, SentSame, DownSame, AskSame, Torn, LockTypes, Reverted, registry, wire, bounds,
     ghosts
<1>6. /\ task[d][p].pc = "reverting" /\ tell[d].pc \in {"ok", "err"}
  BY <1>1, <1>2 DEF Reverted
<1> QED BY <1>3, <1>4, <1>5, <1>6 DEF RevertedEffect

\* A first start whose delivery failed clears what its instance has.
DissolveFailedEffect(d, p) ==
  /\ task[d][p].pc = "dissolve" /\ Free(d)
  /\ TaskMoves(d, p, "done") /\ ~reg'[d] /\ InstSame(d) /\ LockSame(d) /\ ServeSame(d)
  /\ TellSame(d) /\ NodeSame(d) /\ ToldSame(d) /\ HeldSame(d) /\ LinkSame(d) /\ MadeSame(d)
  /\ SentSame(d) /\ DownSame(d) /\ AskSame(d)

LEMMA DissolveFailedDoes ==
  ASSUME PairInv, NEW d \in Ends, NEW p \in Pids, DissolveFailed(d, p)
  PROVE  Types' /\ (\A x \in Ends : x # d => Same(x)) /\ DissolveFailedEffect(d, p)
<1> USE DEF PairInv, Types
<1>1. TaskTypes' /\ TaskMoves(d, p, "done")
  BY SetTaskMoves DEF DissolveFailed, TaskPcs
<1>2. Types'
  BY <1>1, PairAssumption DEF InstTypes, LockTypes, TellTypes, NodeTypes, ToldTypes, WireTypes,
     ServeTypes, DownTypes, FlagTypes, BoundTypes, PairAssumption, DissolveFailed, wire, bounds,
     ghosts
<1>3. \A x \in Ends : x # d => Same(x)
  BY <1>1 DEF Same, InstSame, LockSame, ServeSame, TaskSame, TellSame, NodeSame, ToldSame,
     RegSame, HeldSame, LinkSame, MadeSame, SentSame, DownSame, AskSame, Torn, TaskMoves,
     OtherTasks, LockTypes, FlagTypes, NodeTypes, ToldTypes, ServeTypes, DissolveFailed, wire,
     bounds, ghosts
<1>4. /\ TaskMoves(d, p, "done") /\ ~reg'[d] /\ InstSame(d) /\ LockSame(d) /\ ServeSame(d)
      /\ TellSame(d) /\ NodeSame(d) /\ ToldSame(d) /\ HeldSame(d) /\ LinkSame(d) /\ MadeSame(d)
      /\ SentSame(d) /\ DownSame(d) /\ AskSame(d)
  BY <1>1 DEF InstSame, LockSame, ServeSame, TellSame, NodeSame, ToldSame, HeldSame, LinkSame,
     MadeSame, SentSame, DownSame, AskSame, Torn, FlagTypes, DissolveFailed, wire, bounds, ghosts
<1>5. /\ task[d][p].pc = "dissolve" /\ Free(d)
  BY <1>1 DEF DissolveFailed
<1> QED BY <1>2, <1>3, <1>4, <1>5 DEF DissolveFailedEffect

\* A restart records what came of its request, if its process still runs.
OutcomeEffect(d, p) ==
  /\ task[d][p].pc = "outcome"
  /\ \/ /\ Runs(d, p) /\ TaskMoves(d, p, "done") /\ (made'[d] => reg[d] /\ Free(d))
        /\ InstSame(d) /\ LockSame(d) /\ ServeSame(d) /\ TellSame(d) /\ NodeSame(d)
        /\ ToldSame(d) /\ RegSame(d) /\ LinkSame(d) /\ SentSame(d) /\ DownSame(d) /\ AskSame(d)
     \/ /\ ~Runs(d, p) /\ TaskMoves(d, p, "done") /\ InstSame(d) /\ LockSame(d) /\ ServeSame(d)
        /\ TellSame(d) /\ NodeSame(d) /\ ToldSame(d) /\ RegSame(d) /\ HeldSame(d) /\ LinkSame(d)
        /\ MadeSame(d) /\ SentSame(d) /\ DownSame(d) /\ AskSame(d)

LEMMA OutcomeDoes ==
  ASSUME PairInv, NEW d \in Ends, NEW p \in Pids, Outcome(d, p)
  PROVE  Types' /\ (\A x \in Ends : x # d => Same(x)) /\ OutcomeEffect(d, p)
<1> USE DEF PairInv, Types
<1>1. CASE Runs(d, p)
  <2>1. TaskTypes' /\ TaskMoves(d, p, "done")
    BY <1>1, SetTaskMoves DEF Outcome, TaskPcs
  <2>2. held' \in [Ends -> BOOLEAN] /\ made' \in [Ends -> BOOLEAN]
    BY <1>1 DEF FlagTypes, Outcome
  <2>3. Types'
    BY <1>1, <2>1, <2>2, PairAssumption DEF InstTypes, LockTypes, TellTypes, NodeTypes, ToldTypes,
       WireTypes, ServeTypes, DownTypes, FlagTypes, BoundTypes, PairAssumption, Outcome, wire,
       bounds
  <2>4. \A x \in Ends : x # d => Same(x)
    BY <1>1, <2>1, <2>2 DEF Same, InstSame, LockSame, ServeSame, TaskSame, TellSame, NodeSame,
       ToldSame, RegSame, HeldSame, LinkSame, MadeSame, SentSame, DownSame, AskSame, Torn,
       TaskMoves, OtherTasks, LockTypes, FlagTypes, NodeTypes, ToldTypes, ServeTypes, Outcome,
       wire, bounds
  <2>5. /\ TaskMoves(d, p, "done") /\ (made'[d] => reg[d] /\ Free(d)) /\ InstSame(d)
        /\ LockSame(d) /\ ServeSame(d) /\ TellSame(d) /\ NodeSame(d) /\ ToldSame(d) /\ RegSame(d)
        /\ LinkSame(d) /\ SentSame(d) /\ DownSame(d) /\ AskSame(d)
    BY <1>1, <2>1, <2>2 DEF InstSame, LockSame, ServeSame, TellSame, NodeSame, ToldSame, RegSame,
       LinkSame, SentSame, DownSame, AskSame, Torn, FlagTypes, Outcome, wire, bounds
  <2>6. /\ task[d][p].pc = "outcome"
    BY <1>1, <2>1, <2>2 DEF Outcome
  <2> QED BY <1>1, <2>3, <2>4, <2>5, <2>6 DEF OutcomeEffect
<1>2. CASE ~Runs(d, p)
  <2>1. TaskTypes' /\ TaskMoves(d, p, "done")
    BY <1>2, SetTaskMoves DEF Outcome, TaskPcs
  <2>2. Types'
    BY <1>2, <2>1, PairAssumption DEF InstTypes, LockTypes, TellTypes, NodeTypes, ToldTypes,
       WireTypes, ServeTypes, DownTypes, FlagTypes, BoundTypes, PairAssumption, Outcome, wire,
       bounds
  <2>3. \A x \in Ends : x # d => Same(x)
    BY <1>2, <2>1 DEF Same, InstSame, LockSame, ServeSame, TaskSame, TellSame, NodeSame, ToldSame,
       RegSame, HeldSame, LinkSame, MadeSame, SentSame, DownSame, AskSame, Torn, TaskMoves,
       OtherTasks, LockTypes, FlagTypes, NodeTypes, ToldTypes, ServeTypes, Outcome, wire, bounds
  <2>4. /\ TaskMoves(d, p, "done") /\ InstSame(d) /\ LockSame(d) /\ ServeSame(d) /\ TellSame(d)
        /\ NodeSame(d) /\ ToldSame(d) /\ RegSame(d) /\ HeldSame(d) /\ LinkSame(d) /\ MadeSame(d)
        /\ SentSame(d) /\ DownSame(d) /\ AskSame(d)
    BY <1>2, <2>1 DEF InstSame, LockSame, ServeSame, TellSame, NodeSame, ToldSame, RegSame,
       HeldSame, LinkSame, MadeSame, SentSame, DownSame, AskSame, Torn, Outcome, wire, bounds
  <2>5. /\ task[d][p].pc = "outcome"
    BY <1>2, <2>1 DEF Outcome
  <2> QED BY <1>2, <2>2, <2>3, <2>4, <2>5 DEF OutcomeEffect
<1>3. (Runs(d, p)) \/ (~Runs(d, p))
  BY DEF Runs, Live
<1> QED BY <1>1, <1>2, <1>3 DEF OutcomeEffect

LEMMA AskUnansweredDoes ==
  ASSUME PairInv, NEW d \in Ends, NEW p \in Pids, AskUnanswered(d, p)
  PROVE  Types' /\ \A x \in Ends : Same(x)
<1> USE DEF PairInv, Types
<1>1. TaskTypes' /\ TasksStay
  BY AnswerStays DEF AskUnanswered, TaskPcs, Answers
<1>2. Types'
  BY <1>1, PairAssumption DEF InstTypes, LockTypes, TellTypes, NodeTypes, ToldTypes, WireTypes,
     ServeTypes, DownTypes, FlagTypes, BoundTypes, PairAssumption, AskUnanswered, registry
<1>3. \A x \in Ends : Same(x)
  BY <1>1 DEF Same, InstSame, LockSame, ServeSame, TaskSame, TellSame, NodeSame, ToldSame,
     RegSame, HeldSame, LinkSame, MadeSame, SentSame, DownSame, AskSame, Torn, TasksStay,
     LockTypes, FlagTypes, NodeTypes, ToldTypes, ServeTypes, AskUnanswered, registry
<1> QED BY <1>2, <1>3

\* A new process after an exit that was announced.
StartAgainEffect(d) ==
  /\ inst[d].st = "restarting"
  /\ ~(\E t \in down : t.from = d /\ t.pid = inst[d].pid /\ ~t.stopped)
  /\ Starts(d, TRUE, "boot") /\ LockSame(d) /\ ServeSame(d) /\ TellSame(d) /\ RegSame(d)
  /\ HeldSame(d) /\ LinkSame(d) /\ DownSame(d) /\ AskSame(d)

LEMMA StartAgainDoes ==
  ASSUME PairInv, NEW d \in Ends, StartAgain(d)
  PROVE  Types' /\ (\A x \in Ends : x # d => Same(x)) /\ StartAgainEffect(d)
<1> USE DEF PairInv, Types
<1>1. /\ InstTypes' /\ TaskTypes' /\ NodeTypes' /\ ToldTypes' /\ made' \in [Ends -> BOOLEAN]
      /\ updates' \subseteq updates
      /\ Starts(d, TRUE, "boot")
  BY NewProcessStarts DEF StartAgain, NewProcess, Unpaired, TaskPcs
<1>2. Types'
  BY <1>1, PairAssumption DEF LockTypes, TellTypes, WireTypes, ServeTypes, DownTypes, FlagTypes,
     BoundTypes, PairAssumption, StartAgain, NewProcess, registry, bounds, Unpaired
<1>3. \A x \in Ends : x # d => Same(x)
  BY <1>1 DEF Same, InstSame, LockSame, ServeSame, TaskSame, TellSame, NodeSame, ToldSame,
     RegSame, HeldSame, LinkSame, MadeSame, SentSame, DownSame, AskSame, Torn, Starts, OtherTasks,
     LockTypes, FlagTypes, NodeTypes, ToldTypes, ServeTypes, StartAgain, NewProcess, registry,
     bounds, Unpaired
<1>4. /\ Starts(d, TRUE, "boot") /\ LockSame(d) /\ ServeSame(d) /\ TellSame(d) /\ RegSame(d)
      /\ HeldSame(d) /\ LinkSame(d) /\ DownSame(d) /\ AskSame(d)
  BY <1>1 DEF LockSame, ServeSame, TellSame, RegSame, HeldSame, LinkSame, DownSame, AskSame, Torn,
     StartAgain, NewProcess, registry, bounds, Unpaired
<1>5. /\ inst[d].st = "restarting"
      /\ ~(\E t \in down : t.from = d /\ t.pid = inst[d].pid /\ ~t.stopped)
  BY <1>1 DEF StartAgain
<1> QED BY <1>2, <1>3, <1>4, <1>5 DEF StartAgainEffect

\* A new instance under the id.
StartFirstEffect(d) ==
  /\ inst[d].st = "absent" /\ ~Torn(d)
  /\ (\A p \in Pids : task[d][p].again \/ task[d][p].pc \in {"none", "done"})
  /\ (Starts(d, FALSE, IF d = 1 THEN "reserve" ELSE "boot")) /\ ~held'[d] /\ ~linked'[d]
  /\ LockSame(d) /\ ServeSame(d) /\ TellSame(d) /\ RegSame(d) /\ DownSame(d) /\ AskSame(d)

LEMMA StartFirstDoes ==
  ASSUME PairInv, NEW d \in Ends, StartFirst(d)
  PROVE  Types' /\ (\A x \in Ends : x # d => Same(x)) /\ StartFirstEffect(d)
<1> USE DEF PairInv, Types
<1>1. /\ InstTypes' /\ TaskTypes' /\ NodeTypes' /\ ToldTypes' /\ made' \in [Ends -> BOOLEAN]
      /\ updates' \subseteq updates
      /\ Starts(d, FALSE, IF d = 1 THEN "reserve" ELSE "boot")
  BY NewProcessStarts DEF StartFirst, NewProcess, Unpaired, TaskPcs
<1>2. Types'
  BY <1>1, PairAssumption DEF LockTypes, TellTypes, WireTypes, ServeTypes, DownTypes, FlagTypes,
     BoundTypes, PairAssumption, StartFirst, NewProcess, bounds, Unpaired
<1>3. \A x \in Ends : x # d => Same(x)
  BY <1>1 DEF Same, InstSame, LockSame, ServeSame, TaskSame, TellSame, NodeSame, ToldSame,
     RegSame, HeldSame, LinkSame, MadeSame, SentSame, DownSame, AskSame, Torn, Starts, OtherTasks,
     LockTypes, FlagTypes, NodeTypes, ToldTypes, ServeTypes, StartFirst, NewProcess, bounds,
     Unpaired
<1>4. /\ (Starts(d, FALSE, IF d = 1 THEN "reserve" ELSE "boot")) /\ ~held'[d] /\ ~linked'[d]
      /\ LockSame(d) /\ ServeSame(d) /\ TellSame(d) /\ RegSame(d) /\ DownSame(d) /\ AskSame(d)
  BY <1>1 DEF LockSame, ServeSame, TellSame, RegSame, DownSame, AskSame, Torn, FlagTypes,
     StartFirst, NewProcess, bounds, Unpaired
<1>5. /\ inst[d].st = "absent" /\ ~Torn(d)
      /\ (\A p \in Pids : task[d][p].again \/ task[d][p].pc \in {"none", "done"})
  BY <1>1 DEF StartFirst, Torn, StopAnswered
<1> QED BY <1>2, <1>3, <1>4, <1>5 DEF StartFirstEffect

\* The process runs: a restart asks again, a first start of daemon 1 delivers.
CommitRunningEffect(d) ==
  /\ inst[d].st = "starting" /\ task[d][inst[d].pid].pc = "boot"
  /\ \/ /\ inst[d].again /\ InstMoves(d, "running") /\ TaskMoves(d, inst[d].pid, "again")
        /\ LockSame(d) /\ ServeSame(d) /\ TellSame(d) /\ NodeSame(d) /\ ToldSame(d)
        /\ RegSame(d) /\ HeldSame(d) /\ LinkSame(d) /\ MadeSame(d) /\ SentSame(d) /\ DownSame(d)
        /\ AskSame(d)
     \/ /\ ~inst[d].again /\ d = 1 /\ InstMoves(d, "running")
        /\ TaskMoves(d, inst[d].pid, "deliver") /\ LockSame(d) /\ ServeSame(d) /\ TellSame(d)
        /\ NodeSame(d) /\ ToldSame(d) /\ RegSame(d) /\ HeldSame(d) /\ LinkSame(d) /\ MadeSame(d)
        /\ SentSame(d) /\ DownSame(d) /\ AskSame(d)
     \/ /\ ~inst[d].again /\ d # 1 /\ InstMoves(d, "running")
        /\ TaskMoves(d, inst[d].pid, "done") /\ LockSame(d) /\ ServeSame(d) /\ TellSame(d)
        /\ NodeSame(d) /\ ToldSame(d) /\ RegSame(d) /\ HeldSame(d) /\ LinkSame(d) /\ MadeSame(d)
        /\ SentSame(d) /\ DownSame(d) /\ AskSame(d)

LEMMA CommitRunningDoes ==
  ASSUME PairInv, NEW d \in Ends, CommitRunning(d)
  PROVE  Types' /\ (\A x \in Ends : x # d => Same(x)) /\ CommitRunningEffect(d)
<1> USE DEF PairInv, Types
<1>1. CASE inst[d].again
  <2>1. SetTask(d, inst[d].pid, "again")
    BY <1>1 DEF SetTask, CommitRunning
  <2>2. InstTypes' /\ InstMoves(d, "running")
    BY <1>1, <2>1, SetStMoves DEF Sts, CommitRunning
  <2>3. TaskTypes' /\ TaskMoves(d, inst[d].pid, "again")
    BY <1>1, <2>1, <2>2, SetTaskMoves, StartingPid DEF CommitRunning, TaskPcs
  <2>4. Types'
    BY <1>1, <2>2, <2>3, PairAssumption DEF LockTypes, TellTypes, NodeTypes, ToldTypes, WireTypes,
       ServeTypes, DownTypes, FlagTypes, BoundTypes, PairAssumption, CommitRunning, registry,
       wire, bounds, ghosts
  <2>5. \A x \in Ends : x # d => Same(x)
    BY <1>1, <2>2, <2>3 DEF Same, InstSame, LockSame, ServeSame, TaskSame, TellSame, NodeSame,
       ToldSame, RegSame, HeldSame, LinkSame, MadeSame, SentSame, DownSame, AskSame, Torn,
       InstMoves, TaskMoves, OtherTasks, LockTypes, FlagTypes, NodeTypes, ToldTypes, ServeTypes,
       CommitRunning, registry, wire, bounds, ghosts
  <2>6. /\ InstMoves(d, "running") /\ TaskMoves(d, inst[d].pid, "again") /\ LockSame(d)
        /\ ServeSame(d) /\ TellSame(d) /\ NodeSame(d) /\ ToldSame(d) /\ RegSame(d) /\ HeldSame(d)
        /\ LinkSame(d) /\ MadeSame(d) /\ SentSame(d) /\ DownSame(d) /\ AskSame(d)
    BY <1>1, <2>2, <2>3 DEF LockSame, ServeSame, TellSame, NodeSame, ToldSame, RegSame, HeldSame,
       LinkSame, MadeSame, SentSame, DownSame, AskSame, Torn, CommitRunning, registry, wire,
       bounds, ghosts
  <2>7. /\ inst[d].st = "starting" /\ task[d][inst[d].pid].pc = "boot"
    BY <1>1, <2>2, <2>3 DEF CommitRunning
  <2> QED BY <1>1, <2>4, <2>5, <2>6, <2>7 DEF CommitRunningEffect
<1>2. CASE ~inst[d].again /\ d = 1
  <2>1. SetTask(d, inst[d].pid, "deliver")
    BY <1>2 DEF SetTask, CommitRunning
  <2>2. InstTypes' /\ InstMoves(d, "running")
    BY <1>2, <2>1, SetStMoves DEF Sts, CommitRunning
  <2>3. TaskTypes' /\ TaskMoves(d, inst[d].pid, "deliver")
    BY <1>2, <2>1, <2>2, SetTaskMoves, StartingPid DEF CommitRunning, TaskPcs
  <2>4. Types'
    BY <1>2, <2>2, <2>3, PairAssumption DEF LockTypes, TellTypes, NodeTypes, ToldTypes, WireTypes,
       ServeTypes, DownTypes, FlagTypes, BoundTypes, PairAssumption, CommitRunning, registry,
       wire, bounds, ghosts
  <2>5. \A x \in Ends : x # d => Same(x)
    BY <1>2, <2>2, <2>3 DEF Same, InstSame, LockSame, ServeSame, TaskSame, TellSame, NodeSame,
       ToldSame, RegSame, HeldSame, LinkSame, MadeSame, SentSame, DownSame, AskSame, Torn,
       InstMoves, TaskMoves, OtherTasks, LockTypes, FlagTypes, NodeTypes, ToldTypes, ServeTypes,
       CommitRunning, registry, wire, bounds, ghosts
  <2>6. /\ InstMoves(d, "running") /\ TaskMoves(d, inst[d].pid, "deliver") /\ LockSame(d)
        /\ ServeSame(d) /\ TellSame(d) /\ NodeSame(d) /\ ToldSame(d) /\ RegSame(d) /\ HeldSame(d)
        /\ LinkSame(d) /\ MadeSame(d) /\ SentSame(d) /\ DownSame(d) /\ AskSame(d)
    BY <1>2, <2>2, <2>3 DEF LockSame, ServeSame, TellSame, NodeSame, ToldSame, RegSame, HeldSame,
       LinkSame, MadeSame, SentSame, DownSame, AskSame, Torn, CommitRunning, registry, wire,
       bounds, ghosts
  <2>7. /\ inst[d].st = "starting" /\ task[d][inst[d].pid].pc = "boot"
    BY <1>2, <2>2, <2>3 DEF CommitRunning
  <2> QED BY <1>2, <2>4, <2>5, <2>6, <2>7 DEF CommitRunningEffect
<1>3. CASE ~inst[d].again /\ d # 1
  <2>1. SetTask(d, inst[d].pid, "done")
    BY <1>3 DEF SetTask, CommitRunning
  <2>2. InstTypes' /\ InstMoves(d, "running")
    BY <1>3, <2>1, SetStMoves DEF Sts, CommitRunning
  <2>3. TaskTypes' /\ TaskMoves(d, inst[d].pid, "done")
    BY <1>3, <2>1, <2>2, SetTaskMoves, StartingPid DEF CommitRunning, TaskPcs
  <2>4. Types'
    BY <1>3, <2>2, <2>3, PairAssumption DEF LockTypes, TellTypes, NodeTypes, ToldTypes, WireTypes,
       ServeTypes, DownTypes, FlagTypes, BoundTypes, PairAssumption, CommitRunning, registry,
       wire, bounds, ghosts
  <2>5. \A x \in Ends : x # d => Same(x)
    BY <1>3, <2>2, <2>3 DEF Same, InstSame, LockSame, ServeSame, TaskSame, TellSame, NodeSame,
       ToldSame, RegSame, HeldSame, LinkSame, MadeSame, SentSame, DownSame, AskSame, Torn,
       InstMoves, TaskMoves, OtherTasks, LockTypes, FlagTypes, NodeTypes, ToldTypes, ServeTypes,
       CommitRunning, registry, wire, bounds, ghosts
  <2>6. /\ InstMoves(d, "running") /\ TaskMoves(d, inst[d].pid, "done") /\ LockSame(d)
        /\ ServeSame(d) /\ TellSame(d) /\ NodeSame(d) /\ ToldSame(d) /\ RegSame(d) /\ HeldSame(d)
        /\ LinkSame(d) /\ MadeSame(d) /\ SentSame(d) /\ DownSame(d) /\ AskSame(d)
    BY <1>3, <2>2, <2>3 DEF LockSame, ServeSame, TellSame, NodeSame, ToldSame, RegSame, HeldSame,
       LinkSame, MadeSame, SentSame, DownSame, AskSame, Torn, CommitRunning, registry, wire,
       bounds, ghosts
  <2>7. /\ inst[d].st = "starting" /\ task[d][inst[d].pid].pc = "boot"
    BY <1>3, <2>2, <2>3 DEF CommitRunning
  <2> QED BY <1>3, <2>4, <2>5, <2>6, <2>7 DEF CommitRunningEffect
<1>4. (inst[d].again) \/ (~inst[d].again /\ d = 1) \/ (~inst[d].again /\ d # 1)
  BY DEF Runs, Live
<1> QED BY <1>1, <1>2, <1>3, <1>4 DEF CommitRunningEffect

\* The pair is reserved, or the start given up.
ReserveEffect(p) ==
  /\ task[1][p].pc = "reserve" /\ inst[1].st = "starting" /\ inst[1].pid = p /\ Free(1)
  /\ \/ /\ reg[1] /\ InstMoves(1, "absent") /\ TaskMoves(1, p, "done") /\ ~reg'[1]
        /\ LockSame(1) /\ ServeSame(1) /\ TellSame(1) /\ NodeSame(1) /\ ToldSame(1)
        /\ HeldSame(1) /\ LinkSame(1) /\ MadeSame(1) /\ SentSame(1) /\ DownSame(1) /\ AskSame(1)
     \/ /\ ~reg[1] /\ TaskMoves(1, p, "boot") /\ reg'[1] /\ linked'[1] /\ InstSame(1)
        /\ LockSame(1) /\ ServeSame(1) /\ TellSame(1) /\ NodeSame(1) /\ ToldSame(1)
        /\ HeldSame(1) /\ MadeSame(1) /\ SentSame(1) /\ DownSame(1) /\ AskSame(1)

LEMMA ReserveDoes ==
  ASSUME PairInv, NEW p \in Pids, Reserve(p)
  PROVE  Types' /\ (\A x \in Ends : x # 1 => Same(x)) /\ ReserveEffect(p)
<1> USE DEF PairInv, Types
<1>1. CASE reg[1]
  <2>1. InstTypes' /\ InstMoves(1, "absent")
    BY <1>1, SetStMoves DEF Sts, Ends, Reserve
  <2>2. TaskTypes' /\ TaskMoves(1, p, "done")
    BY <1>1, SetTaskMoves DEF SetTask, Ends, Reserve, TaskPcs
  <2>3. Types'
    BY <1>1, <2>1, <2>2, PairAssumption DEF LockTypes, TellTypes, NodeTypes, ToldTypes, WireTypes,
       ServeTypes, DownTypes, FlagTypes, BoundTypes, PairAssumption, Reserve, wire, bounds
  <2>4. \A x \in Ends : x # 1 => Same(x)
    BY <1>1, <2>1, <2>2 DEF Same, InstSame, LockSame, ServeSame, TaskSame, TellSame, NodeSame,
       ToldSame, RegSame, HeldSame, LinkSame, MadeSame, SentSame, DownSame, AskSame, Torn,
       InstMoves, TaskMoves, OtherTasks, LockTypes, FlagTypes, NodeTypes, ToldTypes, ServeTypes,
       Reserve, wire, bounds
  <2>5. /\ InstMoves(1, "absent") /\ TaskMoves(1, p, "done") /\ ~reg'[1] /\ LockSame(1)
        /\ ServeSame(1) /\ TellSame(1) /\ NodeSame(1) /\ ToldSame(1) /\ HeldSame(1) /\ LinkSame(1)
        /\ MadeSame(1) /\ SentSame(1) /\ DownSame(1) /\ AskSame(1)
    BY <1>1, <2>1, <2>2 DEF LockSame, ServeSame, TellSame, NodeSame, ToldSame, HeldSame, LinkSame,
       MadeSame, SentSame, DownSame, AskSame, Torn, LockTypes, FlagTypes, NodeTypes, ToldTypes,
       ServeTypes, TasksStay, Present, Reserve, Free, wire, bounds, Ends
  <2>6. /\ task[1][p].pc = "reserve" /\ inst[1].st = "starting" /\ inst[1].pid = p /\ Free(1)
    BY <1>1, <2>1, <2>2 DEF Reserve, Ends
  <2> QED BY <1>1, <2>3, <2>4, <2>5, <2>6 DEF ReserveEffect
<1>2. CASE ~reg[1]
  <2>1. TaskTypes' /\ TaskMoves(1, p, "boot")
    BY <1>2, SetTaskMoves DEF SetTask, Ends, Reserve, TaskPcs
  <2>2. Types'
    BY <1>2, <2>1, PairAssumption DEF InstTypes, LockTypes, TellTypes, NodeTypes, ToldTypes,
       WireTypes, ServeTypes, DownTypes, FlagTypes, BoundTypes, PairAssumption, Reserve, wire,
       bounds
  <2>3. \A x \in Ends : x # 1 => Same(x)
    BY <1>2, <2>1 DEF Same, InstSame, LockSame, ServeSame, TaskSame, TellSame, NodeSame, ToldSame,
       RegSame, HeldSame, LinkSame, MadeSame, SentSame, DownSame, AskSame, Torn, TaskMoves,
       OtherTasks, LockTypes, FlagTypes, NodeTypes, ToldTypes, ServeTypes, Reserve, wire, bounds
  <2>4. /\ TaskMoves(1, p, "boot") /\ reg'[1] /\ linked'[1] /\ InstSame(1) /\ LockSame(1)
        /\ ServeSame(1) /\ TellSame(1) /\ NodeSame(1) /\ ToldSame(1) /\ HeldSame(1) /\ MadeSame(1)
        /\ SentSame(1) /\ DownSame(1) /\ AskSame(1)
    BY <1>2, <2>1 DEF InstSame, LockSame, ServeSame, TellSame, NodeSame, ToldSame, HeldSame,
       MadeSame, SentSame, DownSame, AskSame, Torn, LockTypes, FlagTypes, NodeTypes, ToldTypes,
       ServeTypes, TasksStay, Present, Reserve, Free, wire, bounds, Ends
  <2>5. /\ task[1][p].pc = "reserve" /\ inst[1].st = "starting" /\ inst[1].pid = p /\ Free(1)
    BY <1>2, <2>1 DEF Reserve, Ends
  <2> QED BY <1>2, <2>2, <2>3, <2>4, <2>5 DEF ReserveEffect
<1>3. (reg[1]) \/ (~reg[1])
  BY DEF Runs, Live
<1> QED BY <1>1, <1>2, <1>3 DEF ReserveEffect

\* The node's answer does not come in time.
TellFailsEffect(d) ==
  /\ tell[d].pc = "wait"
  /\ TellMoves(d, "err") /\ (tell[d].pid = inst[d].pid => told'[d] = "err")
  /\ (\A u \in updates' : u \in updates) /\ InstSame(d) /\ LockSame(d) /\ ServeSame(d)
  /\ TaskSame(d) /\ NodeSame(d) /\ RegSame(d) /\ HeldSame(d) /\ LinkSame(d) /\ MadeSame(d)
  /\ DownSame(d) /\ AskSame(d)

LEMMA TellFailsDoes ==
  ASSUME PairInv, NEW d \in Ends, TellFails(d)
  PROVE  Types' /\ (\A x \in Ends : x # d => Same(x)) /\ TellFailsEffect(d)
<1> USE DEF PairInv, Types
<1>1. TellTypes' /\ TellMoves(d, "err")
  BY SetTellMoves DEF TellFails
<1>2. ToldTypes' /\ updates' \subseteq updates /\ \A x \in Ends : x # d => SentSame(x) /\ ToldSame(x)
  BY DEF ToldTypes, SentSame, ToldSame, Told, TellFails
<1>3. Types'
  BY <1>1, <1>2, PairAssumption DEF InstTypes, LockTypes, TaskTypes, NodeTypes, WireTypes,
     ServeTypes, DownTypes, FlagTypes, BoundTypes, PairAssumption, TellFails, registry
<1>4. \A x \in Ends : x # d => Same(x)
  BY <1>1, <1>2 DEF Same, InstSame, LockSame, ServeSame, TaskSame, TellSame, NodeSame, ToldSame,
     RegSame, HeldSame, LinkSame, MadeSame, SentSame, DownSame, AskSame, Torn, TellMoves,
     LockTypes, FlagTypes, NodeTypes, ToldTypes, ServeTypes, TellFails, registry
<1>5. /\ TellMoves(d, "err") /\ (tell[d].pid = inst[d].pid => told'[d] = "err")
      /\ (\A u \in updates' : u \in updates) /\ InstSame(d) /\ LockSame(d) /\ ServeSame(d)
      /\ TaskSame(d) /\ NodeSame(d) /\ RegSame(d) /\ HeldSame(d) /\ LinkSame(d) /\ MadeSame(d)
      /\ DownSame(d) /\ AskSame(d)
  BY <1>1, <1>2 DEF InstSame, LockSame, ServeSame, TaskSame, NodeSame, RegSame, HeldSame,
     LinkSame, MadeSame, DownSame, AskSame, Torn, LockTypes, FlagTypes, NodeTypes, ToldTypes,
     ServeTypes, TasksStay, Present, TellFails, Told, Live, registry
<1>6. /\ tell[d].pc = "wait"
  BY <1>1, <1>2 DEF TellFails
<1> QED BY <1>3, <1>4, <1>5, <1>6 DEF TellFailsEffect

\* The node answered for the peer's request, which is answered in turn.
CommitEndsEffect(d) ==
  /\ lock[d] = "serve" /\ tell[d].pc \in {"ok", "err"}
  /\ \/ /\ tell[d].pc = "ok" /\ TellMoves(d, "none") /\ lock'[d] = "free"
        /\ (held'[d] <=> Present(d)) /\ InstSame(d) /\ TaskSame(d) /\ NodeSame(d) /\ ToldSame(d)
        /\ RegSame(d) /\ LinkSame(d) /\ MadeSame(d) /\ SentSame(d) /\ DownSame(d) /\ AskSame(d)
     \/ /\ tell[d].pc # "ok" /\ TellMoves(d, "none") /\ lock'[d] = "free" /\ ~reg'[d]
        /\ InstSame(d) /\ TaskSame(d) /\ NodeSame(d) /\ ToldSame(d) /\ HeldSame(d)
        /\ LinkSame(d) /\ MadeSame(d) /\ SentSame(d) /\ DownSame(d) /\ AskSame(d)

LEMMA CommitEndsDoes ==
  ASSUME PairInv, NEW d \in Ends, CommitEnds(d)
  PROVE  Types' /\ (\A x \in Ends : x # d => Same(x)) /\ CommitEndsEffect(d)
<1> USE DEF PairInv, Types
<1>1. CASE tell[d].pc = "ok"
  <2>1. ServeTypes'
    BY <1>1 DEF ServeTypes, NoCommit, CommitEnds
  <2>2. FlagTypes'
    BY <1>1 DEF FlagTypes, CommitEnds, NoCommit, wire, bounds, ghosts, TaskPcs, Answers
  <2>3. TaskTypes' /\ TasksStay
    BY <1>1, AnsweredStays, ServedIsAsked DEF CommitEnds, NoCommit, TaskPcs, Answers
  <2>4. TellTypes' /\ TellMoves(d, "none")
    BY <1>1, EndTellMoves DEF CommitEnds
  <2>5. Types'
    BY <1>1, <2>1, <2>2, <2>3, <2>4, PairAssumption DEF InstTypes, LockTypes, NodeTypes,
       ToldTypes, WireTypes, DownTypes, BoundTypes, PairAssumption, CommitEnds, NoCommit, wire,
       bounds, ghosts
  <2>6. \A x \in Ends : x # d => Same(x)
    BY <1>1, <2>3, <2>4 DEF Same, InstSame, LockSame, ServeSame, TaskSame, TellSame, NodeSame,
       ToldSame, RegSame, HeldSame, LinkSame, MadeSame, SentSame, DownSame, AskSame, Torn,
       TasksStay, TellMoves, LockTypes, FlagTypes, NodeTypes, ToldTypes, ServeTypes, CommitEnds,
       NoCommit, wire, bounds, ghosts
  <2>7. /\ TellMoves(d, "none") /\ lock'[d] = "free" /\ (held'[d] <=> Present(d)) /\ InstSame(d)
        /\ TaskSame(d) /\ NodeSame(d) /\ ToldSame(d) /\ RegSame(d) /\ LinkSame(d) /\ MadeSame(d)
        /\ SentSame(d) /\ DownSame(d) /\ AskSame(d)
    BY <1>1, <2>3, <2>4 DEF InstSame, TaskSame, NodeSame, ToldSame, RegSame, LinkSame, MadeSame,
       SentSame, DownSame, AskSame, Torn, LockTypes, FlagTypes, NodeTypes, ToldTypes, ServeTypes,
       TasksStay, Present, CommitEnds, NoCommit, wire, bounds, ghosts
  <2>8. /\ lock[d] = "serve" /\ tell[d].pc \in {"ok", "err"}
    BY <1>1, <2>3, <2>4 DEF CommitEnds
  <2> QED BY <1>1, <2>5, <2>6, <2>7, <2>8 DEF CommitEndsEffect
<1>2. CASE tell[d].pc # "ok"
  <2>1. ServeTypes'
    BY <1>2 DEF ServeTypes, NoCommit, CommitEnds
  <2>2. FlagTypes'
    BY <1>2 DEF FlagTypes, CommitEnds, NoCommit, wire, bounds, ghosts, TaskPcs, Answers
  <2>3. TaskTypes' /\ TasksStay
    BY <1>2, AnsweredStays, ServedIsAsked DEF CommitEnds, NoCommit, TaskPcs, Answers
  <2>4. TellTypes' /\ TellMoves(d, "none")
    BY <1>2, EndTellMoves DEF CommitEnds
  <2>5. Types'
    BY <1>2, <2>1, <2>2, <2>3, <2>4, PairAssumption DEF InstTypes, LockTypes, NodeTypes,
       ToldTypes, WireTypes, DownTypes, BoundTypes, PairAssumption, CommitEnds, NoCommit, wire,
       bounds, ghosts
  <2>6. \A x \in Ends : x # d => Same(x)
    BY <1>2, <2>3, <2>4 DEF Same, InstSame, LockSame, ServeSame, TaskSame, TellSame, NodeSame,
       ToldSame, RegSame, HeldSame, LinkSame, MadeSame, SentSame, DownSame, AskSame, Torn,
       TasksStay, TellMoves, LockTypes, FlagTypes, NodeTypes, ToldTypes, ServeTypes, CommitEnds,
       NoCommit, wire, bounds, ghosts
  <2>7. /\ TellMoves(d, "none") /\ lock'[d] = "free" /\ ~reg'[d] /\ InstSame(d) /\ TaskSame(d)
        /\ NodeSame(d) /\ ToldSame(d) /\ HeldSame(d) /\ LinkSame(d) /\ MadeSame(d) /\ SentSame(d)
        /\ DownSame(d) /\ AskSame(d)
    BY <1>2, <2>3, <2>4 DEF InstSame, TaskSame, NodeSame, ToldSame, HeldSame, LinkSame, MadeSame,
       SentSame, DownSame, AskSame, Torn, LockTypes, FlagTypes, TasksStay, CommitEnds, NoCommit,
       wire, bounds, ghosts
  <2>8. /\ lock[d] = "serve" /\ tell[d].pc \in {"ok", "err"}
    BY <1>2, <2>3, <2>4 DEF CommitEnds
  <2> QED BY <1>2, <2>5, <2>6, <2>7, <2>8 DEF CommitEndsEffect
<1>3. (tell[d].pc = "ok") \/ (tell[d].pc # "ok")
  BY DEF Runs, Live
<1> QED BY <1>1, <1>2, <1>3 DEF CommitEndsEffect

\* The node was told that its peer's end is gone.
EndToldEffect(d) ==
  /\ lock[d] = "notice" /\ tell[d].pc \in {"ok", "err"}
  /\ TellMoves(d, "none") /\ lock'[d] = "free" /\ InstSame(d) /\ TaskSame(d) /\ NodeSame(d)
  /\ ToldSame(d) /\ RegSame(d) /\ HeldSame(d) /\ LinkSame(d) /\ MadeSame(d) /\ SentSame(d)
  /\ DownSame(d) /\ AskSame(d)

LEMMA EndToldDoes ==
  ASSUME PairInv, NEW d \in Ends, EndTold(d)
  PROVE  Types' /\ (\A x \in Ends : x # d => Same(x)) /\ EndToldEffect(d)
<1> USE DEF PairInv, Types
<1>1. ServeTypes'
  BY DEF ServeTypes, NoEnd, EndTold
<1>2. TellTypes' /\ TellMoves(d, "none")
  BY EndTellMoves DEF EndTold
<1>3. /\ DownTypes' /\ \A x \in Ends : DownSame(x)
      /\ forgets' \subseteq [from : Ends, pid : Nat, stopped : BOOLEAN]
  BY TakenGoesOn, NoticeIsEnd DEF EndTold
<1>4. Types'
  BY <1>1, <1>2, <1>3, PairAssumption DEF InstTypes, LockTypes, TaskTypes, NodeTypes, ToldTypes,
     WireTypes, FlagTypes, BoundTypes, PairAssumption, EndTold, NoEnd, registry, wire, bounds,
     ghosts
<1>5. \A x \in Ends : x # d => Same(x)
  BY <1>2, <1>3 DEF Same, InstSame, LockSame, ServeSame, TaskSame, TellSame, NodeSame, ToldSame,
     RegSame, HeldSame, LinkSame, MadeSame, SentSame, DownSame, AskSame, Torn, TellMoves,
     LockTypes, FlagTypes, NodeTypes, ToldTypes, ServeTypes, EndTold, NoEnd, registry, wire,
     bounds, ghosts
<1>6. /\ TellMoves(d, "none") /\ lock'[d] = "free" /\ InstSame(d) /\ TaskSame(d) /\ NodeSame(d)
      /\ ToldSame(d) /\ RegSame(d) /\ HeldSame(d) /\ LinkSame(d) /\ MadeSame(d) /\ SentSame(d)
      /\ DownSame(d) /\ AskSame(d)
  BY <1>2, <1>3 DEF InstSame, TaskSame, NodeSame, ToldSame, RegSame, HeldSame, LinkSame, MadeSame,
     SentSame, DownSame, AskSame, Torn, LockTypes, EndTold, NoEnd, registry, wire, bounds, ghosts
<1>7. /\ lock[d] = "notice" /\ tell[d].pc \in {"ok", "err"}
  BY <1>2, <1>3 DEF EndTold
<1> QED BY <1>4, <1>5, <1>6, <1>7 DEF EndToldEffect

\* The node takes an update, and answers if it is the one that is awaited.
NodeTakesEffect(d, u) ==
  /\ u.to = d /\ Live(d) /\ updates' = updates \ {u} /\ NodeTypes'
  /\ node'[d] = ApplySlotUpdate(node[d], u)
  /\ \/ /\ tell[d].pc = "wait" /\ tell[d].seq = u.seq /\ TellMoves(d, "ok") /\ told'[d] = "ok"
        /\ InstSame(d) /\ LockSame(d) /\ ServeSame(d) /\ TaskSame(d) /\ RegSame(d)
        /\ HeldSame(d) /\ LinkSame(d) /\ MadeSame(d) /\ DownSame(d) /\ AskSame(d)
     \/ /\ ~(tell[d].pc = "wait" /\ tell[d].seq = u.seq) /\ InstSame(d) /\ LockSame(d)
        /\ ServeSame(d) /\ TaskSame(d) /\ TellSame(d) /\ ToldSame(d) /\ RegSame(d)
        /\ HeldSame(d) /\ LinkSame(d) /\ MadeSame(d) /\ DownSame(d) /\ AskSame(d)

LEMMA NodeTakesDoes ==
  ASSUME PairInv, NEW d \in Ends, NEW u \in updates, u.to = d, NodeTakes(u)
  PROVE  Types' /\ (\A x \in Ends : x # d => Same(x)) /\ NodeTakesEffect(d, u)
<1> USE DEF PairInv, Types
<1>1. CASE tell[d].pc = "wait" /\ tell[d].seq = u.seq
  <2>1. u.to = d /\ tell[d].pid = u.pid
    BY <1>1, UpdateIsTyped DEF EndInv, SeqInv, NodeTakes
  <2>2. TellTypes' /\ TellMoves(d, "ok")
    BY <1>1, <2>1, SetTellMoves, UpdateIsTyped DEF NodeTakes
  <2>3. NodeTypes' /\ u.to = d
    BY <1>1, <2>1, <2>2, UpdateIsTyped, NodeTakesTyped DEF NodeTakes
  <2>4. Types'
    BY <1>1, <2>2, <2>3, PairAssumption DEF InstTypes, LockTypes, TaskTypes, ToldTypes, WireTypes,
       ServeTypes, DownTypes, FlagTypes, BoundTypes, PairAssumption, NodeTakes, registry, bounds
  <2>5. \A x \in Ends : x # d => Same(x)
    BY <1>1, <2>1, <2>2, <2>3 DEF Same, InstSame, LockSame, ServeSame, TaskSame, TellSame,
       NodeSame, ToldSame, RegSame, HeldSame, LinkSame, MadeSame, SentSame, DownSame, AskSame,
       Torn, TellMoves, LockTypes, FlagTypes, NodeTypes, ToldTypes, ServeTypes, NodeTakes,
       registry, bounds
  <2>6. /\ TellMoves(d, "ok") /\ told'[d] = "ok" /\ InstSame(d) /\ LockSame(d) /\ ServeSame(d)
        /\ TaskSame(d) /\ RegSame(d) /\ HeldSame(d) /\ LinkSame(d) /\ MadeSame(d) /\ DownSame(d)
        /\ AskSame(d)
    BY <1>1, <2>1, <2>2, <2>3 DEF InstSame, LockSame, ServeSame, TaskSame, RegSame, HeldSame,
       LinkSame, MadeSame, DownSame, AskSame, Torn, ToldTypes, NodeTakes, registry, bounds
  <2>7. /\ u.to = d /\ Live(d) /\ updates' = updates \ {u} /\ NodeTypes'
        /\ node'[d] = ApplySlotUpdate(node[d], u)
    BY <1>1, <2>1, <2>2, <2>3 DEF NodeTakes, NodeTypes
  <2> QED BY <1>1, <2>4, <2>5, <2>6, <2>7 DEF NodeTakesEffect
<1>2. CASE ~(tell[d].pc = "wait" /\ tell[d].seq = u.seq)
  <2>1. u.to = d /\ tell[d].pid = u.pid
    BY <1>2, UpdateIsTyped DEF EndInv, SeqInv, NodeTakes
  <2>2. NodeTypes' /\ u.to = d
    BY <1>2, <2>1, UpdateIsTyped, NodeTakesTyped DEF NodeTakes
  <2>3. Types'
    BY <1>2, <2>2, PairAssumption DEF InstTypes, LockTypes, TaskTypes, TellTypes, ToldTypes,
       WireTypes, ServeTypes, DownTypes, FlagTypes, BoundTypes, PairAssumption, NodeTakes,
       registry, bounds
  <2>4. \A x \in Ends : x # d => Same(x)
    BY <1>2, <2>1, <2>2 DEF Same, InstSame, LockSame, ServeSame, TaskSame, TellSame, NodeSame,
       ToldSame, RegSame, HeldSame, LinkSame, MadeSame, SentSame, DownSame, AskSame, Torn,
       LockTypes, FlagTypes, NodeTypes, ToldTypes, ServeTypes, NodeTakes, registry, bounds
  <2>5. /\ InstSame(d) /\ LockSame(d) /\ ServeSame(d) /\ TaskSame(d) /\ TellSame(d) /\ ToldSame(d)
        /\ RegSame(d) /\ HeldSame(d) /\ LinkSame(d) /\ MadeSame(d) /\ DownSame(d) /\ AskSame(d)
    BY <1>2, <2>1, <2>2 DEF InstSame, LockSame, ServeSame, TaskSame, TellSame, ToldSame, RegSame,
       HeldSame, LinkSame, MadeSame, DownSame, AskSame, Torn, NodeTakes, registry, bounds
  <2>6. /\ u.to = d /\ Live(d) /\ updates' = updates \ {u} /\ NodeTypes'
        /\ node'[d] = ApplySlotUpdate(node[d], u)
    BY <1>2, <2>1, <2>2 DEF NodeTakes, NodeTypes
  <2> QED BY <1>2, <2>3, <2>4, <2>5, <2>6 DEF NodeTakesEffect
<1>3. (tell[d].pc = "wait" /\ tell[d].seq = u.seq) \/ (~(tell[d].pc = "wait" /\ tell[d].seq = u.seq))
  BY DEF Runs, Live
<1> QED BY <1>1, <1>2, <1>3 DEF NodeTakesEffect

\* The peer's request is refused, or recorded and the node told of it.
CommitFromPeerEffect(d, c) ==
  /\ c.from = Other(d) /\ Free(d) /\ c.pid \in Pids /\ (d = 1 => c.held)
  /\ \/ /\ CommitAnswer(d, c) # "none" /\ InstSame(d) /\ LockSame(d) /\ ServeSame(d)
        /\ TaskSame(d) /\ TellSame(d) /\ NodeSame(d) /\ ToldSame(d) /\ RegSame(d) /\ HeldSame(d)
        /\ LinkSame(d) /\ MadeSame(d) /\ SentSame(d) /\ DownSame(d) /\ AskSame(d)
     \/ /\ CommitAnswer(d, c) = "none" /\ Sends(d, TRUE) /\ Live(d) /\ ~reg[d] /\ reg'[d]
        /\ lock'[d] = "serve" /\ serve'[d] = c /\ notice'[d] = notice[d]
        /\ (linked'[d] <=> (linked[d] \/ ~c.held)) /\ (c.held => held[d]) /\ InstSame(d)
        /\ TaskSame(d) /\ NodeSame(d) /\ ToldSame(d) /\ HeldSame(d) /\ MadeSame(d)
        /\ DownSame(d) /\ AskSame(d)

LEMMA CommitFromPeerDoes ==
  ASSUME PairInv, NEW d \in Ends, NEW c \in commits, CommitFromPeer(d, c)
  PROVE  Types' /\ (\A x \in Ends : x # d => Same(x)) /\ CommitFromPeerEffect(d, c)
<1> USE DEF PairInv, Types
<1>1. CASE CommitAnswer(d, c) # "none"
  <2>1. TaskTypes' /\ TasksStay
    BY <1>1, AnsweredStays, CommitIsTyped, OwnAnswers DEF CommitFromPeer
  <2>2. Types'
    BY <1>1, <2>1, PairAssumption DEF InstTypes, LockTypes, TellTypes, NodeTypes, ToldTypes,
       WireTypes, ServeTypes, DownTypes, FlagTypes, BoundTypes, PairAssumption, CommitFromPeer,
       bounds
  <2>3. \A x \in Ends : x # d => Same(x)
    BY <1>1, <2>1 DEF Same, InstSame, LockSame, ServeSame, TaskSame, TellSame, NodeSame, ToldSame,
       RegSame, HeldSame, LinkSame, MadeSame, SentSame, DownSame, AskSame, Torn, TasksStay,
       LockTypes, FlagTypes, NodeTypes, ToldTypes, ServeTypes, CommitFromPeer, bounds
  <2>4. /\ InstSame(d) /\ LockSame(d) /\ ServeSame(d) /\ TaskSame(d) /\ TellSame(d) /\ NodeSame(d)
        /\ ToldSame(d) /\ RegSame(d) /\ HeldSame(d) /\ LinkSame(d) /\ MadeSame(d) /\ SentSame(d)
        /\ DownSame(d) /\ AskSame(d)
    BY <1>1, <2>1 DEF InstSame, LockSame, ServeSame, TaskSame, TellSame, NodeSame, ToldSame,
       RegSame, HeldSame, LinkSame, MadeSame, SentSame, DownSame, AskSame, Torn, TasksStay,
       CommitFromPeer, bounds
  <2>5. /\ c.from = Other(d) /\ Free(d) /\ c.pid \in Pids /\ (d = 1 => c.held)
    BY <1>1, <2>1 DEF CommitFromPeer, Other, Free, CommitAnswer, bounds, KeepsHeld,
       StartsARestart, StackAnswer, Live, WithoutProcess, WireTypes, EndInv, AskInv, Ends
  <2> QED BY <1>1, <2>2, <2>3, <2>4, <2>5 DEF CommitFromPeerEffect
<1>2. CASE CommitAnswer(d, c) = "none"
  <2>1. c \in [from : 0 .. 2, pid : Nat, held : BOOLEAN]
    BY <1>2, CommitIsTyped, PairAssumption DEF PairAssumption, Ends, Pids
  <2>2. serve' = [serve EXCEPT ![d] = c] /\ notice' = notice
    BY <1>2 DEF CommitFromPeer
  <2>3. ServeTypes'
    BY <1>2, <2>1, <2>2 DEF ServeTypes
  <2>4. FlagTypes'
    BY <1>2 DEF FlagTypes, CommitFromPeer
  <2>5. /\ TellTypes' /\ Sends(d, TRUE)
        /\ updates' \subseteq [to : Ends, pid : Nat, seq : Nat, pin : BOOLEAN]
    BY <1>2, UpdateSends DEF CommitFromPeer
  <2>6. Types'
    BY <1>2, <2>1, <2>3, <2>4, <2>5, PairAssumption DEF InstTypes, LockTypes, TaskTypes,
       NodeTypes, ToldTypes, WireTypes, DownTypes, BoundTypes, PairAssumption, CommitFromPeer,
       bounds
  <2>7. \A x \in Ends : x # d => Same(x)
    BY <1>2, <2>2, <2>5 DEF Same, InstSame, LockSame, ServeSame, TaskSame, TellSame, NodeSame,
       ToldSame, RegSame, HeldSame, LinkSame, MadeSame, SentSame, DownSame, AskSame, Torn, Sends,
       LockTypes, FlagTypes, NodeTypes, ToldTypes, ServeTypes, CommitFromPeer, bounds
  <2>8. /\ Sends(d, TRUE) /\ Live(d) /\ ~reg[d] /\ reg'[d] /\ lock'[d] = "serve" /\ serve'[d] = c
        /\ notice'[d] = notice[d] /\ (linked'[d] <=> (linked[d] \/ ~c.held))
        /\ (c.held => held[d]) /\ InstSame(d) /\ TaskSame(d) /\ NodeSame(d) /\ ToldSame(d)
        /\ HeldSame(d) /\ MadeSame(d) /\ DownSame(d) /\ AskSame(d)
    BY <1>2, <2>2, <2>5 DEF InstSame, TaskSame, NodeSame, ToldSame, HeldSame, MadeSame, DownSame,
       AskSame, Torn, LockTypes, FlagTypes, NodeTypes, ToldTypes, ServeTypes, TasksStay, Present,
       CommitFromPeer, Other, Free, CommitAnswer, bounds, KeepsHeld, StartsARestart, StackAnswer,
       Live, WithoutProcess, WireTypes, EndInv, AskInv, Ends
  <2>9. /\ c.from = Other(d) /\ Free(d) /\ c.pid \in Pids /\ (d = 1 => c.held)
    BY <1>2, <2>2, <2>5 DEF CommitFromPeer, Other, Free, CommitAnswer, bounds, KeepsHeld,
       StartsARestart, StackAnswer, Live, WithoutProcess, WireTypes, EndInv, AskInv, Ends
  <2> QED BY <1>2, <2>6, <2>7, <2>8, <2>9 DEF CommitFromPeerEffect
<1>3. (CommitAnswer(d, c) # "none") \/ (CommitAnswer(d, c) = "none")
  BY DEF Runs, Live
<1> QED BY <1>1, <1>2, <1>3 DEF CommitFromPeerEffect

\* The peer ended: the pair is cleared, and a node that shows it is told.
EndArrivesEffect(d, e) ==
  /\ e.from = Other(d) /\ Free(d) /\ ~reg'[d] /\ ~made'[d]
  /\ \/ /\ reg[d] /\ Live(d) /\ Sends(d, FALSE) /\ lock'[d] = "notice" /\ serve'[d] = serve[d]
        /\ notice'[d] = e /\ InstSame(d) /\ TaskSame(d) /\ NodeSame(d) /\ ToldSame(d)
        /\ HeldSame(d) /\ LinkSame(d) /\ DownSame(d) /\ AskSame(d)
     \/ /\ ~(reg[d] /\ Live(d)) /\ InstSame(d) /\ LockSame(d) /\ ServeSame(d) /\ TaskSame(d)
        /\ TellSame(d) /\ NodeSame(d) /\ ToldSame(d) /\ HeldSame(d) /\ LinkSame(d)
        /\ SentSame(d) /\ DownSame(d) /\ AskSame(d)

LEMMA EndArrivesDoes ==
  ASSUME PairInv, NEW d \in Ends, NEW e \in ends, EndArrives(d, e)
  PROVE  Types' /\ (\A x \in Ends : x # d => Same(x)) /\ EndArrivesEffect(d, e)
<1> USE DEF PairInv, Types
<1>1. CASE reg[d] /\ Live(d)
  <2>1. /\ TellTypes' /\ Sends(d, FALSE)
        /\ updates' \subseteq [to : Ends, pid : Nat, seq : Nat, pin : BOOLEAN]
    BY <1>1, UpdateSends DEF EndArrives
  <2>2. /\ serve' = serve /\ notice' = [notice EXCEPT ![d] = e]
        /\ e \in [from : Ends, pid : Nat, stopped : BOOLEAN]
    BY <1>1 DEF WireTypes, EndArrives
  <2>3. ServeTypes'
    BY <1>1, <2>1, <2>2 DEF ServeTypes, Ends, EndArrives
  <2>4. Types'
    BY <1>1, <2>1, <2>3 DEF InstTypes, LockTypes, TaskTypes, NodeTypes, ToldTypes, WireTypes,
       DownTypes, FlagTypes, BoundTypes, EndArrives, bounds
  <2>5. \A x \in Ends : x # d => Same(x)
    BY <1>1, <2>1, <2>2 DEF Same, InstSame, LockSame, ServeSame, TaskSame, TellSame, NodeSame,
       ToldSame, RegSame, HeldSame, LinkSame, MadeSame, SentSame, DownSame, AskSame, Torn, Sends,
       LockTypes, FlagTypes, NodeTypes, ToldTypes, ServeTypes, EndArrives, bounds
  <2>6. /\ Sends(d, FALSE) /\ lock'[d] = "notice" /\ serve'[d] = serve[d] /\ notice'[d] = e
        /\ InstSame(d) /\ TaskSame(d) /\ NodeSame(d) /\ ToldSame(d) /\ HeldSame(d) /\ LinkSame(d)
        /\ DownSame(d) /\ AskSame(d)
    BY <1>1, <2>1, <2>2 DEF InstSame, TaskSame, NodeSame, ToldSame, HeldSame, LinkSame, DownSame,
       AskSame, Torn, LockTypes, ServeTypes, EndArrives, bounds
  <2>7. /\ e.from = Other(d) /\ Free(d) /\ ~reg'[d] /\ ~made'[d]
    BY <1>1, <2>1, <2>2 DEF EndArrives, FlagTypes
  <2> QED BY <1>1, <2>4, <2>5, <2>6, <2>7 DEF EndArrivesEffect
<1>2. CASE ~(reg[d] /\ Live(d))
  <2>1. /\ DownTypes' /\ \A x \in Ends : DownSame(x)
        /\ forgets' \subseteq [from : Ends, pid : Nat, stopped : BOOLEAN]
    BY <1>2, TakenGoesOn DEF WireTypes, EndArrives
  <2>2. Types'
    BY <1>2, <2>1, PairAssumption DEF InstTypes, LockTypes, TaskTypes, TellTypes, NodeTypes,
       ToldTypes, WireTypes, ServeTypes, FlagTypes, BoundTypes, PairAssumption, EndArrives, bounds
  <2>3. \A x \in Ends : x # d => Same(x)
    BY <1>2, <2>1 DEF Same, InstSame, LockSame, ServeSame, TaskSame, TellSame, NodeSame, ToldSame,
       RegSame, HeldSame, LinkSame, MadeSame, SentSame, AskSame, FlagTypes, EndArrives, bounds
  <2>4. /\ InstSame(d) /\ LockSame(d) /\ ServeSame(d) /\ TaskSame(d) /\ TellSame(d) /\ NodeSame(d)
        /\ ToldSame(d) /\ HeldSame(d) /\ LinkSame(d) /\ SentSame(d) /\ DownSame(d) /\ AskSame(d)
    BY <1>2, <2>1 DEF InstSame, LockSame, ServeSame, TaskSame, TellSame, NodeSame, ToldSame,
       HeldSame, LinkSame, SentSame, DownSame, AskSame, Torn, EndArrives, bounds
  <2>5. /\ e.from = Other(d) /\ Free(d) /\ ~reg'[d] /\ ~made'[d]
    BY <1>2, <2>1 DEF EndArrives, FlagTypes
  <2> QED BY <1>2, <2>2, <2>3, <2>4, <2>5 DEF EndArrivesEffect
<1>3. (reg[d] /\ Live(d)) \/ (~(reg[d] /\ Live(d)))
  BY DEF Runs, Live
<1> QED BY <1>1, <1>2, <1>3 DEF EndArrivesEffect

\* The stopped peer's pair is kept no more.
ForgetEffect(d, e) ==
  /\ ~held'[d] /\ InstSame(d) /\ LockSame(d) /\ ServeSame(d) /\ TaskSame(d) /\ TellSame(d)
  /\ NodeSame(d) /\ ToldSame(d) /\ RegSame(d) /\ LinkSame(d) /\ MadeSame(d) /\ SentSame(d)
  /\ DownSame(d) /\ AskSame(d)

LEMMA ForgetDoes ==
  ASSUME PairInv, NEW d \in Ends, NEW e \in forgets, Other(e.from) = d, Forget(e)
  PROVE  Types' /\ (\A x \in Ends : x # d => Same(x)) /\ ForgetEffect(d, e)
<1> USE DEF PairInv, Types
<1>1. DownTypes' /\ \A x \in Ends : DownSame(x)
  BY AckedGoOn DEF Forget
<1>2. Types'
  BY <1>1, PairAssumption DEF InstTypes, LockTypes, TaskTypes, TellTypes, NodeTypes, ToldTypes,
     WireTypes, ServeTypes, FlagTypes, BoundTypes, PairAssumption, Forget, wire, bounds, ghosts
<1>3. \A x \in Ends : x # d => Same(x)
  BY <1>1 DEF Same, InstSame, LockSame, ServeSame, TaskSame, TellSame, NodeSame, ToldSame,
     RegSame, HeldSame, LinkSame, MadeSame, SentSame, DownSame, AskSame, Torn, LockTypes,
     FlagTypes, NodeTypes, ToldTypes, ServeTypes, Forget, wire, bounds, ghosts
<1>4. /\ ~held'[d] /\ InstSame(d) /\ LockSame(d) /\ ServeSame(d) /\ TaskSame(d) /\ TellSame(d)
      /\ NodeSame(d) /\ ToldSame(d) /\ RegSame(d) /\ LinkSame(d) /\ MadeSame(d) /\ SentSame(d)
      /\ DownSame(d) /\ AskSame(d)
  BY <1>1 DEF InstSame, LockSame, ServeSame, TaskSame, TellSame, NodeSame, ToldSame, RegSame,
     LinkSame, MadeSame, SentSame, DownSame, AskSame, Torn, FlagTypes, Forget, wire, bounds,
     ghosts
<1> QED BY <1>2, <1>3, <1>4 DEF ForgetEffect

LEMMA AnnounceEndDoes ==
  ASSUME PairInv, NEW t \in down, AnnounceEnd(t)
  PROVE  Types' /\ \A x \in Ends : Same(x)
<1> USE DEF PairInv, Types
<1>1. DownTypes' /\ \A x \in Ends : DownSame(x)
  BY TeardownGoesOn DEF AnnounceEnd
<1>2. Types'
  BY <1>1, PairAssumption DEF InstTypes, LockTypes, TaskTypes, TellTypes, NodeTypes, ToldTypes,
     WireTypes, ServeTypes, FlagTypes, BoundTypes, DownTypes, PairAssumption, AnnounceEnd,
     registry, bounds, ghosts
<1>3. \A x \in Ends : Same(x)
  BY <1>1 DEF Same, InstSame, LockSame, ServeSame, TaskSame, TellSame, NodeSame, ToldSame,
     RegSame, HeldSame, LinkSame, MadeSame, SentSame, DownSame, AskSame, Torn, LockTypes,
     FlagTypes, NodeTypes, ToldTypes, ServeTypes, AnnounceEnd, registry, bounds, ghosts
<1> QED BY <1>2, <1>3

LEMMA EndUnansweredDoes ==
  ASSUME PairInv, NEW t \in down, EndUnanswered(t)
  PROVE  Types' /\ \A x \in Ends : Same(x)
<1> USE DEF PairInv, Types
<1>1. DownTypes' /\ \A x \in Ends : DownSame(x)
  BY TeardownGoesOn DEF EndUnanswered
<1>2. Types'
  BY <1>1, PairAssumption DEF InstTypes, LockTypes, TaskTypes, TellTypes, NodeTypes, ToldTypes,
     WireTypes, ServeTypes, FlagTypes, BoundTypes, PairAssumption, EndUnanswered, registry
<1>3. \A x \in Ends : Same(x)
  BY <1>1 DEF Same, InstSame, LockSame, ServeSame, TaskSame, TellSame, NodeSame, ToldSame,
     RegSame, HeldSame, LinkSame, MadeSame, SentSame, DownSame, AskSame, Torn, LockTypes,
     FlagTypes, NodeTypes, ToldTypes, ServeTypes, EndUnanswered, registry
<1> QED BY <1>2, <1>3

\* The teardown clears what its process left.
DissolveEffect(d, t) ==
  /\ t.from = d /\ Free(d) /\ (\A p \in Pids : task[d][p].pc # "lock")
  /\ ~reg'[d] /\ ~made'[d] /\ down' = down \ {t} /\ InstSame(d) /\ LockSame(d) /\ ServeSame(d)
  /\ TaskSame(d) /\ TellSame(d) /\ NodeSame(d) /\ ToldSame(d) /\ HeldSame(d) /\ LinkSame(d)
  /\ SentSame(d) /\ AskSame(d)

LEMMA DissolveDoes ==
  ASSUME PairInv, NEW d \in Ends, NEW t \in down, t.from = d, Dissolve(t)
  PROVE  Types' /\ (\A x \in Ends : x # d => Same(x)) /\ DissolveEffect(d, t)
<1> USE DEF PairInv, Types
<1>1. Types'
  BY PairAssumption DEF InstTypes, LockTypes, TaskTypes, TellTypes, NodeTypes, ToldTypes,
     WireTypes, ServeTypes, DownTypes, FlagTypes, BoundTypes, PairAssumption, Dissolve, wire,
     bounds
<1>2. \A x \in Ends : x # d => Same(x)
  BY DEF Same, InstSame, LockSame, ServeSame, TaskSame, TellSame, NodeSame, ToldSame, RegSame,
     HeldSame, LinkSame, MadeSame, SentSame, DownSame, AskSame, Torn, LockTypes, FlagTypes,
     NodeTypes, ToldTypes, ServeTypes, Dissolve, wire, bounds
<1>3. /\ ~reg'[d] /\ ~made'[d] /\ down' = down \ {t} /\ InstSame(d) /\ LockSame(d)
      /\ ServeSame(d) /\ TaskSame(d) /\ TellSame(d) /\ NodeSame(d) /\ ToldSame(d) /\ HeldSame(d)
      /\ LinkSame(d) /\ SentSame(d) /\ AskSame(d)
  BY DEF InstSame, LockSame, ServeSame, TaskSame, TellSame, NodeSame, ToldSame, HeldSame,
     LinkSame, SentSame, AskSame, FlagTypes, Dissolve, wire, bounds
<1>4. /\ t.from = d /\ Free(d) /\ (\A p \in Pids : task[d][p].pc # "lock")
  BY DEF Dissolve, FlagTypes
<1> QED BY <1>1, <1>2, <1>3, <1>4 DEF DissolveEffect

\* The start is given up before its commit.
StartFailsEffect(d) ==
  /\ inst[d].st = "starting" /\ Free(d)
  /\ (InstMoves(d, IF inst[d].again THEN "restarting" ELSE "absent"))
  /\ TaskMoves(d, inst[d].pid, "done") /\ ~reg'[d] /\ LockSame(d) /\ ServeSame(d) /\ TellSame(d)
  /\ NodeSame(d) /\ ToldSame(d) /\ HeldSame(d) /\ LinkSame(d) /\ MadeSame(d) /\ SentSame(d)
  /\ DownSame(d) /\ AskSame(d)

LEMMA StartFailsDoes ==
  ASSUME PairInv, NEW d \in Ends, StartFails(d)
  PROVE  Types' /\ (\A x \in Ends : x # d => Same(x)) /\ StartFailsEffect(d)
<1> USE DEF PairInv, Types
<1>1. InstTypes' /\ InstMoves(d, IF inst[d].again THEN "restarting" ELSE "absent")
  BY SetStMoves DEF Sts, StartFails
<1>2. TaskTypes' /\ TaskMoves(d, inst[d].pid, "done")
  BY SetTaskMoves, StartingPid DEF SetTask, StartFails, TaskPcs
<1>3. Types'
  BY <1>1, <1>2, PairAssumption DEF LockTypes, TellTypes, NodeTypes, ToldTypes, WireTypes,
     ServeTypes, DownTypes, FlagTypes, BoundTypes, PairAssumption, StartFails, wire, ghosts
<1>4. \A x \in Ends : x # d => Same(x)
  BY <1>1, <1>2 DEF Same, InstSame, LockSame, ServeSame, TaskSame, TellSame, NodeSame, ToldSame,
     RegSame, HeldSame, LinkSame, MadeSame, SentSame, DownSame, AskSame, Torn, InstMoves,
     TaskMoves, OtherTasks, LockTypes, FlagTypes, NodeTypes, ToldTypes, ServeTypes, StartFails,
     wire, ghosts
<1>5. /\ (InstMoves(d, IF inst[d].again THEN "restarting" ELSE "absent"))
      /\ TaskMoves(d, inst[d].pid, "done") /\ ~reg'[d] /\ LockSame(d) /\ ServeSame(d)
      /\ TellSame(d) /\ NodeSame(d) /\ ToldSame(d) /\ HeldSame(d) /\ LinkSame(d) /\ MadeSame(d)
      /\ SentSame(d) /\ DownSame(d) /\ AskSame(d)
  BY <1>1, <1>2 DEF LockSame, ServeSame, TellSame, NodeSame, ToldSame, HeldSame, LinkSame,
     MadeSame, SentSame, DownSame, AskSame, Torn, FlagTypes, StartFails, wire, ghosts
<1>6. /\ inst[d].st = "starting" /\ Free(d)
  BY <1>1, <1>2 DEF StartFails
<1> QED BY <1>3, <1>4, <1>5, <1>6 DEF StartFailsEffect

\* The process exits; its end is to be announced.
ProcExitsEffect(d) ==
  /\ inst[d].st = "running"
  /\ InstMoves(d, "restarting") /\ ~made'[d] /\ Torn(d)'
  /\ (\A t \in down' : t \in down \/ (t.pid = inst[d].pid /\ ~t.stopped)) /\ LockSame(d)
  /\ ServeSame(d) /\ TaskSame(d) /\ TellSame(d) /\ NodeSame(d) /\ ToldSame(d) /\ RegSame(d)
  /\ HeldSame(d) /\ LinkSame(d) /\ SentSame(d) /\ AskSame(d)

LEMMA ProcExitsDoes ==
  ASSUME PairInv, NEW d \in Ends, ProcExits(d)
  PROVE  Types' /\ (\A x \in Ends : x # d => Same(x)) /\ ProcExitsEffect(d)
<1> USE DEF PairInv, Types
<1>1. \E s \in [from : {d}, pid : {inst[d].pid}, stopped : {FALSE}, kept : BOOLEAN,
               pc : {"announce", "telling", "dissolve"}] : down' = down \cup {s}
  BY DEF FlagTypes, ProcExits
<1>2. InstTypes' /\ InstMoves(d, "restarting")
  BY SetStMoves DEF Sts, ProcExits
<1>3. DownTypes'
  BY <1>1, <1>2 DEF DownTypes, InstTypes, ProcExits
<1>4. Types'
  BY <1>1, <1>2, <1>3, PairAssumption DEF LockTypes, TaskTypes, TellTypes, NodeTypes, ToldTypes,
     WireTypes, ServeTypes, FlagTypes, BoundTypes, PairAssumption, ProcExits, registry, wire,
     bounds
<1>5. \A x \in Ends : x # d => Same(x)
  BY <1>1, <1>2 DEF Same, InstSame, LockSame, ServeSame, TaskSame, TellSame, NodeSame, ToldSame,
     RegSame, HeldSame, LinkSame, MadeSame, SentSame, DownSame, AskSame, Torn, InstMoves,
     LockTypes, FlagTypes, NodeTypes, ToldTypes, ServeTypes, ProcExits, registry, wire, bounds
<1>6. /\ InstMoves(d, "restarting") /\ ~made'[d] /\ Torn(d)'
      /\ (\A t \in down' : t \in down \/ (t.pid = inst[d].pid /\ ~t.stopped)) /\ LockSame(d)
      /\ ServeSame(d) /\ TaskSame(d) /\ TellSame(d) /\ NodeSame(d) /\ ToldSame(d) /\ RegSame(d)
      /\ HeldSame(d) /\ LinkSame(d) /\ SentSame(d) /\ AskSame(d)
  BY <1>1, <1>2 DEF LockSame, ServeSame, TaskSame, TellSame, NodeSame, ToldSame, RegSame,
     HeldSame, LinkSame, SentSame, AskSame, Torn, FlagTypes, ProcExits, registry, wire, bounds
<1>7. /\ inst[d].st = "running"
  BY <1>1, <1>2 DEF ProcExits
<1> QED BY <1>4, <1>5, <1>6, <1>7 DEF ProcExitsEffect

\* The instance is stopped; its end is to be announced.
StopEffect(d) ==
  /\ inst[d].st \in {"running", "restarting"}
  /\ InstMoves(d, "absent") /\ ~made'[d] /\ ~held'[d] /\ ~linked'[d] /\ Torn(d)'
  /\ (\A t \in down' : t \in down \/ t.pid = inst[d].pid) /\ LockSame(d) /\ ServeSame(d)
  /\ TaskSame(d) /\ TellSame(d) /\ NodeSame(d) /\ ToldSame(d) /\ RegSame(d) /\ SentSame(d)
  /\ AskSame(d)

LEMMA StopDoes ==
  ASSUME PairInv, NEW d \in Ends, Stop(d)
  PROVE  Types' /\ (\A x \in Ends : x # d => Same(x)) /\ StopEffect(d)
<1> USE DEF PairInv, Types
<1>1. \E s \in [from : {d}, pid : {inst[d].pid}, stopped : {TRUE}, kept : BOOLEAN,
               pc : {"announce", "telling", "dissolve"}] : down' = down \cup {s}
  BY DEF FlagTypes, Stop
<1>2. InstTypes' /\ InstMoves(d, "absent")
  BY SetStMoves DEF Sts, Stop
<1>3. DownTypes'
  BY <1>1, <1>2 DEF DownTypes, InstTypes
<1>4. Types'
  BY <1>1, <1>2, <1>3, PairAssumption DEF LockTypes, TaskTypes, TellTypes, NodeTypes, ToldTypes,
     WireTypes, ServeTypes, FlagTypes, BoundTypes, PairAssumption, Stop, wire
<1>5. \A x \in Ends : x # d => Same(x)
  BY <1>1, <1>2 DEF Same, InstSame, LockSame, ServeSame, TaskSame, TellSame, NodeSame, ToldSame,
     RegSame, HeldSame, LinkSame, MadeSame, SentSame, DownSame, AskSame, Torn, InstMoves,
     LockTypes, FlagTypes, NodeTypes, ToldTypes, ServeTypes, Stop, wire
<1>6. /\ InstMoves(d, "absent") /\ ~made'[d] /\ ~held'[d] /\ ~linked'[d] /\ Torn(d)'
      /\ (\A t \in down' : t \in down \/ t.pid = inst[d].pid) /\ LockSame(d) /\ ServeSame(d)
      /\ TaskSame(d) /\ TellSame(d) /\ NodeSame(d) /\ ToldSame(d) /\ RegSame(d) /\ SentSame(d)
      /\ AskSame(d)
  BY <1>1, <1>2 DEF LockSame, ServeSame, TaskSame, TellSame, NodeSame, ToldSame, RegSame,
     SentSame, AskSame, Torn, FlagTypes, Stop, wire
<1>7. /\ inst[d].st \in {"running", "restarting"}
  BY <1>1, <1>2 DEF Stop
<1> QED BY <1>4, <1>5, <1>6, <1>7 DEF StopEffect

\* The registry drops the pair of an end without a process.
PruneEffect(d) ==
  /\ reg[d] /\ ~Live(d)
  /\ ~reg'[d] /\ InstSame(d) /\ LockSame(d) /\ ServeSame(d) /\ TaskSame(d) /\ TellSame(d)
  /\ NodeSame(d) /\ ToldSame(d) /\ HeldSame(d) /\ LinkSame(d) /\ MadeSame(d) /\ SentSame(d)
  /\ DownSame(d) /\ AskSame(d)

LEMMA PruneDoes ==
  ASSUME PairInv, NEW d \in Ends, Prune(d)
  PROVE  Types' /\ (\A x \in Ends : x # d => Same(x)) /\ PruneEffect(d)
<1> USE DEF PairInv, Types
<1>1. Types'
  BY PairAssumption DEF InstTypes, LockTypes, TaskTypes, TellTypes, NodeTypes, ToldTypes,
     WireTypes, ServeTypes, DownTypes, FlagTypes, BoundTypes, PairAssumption, Prune, wire, bounds,
     ghosts
<1>2. \A x \in Ends : x # d => Same(x)
  BY DEF Same, InstSame, LockSame, ServeSame, TaskSame, TellSame, NodeSame, ToldSame, RegSame,
     HeldSame, LinkSame, MadeSame, SentSame, DownSame, AskSame, Torn, LockTypes, FlagTypes,
     NodeTypes, ToldTypes, ServeTypes, Prune, wire, bounds, ghosts
<1>3. /\ ~reg'[d] /\ InstSame(d) /\ LockSame(d) /\ ServeSame(d) /\ TaskSame(d) /\ TellSame(d)
      /\ NodeSame(d) /\ ToldSame(d) /\ HeldSame(d) /\ LinkSame(d) /\ MadeSame(d) /\ SentSame(d)
      /\ DownSame(d) /\ AskSame(d)
  BY DEF InstSame, LockSame, ServeSame, TaskSame, TellSame, NodeSame, ToldSame, HeldSame,
     LinkSame, MadeSame, SentSame, DownSame, AskSame, Torn, FlagTypes, Prune, wire, bounds, ghosts
<1>4. /\ reg[d] /\ ~Live(d)
  BY DEF Prune
<1> QED BY <1>1, <1>2, <1>3, <1>4 DEF PruneEffect

-----------------------------------------------------------------------------
(***************************************************************************)
(* Each effect keeps the invariant of the end where it happens             *)
(***************************************************************************)

LEMMA DeliverKeeps ==
  ASSUME NEW d \in Ends, NEW p \in Pids, Types, Types', EndInv(d), DeliverEffect(d, p)
  PROVE  EndInv(d)'
<1>1. /\ LockInv(d) /\ TaskInv(d) /\ DownInv(d) /\ AskInv(d) /\ FirstInv(d) /\ ReserveInv(d)
      /\ MadeInv(d) /\ LinkInv(d) /\ SeqInv(d) /\ PinInv(d) /\ SlotInv(d)
  BY DEF EndInv
<1>2. Plain(d) /\ Plain(d)'
  BY PlainTypes, PlainTypesNext
<1>3. LockInv(d)'
  BY <1>1 DEF DeliverEffect, LockInv, Keeps, Other, TaskMoves, OtherTasks, Sends, LockSame,
     ServeSame, TellSame, Live, Free
<1>4. TaskInv(d)'
  <2>1. task[d][p].pc = "deliver" /\ ~task[d][p].again /\ d = 1 /\ InstSame(d)
    BY <1>1 DEF DeliverEffect, TaskInv
  <2>2. TaskMoves(d, p, "telling") \/ TaskMoves(d, p, "dissolve")
    BY DEF DeliverEffect
  <2> QED BY <1>1, <2>1, <2>2, TaskStays
<1>5. DownInv(d)'
  BY <1>1 DEF DeliverEffect, DownInv, Live, Free, Torn, TaskMoves, OtherTasks, Sends, InstSame,
     LockSame, TellSame, RegSame, DownSame
<1>6. AskInv(d)'
  BY <1>1 DEF DeliverEffect, AskInv, TaskMoves, OtherTasks, AskSame, Live, Free
<1>7. FirstInv(d)'
  BY <1>1 DEF DeliverEffect, FirstInv, Unfinished, TaskMoves, OtherTasks, LockSame, HeldSame,
     Live, Free
<1>8. ReserveInv(d)'
  BY <1>1, <1>2 DEF DeliverEffect, ReserveInv, Unfinished, TaskMoves, OtherTasks, Sends, InstSame,
     NodeSame, ToldSame, RegSame, SentSame, Live, Free, FirstInv, TaskInv, Present, Plain, Pids
<1>9. MadeInv(d)'
  BY <1>1, <1>2 DEF DeliverEffect, MadeInv, Unfinished, Free, TaskMoves, OtherTasks, InstSame,
     LockSame, RegSame, MadeSame, Live, LockInv, TaskInv, Keeps, Other, Present, Plain, Pids
<1>10. LinkInv(d)'
  BY <1>1, <1>2 DEF DeliverEffect, LinkInv, Unfinished, Runs, Present, TaskMoves, OtherTasks,
     Sends, InstSame, LockSame, NodeSame, HeldSame, LinkSame, SentSame, Live, Free, TaskInv, Plain
<1>11. SeqInv(d)'
  BY <1>1, <1>2 DEF DeliverEffect, SeqInv, Sends, InstSame, TellSame, NodeSame, ToldSame,
     SentSame, Live, Free, Plain
<1>12. PinInv(d)'
  BY <1>1, <1>2 DEF DeliverEffect, PinInv, Expect, TaskMoves, OtherTasks, Sends, LockSame,
     TellSame, NodeSame, SentSame, Live, Free, SeqInv, LockInv, Keeps, Other, Plain
<1>13. SlotInv(d)'
  <2>1. CASE reg[d] /\ Live(d)
    <3>1. Expect(d)' /\ ~Free(d)' /\ reg'[d]
      BY <1>1, <2>1 DEF DeliverEffect, LockInv, Keeps, Expect, TaskMoves, OtherTasks, Free, RegSame
    <3> QED BY <3>1 DEF SlotInv
  <2>2. CASE ~(reg[d] /\ Live(d))
    <3>1. ~node'[d].pin /\ ~reg'[d] /\ Free(d)'
      BY <1>1, <2>2 DEF DeliverEffect, ReserveInv, Unfinished, TaskInv, NodeSame, LockSame, Free
    <3> QED BY <3>1 DEF SlotInv
  <2> QED BY <2>1, <2>2
<1> QED BY <1>3, <1>4, <1>5, <1>6, <1>7, <1>8, <1>9, <1>10, <1>11, <1>12, <1>13 DEF EndInv

LEMMA LookAgainKeeps ==
  ASSUME NEW d \in Ends, NEW p \in Pids, Types, Types', EndInv(d), LookAgainEffect(d, p)
  PROVE  EndInv(d)'
<1>1. /\ LockInv(d) /\ TaskInv(d) /\ DownInv(d) /\ AskInv(d) /\ FirstInv(d) /\ ReserveInv(d)
      /\ MadeInv(d) /\ LinkInv(d) /\ SeqInv(d) /\ PinInv(d) /\ SlotInv(d)
  BY DEF EndInv
<1>2. Plain(d) /\ Plain(d)'
  BY PlainTypes, PlainTypesNext
<1>3. LockInv(d)'
  BY <1>1 DEF LookAgainEffect, LockInv, Keeps, Other, TaskMoves, OtherTasks, LockSame, ServeSame,
     TellSame, Runs
<1>4. TaskInv(d)'
  BY <1>1 DEF LookAgainEffect, TaskInv, Present, TaskMoves, OtherTasks, InstSame, Runs
<1>5. DownInv(d)'
  BY <1>1 DEF LookAgainEffect, DownInv, Live, Free, Torn, TaskMoves, OtherTasks, InstSame,
     LockSame, TellSame, RegSame, DownSame, Runs
<1>6. AskInv(d)'
  BY <1>1 DEF LookAgainEffect, AskInv, TaskMoves, OtherTasks, AskSame, Runs
<1>7. FirstInv(d)'
  BY <1>1 DEF LookAgainEffect, FirstInv, Unfinished, TaskMoves, OtherTasks, LockSame, HeldSame,
     Runs
<1>8. ReserveInv(d)'
  BY <1>1 DEF LookAgainEffect, ReserveInv, Unfinished, TaskMoves, OtherTasks, InstSame, NodeSame,
     ToldSame, RegSame, SentSame, Runs
<1>9. MadeInv(d)'
  BY <1>1, MadeStays DEF LookAgainEffect, TaskInv
<1>10. LinkInv(d)'
  BY <1>1 DEF LookAgainEffect, LinkInv, Unfinished, Runs, Present, TaskMoves, OtherTasks,
     InstSame, LockSame, NodeSame, HeldSame, LinkSame, SentSame
<1>11. SeqInv(d)'
  BY <1>1 DEF LookAgainEffect, SeqInv, InstSame, TellSame, NodeSame, ToldSame, SentSame, Runs
<1>12. PinInv(d)'
  BY <1>1 DEF LookAgainEffect, PinInv, Expect, TaskMoves, OtherTasks, LockSame, TellSame,
     NodeSame, SentSame, Runs
<1>13. SlotInv(d)'
  BY <1>1 DEF LookAgainEffect, SlotInv, Expect, Reserved, Unfinished, Live, Free, TaskMoves,
     OtherTasks, InstSame, LockSame, NodeSame, ToldSame, RegSame, Runs
<1> QED BY <1>3, <1>4, <1>5, <1>6, <1>7, <1>8, <1>9, <1>10, <1>11, <1>12, <1>13 DEF EndInv

LEMMA PairAgainKeeps ==
  ASSUME NEW d \in Ends, NEW p \in Pids, Types, Types', EndInv(d), PairAgainEffect(d, p)
  PROVE  EndInv(d)'
<1>1. /\ LockInv(d) /\ TaskInv(d) /\ DownInv(d) /\ AskInv(d) /\ FirstInv(d) /\ ReserveInv(d)
      /\ MadeInv(d) /\ LinkInv(d) /\ SeqInv(d) /\ PinInv(d) /\ SlotInv(d)
  BY DEF EndInv
<1>2. Plain(d) /\ Plain(d)'
  BY PlainTypes, PlainTypesNext
<1>3. LockInv(d)'
  BY <1>1 DEF PairAgainEffect, LockInv, Keeps, Other, TaskMoves, OtherTasks, Sends, LockSame,
     ServeSame, TellSame, Live, Free
<1>4. TaskInv(d)'
  <2>1. task[d][p].pc = "lock" /\ task[d][p].again /\ InstSame(d)
    BY <1>1 DEF PairAgainEffect, TaskInv
  <2>2. TaskMoves(d, p, "outcome") \/ TaskMoves(d, p, "telling")
    BY DEF PairAgainEffect
  <2> QED BY <1>1, <2>1, <2>2, TaskStays
<1>5. DownInv(d)'
  BY <1>1 DEF PairAgainEffect, DownInv, Live, Free, Torn, TaskMoves, OtherTasks, Sends, InstSame,
     LockSame, TellSame, RegSame, DownSame
<1>6. AskInv(d)'
  BY <1>1 DEF PairAgainEffect, AskInv, TaskMoves, OtherTasks, AskSame, Live, Free
<1>7. FirstInv(d)'
  BY <1>1 DEF PairAgainEffect, FirstInv, Unfinished, TaskMoves, OtherTasks, LockSame, HeldSame,
     Live, Free
<1>8. ReserveInv(d)'
  BY SMTT(20), <1>1, <1>2 DEF PairAgainEffect, ReserveInv, Unfinished, TaskMoves, OtherTasks, Sends,
     InstSame, NodeSame, ToldSame, RegSame, SentSame, Live, Free, FirstInv, TaskInv, DownInv,
     Present, Torn, Plain, Pids
<1>9. MadeInv(d)'
  <2>1. CASE reg[d] \/ ~Live(d)
    BY <1>1, <2>1, MadeStays DEF PairAgainEffect, TaskInv
  <2>2. CASE ~reg[d] /\ Live(d)
    BY <1>1, <2>2 DEF PairAgainEffect, MadeSame, MadeInv
  <2> QED BY <2>1, <2>2
<1>10. LinkInv(d)'
  BY <1>1, <1>2 DEF PairAgainEffect, LinkInv, Unfinished, Runs, Present, TaskMoves, OtherTasks,
     Sends, InstSame, LockSame, NodeSame, HeldSame, LinkSame, SentSame, Live, Free, TaskInv,
     DownInv, Torn, Plain
<1>11. SeqInv(d)'
  BY <1>1, <1>2 DEF PairAgainEffect, SeqInv, Sends, InstSame, TellSame, NodeSame, ToldSame,
     SentSame, Live, Free, Plain
<1>12. PinInv(d)'
  BY <1>1, <1>2 DEF PairAgainEffect, PinInv, Expect, TaskMoves, OtherTasks, Sends, LockSame,
     TellSame, NodeSame, SentSame, Live, Free, SeqInv, LockInv, Keeps, Other, Plain
<1>13. SlotInv(d)'
  <2>1. CASE reg[d] \/ ~Live(d)
    BY <1>1, <2>1, SlotStays DEF PairAgainEffect
  <2>2. CASE ~reg[d] /\ Live(d)
    <3>1. Expect(d)' /\ ~Free(d)' /\ reg'[d]
      BY <1>1, <2>2 DEF PairAgainEffect, LockInv, Keeps, Expect, TaskMoves, OtherTasks, Free
    <3> QED BY <3>1 DEF SlotInv
  <2> QED BY <2>1, <2>2
<1> QED BY <1>3, <1>4, <1>5, <1>6, <1>7, <1>8, <1>9, <1>10, <1>11, <1>12, <1>13 DEF EndInv

LEMMA OwnPinFailsKeeps ==
  ASSUME NEW d \in Ends, NEW p \in Pids, Types, Types', EndInv(d), OwnPinFailsEffect(d, p)
  PROVE  EndInv(d)'
<1>1. /\ LockInv(d) /\ TaskInv(d) /\ DownInv(d) /\ AskInv(d) /\ FirstInv(d) /\ ReserveInv(d)
      /\ MadeInv(d) /\ LinkInv(d) /\ SeqInv(d) /\ PinInv(d) /\ SlotInv(d)
  BY DEF EndInv
<1>2. Plain(d) /\ Plain(d)'
  BY PlainTypes, PlainTypesNext
<1>3. LockInv(d)'
  BY <1>1 DEF OwnPinFailsEffect, LockInv, Keeps, Other, TaskMoves, OtherTasks, TellMoves,
     ServeSame
<1>4. TaskInv(d)'
  BY <1>1 DEF OwnPinFailsEffect, TaskInv, Present, TaskMoves, OtherTasks, InstSame
<1>5. DownInv(d)'
  BY <1>1 DEF OwnPinFailsEffect, DownInv, Live, Free, Torn, TaskMoves, OtherTasks, TellMoves,
     InstSame, DownSame
<1>6. AskInv(d)'
  BY <1>1 DEF OwnPinFailsEffect, AskInv, TaskMoves, OtherTasks, AskSame
<1>7. FirstInv(d)'
  BY <1>1 DEF OwnPinFailsEffect, FirstInv, Unfinished, TaskMoves, OtherTasks, HeldSame
<1>8. ReserveInv(d)'
  BY <1>1 DEF OwnPinFailsEffect, ReserveInv, Unfinished, TaskMoves, OtherTasks, InstSame,
     NodeSame, ToldSame, SentSame
<1>9. MadeInv(d)'
  BY <1>1, <1>2 DEF OwnPinFailsEffect, MadeInv, Unfinished, Free, TaskMoves, OtherTasks, InstSame,
     MadeSame, LockInv, Keeps, Other, Plain, Pids
<1>10. LinkInv(d)'
  BY <1>1 DEF OwnPinFailsEffect, LinkInv, Unfinished, Runs, Present, TaskMoves, OtherTasks,
     InstSame, NodeSame, HeldSame, LinkSame, SentSame
<1>11. SeqInv(d)'
  BY <1>1 DEF OwnPinFailsEffect, SeqInv, TellMoves, InstSame, NodeSame, ToldSame, SentSame
<1>12. PinInv(d)'
  BY <1>1 DEF OwnPinFailsEffect, PinInv, Expect, TaskMoves, OtherTasks, TellMoves, NodeSame,
     SentSame
<1>13. SlotInv(d)'
  BY <1>1, <1>2 DEF OwnPinFailsEffect, SlotInv, Expect, Reserved, Unfinished, Live, Free,
     TaskMoves, OtherTasks, InstSame, NodeSame, ToldSame, PinInv, SeqInv, Plain, Pids
<1> QED BY <1>3, <1>4, <1>5, <1>6, <1>7, <1>8, <1>9, <1>10, <1>11, <1>12, <1>13 DEF EndInv

LEMMA AskPeerKeeps ==
  ASSUME NEW d \in Ends, NEW p \in Pids, Types, Types', EndInv(d), AskPeerEffect(d, p)
  PROVE  EndInv(d)'
<1>1. /\ LockInv(d) /\ TaskInv(d) /\ DownInv(d) /\ AskInv(d) /\ FirstInv(d) /\ ReserveInv(d)
      /\ MadeInv(d) /\ LinkInv(d) /\ SeqInv(d) /\ PinInv(d) /\ SlotInv(d)
  BY DEF EndInv
<1>2. Plain(d) /\ Plain(d)'
  BY PlainTypes, PlainTypesNext
<1>3. LockInv(d)'
  BY <1>1 DEF AskPeerEffect, LockInv, Keeps, Other, TaskMoves, OtherTasks, TellMoves, ServeSame
<1>4. TaskInv(d)'
  BY <1>1 DEF AskPeerEffect, TaskInv, Present, TaskMoves, OtherTasks, InstSame
<1>5. DownInv(d)'
  BY <1>1 DEF AskPeerEffect, DownInv, Live, Free, Torn, TaskMoves, OtherTasks, TellMoves,
     InstSame, RegSame, DownSame
<1>6. AskInv(d)'
  BY <1>1 DEF AskPeerEffect, AskInv, TaskMoves, OtherTasks, TaskInv, Present
<1>7. FirstInv(d)'
  BY <1>1 DEF AskPeerEffect, FirstInv, Unfinished, TaskMoves, OtherTasks, HeldSame
<1>8. ReserveInv(d)'
  BY <1>1, <1>2 DEF AskPeerEffect, ReserveInv, Unfinished, TaskMoves, OtherTasks, InstSame,
     NodeSame, ToldSame, RegSame, SentSame, FirstInv, TaskInv, DownInv, LockInv, PinInv, SeqInv,
     Present, Live, Free, Torn, Keeps, Other, Expect, Plain, Pids
<1>9. MadeInv(d)'
  BY <1>1 DEF AskPeerEffect, MadeInv, Unfinished, Free, TaskMoves, OtherTasks, InstSame, RegSame,
     MadeSame
<1>10. LinkInv(d)'
  BY <1>1 DEF AskPeerEffect, LinkInv, Unfinished, Runs, Present, TaskMoves, OtherTasks, InstSame,
     NodeSame, HeldSame, LinkSame, SentSame
<1>11. SeqInv(d)'
  BY <1>1 DEF AskPeerEffect, SeqInv, TellMoves, InstSame, NodeSame, ToldSame, SentSame
<1>12. PinInv(d)'
  BY <1>1 DEF AskPeerEffect, PinInv, Expect, TaskMoves, OtherTasks, TellMoves, NodeSame, SentSame
<1>13. SlotInv(d)'
  BY <1>1, <1>2 DEF AskPeerEffect, SlotInv, Expect, Reserved, Unfinished, Live, Free, TaskMoves,
     OtherTasks, InstSame, NodeSame, ToldSame, RegSame, PinInv, Plain, Pids
<1> QED BY <1>3, <1>4, <1>5, <1>6, <1>7, <1>8, <1>9, <1>10, <1>11, <1>12, <1>13 DEF EndInv

LEMMA PeerAgreesKeeps ==
  ASSUME NEW d \in Ends, NEW p \in Pids, Types, Types', EndInv(d), PeerAgreesEffect(d, p)
  PROVE  EndInv(d)'
<1>1. /\ LockInv(d) /\ TaskInv(d) /\ DownInv(d) /\ AskInv(d) /\ FirstInv(d) /\ ReserveInv(d)
      /\ MadeInv(d) /\ LinkInv(d) /\ SeqInv(d) /\ PinInv(d) /\ SlotInv(d)
  BY DEF EndInv
<1>2. Plain(d) /\ Plain(d)'
  BY PlainTypes, PlainTypesNext
<1>3. LockInv(d)'
  BY <1>1 DEF PeerAgreesEffect, LockInv, Keeps, Other, TaskMoves, OtherTasks, LockSame, ServeSame,
     TellSame, Runs, Present
<1>4. TaskInv(d)'
  BY <1>1 DEF PeerAgreesEffect, TaskInv, Present, TaskMoves, OtherTasks, InstSame, Runs
<1>5. DownInv(d)'
  BY <1>1 DEF PeerAgreesEffect, DownInv, Live, Free, Torn, TaskMoves, OtherTasks, InstSame,
     LockSame, TellSame, RegSame, DownSame, Runs, Present
<1>6. AskInv(d)'
  BY <1>1 DEF PeerAgreesEffect, AskInv, TaskMoves, OtherTasks, AskSame, Runs, Present
<1>7. FirstInv(d)'
  BY <1>1 DEF PeerAgreesEffect, FirstInv, Unfinished, TaskMoves, OtherTasks, LockSame, HeldSame,
     Runs, Present
<1>8. ReserveInv(d)'
  BY <1>1 DEF PeerAgreesEffect, ReserveInv, Unfinished, TaskMoves, OtherTasks, InstSame, NodeSame,
     ToldSame, RegSame, SentSame, Runs, Present
<1>9. MadeInv(d)'
  <2>1. CASE task[d][p].again
    BY <1>1, <2>1, MadeStays DEF PeerAgreesEffect
  <2>2. CASE ~task[d][p].again
    <3> SUFFICES ASSUME made'[d] PROVE MadeInv(d)'
      BY DEF MadeInv
    <3>1. reg'[d] /\ inst'[d].st = "running" /\ inst'[d].pid = p /\ Free(d)'
      BY <2>2 DEF PeerAgreesEffect, Runs, InstSame, RegSame, Free
    <3>2. task'[d][p].pc = "done" /\ OtherTasks(d, p)
      BY <2>2 DEF PeerAgreesEffect, TaskMoves
    <3>3. d = 1 => Unfinished(d, p)
      BY <2>2 DEF PeerAgreesEffect, Unfinished
    <3>4. \A q \in Pids : ~Unfinished(d, q)'
      BY <1>1, <3>2, <3>3 DEF FirstInv, Unfinished, OtherTasks
    <3> QED BY <3>1, <3>2, <3>4 DEF MadeInv
  <2> QED BY <2>1, <2>2
<1>10. LinkInv(d)'
  BY <1>1, <1>2 DEF PeerAgreesEffect, LinkInv, Unfinished, Runs, Present, TaskMoves, OtherTasks,
     InstSame, LockSame, NodeSame, HeldSame, LinkSame, SentSame, TaskInv, DownInv, Live, Free,
     Torn, Plain
<1>11. SeqInv(d)'
  BY <1>1 DEF PeerAgreesEffect, SeqInv, InstSame, TellSame, NodeSame, ToldSame, SentSame, Runs,
     Present
<1>12. PinInv(d)'
  BY <1>1, <1>2 DEF PeerAgreesEffect, PinInv, Expect, TaskMoves, OtherTasks, LockSame, TellSame,
     NodeSame, SentSame, Runs, Present, SeqInv, LockInv, Keeps, Other, Plain
<1>13. SlotInv(d)'
  <2>1. CASE task[d][p].again
    BY <1>1, <2>1, SlotStays DEF PeerAgreesEffect
  <2>2. CASE ~task[d][p].again
    <3>1. Keeps(d, p) /\ Unfinished(d, p)
      BY <1>1, <2>2 DEF PeerAgreesEffect, Keeps, Unfinished, TaskInv
    <3>2. Expect(d) /\ ~Free(d)
      BY <1>1, <2>2, <3>1 DEF PeerAgreesEffect, LockInv, Keeps, Expect, Free
    <3>3. node[d].pin
      BY <1>1, <3>1 DEF PeerAgreesEffect, ReserveInv
    <3> QED BY <1>1, <1>2, <2>2, <3>2, <3>3 DEF PeerAgreesEffect, SlotInv, Live, Free, InstSame,
            NodeSame, RegSame, Plain
  <2> QED BY <2>1, <2>2
<1> QED BY <1>3, <1>4, <1>5, <1>6, <1>7, <1>8, <1>9, <1>10, <1>11, <1>12, <1>13 DEF EndInv

LEMMA PeerDoesNotKeeps ==
  ASSUME NEW d \in Ends, NEW p \in Pids, Types, Types', EndInv(d), PeerDoesNotEffect(d, p)
  PROVE  EndInv(d)'
<1>1. /\ LockInv(d) /\ TaskInv(d) /\ DownInv(d) /\ AskInv(d) /\ FirstInv(d) /\ ReserveInv(d)
      /\ MadeInv(d) /\ LinkInv(d) /\ SeqInv(d) /\ PinInv(d) /\ SlotInv(d)
  BY DEF EndInv
<1>2. Plain(d) /\ Plain(d)'
  BY PlainTypes, PlainTypesNext
<1>3. LockInv(d)'
  <2>1. CASE task[d][p].again /\ ~Runs(d, p)
    <3>1. /\ LockSame(d) /\ ServeSame(d) /\ TellSame(d) /\ TaskMoves(d, p, "outcome")
          /\ task[d][p].pc = "asking"
      BY <2>1 DEF PeerDoesNotEffect
    <3>2. \A q \in Pids :
            /\ Keeps(d, q)' <=> Keeps(d, q)
            /\ task'[d][q].pc \in {"telling", "reverting"} => task[d][q].pc \in {"telling", "reverting"}
            /\ task'[d][q].pc = "asking" /\ ~task'[d][q].again =>
                 task[d][q].pc = "asking" /\ ~task[d][q].again
      BY <2>1, <3>1 DEF Keeps, TaskMoves, OtherTasks
    <3> QED BY <1>1, <3>1, <3>2 DEF LockInv, LockSame, ServeSame, TellSame
  <2>2. CASE (~task[d][p].again \/ Runs(d, p)) /\ Live(d)
    BY <1>1, <2>2 DEF PeerDoesNotEffect, LockInv, Keeps, TaskMoves, OtherTasks, Sends, ServeSame,
       Free
  <2>3. CASE ~task[d][p].again /\ ~Live(d)
    BY ZenonT(30), <1>1, <2>3 DEF PeerDoesNotEffect, LockInv, Keeps, TaskMoves, OtherTasks,
       ServeSame, TellSame
  <2> QED BY <2>1, <2>2, <2>3 DEF PeerDoesNotEffect
<1>4. TaskInv(d)'
  <2>1. task[d][p].pc = "asking" /\ InstSame(d) /\ (d # 1 => task[d][p].again)
    BY <1>1 DEF PeerDoesNotEffect, TaskInv
  <2>2. \/ task[d][p].again /\ TaskMoves(d, p, "outcome")
        \/ TaskMoves(d, p, "reverting")
        \/ ~task[d][p].again /\ TaskMoves(d, p, "dissolve")
    BY DEF PeerDoesNotEffect
  <2> QED BY <1>1, <2>1, <2>2, TaskStays
<1>5. DownInv(d)'
  BY <1>1 DEF PeerDoesNotEffect, DownInv, Live, Free, Torn, TaskMoves, OtherTasks, Sends,
     InstSame, LockSame, TellSame, RegSame, DownSame, Runs
<1>6. AskInv(d)'
  BY <1>1 DEF PeerDoesNotEffect, AskInv, TaskMoves, OtherTasks, AskSame, Live, Free, Runs
<1>7. FirstInv(d)'
  BY <1>1 DEF PeerDoesNotEffect, FirstInv, Unfinished, TaskMoves, OtherTasks, LockSame, HeldSame,
     Live, Free, Runs
<1>8. ReserveInv(d)'
  BY <1>1 DEF PeerDoesNotEffect, ReserveInv, Unfinished, TaskMoves, OtherTasks, Sends, InstSame,
     NodeSame, ToldSame, RegSame, SentSame, Live, Free, Runs
<1>9. MadeInv(d)'
  <2>1. CASE task[d][p].again /\ ~Runs(d, p)
    BY <1>1, <2>1, MadeStays DEF PeerDoesNotEffect
  <2>2. CASE ~task[d][p].again
    <3>1. d = 1 /\ Unfinished(d, p)
      BY <1>1, <2>2 DEF PeerDoesNotEffect, Unfinished, TaskInv
    <3> QED BY <1>1, <3>1 DEF PeerDoesNotEffect, MadeInv, MadeSame
  <2>3. CASE Runs(d, p)
    BY <1>1, <2>3 DEF PeerDoesNotEffect, MadeInv, MadeSame, Runs
  <2> QED BY <2>1, <2>2, <2>3
<1>10. LinkInv(d)'
  BY <1>1 DEF PeerDoesNotEffect, LinkInv, Unfinished, Runs, Present, TaskMoves, OtherTasks, Sends,
     InstSame, LockSame, NodeSame, HeldSame, LinkSame, SentSame, Live, Free
<1>11. SeqInv(d)'
  BY <1>1, <1>2 DEF PeerDoesNotEffect, SeqInv, Sends, InstSame, TellSame, NodeSame, ToldSame,
     SentSame, Live, Free, Runs, Plain
<1>12. PinInv(d)'
  <2>1. CASE task[d][p].again /\ ~Runs(d, p)
    <3>1. Expect(d)' <=> Expect(d)
      BY <2>1 DEF PeerDoesNotEffect, Expect, TaskMoves, OtherTasks, LockSame
    <3> QED BY <1>1, <2>1, <3>1 DEF PeerDoesNotEffect, PinInv, TellSame, NodeSame, SentSame
  <2>2. CASE (~task[d][p].again \/ Runs(d, p)) /\ Live(d)
    <3>1. ~Expect(d)' /\ Sends(d, FALSE)
      BY <2>2 DEF PeerDoesNotEffect, Expect, TaskMoves
    <3>2. \A u \in updates : u.to = d => u.seq # tell'[d].seq
      BY <1>1, <1>2, <3>1 DEF SeqInv, Sends, Plain
    <3> QED BY <3>1, <3>2 DEF PinInv, Sends
  <2>3. CASE ~task[d][p].again /\ ~Live(d)
    BY <1>1, <2>3 DEF PeerDoesNotEffect, PinInv, LockInv, Keeps, TellSame
  <2> QED BY <2>1, <2>2, <2>3 DEF PeerDoesNotEffect
<1>13. SlotInv(d)'
  <2>1. CASE task[d][p].again /\ ~Runs(d, p)
    BY <1>1, <2>1, SlotStays DEF PeerDoesNotEffect
  <2>2. CASE (~task[d][p].again \/ Runs(d, p)) /\ Live(d)
    <3>1. ~Expect(d)' /\ ~Free(d)' /\ ~reg'[d]
      BY <2>2 DEF PeerDoesNotEffect, Expect, TaskMoves, Free
    <3> QED BY <3>1 DEF SlotInv
  <2>3. CASE ~task[d][p].again /\ ~Live(d)
    BY <2>3 DEF PeerDoesNotEffect, SlotInv, Live, InstSame
  <2> QED BY <2>1, <2>2, <2>3 DEF PeerDoesNotEffect, Runs, Live
<1> QED BY <1>3, <1>4, <1>5, <1>6, <1>7, <1>8, <1>9, <1>10, <1>11, <1>12, <1>13 DEF EndInv

LEMMA RevertedKeeps ==
  ASSUME NEW d \in Ends, NEW p \in Pids, Types, Types', EndInv(d), RevertedEffect(d, p)
  PROVE  EndInv(d)'
<1>1. /\ LockInv(d) /\ TaskInv(d) /\ DownInv(d) /\ AskInv(d) /\ FirstInv(d) /\ ReserveInv(d)
      /\ MadeInv(d) /\ LinkInv(d) /\ SeqInv(d) /\ PinInv(d) /\ SlotInv(d)
  BY DEF EndInv
<1>2. Plain(d) /\ Plain(d)'
  BY PlainTypes, PlainTypesNext
<1>3. LockInv(d)'
  BY <1>1 DEF RevertedEffect, LockInv, Keeps, Other, TaskMoves, OtherTasks, TellMoves, ServeSame
<1>4. TaskInv(d)'
  BY <1>1 DEF RevertedEffect, TaskInv, Present, TaskMoves, OtherTasks, InstSame
<1>5. DownInv(d)'
  BY <1>1 DEF RevertedEffect, DownInv, Live, Free, Torn, TaskMoves, OtherTasks, TellMoves,
     InstSame, RegSame, DownSame
<1>6. AskInv(d)'
  BY <1>1 DEF RevertedEffect, AskInv, TaskMoves, OtherTasks, AskSame
<1>7. FirstInv(d)'
  BY <1>1 DEF RevertedEffect, FirstInv, Unfinished, TaskMoves, OtherTasks, HeldSame
<1>8. ReserveInv(d)'
  BY <1>1 DEF RevertedEffect, ReserveInv, Unfinished, TaskMoves, OtherTasks, InstSame, NodeSame,
     ToldSame, RegSame, SentSame
<1>9. MadeInv(d)'
  BY <1>1 DEF RevertedEffect, MadeInv, Unfinished, Free, TaskMoves, OtherTasks, InstSame, RegSame,
     MadeSame
<1>10. LinkInv(d)'
  BY <1>1 DEF RevertedEffect, LinkInv, Unfinished, Runs, Present, TaskMoves, OtherTasks, InstSame,
     NodeSame, HeldSame, LinkSame, SentSame
<1>11. SeqInv(d)'
  BY <1>1 DEF RevertedEffect, SeqInv, TellMoves, InstSame, NodeSame, ToldSame, SentSame
<1>12. PinInv(d)'
  BY <1>1 DEF RevertedEffect, PinInv, Expect, TaskMoves, OtherTasks, TellMoves, NodeSame, SentSame
<1>13. SlotInv(d)'
  BY <1>1, <1>2 DEF RevertedEffect, SlotInv, Expect, Reserved, Unfinished, Live, Free, TaskMoves,
     OtherTasks, InstSame, NodeSame, ToldSame, RegSame, PinInv, SeqInv, Plain, Pids
<1> QED BY <1>3, <1>4, <1>5, <1>6, <1>7, <1>8, <1>9, <1>10, <1>11, <1>12, <1>13 DEF EndInv

LEMMA DissolveFailedKeeps ==
  ASSUME NEW d \in Ends, NEW p \in Pids, Types, Types', EndInv(d), DissolveFailedEffect(d, p)
  PROVE  EndInv(d)'
<1>1. /\ LockInv(d) /\ TaskInv(d) /\ DownInv(d) /\ AskInv(d) /\ FirstInv(d) /\ ReserveInv(d)
      /\ MadeInv(d) /\ LinkInv(d) /\ SeqInv(d) /\ PinInv(d) /\ SlotInv(d)
  BY DEF EndInv
<1>2. Plain(d) /\ Plain(d)'
  BY PlainTypes, PlainTypesNext
<1>3. LockInv(d)'
  BY <1>1 DEF DissolveFailedEffect, LockInv, Keeps, Other, TaskMoves, OtherTasks, LockSame,
     ServeSame, TellSame, Free
<1>4. TaskInv(d)'
  BY <1>1 DEF DissolveFailedEffect, TaskInv, Present, TaskMoves, OtherTasks, InstSame, Free
<1>5. DownInv(d)'
  BY <1>1 DEF DissolveFailedEffect, DownInv, Live, Free, Torn, TaskMoves, OtherTasks, InstSame,
     LockSame, TellSame, DownSame
<1>6. AskInv(d)'
  BY <1>1 DEF DissolveFailedEffect, AskInv, TaskMoves, OtherTasks, AskSame, Free
<1>7. FirstInv(d)'
  BY <1>1 DEF DissolveFailedEffect, FirstInv, Unfinished, TaskMoves, OtherTasks, LockSame,
     HeldSame, Free
<1>8. ReserveInv(d)'
  BY <1>1 DEF DissolveFailedEffect, ReserveInv, Unfinished, TaskMoves, OtherTasks, InstSame,
     NodeSame, ToldSame, SentSame, Free
<1>9. MadeInv(d)'
  BY <1>1, <1>2 DEF DissolveFailedEffect, MadeInv, Unfinished, Free, TaskMoves, OtherTasks,
     InstSame, LockSame, MadeSame, LockInv, TaskInv, Keeps, Other, Present, Plain, Pids
<1>10. LinkInv(d)'
  BY <1>1 DEF DissolveFailedEffect, LinkInv, Unfinished, Runs, Present, TaskMoves, OtherTasks,
     InstSame, LockSame, NodeSame, HeldSame, LinkSame, SentSame, Free
<1>11. SeqInv(d)'
  BY <1>1 DEF DissolveFailedEffect, SeqInv, InstSame, TellSame, NodeSame, ToldSame, SentSame, Free
<1>12. PinInv(d)'
  BY <1>1 DEF DissolveFailedEffect, PinInv, Expect, TaskMoves, OtherTasks, LockSame, TellSame,
     NodeSame, SentSame, Free
<1>13. SlotInv(d)'
  <2>1. ~reg[d] /\ ~reg'[d]
    BY <1>1 DEF DissolveFailedEffect, ReserveInv, Unfinished, TaskInv
  <2>2. Reserved(d) => Reserved(d)'
    BY ReservedStays DEF DissolveFailedEffect, TaskMoves
  <2> QED BY <1>1, <2>1, <2>2 DEF DissolveFailedEffect, SlotInv, Live, Free, InstSame, LockSame,
          NodeSame, ToldSame
<1> QED BY <1>3, <1>4, <1>5, <1>6, <1>7, <1>8, <1>9, <1>10, <1>11, <1>12, <1>13 DEF EndInv

LEMMA OutcomeKeeps ==
  ASSUME NEW d \in Ends, NEW p \in Pids, Types, Types', EndInv(d), OutcomeEffect(d, p)
  PROVE  EndInv(d)'
<1>1. /\ LockInv(d) /\ TaskInv(d) /\ DownInv(d) /\ AskInv(d) /\ FirstInv(d) /\ ReserveInv(d)
      /\ MadeInv(d) /\ LinkInv(d) /\ SeqInv(d) /\ PinInv(d) /\ SlotInv(d)
  BY DEF EndInv
<1>2. Plain(d) /\ Plain(d)'
  BY PlainTypes, PlainTypesNext
<1>3. LockInv(d)'
  BY <1>1 DEF OutcomeEffect, LockInv, Keeps, Other, TaskMoves, OtherTasks, LockSame, ServeSame,
     TellSame, Free, Runs
<1>4. TaskInv(d)'
  BY <1>1 DEF OutcomeEffect, TaskInv, Present, TaskMoves, OtherTasks, InstSame, Free, Runs
<1>5. DownInv(d)'
  BY <1>1 DEF OutcomeEffect, DownInv, Live, Free, Torn, TaskMoves, OtherTasks, InstSame, LockSame,
     TellSame, RegSame, DownSame, Runs
<1>6. AskInv(d)'
  BY <1>1 DEF OutcomeEffect, AskInv, TaskMoves, OtherTasks, AskSame, Free, Runs
<1>7. FirstInv(d)'
  <2>1. TaskMoves(d, p, "done") /\ task[d][p].again /\ LockSame(d)
    BY <1>1 DEF OutcomeEffect, TaskInv
  <2>2. \A q \in Pids : Unfinished(d, q)' <=> Unfinished(d, q)
    BY <2>1 DEF Unfinished, TaskMoves, OtherTasks
  <2>3. CASE Runs(d, p)
    BY <1>1, <1>2, <2>2, <2>3, NoneUnfinished DEF FirstInv, OutcomeEffect
  <2>4. CASE ~Runs(d, p)
    BY <1>1, <2>1, <2>2, <2>4 DEF FirstInv, OutcomeEffect, HeldSame, LockSame, TaskMoves, OtherTasks
  <2> QED BY <2>3, <2>4
<1>8. ReserveInv(d)'
  BY <1>1 DEF OutcomeEffect, ReserveInv, Unfinished, TaskMoves, OtherTasks, InstSame, NodeSame,
     ToldSame, RegSame, SentSame, Free, Runs
<1>9. MadeInv(d)'
  <2>1. CASE ~Runs(d, p)
    BY <1>1, <2>1, MadeStays DEF OutcomeEffect, TaskInv
  <2>2. CASE Runs(d, p)
    <3> SUFFICES ASSUME made'[d] PROVE MadeInv(d)'
      BY DEF MadeInv
    <3>1. reg'[d] /\ inst'[d].st = "running" /\ inst'[d].pid = p /\ Free(d)'
      BY <2>2 DEF OutcomeEffect, Runs, InstSame, RegSame, LockSame, Free
    <3>2. task'[d][p].pc = "done" /\ OtherTasks(d, p) /\ task[d][p].again
      BY <1>1, <2>2 DEF OutcomeEffect, TaskMoves, TaskInv
    <3>3. \A q \in Pids : ~Unfinished(d, q)
      BY <1>1, <1>2, <2>2, NoneUnfinished DEF OutcomeEffect
    <3>4. \A q \in Pids : ~Unfinished(d, q)'
      BY <3>2, <3>3 DEF Unfinished, OtherTasks
    <3> QED BY <3>1, <3>2, <3>4 DEF MadeInv
  <2> QED BY <2>1, <2>2
<1>10. LinkInv(d)'
  BY SMTT(20), <1>1, <1>2 DEF OutcomeEffect, LinkInv, Unfinished, Runs, Present, TaskMoves,
     OtherTasks, InstSame, LockSame, NodeSame, HeldSame, LinkSame, SentSame, Free, TaskInv, Plain
<1>11. SeqInv(d)'
  BY <1>1 DEF OutcomeEffect, SeqInv, InstSame, TellSame, NodeSame, ToldSame, SentSame, Free, Runs
<1>12. PinInv(d)'
  BY <1>1 DEF OutcomeEffect, PinInv, Expect, TaskMoves, OtherTasks, LockSame, TellSame, NodeSame,
     SentSame, Free, Runs
<1>13. SlotInv(d)'
  BY <1>1 DEF OutcomeEffect, SlotInv, Expect, Reserved, Unfinished, Live, Free, TaskMoves,
     OtherTasks, InstSame, LockSame, NodeSame, ToldSame, RegSame, Runs
<1> QED BY <1>3, <1>4, <1>5, <1>6, <1>7, <1>8, <1>9, <1>10, <1>11, <1>12, <1>13 DEF EndInv

LEMMA StartAgainKeeps ==
  ASSUME NEW d \in Ends, Types, Types', EndInv(d), StartAgainEffect(d)
  PROVE  EndInv(d)'
<1>1. /\ LockInv(d) /\ TaskInv(d) /\ DownInv(d) /\ AskInv(d) /\ FirstInv(d) /\ ReserveInv(d)
      /\ MadeInv(d) /\ LinkInv(d) /\ SeqInv(d) /\ PinInv(d) /\ SlotInv(d)
  BY DEF EndInv
<1>2. Plain(d) /\ Plain(d)'
  BY PlainTypes, PlainTypesNext
<1>3. LockInv(d)'
  <2>1. inst[d].pid + 1 \in Pids /\ inst[d].pid + 1 > inst[d].pid
    BY <1>2 DEF StartAgainEffect, Starts, Plain
  <2>2. task[d][inst[d].pid + 1].pc = "none"
    BY <1>1, <2>1 DEF TaskInv
  <2>3. task'[d][inst[d].pid + 1].pc \in {"reserve", "boot"} /\ OtherTasks(d, inst[d].pid + 1)
    BY DEF StartAgainEffect, Starts
  <2> QED BY <1>1, <2>1, <2>2, <2>3, KeeperStays DEF StartAgainEffect
<1>4. TaskInv(d)'
  BY <1>1, <1>2 DEF StartAgainEffect, TaskInv, Present, Starts, OtherTasks, Plain, Pids
<1>5. DownInv(d)'
  BY <1>1 DEF StartAgainEffect, DownInv, Live, Free, Torn, Starts, OtherTasks, LockSame, TellSame,
     RegSame, DownSame
<1>6. AskInv(d)'
  BY <1>1 DEF StartAgainEffect, AskInv, Starts, OtherTasks, AskSame
<1>7. FirstInv(d)'
  BY <1>1 DEF StartAgainEffect, FirstInv, Unfinished, Starts, OtherTasks, LockSame, HeldSame
<1>8. ReserveInv(d)'
  BY <1>1, <1>2 DEF StartAgainEffect, ReserveInv, Unfinished, Starts, OtherTasks, RegSame,
     FirstInv, TaskInv, DownInv, LockInv, Present, Live, Free, Torn, Keeps, Other, Plain, Pids
<1>9. MadeInv(d)'
  BY <1>1 DEF StartAgainEffect, MadeInv, Unfinished, Free, Starts, OtherTasks, LockSame, RegSame
<1>10. LinkInv(d)'
  BY <1>1 DEF StartAgainEffect, LinkInv, Unfinished, Runs, Present, Starts, OtherTasks, LockSame,
     HeldSame, LinkSame
<1>11. SeqInv(d)'
  BY <1>1, <1>2 DEF StartAgainEffect, SeqInv, Starts, OtherTasks, TellSame, DownInv, LockInv,
     Live, Free, Torn, Keeps, Other, Plain
<1>12. PinInv(d)'
  BY <1>1, <1>2 DEF StartAgainEffect, PinInv, Expect, Starts, OtherTasks, LockSame, TellSame,
     SeqInv, LockInv, DownInv, Keeps, Other, Live, Free, Torn, Plain
<1>13. SlotInv(d)'
  BY <1>1, <1>2 DEF StartAgainEffect, SlotInv, Expect, Reserved, Unfinished, Live, Free, Starts,
     OtherTasks, LockSame, RegSame, PinInv, SeqInv, LockInv, DownInv, Keeps, Other, Torn, Plain,
     Pids
<1> QED BY <1>3, <1>4, <1>5, <1>6, <1>7, <1>8, <1>9, <1>10, <1>11, <1>12, <1>13 DEF EndInv

LEMMA StartFirstKeeps ==
  ASSUME NEW d \in Ends, Types, Types', EndInv(d), StartFirstEffect(d)
  PROVE  EndInv(d)'
<1>1. /\ LockInv(d) /\ TaskInv(d) /\ DownInv(d) /\ AskInv(d) /\ FirstInv(d) /\ ReserveInv(d)
      /\ MadeInv(d) /\ LinkInv(d) /\ SeqInv(d) /\ PinInv(d) /\ SlotInv(d)
  BY DEF EndInv
<1>2. Plain(d) /\ Plain(d)'
  BY PlainTypes, PlainTypesNext
<1>3. LockInv(d)'
  <2>1. inst[d].pid + 1 \in Pids /\ inst[d].pid + 1 > inst[d].pid
    BY <1>2 DEF StartFirstEffect, Starts, Plain
  <2>2. task[d][inst[d].pid + 1].pc = "none"
    BY <1>1, <2>1 DEF TaskInv
  <2>3. task'[d][inst[d].pid + 1].pc \in {"reserve", "boot"} /\ OtherTasks(d, inst[d].pid + 1)
    BY DEF StartFirstEffect, Starts
  <2> QED BY <1>1, <2>1, <2>2, <2>3, KeeperStays DEF StartFirstEffect
<1>4. TaskInv(d)'
  BY <1>1, <1>2 DEF StartFirstEffect, TaskInv, Present, Starts, OtherTasks, Torn, Plain, Pids
<1>5. DownInv(d)'
  BY <1>1 DEF StartFirstEffect, DownInv, Live, Free, Torn, Starts, OtherTasks, LockSame, TellSame,
     RegSame, DownSame
<1>6. AskInv(d)'
  BY <1>1 DEF StartFirstEffect, AskInv, Starts, OtherTasks, AskSame, Torn
<1>7. FirstInv(d)'
  BY <1>1, <1>2 DEF StartFirstEffect, FirstInv, Unfinished, Starts, OtherTasks, LockSame, Torn,
     TaskInv, DownInv, Present, Live, Free, Plain, Pids
<1>8. ReserveInv(d)'
  BY <1>1, <1>2 DEF StartFirstEffect, ReserveInv, Unfinished, Starts, OtherTasks, RegSame, Torn,
     FirstInv, TaskInv, DownInv, Present, Live, Free, Plain, Pids
<1>9. MadeInv(d)'
  BY <1>1 DEF StartFirstEffect, MadeInv, Unfinished, Free, Starts, OtherTasks, LockSame, RegSame,
     Torn
<1>10. LinkInv(d)'
  BY <1>1, <1>2 DEF StartFirstEffect, LinkInv, Unfinished, Runs, Present, Starts, OtherTasks,
     LockSame, Torn, TaskInv, DownInv, Live, Free, Plain
<1>11. SeqInv(d)'
  BY <1>1, <1>2 DEF StartFirstEffect, SeqInv, Starts, OtherTasks, TellSame, Torn, DownInv,
     LockInv, Live, Free, Keeps, Other, Plain
<1>12. PinInv(d)'
  BY <1>1, <1>2 DEF StartFirstEffect, PinInv, Expect, Starts, OtherTasks, LockSame, TellSame,
     Torn, SeqInv, LockInv, DownInv, Keeps, Other, Live, Free, Plain
<1>13. SlotInv(d)'
  BY <1>1, <1>2 DEF StartFirstEffect, SlotInv, Expect, Reserved, Unfinished, Live, Free, Starts,
     OtherTasks, LockSame, RegSame, Torn, PinInv, SeqInv, LockInv, DownInv, Keeps, Other, Plain,
     Pids
<1> QED BY <1>3, <1>4, <1>5, <1>6, <1>7, <1>8, <1>9, <1>10, <1>11, <1>12, <1>13 DEF EndInv

LEMMA CommitRunningKeeps ==
  ASSUME NEW d \in Ends, Types, Types', EndInv(d), CommitRunningEffect(d)
  PROVE  EndInv(d)'
<1>1. /\ LockInv(d) /\ TaskInv(d) /\ DownInv(d) /\ AskInv(d) /\ FirstInv(d) /\ ReserveInv(d)
      /\ MadeInv(d) /\ LinkInv(d) /\ SeqInv(d) /\ PinInv(d) /\ SlotInv(d)
  BY DEF EndInv
<1>2. Plain(d) /\ Plain(d)'
  BY PlainTypes, PlainTypesNext
<1>3. LockInv(d)'
  <2>1. inst[d].pid \in Pids
    BY <1>1 DEF TaskInv, Present, CommitRunningEffect
  <2>2. task'[d][inst[d].pid].pc \in {"again", "deliver", "done"} /\ OtherTasks(d, inst[d].pid)
    BY DEF CommitRunningEffect, TaskMoves
  <2> QED BY <1>1, <2>1, <2>2, KeeperStays DEF CommitRunningEffect
<1>4. TaskInv(d)'
  BY <1>1 DEF CommitRunningEffect, TaskInv, Present, TaskMoves, OtherTasks, InstMoves
<1>5. DownInv(d)'
  BY <1>1 DEF CommitRunningEffect, DownInv, Live, Free, Torn, TaskMoves, OtherTasks, InstMoves,
     LockSame, TellSame, RegSame, DownSame
<1>6. AskInv(d)'
  BY <1>1 DEF CommitRunningEffect, AskInv, TaskMoves, OtherTasks, AskSame
<1>7. FirstInv(d)'
  <2> DEFINE p == inst[d].pid
  <2>1. /\ p \in Pids /\ OtherTasks(d, p) /\ LockSame(d) /\ HeldSame(d)
        /\ task'[d][p].again = task[d][p].again
    BY <1>1 DEF TaskInv, Present, CommitRunningEffect, TaskMoves
  <2>2. \A q \in Pids : Unfinished(d, q)' => Unfinished(d, q)
    BY <2>1 DEF Unfinished, CommitRunningEffect, OtherTasks
  <2>3. ASSUME NEW q \in Pids, Unfinished(d, q), p > q
        PROVE  task'[d][p].pc \in {"again", "done"}
    <3>1. ~Unfinished(d, p)
      BY <1>1, <2>1, <2>3 DEF FirstInv, Pids
    <3>2. d = 1 => task[d][p].again
      BY <3>1 DEF Unfinished, CommitRunningEffect
    <3> QED BY <1>1, <2>1, <3>2 DEF CommitRunningEffect, TaskMoves, TaskInv
  <2>4. ASSUME NEW q \in Pids, Unfinished(d, q), NEW r \in Pids, r > q
        PROVE  task'[d][r].pc \in {"none", "boot", "again", "done"}
    BY <1>1, <2>1, <2>3, <2>4 DEF FirstInv, OtherTasks
  <2> QED BY <1>1, <2>1, <2>2, <2>4 DEF FirstInv, LockSame, HeldSame
<1>8. ReserveInv(d)'
  BY <1>1 DEF CommitRunningEffect, ReserveInv, Unfinished, TaskMoves, OtherTasks, InstMoves,
     NodeSame, ToldSame, RegSame, SentSame
<1>9. MadeInv(d)'
  BY <1>1 DEF CommitRunningEffect, MadeInv, Unfinished, Free, TaskMoves, OtherTasks, InstMoves,
     LockSame, RegSame, MadeSame
<1>10. LinkInv(d)'
  BY <1>1 DEF CommitRunningEffect, LinkInv, Unfinished, Runs, Present, TaskMoves, OtherTasks,
     InstMoves, LockSame, NodeSame, HeldSame, LinkSame, SentSame
<1>11. SeqInv(d)'
  BY <1>1 DEF CommitRunningEffect, SeqInv, InstMoves, TellSame, NodeSame, ToldSame, SentSame
<1>12. PinInv(d)'
  BY <1>1 DEF CommitRunningEffect, PinInv, Expect, TaskMoves, OtherTasks, LockSame, TellSame,
     NodeSame, SentSame
<1>13. SlotInv(d)'
  <2> DEFINE p == inst[d].pid
  <2>1. /\ p \in Pids /\ OtherTasks(d, p) /\ task'[d][p].again = task[d][p].again
        /\ inst'[d].pid = p /\ (task[d][p].again <=> inst[d].again)
    BY <1>1 DEF TaskInv, Present, CommitRunningEffect, TaskMoves, InstMoves
  <2>2. Reserved(d) => Reserved(d)'
    BY <2>1 DEF Reserved, Unfinished, CommitRunningEffect, TaskMoves
  <2>3. Expect(d)' <=> Expect(d)
    BY <2>1 DEF Expect, CommitRunningEffect, TaskMoves, OtherTasks, LockSame
  <2>4. /\ Live(d) /\ Live(d)' /\ (Free(d)' <=> Free(d)) /\ reg'[d] = reg[d]
        /\ node'[d] = node[d] /\ told'[d] = told[d]
    BY DEF CommitRunningEffect, Live, InstMoves, Free, LockSame, RegSame, NodeSame, ToldSame
  <2> QED BY <1>1, <2>2, <2>3, <2>4 DEF SlotInv
<1> QED BY <1>3, <1>4, <1>5, <1>6, <1>7, <1>8, <1>9, <1>10, <1>11, <1>12, <1>13 DEF EndInv

LEMMA ReserveKeeps ==
  ASSUME NEW p \in Pids, 1 \in Ends, Types, Types', EndInv(1), ReserveEffect(p)
  PROVE  EndInv(1)'
<1>1. /\ LockInv(1) /\ TaskInv(1) /\ DownInv(1) /\ AskInv(1) /\ FirstInv(1) /\ ReserveInv(1)
      /\ MadeInv(1) /\ LinkInv(1) /\ SeqInv(1) /\ PinInv(1) /\ SlotInv(1)
  BY DEF EndInv
<1>2. Plain(1) /\ Plain(1)'
  BY PlainTypes, PlainTypesNext
<1>3. LockInv(1)'
  BY <1>1 DEF ReserveEffect, LockInv, Keeps, Other, TaskMoves, OtherTasks, LockSame, ServeSame,
     TellSame, Free
<1>4. TaskInv(1)'
  BY <1>1 DEF ReserveEffect, TaskInv, Present, TaskMoves, OtherTasks, InstMoves, InstSame, Free
<1>5. DownInv(1)'
  BY <1>1 DEF ReserveEffect, DownInv, Live, Free, Torn, TaskMoves, OtherTasks, InstMoves,
     InstSame, LockSame, TellSame, DownSame
<1>6. AskInv(1)'
  BY <1>1 DEF ReserveEffect, AskInv, TaskMoves, OtherTasks, AskSame, Free
<1>7. FirstInv(1)'
  BY <1>1 DEF ReserveEffect, FirstInv, Unfinished, TaskMoves, OtherTasks, LockSame, HeldSame, Free
<1>8. ReserveInv(1)'
  BY <1>1, <1>2 DEF ReserveEffect, ReserveInv, Unfinished, TaskMoves, OtherTasks, InstMoves,
     InstSame, NodeSame, ToldSame, SentSame, Free, FirstInv, TaskInv, Present, Plain, Pids
<1>9. MadeInv(1)'
  BY <1>1 DEF ReserveEffect, MadeInv, Unfinished, Free, TaskMoves, OtherTasks, InstMoves,
     InstSame, LockSame, MadeSame
<1>10. LinkInv(1)'
  BY <1>1 DEF ReserveEffect, LinkInv, Unfinished, Runs, Present, TaskMoves, OtherTasks, InstMoves,
     InstSame, LockSame, NodeSame, HeldSame, LinkSame, SentSame, Free
<1>11. SeqInv(1)'
  BY <1>1 DEF ReserveEffect, SeqInv, InstMoves, InstSame, TellSame, NodeSame, ToldSame, SentSame,
     Free
<1>12. PinInv(1)'
  BY <1>1 DEF ReserveEffect, PinInv, Expect, TaskMoves, OtherTasks, LockSame, TellSame, NodeSame,
     SentSame, Free
<1>13. SlotInv(1)'
  BY <1>1, <1>2 DEF ReserveEffect, SlotInv, Expect, Reserved, Unfinished, Live, Free, TaskMoves,
     OtherTasks, InstMoves, InstSame, LockSame, NodeSame, ToldSame, PinInv, SeqInv, LockInv,
     DownInv, TaskInv, Keeps, Other, Torn, Present, Plain, Pids
<1> QED BY <1>3, <1>4, <1>5, <1>6, <1>7, <1>8, <1>9, <1>10, <1>11, <1>12, <1>13 DEF EndInv

LEMMA TellFailsKeeps ==
  ASSUME NEW d \in Ends, Types, Types', EndInv(d), TellFailsEffect(d)
  PROVE  EndInv(d)'
<1>1. /\ LockInv(d) /\ TaskInv(d) /\ DownInv(d) /\ AskInv(d) /\ FirstInv(d) /\ ReserveInv(d)
      /\ MadeInv(d) /\ LinkInv(d) /\ SeqInv(d) /\ PinInv(d) /\ SlotInv(d)
  BY DEF EndInv
<1>2. Plain(d) /\ Plain(d)'
  BY PlainTypes, PlainTypesNext
<1>3. LockInv(d)'
  BY <1>1 DEF TellFailsEffect, LockInv, Keeps, Other, TellMoves, LockSame, ServeSame, TaskSame
<1>4. TaskInv(d)'
  BY <1>1 DEF TellFailsEffect, TaskInv, Present, InstSame, TaskSame
<1>5. DownInv(d)'
  BY <1>1 DEF TellFailsEffect, DownInv, Live, Free, Torn, TellMoves, InstSame, LockSame, TaskSame,
     RegSame, DownSame
<1>6. AskInv(d)'
  BY <1>1 DEF TellFailsEffect, AskInv, TaskSame, AskSame
<1>7. FirstInv(d)'
  BY <1>1 DEF TellFailsEffect, FirstInv, Unfinished, LockSame, TaskSame, HeldSame
<1>8. ReserveInv(d)'
  BY <1>1, <1>2 DEF TellFailsEffect, ReserveInv, Unfinished, InstSame, TaskSame, NodeSame,
     RegSame, FirstInv, TaskInv, DownInv, LockInv, Present, Live, Free, Torn, Keeps, Other, Plain,
     Pids
<1>9. MadeInv(d)'
  BY <1>1 DEF TellFailsEffect, MadeInv, Unfinished, Free, InstSame, LockSame, TaskSame, RegSame,
     MadeSame
<1>10. LinkInv(d)'
  BY <1>1 DEF TellFailsEffect, LinkInv, Unfinished, Runs, Present, InstSame, LockSame, TaskSame,
     NodeSame, HeldSame, LinkSame
<1>11. SeqInv(d)'
  BY <1>1, <1>2 DEF TellFailsEffect, SeqInv, TellMoves, InstSame, NodeSame, DownInv, LockInv,
     Live, Free, Torn, Keeps, Other, Plain
<1>12. PinInv(d)'
  BY <1>1 DEF TellFailsEffect, PinInv, Expect, TellMoves, LockSame, TaskSame, NodeSame
<1>13. SlotInv(d)'
  BY <1>1, <1>2 DEF TellFailsEffect, SlotInv, Expect, Reserved, Unfinished, Live, Free, InstSame,
     LockSame, TaskSame, NodeSame, RegSame, PinInv, SeqInv, Plain, Pids
<1> QED BY <1>3, <1>4, <1>5, <1>6, <1>7, <1>8, <1>9, <1>10, <1>11, <1>12, <1>13 DEF EndInv

LEMMA CommitEndsKeeps ==
  ASSUME NEW d \in Ends, Types, Types', EndInv(d), CommitEndsEffect(d)
  PROVE  EndInv(d)'
<1>1. /\ LockInv(d) /\ TaskInv(d) /\ DownInv(d) /\ AskInv(d) /\ FirstInv(d) /\ ReserveInv(d)
      /\ MadeInv(d) /\ LinkInv(d) /\ SeqInv(d) /\ PinInv(d) /\ SlotInv(d)
  BY DEF EndInv
<1>2. Plain(d) /\ Plain(d)'
  BY PlainTypes, PlainTypesNext
<1>3. LockInv(d)'
  BY <1>1 DEF CommitEndsEffect, LockInv, Keeps, Other, TellMoves, TaskSame, Present
<1>4. TaskInv(d)'
  BY <1>1 DEF CommitEndsEffect, TaskInv, Present, InstSame, TaskSame
<1>5. DownInv(d)'
  BY <1>1 DEF CommitEndsEffect, DownInv, Live, Free, Torn, TellMoves, InstSame, TaskSame, RegSame,
     DownSame, Present
<1>6. AskInv(d)'
  BY <1>1 DEF CommitEndsEffect, AskInv, TaskSame, AskSame, Present
<1>7. FirstInv(d)'
  BY <1>1 DEF CommitEndsEffect, FirstInv, Unfinished, TaskSame, HeldSame, Present
<1>8. ReserveInv(d)'
  BY <1>1 DEF CommitEndsEffect, ReserveInv, Unfinished, InstSame, TaskSame, NodeSame, ToldSame,
     RegSame, SentSame, Present
<1>9. MadeInv(d)'
  BY <1>1 DEF CommitEndsEffect, MadeInv, Unfinished, Free, InstSame, TaskSame, RegSame, MadeSame,
     Present
<1>10. LinkInv(d)'
  BY <1>1 DEF CommitEndsEffect, LinkInv, Unfinished, Runs, Present, InstSame, TaskSame, NodeSame,
     HeldSame, LinkSame, SentSame
<1>11. SeqInv(d)'
  BY <1>1 DEF CommitEndsEffect, SeqInv, TellMoves, InstSame, NodeSame, ToldSame, SentSame, Present
<1>12. PinInv(d)'
  BY <1>1 DEF CommitEndsEffect, PinInv, Expect, TellMoves, TaskSame, NodeSame, SentSame, Present
<1>13. SlotInv(d)'
  BY <1>1, <1>2 DEF CommitEndsEffect, SlotInv, Expect, Reserved, Unfinished, Live, Free, InstSame,
     TaskSame, NodeSame, ToldSame, RegSame, Present, PinInv, SeqInv, Plain, Pids
<1> QED BY <1>3, <1>4, <1>5, <1>6, <1>7, <1>8, <1>9, <1>10, <1>11, <1>12, <1>13 DEF EndInv

LEMMA EndToldKeeps ==
  ASSUME NEW d \in Ends, Types, Types', EndInv(d), EndToldEffect(d)
  PROVE  EndInv(d)'
<1>1. /\ LockInv(d) /\ TaskInv(d) /\ DownInv(d) /\ AskInv(d) /\ FirstInv(d) /\ ReserveInv(d)
      /\ MadeInv(d) /\ LinkInv(d) /\ SeqInv(d) /\ PinInv(d) /\ SlotInv(d)
  BY DEF EndInv
<1>2. Plain(d) /\ Plain(d)'
  BY PlainTypes, PlainTypesNext
<1>3. LockInv(d)'
  BY <1>1 DEF EndToldEffect, LockInv, Keeps, Other, TellMoves, TaskSame
<1>4. TaskInv(d)'
  BY <1>1 DEF EndToldEffect, TaskInv, Present, InstSame, TaskSame
<1>5. DownInv(d)'
  BY <1>1 DEF EndToldEffect, DownInv, Live, Free, Torn, TellMoves, InstSame, TaskSame, RegSame,
     DownSame
<1>6. AskInv(d)'
  BY <1>1 DEF EndToldEffect, AskInv, TaskSame, AskSame
<1>7. FirstInv(d)'
  BY <1>1 DEF EndToldEffect, FirstInv, Unfinished, TaskSame, HeldSame
<1>8. ReserveInv(d)'
  BY <1>1 DEF EndToldEffect, ReserveInv, Unfinished, InstSame, TaskSame, NodeSame, ToldSame,
     RegSame, SentSame
<1>9. MadeInv(d)'
  BY <1>1 DEF EndToldEffect, MadeInv, Unfinished, Free, InstSame, TaskSame, RegSame, MadeSame
<1>10. LinkInv(d)'
  BY <1>1 DEF EndToldEffect, LinkInv, Unfinished, Runs, Present, InstSame, TaskSame, NodeSame,
     HeldSame, LinkSame, SentSame
<1>11. SeqInv(d)'
  BY <1>1 DEF EndToldEffect, SeqInv, TellMoves, InstSame, NodeSame, ToldSame, SentSame
<1>12. PinInv(d)'
  BY <1>1 DEF EndToldEffect, PinInv, Expect, TellMoves, TaskSame, NodeSame, SentSame
<1>13. SlotInv(d)'
  BY <1>1, <1>2 DEF EndToldEffect, SlotInv, Expect, Reserved, Unfinished, Live, Free, InstSame,
     TaskSame, NodeSame, ToldSame, RegSame, PinInv, SeqInv, Plain, Pids
<1> QED BY <1>3, <1>4, <1>5, <1>6, <1>7, <1>8, <1>9, <1>10, <1>11, <1>12, <1>13 DEF EndInv

LEMMA NodeTakesKeeps ==
  ASSUME NEW d \in Ends, NEW u \in updates, u.to = d, Types, Types', EndInv(d), NodeTakesEffect(d, u)
  PROVE  EndInv(d)'
<1>1. /\ LockInv(d) /\ TaskInv(d) /\ DownInv(d) /\ AskInv(d) /\ FirstInv(d) /\ ReserveInv(d)
      /\ MadeInv(d) /\ LinkInv(d) /\ SeqInv(d) /\ PinInv(d) /\ SlotInv(d)
  BY DEF EndInv
<1>2. Plain(d) /\ Plain(d)'
  BY PlainTypes, PlainTypesNext
<1>3. LockInv(d)'
  BY <1>1 DEF NodeTakesEffect, LockInv, Keeps, Other, TellMoves, LockSame, ServeSame, TaskSame,
     TellSame, ApplySlotUpdate, Live
<1>4. TaskInv(d)'
  BY <1>1 DEF NodeTakesEffect, TaskInv, Present, InstSame, TaskSame, ApplySlotUpdate, Live
<1>5. DownInv(d)'
  BY <1>1 DEF NodeTakesEffect, DownInv, Live, Free, Torn, TellMoves, InstSame, LockSame, TaskSame,
     TellSame, RegSame, DownSame, ApplySlotUpdate
<1>6. AskInv(d)'
  BY <1>1 DEF NodeTakesEffect, AskInv, TaskSame, AskSame, ApplySlotUpdate, Live
<1>7. FirstInv(d)'
  BY <1>1 DEF NodeTakesEffect, FirstInv, Unfinished, LockSame, TaskSame, HeldSame,
     ApplySlotUpdate, Live
<1>8. ReserveInv(d)'
  BY SMTT(20), <1>1, <1>2 DEF NodeTakesEffect, ReserveInv, Unfinished, InstSame, TaskSame, ToldSame,
     RegSame, ApplySlotUpdate, Live, FirstInv, TaskInv, DownInv, LockInv, PinInv, SeqInv, Present,
     Free, Torn, Keeps, Other, Expect, Plain, Pids
<1>9. MadeInv(d)'
  BY ZenonT(30), <1>1 DEF NodeTakesEffect, MadeInv, Unfinished, Free, InstSame, LockSame, TaskSame,
     RegSame, MadeSame, ApplySlotUpdate, Live
<1>10. LinkInv(d)'
  BY <1>1 DEF NodeTakesEffect, LinkInv, Unfinished, Runs, Present, InstSame, LockSame, TaskSame,
     HeldSame, LinkSame, ApplySlotUpdate, Live
<1>11. SeqInv(d)'
  BY <1>1, <1>2 DEF NodeTakesEffect, SeqInv, TellMoves, InstSame, TellSame, ToldSame,
     ApplySlotUpdate, Live, Plain
<1>12. PinInv(d)'
  BY <1>1, <1>2 DEF NodeTakesEffect, PinInv, Expect, TellMoves, LockSame, TaskSame, TellSame,
     ApplySlotUpdate, Live, SeqInv, Plain
<1>13. SlotInv(d)'
  BY <1>1, <1>2 DEF NodeTakesEffect, SlotInv, Expect, Reserved, Unfinished, Live, Free, InstSame,
     LockSame, TaskSame, ToldSame, RegSame, ApplySlotUpdate, SeqInv, LockInv, Keeps, Other, Plain
<1> QED BY <1>3, <1>4, <1>5, <1>6, <1>7, <1>8, <1>9, <1>10, <1>11, <1>12, <1>13 DEF EndInv

LEMMA CommitFromPeerKeeps ==
  ASSUME NEW d \in Ends, NEW c \in commits, Types, Types', EndInv(d), CommitFromPeerEffect(d, c)
  PROVE  EndInv(d)'
<1>1. /\ LockInv(d) /\ TaskInv(d) /\ DownInv(d) /\ AskInv(d) /\ FirstInv(d) /\ ReserveInv(d)
      /\ MadeInv(d) /\ LinkInv(d) /\ SeqInv(d) /\ PinInv(d) /\ SlotInv(d)
  BY DEF EndInv
<1>2. Plain(d) /\ Plain(d)'
  BY PlainTypes, PlainTypesNext
<1>3. LockInv(d)'
  BY <1>1 DEF CommitFromPeerEffect, LockInv, Keeps, Other, Sends, LockSame, ServeSame, TaskSame,
     TellSame, CommitAnswer, Live, Free
<1>4. TaskInv(d)'
  BY SMTT(20), <1>1, <1>2 DEF CommitFromPeerEffect, TaskInv, Present, LockInv, Keeps, Other, Sends,
     InstSame, LockSame, ServeSame, TaskSame, TellSame, NodeSame, ToldSame, RegSame, HeldSame,
     LinkSame, MadeSame, SentSame, DownSame, AskSame, CommitAnswer, Live, Free, Plain, Pids
<1>5. DownInv(d)'
  BY <1>1 DEF CommitFromPeerEffect, DownInv, Live, Free, Torn, Sends, InstSame, LockSame,
     TaskSame, TellSame, RegSame, DownSame, CommitAnswer
<1>6. AskInv(d)'
  BY <1>1 DEF CommitFromPeerEffect, AskInv, TaskSame, AskSame, CommitAnswer, Live, Free
<1>7. FirstInv(d)'
  BY <1>1 DEF CommitFromPeerEffect, FirstInv, Unfinished, LockSame, TaskSame, HeldSame,
     CommitAnswer, Live, Free
<1>8. ReserveInv(d)'
  BY <1>1, <1>2 DEF CommitFromPeerEffect, ReserveInv, Unfinished, Sends, InstSame, TaskSame,
     NodeSame, ToldSame, RegSame, SentSame, CommitAnswer, Live, Free, FirstInv, Plain, Pids
<1>9. MadeInv(d)'
  BY <1>1 DEF CommitFromPeerEffect, MadeInv, Unfinished, Free, InstSame, LockSame, TaskSame,
     RegSame, MadeSame, CommitAnswer, Live
<1>10. LinkInv(d)'
  BY <1>1 DEF CommitFromPeerEffect, LinkInv, Unfinished, Runs, Present, Sends, InstSame, LockSame,
     TaskSame, NodeSame, HeldSame, LinkSame, SentSame, CommitAnswer, Live, Free
<1>11. SeqInv(d)'
  BY <1>1, <1>2 DEF CommitFromPeerEffect, SeqInv, Sends, InstSame, TellSame, NodeSame, ToldSame,
     SentSame, CommitAnswer, Live, Free, Plain
<1>12. PinInv(d)'
  BY <1>1, <1>2 DEF CommitFromPeerEffect, PinInv, Expect, Sends, LockSame, TaskSame, TellSame,
     NodeSame, SentSame, CommitAnswer, Live, Free, SeqInv, LockInv, Keeps, Other, Plain
<1>13. SlotInv(d)'
  <2>1. CASE CommitAnswer(d, c) # "none"
    BY <1>1, <2>1 DEF CommitFromPeerEffect, SlotInv, Expect, Reserved, Unfinished, Live, Free,
       TaskSame, InstSame, LockSame, NodeSame, ToldSame, RegSame
  <2>2. CASE CommitAnswer(d, c) = "none"
    <3>1. Expect(d)' /\ ~Free(d)' /\ reg'[d]
      BY <1>1, <2>2 DEF CommitFromPeerEffect, LockInv, Keeps, Expect, TaskSame, Free
    <3> QED BY <3>1 DEF SlotInv
  <2> QED BY <2>1, <2>2
<1> QED BY <1>3, <1>4, <1>5, <1>6, <1>7, <1>8, <1>9, <1>10, <1>11, <1>12, <1>13 DEF EndInv

LEMMA EndArrivesKeeps ==
  ASSUME NEW d \in Ends, NEW e \in ends, Types, Types', EndInv(d), EndArrivesEffect(d, e)
  PROVE  EndInv(d)'
<1>1. /\ LockInv(d) /\ TaskInv(d) /\ DownInv(d) /\ AskInv(d) /\ FirstInv(d) /\ ReserveInv(d)
      /\ MadeInv(d) /\ LinkInv(d) /\ SeqInv(d) /\ PinInv(d) /\ SlotInv(d)
  BY DEF EndInv
<1>2. Plain(d) /\ Plain(d)'
  BY PlainTypes, PlainTypesNext
<1>3. LockInv(d)'
  BY <1>1 DEF EndArrivesEffect, LockInv, Keeps, Other, Sends, LockSame, ServeSame, TaskSame,
     TellSame, Live, Free
<1>4. TaskInv(d)'
  BY SMTT(20), <1>1, <1>2 DEF EndArrivesEffect, TaskInv, Present, LockInv, Keeps, Other, Sends,
     InstSame, LockSame, ServeSame, TaskSame, TellSame, NodeSame, ToldSame, HeldSame, LinkSame,
     SentSame, DownSame, AskSame, Live, Free, Plain, Pids
<1>5. DownInv(d)'
  BY <1>1 DEF EndArrivesEffect, DownInv, Live, Free, Torn, Sends, InstSame, LockSame, TaskSame,
     TellSame, DownSame
<1>6. AskInv(d)'
  BY <1>1 DEF EndArrivesEffect, AskInv, TaskSame, AskSame, Live, Free
<1>7. FirstInv(d)'
  BY <1>1 DEF EndArrivesEffect, FirstInv, Unfinished, LockSame, TaskSame, HeldSame, Live, Free
<1>8. ReserveInv(d)'
  BY <1>1 DEF EndArrivesEffect, ReserveInv, Unfinished, Sends, InstSame, TaskSame, NodeSame,
     ToldSame, SentSame, Live, Free
<1>9. MadeInv(d)'
  BY <1>1 DEF EndArrivesEffect, MadeInv, Unfinished, Free, InstSame, LockSame, TaskSame, Live
<1>10. LinkInv(d)'
  BY <1>1 DEF EndArrivesEffect, LinkInv, Unfinished, Runs, Present, Sends, InstSame, LockSame,
     TaskSame, NodeSame, HeldSame, LinkSame, SentSame, Live, Free
<1>11. SeqInv(d)'
  BY <1>1, <1>2 DEF EndArrivesEffect, SeqInv, Sends, InstSame, TellSame, NodeSame, ToldSame,
     SentSame, Live, Free, Plain
<1>12. PinInv(d)'
  BY <1>1, <1>2 DEF EndArrivesEffect, PinInv, Expect, Sends, LockSame, TaskSame, TellSame,
     NodeSame, SentSame, Live, Free, SeqInv, Plain
<1>13. SlotInv(d)'
  BY <1>1 DEF EndArrivesEffect, SlotInv, Expect, Reserved, Unfinished, Live, Free, InstSame,
     LockSame, TaskSame, NodeSame, ToldSame
<1> QED BY <1>3, <1>4, <1>5, <1>6, <1>7, <1>8, <1>9, <1>10, <1>11, <1>12, <1>13 DEF EndInv

LEMMA ForgetKeeps ==
  ASSUME NEW d \in Ends, NEW e \in forgets, Other(e.from) = d, Types, Types', EndInv(d),
         ForgetEffect(d, e)
  PROVE  EndInv(d)'
<1>1. /\ LockInv(d) /\ TaskInv(d) /\ DownInv(d) /\ AskInv(d) /\ FirstInv(d) /\ ReserveInv(d)
      /\ MadeInv(d) /\ LinkInv(d) /\ SeqInv(d) /\ PinInv(d) /\ SlotInv(d)
  BY DEF EndInv
<1>2. Plain(d) /\ Plain(d)'
  BY PlainTypes, PlainTypesNext
<1>3. LockInv(d)'
  BY <1>1 DEF ForgetEffect, LockInv, Keeps, Other, LockSame, ServeSame, TaskSame, TellSame
<1>4. TaskInv(d)'
  BY <1>1 DEF ForgetEffect, TaskInv, Present, InstSame, TaskSame
<1>5. DownInv(d)'
  BY <1>1 DEF ForgetEffect, DownInv, Live, Free, Torn, InstSame, LockSame, TaskSame, TellSame,
     RegSame, DownSame
<1>6. AskInv(d)'
  BY <1>1 DEF ForgetEffect, AskInv, TaskSame, AskSame
<1>7. FirstInv(d)'
  BY <1>1 DEF ForgetEffect, FirstInv, Unfinished, LockSame, TaskSame
<1>8. ReserveInv(d)'
  BY <1>1 DEF ForgetEffect, ReserveInv, Unfinished, InstSame, TaskSame, NodeSame, ToldSame,
     RegSame, SentSame
<1>9. MadeInv(d)'
  BY <1>1 DEF ForgetEffect, MadeInv, Unfinished, Free, InstSame, LockSame, TaskSame, RegSame,
     MadeSame
<1>10. LinkInv(d)'
  BY <1>1 DEF ForgetEffect, LinkInv, Unfinished, Runs, Present, InstSame, LockSame, TaskSame,
     NodeSame, LinkSame, SentSame
<1>11. SeqInv(d)'
  BY <1>1 DEF ForgetEffect, SeqInv, InstSame, TellSame, NodeSame, ToldSame, SentSame
<1>12. PinInv(d)'
  BY <1>1 DEF ForgetEffect, PinInv, Expect, LockSame, TaskSame, TellSame, NodeSame, SentSame
<1>13. SlotInv(d)'
  BY <1>1 DEF ForgetEffect, SlotInv, Expect, Reserved, Unfinished, Live, Free, InstSame, LockSame,
     TaskSame, NodeSame, ToldSame, RegSame
<1> QED BY <1>3, <1>4, <1>5, <1>6, <1>7, <1>8, <1>9, <1>10, <1>11, <1>12, <1>13 DEF EndInv

LEMMA DissolveKeeps ==
  ASSUME NEW d \in Ends, NEW t \in down, t.from = d, Types, Types', EndInv(d), DissolveEffect(d, t)
  PROVE  EndInv(d)'
<1>1. /\ LockInv(d) /\ TaskInv(d) /\ DownInv(d) /\ AskInv(d) /\ FirstInv(d) /\ ReserveInv(d)
      /\ MadeInv(d) /\ LinkInv(d) /\ SeqInv(d) /\ PinInv(d) /\ SlotInv(d)
  BY DEF EndInv
<1>2. Plain(d) /\ Plain(d)'
  BY PlainTypes, PlainTypesNext
<1>3. LockInv(d)'
  BY <1>1 DEF DissolveEffect, LockInv, Keeps, Other, LockSame, ServeSame, TaskSame, TellSame, Free
<1>4. TaskInv(d)'
  BY <1>1 DEF DissolveEffect, TaskInv, Present, InstSame, TaskSame, Free
<1>5. DownInv(d)'
  BY <1>1 DEF DissolveEffect, DownInv, Live, Free, Torn, InstSame, LockSame, TaskSame, TellSame
<1>6. AskInv(d)'
  BY <1>1 DEF DissolveEffect, AskInv, TaskSame, AskSame, Free
<1>7. FirstInv(d)'
  BY <1>1 DEF DissolveEffect, FirstInv, Unfinished, LockSame, TaskSame, HeldSame, Free
<1>8. ReserveInv(d)'
  BY <1>1 DEF DissolveEffect, ReserveInv, Unfinished, InstSame, TaskSame, NodeSame, ToldSame,
     SentSame, Free
<1>9. MadeInv(d)'
  BY <1>1 DEF DissolveEffect, MadeInv, Unfinished, Free, InstSame, LockSame, TaskSame
<1>10. LinkInv(d)'
  BY <1>1 DEF DissolveEffect, LinkInv, Unfinished, Runs, Present, InstSame, LockSame, TaskSame,
     NodeSame, HeldSame, LinkSame, SentSame, Free
<1>11. SeqInv(d)'
  BY <1>1 DEF DissolveEffect, SeqInv, InstSame, TellSame, NodeSame, ToldSame, SentSame, Free
<1>12. PinInv(d)'
  BY <1>1 DEF DissolveEffect, PinInv, Expect, LockSame, TaskSame, TellSame, NodeSame, SentSame,
     Free
<1>13. SlotInv(d)'
  BY <1>1, <1>2 DEF DissolveEffect, SlotInv, Expect, Reserved, Unfinished, Live, Free, InstSame,
     LockSame, TaskSame, NodeSame, ToldSame, PinInv, SeqInv, LockInv, DownInv, Keeps, Other, Torn,
     Plain, Pids
<1> QED BY <1>3, <1>4, <1>5, <1>6, <1>7, <1>8, <1>9, <1>10, <1>11, <1>12, <1>13 DEF EndInv

LEMMA StartFailsKeeps ==
  ASSUME NEW d \in Ends, Types, Types', EndInv(d), StartFailsEffect(d)
  PROVE  EndInv(d)'
<1>1. /\ LockInv(d) /\ TaskInv(d) /\ DownInv(d) /\ AskInv(d) /\ FirstInv(d) /\ ReserveInv(d)
      /\ MadeInv(d) /\ LinkInv(d) /\ SeqInv(d) /\ PinInv(d) /\ SlotInv(d)
  BY DEF EndInv
<1>2. Plain(d) /\ Plain(d)'
  BY PlainTypes, PlainTypesNext
<1>3. LockInv(d)'
  BY <1>1 DEF StartFailsEffect, LockInv, Keeps, Other, TaskMoves, OtherTasks, LockSame, ServeSame,
     TellSame, Free
<1>4. TaskInv(d)'
  BY <1>1 DEF StartFailsEffect, TaskInv, Present, TaskMoves, OtherTasks, InstMoves, Free
<1>5. DownInv(d)'
  BY <1>1 DEF StartFailsEffect, DownInv, Live, Free, Torn, TaskMoves, OtherTasks, InstMoves,
     LockSame, TellSame, DownSame
<1>6. AskInv(d)'
  BY <1>1 DEF StartFailsEffect, AskInv, TaskMoves, OtherTasks, AskSame, Free
<1>7. FirstInv(d)'
  BY <1>1 DEF StartFailsEffect, FirstInv, Unfinished, TaskMoves, OtherTasks, LockSame, HeldSame,
     Free
<1>8. ReserveInv(d)'
  BY <1>1 DEF StartFailsEffect, ReserveInv, Unfinished, TaskMoves, OtherTasks, InstMoves,
     NodeSame, ToldSame, SentSame, Free
<1>9. MadeInv(d)'
  BY <1>1 DEF StartFailsEffect, MadeInv, Unfinished, Free, TaskMoves, OtherTasks, InstMoves,
     LockSame, MadeSame
<1>10. LinkInv(d)'
  BY <1>1 DEF StartFailsEffect, LinkInv, Unfinished, Runs, Present, TaskMoves, OtherTasks,
     InstMoves, LockSame, NodeSame, HeldSame, LinkSame, SentSame, Free
<1>11. SeqInv(d)'
  BY <1>1 DEF StartFailsEffect, SeqInv, InstMoves, TellSame, NodeSame, ToldSame, SentSame, Free
<1>12. PinInv(d)'
  BY <1>1, <1>2 DEF StartFailsEffect, PinInv, Expect, TaskMoves, OtherTasks, LockSame, TellSame,
     NodeSame, SentSame, Free, SeqInv, LockInv, Keeps, Other, Plain
<1>13. SlotInv(d)'
  BY <1>1 DEF StartFailsEffect, SlotInv, Expect, Reserved, Unfinished, Live, Free, TaskMoves,
     OtherTasks, InstMoves, LockSame, NodeSame, ToldSame
<1> QED BY <1>3, <1>4, <1>5, <1>6, <1>7, <1>8, <1>9, <1>10, <1>11, <1>12, <1>13 DEF EndInv

LEMMA ProcExitsKeeps ==
  ASSUME NEW d \in Ends, Types, Types', EndInv(d), ProcExitsEffect(d)
  PROVE  EndInv(d)'
<1>1. /\ LockInv(d) /\ TaskInv(d) /\ DownInv(d) /\ AskInv(d) /\ FirstInv(d) /\ ReserveInv(d)
      /\ MadeInv(d) /\ LinkInv(d) /\ SeqInv(d) /\ PinInv(d) /\ SlotInv(d)
  BY DEF EndInv
<1>2. Plain(d) /\ Plain(d)'
  BY PlainTypes, PlainTypesNext
<1>3. LockInv(d)'
  BY <1>1 DEF ProcExitsEffect, LockInv, Keeps, Other, LockSame, ServeSame, TaskSame, TellSame,
     Torn
<1>4. TaskInv(d)'
  BY <1>1 DEF ProcExitsEffect, TaskInv, Present, InstMoves, TaskSame, Torn
<1>5. DownInv(d)'
  BY <1>1 DEF ProcExitsEffect, DownInv, Live, Free, Torn, InstMoves, LockSame, TaskSame, TellSame,
     RegSame
<1>6. AskInv(d)'
  BY <1>1 DEF ProcExitsEffect, AskInv, TaskSame, AskSame, Torn
<1>7. FirstInv(d)'
  BY <1>1 DEF ProcExitsEffect, FirstInv, Unfinished, LockSame, TaskSame, HeldSame, Torn
<1>8. ReserveInv(d)'
  BY <1>1 DEF ProcExitsEffect, ReserveInv, Unfinished, InstMoves, TaskSame, NodeSame, ToldSame,
     RegSame, SentSame, Torn
<1>9. MadeInv(d)'
  BY <1>1 DEF ProcExitsEffect, MadeInv, Unfinished, Free, InstMoves, LockSame, TaskSame, RegSame,
     Torn
<1>10. LinkInv(d)'
  BY <1>1 DEF ProcExitsEffect, LinkInv, Unfinished, Runs, Present, InstMoves, LockSame, TaskSame,
     NodeSame, HeldSame, LinkSame, SentSame, Torn
<1>11. SeqInv(d)'
  BY <1>1 DEF ProcExitsEffect, SeqInv, InstMoves, TellSame, NodeSame, ToldSame, SentSame, Torn
<1>12. PinInv(d)'
  BY <1>1 DEF ProcExitsEffect, PinInv, Expect, LockSame, TaskSame, TellSame, NodeSame, SentSame,
     Torn
<1>13. SlotInv(d)'
  BY <1>1 DEF ProcExitsEffect, SlotInv, Expect, Reserved, Unfinished, Live, Free, InstMoves,
     LockSame, TaskSame, NodeSame, ToldSame, RegSame, Torn
<1> QED BY <1>3, <1>4, <1>5, <1>6, <1>7, <1>8, <1>9, <1>10, <1>11, <1>12, <1>13 DEF EndInv

LEMMA StopKeeps ==
  ASSUME NEW d \in Ends, Types, Types', EndInv(d), StopEffect(d)
  PROVE  EndInv(d)'
<1>1. /\ LockInv(d) /\ TaskInv(d) /\ DownInv(d) /\ AskInv(d) /\ FirstInv(d) /\ ReserveInv(d)
      /\ MadeInv(d) /\ LinkInv(d) /\ SeqInv(d) /\ PinInv(d) /\ SlotInv(d)
  BY DEF EndInv
<1>2. Plain(d) /\ Plain(d)'
  BY PlainTypes, PlainTypesNext
<1>3. LockInv(d)'
  BY <1>1 DEF StopEffect, LockInv, Keeps, Other, LockSame, ServeSame, TaskSame, TellSame, Torn
<1>4. TaskInv(d)'
  BY <1>1 DEF StopEffect, TaskInv, Present, InstMoves, TaskSame, Torn
<1>5. DownInv(d)'
  BY <1>1 DEF StopEffect, DownInv, Live, Free, Torn, InstMoves, LockSame, TaskSame, TellSame,
     RegSame
<1>6. AskInv(d)'
  BY <1>1 DEF StopEffect, AskInv, TaskSame, AskSame, Torn
<1>7. FirstInv(d)'
  BY <1>1 DEF StopEffect, FirstInv, Unfinished, LockSame, TaskSame, Torn
<1>8. ReserveInv(d)'
  BY <1>1 DEF StopEffect, ReserveInv, Unfinished, InstMoves, TaskSame, NodeSame, ToldSame,
     RegSame, SentSame, Torn
<1>9. MadeInv(d)'
  BY <1>1 DEF StopEffect, MadeInv, Unfinished, Free, InstMoves, LockSame, TaskSame, RegSame, Torn
<1>10. LinkInv(d)'
  BY <1>1 DEF StopEffect, LinkInv, Unfinished, Runs, Present, InstMoves, LockSame, TaskSame,
     NodeSame, SentSame, Torn
<1>11. SeqInv(d)'
  BY <1>1 DEF StopEffect, SeqInv, InstMoves, TellSame, NodeSame, ToldSame, SentSame, Torn
<1>12. PinInv(d)'
  BY <1>1 DEF StopEffect, PinInv, Expect, LockSame, TaskSame, TellSame, NodeSame, SentSame, Torn
<1>13. SlotInv(d)'
  BY <1>1 DEF StopEffect, SlotInv, Expect, Reserved, Unfinished, Live, Free, InstMoves, LockSame,
     TaskSame, NodeSame, ToldSame, RegSame, Torn
<1> QED BY <1>3, <1>4, <1>5, <1>6, <1>7, <1>8, <1>9, <1>10, <1>11, <1>12, <1>13 DEF EndInv

LEMMA PruneKeeps ==
  ASSUME NEW d \in Ends, Types, Types', EndInv(d), PruneEffect(d)
  PROVE  EndInv(d)'
<1>1. /\ LockInv(d) /\ TaskInv(d) /\ DownInv(d) /\ AskInv(d) /\ FirstInv(d) /\ ReserveInv(d)
      /\ MadeInv(d) /\ LinkInv(d) /\ SeqInv(d) /\ PinInv(d) /\ SlotInv(d)
  BY DEF EndInv
<1>2. Plain(d) /\ Plain(d)'
  BY PlainTypes, PlainTypesNext
<1>3. LockInv(d)'
  BY <1>1 DEF PruneEffect, LockInv, Keeps, Other, LockSame, ServeSame, TaskSame, TellSame, Live
<1>4. TaskInv(d)'
  BY <1>1 DEF PruneEffect, TaskInv, Present, InstSame, TaskSame, Live
<1>5. DownInv(d)'
  BY <1>1 DEF PruneEffect, DownInv, Live, Free, Torn, InstSame, LockSame, TaskSame, TellSame,
     DownSame
<1>6. AskInv(d)'
  BY <1>1 DEF PruneEffect, AskInv, TaskSame, AskSame, Live
<1>7. FirstInv(d)'
  BY <1>1 DEF PruneEffect, FirstInv, Unfinished, LockSame, TaskSame, HeldSame, Live
<1>8. ReserveInv(d)'
  BY <1>1 DEF PruneEffect, ReserveInv, Unfinished, InstSame, TaskSame, NodeSame, ToldSame,
     SentSame, Live
<1>9. MadeInv(d)'
  BY <1>1 DEF PruneEffect, MadeInv, Unfinished, Free, InstSame, LockSame, TaskSame, MadeSame, Live
<1>10. LinkInv(d)'
  BY <1>1 DEF PruneEffect, LinkInv, Unfinished, Runs, Present, InstSame, LockSame, TaskSame,
     NodeSame, HeldSame, LinkSame, SentSame, Live
<1>11. SeqInv(d)'
  BY <1>1 DEF PruneEffect, SeqInv, InstSame, TellSame, NodeSame, ToldSame, SentSame, Live
<1>12. PinInv(d)'
  BY <1>1 DEF PruneEffect, PinInv, Expect, LockSame, TaskSame, TellSame, NodeSame, SentSame, Live
<1>13. SlotInv(d)'
  BY <1>1 DEF PruneEffect, SlotInv, Expect, Reserved, Unfinished, Live, Free, InstSame, LockSame,
     TaskSame, NodeSame, ToldSame
<1> QED BY <1>3, <1>4, <1>5, <1>6, <1>7, <1>8, <1>9, <1>10, <1>11, <1>12, <1>13 DEF EndInv

-----------------------------------------------------------------------------
(***************************************************************************)
(* The invariant holds                                                     *)
(***************************************************************************)

LEMMA InitHolds ==
  ASSUME Init
  PROVE  PairInv
<1> USE DEF Init, Ends, NoTask, NoCommit, NoEnd, NoTell, Unpaired
<1>1. Types
  BY PairAssumption DEF PairAssumption, Types, InstTypes, LockTypes, TaskTypes, TaskRecs, TaskPcs,
     Answers, TellTypes, NodeTypes, ToldTypes, WireTypes, ServeTypes, DownTypes, FlagTypes,
     BoundTypes, Sts
<1>2. ASSUME NEW d \in Ends
      PROVE  EndInv(d)
  <2>1. LockInv(d) /\ FirstInv(d) /\ ReserveInv(d) /\ MadeInv(d) /\ LinkInv(d) /\ AskInv(d)
    BY <1>2 DEF LockInv, FirstInv, ReserveInv, MadeInv, LinkInv, AskInv, Keeps, Unfinished
  <2>2. TaskInv(d)
    BY <1>2, PairAssumption DEF PairAssumption, TaskInv, Present, Pids
  <2>3. DownInv(d) /\ SeqInv(d) /\ PinInv(d) /\ SlotInv(d)
    BY <1>2 DEF DownInv, SeqInv, PinInv, SlotInv, Live, Free, Torn, Expect, Reserved, Unfinished
  <2> QED BY <2>1, <2>2, <2>3 DEF EndInv
<1> QED BY <1>1, <1>2 DEF PairInv

\* A step that acts at end d, whose invariant it keeps, keeps that of both.
LEMMA OtherEndKeeps ==
  ASSUME PairInv, NEW d \in Ends, Types', EndInv(d)', \A x \in Ends : x # d => Same(x)
  PROVE  PairInv'
<1>1. \A x \in Ends : x # d => EndInv(x)'
  BY SameKeeps DEF PairInv
<1> QED BY <1>1 DEF PairInv

LEMMA StepKeeps ==
  ASSUME PairInv, Next
  PROVE  PairInv'
<1>0. Types /\ \A d \in Ends : EndInv(d)
  BY DEF PairInv
<1>1. ASSUME NEW d \in Ends, NEW p \in Pids, Deliver(d, p)
      PROVE  PairInv'
  BY <1>0, <1>1, DeliverDoes, DeliverKeeps, OtherEndKeeps
<1>2. ASSUME NEW d \in Ends, NEW p \in Pids, LookAgain(d, p)
      PROVE  PairInv'
  BY <1>0, <1>2, LookAgainDoes, LookAgainKeeps, OtherEndKeeps
<1>3. ASSUME NEW d \in Ends, NEW p \in Pids, PairAgain(d, p)
      PROVE  PairInv'
  BY <1>0, <1>3, PairAgainDoes, PairAgainKeeps, OtherEndKeeps
<1>4. ASSUME NEW d \in Ends, NEW p \in Pids, OwnPinFails(d, p)
      PROVE  PairInv'
  BY <1>0, <1>4, OwnPinFailsDoes, OwnPinFailsKeeps, OtherEndKeeps
<1>5. ASSUME NEW d \in Ends, NEW p \in Pids, AskPeer(d, p)
      PROVE  PairInv'
  BY <1>0, <1>5, AskPeerDoes, AskPeerKeeps, OtherEndKeeps
<1>6. ASSUME NEW d \in Ends, NEW p \in Pids, PeerAgrees(d, p)
      PROVE  PairInv'
  BY <1>0, <1>6, PeerAgreesDoes, PeerAgreesKeeps, OtherEndKeeps
<1>7. ASSUME NEW d \in Ends, NEW p \in Pids, PeerDoesNot(d, p)
      PROVE  PairInv'
  BY <1>0, <1>7, PeerDoesNotDoes, PeerDoesNotKeeps, OtherEndKeeps
<1>8. ASSUME NEW d \in Ends, NEW p \in Pids, Reverted(d, p)
      PROVE  PairInv'
  BY <1>0, <1>8, RevertedDoes, RevertedKeeps, OtherEndKeeps
<1>9. ASSUME NEW d \in Ends, NEW p \in Pids, DissolveFailed(d, p)
      PROVE  PairInv'
  BY <1>0, <1>9, DissolveFailedDoes, DissolveFailedKeeps, OtherEndKeeps
<1>10. ASSUME NEW d \in Ends, NEW p \in Pids, Outcome(d, p)
      PROVE  PairInv'
  BY <1>0, <1>10, OutcomeDoes, OutcomeKeeps, OtherEndKeeps
<1>11. ASSUME NEW d \in Ends, StartAgain(d)
      PROVE  PairInv'
  BY <1>0, <1>11, StartAgainDoes, StartAgainKeeps, OtherEndKeeps
<1>12. ASSUME NEW d \in Ends, CommitRunning(d)
      PROVE  PairInv'
  BY <1>0, <1>12, CommitRunningDoes, CommitRunningKeeps, OtherEndKeeps
<1>13. ASSUME NEW d \in Ends, TellFails(d)
      PROVE  PairInv'
  BY <1>0, <1>13, TellFailsDoes, TellFailsKeeps, OtherEndKeeps
<1>14. ASSUME NEW d \in Ends, CommitEnds(d)
      PROVE  PairInv'
  BY <1>0, <1>14, CommitEndsDoes, CommitEndsKeeps, OtherEndKeeps
<1>15. ASSUME NEW d \in Ends, EndTold(d)
      PROVE  PairInv'
  BY <1>0, <1>15, EndToldDoes, EndToldKeeps, OtherEndKeeps
<1>16. ASSUME NEW d \in Ends, StartFirst(d)
      PROVE  PairInv'
  BY <1>0, <1>16, StartFirstDoes, StartFirstKeeps, OtherEndKeeps
<1>17. ASSUME NEW d \in Ends, StartFails(d)
      PROVE  PairInv'
  BY <1>0, <1>17, StartFailsDoes, StartFailsKeeps, OtherEndKeeps
<1>18. ASSUME NEW d \in Ends, ProcExits(d)
      PROVE  PairInv'
  BY <1>0, <1>18, ProcExitsDoes, ProcExitsKeeps, OtherEndKeeps
<1>19. ASSUME NEW d \in Ends, Stop(d)
      PROVE  PairInv'
  BY <1>0, <1>19, StopDoes, StopKeeps, OtherEndKeeps
<1>20. ASSUME NEW d \in Ends, Prune(d)
      PROVE  PairInv'
  BY <1>0, <1>20, PruneDoes, PruneKeeps, OtherEndKeeps
<1>21. ASSUME NEW p \in Pids, Reserve(p)
      PROVE  PairInv'
  BY <1>0, <1>21, ReserveDoes, ReserveKeeps, OtherEndKeeps DEF Ends
<1>22. ASSUME NEW u \in updates, NodeTakes(u)
      PROVE  PairInv'
  BY <1>0, <1>22, UpdateIsTyped, NodeTakesDoes, NodeTakesKeeps, OtherEndKeeps
<1>23. ASSUME NEW d \in Ends, NEW c \in commits, CommitFromPeer(d, c)
      PROVE  PairInv'
  BY <1>0, <1>23, CommitFromPeerDoes, CommitFromPeerKeeps, OtherEndKeeps
<1>24. ASSUME NEW d \in Ends, NEW e \in ends, EndArrives(d, e)
      PROVE  PairInv'
  BY <1>0, <1>24, EndArrivesDoes, EndArrivesKeeps, OtherEndKeeps
<1>25. ASSUME NEW d \in Ends, NEW e \in forgets, e.from = d, Forget(e)
      PROVE  PairInv'
  BY <1>0, <1>25, ForgetDoes, ForgetKeeps, OtherEndKeeps DEF Ends, Other
<1>26. ASSUME NEW d \in Ends, NEW t \in down, t.from = d, Dissolve(t)
      PROVE  PairInv'
  BY <1>0, <1>26, DissolveDoes, DissolveKeeps, OtherEndKeeps
<1>27. ASSUME NEW t \in down, AnnounceEnd(t)
      PROVE  PairInv'
  BY <1>0, <1>27, AnnounceEndDoes, SameKeeps DEF PairInv
<1>28. ASSUME NEW t \in down, EndUnanswered(t)
      PROVE  PairInv'
  BY <1>0, <1>28, EndUnansweredDoes, SameKeeps DEF PairInv
<1>29. ASSUME NEW d \in Ends, NEW p \in Pids, AskUnanswered(d, p)
      PROVE  PairInv'
  BY <1>0, <1>29, AskUnansweredDoes, SameKeeps DEF PairInv
<1> QED
  BY <1>1, <1>2, <1>3, <1>4, <1>5, <1>6, <1>7, <1>8, <1>9, <1>10, <1>11, <1>12, <1>13, <1>14,
     <1>15, <1>16, <1>17, <1>18, <1>19, <1>20, <1>21, <1>22, <1>23, <1>24, <1>25, <1>26, <1>27,
     <1>28, <1>29 DEF Next, DaemonStep, TaskStep

LEMMA StutterKeeps ==
  ASSUME PairInv, UNCHANGED vars
  PROVE  PairInv'
<1>1. Types'
  BY DEF PairInv, vars, Types, InstTypes, LockTypes, TaskTypes, TellTypes, NodeTypes, ToldTypes,
     WireTypes, ServeTypes, DownTypes, FlagTypes, BoundTypes
<1>2. \A d \in Ends : Same(d)
  BY DEF vars, Same, InstSame, LockSame, ServeSame, TaskSame, TellSame, NodeSame, ToldSame,
     RegSame, HeldSame, LinkSame, MadeSame, SentSame, DownSame, AskSame, Torn
<1> QED BY <1>1, <1>2, SameKeeps DEF PairInv

\* The invariant that makes the results below inductive: every action of
\* the two coordinators, their nodes and their instances keeps it.
THEOREM PairInvariant == Spec => []PairInv
<1>1. Init => PairInv
  BY InitHolds
<1>2. PairInv /\ [Next]_vars => PairInv'
  BY StepKeeps, StutterKeeps
<1> QED BY <1>1, <1>2, PTL DEF Spec

-----------------------------------------------------------------------------
(***************************************************************************)
(* What follows from it                                                    *)
(***************************************************************************)

\* Every variable has its type, and only an operation that keeps op_lock
\* awaits an answer of its node (send_peer_update's callers hold it).
THEOREM PairTypeCorrect == Spec => []TypeOK
<1>1. PairInv => TypeOK
  BY DEF PairInv, EndInv, LockInv, Types, InstTypes, LockTypes, TaskTypes, TaskRecs, Sts,
     TellTypes, NodeTypes, FlagTypes, BoundTypes, TypeOK
<1> QED BY <1>1, PairInvariant, PTL

\* The daemons never wait on each other's op_lock: the start that keeps the lock
\* of daemon 2 is a restart's, which released it before it asked, so what keeps
\* it awaits its own node (pair_again around commit_pair_remotely).
THEOREM MutualWaitExcluded == Spec => []NoMutualWait
<1>1. ASSUME PairInv
      PROVE  ~WaitsLocked(2)
  <2>1. LockInv(2) /\ TaskInv(2)
    BY <1>1 DEF PairInv, EndInv, Ends
  <2>2. SUFFICES ASSUME WaitsLocked(2)
                 PROVE  FALSE
    OBVIOUS
  <2>3. PICK p \in Pids : Keeps(2, p)
    BY <2>1, <2>2 DEF LockInv, WaitsLocked
  <2>4. task[2][p].pc = "asking" /\ ~task[2][p].again
    BY <2>1, <2>2, <2>3 DEF LockInv, WaitsLocked, Keeps
  <2> QED BY <2>1, <2>4 DEF TaskInv
<1>2. PairInv => NoMutualWait
  BY <1>1 DEF NoMutualWait
<1> QED BY <1>2, PairInvariant, PTL

\* A pair that a process was told is made stays in its daemon's registry: the
\* requests of earlier processes, answered late or never, clear it no more
\* (pair_again's look at runs_process before its revert).
THEOREM ReportedPairsStay == Spec => []ReportedPairStays
<1>1. PairInv => ReportedPairStays
  BY DEF PairInv, EndInv, MadeInv, ReportedPairStays
<1> QED BY <1>1, PairInvariant, PTL

\* Only an end that a first start linked keeps the pair or is pinned to it: an
\* instance started anew under a stopped one's id inherits nothing, however
\* late its peer asks (keeps_held_pair in commit_pair_from_peer).
THEOREM OnlyLinkedPaired == Spec => []OnlyLinkedEnds
<1>1. PairInv => OnlyLinkedEnds
  BY DEF PairInv, EndInv, LinkInv, OnlyLinkedEnds, Live, Present
<1> QED BY <1>1, PairInvariant, PTL

\* Between operations the slot of a running node that took its last update is
\* what its daemon's registry has, but for a pair yet to be delivered to it
\* (op_lock around each change of the registry and its update, and the
\* sequence gate of apply_slot_update).
THEOREM SlotsFollow == Spec => []SlotFollowsRegistry
<1>1. ASSUME PairInv, NEW d \in Ends, inst[d].st = "running", Free(d), told[d] = "ok",
             ~Undelivered(d)
      PROVE  node[d].pin = reg[d]
  <2>1. SlotInv(d) /\ TaskInv(d) /\ Plain(d)
    BY <1>1, PlainTypes DEF PairInv, EndInv
  <2>2. ~Reserved(d)
    BY <1>1, <2>1 DEF Reserved, Undelivered, TaskInv
  <2> QED BY <1>1, <2>1, <2>2 DEF SlotInv, Live, Plain
<1>2. PairInv => SlotFollowsRegistry
  BY <1>1 DEF SlotFollowsRegistry
<1> QED BY <1>2, PairInvariant, PTL

-----------------------------------------------------------------------------
(***************************************************************************)
(* The halves of the pair                                                  *)
(*                                                                         *)
(* What an end may hold without the other, as long as the instance that    *)
(* links the two is not stopped: its first request is the only one that    *)
(* is not for a held pair.  An end gave the pair up when it can be made to *)
(* keep it no more.                                                        *)
(***************************************************************************)

Absent(d) == inst[d].st = "absent"

\* A restart is past its look and not over.
Under == {"lock", "telling", "asking", "reverting", "outcome"}

\* The restart of the running process p asks for the pair its slot kept.
Asks(d, p) == Runs(d, p) /\ task[d][p].again /\ task[d][p].pc \in Under

\* The request of the first start, the only one not for a held pair.
First(c) == c.from = 1 /\ ~c.held

\* The first start of daemon 1 has asked, or gave up before it.
FirstOver ==
  /\ ~Absent(1)
  /\ \A q \in Pids :
       task[1][q].again \/ task[1][q].pc \notin {"reserve", "boot", "deliver", "telling"}

\* The first request is taken, or lost.
Taken == FirstOver /\ \A c \in commits : ~First(c)

\* Nothing of the pair has reached daemon 2.
Untouched ==
  /\ ~reg[2]
  /\ \A d \in Ends : ~held[d] /\ lock[d] # "serve"
  /\ \A d \in Ends : \A p \in Pids : task[d][p].again => task[d][p].pc \notin Under
  /\ \A p \in Pids : task[1][p].pc = "asking" => task[1][p].ans # "ok"
  /\ \A c \in commits : ~c.held
  /\ \A t \in down : ~t.kept

\* The first request is one.
OneFirst ==
  \A c \in commits : First(c) => FirstOver /\ \A b \in commits : First(b) => b = c

\* The instance on daemon 1 is not stopped.
NoneStopped ==
  /\ \A t \in down : t.from = 1 => ~t.stopped
  /\ \A e \in ends : e.from = 1 => ~e.stopped
  /\ \A e \in forgets : e.from # 1
  /\ lock[2] = "notice" => ~notice[2].stopped

\* Daemon 1 cannot be made to keep the pair any more; nor can daemon 2.
Gave1 ==
  /\ Taken /\ ~held[1] /\ lock[1] # "serve"
  /\ \A p \in Pids : ~Asks(1, p) /\ (task[1][p].again \/ task[1][p].pc # "asking")
Gave2 == Taken /\ (Absent(2) \/ (~held[2] /\ lock[2] # "serve"))

\* The end of a stop is on its way to daemon 1, or taken and yet to be forgotten.
StopTold ==
  \/ \E e \in ends : e.from = 2 /\ e.stopped
  \/ \E e \in forgets : e.from = 2
  \/ lock[1] = "notice" /\ notice[1].stopped

\* An instance whose stop is told gave the pair up.
StopInv == StopTold => Gave2

\* A restart asks for a pair its slot keeps, unless the peer was stopped meanwhile.
AskHeld ==
  \A p \in Pids : (Asks(1, p) => held[1] \/ Gave2) /\ (Asks(2, p) => held[2])

\* The peer that refused the request of restart p gave the pair up.
Refused(d, p) ==
  Asks(d, p) /\ task[d][p].pc \in {"asking", "reverting", "outcome"} /\ task[d][p].ans = "refused"
Refusals == \A p \in Pids : (Refused(1, p) => Gave2) /\ (Refused(2, p) => Gave1)

\* A half that a process has is kept for its restarts, unless the other end gave
\* the pair up.
Halves ==
  /\ reg[2] /\ Live(2) /\ lock[2] # "serve" => held[2] \/ Gave1
  /\ reg[1] /\ Live(1) /\ lock[1] # "serve" /\ (\A q \in Pids : ~Unfinished(1, q)) =>
       held[1] \/ Gave2

HalfInv ==
  /\ Untouched \/ Taken
  /\ OneFirst /\ NoneStopped /\ StopInv /\ AskHeld /\ Refusals /\ Halves

-----------------------------------------------------------------------------
(***************************************************************************)
(* What a step does to the answers                                         *)
(***************************************************************************)

AnswersStay == \A x \in Ends : \A q \in Pids : task'[x][q].ans = task[x][q].ans

AnswerOf(d, p, ans) ==
  /\ task'[d][p].ans = ans
  /\ \A x \in Ends : \A q \in Pids : (x # d \/ q # p) => task'[x][q].ans = task[x][q].ans

LEMMA SetTaskAnswers ==
  ASSUME TaskTypes, NEW d \in Ends, NEW p \in Pids, NEW pc \in TaskPcs, SetTask(d, p, pc)
  PROVE  AnswersStay
<1> DEFINE r == [task[d][p] EXCEPT !.pc = pc]
<1>1. task' = [task EXCEPT ![d] = [task[d] EXCEPT ![p] = r]]
  BY DEF SetTask, TaskTypes
<1>2. r.ans = task[d][p].ans
  BY DEF TaskTypes, TaskRecs
<1> HIDE DEF r
<1> QED BY <1>1, <1>2 DEF TaskTypes, AnswersStay

LEMMA SetAnswer ==
  ASSUME TaskTypes, NEW d \in Ends, NEW p \in Pids, NEW ans \in Answers,
         task' = [task EXCEPT ![d][p].ans = ans]
  PROVE  AnswerOf(d, p, ans)
<1> DEFINE r == [task[d][p] EXCEPT !.ans = ans]
<1>1. task' = [task EXCEPT ![d] = [task[d] EXCEPT ![p] = r]]
  BY DEF TaskTypes
<1>2. r.ans = ans
  BY DEF TaskTypes, TaskRecs
<1> HIDE DEF r
<1> QED BY <1>1, <1>2 DEF TaskTypes, AnswerOf

LEMMA ReplaceAnswer ==
  ASSUME TaskTypes, NEW d \in Ends, NEW p \in Pids, NEW r \in TaskRecs,
         task' = [task EXCEPT ![d] = [task[d] EXCEPT ![p] = r]]
  PROVE  AnswerOf(d, p, r.ans)
BY DEF TaskTypes, AnswerOf

LEMMA BothSetAnswer ==
  ASSUME TaskTypes, NEW d \in Ends, NEW p \in Pids, NEW pc \in TaskPcs, NEW ans \in Answers,
         task' = [task EXCEPT ![d][p].pc = pc, ![d][p].ans = ans]
  PROVE  AnswerOf(d, p, ans)
<1> DEFINE r == [task[d][p] EXCEPT !.pc = pc]
<1> DEFINE g == [task EXCEPT ![d] = [task[d] EXCEPT ![p] = r]]
<1> DEFINE s == [r EXCEPT !.ans = ans]
<1>1. task' = [g EXCEPT ![d][p].ans = ans]
  BY DEF TaskTypes
<1>2. r \in TaskRecs
  BY DEF TaskTypes, TaskRecs
<1> HIDE DEF r
<1>3. s \in TaskRecs /\ s.ans = ans
  BY <1>2 DEF TaskRecs
<1>4. [task[d] EXCEPT ![p] = r] \in [Pids -> TaskRecs]
  BY <1>2 DEF TaskTypes
<1>5. g \in [Ends -> [Pids -> TaskRecs]] /\ g[d] = [task[d] EXCEPT ![p] = r] /\ g[d][p] = r
  BY <1>4 DEF TaskTypes
<1>6. task' = [g EXCEPT ![d] = [g[d] EXCEPT ![p] = [g[d][p] EXCEPT !.ans = ans]]]
  BY <1>1, <1>5
<1>7. task' = [g EXCEPT ![d] = [g[d] EXCEPT ![p] = s]]
  BY <1>5, <1>6
<1> HIDE DEF s
<1>8. task' = [task EXCEPT ![d] = [task[d] EXCEPT ![p] = s]]
  BY <1>5, <1>7 DEF TaskTypes
<1>9. AnswerOf(d, p, s.ans)
  BY <1>3, <1>8, ReplaceAnswer
<1> QED BY <1>3, <1>9

LEMMA EndTaskAnswer ==
  ASSUME TaskTypes, NEW d \in Ends, NEW p \in Pids, NEW ans \in Answers, EndTask(d, p, ans)
  PROVE  AnswerOf(d, p, ans)
BY BothSetAnswer DEF EndTask, TaskPcs

\* The start that waits gets the answer; any other keeps its own.
LEMMA AnsweredAnswer ==
  ASSUME TaskTypes, NEW c, c.from \in Ends, c.pid \in Pids, NEW ans \in Answers,
         task' = Answered(c, ans)
  PROVE  AnswerOf(c.from, c.pid,
                  IF task[c.from][c.pid].pc = "asking" /\ task[c.from][c.pid].ans = "none"
                  THEN ans ELSE task[c.from][c.pid].ans)
<1> DEFINE a == IF task[c.from][c.pid].pc = "asking" /\ task[c.from][c.pid].ans = "none"
                THEN ans ELSE task[c.from][c.pid].ans
<1>1. a \in Answers
  BY DEF TaskTypes, TaskRecs
<1>2. task' = [task EXCEPT ![c.from][c.pid].ans = a]
  BY DEF Answered
<1>3. a = IF task[c.from][c.pid].pc = "asking" /\ task[c.from][c.pid].ans = "none"
          THEN ans ELSE task[c.from][c.pid].ans
  OBVIOUS
<1> HIDE DEF a
<1>4. AnswerOf(c.from, c.pid, a)
  BY <1>1, <1>2, SetAnswer
<1> QED BY <1>3, <1>4

LEMMA NewProcessAnswer ==
  ASSUME TaskTypes, NEW d \in Ends, NEW again \in BOOLEAN, NEW pc \in TaskPcs,
         inst[d].pid + 1 \in Pids, NewProcess(d, again, pc)
  PROVE  AnswerOf(d, inst[d].pid + 1, "none")
<1> DEFINE n == inst[d].pid + 1
           r == [pc |-> pc, again |-> again, ans |-> "none"]
<1>1. task' = [task EXCEPT ![d] = [task[d] EXCEPT ![n] = r]] /\ n \in Pids
  BY DEF NewProcess, TaskTypes
<1>2. r.ans = "none"
  OBVIOUS
<1> HIDE DEF r, n
<1>3. AnswerOf(d, n, "none")
  BY <1>1, <1>2 DEF TaskTypes, AnswerOf
<1> QED BY <1>3 DEF n

-----------------------------------------------------------------------------
(***************************************************************************)
(* A step that makes no half, and asks and answers nothing                 *)
(***************************************************************************)

Pending(d, p) == task[d][p].again /\ task[d][p].pc \in Under

\* No first start begins and none asks.
FirstStays ==
  /\ Absent(1)' => Absent(1)
  /\ \A q \in Pids :
       ~task'[1][q].again /\ task'[1][q].pc \in {"reserve", "boot", "deliver", "telling"} =>
         ~task[1][q].again /\ task[1][q].pc \in {"reserve", "boot", "deliver", "telling"}

\* The end keeps what it kept, and nothing new is under way for it.
SteadyAt(d) ==
  /\ held'[d] <=> held[d]
  /\ lock'[d] = "serve" <=> lock[d] = "serve"
  /\ reg'[d] => reg[d]
  /\ Absent(d) => Absent(d)'
  /\ Live(d)' => Live(d) \/ ~reg'[d]
  /\ \A p \in Pids :
       /\ Pending(d, p)' => Pending(d, p) /\ (Runs(d, p)' => Runs(d, p))
       /\ Refused(d, p)' => Refused(d, p)

\* The first start that is not over stays so, unless it clears the pair.
StartsStay ==
  /\ Taken => \A p \in Pids :
       ~task'[1][p].again /\ task'[1][p].pc = "asking" =>
         ~task[1][p].again /\ task[1][p].pc = "asking"
  /\ reg'[1] /\ (\A q \in Pids : ~Unfinished(1, q)') => \A q \in Pids : ~Unfinished(1, q)

Steady ==
  /\ FirstOver => FirstStays
  /\ \A c \in commits' : First(c) => c \in commits
  /\ \A d \in Ends : SteadyAt(d)
  /\ StartsStay

\* Nothing of the pair goes to daemon 2.
Apart ==
  /\ \A p \in Pids : task'[1][p].pc = "asking" /\ task'[1][p].ans = "ok" =>
       task[1][p].pc = "asking" /\ task[1][p].ans = "ok"
  /\ \A c \in commits' : c.held => c \in commits \/ \E d \in Ends : \E p \in Pids : Pending(d, p)
  /\ \A t \in down' : t.kept => \E s \in down : s.kept

\* No stop is announced.
NoStop ==
  /\ \A t \in down' : t.from = 1 /\ t.stopped => \E s \in down : s.from = 1 /\ s.stopped
  /\ ends' = ends /\ forgets' = forgets /\ notice' = notice
  /\ \A d \in Ends : lock'[d] = "notice" => lock[d] = "notice"

LEMMA FirstGoesOn ==
  ASSUME FirstOver => FirstStays, \A c \in commits' : First(c) => c \in commits
  PROVE  (FirstOver => FirstOver') /\ (Taken => Taken') /\ (OneFirst => OneFirst')
<1>1. FirstOver => FirstOver'
  BY DEF FirstOver, FirstStays
<1>2. Taken => Taken'
  BY <1>1 DEF Taken, First
<1>3. OneFirst => OneFirst'
  BY <1>1 DEF OneFirst, First
<1> QED BY <1>1, <1>2, <1>3

LEMMA SteadyKeeps ==
  ASSUME HalfInv, Steady
  PROVE  /\ (Taken => Taken') /\ (Gave1 => Gave1') /\ (Gave2 => Gave2')
         /\ OneFirst' /\ AskHeld' /\ Refusals' /\ Halves'
<1>1. (Taken => Taken') /\ OneFirst'
  BY FirstGoesOn DEF Steady, HalfInv
<1>2. SteadyAt(1) /\ SteadyAt(2) /\ StartsStay
  BY DEF Steady, Ends
<1>3. /\ \A p \in Pids : Asks(1, p)' => Asks(1, p)
      /\ \A p \in Pids : Asks(2, p)' => Asks(2, p)
  BY <1>2 DEF SteadyAt, Asks, Pending
<1>4. Gave1 => Gave1'
  BY <1>1, <1>2, <1>3 DEF Gave1, SteadyAt, StartsStay
<1>5. Gave2 => Gave2'
  BY <1>1, <1>2 DEF Gave2, SteadyAt
<1>6. AskHeld'
  BY <1>2, <1>3, <1>5 DEF HalfInv, AskHeld, SteadyAt
<1>7. Refusals'
  BY <1>2, <1>4, <1>5 DEF HalfInv, Refusals, SteadyAt
<1>8. Halves'
  BY <1>2, <1>4, <1>5 DEF HalfInv, Halves, SteadyAt, StartsStay
<1> QED BY <1>1, <1>4, <1>5, <1>6, <1>7, <1>8

LEMMA ApartKeeps ==
  ASSUME Untouched, Steady, Apart
  PROVE  Untouched'
<1>1. SteadyAt(1) /\ SteadyAt(2)
  BY DEF Steady, Ends
<1>2. \A d \in Ends : ~held'[d] /\ lock'[d] # "serve"
  BY DEF Steady, SteadyAt, Untouched
<1>3. \A d \in Ends : \A p \in Pids : ~Pending(d, p) /\ ~Pending(d, p)'
  BY DEF Steady, SteadyAt, Untouched, Pending
<1> QED BY <1>1, <1>2, <1>3 DEF Untouched, Apart, Pending, SteadyAt

LEMMA NoStopKeeps ==
  ASSUME HalfInv, Gave2 => Gave2', NoStop
  PROVE  NoneStopped' /\ StopInv'
<1>1. NoneStopped'
  BY DEF HalfInv, NoneStopped, NoStop, Ends
<1>2. StopTold' => StopTold
  BY DEF StopTold, NoStop, Ends
<1> QED BY <1>1, <1>2 DEF HalfInv, StopInv

\* A step that makes no half and tells of no stop keeps what the halves are.
LEMMA HalvesStay ==
  ASSUME HalfInv, Steady, Apart, NoStop
  PROVE  HalfInv'
<1>1. /\ (Taken => Taken') /\ (Gave2 => Gave2')
      /\ OneFirst' /\ AskHeld' /\ Refusals' /\ Halves'
  BY SteadyKeeps
<1>2. Untouched' \/ Taken'
  BY <1>1, ApartKeeps DEF HalfInv
<1>3. NoneStopped' /\ StopInv'
  BY <1>1, NoStopKeeps
<1> QED BY <1>1, <1>2, <1>3 DEF HalfInv

LEMMA SameSteady ==
  ASSUME NEW x \in Ends, Same(x), \A p \in Pids : task'[x][p].ans = task[x][p].ans
  PROVE  SteadyAt(x)
BY DEF SteadyAt, Pending, Refused, Asks, Runs, Live, Absent, Same, InstSame, LockSame, TaskSame,
   RegSame, HeldSame

\* A start goes on, and its end is otherwise as it was or without the pair.
StartMoves(d, p) ==
  /\ OtherTasks(d, p) /\ InstSame(d) /\ HeldSame(d)
  /\ \A x \in Ends : \A q \in Pids : (x # d \/ q # p) => task'[x][q].ans = task[x][q].ans
  /\ lock'[d] = "serve" <=> lock[d] = "serve"
  /\ reg'[d] => reg[d]
  /\ task'[d][p].again = task[d][p].again

\* A restart goes on with the answer it has, or with none of its peer's.
RestartMoves(d, p) ==
  /\ task[d][p].again
  /\ task'[d][p].pc \in Under => task[d][p].pc \in Under
  /\ Refused(d, p)' => Refused(d, p)
  /\ task'[d][p].pc # "asking"

\* A first start goes on after it asked.
FirstMoves(d, p) ==
  /\ ~task[d][p].again
  /\ task'[d][p].pc \in {"reserve", "boot", "deliver", "telling"} =>
       task[d][p].pc \in {"reserve", "boot", "deliver", "telling"}
  /\ task'[d][p].pc # "asking"
  /\ task'[d][p].pc \in {"none", "done"} => ~reg'[d]

\* Such a start makes no half and asks nothing.
LEMMA MovesKeep ==
  ASSUME HalfInv, NEW d \in Ends, NEW p \in Pids, \A x \in Ends : x # d => Same(x),
         StartMoves(d, p), RestartMoves(d, p) \/ FirstMoves(d, p),
         commits' = commits, down' = down, NoStop
  PROVE  HalfInv'
<1>1. FirstOver => FirstStays
  BY DEF FirstOver, FirstStays, Absent, StartMoves, RestartMoves, FirstMoves, OtherTasks, InstSame,
     Same, TaskSame, Ends
<1>2. SteadyAt(d)
  <2>1. /\ held'[d] <=> held[d]
        /\ lock'[d] = "serve" <=> lock[d] = "serve"
        /\ reg'[d] => reg[d]
        /\ Absent(d) => Absent(d)'
        /\ Live(d)' => Live(d) \/ ~reg'[d]
    BY DEF StartMoves, HeldSame, InstSame, Absent, Live
  <2>2. \A q \in Pids : Pending(d, q)' => Pending(d, q) /\ (Runs(d, q)' => Runs(d, q))
    BY DEF StartMoves, RestartMoves, FirstMoves, OtherTasks, InstSame, Pending, Runs
  <2>3. \A q \in Pids : q # p => (Refused(d, q)' => Refused(d, q))
    BY DEF StartMoves, OtherTasks, InstSame, Refused, Asks, Runs
  <2>4. Refused(d, p)' => Refused(d, p)
    BY DEF StartMoves, RestartMoves, FirstMoves, Refused, Asks
  <2> QED BY <2>1, <2>2, <2>3, <2>4 DEF SteadyAt
<1>3. \A x \in Ends : x # d => SteadyAt(x)
  BY SameSteady DEF StartMoves
<1>4. StartsStay
  <2>1. ASSUME NEW q \in Pids, ~task'[1][q].again, task'[1][q].pc = "asking"
        PROVE  ~task[1][q].again /\ task[1][q].pc = "asking"
    BY <2>1 DEF StartMoves, RestartMoves, FirstMoves, OtherTasks, Same, TaskSame, Ends
  <2>2. ASSUME reg'[1], NEW q \in Pids, Unfinished(1, q)
        PROVE  Unfinished(1, q)'
    BY <2>2 DEF StartMoves, RestartMoves, FirstMoves, OtherTasks, Same, TaskSame, Ends, Unfinished
  <2> QED BY <2>1, <2>2 DEF StartsStay
<1>5. Apart
  <2>1. ASSUME NEW q \in Pids, task'[1][q].pc = "asking", task'[1][q].ans = "ok"
        PROVE  task[1][q].pc = "asking" /\ task[1][q].ans = "ok"
    BY <2>1 DEF StartMoves, RestartMoves, FirstMoves, OtherTasks, Same, TaskSame, Ends
  <2> QED BY <2>1 DEF Apart
<1> QED BY <1>1, <1>2, <1>3, <1>4, <1>5, HalvesStay DEF Steady

-----------------------------------------------------------------------------
(***************************************************************************)
(* A start goes on without a half                                          *)
(***************************************************************************)

LEMMA DeliverHalf ==
  ASSUME PairInv, HalfInv, NEW d \in Ends, NEW p \in Pids, Deliver(d, p)
  PROVE  HalfInv'
<1>1. (\A x \in Ends : x # d => Same(x)) /\ DeliverEffect(d, p)
  BY DeliverDoes
<1>2. AnswersStay
  BY SetTaskAnswers DEF Deliver, PairInv, Types, TaskPcs
<1>3. /\ commits' = commits /\ down' = down /\ ends' = ends /\ forgets' = forgets
      /\ notice' = notice
  BY DEF Deliver, wire, bounds, ghosts
<1>4. ~task[d][p].again /\ task[d][p].pc = "deliver"
  BY DEF PairInv, EndInv, TaskInv, Deliver
<1>5. StartMoves(d, p)
  BY <1>1, <1>2, <1>4 DEF DeliverEffect, StartMoves, AnswersStay, AnswerOf, TaskMoves, OtherTasks,
     InstSame, HeldSame, LockSame, RegSame, Free
<1>6. FirstMoves(d, p)
  BY <1>1, <1>2, <1>4 DEF DeliverEffect, RestartMoves, FirstMoves, AnswersStay, AnswerOf,
     TaskMoves, Refused, Asks, Runs, Under, InstSame
<1>7. NoStop
  BY <1>1, <1>3 DEF DeliverEffect, NoStop, Same, LockSame
<1> QED BY <1>1, <1>3, <1>5, <1>6, <1>7, MovesKeep

LEMMA OwnPinFailsHalf ==
  ASSUME PairInv, HalfInv, NEW d \in Ends, NEW p \in Pids, OwnPinFails(d, p)
  PROVE  HalfInv'
<1>1. (\A x \in Ends : x # d => Same(x)) /\ OwnPinFailsEffect(d, p)
  BY OwnPinFailsDoes
<1>2. (~task[d][p].again /\ AnswersStay) \/ (task[d][p].again /\ AnswerOf(d, p, "undelivered"))
  BY SetTaskAnswers, EndTaskAnswer DEF OwnPinFails, PairInv, Types, TaskPcs, Answers
<1>3. /\ commits' = commits /\ down' = down /\ ends' = ends /\ forgets' = forgets
      /\ notice' = notice
  BY DEF OwnPinFails, wire, bounds, ghosts
<1>4. task[d][p].pc = "telling" /\ lock[d] = "start" /\ task[d][p].again \in BOOLEAN
  BY DEF PairInv, EndInv, LockInv, Keeps, OwnPinFails, Types, TaskTypes, TaskRecs
<1>5. StartMoves(d, p)
  BY <1>1, <1>2, <1>4 DEF OwnPinFailsEffect, StartMoves, AnswersStay, AnswerOf, TaskMoves,
     OtherTasks, InstSame, HeldSame, LockSame, RegSame, Free
<1>6. RestartMoves(d, p) \/ FirstMoves(d, p)
  BY <1>1, <1>2, <1>4 DEF OwnPinFailsEffect, RestartMoves, FirstMoves, AnswersStay, AnswerOf,
     TaskMoves, Refused, Asks, Runs, Under, InstSame
<1>7. NoStop
  BY <1>1, <1>3 DEF OwnPinFailsEffect, NoStop, Same, LockSame
<1> QED BY <1>1, <1>3, <1>5, <1>6, <1>7, MovesKeep

LEMMA PeerDoesNotHalf ==
  ASSUME PairInv, HalfInv, NEW d \in Ends, NEW p \in Pids, PeerDoesNot(d, p)
  PROVE  HalfInv'
<1>1. (\A x \in Ends : x # d => Same(x)) /\ PeerDoesNotEffect(d, p)
  BY PeerDoesNotDoes
<1>2. AnswersStay
  BY SetTaskAnswers DEF PeerDoesNot, PairInv, Types, TaskPcs, Revert
<1>3. /\ commits' = commits /\ down' = down /\ ends' = ends /\ forgets' = forgets
      /\ notice' = notice
  BY DEF PeerDoesNot, wire, bounds, ghosts
<1>4. /\ task[d][p].pc = "asking" /\ task[d][p].again \in BOOLEAN
      /\ lock[d] # "serve"
  BY DEF PairInv, EndInv, LockInv, Keeps, PeerDoesNot, Free, Types, TaskTypes, TaskRecs
<1>5. StartMoves(d, p)
  BY <1>1, <1>2, <1>4 DEF PeerDoesNotEffect, StartMoves, AnswersStay, AnswerOf, TaskMoves,
     OtherTasks, InstSame, HeldSame, LockSame, RegSame, Free
<1>6. RestartMoves(d, p) \/ FirstMoves(d, p)
  BY <1>1, <1>2, <1>4 DEF PeerDoesNotEffect, RestartMoves, FirstMoves, AnswersStay, AnswerOf,
     TaskMoves, Refused, Asks, Runs, Under, InstSame
<1>7. NoStop
  BY <1>1, <1>3 DEF PeerDoesNotEffect, NoStop, Same, LockSame
<1> QED BY <1>1, <1>3, <1>5, <1>6, <1>7, MovesKeep

LEMMA RevertedHalf ==
  ASSUME PairInv, HalfInv, NEW d \in Ends, NEW p \in Pids, Reverted(d, p)
  PROVE  HalfInv'
<1>1. (\A x \in Ends : x # d => Same(x)) /\ RevertedEffect(d, p)
  BY RevertedDoes
<1>2. AnswersStay
  BY SetTaskAnswers DEF Reverted, PairInv, Types, TaskPcs
<1>3. /\ commits' = commits /\ down' = down /\ ends' = ends /\ forgets' = forgets
      /\ notice' = notice
  BY DEF Reverted, wire, bounds, ghosts
<1>4. /\ task[d][p].pc = "reverting" /\ lock[d] = "start"
      /\ task[d][p].again \in BOOLEAN
  BY DEF PairInv, EndInv, LockInv, Keeps, Reverted, Types, TaskTypes, TaskRecs
<1>5. StartMoves(d, p)
  BY <1>1, <1>2, <1>4 DEF RevertedEffect, StartMoves, AnswersStay, AnswerOf, TaskMoves,
     OtherTasks, InstSame, HeldSame, LockSame, RegSame, Free
<1>6. RestartMoves(d, p) \/ FirstMoves(d, p)
  BY <1>1, <1>2, <1>4 DEF RevertedEffect, RestartMoves, FirstMoves, AnswersStay, AnswerOf,
     TaskMoves, Refused, Asks, Runs, Under, InstSame
<1>7. NoStop
  BY <1>1, <1>3 DEF RevertedEffect, NoStop, Same, LockSame
<1> QED BY <1>1, <1>3, <1>5, <1>6, <1>7, MovesKeep

LEMMA DissolveFailedHalf ==
  ASSUME PairInv, HalfInv, NEW d \in Ends, NEW p \in Pids, DissolveFailed(d, p)
  PROVE  HalfInv'
<1>1. (\A x \in Ends : x # d => Same(x)) /\ DissolveFailedEffect(d, p)
  BY DissolveFailedDoes
<1>2. AnswersStay
  BY SetTaskAnswers DEF DissolveFailed, PairInv, Types, TaskPcs
<1>3. /\ commits' = commits /\ down' = down /\ ends' = ends /\ forgets' = forgets
      /\ notice' = notice
  BY DEF DissolveFailed, wire, bounds, ghosts
<1>4. ~task[d][p].again /\ task[d][p].pc = "dissolve"
  BY DEF PairInv, EndInv, TaskInv, DissolveFailed
<1>5. StartMoves(d, p)
  BY <1>1, <1>2, <1>4 DEF DissolveFailedEffect, StartMoves, AnswersStay, AnswerOf, TaskMoves,
     OtherTasks, InstSame, HeldSame, LockSame, RegSame, Free
<1>6. FirstMoves(d, p)
  BY <1>1, <1>2, <1>4 DEF DissolveFailedEffect, RestartMoves, FirstMoves, AnswersStay, AnswerOf,
     TaskMoves, Refused, Asks, Runs, Under, InstSame
<1>7. NoStop
  BY <1>1, <1>3 DEF DissolveFailedEffect, NoStop, Same, LockSame
<1> QED BY <1>1, <1>3, <1>5, <1>6, <1>7, MovesKeep

LEMMA PeerAgreesAgainHalf ==
  ASSUME PairInv, HalfInv, NEW d \in Ends, NEW p \in Pids, PeerAgrees(d, p), task[d][p].again
  PROVE  HalfInv'
<1>1. (\A x \in Ends : x # d => Same(x)) /\ PeerAgreesEffect(d, p)
  BY PeerAgreesDoes
<1>2. AnswersStay
  BY SetTaskAnswers DEF PeerAgrees, PairInv, Types, TaskPcs
<1>3. /\ commits' = commits /\ down' = down /\ ends' = ends /\ forgets' = forgets
      /\ notice' = notice
  BY DEF PeerAgrees, wire, bounds, ghosts
<1>4. task[d][p].pc = "asking" /\ task[d][p].ans = "ok"
  BY DEF PeerAgrees
<1>5. StartMoves(d, p)
  BY <1>1, <1>2, <1>4 DEF PeerAgreesEffect, StartMoves, AnswersStay, AnswerOf, TaskMoves,
     OtherTasks, InstSame, HeldSame, LockSame, RegSame, Free
<1>6. RestartMoves(d, p)
  BY <1>1, <1>2, <1>4 DEF PeerAgreesEffect, RestartMoves, FirstMoves, AnswersStay, AnswerOf,
     TaskMoves, Refused, Asks, Runs, Under, InstSame
<1>7. NoStop
  BY <1>1, <1>3 DEF PeerAgreesEffect, NoStop, Same, LockSame
<1> QED BY <1>1, <1>3, <1>5, <1>6, <1>7, MovesKeep

-----------------------------------------------------------------------------
(***************************************************************************)
(* The steps at one end that make no half                                  *)
(***************************************************************************)

LEMMA StartAgainHalf ==
  ASSUME PairInv, HalfInv, NEW d \in Ends, StartAgain(d)
  PROVE  HalfInv'
<1>1. (\A x \in Ends : x # d => Same(x)) /\ StartAgainEffect(d)
  BY StartAgainDoes
<1>2. AnswerOf(d, inst[d].pid + 1, "none")
  BY <1>1, NewProcessAnswer DEF StartAgain, AnswersStay, AnswerOf, PairInv, Types, TaskTypes,
     TaskPcs, Answers, StartAgainEffect, Starts
<1>3. commits' = commits /\ ends' = ends /\ forgets' = forgets /\ notice' = notice /\ down' = down
  BY DEF StartAgain, wire, registry, ghosts, bounds
<1>4a. Plain(d) /\ TaskInv(d) /\ DownInv(d)
  BY PlainTypes DEF PairInv, EndInv, Ends
<1>4. /\ inst[d].pid \in Nat /\ inst[d].pid + 1 \in Pids /\ ~reg[d]
      /\ task[d][inst[d].pid + 1].pc = "none"
  BY <1>1, <1>4a DEF StartAgainEffect, Starts, DownInv, Torn, Live, TaskInv, Plain
<1>5. FirstOver => FirstStays
  BY <1>1, <1>2, <1>3, <1>4 DEF StartAgainEffect, FirstOver, FirstStays, Absent, Ends, Same,
     InstSame, LockSame, ServeSame, TaskSame, RegSame, HeldSame, TaskMoves, OtherTasks, InstMoves,
     Starts, TasksStay
<1>6. \A c \in commits' : First(c) => c \in commits
  BY <1>3
<1>7. SteadyAt(d)
  BY <1>1, <1>2, <1>3, <1>4 DEF StartAgainEffect, SteadyAt, Pending, Refused, Asks, Under, Runs,
     Live, Absent, AnswersStay, AnswerOf, Plain, Sts, Same, InstSame, LockSame, ServeSame,
     TaskSame, RegSame, HeldSame, TaskMoves, OtherTasks, InstMoves, Starts, TasksStay
<1>8. \A x \in Ends : x # d => SteadyAt(x)
  BY <1>1, <1>2, SameSteady DEF AnswersStay, AnswerOf
<1>9. StartsStay
  BY <1>1, <1>2, <1>3, <1>4 DEF StartAgainEffect, StartsStay, Unfinished, Taken, FirstOver,
     Absent, Ends, Same, InstSame, LockSame, ServeSame, TaskSame, RegSame, HeldSame, TaskMoves,
     OtherTasks, InstMoves, Starts, TasksStay
<1>10. Apart
  BY <1>1, <1>2, <1>3, <1>4 DEF StartAgainEffect, Apart, AnswersStay, AnswerOf, Ends, Pending,
     Under, Same, InstSame, LockSame, ServeSame, TaskSame, RegSame, HeldSame, TaskMoves,
     OtherTasks, InstMoves, Starts, TasksStay
<1>11. NoStop
  BY <1>1, <1>2, <1>3, <1>4 DEF StartAgainEffect, NoStop, Ends, Free, Same, InstSame, LockSame,
     ServeSame, TaskSame, RegSame, HeldSame, DownSame
<1> QED BY <1>5, <1>6, <1>7, <1>8, <1>9, <1>10, <1>11, HalvesStay DEF Steady

LEMMA CommitRunningHalf ==
  ASSUME PairInv, HalfInv, NEW d \in Ends, CommitRunning(d)
  PROVE  HalfInv'
<1>1. (\A x \in Ends : x # d => Same(x)) /\ CommitRunningEffect(d)
  BY CommitRunningDoes
<1>2. AnswersStay
  BY SetTaskAnswers, StartingPid DEF CommitRunning, AnswersStay, AnswerOf, PairInv, Types,
     TaskTypes, TaskPcs, Answers, SetTask
<1>3. commits' = commits /\ ends' = ends /\ forgets' = forgets /\ notice' = notice /\ down' = down
  BY DEF CommitRunning, wire, registry, ghosts, bounds
<1>4a. Plain(d) /\ TaskInv(d)
  BY PlainTypes DEF PairInv, EndInv, Ends
<1>4. /\ inst[d].pid \in Pids /\ (task[d][inst[d].pid].again <=> inst[d].again)
      /\ task[d][inst[d].pid].pc = "boot"
  BY <1>1, <1>4a, StartingPid DEF CommitRunningEffect, TaskInv
<1>5. /\ task'[d][inst[d].pid].pc \in {"again", "deliver", "done"} /\ OtherTasks(d, inst[d].pid)
      /\ task'[d][inst[d].pid].again = task[d][inst[d].pid].again
      /\ d = 1 /\ ~task[d][inst[d].pid].again => task'[d][inst[d].pid].pc = "deliver"
  BY <1>1, <1>4 DEF CommitRunningEffect, TaskMoves
<1>6. /\ inst[d].st = "starting" /\ inst'[d].st = "running" /\ inst'[d].pid = inst[d].pid
       /\ lock'[d] = lock[d] /\ reg'[d] = reg[d] /\ held'[d] = held[d]
  BY <1>1 DEF CommitRunningEffect, InstMoves, LockSame, RegSame, HeldSame
<1>7. FirstOver => FirstStays
  <2>1. CASE d = 1
    BY <1>4, <1>5, <1>6, <2>1 DEF FirstStays, Absent, OtherTasks
  <2>2. CASE d # 1
    BY <1>1, <2>2 DEF FirstStays, Absent, Same, InstSame, TaskSame, Ends
  <2> QED BY <2>1, <2>2
<1>8. \A c \in commits' : First(c) => c \in commits
  BY <1>3
<1>9. SteadyAt(d)
  <2>1. ASSUME NEW q \in Pids
        PROVE  /\ Pending(d, q)' => Pending(d, q) /\ (Runs(d, q)' => Runs(d, q))
               /\ Refused(d, q)' => Refused(d, q)
    <3>1. CASE q = inst[d].pid
      BY <1>5, <3>1 DEF Pending, Refused, Asks, Under
    <3>2. CASE q # inst[d].pid
      BY <1>5, <1>6, <3>2 DEF OtherTasks, Pending, Refused, Asks, Runs
    <3> QED BY <3>1, <3>2
  <2>2. Live(d) /\ ~Absent(d)
    BY <1>6 DEF Live, Absent
  <2> QED BY <1>6, <2>1, <2>2 DEF SteadyAt
<1>10. \A x \in Ends : x # d => SteadyAt(x)
  BY <1>1, <1>2, SameSteady DEF AnswersStay, AnswerOf
<1>11. StartsStay
  <2>1. ASSUME NEW q \in Pids, task'[1][q].pc = "asking"
        PROVE  task[1][q].pc = "asking" /\ task[1][q].again = task'[1][q].again
    BY <1>1, <1>4, <1>5, <2>1 DEF OtherTasks, Same, TaskSame, Ends
  <2>2. ASSUME NEW q \in Pids, Unfinished(1, q)
        PROVE  Unfinished(1, q)'
    BY <1>1, <1>4, <1>5, <2>2 DEF OtherTasks, Same, TaskSame, Ends, Unfinished
  <2> QED BY <2>1, <2>2 DEF StartsStay
<1>12. Apart
  <2>1. ASSUME NEW q \in Pids, task'[1][q].pc = "asking"
        PROVE  task[1][q].pc = "asking"
    BY <1>1, <1>4, <1>5, <2>1 DEF OtherTasks, Same, TaskSame, Ends
  <2> QED BY <1>2, <1>3, <2>1 DEF Apart, AnswersStay, Ends
<1>13. NoStop
  BY <1>1, <1>2, <1>3, <1>4 DEF CommitRunningEffect, NoStop, Ends, Free, Same, InstSame, LockSame,
     ServeSame, TaskSame, RegSame, HeldSame, DownSame
<1> QED BY <1>7, <1>8, <1>9, <1>10, <1>11, <1>12, <1>13, HalvesStay DEF Steady

LEMMA StartFailsHalf ==
  ASSUME PairInv, HalfInv, NEW d \in Ends, StartFails(d)
  PROVE  HalfInv'
<1>1. (\A x \in Ends : x # d => Same(x)) /\ StartFailsEffect(d)
  BY StartFailsDoes
<1>2. AnswersStay
  BY SetTaskAnswers, StartingPid DEF StartFails, AnswersStay, AnswerOf, PairInv, Types, TaskTypes,
     TaskPcs, Answers, SetTask
<1>3. commits' = commits /\ ends' = ends /\ forgets' = forgets /\ notice' = notice /\ down' = down
  BY DEF StartFails, wire, registry, ghosts, bounds
<1>4a. Plain(d) /\ TaskInv(d)
  BY PlainTypes DEF PairInv, EndInv, Ends
<1>4. /\ inst[d].pid \in Pids /\ (task[d][inst[d].pid].again <=> inst[d].again)
      /\ task[d][inst[d].pid].pc \in {"reserve", "boot"}
  BY <1>1, <1>4a, StartingPid DEF StartFailsEffect, TaskInv
<1>5. FirstOver => FirstStays
  BY <1>1, <1>2, <1>3, <1>4 DEF StartFailsEffect, FirstOver, FirstStays, Absent, Ends, Same,
     InstSame, LockSame, ServeSame, TaskSame, RegSame, HeldSame, TaskMoves, OtherTasks, InstMoves,
     Starts, TasksStay
<1>6. \A c \in commits' : First(c) => c \in commits
  BY <1>3
<1>7. SteadyAt(d)
  BY <1>1, <1>2, <1>3, <1>4 DEF StartFailsEffect, SteadyAt, Pending, Refused, Asks, Under, Runs,
     Live, Absent, AnswersStay, AnswerOf, Plain, Sts, Same, InstSame, LockSame, ServeSame,
     TaskSame, RegSame, HeldSame, TaskMoves, OtherTasks, InstMoves, Starts, TasksStay
<1>8. \A x \in Ends : x # d => SteadyAt(x)
  BY <1>1, <1>2, SameSteady DEF AnswersStay, AnswerOf
<1>9. StartsStay
  BY <1>1, <1>2, <1>3, <1>4 DEF StartFailsEffect, StartsStay, Unfinished, Taken, FirstOver,
     Absent, Ends, Same, InstSame, LockSame, ServeSame, TaskSame, RegSame, HeldSame, TaskMoves,
     OtherTasks, InstMoves, Starts, TasksStay
<1>10. Apart
  BY <1>1, <1>2, <1>3, <1>4 DEF StartFailsEffect, Apart, AnswersStay, AnswerOf, Ends, Pending,
     Under, Same, InstSame, LockSame, ServeSame, TaskSame, RegSame, HeldSame, TaskMoves,
     OtherTasks, InstMoves, Starts, TasksStay
<1>11. NoStop
  BY <1>1, <1>2, <1>3, <1>4 DEF StartFailsEffect, NoStop, Ends, Free, Same, InstSame, LockSame,
     ServeSame, TaskSame, RegSame, HeldSame, DownSame
<1> QED BY <1>5, <1>6, <1>7, <1>8, <1>9, <1>10, <1>11, HalvesStay DEF Steady

LEMMA PruneHalf ==
  ASSUME PairInv, HalfInv, NEW d \in Ends, Prune(d)
  PROVE  HalfInv'
<1>1. (\A x \in Ends : x # d => Same(x)) /\ PruneEffect(d)
  BY PruneDoes
<1>2. AnswersStay
  BY DEF Prune, AnswersStay, AnswerOf, PairInv, Types, TaskTypes, TaskPcs, Answers
<1>3. commits' = commits /\ ends' = ends /\ forgets' = forgets /\ notice' = notice /\ down' = down
  BY DEF Prune, wire, registry, ghosts, bounds
<1>4. Plain(d) /\ TaskInv(d)
  BY PlainTypes DEF PairInv, EndInv, Ends
<1>5. FirstOver => FirstStays
  BY <1>1, <1>2, <1>3, <1>4 DEF PruneEffect, TaskInv, FirstOver, FirstStays, Absent, Ends, Same,
     InstSame, LockSame, ServeSame, TaskSame, RegSame, HeldSame, TaskMoves, OtherTasks, InstMoves,
     Starts, TasksStay
<1>6. \A c \in commits' : First(c) => c \in commits
  BY <1>3
<1>7. SteadyAt(d)
  BY <1>1, <1>2, <1>3, <1>4 DEF PruneEffect, TaskInv, SteadyAt, Pending, Refused, Asks, Under,
     Runs, Live, Absent, AnswersStay, AnswerOf, Plain, Sts, Same, InstSame, LockSame, ServeSame,
     TaskSame, RegSame, HeldSame, TaskMoves, OtherTasks, InstMoves, Starts, TasksStay
<1>8. \A x \in Ends : x # d => SteadyAt(x)
  BY <1>1, <1>2, SameSteady DEF AnswersStay, AnswerOf
<1>9. StartsStay
  BY <1>1, <1>2, <1>3, <1>4 DEF PruneEffect, TaskInv, StartsStay, Unfinished, Taken, FirstOver,
     Absent, Ends, Same, InstSame, LockSame, ServeSame, TaskSame, RegSame, HeldSame, TaskMoves,
     OtherTasks, InstMoves, Starts, TasksStay
<1>10. Apart
  BY <1>1, <1>2, <1>3, <1>4 DEF PruneEffect, TaskInv, Apart, AnswersStay, AnswerOf, Ends, Pending,
     Under, Same, InstSame, LockSame, ServeSame, TaskSame, RegSame, HeldSame, TaskMoves,
     OtherTasks, InstMoves, Starts, TasksStay
<1>11. NoStop
  BY <1>1, <1>2, <1>3, <1>4 DEF PruneEffect, NoStop, Ends, Free, Same, InstSame, LockSame,
     ServeSame, TaskSame, RegSame, HeldSame, DownSame
<1> QED BY <1>5, <1>6, <1>7, <1>8, <1>9, <1>10, <1>11, HalvesStay DEF Steady

LEMMA TellFailsHalf ==
  ASSUME PairInv, HalfInv, NEW d \in Ends, TellFails(d)
  PROVE  HalfInv'
<1>1. (\A x \in Ends : x # d => Same(x)) /\ TellFailsEffect(d)
  BY TellFailsDoes
<1>2. AnswersStay
  BY DEF TellFails, AnswersStay, AnswerOf, PairInv, Types, TaskTypes, TaskPcs, Answers
<1>3. commits' = commits /\ ends' = ends /\ forgets' = forgets /\ notice' = notice /\ down' = down
  BY DEF TellFails, wire, registry, ghosts, bounds
<1>4. Plain(d) /\ TaskInv(d)
  BY PlainTypes DEF PairInv, EndInv, Ends
<1>5. FirstOver => FirstStays
  BY <1>1, <1>2, <1>3, <1>4 DEF TellFailsEffect, TaskInv, FirstOver, FirstStays, Absent, Ends,
     Same, InstSame, LockSame, ServeSame, TaskSame, RegSame, HeldSame, TaskMoves, OtherTasks,
     InstMoves, Starts, TasksStay
<1>6. \A c \in commits' : First(c) => c \in commits
  BY <1>3
<1>7. SteadyAt(d)
  BY <1>1, <1>2, <1>3, <1>4 DEF TellFailsEffect, TaskInv, SteadyAt, Pending, Refused, Asks, Under,
     Runs, Live, Absent, AnswersStay, AnswerOf, Plain, Sts, Same, InstSame, LockSame, ServeSame,
     TaskSame, RegSame, HeldSame, TaskMoves, OtherTasks, InstMoves, Starts, TasksStay
<1>8. \A x \in Ends : x # d => SteadyAt(x)
  BY <1>1, <1>2, SameSteady DEF AnswersStay, AnswerOf
<1>9. StartsStay
  BY <1>1, <1>2, <1>3, <1>4 DEF TellFailsEffect, TaskInv, StartsStay, Unfinished, Taken,
     FirstOver, Absent, Ends, Same, InstSame, LockSame, ServeSame, TaskSame, RegSame, HeldSame,
     TaskMoves, OtherTasks, InstMoves, Starts, TasksStay
<1>10. Apart
  BY <1>1, <1>2, <1>3, <1>4 DEF TellFailsEffect, TaskInv, Apart, AnswersStay, AnswerOf, Ends,
     Pending, Under, Same, InstSame, LockSame, ServeSame, TaskSame, RegSame, HeldSame, TaskMoves,
     OtherTasks, InstMoves, Starts, TasksStay
<1>11. NoStop
  BY <1>1, <1>2, <1>3, <1>4 DEF TellFailsEffect, NoStop, Ends, Free, Same, InstSame, LockSame,
     ServeSame, TaskSame, RegSame, HeldSame, DownSame
<1> QED BY <1>5, <1>6, <1>7, <1>8, <1>9, <1>10, <1>11, HalvesStay DEF Steady

LEMMA ProcExitsHalf ==
  ASSUME PairInv, HalfInv, NEW d \in Ends, ProcExits(d)
  PROVE  HalfInv'
<1>1. (\A x \in Ends : x # d => Same(x)) /\ ProcExitsEffect(d)
  BY ProcExitsDoes
<1>2. AnswersStay
  BY DEF ProcExits, AnswersStay, AnswerOf, PairInv, Types, TaskTypes, TaskPcs, Answers
<1>3. ends' = ends /\ forgets' = forgets /\ notice' = notice 
      /\ commits' = commits
      /\ \A t \in down' : t \in down \/ (~t.stopped /\ ~t.kept)
  BY DEF ProcExits, wire, registry, ghosts, bounds
<1>4. Plain(d) /\ TaskInv(d)
  BY PlainTypes DEF PairInv, EndInv, Ends
<1>5. FirstOver => FirstStays
  BY <1>1, <1>2, <1>3, <1>4 DEF ProcExitsEffect, TaskInv, FirstOver, FirstStays, Absent, Ends,
     Same, InstSame, LockSame, ServeSame, TaskSame, RegSame, HeldSame, TaskMoves, OtherTasks,
     InstMoves, Starts, TasksStay
<1>6. \A c \in commits' : First(c) => c \in commits
  BY <1>3
<1>7. SteadyAt(d)
  BY <1>1, <1>2, <1>3, <1>4 DEF ProcExitsEffect, TaskInv, SteadyAt, Pending, Refused, Asks, Under,
     Runs, Live, Absent, AnswersStay, AnswerOf, Plain, Sts, Same, InstSame, LockSame, ServeSame,
     TaskSame, RegSame, HeldSame, TaskMoves, OtherTasks, InstMoves, Starts, TasksStay
<1>8. \A x \in Ends : x # d => SteadyAt(x)
  BY <1>1, <1>2, SameSteady DEF AnswersStay, AnswerOf
<1>9. StartsStay
  BY <1>1, <1>2, <1>3, <1>4 DEF ProcExitsEffect, TaskInv, StartsStay, Unfinished, Taken,
     FirstOver, Absent, Ends, Same, InstSame, LockSame, ServeSame, TaskSame, RegSame, HeldSame,
     TaskMoves, OtherTasks, InstMoves, Starts, TasksStay
<1>10. Apart
  BY <1>1, <1>2, <1>3, <1>4 DEF ProcExitsEffect, TaskInv, Apart, AnswersStay, AnswerOf, Ends,
     Pending, Under, Same, InstSame, LockSame, ServeSame, TaskSame, RegSame, HeldSame, TaskMoves,
     OtherTasks, InstMoves, Starts, TasksStay
<1>11. NoStop
  BY <1>1, <1>2, <1>3, <1>4 DEF ProcExitsEffect, NoStop, Ends, Free, Same, InstSame, LockSame,
     ServeSame, TaskSame, RegSame, HeldSame, DownSame
<1> QED BY <1>5, <1>6, <1>7, <1>8, <1>9, <1>10, <1>11, HalvesStay DEF Steady

LEMMA DissolveHalf ==
  ASSUME PairInv, HalfInv, NEW d \in Ends, NEW t \in down, t.from = d, Dissolve(t)
  PROVE  HalfInv'
<1>1. (\A x \in Ends : x # d => Same(x)) /\ DissolveEffect(d, t)
  BY DissolveDoes
<1>2. AnswersStay
  BY DEF Dissolve, AnswersStay, AnswerOf, PairInv, Types, TaskTypes, TaskPcs, Answers
<1>3. ends' = ends /\ forgets' = forgets /\ notice' = notice 
      /\ commits' = commits /\ down' \subseteq down
  BY DEF Dissolve, wire, registry, ghosts, bounds
<1>4. Plain(d) /\ TaskInv(d)
  BY PlainTypes DEF PairInv, EndInv, Ends
<1>5. FirstOver => FirstStays
  BY <1>1, <1>2, <1>3, <1>4 DEF DissolveEffect, TaskInv, FirstOver, FirstStays, Absent, Ends,
     Same, InstSame, LockSame, ServeSame, TaskSame, RegSame, HeldSame, TaskMoves, OtherTasks,
     InstMoves, Starts, TasksStay
<1>6. \A c \in commits' : First(c) => c \in commits
  BY <1>3
<1>7. SteadyAt(d)
  BY <1>1, <1>2, <1>3, <1>4 DEF DissolveEffect, TaskInv, SteadyAt, Pending, Refused, Asks, Under,
     Runs, Live, Absent, AnswersStay, AnswerOf, Plain, Sts, Same, InstSame, LockSame, ServeSame,
     TaskSame, RegSame, HeldSame, TaskMoves, OtherTasks, InstMoves, Starts, TasksStay
<1>8. \A x \in Ends : x # d => SteadyAt(x)
  BY <1>1, <1>2, SameSteady DEF AnswersStay, AnswerOf
<1>9. StartsStay
  BY <1>1, <1>2, <1>3, <1>4 DEF DissolveEffect, TaskInv, StartsStay, Unfinished, Taken, FirstOver,
     Absent, Ends, Same, InstSame, LockSame, ServeSame, TaskSame, RegSame, HeldSame, TaskMoves,
     OtherTasks, InstMoves, Starts, TasksStay
<1>10. Apart
  BY <1>1, <1>2, <1>3, <1>4 DEF DissolveEffect, TaskInv, Apart, AnswersStay, AnswerOf, Ends,
     Pending, Under, Same, InstSame, LockSame, ServeSame, TaskSame, RegSame, HeldSame, TaskMoves,
     OtherTasks, InstMoves, Starts, TasksStay
<1>11. NoStop
  BY <1>1, <1>2, <1>3, <1>4 DEF DissolveEffect, NoStop, Ends, Free, Same, InstSame, LockSame,
     ServeSame, TaskSame, RegSame, HeldSame, DownSame
<1> QED BY <1>5, <1>6, <1>7, <1>8, <1>9, <1>10, <1>11, HalvesStay DEF Steady

LEMMA NodeTakesHalf ==
  ASSUME PairInv, HalfInv, NEW d \in Ends, NEW u \in updates, u.to = d, NodeTakes(u)
  PROVE  HalfInv'
<1>1. (\A x \in Ends : x # d => Same(x)) /\ NodeTakesEffect(d, u)
  BY NodeTakesDoes
<1>2. AnswersStay
  BY DEF NodeTakes, AnswersStay, AnswerOf, PairInv, Types, TaskTypes, TaskPcs, Answers
<1>3. commits' = commits /\ ends' = ends /\ forgets' = forgets /\ notice' = notice /\ down' = down
  BY DEF NodeTakes, wire, registry, ghosts, bounds
<1>4. Plain(d) /\ TaskInv(d)
  BY PlainTypes DEF PairInv, EndInv, Ends
<1>5. FirstOver => FirstStays
  BY <1>1, <1>2, <1>3, <1>4 DEF NodeTakesEffect, TaskInv, FirstOver, FirstStays, Absent, Ends,
     Same, InstSame, LockSame, ServeSame, TaskSame, RegSame, HeldSame, TaskMoves, OtherTasks,
     InstMoves, Starts, TasksStay
<1>6. \A c \in commits' : First(c) => c \in commits
  BY <1>3
<1>7. SteadyAt(d)
  BY <1>1, <1>2, <1>3, <1>4 DEF NodeTakesEffect, TaskInv, SteadyAt, Pending, Refused, Asks, Under,
     Runs, Live, Absent, AnswersStay, AnswerOf, Plain, Sts, Same, InstSame, LockSame, ServeSame,
     TaskSame, RegSame, HeldSame, TaskMoves, OtherTasks, InstMoves, Starts, TasksStay
<1>8. \A x \in Ends : x # d => SteadyAt(x)
  BY <1>1, <1>2, SameSteady DEF AnswersStay, AnswerOf
<1>9. StartsStay
  BY <1>1, <1>2, <1>3, <1>4 DEF NodeTakesEffect, TaskInv, StartsStay, Unfinished, Taken,
     FirstOver, Absent, Ends, Same, InstSame, LockSame, ServeSame, TaskSame, RegSame, HeldSame,
     TaskMoves, OtherTasks, InstMoves, Starts, TasksStay
<1>10. Apart
  BY <1>1, <1>2, <1>3, <1>4 DEF NodeTakesEffect, TaskInv, Apart, AnswersStay, AnswerOf, Ends,
     Pending, Under, Same, InstSame, LockSame, ServeSame, TaskSame, RegSame, HeldSame, TaskMoves,
     OtherTasks, InstMoves, Starts, TasksStay
<1>11. NoStop
  BY <1>1, <1>2, <1>3, <1>4 DEF NodeTakesEffect, NoStop, Ends, Free, Same, InstSame, LockSame,
     ServeSame, TaskSame, RegSame, HeldSame, DownSame
<1> QED BY <1>5, <1>6, <1>7, <1>8, <1>9, <1>10, <1>11, HalvesStay DEF Steady

LEMMA AskUnansweredHalf ==
  ASSUME PairInv, HalfInv, NEW d \in Ends, NEW p \in Pids, AskUnanswered(d, p)
  PROVE  HalfInv'
<1>1. \A x \in Ends : Same(x)
  BY AskUnansweredDoes
<1>2. AnswerOf(d, p, "undelivered")
  BY SetAnswer DEF AskUnanswered, AnswersStay, AnswerOf, PairInv, Types, TaskTypes, TaskPcs,
     Answers
<1>3. ends' = ends /\ forgets' = forgets /\ notice' = notice /\ down' = down /\ commits' \subseteq commits
  BY DEF AskUnanswered, wire, registry, ghosts, bounds
<1>4. Plain(d) /\ TaskInv(d)
  BY PlainTypes DEF PairInv, EndInv, Ends
<1>5. FirstOver => FirstStays
  BY <1>1, <1>2, <1>3, <1>4 DEF TaskInv, FirstOver, FirstStays, Absent, Ends, Same, InstSame,
     LockSame, ServeSame, TaskSame, RegSame, HeldSame, TaskMoves, OtherTasks, InstMoves, Starts,
     TasksStay
<1>6. \A c \in commits' : First(c) => c \in commits
  BY <1>3
<1>7. SteadyAt(d)
  BY <1>1, <1>2, <1>3, <1>4 DEF TaskInv, SteadyAt, Pending, Refused, Asks, Under, Runs, Live,
     Absent, AnswersStay, AnswerOf, Plain, Sts, Same, InstSame, LockSame, ServeSame, TaskSame,
     RegSame, HeldSame, TaskMoves, OtherTasks, InstMoves, Starts, TasksStay
<1>8. \A x \in Ends : x # d => SteadyAt(x)
  BY <1>1, <1>2, SameSteady DEF AnswersStay, AnswerOf
<1>9. StartsStay
  BY <1>1, <1>2, <1>3, <1>4 DEF TaskInv, StartsStay, Unfinished, Taken, FirstOver, Absent, Ends,
     Same, InstSame, LockSame, ServeSame, TaskSame, RegSame, HeldSame, TaskMoves, OtherTasks,
     InstMoves, Starts, TasksStay
<1>10. Apart
  BY <1>1, <1>2, <1>3, <1>4 DEF TaskInv, Apart, AnswersStay, AnswerOf, Ends, Pending, Under, Same,
     InstSame, LockSame, ServeSame, TaskSame, RegSame, HeldSame, TaskMoves, OtherTasks, InstMoves,
     Starts, TasksStay
<1>11. NoStop
  BY <1>1, <1>2, <1>3, <1>4 DEF NoStop, Ends, Free, Same, InstSame, LockSame, ServeSame, TaskSame,
     RegSame, HeldSame, DownSame
<1> QED BY <1>5, <1>6, <1>7, <1>8, <1>9, <1>10, <1>11, HalvesStay DEF Steady

-----------------------------------------------------------------------------
(***************************************************************************)
(* The notices of an end                                                   *)
(***************************************************************************)

LEMMA LeftSteady ==
  ASSUME \A x \in Ends : Same(x), AnswersStay, commits' = commits
  PROVE  Steady
<1>1. FirstStays /\ StartsStay
  BY DEF FirstStays, StartsStay, Absent, Unfinished, Same, InstSame, TaskSame, Ends
<1>2. \A x \in Ends : SteadyAt(x)
  BY SameSteady DEF AnswersStay
<1> QED BY <1>1, <1>2 DEF Steady

LEMMA StopsKept ==
  ASSUME HalfInv, Steady, Apart, NoneStopped', StopTold' => StopTold
  PROVE  HalfInv'
<1>1. /\ (Taken => Taken') /\ (Gave2 => Gave2')
      /\ OneFirst' /\ AskHeld' /\ Refusals' /\ Halves'
  BY SteadyKeeps
<1>2. Untouched' \/ Taken'
  BY <1>1, ApartKeeps DEF HalfInv
<1>3. StopInv'
  BY <1>1 DEF HalfInv, StopInv
<1> QED BY <1>1, <1>2, <1>3 DEF HalfInv

\* The teardowns are those there were, whatever they have come to.
DownAsWas ==
  \A s \in down' : \E t \in down :
    t.from = s.from /\ t.pid = s.pid /\ t.stopped = s.stopped /\ t.kept = s.kept

LEMMA TeardownAsWas ==
  ASSUME DownTypes, NEW t \in down, NEW pc \in {"announce", "telling", "dissolve"},
         down' = (down \ {t}) \cup {[t EXCEPT !.pc = pc]}
  PROVE  DownAsWas
<1> DEFINE s == [t EXCEPT !.pc = pc]
<1>1. s.from = t.from /\ s.pid = t.pid /\ s.stopped = t.stopped /\ s.kept = t.kept
  BY DEF DownTypes
<1> HIDE DEF s
<1>2. down' = (down \ {t}) \cup {s}
  BY DEF s
<1> QED BY <1>1, <1>2 DEF DownAsWas

LEMMA AckedAsWas ==
  ASSUME DownTypes, NEW e, down' = Acked(e)
  PROVE  DownAsWas
<1> DEFINE f(t) == IF t.pc = "telling" /\ t.from = e.from /\ t.pid = e.pid
                      /\ t.stopped = e.stopped
                   THEN [t EXCEPT !.pc = "dissolve"] ELSE t
<1>1. ASSUME NEW t \in down
      PROVE  f(t).from = t.from /\ f(t).pid = t.pid /\ f(t).stopped = t.stopped /\ f(t).kept = t.kept
  BY DEF DownTypes
<1>2. down' = {f(t) : t \in down}
  BY DEF Acked
<1> HIDE DEF f
<1> QED BY <1>1, <1>2 DEF DownAsWas

LEMMA TakenAsWas ==
  ASSUME DownTypes, NEW e, EndTaken(e)
  PROVE  DownAsWas /\ forgets' \subseteq forgets \cup {e} /\ (forgets' = forgets \/ e.stopped)
<1>1. CASE e.stopped
  BY <1>1 DEF EndTaken, DownAsWas
<1>2. CASE ~e.stopped
  BY <1>2, AckedAsWas DEF EndTaken
<1> QED BY <1>1, <1>2

LEMMA AnnounceEndHalf ==
  ASSUME PairInv, HalfInv, NEW t \in down, AnnounceEnd(t)
  PROVE  HalfInv'
<1>1. \A x \in Ends : Same(x)
  BY AnnounceEndDoes
<1>2. AnswersStay /\ commits' = commits /\ forgets' = forgets /\ notice' = notice /\ lock' = lock
  BY DEF AnnounceEnd, AnswersStay, registry, bounds, ghosts
<1>3. DownAsWas
  BY TeardownAsWas DEF AnnounceEnd, PairInv, Types
<1>4. Steady
  BY <1>1, <1>2, LeftSteady
<1>5. Apart
  BY <1>1, <1>2, <1>3 DEF Apart, DownAsWas, AnswersStay, Same, TaskSame, Ends
<1>6. t.from \in Ends /\ (t.stopped => Absent(t.from))
  BY DEF PairInv, EndInv, DownInv, Absent, Types, DownTypes
<1>7. /\ ends' = ends \/ (reg[t.from] \/ t.kept)
      /\ \A e \in ends' : e \in ends \/ (e.from = t.from /\ e.stopped = t.stopped)
  BY DEF AnnounceEnd
<1>8. NoneStopped'
  BY <1>2, <1>3, <1>7 DEF HalfInv, NoneStopped, DownAsWas
<1>9. /\ (Taken => Taken') /\ (Gave2 => Gave2')
      /\ OneFirst' /\ AskHeld' /\ Refusals' /\ Halves'
  BY <1>4, SteadyKeeps
<1>10. ASSUME StopTold' PROVE Gave2
  <2>1. CASE StopTold
    BY <2>1 DEF HalfInv, StopInv
  <2>2. CASE ~StopTold
    <3>1. t.from = 2 /\ t.stopped /\ (reg[2] \/ t.kept)
      BY <1>2, <1>7, <1>10, <2>2 DEF StopTold
    <3>2. Taken
      BY <3>1 DEF HalfInv, Untouched
    <3> QED BY <1>6, <3>1, <3>2 DEF Gave2
  <2> QED BY <2>1, <2>2
<1>11. Untouched' \/ Taken'
  BY <1>4, <1>5, <1>9, ApartKeeps DEF HalfInv
<1> QED BY <1>8, <1>9, <1>10, <1>11 DEF HalfInv, StopInv

LEMMA EndUnansweredHalf ==
  ASSUME PairInv, HalfInv, NEW t \in down, EndUnanswered(t)
  PROVE  HalfInv'
<1>1. \A x \in Ends : Same(x)
  BY EndUnansweredDoes
<1>2. /\ AnswersStay /\ commits' = commits /\ forgets' = forgets /\ notice' = notice /\ lock' = lock
      /\ ends' \subseteq ends
  BY DEF EndUnanswered, AnswersStay, registry
<1>3. DownAsWas
  BY TeardownAsWas DEF EndUnanswered, PairInv, Types
<1>4. Steady
  BY <1>1, <1>2, LeftSteady
<1>5. Apart
  BY <1>1, <1>2, <1>3 DEF Apart, DownAsWas, AnswersStay, Same, TaskSame, Ends
<1>6. NoneStopped'
  BY <1>2, <1>3 DEF HalfInv, NoneStopped, DownAsWas
<1>7. StopTold' => StopTold
  BY <1>2 DEF StopTold
<1> QED BY <1>4, <1>5, <1>6, <1>7, StopsKept

LEMMA EndArrivesHalf ==
  ASSUME PairInv, HalfInv, NEW d \in Ends, NEW e \in ends, EndArrives(d, e)
  PROVE  HalfInv'
<1>1. (\A x \in Ends : x # d => Same(x)) /\ EndArrivesEffect(d, e)
  BY EndArrivesDoes
<1>2. AnswersStay /\ commits' = commits /\ ends' = ends \ {e} /\ task' = task /\ inst' = inst
  BY DEF EndArrives, AnswersStay, bounds
<1>3. /\ DownAsWas /\ forgets' \subseteq forgets \cup {e} /\ (forgets' = forgets \/ e.stopped)
  BY TakenAsWas DEF EndArrives, DownAsWas, PairInv, Types
<1>4. /\ \A x \in Ends : x # d => lock'[x] = lock[x] /\ notice'[x] = notice[x]
      /\ lock'[d] = "notice" => notice'[d] = e
      /\ lock[d] = "free" /\ lock'[d] # "serve" /\ ~reg'[d] /\ held' = held
  BY <1>1 DEF EndArrivesEffect, Same, LockSame, ServeSame, Free, EndArrives
<1>5. SteadyAt(d)
  BY <1>2, <1>4 DEF SteadyAt, Absent, Live, Pending, Refused, Asks, Runs
<1>6. Steady
  <2>1. FirstStays /\ StartsStay
    BY <1>2 DEF FirstStays, StartsStay, Absent, Unfinished
  <2>2. \A x \in Ends : x # d => SteadyAt(x)
    BY <1>1, <1>2, SameSteady
  <2> QED BY <1>2, <1>5, <2>1, <2>2 DEF Steady
<1>7. Apart
  BY <1>2, <1>3 DEF Apart, DownAsWas
<1>8. e.from = Other(d)
  BY DEF EndArrives
<1>9. NoneStopped'
  BY <1>2, <1>3, <1>4, <1>8 DEF HalfInv, NoneStopped, DownAsWas, Other, Ends
<1>10. StopTold' => StopTold
  BY <1>2, <1>3, <1>4, <1>8 DEF StopTold, HalfInv, NoneStopped, Other, Ends
<1> QED BY <1>6, <1>7, <1>9, <1>10, StopsKept

LEMMA EndToldHalf ==
  ASSUME PairInv, HalfInv, NEW d \in Ends, EndTold(d)
  PROVE  HalfInv'
<1>1. (\A x \in Ends : x # d => Same(x)) /\ EndToldEffect(d)
  BY EndToldDoes
<1>2. /\ AnswersStay /\ commits' = commits /\ ends' = ends /\ task' = task /\ inst' = inst
      /\ reg' = reg /\ held' = held
  BY DEF EndTold, AnswersStay, bounds, registry, wire
<1>3. /\ DownAsWas /\ forgets' \subseteq forgets \cup {notice[d]}
      /\ forgets' = forgets \/ notice[d].stopped
  BY TakenAsWas DEF EndTold, PairInv, Types
<1>4. /\ \A x \in Ends : x # d => lock'[x] = lock[x] /\ notice'[x] = notice[x]
      /\ lock[d] = "notice" /\ lock'[d] = "free" /\ notice[d].from = Other(d)
  BY <1>1 DEF EndToldEffect, Same, LockSame, ServeSame, PairInv, EndInv, LockInv
<1>5. SteadyAt(d)
  BY <1>2, <1>4 DEF SteadyAt, Absent, Live, Pending, Refused, Asks, Runs
<1>6. Steady
  <2>1. FirstStays /\ StartsStay
    BY <1>2 DEF FirstStays, StartsStay, Absent, Unfinished
  <2>2. \A x \in Ends : x # d => SteadyAt(x)
    BY <1>1, <1>2, SameSteady
  <2> QED BY <1>2, <1>5, <2>1, <2>2 DEF Steady
<1>7. Apart
  BY <1>2, <1>3 DEF Apart, DownAsWas
<1>8. NoneStopped'
  BY <1>2, <1>3, <1>4 DEF HalfInv, NoneStopped, DownAsWas, Other, Ends
<1>9. StopTold' => StopTold
  BY <1>2, <1>3, <1>4 DEF StopTold, HalfInv, NoneStopped, Other, Ends
<1> QED BY <1>6, <1>7, <1>8, <1>9, StopsKept

\* The peer was stopped: the pair that its daemon is made to forget it gave up.
LEMMA ForgetHalf ==
  ASSUME PairInv, HalfInv, NEW e \in forgets, Forget(e)
  PROVE  HalfInv'
<1>1. e.from = 2 /\ Gave2
  BY DEF HalfInv, NoneStopped, StopInv, StopTold, PairInv, Types, WireTypes, Ends
<1>2. /\ commits' = commits /\ ends' = ends /\ task' = task /\ inst' = inst /\ reg' = reg
      /\ lock' = lock /\ notice' = notice /\ forgets' = forgets \ {e}
  BY DEF Forget, wire
<1>3. ~held'[1] /\ held'[2] = held[2]
  BY <1>1 DEF Forget, Other, Ends, PairInv, Types, FlagTypes
<1>4. DownAsWas
  BY AckedAsWas DEF Forget, PairInv, Types
<1>5. (Taken => Taken') /\ (OneFirst => OneFirst')
  BY <1>2 DEF Taken, OneFirst, FirstOver, Absent, First
<1>6. Gave2' /\ (Gave1 => Gave1')
  BY <1>1, <1>2, <1>3, <1>5 DEF Gave1, Gave2, Absent, Asks, Runs
<1>7. NoneStopped'
  BY <1>2, <1>4 DEF HalfInv, NoneStopped, DownAsWas
<1>8. AskHeld' /\ Refusals' /\ Halves'
  BY <1>2, <1>3, <1>6 DEF HalfInv, AskHeld, Refusals, Halves, Refused, Asks, Runs, Live
<1>9. Taken'
  BY <1>1, <1>5 DEF Gave2
<1> QED BY <1>5, <1>6, <1>7, <1>8, <1>9 DEF HalfInv, StopInv

-----------------------------------------------------------------------------
(***************************************************************************)
(* The steps that make or keep a half, or ask for one                      *)
(***************************************************************************)

LEMMA HalfParts ==
  ASSUME HalfInv, Gave2 => Gave2', Untouched' \/ Taken', OneFirst', NoStop,
         AskHeld', Refusals', Halves'
  PROVE  HalfInv'
BY NoStopKeeps DEF HalfInv

\* A restart looks: it asks for what the slot keeps.
LEMMA LookAgainHalf ==
  ASSUME PairInv, HalfInv, NEW d \in Ends, NEW p \in Pids, LookAgain(d, p)
  PROVE  HalfInv'
<1>1. (\A x \in Ends : x # d => Same(x)) /\ LookAgainEffect(d, p)
  BY LookAgainDoes
<1>2. AnswersStay
  BY SetTaskAnswers DEF LookAgain, PairInv, Types, TaskPcs
<1>3. /\ commits' = commits /\ down' = down /\ ends' = ends /\ forgets' = forgets
      /\ notice' = notice /\ inst' = inst /\ reg' = reg /\ held' = held /\ lock' = lock
  BY DEF LookAgain, wire, registry, bounds, ghosts
<1>4. task[d][p].pc = "again" /\ task[d][p].again
  BY DEF LookAgain, PairInv, EndInv, TaskInv
<1>5. /\ task'[d][p].pc = "done" \/ (task'[d][p].pc = "lock" /\ Runs(d, p) /\ held[d])
      /\ task'[d][p].again
      /\ \A x \in Ends : \A q \in Pids : (x # d \/ q # p) =>
           task'[x][q].pc = task[x][q].pc /\ task'[x][q].again = task[x][q].again
  BY <1>1, <1>4 DEF LookAgainEffect, TaskMoves, OtherTasks, TaskSame
<1>6. FirstStays /\ (\A q \in Pids : Unfinished(1, q)' <=> Unfinished(1, q))
  BY <1>3, <1>4, <1>5 DEF FirstStays, Absent, Unfinished, Ends
<1>7. (Taken => Taken') /\ OneFirst'
  BY <1>3, <1>6, FirstGoesOn DEF HalfInv
<1>8. \A x \in Ends : \A q \in Pids : Asks(x, q)' => Asks(x, q) \/ held[x]
  <2>1. \A x \in Ends : \A q \in Pids : (x # d \/ q # p) => (Asks(x, q)' => Asks(x, q))
    BY <1>3, <1>5 DEF Asks, Runs
  <2>2. Asks(d, p)' => held[d]
    BY <1>5 DEF Asks, Under
  <2> QED BY <2>1, <2>2
<1>9. \A x \in Ends : \A q \in Pids : Refused(x, q)' => Refused(x, q)
  BY <1>2, <1>3, <1>5 DEF Refused, Asks, Runs, AnswersStay
<1>10. Gave1 => Gave1'
  BY <1>3, <1>4, <1>5, <1>7, <1>8 DEF Gave1, Ends
<1>11. Gave2 => Gave2'
  BY <1>3, <1>7 DEF Gave2, Absent
<1>12. Untouched => Untouched'
  BY <1>2, <1>3, <1>5 DEF Untouched, AnswersStay, Under, Ends
<1>13. AskHeld'
  BY <1>3, <1>8, <1>11 DEF HalfInv, AskHeld, Ends
<1>14. Refusals'
  BY <1>9, <1>10, <1>11 DEF HalfInv, Refusals, Ends
<1>15. Halves'
  BY <1>3, <1>6, <1>10, <1>11 DEF HalfInv, Halves, Live
<1>16. NoStop
  BY <1>3 DEF NoStop
<1> QED BY <1>7, <1>11, <1>12, <1>13, <1>14, <1>15, <1>16, HalfParts DEF HalfInv

\* A restart records its half: the slot keeps it, or the peer was stopped.
LEMMA PairAgainHalf ==
  ASSUME PairInv, HalfInv, NEW d \in Ends, NEW p \in Pids, PairAgain(d, p)
  PROVE  HalfInv'
<1>1. (\A x \in Ends : x # d => Same(x)) /\ PairAgainEffect(d, p)
  BY PairAgainDoes
<1>2. \/ AnswerOf(d, p, StackAnswer(d)) /\ (reg[d] \/ ~Live(d))
      \/ AnswersStay /\ task'[d][p].pc = "telling" /\ Live(d)
  <2>1. CASE StackAnswer(d) # "none"
    BY <2>1, EndTaskAnswer, OwnAnswers DEF PairAgain, PairInv, Types, StackAnswer
  <2>2. CASE StackAnswer(d) = "none"
    <3>1. AnswersStay
      BY <2>2, SetTaskAnswers DEF PairAgain, PairInv, Types, TaskPcs
    <3>2. Live(d) /\ ~reg[d]
      BY <2>2 DEF StackAnswer, WithoutProcess
    <3> QED BY <1>1, <3>1, <3>2 DEF PairAgainEffect, TaskMoves
  <2> QED BY <2>1, <2>2
<1>3. /\ commits' = commits /\ down' = down /\ ends' = ends /\ forgets' = forgets
      /\ notice' = notice /\ inst' = inst /\ held' = held
  BY DEF PairAgain, wire, registry, bounds, ghosts
<1>4. /\ task[d][p].pc = "lock" /\ task[d][p].again /\ lock[d] = "free"
      /\ Live(d) => Runs(d, p)
  BY DEF PairAgain, PairInv, EndInv, TaskInv, DownInv, Live, Runs, Torn, Free
<1>5. /\ task'[d][p].pc \in {"telling", "outcome"} /\ task'[d][p].again
      /\ \A x \in Ends : \A q \in Pids : (x # d \/ q # p) =>
           task'[x][q].pc = task[x][q].pc /\ task'[x][q].again = task[x][q].again
  BY <1>1, <1>4 DEF PairAgainEffect, TaskMoves, OtherTasks, TaskSame
<1>6. /\ lock'[d] # "serve" /\ (lock'[d] = "notice" => lock[d] = "notice")
      /\ reg'[d] => reg[d] \/ Live(d)
      /\ \A x \in Ends : x # d => lock'[x] = lock[x] /\ reg'[x] = reg[x]
  BY <1>1, <1>4 DEF PairAgainEffect, Same, LockSame, RegSame
<1>7. FirstStays /\ (\A q \in Pids : Unfinished(1, q)' <=> Unfinished(1, q))
  BY <1>3, <1>4, <1>5 DEF FirstStays, Absent, Unfinished, Ends
<1>8. (Taken => Taken') /\ OneFirst'
  BY <1>3, <1>7, FirstGoesOn DEF HalfInv
<1>9. Taken
  BY <1>4 DEF HalfInv, Untouched, Under
<1>10. \A x \in Ends : \A q \in Pids : Asks(x, q)' => Asks(x, q)
  BY <1>3, <1>4, <1>5 DEF Asks, Runs, Under
<1>11. \A x \in Ends : \A q \in Pids : Refused(x, q)' => Refused(x, q)
  <2>1. \A x \in Ends : \A q \in Pids : (x # d \/ q # p) => task'[x][q].ans = task[x][q].ans
    BY <1>2 DEF AnswersStay, AnswerOf
  <2>2. \A x \in Ends : \A q \in Pids : (x # d \/ q # p) => (Refused(x, q)' => Refused(x, q))
    BY <1>3, <1>5, <2>1 DEF Refused, Asks, Runs
  <2>3. CASE AnswersStay /\ task'[d][p].pc = "telling"
    BY <2>2, <2>3 DEF Refused
  <2>4. CASE AnswerOf(d, p, StackAnswer(d)) /\ (reg[d] \/ ~Live(d))
    <3>1. Runs(d, p) => StackAnswer(d) = "ok"
      BY <2>4 DEF StackAnswer, Live, Runs
    <3> QED BY <1>3, <2>2, <2>4, <3>1 DEF Refused, Asks, AnswerOf, Runs
  <2> QED BY <1>2, <2>3, <2>4
<1>12. Gave1 => Gave1'
  BY <1>3, <1>4, <1>5, <1>6, <1>8, <1>10 DEF Gave1, Ends
<1>13. Gave2 => Gave2'
  BY <1>3, <1>4, <1>6, <1>8 DEF Gave2, Absent, Ends
<1>14. AskHeld'
  BY <1>3, <1>10, <1>13 DEF HalfInv, AskHeld, Ends
<1>15. Refusals'
  BY <1>11, <1>12, <1>13 DEF HalfInv, Refusals, Ends
<1>16. Live(d) => /\ d = 1 => held[1] \/ Gave2
                  /\ d = 2 => held[2]
  BY <1>4 DEF HalfInv, AskHeld, Asks, Under
<1>17. Halves'
  BY <1>3, <1>4, <1>6, <1>7, <1>12, <1>13, <1>16 DEF HalfInv, Halves, Live, Ends
<1>18. NoStop
  BY <1>3, <1>6 DEF NoStop
<1> QED BY <1>8, <1>9, <1>13, <1>14, <1>15, <1>17, <1>18, HalfParts DEF HalfInv

LEMMA ApartHolds ==
  ASSUME Untouched', OneFirst', NoneStopped', ~StopTold',
         reg'[1] /\ Live(1)' => \E q \in Pids : Unfinished(1, q)'
  PROVE  HalfInv'
<1>1. \A x \in Ends : \A p \in Pids : ~Asks(x, p)'
  BY DEF Untouched, Asks
<1>2. AskHeld' /\ Refusals'
  BY <1>1 DEF AskHeld, Refusals, Refused, Ends
<1>3. Halves' /\ StopInv'
  BY DEF Halves, Untouched, StopInv
<1> QED BY <1>2, <1>3 DEF HalfInv

\* Before the first start is over nothing of the pair is anywhere else.
LEMMA BeforeFirst ==
  ASSUME HalfInv, ~FirstOver
  PROVE  Untouched /\ (\A c \in commits : ~First(c)) /\ ~StopTold
BY DEF HalfInv, Taken, OneFirst, StopInv, Gave2

\* A first start is of daemon 1, and no other is under way.
LEMMA FirstAlone ==
  ASSUME PairInv, NEW d \in Ends, NEW p \in Pids, ~task[d][p].again,
         task[d][p].pc \notin {"none", "boot", "done"}
  PROVE  /\ d = 1
         /\ \A q \in Pids : q # p => task[1][q].again \/ task[1][q].pc \in {"none", "done"}
<1>1. d = 1
  BY DEF PairInv, EndInv, TaskInv
<1>2. Unfinished(1, p) /\ FirstInv(1)
  BY <1>1 DEF Unfinished, PairInv, EndInv
<1> QED BY <1>1, <1>2 DEF FirstInv, Unfinished

\* A restart asks for its held pair.
LEMMA AskPeerAgainHalf ==
  ASSUME PairInv, HalfInv, NEW d \in Ends, NEW p \in Pids, AskPeer(d, p), task[d][p].again
  PROVE  HalfInv'
<1>1. (\A x \in Ends : x # d => Same(x)) /\ AskPeerEffect(d, p)
  BY AskPeerDoes
<1> DEFINE a == IF Live(d) THEN "none" ELSE WithoutProcess(d)
<1>2. a \in {"none", "refused", "undelivered"} /\ (Live(d) => a = "none")
  BY DEF WithoutProcess
<1>3. task' = [task EXCEPT ![d][p].pc = "asking", ![d][p].ans = a]
  BY DEF AskPeer
<1> HIDE DEF a
<1>4. AnswerOf(d, p, a)
  BY <1>2, <1>3, BothSetAnswer DEF PairInv, Types, TaskPcs, Answers
<1>5. /\ \A c \in commits' : c \in commits \/ c.held
      /\ down' = down /\ ends' = ends /\ forgets' = forgets /\ notice' = notice
  BY DEF AskPeer, bounds
<1>6. task[d][p].pc = "telling" /\ lock[d] = "start" /\ lock'[d] = "free"
  BY <1>1 DEF AskPeerEffect, PairInv, EndInv, LockInv, Keeps
<1>7. /\ task'[d][p].pc = "asking" /\ task'[d][p].again
      /\ \A x \in Ends : \A q \in Pids : (x # d \/ q # p) =>
           task'[x][q].pc = task[x][q].pc /\ task'[x][q].again = task[x][q].again
  BY <1>1 DEF AskPeerEffect, TaskMoves, OtherTasks, TaskSame
<1>8. inst'[d] = inst[d] /\ reg'[d] = reg[d] /\ held'[d] = held[d]
  BY <1>1 DEF AskPeerEffect, InstSame, RegSame, HeldSame
<1>9. FirstStays /\ StartsStay
  <2>1. Absent(1)' => Absent(1)
    BY <1>1, <1>8 DEF Absent, Same, InstSame, Ends
  <2>2. \A q \in Pids : task'[1][q].again \/ (/\ task'[1][q].pc = task[1][q].pc
                                              /\ task'[1][q].again = task[1][q].again)
    BY <1>7 DEF Ends
  <2>3. \A q \in Pids : ~task[1][q].again => task'[1][q].pc = task[1][q].pc /\ ~task'[1][q].again
    BY <1>7 DEF Ends
  <2> QED BY <2>1, <2>2, <2>3 DEF FirstStays, StartsStay, Unfinished
<1>10. SteadyAt(d)
  <2>1. \A q \in Pids : Pending(d, q)' => Pending(d, q) /\ (Runs(d, q)' => Runs(d, q))
    BY <1>6, <1>7, <1>8 DEF Pending, Under, Runs
  <2>2. \A q \in Pids : q # p => (Refused(d, q)' => Refused(d, q))
    BY <1>4, <1>7, <1>8 DEF AnswerOf, Refused, Asks, Runs
  <2>3. ~Refused(d, p)'
    BY <1>2, <1>4, <1>8 DEF AnswerOf, Refused, Asks, Runs, Live
  <2> QED BY <1>6, <1>8, <2>1, <2>2, <2>3 DEF SteadyAt, Absent, Live
<1>11. \A x \in Ends : x # d => SteadyAt(x)
  BY <1>1, <1>4, SameSteady DEF AnswerOf
<1>12. Steady
  BY <1>5, <1>9, <1>10, <1>11 DEF Steady, First
<1>13. Apart
  <2>1. Pending(d, p)
    BY <1>6 DEF Pending, Under
  <2>2. ASSUME NEW q \in Pids, task'[1][q].pc = "asking", task'[1][q].ans = "ok"
        PROVE  task[1][q].pc = "asking" /\ task[1][q].ans = "ok"
    BY <1>2, <1>4, <1>7, <2>2 DEF AnswerOf, Ends
  <2> QED BY <1>5, <2>1, <2>2 DEF Apart
<1>14. NoStop
  BY <1>1, <1>5, <1>6 DEF NoStop, Same, LockSame
<1> QED BY <1>12, <1>13, <1>14, HalvesStay

\* The first start asks: nothing of the pair has left daemon 1 before.
LEMMA AskPeerFirstHalf ==
  ASSUME PairInv, HalfInv, NEW d \in Ends, NEW p \in Pids, AskPeer(d, p), ~task[d][p].again
  PROVE  HalfInv'
<1>1. (\A x \in Ends : x # d => Same(x)) /\ AskPeerEffect(d, p)
  BY AskPeerDoes
<1>2. d = 1 /\ \A q \in Pids : q # p => task[1][q].again \/ task[1][q].pc \in {"none", "done"}
  BY FirstAlone DEF AskPeer
<1>3. Untouched /\ (\A c \in commits : ~First(c)) /\ ~StopTold
  BY <1>2, BeforeFirst DEF FirstOver, AskPeer
<1> DEFINE a == IF Live(d) THEN "none" ELSE WithoutProcess(d)
<1>4. a \in {"none", "refused", "undelivered"}
  BY DEF WithoutProcess
<1>5. task' = [task EXCEPT ![d][p].pc = "asking", ![d][p].ans = a]
  BY DEF AskPeer
<1> HIDE DEF a
<1>6. AnswerOf(d, p, a)
  BY <1>4, <1>5, BothSetAnswer DEF PairInv, Types, TaskPcs, Answers
<1>7. /\ inst' = inst /\ down' = down /\ ends' = ends /\ forgets' = forgets /\ notice' = notice
      /\ reg' = reg /\ held' = held /\ lock' = lock
  <2>1. lock' = lock
    BY <1>2 DEF AskPeer, PairInv, Types, LockTypes
  <2> QED BY <2>1 DEF AskPeer, bounds, registry
<1>8. /\ task'[1][p].pc = "asking" /\ ~task'[1][p].again
      /\ \A x \in Ends : \A q \in Pids : (x # 1 \/ q # p) =>
           /\ task'[x][q].pc = task[x][q].pc /\ task'[x][q].again = task[x][q].again
           /\ task'[x][q].ans = task[x][q].ans
  BY <1>1, <1>2, <1>6 DEF AskPeerEffect, TaskMoves, OtherTasks, TaskSame, AnswerOf
<1>9. \/ commits' = commits
      \/ Live(1) /\ \E n \in [from : {1}, pid : {p}, held : {FALSE}] : commits' = commits \cup {n}
  <2>1. task[1][p].again = FALSE
    BY <1>2 DEF PairInv, Types, TaskTypes, TaskRecs
  <2> QED BY <1>2, <2>1 DEF AskPeer
<1>10. Untouched'
  <2>1. ~reg'[2] /\ \A x \in Ends : ~held'[x] /\ lock'[x] # "serve"
    BY <1>3, <1>7 DEF Untouched
  <2>2. \A x \in Ends : \A q \in Pids : task'[x][q].again => task'[x][q].pc \notin Under
    BY <1>3, <1>8 DEF Untouched
  <2>3. \A q \in Pids : task'[1][q].pc = "asking" => task'[1][q].ans # "ok"
    BY <1>2, <1>3, <1>4, <1>6, <1>8 DEF Untouched, AnswerOf, Ends
  <2>4. \A c \in commits' : ~c.held
    BY <1>3, <1>9 DEF Untouched
  <2> QED BY <1>3, <1>7, <2>1, <2>2, <2>3, <2>4 DEF Untouched
<1>11. Live(1) => FirstOver'
  BY <1>2, <1>7, <1>8 DEF FirstOver, Absent, Live, Ends
<1>12. OneFirst'
  BY <1>3, <1>9, <1>11 DEF OneFirst, First
<1>13. NoneStopped' /\ ~StopTold'
  BY <1>3, <1>7 DEF HalfInv, NoneStopped, StopTold
<1>14. Unfinished(1, p)'
  BY <1>8 DEF Unfinished
<1> QED BY <1>10, <1>12, <1>13, <1>14, ApartHolds

LEMMA AskPeerHalf ==
  ASSUME PairInv, HalfInv, NEW d \in Ends, NEW p \in Pids, AskPeer(d, p)
  PROVE  HalfInv'
BY AskPeerAgainHalf, AskPeerFirstHalf

\* The first start is told that both halves are made.
LEMMA PeerAgreesFirstHalf ==
  ASSUME PairInv, HalfInv, NEW d \in Ends, NEW p \in Pids, PeerAgrees(d, p), ~task[d][p].again
  PROVE  HalfInv'
<1>1. (\A x \in Ends : x # d => Same(x)) /\ PeerAgreesEffect(d, p)
  BY PeerAgreesDoes
<1>2. d = 1 /\ task[1][p].pc = "asking" /\ task[1][p].ans = "ok"
  BY FirstAlone DEF PeerAgrees
<1>3. AnswersStay
  BY SetTaskAnswers DEF PeerAgrees, PairInv, Types, TaskPcs
<1>4. /\ commits' = commits /\ down' = down /\ ends' = ends /\ forgets' = forgets
      /\ notice' = notice /\ inst' = inst /\ reg' = reg
  BY DEF PeerAgrees, wire, bounds
<1>5. Taken /\ ~Gave1
  BY <1>2 DEF HalfInv, Untouched, Gave1
<1>6. /\ held'[1] /\ held'[2] = held[2] /\ lock'[1] = "free" /\ lock'[2] = lock[2]
  <2>1. Present(1)
    BY <1>5 DEF Taken, FirstOver, Absent, Present
  <2>2. held'[1] = Present(1) /\ lock'[1] = "free"
    BY <1>1, <1>2 DEF PeerAgreesEffect
  <2>3. held'[1]
    BY <2>1, <2>2
  <2> QED BY <1>1, <1>2, <2>2, <2>3 DEF Same, HeldSame, LockSame, Ends
<1>7. /\ task'[1][p].pc = "done" /\ ~task'[1][p].again
      /\ \A x \in Ends : \A q \in Pids : (x # 1 \/ q # p) =>
           task'[x][q].pc = task[x][q].pc /\ task'[x][q].again = task[x][q].again
  BY <1>1, <1>2 DEF PeerAgreesEffect, TaskMoves, OtherTasks, TaskSame
<1>8. FirstStays
  BY <1>2, <1>4, <1>7 DEF FirstStays, Absent, Ends
<1>9. (Taken => Taken') /\ OneFirst'
  BY <1>4, <1>8, FirstGoesOn DEF HalfInv
<1>10. Gave2 => Gave2'
  BY <1>4, <1>6, <1>9 DEF Gave2, Absent
<1>11. \A x \in Ends : \A q \in Pids :
         (Asks(x, q)' => Asks(x, q)) /\ (Refused(x, q)' => Refused(x, q))
  BY <1>3, <1>4, <1>7 DEF Asks, Refused, Runs, AnswersStay, Ends
<1>12. AskHeld' /\ Refusals'
  BY <1>5, <1>6, <1>10, <1>11 DEF HalfInv, AskHeld, Refusals, Ends
<1>13. Halves'
  BY <1>4, <1>5, <1>6 DEF HalfInv, Halves, Live
<1>14. NoStop
  BY <1>4, <1>6 DEF NoStop, Ends
<1> QED BY <1>5, <1>9, <1>10, <1>12, <1>13, <1>14, HalfParts

LEMMA PeerAgreesHalf ==
  ASSUME PairInv, HalfInv, NEW d \in Ends, NEW p \in Pids, PeerAgrees(d, p)
  PROVE  HalfInv'
BY PeerAgreesAgainHalf, PeerAgreesFirstHalf

LEMMA TasksAside ==
  ASSUME NEW d \in Ends, NEW p \in Pids, task'[d][p].again = task[d][p].again, OtherTasks(d, p)
  PROVE  /\ \A x \in Ends : \A q \in Pids : (x # d \/ q # p) => task'[x][q].pc = task[x][q].pc
         /\ \A x \in Ends : \A q \in Pids : task'[x][q].again = task[x][q].again
BY DEF OtherTasks, TaskSame

\* The outcome of a restart whose process runs: the slot keeps the pair that the
\* peer made, and not one that it gave up.
LEMMA OutcomeHalf ==
  ASSUME PairInv, HalfInv, NEW d \in Ends, NEW p \in Pids, Outcome(d, p)
  PROVE  HalfInv'
<1>1. (\A x \in Ends : x # d => Same(x)) /\ OutcomeEffect(d, p)
  BY OutcomeDoes
<1>2. AnswersStay
  BY SetTaskAnswers DEF Outcome, PairInv, Types, TaskPcs
<1>3. /\ commits' = commits /\ down' = down /\ ends' = ends /\ forgets' = forgets
      /\ notice' = notice /\ inst' = inst /\ reg' = reg /\ lock' = lock
  BY DEF Outcome, wire, bounds
<1>4. task[d][p].pc = "outcome" /\ task[d][p].again
  BY DEF Outcome, PairInv, EndInv, TaskInv
<1>5. /\ task'[d][p].pc = "done"
      /\ \A x \in Ends : \A q \in Pids : (x # d \/ q # p) => task'[x][q].pc = task[x][q].pc
      /\ \A x \in Ends : \A q \in Pids : task'[x][q].again = task[x][q].again
  BY <1>1, TasksAside DEF OutcomeEffect, TaskMoves
<1>6. Taken
  BY <1>4 DEF HalfInv, Untouched, Under
<1>7. FirstStays /\ (\A q \in Pids : Unfinished(1, q)' <=> Unfinished(1, q))
  BY <1>3, <1>4, <1>5 DEF FirstStays, Absent, Unfinished, Ends
<1>8. Taken' /\ OneFirst'
  BY <1>3, <1>6, <1>7, FirstGoesOn DEF HalfInv
<1>9. \A x \in Ends : \A q \in Pids :
        (Asks(x, q)' => Asks(x, q)) /\ (Refused(x, q)' => Refused(x, q))
  BY <1>2, <1>3, <1>4, <1>5 DEF Asks, Refused, Runs, AnswersStay, Under
<1>10. NoStop
  BY <1>3 DEF NoStop
<1>11. \A x \in Ends : x # d => held'[x] = held[x]
  BY <1>1 DEF Same, HeldSame
<1>12. CASE held'[d] = held[d]
  <2>1. \A x \in Ends : held'[x] = held[x]
    BY <1>11, <1>12
  <2>2. Gave1 => Gave1'
    BY <1>3, <1>4, <1>5, <1>8, <1>9, <2>1 DEF Gave1, Ends
  <2>3. Gave2 => Gave2'
    BY <1>3, <1>8, <2>1 DEF Gave2, Absent, Ends
  <2>4. AskHeld' /\ Refusals'
    BY <1>9, <2>1, <2>2, <2>3 DEF HalfInv, AskHeld, Refusals, Ends
  <2>5. Halves'
    BY <1>3, <1>7, <2>1, <2>2, <2>3 DEF HalfInv, Halves, Live, Ends
  <2> QED BY <1>8, <1>10, <2>3, <2>4, <2>5, HalfParts
<1>13. CASE held'[d] # held[d]
  <2>1. Asks(d, p) /\ Runs(d, p) /\ task[d][p].ans \in {"ok", "refused"}
    BY <1>4, <1>13 DEF Outcome, Asks, Under, PairInv, Types, FlagTypes
  <2>2. \/ task[d][p].ans = "ok" /\ held'[d] /\ ~held[d]
        \/ task[d][p].ans = "refused" /\ ~held'[d]
    BY <1>13, <2>1 DEF Outcome, PairInv, Types, FlagTypes
  <2>3. CASE d = 1
    <3>1. ~Gave1 /\ held'[2] = held[2]
      BY <1>11, <2>1, <2>3 DEF Gave1, Ends
    <3>2. Gave2 => Gave2'
      BY <1>3, <1>8, <3>1 DEF Gave2, Absent
    <3>3. held'[1] \/ Gave2'
      BY <1>4, <2>1, <2>2, <2>3, <3>2 DEF HalfInv, Refusals, Refused
    <3>4. AskHeld' /\ Refusals'
      BY <1>9, <3>1, <3>2, <3>3 DEF HalfInv, AskHeld, Refusals, Ends
    <3>5. Halves'
      BY <1>3, <3>1, <3>3 DEF HalfInv, Halves, Live
    <3> QED BY <1>8, <1>10, <3>2, <3>4, <3>5, HalfParts
  <2>4. CASE d = 2
    <3>1. held[2]
      BY <2>1, <2>4 DEF HalfInv, AskHeld
    <3>2. ~held'[2] /\ task[2][p].ans = "refused" /\ held'[1] = held[1]
      BY <1>11, <2>2, <2>4, <3>1 DEF Ends
    <3>3. Gave1
      BY <1>4, <2>1, <2>4, <3>2 DEF HalfInv, Refusals, Refused
    <3>4. Gave1'
      BY <1>3, <1>5, <1>8, <1>9, <2>4, <3>2, <3>3 DEF Gave1, Ends
    <3>5. Gave2 => Gave2'
      BY <1>3, <1>8, <3>2 DEF Gave2, Absent
    <3>6. \A q \in Pids : ~Asks(2, q)'
      BY <1>3, <1>5, <2>1, <2>4 DEF Asks, Runs, Under
    <3>7. AskHeld' /\ Refusals'
      BY <1>9, <3>2, <3>4, <3>5, <3>6 DEF HalfInv, AskHeld, Refusals, Ends
    <3>8. Halves'
      BY <1>3, <1>7, <3>2, <3>4, <3>5 DEF HalfInv, Halves, Live
    <3> QED BY <1>8, <1>10, <3>5, <3>7, <3>8, HalfParts
  <2> QED BY <2>3, <2>4 DEF Ends
<1> QED BY <1>12, <1>13

\* An instance is started anew.
LEMMA StartFirstHalf ==
  ASSUME PairInv, HalfInv, NEW d \in Ends, StartFirst(d)
  PROVE  HalfInv'
<1>1. (\A x \in Ends : x # d => Same(x)) /\ StartFirstEffect(d)
  BY StartFirstDoes
<1> DEFINE n == inst[d].pid + 1
<1>2. n \in Pids /\ AnswerOf(d, n, "none")
  BY <1>1, NewProcessAnswer DEF StartFirst, PairInv, Types, TaskPcs, StartFirstEffect, Starts
<1>3. /\ commits' = commits /\ down' = down /\ ends' = ends /\ forgets' = forgets
      /\ notice' = notice /\ reg' = reg /\ lock' = lock
  BY DEF StartFirst, bounds
<1>4. /\ task'[d][n].pc = (IF d = 1 THEN "reserve" ELSE "boot") /\ ~task'[d][n].again
      /\ \A x \in Ends : \A q \in Pids : (x # d \/ q # n) =>
           /\ task'[x][q].pc = task[x][q].pc /\ task'[x][q].again = task[x][q].again
           /\ task'[x][q].ans = task[x][q].ans
  BY <1>1, <1>2 DEF StartFirstEffect, Starts, OtherTasks, TaskSame, AnswerOf
<1>5. /\ Absent(d) /\ inst'[d].st = "starting" /\ ~held'[d]
      /\ \A x \in Ends : x # d => held'[x] = held[x] /\ inst'[x] = inst[x]
  BY <1>1 DEF StartFirstEffect, Starts, Absent, Same, HeldSame, InstSame
<1>6. ~reg[d] /\ lock[d] # "serve"
  BY <1>1, <1>5 DEF StartFirstEffect, PairInv, EndInv, DownInv, Absent, Live, Free
<1> HIDE DEF n
<1>7. Untouched => Untouched'
  <2>1. ASSUME Untouched PROVE ~reg'[2] /\ \A x \in Ends : ~held'[x] /\ lock'[x] # "serve"
    BY <1>3, <1>5, <2>1 DEF Untouched
  <2>2. ASSUME Untouched
        PROVE  /\ \A x \in Ends : \A q \in Pids : task'[x][q].again => task'[x][q].pc \notin Under
               /\ \A q \in Pids : task'[1][q].pc = "asking" => task'[1][q].ans # "ok"
    BY <1>2, <1>4, <2>2 DEF Untouched, AnswerOf, Ends
  <2> QED BY <1>3, <2>1, <2>2 DEF Untouched
<1>8. CASE d = 1
  <2>1. Untouched /\ (\A c \in commits : ~First(c)) /\ ~StopTold
    BY <1>5, <1>8, BeforeFirst DEF FirstOver
  <2>2. OneFirst' /\ NoneStopped' /\ ~StopTold'
    BY <1>3, <2>1 DEF OneFirst, HalfInv, NoneStopped, StopTold, First
  <2> QED BY <1>3, <1>6, <1>7, <1>8, <2>1, <2>2, ApartHolds
<1>9. CASE d = 2
  <2>1. FirstStays /\ (\A q \in Pids : Unfinished(1, q)' <=> Unfinished(1, q))
    BY <1>4, <1>5, <1>9 DEF FirstStays, Absent, Unfinished, Ends
  <2>2. (Taken => Taken') /\ OneFirst'
    BY <1>3, <2>1, FirstGoesOn DEF HalfInv
  <2>3. /\ \A q \in Pids : ~Asks(2, q)' /\ (Asks(1, q)' <=> Asks(1, q))
        /\ \A q \in Pids : Refused(1, q)' => Refused(1, q)
    BY <1>4, <1>5, <1>9 DEF Asks, Refused, Runs, Ends
  <2>4. held'[1] = held[1] /\ ~held'[2]
    BY <1>5, <1>9 DEF Ends
  <2>5. Gave1 => Gave1'
    BY <1>3, <1>4, <1>9, <2>2, <2>3, <2>4 DEF Gave1, Ends
  <2>6. Gave2 => Gave2'
    BY <1>3, <1>6, <1>9, <2>2, <2>4 DEF Gave2
  <2>7. AskHeld' /\ Refusals'
    BY <2>3, <2>4, <2>6 DEF HalfInv, AskHeld, Refusals, Refused
  <2>8. Live(1)' => Live(1)
    BY <1>5, <1>9 DEF Live, Ends
  <2>9. Halves'
    BY <1>3, <1>6, <1>9, <2>1, <2>4, <2>5, <2>6, <2>8 DEF HalfInv, Halves
  <2>10. NoStop
    BY <1>3 DEF NoStop
  <2> QED BY <1>7, <2>2, <2>6, <2>7, <2>9, <2>10, HalfParts DEF HalfInv
<1> QED BY <1>8, <1>9 DEF Ends

\* A first start reserves the pair, or gives up.
LEMMA ReserveHalf ==
  ASSUME PairInv, HalfInv, NEW p \in Pids, Reserve(p)
  PROVE  HalfInv'
<1>1. (\A x \in Ends : x # 1 => Same(x)) /\ ReserveEffect(p)
  BY ReserveDoes
<1>2. task[1][p].pc = "reserve" /\ ~task[1][p].again
  BY DEF Reserve, PairInv, EndInv, TaskInv, Ends
<1>3. Untouched /\ (\A c \in commits : ~First(c)) /\ ~StopTold
  BY <1>2, BeforeFirst DEF FirstOver
<1>4. AnswersStay
  BY SetTaskAnswers DEF Reserve, SetTask, PairInv, Types, TaskPcs, Ends
<1>5. /\ commits' = commits /\ down' = down /\ ends' = ends /\ forgets' = forgets
      /\ notice' = notice /\ held' = held /\ lock' = lock
  BY DEF Reserve, wire, bounds
<1>6. /\ task'[1][p].pc \in {"done", "boot"} /\ ~task'[1][p].again /\ reg'[2] = reg[2]
      /\ reg'[1] => task'[1][p].pc = "boot"
      /\ \A x \in Ends : \A q \in Pids : (x # 1 \/ q # p) =>
           task'[x][q].pc = task[x][q].pc /\ task'[x][q].again = task[x][q].again
  BY <1>1, <1>2 DEF ReserveEffect, TaskMoves, OtherTasks, TaskSame, Same, RegSame, Ends
<1>7. Untouched'
  <2>1. \A x \in Ends : \A q \in Pids : task'[x][q].again => task'[x][q].pc \notin Under
    BY <1>3, <1>6 DEF Untouched
  <2>2. \A q \in Pids : task'[1][q].pc = "asking" => task'[1][q].ans # "ok"
    BY <1>3, <1>4, <1>6 DEF Untouched, AnswersStay, Ends
  <2> QED BY <1>3, <1>5, <1>6, <2>1, <2>2 DEF Untouched
<1>8. OneFirst' /\ NoneStopped' /\ ~StopTold'
  BY <1>3, <1>5 DEF OneFirst, HalfInv, NoneStopped, StopTold, First
<1>9. reg'[1] => Unfinished(1, p)'
  BY <1>6 DEF Unfinished
<1> QED BY <1>7, <1>8, <1>9, ApartHolds

\* The instance that did not link the two is stopped: it gave the pair up.
LEMMA StopHalf ==
  ASSUME PairInv, HalfInv, 1 \notin Stoppable, NEW d \in Ends, Stop(d)
  PROVE  HalfInv'
<1>1. (\A x \in Ends : x # d => Same(x)) /\ StopEffect(d)
  BY StopDoes
<1>2. d = 2
  BY DEF Stop, Ends
<1>3. /\ commits' = commits /\ task' = task /\ ends' = ends /\ forgets' = forgets
      /\ notice' = notice /\ reg' = reg /\ lock' = lock
  BY DEF Stop, wire
<1>4. /\ Absent(2)' /\ ~held'[2] /\ held'[1] = held[1] /\ inst'[1] = inst[1]
  BY <1>1, <1>2 DEF StopEffect, InstMoves, Absent, Same, HeldSame, InstSame, Ends
<1>5. \E s \in [from : {2}, pid : {inst[2].pid}, stopped : {TRUE}, kept : {held[2]}, pc : {"announce"}] :
        down' = down \cup {s}
  BY <1>2 DEF Stop
<1>6. Untouched => Untouched'
  BY <1>3, <1>4, <1>5 DEF Untouched, Ends
<1>7. FirstStays
  BY <1>3, <1>4 DEF FirstStays, Absent
<1>8. (Taken => Taken') /\ OneFirst'
  BY <1>3, <1>7, FirstGoesOn DEF HalfInv
<1>9. /\ \A q \in Pids : ~Asks(2, q)' /\ (Asks(1, q)' <=> Asks(1, q))
      /\ \A q \in Pids : Refused(1, q)' => Refused(1, q)
  BY <1>3, <1>4 DEF Asks, Refused, Runs, Absent
<1>10. (Gave1 => Gave1') /\ (Taken => Gave2')
  BY <1>3, <1>4, <1>8, <1>9 DEF Gave1, Gave2
<1>11. Gave2 => Gave2'
  BY <1>10 DEF Gave2
<1>12. AskHeld' /\ Refusals'
  BY <1>4, <1>9, <1>11 DEF HalfInv, AskHeld, Refusals, Refused
<1>13. Halves'
  BY <1>3, <1>4, <1>10, <1>11 DEF HalfInv, Halves, Live, Absent, Unfinished
<1>14. NoStop
  BY <1>3, <1>5 DEF NoStop
<1> QED BY <1>6, <1>8, <1>11, <1>12, <1>13, <1>14, HalfParts DEF HalfInv

\* An answer but a refusal, or one to no restart that asks, makes none refused.
LEMMA AnswerRefuses ==
  ASSUME TaskTypes, NEW c, c.from \in Ends, c.pid \in Pids, NEW ans \in Answers,
         task' = Answered(c, ans), inst' = inst
  PROVE  \A x \in Ends : \A q \in Pids :
           /\ Asks(x, q)' <=> Asks(x, q)
           /\ Refused(x, q)' =>
                Refused(x, q) \/ (x = c.from /\ q = c.pid /\ ans = "refused" /\ Asks(x, q))
<1>1. TasksStay
  BY AnsweredStays
<1>2. AnswerOf(c.from, c.pid,
               IF task[c.from][c.pid].pc = "asking" /\ task[c.from][c.pid].ans = "none"
               THEN ans ELSE task[c.from][c.pid].ans)
  BY AnsweredAnswer
<1>3. \A x \in Ends : \A q \in Pids : Asks(x, q)' <=> Asks(x, q)
  BY <1>1 DEF Asks, Runs, TasksStay, TaskSame
<1>4. \A x \in Ends : \A q \in Pids : (x # c.from \/ q # c.pid) => (Refused(x, q)' => Refused(x, q))
  BY <1>1, <1>2, <1>3 DEF Refused, AnswerOf, TasksStay, TaskSame
<1>5. Refused(c.from, c.pid)' =>
        Refused(c.from, c.pid) \/ (ans = "refused" /\ Asks(c.from, c.pid))
  BY <1>1, <1>2, <1>3 DEF Refused, AnswerOf, TasksStay, TaskSame
<1> QED BY <1>3, <1>4, <1>5

\* What a peer's request comes upon, before and after it.
LEMMA RequestTaken ==
  ASSUME PairInv, HalfInv, NEW d \in Ends, NEW c \in commits, CommitFromPeer(d, c)
  PROVE  Taken' /\ OneFirst' /\ (d = 1 => Taken) /\ (c.held => Taken)
<1>1. c.from = Other(d) /\ (d = 1 => c.held) /\ TasksStay
  <2>1. \A x \in Ends : TaskSame(x)
    BY CommitFromPeerDoes DEF CommitFromPeerEffect, Same
  <2> QED BY <2>1, CommitFromPeerDoes DEF CommitFromPeerEffect, TasksStay
<1>2. inst' = inst /\ commits' = commits \ {c}
  BY DEF CommitFromPeer
<1>3. c.held => Taken
  BY DEF HalfInv, Untouched
<1>4. FirstStays
  BY <1>1, <1>2 DEF FirstStays, Absent, TasksStay, TaskSame, Ends
<1>5. (FirstOver => FirstOver') /\ (Taken => Taken') /\ OneFirst'
  BY <1>2, <1>4, FirstGoesOn DEF HalfInv
<1>6. CASE First(c)
  <2>1. FirstOver /\ \A b \in commits : First(b) => b = c
    BY <1>6 DEF HalfInv, OneFirst
  <2> QED BY <1>1, <1>2, <1>3, <1>5, <2>1 DEF Taken, First
<1>7. CASE ~First(c)
  <2>1. c.held
    BY <1>1, <1>7 DEF First, Other, Ends
  <2> QED BY <1>3, <1>5, <2>1
<1> QED BY <1>6, <1>7

\* The request is answered from the stack: a refusal tells that this end gave the
\* pair up.
LEMMA CommitAnsweredHalf ==
  ASSUME PairInv, HalfInv, NEW d \in Ends, NEW c \in commits, CommitFromPeer(d, c),
         CommitAnswer(d, c) # "none"
  PROVE  HalfInv'
<1>1. Taken' /\ OneFirst' /\ (d = 1 => Taken) /\ (c.held => Taken)
  BY RequestTaken
<1>2. /\ inst' = inst /\ reg' = reg /\ held' = held /\ lock' = lock /\ down' = down
      /\ ends' = ends /\ forgets' = forgets /\ notice' = notice
      /\ task' = Answered(c, CommitAnswer(d, c))
  BY DEF CommitFromPeer, bounds
<1>3. c.from = Other(d) /\ Free(d) /\ c.pid \in Pids /\ c.from \in Ends /\ (d = 1 => c.held)
  BY CommitFromPeerDoes, CommitIsTyped DEF CommitFromPeerEffect
<1>4. CommitAnswer(d, c) \in Answers
  BY OwnAnswers
<1>5. \A x \in Ends : \A q \in Pids :
        /\ Asks(x, q)' <=> Asks(x, q)
        /\ Refused(x, q)' =>
             Refused(x, q) \/ (x = c.from /\ CommitAnswer(d, c) = "refused" /\ Asks(x, q))
  <2>1. TaskTypes
    BY DEF PairInv, Types
  <2> QED BY <1>2, <1>3, <1>4, <2>1, AnswerRefuses
<1>6. TasksStay
  BY <1>2, <1>3, <1>4, AnsweredStays DEF PairInv, Types
<1>7. (Gave1 => Gave1') /\ (Gave2 => Gave2')
  BY <1>1, <1>2, <1>5, <1>6 DEF Gave1, Gave2, Absent, TasksStay, TaskSame, Ends
<1>8. AskHeld'
  BY <1>2, <1>5, <1>7 DEF HalfInv, AskHeld, Ends
<1>9. CommitAnswer(d, c) = "refused" => (c.held /\ ~held[d]) \/ Absent(d)
  BY DEF CommitAnswer, KeepsHeld, StackAnswer, WithoutProcess, Absent
<1>10. ASSUME d = 2 PROVE Refusals'
  <2>1. CommitAnswer(d, c) = "refused" => Gave2'
    BY <1>1, <1>2, <1>3, <1>9, <1>10 DEF Gave2, Absent, Free
  <2>2. Refusals'
    BY <1>3, <1>5, <1>7, <1>10, <2>1 DEF HalfInv, Refusals, Other, Ends
  <2> QED BY <2>2
<1>11. ASSUME d = 1 PROVE Refusals'
  <2>1. ASSUME NEW p \in Pids, Asks(2, p), CommitAnswer(d, c) = "refused"
        PROVE  Gave1
    <3>1. held[2] /\ ~Absent(2)
      BY <2>1 DEF HalfInv, AskHeld, Asks, Runs, Absent
    <3>2. ~Gave2
      BY <3>1 DEF Gave2
    <3>3. ~held[1]
      BY <1>1, <1>9, <1>11, <2>1 DEF Taken, FirstOver
    <3>4. \A q \in Pids : ~Asks(1, q)
      BY <3>2, <3>3 DEF HalfInv, AskHeld
    <3>5. \A q \in Pids : task[1][q].again \/ task[1][q].pc # "asking"
      BY <1>3, <1>11 DEF PairInv, EndInv, LockInv, Keeps, Free
    <3> QED BY <1>1, <1>3, <1>11, <3>3, <3>4, <3>5 DEF Gave1, Free
  <2>2. Refusals'
    BY <1>3, <1>5, <1>7, <1>11, <2>1 DEF HalfInv, Refusals, Other, Ends
  <2> QED BY <2>2
<1>12. Refusals'
  BY <1>10, <1>11 DEF Ends
<1>13. \A q \in Pids : Unfinished(1, q)' <=> Unfinished(1, q)
  BY <1>6 DEF Unfinished, TasksStay, TaskSame, Ends
<1>14. Halves'
  BY <1>2, <1>7, <1>13 DEF HalfInv, Halves, Live
<1>15. NoStop
  BY <1>2 DEF NoStop
<1> QED BY <1>1, <1>7, <1>8, <1>12, <1>14, <1>15, HalfParts

\* The request is served: this end did not give the pair up.
LEMMA CommitServedHalf ==
  ASSUME PairInv, HalfInv, NEW d \in Ends, NEW c \in commits, CommitFromPeer(d, c),
         CommitAnswer(d, c) = "none"
  PROVE  HalfInv'
<1>1. Taken' /\ OneFirst' /\ (d = 1 => Taken) /\ (c.held => Taken)
  BY RequestTaken
<1>2. /\ inst' = inst /\ held' = held /\ down' = down /\ ends' = ends /\ forgets' = forgets
      /\ notice' = notice /\ task' = task
  BY DEF CommitFromPeer, bounds
<1>3. /\ c.from = Other(d) /\ (d = 1 => c.held) /\ Live(d) /\ (c.held => held[d])
      /\ lock'[d] = "serve"
      /\ \A x \in Ends : x # d => lock'[x] = lock[x] /\ reg'[x] = reg[x]
  <2>1. (\A x \in Ends : x # d => Same(x)) /\ CommitFromPeerEffect(d, c)
    BY CommitFromPeerDoes
  <2>2. \A x \in Ends : x # d => lock'[x] = lock[x] /\ reg'[x] = reg[x]
    BY <2>1 DEF Same, LockSame, RegSame
  <2> QED BY <2>1, <2>2 DEF CommitFromPeerEffect
<1>4. /\ d = 1 => ~Gave1
      /\ d = 2 => ~Gave2
  <2>1. d = 1 => ~Gave1
    BY <1>3 DEF Gave1
  <2>2. CASE d = 2 /\ c.held
    BY <1>3, <2>2 DEF Gave2, Live, Absent
  <2>3. CASE d = 2 /\ ~c.held
    BY <1>3, <2>3 DEF Gave2, Taken, First, Other
  <2> QED BY <2>1, <2>2, <2>3
<1>5. (Gave1 => Gave1') /\ (Gave2 => Gave2')
  BY <1>1, <1>2, <1>3, <1>4 DEF Gave1, Gave2, Absent, Asks, Runs, Ends
<1>6. AskHeld' /\ Refusals'
  BY <1>2, <1>5 DEF HalfInv, AskHeld, Refusals, Refused, Asks, Runs, Ends
<1>7. Halves'
  BY <1>2, <1>3, <1>5 DEF HalfInv, Halves, Live, Unfinished, Ends
<1>8. NoStop
  BY <1>2, <1>3 DEF NoStop
<1> QED BY <1>1, <1>5, <1>6, <1>7, <1>8, HalfParts

LEMMA CommitFromPeerHalf ==
  ASSUME PairInv, HalfInv, NEW d \in Ends, NEW c \in commits, CommitFromPeer(d, c)
  PROVE  HalfInv'
BY CommitAnsweredHalf, CommitServedHalf

\* The request was served: the slot keeps the pair, or the half is cleared.
LEMMA CommitEndsHalf ==
  ASSUME PairInv, HalfInv, NEW d \in Ends, CommitEnds(d)
  PROVE  HalfInv'
<1>1. (\A x \in Ends : x # d => Same(x)) /\ CommitEndsEffect(d)
  BY CommitEndsDoes
<1>2. /\ inst' = inst /\ down' = down /\ ends' = ends /\ forgets' = forgets
      /\ notice' = notice /\ commits' = commits
  BY DEF CommitEnds, wire, bounds
<1>3. serve[d].from \in Ends /\ serve[d].pid \in Pids
  BY <1>1, ServedIsAsked DEF CommitEndsEffect
<1>4. TaskTypes
  BY DEF PairInv, Types
<1>5. /\ \A x \in Ends : \A q \in Pids :
           (Asks(x, q)' <=> Asks(x, q)) /\ (Refused(x, q)' => Refused(x, q))
      /\ TasksStay
  <2>1. CASE task' = Answered(serve[d], "ok")
    BY <1>2, <1>3, <1>4, <2>1, AnswerRefuses, AnsweredStays DEF Answers
  <2>2. CASE task' = Answered(serve[d], "undelivered")
    BY <1>2, <1>3, <1>4, <2>2, AnswerRefuses, AnsweredStays DEF Answers
  <2> QED BY <2>1, <2>2 DEF CommitEnds
<1>6. Taken
  BY <1>1 DEF CommitEndsEffect, HalfInv, Untouched
<1>7. FirstStays /\ (\A q \in Pids : Unfinished(1, q)' <=> Unfinished(1, q))
  BY <1>2, <1>5 DEF FirstStays, Absent, Unfinished, TasksStay, TaskSame, Ends
<1>8. Taken' /\ OneFirst'
  BY <1>2, <1>6, <1>7, FirstGoesOn DEF HalfInv
<1>9. /\ lock[d] = "serve" /\ lock'[d] = "free"
      /\ \/ (held'[d] <=> Present(d)) /\ reg'[d] = reg[d]
         \/ held'[d] = held[d] /\ ~reg'[d]
      /\ \A x \in Ends : x # d => lock'[x] = lock[x] /\ reg'[x] = reg[x] /\ held'[x] = held[x]
  BY <1>1 DEF CommitEndsEffect, HeldSame, RegSame, LockSame, Same
<1>10. ASSUME d = 1
      PROVE  (Gave2 => Gave2') /\ AskHeld' /\ Refusals' /\ Halves'
  <2>1. ~Gave1 /\ Present(1)
    BY <1>6, <1>9, <1>10 DEF Gave1, Taken, FirstOver, Absent, Present
  <2>2. Gave2 => Gave2'
    BY <1>2, <1>8, <1>9, <1>10 DEF Gave2, Absent, Ends
  <2>3. held[1] => held'[1]
    BY <1>9, <1>10, <2>1
  <2>4. reg'[1] => held'[1]
    BY <1>9, <1>10, <2>1
  <2>5. AskHeld' /\ Refusals'
    BY <1>5, <1>9, <1>10, <2>1, <2>2, <2>3 DEF HalfInv, AskHeld, Refusals, Ends
  <2>6. Halves'
    BY <1>2, <1>9, <1>10, <2>1, <2>4 DEF HalfInv, Halves, Live, Ends
  <2> QED BY <2>2, <2>5, <2>6
<1>11. ASSUME d = 2
      PROVE  (Gave2 => Gave2') /\ AskHeld' /\ Refusals' /\ Halves'
  <2>1. Gave2 => Gave2'
    BY <1>2, <1>8, <1>9, <1>11 DEF Gave2, Absent
  <2>2. Gave1 => Gave1'
    BY <1>5, <1>8, <1>9, <1>11 DEF Gave1, TasksStay, TaskSame, Ends
  <2>3. \A q \in Pids : Asks(2, q) => held'[2]
    BY <1>9, <1>11 DEF HalfInv, AskHeld, Asks, Runs, Present
  <2>4. reg'[2] /\ Live(2)' => held'[2]
    BY <1>2, <1>9, <1>11 DEF Live, Present
  <2>5. AskHeld' /\ Refusals'
    BY <1>5, <1>9, <1>11, <2>1, <2>2, <2>3 DEF HalfInv, AskHeld, Refusals, Ends
  <2>6. Halves'
    BY <1>2, <1>7, <1>9, <1>11, <2>1, <2>2, <2>4 DEF HalfInv, Halves, Live, Ends
  <2> QED BY <2>1, <2>5, <2>6
<1>12. NoStop
  BY <1>2, <1>9 DEF NoStop
<1>13. (Gave2 => Gave2') /\ AskHeld' /\ Refusals' /\ Halves'
  BY <1>10, <1>11 DEF Ends
<1> QED BY <1>8, <1>12, <1>13, HalfParts

-----------------------------------------------------------------------------
(***************************************************************************)
(* The halves are as the invariant says                                    *)
(***************************************************************************)

LEMMA HalfInit ==
  ASSUME Init
  PROVE  HalfInv
<1> USE DEF Init, Ends, NoTask
<1>1. Untouched /\ OneFirst /\ NoneStopped /\ ~StopTold
  BY DEF Untouched, OneFirst, NoneStopped, StopTold, Under
<1>2. \A x \in Ends : \A p \in Pids : ~Asks(x, p)
  BY DEF Asks, Under
<1>3. AskHeld /\ Refusals /\ Halves
  BY <1>2 DEF AskHeld, Refusals, Refused, Halves
<1> QED BY <1>1, <1>3 DEF HalfInv, StopInv

LEMMA HalfStutter ==
  ASSUME HalfInv, UNCHANGED vars
  PROVE  HalfInv'
<1>1. Steady /\ Apart /\ NoStop
  <2>1. \A x \in Ends : SteadyAt(x)
    BY DEF vars, SteadyAt, Absent, Live, Pending, Refused, Asks, Runs
  <2>2. FirstStays /\ StartsStay /\ Apart /\ NoStop
    BY DEF vars, FirstStays, StartsStay, Absent, Unfinished, Apart, NoStop
  <2>3. commits' = commits
    BY DEF vars
  <2> QED BY <2>1, <2>2, <2>3 DEF Steady
<1> QED BY <1>1, HalvesStay

LEMMA HalfStep ==
  ASSUME PairInv, HalfInv, 1 \notin Stoppable, Next
  PROVE  HalfInv'
<1>1. ASSUME NEW d \in Ends, NEW p \in Pids, TaskStep(d, p)
      PROVE  HalfInv'
  BY <1>1, DeliverHalf, LookAgainHalf, PairAgainHalf, OwnPinFailsHalf, AskPeerHalf,
     PeerAgreesHalf, PeerDoesNotHalf, RevertedHalf, DissolveFailedHalf, OutcomeHalf DEF TaskStep
<1>2. ASSUME NEW d \in Ends, StartAgain(d) \/ CommitRunning(d) \/ TellFails(d) \/ CommitEnds(d)
             \/ EndTold(d)
      PROVE  HalfInv'
  BY <1>2, StartAgainHalf, CommitRunningHalf, TellFailsHalf, CommitEndsHalf, EndToldHalf
<1>3. ASSUME NEW d \in Ends, StartFirst(d) \/ StartFails(d) \/ ProcExits(d) \/ Stop(d) \/ Prune(d)
      PROVE  HalfInv'
  BY <1>3, StartFirstHalf, StartFailsHalf, ProcExitsHalf, StopHalf, PruneHalf
<1>4. ASSUME NEW d \in Ends, NEW t \in down, t.from = d, AnnounceEnd(t) \/ Dissolve(t)
      PROVE  HalfInv'
  BY <1>4, AnnounceEndHalf, DissolveHalf
<1>5. ASSUME NEW d \in Ends, NEW u \in updates, u.to = d, NodeTakes(u)
      PROVE  HalfInv'
  BY <1>5, NodeTakesHalf
<1>6. ASSUME NEW d \in Ends, NEW c \in commits, CommitFromPeer(d, c)
      PROVE  HalfInv'
  BY <1>6, CommitFromPeerHalf
<1>7. ASSUME NEW d \in Ends, NEW e \in ends, EndArrives(d, e)
      PROVE  HalfInv'
  BY <1>7, EndArrivesHalf
<1>8. ASSUME NEW e \in forgets, Forget(e)
      PROVE  HalfInv'
  BY <1>8, ForgetHalf
<1>9. ASSUME NEW p \in Pids, Reserve(p)
      PROVE  HalfInv'
  BY <1>9, ReserveHalf
<1>10. ASSUME NEW d \in Ends, NEW p \in Pids, AskUnanswered(d, p)
      PROVE  HalfInv'
  BY <1>10, AskUnansweredHalf
<1>11. ASSUME NEW t \in down, EndUnanswered(t)
      PROVE  HalfInv'
  BY <1>11, EndUnansweredHalf
<1> QED BY <1>1, <1>2, <1>3, <1>4, <1>5, <1>6, <1>7, <1>8, <1>9, <1>10, <1>11 DEF Next, DaemonStep

\* While the instance that links the two is not stopped, a half that a process has
\* is kept for its restarts unless the other end can be made to keep the pair no
\* more, and an end answers a restart's request for the pair it kept with a refusal
\* only then (commit_pair_from_peer's look at keeps_held_pair, announce_end's notice
\* of a stop and forget_pairs_held_with).
THEOREM HalvesKept ==
  ASSUME 1 \notin Stoppable
  PROVE  Spec => [](Halves /\ Refusals)
<1>1. Init => HalfInv
  BY HalfInit
<1>2. PairInv /\ HalfInv /\ [Next]_vars => HalfInv'
  BY HalfStep, HalfStutter
<1>3. HalfInv => Halves /\ Refusals
  BY DEF HalfInv
<1> QED BY <1>1, <1>2, <1>3, PairInvariant, PTL DEF Spec

-----------------------------------------------------------------------------
(***************************************************************************)
(* One end restarts alone                                                  *)
(*                                                                         *)
(* While end d has restarted, without a fault, since all was at rest:      *)
(* nothing is under way but what its last process does.                    *)
(***************************************************************************)

Resting(x, q) == task[x][q].pc \in {"none", "done"}

\* The other end runs, starts nothing and has no half it does not keep.
PeerIdle(o) ==
  /\ inst[o].st = "running" /\ tell[o].pc # "err"
  /\ \A q \in Pids : Resting(o, q)
  /\ reg[o] /\ lock[o] # "serve" => held[o]

\* What is under way is the last process's, and of each kind at most one.
OnlyOf(d) ==
  /\ lock[d] \in {"free", "start"} /\ tell[d].pc # "err"
  /\ \A q \in Pids : q # inst[d].pid => Resting(d, q)
  /\ forgets = {}
  /\ \A c \in commits : /\ c.from = d /\ c.pid = inst[d].pid /\ c.held
                        /\ \A b \in commits : b = c
  /\ \A t \in down : t.from = d /\ ~t.stopped /\ \A s \in down : s = t
  /\ \A e \in ends : /\ e.from = d /\ e.pid = inst[d].pid /\ ~e.stopped
                     /\ \A f \in ends : f = e

\* The notice of the exit is on its way, or with the other daemon, while its sender
\* waits for the answer.
NoticeOf(d, o) ==
  /\ ends # {} => lock[o] # "notice"
  /\ lock[o] = "notice" => ~reg[o] /\ notice[o].pid = inst[d].pid /\ ~notice[o].stopped
  /\ ends # {} \/ lock[o] = "notice" => \E t \in down : t.pc = "telling"

\* The other daemon has no request.
Quiet(o) == commits = {} /\ lock[o] = "free"

\* The request is on its way, is served, or is answered by what the other end has.
Asked(d, o, p) ==
  \/ task[d][p].ans = "none" /\ commits # {} /\ lock[o] = "free"
  \/ task[d][p].ans = "none" /\ commits = {} /\ lock[o] = "serve" /\ serve[o].pid = p /\ reg[o]
  \/ task[d][p].ans = "ok" /\ Quiet(o) /\ reg[o]
  \/ task[d][p].ans = "refused" /\ Quiet(o) /\ ~reg[o]

\* How far the restart of the running process is.
RestartAt(d, o, p) ==
  /\ task[d][p].again
  /\ task[d][p].pc \in {"again", "lock", "telling", "asking", "reverting", "outcome", "done"}
  /\ task[d][p].pc # "done" => held[d]
  /\ task[d][p].pc \in {"again", "lock"} => Quiet(o) /\ Free(d) /\ ~reg[d]
  /\ task[d][p].pc = "telling" => Quiet(o) /\ reg[d]
  /\ task[d][p].pc = "asking" => reg[d] /\ Asked(d, o, p)
  /\ task[d][p].pc = "reverting" => Quiet(o) /\ ~reg[d] /\ ~reg[o]
  /\ task[d][p].pc \in {"outcome", "done"} => Quiet(o) /\ (reg[d] <=> reg[o])

\* Between two processes the slot keeps the pair, and nothing is asked.
Between(d, o) == held[d] /\ Free(d) /\ commits = {} /\ lock[o] # "serve"

Phase(d, o) ==
  \/ inst[d].st = "restarting" /\ Between(d, o) /\ \A q \in Pids : Resting(d, q)
  \/ inst[d].st = "starting" /\ inst[d].again /\ Between(d, o) /\ ~reg[d]
  \/ inst[d].st = "running" /\ RestartAt(d, o, inst[d].pid)

Solo(d, o) == PeerIdle(o) /\ OnlyOf(d) /\ NoticeOf(d, o) /\ Phase(d, o)

SoloInv == \A d \in Ends : solo = d => Solo(d, Other(d))

LEMMA TwoEnds ==
  ASSUME NEW d \in Ends, NEW o \in Ends, o = Other(d)
  PROVE  o # d /\ d = Other(o) /\ Ends = {d, o} /\ \A x \in Ends : x # d => x = o
BY DEF Ends, Other

\* What the invariant of the ends adds: a teardown is over before a process runs,
\* the other end awaits an answer only for the request or the notice, and who is
\* under way is the last process's start.
LEMMA SoloFacts ==
  ASSUME PairInv, NEW d \in Ends, NEW o \in Ends, o = Other(d), Solo(d, o)
  PROVE  /\ inst[d].pid \in Pids /\ inst[d].st # "absent"
         /\ Live(d) => down = {} /\ ends = {} /\ lock[o] # "notice"
         /\ lock[o] \in {"free", "serve", "notice"}
         /\ inst[d].st = "starting" =>
              task[d][inst[d].pid].pc = "boot" /\ task[d][inst[d].pid].again
         /\ \A x \in Ends : \A q \in Pids : ~Resting(x, q) => x = d /\ q = inst[d].pid
         /\ \A x \in Ends : tell[x].pc = "wait" => Live(x) /\ inst[x].pid = tell[x].pid
<1>1. LockInv(o) /\ TaskInv(d) /\ DownInv(d) /\ LockInv(d) /\ DownInv(o)
  BY DEF PairInv, EndInv
<1>2. o # d /\ \A x \in Ends : x # d => x = o
  BY TwoEnds
<1>3. inst[d].st # "absent" /\ inst[d].pid \in Pids
  BY <1>1 DEF Solo, Phase, TaskInv, Present
<1>4. Live(d) => down = {} /\ ends = {} /\ lock[o] # "notice"
  BY <1>1 DEF Solo, OnlyOf, NoticeOf, DownInv
<1>5. lock[o] \in {"free", "serve", "notice"}
  BY <1>1 DEF PairInv, Types, LockTypes, LockInv, Keeps, Solo, PeerIdle, Resting
<1>6. inst[d].st = "starting" =>
        task[d][inst[d].pid].pc = "boot" /\ task[d][inst[d].pid].again
  BY <1>1, <1>3 DEF TaskInv, Solo, Phase
<1>7. \A x \in Ends : \A q \in Pids : ~Resting(x, q) => x = d /\ q = inst[d].pid
  BY <1>2 DEF Solo, PeerIdle, OnlyOf
<1>8. tell[o].pc = "wait" => Live(o) /\ inst[o].pid = tell[o].pid
  BY <1>1 DEF Solo, PeerIdle, DownInv, LockInv, Free, Live
<1>9. tell[d].pc = "wait" => Live(d) /\ inst[d].pid = tell[d].pid
  BY <1>1 DEF Solo, Phase, Between, DownInv, LockInv, Free, Live
<1> QED BY <1>2, <1>3, <1>4, <1>5, <1>6, <1>7, <1>8, <1>9

\* What a step at end d leaves of the other.
LEMMA PeerStays ==
  ASSUME NEW o \in Ends, Same(o)
  PROVE  /\ inst'[o] = inst[o] /\ tell'[o] = tell[o] /\ lock'[o] = lock[o] /\ serve'[o] = serve[o]
         /\ notice'[o] = notice[o] /\ reg'[o] = reg[o] /\ held'[o] = held[o]
         /\ \A q \in Pids : task'[o][q].pc = task[o][q].pc
         /\ PeerIdle(o) => PeerIdle(o)'
BY DEF Same, InstSame, LockSame, ServeSame, TaskSame, TellSame, RegSame, HeldSame, PeerIdle, Resting

\* A restart goes on, and nothing else does.
LEMMA RestartGoesOn ==
  ASSUME PairInv, NEW d \in Ends, NEW o \in Ends, o = Other(d), Solo(d, o), NEW p \in Pids,
         ~Resting(d, p), inst[d].st = "running",
         \A x \in Ends : x # d => Same(x), inst' = inst, OtherTasks(d, p),
         down' = down, ends' = ends, forgets' = forgets,
         lock'[d] \in {"free", "start"}, tell'[d].pc # "err",
         \A c \in commits' : /\ c.from = d /\ c.pid = p /\ c.held
                             /\ \A b \in commits' : b = c,
         RestartAt(d, o, p)'
  PROVE  Solo(d, o)'
<1>1. p = inst[d].pid /\ o # d
  BY SoloFacts, TwoEnds
<1>2. PeerIdle(o)' /\ lock'[o] = lock[o] /\ notice'[o] = notice[o] /\ reg'[o] = reg[o]
  BY <1>1, PeerStays DEF Solo
<1>3. OnlyOf(d)'
  BY <1>1 DEF Solo, OnlyOf, Resting, OtherTasks
<1>4. NoticeOf(d, o)'
  BY <1>2 DEF Solo, NoticeOf
<1>5. Phase(d, o)'
  BY <1>1 DEF Phase
<1> QED BY <1>2, <1>3, <1>4, <1>5 DEF Solo

LEMMA RunningSolo ==
  ASSUME PairInv, NEW d \in Ends, NEW o \in Ends, o = Other(d), Solo(d, o), NEW p \in Pids,
         ~Resting(d, p), task[d][p].pc # "boot"
  PROVE  p = inst[d].pid /\ inst[d].st = "running" /\ RestartAt(d, o, p) /\ o # d
<1>1. p = inst[d].pid /\ o # d
  BY SoloFacts, TwoEnds
<1>2. inst[d].st # "restarting" /\ inst[d].st # "starting"
  BY <1>1, SoloFacts DEF Solo, Phase, Resting
<1> QED BY <1>1, <1>2 DEF Solo, Phase

LEMMA LookAgainSolo ==
  ASSUME PairInv, NEW d \in Ends, NEW o \in Ends, o = Other(d), Solo(d, o), NEW p \in Pids,
         LookAgain(d, p)
  PROVE  Solo(d, o)'
<1>1. (\A x \in Ends : x # d => Same(x)) /\ LookAgainEffect(d, p)
  BY LookAgainDoes
<1>2. task[d][p].pc = "again" /\ ~Resting(d, p)
  BY DEF LookAgain, Resting
<1>3. p = inst[d].pid /\ inst[d].st = "running" /\ RestartAt(d, o, p) /\ o # d
  BY <1>2, RunningSolo
<1>4. /\ inst' = inst /\ down' = down /\ ends' = ends /\ forgets' = forgets /\ commits' = commits
      /\ lock' = lock /\ tell' = tell /\ reg' = reg /\ held' = held
  BY DEF LookAgain, wire, registry
<1>5. task'[d][p].pc = "lock" /\ task'[d][p].again = task[d][p].again /\ OtherTasks(d, p)
  BY <1>1, <1>2, <1>3 DEF LookAgainEffect, TaskMoves, Runs, RestartAt
<1>6. RestartAt(d, o, p)'
  BY <1>2, <1>3, <1>4, <1>5 DEF RestartAt, Quiet, Free
<1> QED BY <1>1, <1>2, <1>3, <1>4, <1>5, <1>6, RestartGoesOn DEF Solo, OnlyOf

LEMMA PairAgainSolo ==
  ASSUME PairInv, NEW d \in Ends, NEW o \in Ends, o = Other(d), Solo(d, o), NEW p \in Pids,
         PairAgain(d, p)
  PROVE  Solo(d, o)'
<1>1. (\A x \in Ends : x # d => Same(x)) /\ PairAgainEffect(d, p)
  BY PairAgainDoes
<1>2. task[d][p].pc = "lock" /\ ~Resting(d, p)
  BY DEF PairAgain, Resting
<1>3. p = inst[d].pid /\ inst[d].st = "running" /\ RestartAt(d, o, p) /\ o # d
  BY <1>2, RunningSolo
<1>4. /\ inst' = inst /\ down' = down /\ ends' = ends /\ forgets' = forgets /\ commits' = commits
      /\ held' = held
  BY DEF PairAgain, bounds
<1>5. ~reg[d] /\ Live(d)
  BY <1>2, <1>3 DEF RestartAt, Live
<1>6. /\ task'[d][p].pc = "telling" /\ task'[d][p].again = task[d][p].again /\ OtherTasks(d, p)
      /\ reg'[d] /\ lock'[d] = "start" /\ tell'[d].pc = "wait"
  BY <1>1, <1>5 DEF PairAgainEffect, TaskMoves, Sends
<1>7. lock'[o] = lock[o]
  BY <1>1, <1>3 DEF Same, LockSame
<1>8. RestartAt(d, o, p)'
  BY <1>2, <1>3, <1>4, <1>6, <1>7 DEF RestartAt, Quiet
<1> QED BY <1>1, <1>2, <1>3, <1>4, <1>6, <1>8, RestartGoesOn DEF Solo, OnlyOf

LEMMA AskPeerSolo ==
  ASSUME PairInv, NEW d \in Ends, NEW o \in Ends, o = Other(d), Solo(d, o), NEW p \in Pids,
         AskPeer(d, p)
  PROVE  Solo(d, o)'
<1>1. (\A x \in Ends : x # d => Same(x)) /\ AskPeerEffect(d, p)
  BY AskPeerDoes
<1>2. task[d][p].pc = "telling" /\ ~Resting(d, p)
  BY DEF AskPeer, Resting
<1>3. p = inst[d].pid /\ inst[d].st = "running" /\ RestartAt(d, o, p) /\ o # d
  BY <1>2, RunningSolo
<1>4. inst' = inst /\ down' = down /\ ends' = ends /\ forgets' = forgets /\ held' = held /\ reg' = reg
  BY DEF AskPeer, bounds, registry
<1>5. task[d][p].again = TRUE /\ Live(d)
  BY <1>3 DEF RestartAt, Live, PairInv, Types, TaskTypes, TaskRecs
<1>6. AnswerOf(d, p, "none")
  BY <1>5, BothSetAnswer DEF AskPeer, PairInv, Types, TaskPcs, Answers
<1>7. /\ task'[d][p].pc = "asking" /\ task'[d][p].again = task[d][p].again /\ OtherTasks(d, p)
      /\ lock'[d] = "free" /\ tell'[d].pc = "none"
  BY <1>1, <1>5 DEF AskPeerEffect, TaskMoves, TellMoves
<1>8. lock'[o] = lock[o]
  BY <1>1, <1>3 DEF Same, LockSame
<1>9. commits = {} /\ lock[o] = "free" /\ reg[d] /\ held[d]
  BY <1>2, <1>3 DEF RestartAt, Quiet
<1>10. commits' = {[from |-> d, pid |-> p, held |-> TRUE]}
  BY <1>5, <1>9 DEF AskPeer
<1>11. RestartAt(d, o, p)'
  BY <1>4, <1>5, <1>6, <1>7, <1>8, <1>9, <1>10 DEF RestartAt, Asked, AnswerOf
<1> QED BY <1>1, <1>2, <1>3, <1>4, <1>7, <1>10, <1>11, RestartGoesOn

LEMMA PeerAgreesSolo ==
  ASSUME PairInv, NEW d \in Ends, NEW o \in Ends, o = Other(d), Solo(d, o), NEW p \in Pids,
         PeerAgrees(d, p)
  PROVE  Solo(d, o)'
<1>1. (\A x \in Ends : x # d => Same(x)) /\ PeerAgreesEffect(d, p)
  BY PeerAgreesDoes
<1>2. task[d][p].pc = "asking" /\ task[d][p].ans = "ok" /\ ~Resting(d, p)
  BY DEF PeerAgrees, Resting
<1>3. p = inst[d].pid /\ inst[d].st = "running" /\ RestartAt(d, o, p) /\ o # d
  BY <1>2, RunningSolo
<1>4. /\ inst' = inst /\ down' = down /\ ends' = ends /\ forgets' = forgets /\ commits' = commits
      /\ tell' = tell /\ reg' = reg
  BY DEF PeerAgrees, bounds, wire
<1>5. /\ task'[d][p].pc = "outcome" /\ task'[d][p].again = task[d][p].again /\ OtherTasks(d, p)
      /\ lock'[d] = lock[d] /\ held'[d] = held[d]
  BY <1>1, <1>3 DEF PeerAgreesEffect, TaskMoves, RestartAt, LockSame, HeldSame
<1>6. lock'[o] = lock[o]
  BY <1>1, <1>3 DEF Same, LockSame
<1>7. RestartAt(d, o, p)'
  BY <1>2, <1>3, <1>4, <1>5, <1>6 DEF RestartAt, Asked, Quiet
<1> QED BY <1>1, <1>2, <1>3, <1>4, <1>5, <1>7, RestartGoesOn DEF Solo, OnlyOf

LEMMA PeerDoesNotSolo ==
  ASSUME PairInv, NEW d \in Ends, NEW o \in Ends, o = Other(d), Solo(d, o), NEW p \in Pids,
         PeerDoesNot(d, p)
  PROVE  Solo(d, o)'
<1>1. (\A x \in Ends : x # d => Same(x)) /\ PeerDoesNotEffect(d, p)
  BY PeerDoesNotDoes
<1>2. task[d][p].pc = "asking" /\ task[d][p].ans \in {"refused", "undelivered"} /\ ~Resting(d, p)
  BY DEF PeerDoesNot, Resting
<1>3. p = inst[d].pid /\ inst[d].st = "running" /\ RestartAt(d, o, p) /\ o # d
  BY <1>2, RunningSolo
<1>4. /\ inst' = inst /\ down' = down /\ ends' = ends /\ forgets' = forgets /\ commits' = commits
      /\ held' = held
  BY DEF PeerDoesNot, bounds
<1>5. Runs(d, p) /\ Live(d) /\ task[d][p].again
  BY <1>3 DEF Runs, Live, RestartAt
<1>6. /\ task'[d][p].pc = "reverting" /\ task'[d][p].again = task[d][p].again /\ OtherTasks(d, p)
      /\ lock'[d] = "start" /\ ~reg'[d] /\ tell'[d].pc = "wait"
  BY <1>1, <1>5 DEF PeerDoesNotEffect, TaskMoves, Sends
<1>7. lock'[o] = lock[o] /\ reg'[o] = reg[o]
  BY <1>1, <1>3 DEF Same, LockSame, RegSame
<1>8. RestartAt(d, o, p)'
  BY <1>2, <1>3, <1>4, <1>6, <1>7 DEF RestartAt, Asked, Quiet
<1> QED BY <1>1, <1>2, <1>3, <1>4, <1>6, <1>8, RestartGoesOn DEF Solo, OnlyOf

LEMMA RevertedSolo ==
  ASSUME PairInv, NEW d \in Ends, NEW o \in Ends, o = Other(d), Solo(d, o), NEW p \in Pids,
         Reverted(d, p)
  PROVE  Solo(d, o)'
<1>1. (\A x \in Ends : x # d => Same(x)) /\ RevertedEffect(d, p)
  BY RevertedDoes
<1>2. task[d][p].pc = "reverting" /\ ~Resting(d, p)
  BY DEF Reverted, Resting
<1>3. p = inst[d].pid /\ inst[d].st = "running" /\ RestartAt(d, o, p) /\ o # d
  BY <1>2, RunningSolo
<1>4. /\ inst' = inst /\ down' = down /\ ends' = ends /\ forgets' = forgets /\ commits' = commits
      /\ held' = held /\ reg' = reg
  BY DEF Reverted, bounds, wire, registry
<1>5. /\ task'[d][p].pc = "outcome" /\ task'[d][p].again = task[d][p].again /\ OtherTasks(d, p)
      /\ lock'[d] = "free" /\ tell'[d].pc = "none"
  BY <1>1, <1>3 DEF RevertedEffect, TaskMoves, TellMoves, RestartAt
<1>6. lock'[o] = lock[o]
  BY <1>1, <1>3 DEF Same, LockSame
<1>7. RestartAt(d, o, p)'
  BY <1>2, <1>3, <1>4, <1>5, <1>6 DEF RestartAt, Quiet
<1> QED BY <1>1, <1>2, <1>3, <1>4, <1>5, <1>7, RestartGoesOn DEF Solo, OnlyOf

LEMMA OutcomeSolo ==
  ASSUME PairInv, NEW d \in Ends, NEW o \in Ends, o = Other(d), Solo(d, o), NEW p \in Pids,
         Outcome(d, p)
  PROVE  Solo(d, o)'
<1>1. (\A x \in Ends : x # d => Same(x)) /\ OutcomeEffect(d, p)
  BY OutcomeDoes
<1>2. task[d][p].pc = "outcome" /\ ~Resting(d, p)
  BY DEF Outcome, Resting
<1>3. p = inst[d].pid /\ inst[d].st = "running" /\ RestartAt(d, o, p) /\ o # d
  BY <1>2, RunningSolo
<1>4. /\ inst' = inst /\ down' = down /\ ends' = ends /\ forgets' = forgets /\ commits' = commits
      /\ reg' = reg /\ lock' = lock /\ tell' = tell
  BY DEF Outcome, bounds, wire
<1>5. task'[d][p].pc = "done" /\ task'[d][p].again = task[d][p].again /\ OtherTasks(d, p)
  BY <1>1 DEF OutcomeEffect, TaskMoves
<1>6. RestartAt(d, o, p)'
  BY <1>2, <1>3, <1>4, <1>5 DEF RestartAt, Quiet
<1> QED BY <1>1, <1>2, <1>3, <1>4, <1>5, <1>6, RestartGoesOn DEF Solo, OnlyOf

LEMMA StartAgainSolo ==
  ASSUME PairInv, NEW d \in Ends, NEW o \in Ends, o = Other(d), Solo(d, o), StartAgain(d)
  PROVE  Solo(d, o)'
<1>1. (\A x \in Ends : x # d => Same(x)) /\ StartAgainEffect(d)
  BY StartAgainDoes
<1>2. o # d /\ inst[d].pid \in Pids
  BY SoloFacts, TwoEnds
<1>3. /\ down' = down /\ ends' = ends /\ forgets' = forgets /\ commits' = commits /\ reg' = reg
      /\ lock' = lock /\ held' = held /\ tell' = tell
  BY DEF StartAgain, NewProcess, bounds, registry
<1>4. inst[d].st = "restarting" /\ Between(d, o) /\ (\A q \in Pids : Resting(d, q))
  BY <1>1 DEF StartAgainEffect, Solo, Phase
<1>5. down = {} /\ ~reg[d]
  <2>1. DownInv(d)
    BY DEF PairInv, EndInv
  <2>2. \A t \in down : FALSE
    BY <1>1, <2>1 DEF StartAgainEffect, Solo, OnlyOf, DownInv
  <2> QED BY <1>4, <2>1, <2>2 DEF DownInv, Torn, Live
<1>6. ends = {} /\ lock[o] # "notice"
  BY <1>5 DEF Solo, NoticeOf
<1>7. PeerIdle(o)'
  BY <1>1, <1>2, PeerStays DEF Solo
<1>8. \A q \in Pids : q # inst'[d].pid => Resting(d, q)'
  BY <1>1, <1>4 DEF StartAgainEffect, Starts, OtherTasks, Resting
<1>9. OnlyOf(d)'
  BY <1>3, <1>4, <1>5, <1>6, <1>8 DEF Solo, OnlyOf, Between
<1>10. NoticeOf(d, o)'
  BY <1>3, <1>6 DEF NoticeOf
<1>11. Phase(d, o)'
  BY <1>1, <1>3, <1>4, <1>5 DEF StartAgainEffect, Starts, Phase, Between, Free
<1> QED BY <1>7, <1>9, <1>10, <1>11 DEF Solo

LEMMA CommitRunningSolo ==
  ASSUME PairInv, NEW d \in Ends, NEW o \in Ends, o = Other(d), Solo(d, o), CommitRunning(d)
  PROVE  Solo(d, o)'
<1>1. (\A x \in Ends : x # d => Same(x)) /\ CommitRunningEffect(d)
  BY CommitRunningDoes
<1>2. o # d /\ inst[d].pid \in Pids
  BY SoloFacts, TwoEnds
<1>3. /\ down' = down /\ ends' = ends /\ forgets' = forgets /\ commits' = commits /\ reg' = reg
      /\ lock' = lock /\ held' = held /\ tell' = tell /\ notice' = notice
  BY DEF CommitRunning, bounds, registry, wire
<1>4. inst[d].st = "starting" /\ inst[d].again /\ Between(d, o) /\ ~reg[d]
  BY <1>1 DEF CommitRunningEffect, Solo, Phase
<1>5. task[d][inst[d].pid].again /\ lock[o] = "free"
  BY <1>4, SoloFacts DEF Live, Between
<1>6. /\ inst'[d].st = "running" /\ inst'[d].pid = inst[d].pid /\ OtherTasks(d, inst[d].pid)
      /\ task'[d][inst[d].pid].pc = "again" /\ task'[d][inst[d].pid].again
  BY <1>1, <1>4, <1>5 DEF CommitRunningEffect, InstMoves, TaskMoves
<1>7. PeerIdle(o)'
  BY <1>1, <1>2, PeerStays DEF Solo
<1>8. OnlyOf(d)'
  BY <1>3, <1>6 DEF Solo, OnlyOf, OtherTasks, Resting
<1>9. NoticeOf(d, o)'
  BY <1>3, <1>6 DEF Solo, NoticeOf
<1>10. RestartAt(d, o, inst[d].pid)'
  BY <1>3, <1>4, <1>5, <1>6 DEF RestartAt, Between, Quiet, Free
<1>11. Phase(d, o)'
  BY <1>6, <1>10 DEF Phase
<1> QED BY <1>7, <1>8, <1>9, <1>11 DEF Solo

LEMMA StartFailsSolo ==
  ASSUME PairInv, NEW d \in Ends, NEW o \in Ends, o = Other(d), Solo(d, o), StartFails(d)
  PROVE  Solo(d, o)'
<1>1. (\A x \in Ends : x # d => Same(x)) /\ StartFailsEffect(d)
  BY StartFailsDoes
<1>2. o # d /\ inst[d].pid \in Pids
  BY SoloFacts, TwoEnds
<1>3. /\ down' = down /\ ends' = ends /\ forgets' = forgets /\ commits' = commits
      /\ lock' = lock /\ held' = held /\ tell' = tell /\ notice' = notice
  BY DEF StartFails, wire
<1>4. inst[d].st = "starting" /\ inst[d].again /\ Between(d, o)
  BY <1>1 DEF StartFailsEffect, Solo, Phase
<1>5. /\ inst'[d].st = "restarting" /\ inst'[d].pid = inst[d].pid
      /\ OtherTasks(d, inst[d].pid) /\ task'[d][inst[d].pid].pc = "done"
  BY <1>1, <1>4 DEF StartFailsEffect, InstMoves, TaskMoves
<1>6. PeerIdle(o)' /\ reg'[o] = reg[o]
  BY <1>1, <1>2, PeerStays DEF Solo
<1>7. OnlyOf(d)' /\ \A q \in Pids : Resting(d, q)'
  BY <1>3, <1>5 DEF Solo, OnlyOf, OtherTasks, Resting
<1>8. NoticeOf(d, o)'
  BY <1>3, <1>5, <1>6 DEF Solo, NoticeOf
<1>9. Phase(d, o)'
  BY <1>3, <1>4, <1>5, <1>7 DEF Phase, Between, Free
<1> QED BY <1>6, <1>7, <1>8, <1>9 DEF Solo

LEMMA PruneSolo ==
  ASSUME PairInv, NEW d \in Ends, NEW o \in Ends, o = Other(d), Solo(d, o), NEW x \in Ends, Prune(x)
  PROVE  Solo(d, o)'
<1>1. (\A y \in Ends : y # x => Same(y)) /\ PruneEffect(x)
  BY PruneDoes
<1>2. o # d /\ x = d
  BY <1>1, TwoEnds DEF PruneEffect, Live, Solo, PeerIdle
<1>3. /\ down' = down /\ ends' = ends /\ forgets' = forgets /\ commits' = commits /\ inst' = inst
      /\ lock' = lock /\ held' = held /\ tell' = tell /\ notice' = notice /\ task' = task
  BY DEF Prune, wire
<1>4. inst[d].st = "restarting" /\ Between(d, o) /\ (\A q \in Pids : Resting(d, q))
  BY <1>1, <1>2 DEF PruneEffect, Live, Solo, Phase
<1>5. PeerIdle(o)' /\ reg'[o] = reg[o]
  BY <1>1, <1>2, PeerStays DEF Solo
<1>6. OnlyOf(d)' /\ \A q \in Pids : Resting(d, q)'
  BY <1>3, <1>4 DEF Solo, OnlyOf, Resting
<1>7. NoticeOf(d, o)'
  BY <1>3, <1>5 DEF Solo, NoticeOf
<1>8. Phase(d, o)'
  BY <1>3, <1>4, <1>6 DEF Phase, Between, Free
<1> QED BY <1>5, <1>6, <1>7, <1>8 DEF Solo

\* The process whose end is announced is gone, and its teardown is the only one.
LEMMA TornSolo ==
  ASSUME PairInv, NEW d \in Ends, NEW o \in Ends, o = Other(d), Solo(d, o), NEW t \in down
  PROVE  /\ t.from = d /\ ~t.stopped /\ t.pid = inst[d].pid /\ down = {t}
         /\ inst[d].st = "restarting" /\ Between(d, o) /\ \A q \in Pids : Resting(d, q)
         /\ t.pc # "telling" => ends = {} /\ lock[o] # "notice"
<1>1. t.from = d /\ ~t.stopped /\ down = {t}
  BY DEF Solo, OnlyOf
<1>2. DownInv(d)
  BY DEF PairInv, EndInv
<1>3. t.pid = inst[d].pid /\ inst[d].st = "restarting"
  BY <1>1, <1>2 DEF DownInv, Live, Solo, Phase
<1>4. Between(d, o) /\ \A q \in Pids : Resting(d, q)
  BY <1>3 DEF Solo, Phase
<1>5. t.pc # "telling" => ends = {} /\ lock[o] # "notice"
  BY <1>1 DEF Solo, NoticeOf
<1> QED BY <1>1, <1>3, <1>4, <1>5

LEMMA DissolveSolo ==
  ASSUME PairInv, NEW d \in Ends, NEW o \in Ends, o = Other(d), Solo(d, o), NEW t \in down,
         Dissolve(t)
  PROVE  Solo(d, o)'
<1>1. /\ t.from = d /\ down = {t} /\ t.pc = "dissolve" /\ ends = {} /\ lock[o] # "notice"
      /\ inst[d].st = "restarting" /\ Between(d, o) /\ \A q \in Pids : Resting(d, q)
  BY TornSolo DEF Dissolve
<1>2. (\A x \in Ends : x # d => Same(x)) /\ DissolveEffect(d, t)
  BY <1>1, DissolveDoes
<1>3. o # d
  BY TwoEnds
<1>4. /\ down' = {} /\ ends' = ends /\ forgets' = forgets /\ commits' = commits /\ inst' = inst
      /\ lock' = lock /\ held' = held /\ tell' = tell /\ task' = task
  BY <1>1 DEF Dissolve, wire
<1>5. PeerIdle(o)'
  BY <1>2, <1>3, PeerStays DEF Solo
<1>6. OnlyOf(d)' /\ \A q \in Pids : Resting(d, q)'
  BY <1>1, <1>4 DEF Solo, OnlyOf, Resting
<1>7. NoticeOf(d, o)'
  BY <1>1, <1>4 DEF NoticeOf
<1>8. Phase(d, o)'
  BY <1>1, <1>4, <1>6 DEF Phase, Between, Free
<1> QED BY <1>5, <1>6, <1>7, <1>8 DEF Solo

LEMMA AnnounceEndSolo ==
  ASSUME PairInv, NEW d \in Ends, NEW o \in Ends, o = Other(d), Solo(d, o), NEW t \in down,
         AnnounceEnd(t)
  PROVE  Solo(d, o)'
<1>1. /\ t.from = d /\ ~t.stopped /\ t.pid = inst[d].pid /\ down = {t} /\ ends = {}
      /\ lock[o] # "notice" /\ inst[d].st = "restarting" /\ Between(d, o)
      /\ \A q \in Pids : Resting(d, q)
  BY TornSolo DEF AnnounceEnd
<1>2. /\ forgets' = forgets /\ commits' = commits /\ inst' = inst /\ reg' = reg
      /\ lock' = lock /\ held' = held /\ tell' = tell /\ task' = task
  BY DEF AnnounceEnd, registry
<1>3. PICK pc \in {"telling", "dissolve"} :
        /\ down' = {[t EXCEPT !.pc = pc]}
        /\ \/ pc = "telling" /\ ends' = {[from |-> t.from, pid |-> t.pid, stopped |-> t.stopped]}
           \/ pc = "dissolve" /\ ends' = {}
  BY <1>1 DEF AnnounceEnd
<1> DEFINE s == [t EXCEPT !.pc = pc]
<1>4. s.from = t.from /\ s.stopped = t.stopped /\ s.pc = pc /\ down' = {s}
  BY <1>3 DEF PairInv, Types, DownTypes
<1> HIDE DEF s
<1>5. PeerIdle(o)'
  BY <1>2 DEF Solo, PeerIdle, Resting
<1>6. OnlyOf(d)' /\ \A q \in Pids : Resting(d, q)'
  BY <1>1, <1>2, <1>3, <1>4 DEF Solo, OnlyOf, Resting, Between
<1>7. NoticeOf(d, o)'
  BY <1>1, <1>2, <1>3, <1>4 DEF NoticeOf
<1>8. Phase(d, o)'
  BY <1>1, <1>2, <1>6 DEF Phase, Between, Free
<1> QED BY <1>5, <1>6, <1>7, <1>8 DEF Solo

LEMMA NodeTakesSolo ==
  ASSUME PairInv, NEW d \in Ends, NEW o \in Ends, o = Other(d), Solo(d, o), NEW u \in updates,
         NodeTakes(u)
  PROVE  Solo(d, o)'
<1>1. \A x \in Ends : tell'[x].pc # "err" \/ tell[x].pc = "err"
  <2>1. u.to \in Ends
    BY UpdateIsTyped
  <2>2. (\A x \in Ends : x # u.to => Same(x)) /\ NodeTakesEffect(u.to, u)
    BY <2>1, NodeTakesDoes
  <2> QED BY <2>2 DEF NodeTakesEffect, TellMoves, TellSame, Same
<1>2. /\ down' = down /\ ends' = ends /\ forgets' = forgets /\ commits' = commits /\ inst' = inst
      /\ lock' = lock /\ held' = held /\ reg' = reg /\ notice' = notice /\ task' = task
      /\ serve' = serve
  BY DEF NodeTakes, registry
<1>3. PeerIdle(o)' /\ OnlyOf(d)' /\ NoticeOf(d, o)'
  BY <1>1, <1>2 DEF Solo, PeerIdle, OnlyOf, NoticeOf, Resting
<1>4. Phase(d, o)'
  BY <1>2 DEF Solo, Phase, Between, RestartAt, Asked, Quiet, Free, Resting
<1> QED BY <1>3, <1>4 DEF Solo

LEMMA CommitFromPeerSolo ==
  ASSUME PairInv, NEW d \in Ends, NEW o \in Ends, o = Other(d), Solo(d, o), NEW x \in Ends,
         NEW c \in commits, CommitFromPeer(x, c)
  PROVE  Solo(d, o)'
<1>1. (\A y \in Ends : y # x => Same(y)) /\ CommitFromPeerEffect(x, c)
  BY CommitFromPeerDoes
<1>2. o # d /\ x = o /\ c.from = d /\ c.pid = inst[d].pid /\ c.held /\ commits' = {}
  <2>1. o # d /\ d = Other(o)
    BY TwoEnds
  <2>2. c.from = d /\ c.pid = inst[d].pid /\ c.held /\ \A b \in commits : b = c
    BY DEF Solo, OnlyOf
  <2>3. x # d
    BY <2>1, <2>2 DEF CommitFromPeer
  <2> QED BY <2>1, <2>2, <2>3, TwoEnds DEF CommitFromPeer
<1>0. PICK p \in Pids : p = inst[d].pid
  BY SoloFacts
<1>3. inst[d].st = "running" /\ RestartAt(d, o, p) /\ task[d][p].pc = "asking"
  <2>2. inst[d].st = "running" /\ RestartAt(d, o, p)
    BY <1>0 DEF Solo, Phase, Between
  <2>3. task[d][p].pc = "asking"
    BY <2>2 DEF RestartAt, Quiet
  <2> QED BY <2>2, <2>3
<1>4. /\ down' = down /\ ends' = ends /\ forgets' = forgets /\ inst' = inst /\ held' = held
      /\ notice' = notice
  BY DEF CommitFromPeer, bounds
<1>5. /\ lock'[d] = lock[d] /\ tell'[d] = tell[d] /\ reg'[d] = reg[d]
      /\ \A y \in Ends : \A q \in Pids : /\ task'[y][q].pc = task[y][q].pc
                                         /\ task'[y][q].again = task[y][q].again
  <2>1. TaskSame(x) /\ \A y \in Ends : y # x => TaskSame(y)
    BY <1>1 DEF CommitFromPeerEffect, Same
  <2>2. \A y \in Ends : TaskSame(y)
    BY <2>1
  <2> QED BY <1>1, <1>2, <2>2 DEF Same, LockSame, TellSame, RegSame, TaskSame
<1>6. ends = {} /\ down = {} /\ lock[o] = "free" /\ task[d][p].ans = "none"
  BY <1>3, SoloFacts DEF Live, RestartAt, Asked, Quiet
<1>7. OnlyOf(d)'
  BY <1>2, <1>4, <1>5 DEF Solo, OnlyOf, Resting
<1>8. CASE CommitAnswer(o, c) # "none"
  <2>1. /\ reg' = reg /\ lock' = lock /\ tell' = tell
        /\ task' = Answered(c, CommitAnswer(o, c))
    BY <1>2, <1>8 DEF CommitFromPeer
  <2>2. task'[d][p].ans = CommitAnswer(o, c)
    BY <1>2, <1>3, <1>6, <1>0, <2>1, AnsweredAnswer, OwnAnswers DEF PairInv, Types, AnswerOf
  <2>3. \/ CommitAnswer(o, c) = "refused" /\ ~reg[o]
        \/ CommitAnswer(o, c) = "ok" /\ reg[o]
    BY <1>2, <1>6, <1>8 DEF CommitAnswer, KeepsHeld, StartsARestart, StackAnswer, Live, Solo,
       PeerIdle
  <2>4. PeerIdle(o)'
    BY <1>4, <1>5, <2>1 DEF Solo, PeerIdle, Resting
  <2>5. NoticeOf(d, o)'
    BY <1>4, <1>6, <2>1 DEF NoticeOf
  <2>6. RestartAt(d, o, p)'
    BY <1>2, <1>3, <1>4, <1>5, <1>6, <2>1, <2>2, <2>3 DEF RestartAt, Asked, Quiet
  <2>7. Phase(d, o)'
    BY <1>3, <1>4, <1>0, <2>6 DEF Phase
  <2> QED BY <1>7, <2>4, <2>5, <2>7 DEF Solo
<1>9. CASE CommitAnswer(o, c) = "none"
  <2>1. /\ reg'[o] /\ lock'[o] = "serve" /\ serve'[o] = c /\ tell'[o].pc = "wait"
    BY <1>1, <1>2, <1>9 DEF CommitFromPeerEffect, Sends
  <2>2. task' = task
    BY <1>2, <1>9 DEF CommitFromPeer
  <2>3. PeerIdle(o)'
    BY <1>4, <1>5, <2>1 DEF Solo, PeerIdle, Resting
  <2>4. NoticeOf(d, o)'
    BY <1>4, <1>6, <2>1 DEF NoticeOf
  <2>5. serve'[o].pid = p
    BY <1>2, <1>0, <2>1
  <2>6. RestartAt(d, o, p)'
    BY <1>2, <1>3, <1>4, <1>5, <1>6, <2>1, <2>2, <2>5 DEF RestartAt, Asked
  <2>7. Phase(d, o)'
    BY <1>3, <1>4, <1>0, <2>6 DEF Phase
  <2> QED BY <1>7, <2>3, <2>4, <2>7 DEF Solo
<1> QED BY <1>8, <1>9

LEMMA CommitEndsSolo ==
  ASSUME PairInv, NEW d \in Ends, NEW o \in Ends, o = Other(d), Solo(d, o), NEW x \in Ends,
         CommitEnds(x)
  PROVE  Solo(d, o)'
<1>1. (\A y \in Ends : y # x => Same(y)) /\ CommitEndsEffect(x)
  BY CommitEndsDoes
<1>2. o # d /\ x = o /\ d = Other(o)
  BY <1>1, TwoEnds DEF CommitEndsEffect, Solo, OnlyOf
<1>0. PICK p \in Pids : p = inst[d].pid
  BY SoloFacts
<1>3. inst[d].st = "running" /\ RestartAt(d, o, p) /\ task[d][p].pc = "asking"
  <2>2. inst[d].st = "running" /\ RestartAt(d, o, p)
    BY <1>1, <1>0, <1>2 DEF CommitEndsEffect, Solo, Phase, Between
  <2>3. task[d][p].pc = "asking"
    BY <1>1, <1>2, <2>2 DEF CommitEndsEffect, RestartAt, Quiet
  <2> QED BY <2>2, <2>3
<1>4. /\ task[d][p].ans = "none" /\ commits = {} /\ serve[o].pid = p /\ reg[o] /\ serve[o].from = d
      /\ ends = {} /\ reg[d] /\ held[d] /\ task[d][p].again
  <2>1. lock[o] = "serve" /\ LockInv(o)
    BY <1>1, <1>2 DEF CommitEndsEffect, PairInv, EndInv
  <2> QED BY <1>2, <1>3, <2>1, SoloFacts DEF RestartAt, Asked, Quiet, LockInv, Live
<1>5. tell[o].pc = "ok" /\ Present(o)
  BY <1>1, <1>2 DEF CommitEndsEffect, Solo, PeerIdle, Present
<1>6. /\ down' = down /\ ends' = ends /\ forgets' = forgets /\ inst' = inst /\ commits' = commits
      /\ notice' = notice /\ task' = Answered(serve[o], "ok")
  BY <1>2, <1>5 DEF CommitEnds, bounds, wire
<1>7. /\ lock'[d] = lock[d] /\ tell'[d] = tell[d] /\ reg'[d] = reg[d] /\ held'[d] = held[d]
      /\ \A y \in Ends : \A q \in Pids : /\ task'[y][q].pc = task[y][q].pc
                                         /\ task'[y][q].again = task[y][q].again
  BY <1>1, <1>2 DEF Same, LockSame, TellSame, RegSame, HeldSame, TaskSame, CommitEndsEffect
<1>8. lock'[o] = "free" /\ tell'[o].pc = "none" /\ held'[o] /\ reg'[o] = reg[o]
  BY <1>1, <1>2, <1>5 DEF CommitEndsEffect, TellMoves, RegSame
<1>9. task'[d][p].ans = "ok"
  BY <1>3, <1>4, <1>6, AnsweredAnswer DEF PairInv, Types, AnswerOf, Answers
<1>10. PeerIdle(o)' /\ NoticeOf(d, o)'
  BY <1>4, <1>6, <1>7, <1>8 DEF Solo, PeerIdle, NoticeOf, Resting
<1>11. OnlyOf(d)'
  BY <1>6, <1>7 DEF Solo, OnlyOf, Resting
<1>12. RestartAt(d, o, p)'
  BY <1>3, <1>4, <1>6, <1>7, <1>8, <1>9 DEF RestartAt, Asked, Quiet
<1>13. Phase(d, o)'
  BY <1>3, <1>6, <1>0, <1>12 DEF Phase
<1> QED BY <1>10, <1>11, <1>13 DEF Solo

\* The sender of the notice goes on, and is still the only teardown.
LEMMA AckedAlone ==
  ASSUME DownTypes, NEW d \in Ends, OnlyOf(d), NEW e, down' = Acked(e)
  PROVE  \A t \in down' : t.from = d /\ ~t.stopped /\ \A s \in down' : s = t
<1>1. DownAsWas
  BY AckedAsWas
<1>2. \A t \in down' : t.from = d /\ ~t.stopped
  BY <1>1 DEF DownAsWas, OnlyOf
<1>3. \A s, t \in down' : s = t
  BY DEF Acked, OnlyOf
<1> QED BY <1>2, <1>3

LEMMA EndArrivesSolo ==
  ASSUME PairInv, NEW d \in Ends, NEW o \in Ends, o = Other(d), Solo(d, o), NEW x \in Ends,
         NEW e \in ends, EndArrives(x, e)
  PROVE  Solo(d, o)'
<1>1. (\A y \in Ends : y # x => Same(y)) /\ EndArrivesEffect(x, e)
  BY EndArrivesDoes
<1>2. /\ o # d /\ x = o /\ e.from = d /\ e.pid = inst[d].pid /\ ~e.stopped /\ ends' = {}
  <2>1. o # d /\ d = Other(o)
    BY TwoEnds
  <2>2. e.from = d /\ e.pid = inst[d].pid /\ ~e.stopped /\ \A f \in ends : f = e
    BY DEF Solo, OnlyOf
  <2>3. x # d
    BY <2>1, <2>2 DEF EndArrives
  <2> QED BY <2>1, <2>2, <2>3, TwoEnds DEF EndArrives
<1>3. (\E t \in down : t.pc = "telling") /\ lock[o] = "free"
  BY <1>2 DEF Solo, NoticeOf, EndArrives, Free
<1>4. inst[d].st = "restarting" /\ Between(d, o) /\ \A q \in Pids : Resting(d, q)
  BY <1>3, TornSolo
<1>5. inst' = inst /\ held' = held /\ task' = task /\ commits' = commits
  BY DEF EndArrives, bounds
<1>6. lock'[d] = lock[d] /\ tell'[d] = tell[d]
  BY <1>1, <1>2 DEF Same, LockSame, TellSame
<1>7. /\ ~reg'[o] /\ lock'[o] # "serve" /\ tell'[o].pc # "err"
      /\ lock'[o] = "notice" => notice'[o] = e
  BY <1>1, <1>2, <1>3 DEF EndArrivesEffect, Sends, LockSame, TellSame, Solo, PeerIdle
<1>8. PeerIdle(o)'
  BY <1>5, <1>7 DEF Solo, PeerIdle, Resting
<1>9. Phase(d, o)'
  BY <1>4, <1>5, <1>6, <1>7 DEF Phase, Between, Free, Resting
<1>10. /\ forgets' = forgets
       /\ \A t \in down' : t.from = d /\ ~t.stopped /\ \A s \in down' : s = t
       /\ lock'[o] = "notice" => down' = down
  <2>1. CASE reg[o] /\ Live(o)
    BY <1>2, <2>1 DEF EndArrives, Solo, OnlyOf
  <2>2. CASE ~(reg[o] /\ Live(o))
    <3>1. down' = Acked(e) /\ forgets' = forgets /\ lock' = lock
      BY <1>2, <2>2 DEF EndArrives, EndTaken
    <3>2. DownTypes /\ OnlyOf(d)
      BY DEF PairInv, Types, Solo
    <3> QED BY <1>3, <3>1, <3>2, AckedAlone
  <2> QED BY <2>1, <2>2
<1>11. OnlyOf(d)'
  BY <1>2, <1>5, <1>6, <1>10 DEF Solo, OnlyOf, Resting
<1>12. NoticeOf(d, o)'
  BY <1>2, <1>3, <1>5, <1>7, <1>10 DEF NoticeOf
<1> QED BY <1>8, <1>9, <1>11, <1>12 DEF Solo

LEMMA EndToldSolo ==
  ASSUME PairInv, NEW d \in Ends, NEW o \in Ends, o = Other(d), Solo(d, o), NEW x \in Ends,
         EndTold(x)
  PROVE  Solo(d, o)'
<1>1. (\A y \in Ends : y # x => Same(y)) /\ EndToldEffect(x)
  BY EndToldDoes
<1>2. o # d /\ x = o
  BY <1>1, TwoEnds DEF EndToldEffect, Solo, OnlyOf
<1>3. /\ lock[o] = "notice" /\ ends = {} /\ ~reg[o] /\ ~notice[o].stopped
      /\ \E t \in down : t.pc = "telling"
  BY <1>1, <1>2 DEF EndToldEffect, Solo, NoticeOf
<1>4. inst[d].st = "restarting" /\ Between(d, o) /\ \A q \in Pids : Resting(d, q)
  BY <1>3, TornSolo
<1>5. /\ inst' = inst /\ held' = held /\ reg' = reg /\ task' = task /\ commits' = commits
      /\ ends' = ends /\ forgets' = forgets /\ down' = Acked(notice[o])
  BY <1>2, <1>3 DEF EndTold, EndTaken, bounds, wire, registry
<1>6. /\ lock'[d] = lock[d] /\ tell'[d] = tell[d] /\ lock'[o] = "free" /\ tell'[o].pc = "none"
  BY <1>1, <1>2 DEF Same, LockSame, TellSame, EndToldEffect, TellMoves
<1>7. PeerIdle(o)'
  BY <1>3, <1>5, <1>6 DEF Solo, PeerIdle, Resting
<1>8. Phase(d, o)'
  BY <1>4, <1>5, <1>6 DEF Phase, Between, Free, Resting
<1>9. \A t \in down' : t.from = d /\ ~t.stopped /\ \A s \in down' : s = t
  BY <1>5, AckedAlone DEF PairInv, Types, Solo
<1>10. OnlyOf(d)'
  BY <1>3, <1>5, <1>6, <1>9 DEF Solo, OnlyOf, Resting
<1>11. NoticeOf(d, o)'
  BY <1>3, <1>5, <1>6 DEF NoticeOf
<1> QED BY <1>7, <1>8, <1>10, <1>11 DEF Solo

\* All was at rest: an end that kept the pair exits, and a half that the other has
\* is one it keeps.
LEMMA ProcExitsSolo ==
  ASSUME PairInv, HalfInv, NEW d \in Ends, NEW o \in Ends, o = Other(d), ProcExits(d), AtRest,
         held[d]
  PROVE  Solo(d, o)'
<1>1. (\A y \in Ends : y # d => Same(y)) /\ ProcExitsEffect(d)
  BY ProcExitsDoes
<1>2. o # d /\ Ends = {d, o}
  BY TwoEnds
<1>3. /\ down = {} /\ commits = {} /\ ends = {} /\ forgets = {} /\ inst[o].st = "running"
      /\ inst[d].st = "running" /\ lock[o] = "free" /\ lock[d] = "free"
      /\ \A x \in Ends : \A q \in Pids : Resting(x, q)
  BY DEF AtRest, Free, Resting
<1>4. tell[d].pc = "none" /\ tell[o].pc = "none"
  BY <1>3 DEF PairInv, EndInv, LockInv
<1>5. reg[o] => held[o]
  <2>1. CASE d = 1
    BY <1>2, <1>3, <2>1 DEF HalfInv, Halves, Gave1, Live, Other
  <2>2. CASE d = 2
    <3>1. ~Gave2
      BY <1>3, <2>2 DEF Gave2, Absent
    <3>2. \A q \in Pids : ~Unfinished(1, q)
      BY <1>3 DEF Unfinished, Resting, Ends
    <3> QED BY <1>2, <1>3, <2>2, <3>1, <3>2 DEF HalfInv, Halves, Live, Other
  <2> QED BY <2>1, <2>2 DEF Ends
<1>6. /\ ends' = ends /\ forgets' = forgets /\ commits' = commits /\ reg' = reg /\ held' = held
      /\ lock' = lock /\ tell' = tell /\ task' = task
  BY DEF ProcExits, registry, wire
<1>7. PICK t : t.from = d /\ ~t.stopped /\ down' = {t}
  BY <1>3 DEF ProcExits
<1>8. inst'[d].st = "restarting" /\ inst'[o] = inst[o]
  BY <1>1, <1>2 DEF ProcExitsEffect, InstMoves, Same, InstSame
<1>9. PeerIdle(o)'
  BY <1>3, <1>4, <1>5, <1>6, <1>8 DEF PeerIdle, Resting
<1>10. OnlyOf(d)' /\ NoticeOf(d, o)'
  BY <1>3, <1>4, <1>6, <1>7 DEF OnlyOf, NoticeOf, Resting
<1>11. Phase(d, o)'
  BY <1>3, <1>6, <1>8 DEF Phase, Between, Free, Resting
<1> QED BY <1>9, <1>10, <1>11 DEF Solo

\* The steps of a task: only the last process's restart has one.
LEMMA TaskStepSolo ==
  ASSUME PairInv, NEW d \in Ends, NEW o \in Ends, o = Other(d), Solo(d, o), NEW x \in Ends,
         NEW p \in Pids, TaskStep(x, p)
  PROVE  Solo(d, o)'
<1>1. ~Resting(x, p) /\ task[x][p].pc # "boot"
  BY DEF Resting, TaskStep, Deliver, LookAgain, PairAgain, OwnPinFails, AskPeer, PeerAgrees,
     PeerDoesNot, Reverted, DissolveFailed, Outcome
<1>2. x = d
  BY <1>1, SoloFacts
<1>3. RestartAt(d, o, p) /\ tell[d].pc # "err"
  BY <1>1, <1>2, RunningSolo DEF Solo, OnlyOf
<1>4. ~Deliver(d, p) /\ ~OwnPinFails(d, p) /\ ~DissolveFailed(d, p)
  BY <1>3 DEF RestartAt, Deliver, OwnPinFails, DissolveFailed
<1> QED BY <1>2, <1>4, LookAgainSolo, PairAgainSolo, AskPeerSolo, PeerAgreesSolo, PeerDoesNotSolo,
         RevertedSolo, OutcomeSolo DEF TaskStep

\* What the other end does not do, and what ends the time that d restarted alone.
LEMMA SoloBars ==
  ASSUME PairInv, NEW d \in Ends, NEW o \in Ends, o = Other(d), Solo(d, o), solo' = d
  PROVE  /\ \A x \in Ends : ~TellFails(x) /\ ~StartFirst(x) /\ ~Stop(x)
         /\ \A p \in Pids : ~Reserve(p)
         /\ \A x \in Ends : StartAgain(x) \/ CommitRunning(x) \/ StartFails(x) => x = d
         /\ \A e \in forgets : ~Forget(e)
         /\ \A x \in Ends : \A p \in Pids : ~AskUnanswered(x, p)
         /\ \A t \in down : ~EndUnanswered(t)
<1>1. d # 0
  BY DEF Ends
<1>2. \A x \in Ends : ~StartFirst(x) /\ ~Stop(x)
  BY <1>1 DEF StartFirst, Stop
<1>3. (\A x \in Ends : \A p \in Pids : ~AskUnanswered(x, p)) /\ (\A t \in down : ~EndUnanswered(t))
  BY <1>1 DEF AskUnanswered, EndUnanswered
<1>4. \A x \in Ends : ~TellFails(x)
  BY <1>1, SoloFacts DEF TellFails
<1>5. \A x \in Ends : StartAgain(x) \/ CommitRunning(x) \/ StartFails(x) => x = d
  <2>1. \A x \in Ends : inst[x].st # "running" => x = d
    BY TwoEnds DEF Solo, PeerIdle
  <2>2. \A x \in Ends : StartAgain(x) \/ CommitRunning(x) \/ StartFails(x) => inst[x].st # "running"
    BY DEF StartAgain, CommitRunning, StartFails
  <2> QED BY <2>1, <2>2
<1>6. \A e \in forgets : ~Forget(e)
  BY DEF Solo, OnlyOf
<1>7. ASSUME NEW p \in Pids, Reserve(p) PROVE FALSE
  <2>1. task[1][p].pc = "reserve" /\ ~Resting(1, p) /\ inst[1].st = "starting"
    BY <1>7 DEF Reserve, Resting
  <2>2. 1 = d /\ p = inst[d].pid
    BY <2>1, SoloFacts DEF Ends
  <2> QED BY <2>1, <2>2, SoloFacts
<1> QED BY <1>2, <1>3, <1>4, <1>5, <1>6, <1>7

LEMMA SoloStep ==
  ASSUME PairInv, HalfInv, SoloInv, Next
  PROVE  SoloInv'
<1> SUFFICES ASSUME NEW d \in Ends, solo' = d
             PROVE  Solo(d, Other(d))'
  BY DEF SoloInv
<1>1. PICK o \in Ends : o = Other(d)
  BY DEF Ends, Other
<1>2. SUFFICES Solo(d, o)'
  BY <1>1
<1>3. ASSUME NEW x \in Ends, ProcExits(x)
      PROVE  Solo(d, o)'
  <2>1. solo' = (IF AtRest /\ held[x] THEN x ELSE 0) /\ d # 0
    BY <1>3 DEF ProcExits, Ends
  <2>2. x = d /\ AtRest /\ held[d]
    BY <2>1
  <2> QED BY <1>1, <1>3, <2>2, ProcExitsSolo
<1>4. CASE solo = d
  <2>1. Solo(d, o)
    BY <1>1, <1>4 DEF SoloInv
  <2>2. /\ \A x \in Ends : ~TellFails(x) /\ ~StartFirst(x) /\ ~Stop(x)
        /\ \A p \in Pids : ~Reserve(p)
        /\ \A x \in Ends : StartAgain(x) \/ CommitRunning(x) \/ StartFails(x) => x = d
        /\ \A e \in forgets : ~Forget(e)
        /\ \A x \in Ends : \A p \in Pids : ~AskUnanswered(x, p)
        /\ \A t \in down : ~EndUnanswered(t)
    BY <1>1, <2>1, SoloBars
  <2>3. ASSUME NEW x \in Ends, NEW p \in Pids, TaskStep(x, p)
        PROVE  Solo(d, o)'
    BY <1>1, <2>1, <2>3, TaskStepSolo
  <2>4. ASSUME StartAgain(d) \/ CommitRunning(d) \/ StartFails(d)
        PROVE  Solo(d, o)'
    BY <1>1, <2>1, <2>4, StartAgainSolo, CommitRunningSolo, StartFailsSolo
  <2>5. ASSUME NEW x \in Ends, CommitEnds(x) \/ EndTold(x) \/ Prune(x)
        PROVE  Solo(d, o)'
    BY <1>1, <2>1, <2>5, CommitEndsSolo, EndToldSolo, PruneSolo
  <2>6. ASSUME NEW u \in updates, NodeTakes(u)
        PROVE  Solo(d, o)'
    BY <1>1, <2>1, <2>6, NodeTakesSolo
  <2>7. ASSUME NEW x \in Ends, NEW c \in commits, CommitFromPeer(x, c)
        PROVE  Solo(d, o)'
    BY <1>1, <2>1, <2>7, CommitFromPeerSolo
  <2>8. ASSUME NEW x \in Ends, NEW e \in ends, EndArrives(x, e)
        PROVE  Solo(d, o)'
    BY <1>1, <2>1, <2>8, EndArrivesSolo
  <2>9. ASSUME NEW t \in down, AnnounceEnd(t) \/ Dissolve(t)
        PROVE  Solo(d, o)'
    BY <1>1, <2>1, <2>9, AnnounceEndSolo, DissolveSolo
  <2>10. ASSUME NEW x \in Ends, DaemonStep(x)
         PROVE  Solo(d, o)'
    BY <2>2, <2>3, <2>4, <2>5, <2>6, <2>7, <2>8, <2>9, <2>10 DEF DaemonStep
  <2> QED BY <1>3, <2>2, <2>4, <2>5, <2>10 DEF Next
<1>5. CASE solo # d
  <2>1. solo' # solo /\ solo' # 0
    BY <1>5 DEF Ends
  <2>2. \E x \in Ends : ProcExits(x)
    <3>1. ASSUME NEW x \in Ends, NEW p \in Pids, TaskStep(x, p)
          PROVE  solo' = solo
      BY <3>1 DEF TaskStep, Deliver, LookAgain, PairAgain, OwnPinFails, AskPeer, PeerAgrees,
         PeerDoesNot, Reverted, DissolveFailed, Outcome, ghosts
    <3>2. ASSUME NEW x \in Ends, StartAgain(x) \/ CommitRunning(x) \/ CommitEnds(x) \/ EndTold(x)
                 \/ StartFails(x) \/ Prune(x)
          PROVE  solo' = solo
      BY <3>2 DEF StartAgain, CommitRunning, CommitEnds, EndTold, StartFails, Prune, ghosts
    <3>3. \A x \in Ends : (TellFails(x) => solo' \in {0, solo}) /\ (StartFirst(x) \/ Stop(x) => solo' = 0)
      BY DEF TellFails, StartFirst, Stop
    <3>4. \A p \in Pids : Reserve(p) => solo' = solo
      BY DEF Reserve
    <3>5. /\ \A u \in updates : NodeTakes(u) => solo' = solo
          /\ \A x \in Ends : \A c \in commits : CommitFromPeer(x, c) => solo' = solo
          /\ \A x \in Ends : \A e \in ends : EndArrives(x, e) => solo' = solo
          /\ \A e \in forgets : Forget(e) => solo' = solo
      BY DEF NodeTakes, CommitFromPeer, EndArrives, Forget, ghosts
    <3>6. /\ \A t \in down : AnnounceEnd(t) \/ Dissolve(t) => solo' = solo
          /\ \A t \in down : EndUnanswered(t) => solo' = 0
          /\ \A x \in Ends : \A p \in Pids : AskUnanswered(x, p) => solo' = 0
      BY DEF AnnounceEnd, Dissolve, EndUnanswered, AskUnanswered, ghosts
    <3>7. \A x \in Ends : ~DaemonStep(x)
      BY <2>1, <3>1, <3>2, <3>3, <3>4, <3>5, <3>6 DEF DaemonStep
    <3> QED BY <2>1, <3>2, <3>3, <3>6, <3>7 DEF Next
  <2> QED BY <1>3, <2>2
<1> QED BY <1>4, <1>5

LEMMA SoloStutter ==
  ASSUME SoloInv, UNCHANGED vars
  PROVE  SoloInv'
<1> SUFFICES ASSUME NEW d \in Ends, solo' = d
             PROVE  Solo(d, Other(d))'
  BY DEF SoloInv
<1>1. Solo(d, Other(d))
  BY DEF SoloInv, vars
<1>2. PeerIdle(Other(d))' /\ OnlyOf(d)' /\ NoticeOf(d, Other(d))'
  BY <1>1 DEF vars, Solo, PeerIdle, OnlyOf, NoticeOf, Resting
<1>3. Phase(d, Other(d))'
  BY <1>1 DEF vars, Solo, Phase, Between, RestartAt, Asked, Quiet, Free, Resting
<1> QED BY <1>2, <1>3 DEF Solo

\* Both daemons hold the pair or neither does once an end that kept it restarted
\* alone and without a fault, whatever the faults and crossed restarts before it
\* left, while the instance that links the two is not stopped (announce_end,
\* pair_again, commit_pair_from_peer and forget_pairs_held_with).
THEOREM EndsAgree ==
  ASSUME 1 \notin Stoppable
  PROVE  Spec => []AgreeAfterRestart
<1>1. Init => HalfInv /\ SoloInv
  BY HalfInit DEF Init, SoloInv, Ends
<1>2. PairInv /\ HalfInv /\ SoloInv /\ [Next]_vars => HalfInv' /\ SoloInv'
  BY HalfStep, HalfStutter, SoloStep, SoloStutter
<1>3. ASSUME PairInv, SoloInv, AtRest, solo # 0
      PROVE  reg[1] = reg[2]
  <2>1. PICK d \in Ends : solo = d
    BY <1>3 DEF PairInv, Types, BoundTypes
  <2>2. PICK o \in Ends : o = Other(d)
    BY DEF Ends, Other
  <2>3. Solo(d, o) /\ inst[d].pid \in Pids
    BY <1>3, <2>1, <2>2, SoloFacts DEF SoloInv
  <2>4. inst[d].st = "running" /\ task[d][inst[d].pid].pc \in {"none", "done"}
    BY <1>3, <2>3 DEF AtRest
  <2>5. RestartAt(d, o, inst[d].pid)
    BY <2>3, <2>4 DEF Solo, Phase
  <2>6. reg[d] <=> reg[o]
    BY <2>4, <2>5 DEF RestartAt
  <2>7. reg[d] = reg[o]
    BY <1>3, <2>6, PlainTypes DEF PairInv, Plain
  <2> QED BY <2>2, <2>7 DEF Ends, Other
<1>4. PairInv /\ SoloInv => AgreeAfterRestart
  BY <1>3 DEF AgreeAfterRestart
<1> QED BY <1>1, <1>2, <1>4, PairInvariant, PTL DEF Spec
=============================================================================
