-------------------------- MODULE FleetBookProofs --------------------------
(***************************************************************************)
(* Proofs about FleetBook, for any clients, robots, stack changes and      *)
(* number of processes of a client: the types, the leases and what their   *)
(* holders are told, the answered halt, the goals of the holders, and the  *)
(* removals.                                                               *)
(***************************************************************************)
EXTENDS FleetBook, TLAPS

\* The events that the book sends.
Events == Clients \X {"lease_end", "lease_back", "taken", "offer", "offer_end"} \X Robots

\* A robot has no lease or a whole one; no lease is taken for none.
LEMMA LeaseFacts ==
  ASSUME TypeOK
  PROVE  /\ Leased \subseteq Robots
         /\ \A r \in Leased : lease[r] \in Lease
         /\ \A r \in Robots \ Leased : lease[r] = NoLease
         /\ NoLease \notin Lease
BY FleetAssumption DEF TypeOK, Leased, Lease, NoLease, NoClient, FleetAssumption

\* What a client takes or gets back is a lease.
LEMMA NewLeaseType ==
  ASSUME NEW c \in Clients, NEW giver \in Clients \cup {Own, Gone}
  PROVE  /\ NewLease(c, giver) \in Lease
         /\ NewLease(c, giver) # NoLease
BY FleetAssumption DEF NewLease, Lease, NoLease, NoClient, FleetAssumption

\* Events name robots.
LEMMA HeardType ==
  ASSUME NEW ev \in SUBSET Events, NEW c, NEW kind
  PROVE  Heard(ev, c, kind) \subseteq Robots
BY DEF Heard, Events

\* Hearing events keeps what clients know a set of robots.
LEMMA TellType ==
  ASSUME TypeOK, NEW ev \in SUBSET Events, NEW hs, Tell(ev, hs)
  PROVE  /\ knows' \in [Clients -> SUBSET Robots]
         /\ offered' \in [Clients -> SUBSET Robots]
BY HeardType DEF Tell, TypeOK

\* The events of the end of an offer are events.
LEMMA EndOfferType ==
  ASSUME NEW r \in Robots, NEW l \in Lease
  PROVE  EndOfferEvents(r, l) \subseteq Events
BY DEF EndOfferEvents, Events, Lease, NoClient

\* The events of a give-back are events, and it leaves a lease or none.
LEMMA GiveBackType ==
  ASSUME NEW r \in Robots, NEW l \in Lease, NEW hs \in SUBSET Clients
  PROVE  /\ GiveBackEvents(r, l, hs) \subseteq Events
         /\ GiveBackOrEnd(l, hs) \in Lease \cup {NoLease}
<1>1. GiveBackEvents(r, l, hs) \subseteq Events
  <2>1. EndOfferEvents(r, l) \subseteq Events
    BY EndOfferType
  <2>2. {<<l.holder, "lease_end", r>>} \subseteq Events
    BY DEF Events, Lease
  <2>3. l.giver \in hs => {<<l.giver, "lease_back", r>>} \subseteq Events
    BY DEF Events
  <2> QED BY <2>1, <2>2, <2>3 DEF GiveBackEvents
<1>2. GiveBackOrEnd(l, hs) \in Lease \cup {NoLease}
  <2>1. l.giver \in hs => NewLease(l.giver, Own) \in Lease
    BY NewLeaseType
  <2> QED BY <2>1 DEF GiveBackOrEnd
<1> QED BY <1>1, <1>2

\* The events of the end of all leases are events.
LEMMA EndEveryType ==
  ASSUME TypeOK
  PROVE  EndEveryLeaseEvents \subseteq Events
<1>1. \A r \in Leased : EndOfferEvents(r, lease[r]) \subseteq Events
  BY EndOfferType, LeaseFacts
<1>2. \A r \in Leased : <<lease[r].holder, "lease_end", r>> \in Events
  BY LeaseFacts DEF Events, Lease
<1> QED BY <1>1, <1>2 DEF EndEveryLeaseEvents

\* The end of all leases keeps the types.
LEMMA EndEveryLeaseType ==
  ASSUME TypeOK, EndEveryLease
  PROVE  /\ lease' \in [Robots -> Lease \cup {NoLease}]
         /\ knows' \in [Clients -> SUBSET Robots]
         /\ offered' \in [Clients -> SUBSET Robots]
BY EndEveryType, TellType DEF EndEveryLease

\* Taking a client off the book keeps the types.
LEMMA WithoutType ==
  ASSUME TypeOK, NEW c \in Clients, NEW hs \in SUBSET Clients
  PROVE  /\ LeasesWithout(c, hs) \in [Robots -> Lease \cup {NoLease}]
         /\ EndHoldingEvents(c, hs) \subseteq Events
<1>1. \A r \in Leased : GiveBackOrEnd(lease[r], hs) \in Lease \cup {NoLease}
  BY LeaseFacts, GiveBackType
<1>2. \A r \in Leased :
        [lease[r] EXCEPT !.offer = IF @ = c THEN NoClient ELSE @,
                         !.giver = IF @ = c THEN Gone ELSE @] \in Lease
  BY LeaseFacts DEF Lease
<1>3. LeasesWithout(c, hs) \in [Robots -> Lease \cup {NoLease}]
  BY <1>1, <1>2, LeaseFacts DEF LeasesWithout
<1>4. \A r \in HeldBy(c) : GiveBackEvents(r, lease[r], hs) \subseteq Events
  BY LeaseFacts, GiveBackType DEF HeldBy
<1>5. EndHoldingEvents(c, hs) \subseteq Events
  BY <1>4 DEF EndHoldingEvents
<1> QED BY <1>3, <1>5

\* A task that goes on is a task.
LEMMA GotoType ==
  ASSUME TypeOK, NEW x \in Changes, change[x].pc # "idle", NEW pc \in Steps, Goto(x, pc)
  PROVE  change' \in [Changes -> Task \cup {Idle}]
<1>1. change[x] \in Task
  BY DEF TypeOK, Idle
<1>2. [change[x] EXCEPT !.pc = pc] \in Task
  <2>1. CASE change[x] \in [kind : {"join", "remove"}, robot : Robots, client : Clients, pc : Steps]
    BY <2>1 DEF Task
  <2>2. CASE change[x] \in [kind : {"launch", "reset"}, pc : Steps]
    BY <2>2 DEF Task
  <2> QED BY <1>1, <2>1, <2>2 DEF Task
<1> QED BY <1>2 DEF Goto, TypeOK

\* A join or a removal names a robot and a client; a task that began has a kind.
LEMMA ChangeFacts ==
  ASSUME TypeOK, NEW x \in Changes
  PROVE  /\ change[x].kind \in {"join", "remove"} =>
              change[x].robot \in Robots /\ change[x].client \in Clients
         /\ change[x] # Idle => change[x].kind \in Kinds /\ change[x].pc \in Steps
BY DEF TypeOK, Task, Idle, Kinds

\* Goals begin and end within the types.
LEMMA GoalTypes ==
  ASSUME TypeOK, GoalNext
  PROVE  TypeOK'
<1>1. PICK c \in Clients :
        \/ ProcessRestarts(c)
        \/ \E g \in Gens : BeginGoal(c, g) \/ AcceptGoal(c, g) \/ AcceptFails(c, g) \/ EndGoal(c, g)
  BY DEF GoalNext
<1> DEFINE hs == Holding \ {c}
<1>2. hs \in SUBSET Clients
  BY DEF Holding
<1> HIDE DEF hs
<1>3. ASSUME NEW g \in Gens, EndHolding(c, g)
      PROVE  /\ holders' \in [Clients -> Gens \cup {0}]
             /\ ended' \subseteq Clients \X Gens
             /\ lease' \in [Robots -> Lease \cup {NoLease}]
             /\ knows' \in [Clients -> SUBSET Robots]
             /\ offered' \in [Clients -> SUBSET Robots]
  <2>1. CASE MatchesGeneration(c, g) /\ holders[c] # 0
    <3>1. lease' = LeasesWithout(c, hs) /\ Tell(EndHoldingEvents(c, hs), hs)
      BY <1>3, <2>1 DEF EndHolding, hs
    <3>2. holders' = [holders EXCEPT ![c] = 0]
          /\ ended' = (ended \cup {<<c, holders[c]>>}) \ {<<c, g>>}
      BY <1>3, <2>1 DEF EndHolding
    <3>3. holders' \in [Clients -> Gens \cup {0}] /\ ended' \subseteq Clients \X Gens
      BY <3>2, <2>1 DEF TypeOK, MatchesGeneration
    <3> QED BY <3>1, <3>3, <1>2, WithoutType, TellType
  <2>2. CASE ~(MatchesGeneration(c, g) /\ holders[c] # 0)
    BY <1>3, <2>2 DEF EndHolding, TypeOK
  <2> QED BY <2>1, <2>2
<1>4. ASSUME NEW g \in Gens, BeginGoal(c, g) PROVE TypeOK'
  <2>2. /\ holders' \in [Clients -> Gens \cup {0}]
        /\ goal' \in [Clients -> [Gens -> {"none", "begun", "running"}]]
    BY <1>4 DEF BeginGoal, TypeOK
  <2>3. /\ ended' \subseteq Clients \X Gens
        /\ lease' \in [Robots -> Lease \cup {NoLease}]
        /\ knows' \in [Clients -> SUBSET Robots]
        /\ offered' \in [Clients -> SUBSET Robots]
    <3>1. CASE holders[c] = 0
      BY <1>4, <3>1 DEF BeginGoal, TypeOK
    <3>2. CASE holders[c] # 0
      <4>1. /\ ended' = (ended \cup {<<c, holders[c]>>}) \ {<<c, g>>}
            /\ lease' = LeasesWithout(c, hs)
            /\ Tell(EndHoldingEvents(c, hs), hs)
        BY <1>4, <3>2 DEF BeginGoal, hs
      <4>2. ended' \subseteq Clients \X Gens
        BY <4>1, <3>2 DEF TypeOK
      <4> QED BY <4>1, <4>2, <1>2, WithoutType, TellType
    <3> QED BY <3>1, <3>2
  <2> QED BY <1>4, <2>2, <2>3 DEF BeginGoal, TypeOK, changeVars, recordVars, diskVars
<1>5. CASE ProcessRestarts(c)
  <2>1. proc' \in [Clients -> Gens]
    BY <1>5, FleetAssumption DEF ProcessRestarts, TypeOK, Gens, FleetAssumption
  <2> QED BY <1>5, <2>1
      DEF ProcessRestarts, TypeOK, bookVars, changeVars, recordVars, diskVars
<1>6. ASSUME NEW g \in Gens, AcceptGoal(c, g)
      PROVE  TypeOK'
  BY <1>6 DEF AcceptGoal, TypeOK, bookVars, changeVars, recordVars, diskVars
<1>7. ASSUME NEW g \in Gens, AcceptFails(c, g) \/ EndGoal(c, g)
      PROVE  TypeOK'
  <2>1. goal' \in [Clients -> [Gens -> {"none", "begun", "running"}]]
    BY <1>7 DEF AcceptFails, EndGoal, TypeOK
  <2>2. EndHolding(c, g) /\ UNCHANGED <<halt, leaving, proc, changeVars, recordVars, diskVars>>
    BY <1>7 DEF AcceptFails, EndGoal
  <2> QED BY <2>1, <2>2, <1>3 DEF TypeOK, changeVars, recordVars, diskVars
<1> QED BY <1>1, <1>4, <1>5, <1>6, <1>7

\* The services keep the types.
LEMMA ServiceTypes ==
  ASSUME TypeOK, ServiceNext
  PROVE  TypeOK'
<1> USE DEF goalVars, changeVars, recordVars, diskVars
<1>1. Holding \in SUBSET Clients
  BY DEF Holding
<1>2. ASSUME NEW c \in Clients, NEW r \in Robots, Take(c, r)
      PROVE  TypeOK'
  <2>1. CASE lease[r] = NoLease
    <3>1. lease' = [lease EXCEPT ![r] = NewLease(c, Own)] /\ Tell({<<c, "taken", r>>}, Holding)
      BY <1>2, <2>1 DEF Take
    <3>2. {<<c, "taken", r>>} \in SUBSET Events
      BY DEF Events
    <3>3. lease' \in [Robots -> Lease \cup {NoLease}]
      BY <3>1, NewLeaseType DEF TypeOK
    <3>4. knows' \in [Clients -> SUBSET Robots] /\ offered' \in [Clients -> SUBSET Robots]
      BY <3>1, <3>2, TellType
    <3> QED BY <1>2, <3>3, <3>4 DEF Take, TypeOK
  <2>2. CASE lease[r] # NoLease
    <3> DEFINE ev == {<<c, "taken", r>>, <<lease[r].holder, "lease_end", r>>}
    <3>1. lease' = [lease EXCEPT ![r] = NewLease(c, lease[r].holder)] /\ Tell(ev, Holding)
      BY <1>2, <2>2 DEF Take
    <3>2. lease[r].holder \in Clients
      BY <2>2 DEF TypeOK, Lease
    <3>3. ev \in SUBSET Events
      BY <3>2 DEF Events
    <3>4. lease' \in [Robots -> Lease \cup {NoLease}]
      BY <3>1, <3>2, NewLeaseType DEF TypeOK
    <3>5. knows' \in [Clients -> SUBSET Robots] /\ offered' \in [Clients -> SUBSET Robots]
      BY <3>1, <3>3, TellType
    <3> QED BY <1>2, <3>4, <3>5 DEF Take, TypeOK
  <2> QED BY <2>1, <2>2
<1>3. ASSUME NEW c \in Clients, NEW r \in Robots, Release(c, r)
      PROVE  TypeOK'
  <2>1. lease[r] \in Lease
    BY <1>3 DEF Release, IsHeld, TypeOK
  <2>2. /\ lease' = [lease EXCEPT ![r] = GiveBackOrEnd(lease[r], Holding)]
        /\ Tell(GiveBackEvents(r, lease[r], Holding), Holding)
    BY <1>3 DEF Release
  <2>3. lease' \in [Robots -> Lease \cup {NoLease}]
    BY <2>1, <2>2, <1>1, GiveBackType DEF TypeOK
  <2>4. knows' \in [Clients -> SUBSET Robots] /\ offered' \in [Clients -> SUBSET Robots]
    BY <2>1, <2>2, <1>1, GiveBackType, TellType
  <2> QED BY <1>3, <2>3, <2>4 DEF Release, TypeOK
<1>4. ASSUME NEW c \in Clients, NEW r \in Robots, Open(c, r) \/ Close(c, r)
      PROVE  TypeOK'
  <2>1. PICK b \in BOOLEAN : lease' = [lease EXCEPT ![r].open = b]
    BY <1>4 DEF Open, Close
  <2>2. lease[r] \in Lease
    BY <1>4 DEF Open, Close, IsHeld, TypeOK
  <2>3. [lease[r] EXCEPT !.open = b] \in Lease
    BY <2>2 DEF Lease
  <2>4. lease' \in [Robots -> Lease \cup {NoLease}]
    BY <2>1, <2>3 DEF TypeOK
  <2> QED BY <1>4, <2>4 DEF Open, Close, TypeOK
<1>5. ASSUME NEW c \in Clients, NEW rs \in SUBSET Robots, NEW to \in Clients, Offer(c, rs, to)
      PROVE  TypeOK'
  <2> DEFINE fresh == {r \in rs : lease[r].offer # to}
             ev == (UNION {EndOfferEvents(r, lease[r]) : r \in fresh})
                     \cup {<<to, "offer", r>> : r \in fresh}
  <2>1. \A r \in rs : lease[r] \in Lease
    BY <1>5 DEF Offer, IsHeld, TypeOK
  <2>2. ev \in SUBSET Events
    <3>1. \A r \in fresh : EndOfferEvents(r, lease[r]) \subseteq Events
      BY <2>1, EndOfferType
    <3>2. \A r \in fresh : <<to, "offer", r>> \in Events
      BY DEF Events
    <3> QED BY <3>1, <3>2
  <2>3. \A r \in rs : [lease[r] EXCEPT !.offer = to] \in Lease
    BY <2>1 DEF Lease
  <2>4. lease' \in [Robots -> Lease \cup {NoLease}]
    BY <1>5, <2>3 DEF Offer, TypeOK
  <2>5. knows' \in [Clients -> SUBSET Robots] /\ offered' \in [Clients -> SUBSET Robots]
    BY <1>5, <2>2, TellType DEF Offer
  <2> QED BY <1>5, <2>4, <2>5 DEF Offer, TypeOK
<1> QED BY <1>2, <1>3, <1>4, <1>5 DEF ServiceNext

\* The halt, its clear and the crashes keep the types.
LEMMA HaltTypes ==
  ASSUME TypeOK, HaltNext
  PROVE  TypeOK'
<1> USE DEF goalVars, changeVars, recordVars, diskVars
<1>1. HaltBook => /\ halt' \in BOOLEAN
                  /\ lease' \in [Robots -> Lease \cup {NoLease}]
                  /\ knows' \in [Clients -> SUBSET Robots]
                  /\ offered' \in [Clients -> SUBSET Robots]
  BY EndEveryLeaseType DEF HaltBook, TypeOK
<1>2. CASE HaltWritten \/ HaltNotWritten
  BY <1>1, <1>2 DEF HaltWritten, HaltNotWritten, TypeOK
<1>3. CASE ClearHalt
  BY <1>3 DEF ClearHalt, TypeOK
<1>4. CASE Crash \/ CrashInClear
  <2>1. PICK file \in BOOLEAN : Restart(file) /\ promised' \in BOOLEAN
    BY <1>4 DEF Crash, CrashInClear, TypeOK
  <2> QED BY <2>1 DEF Restart, TypeOK
<1> QED BY <1>2, <1>3, <1>4 DEF HaltNext

\* Stack changes keep the types.
LEMMA ChangeTypes ==
  ASSUME TypeOK, ChangeNext
  PROVE  TypeOK'
<1> USE DEF bookVars, goalVars, changeVars, recordVars, diskVars
<1>1. PICK x \in Changes :
        \/ \E k \in {"join", "remove"}, r \in Robots, c \in Askers : BeginOfCopy(x, k, r, c)
        \/ \E k \in {"launch", "reset"} : BeginOfStack(x, k)
        \/ AdmitByLeases(x) \/ PassGate(x) \/ RefuseChange(x)
        \/ CommitJoin(x) \/ CommitRemoval(x) \/ DropLaunch(x)
        \/ \E rs \in SUBSET Robots : CommitLaunch(x, rs)
        \/ ChangeFails(x) \/ DropMutation(x) \/ DropRemovalHold(x) \/ ReleaseGate(x)
  BY DEF ChangeNext
<1> DEFINE TaskOK == change' \in [Changes -> Task \cup {Idle}]
<1>2. change[x].pc # "idle" => change[x] # Idle
  BY DEF Idle
<1>3. change' = [change EXCEPT ![x] = Idle] => TaskOK
  BY DEF TypeOK
<1>4. \A pc \in Steps : change[x].pc # "idle" /\ Goto(x, pc) => TaskOK
  BY GotoType
<1>5. {"leases", "gate", "run", "launched", "drop", "unhold", "release"} \subseteq Steps
      /\ "idle" \notin Steps
  BY DEF Steps
<1>6. ASSUME NEW task \in Task, BeginChange(x, task)
      PROVE  TypeOK'
  BY <1>6 DEF BeginChange, TypeOK
<1>7. ASSUME NEW k \in {"join", "remove"}, NEW r \in Robots, NEW c \in Askers, BeginOfCopy(x, k, r, c)
      PROVE  TypeOK'
  BY <1>5, <1>6, <1>7, FleetAssumption DEF BeginOfCopy, Task, FleetAssumption
<1>8. ASSUME NEW k \in {"launch", "reset"}, BeginOfStack(x, k)
      PROVE  TypeOK'
  BY <1>5, <1>6, <1>8 DEF BeginOfStack, Task
<1>9. CASE AdmitByLeases(x)
  <2>1. TaskOK
    BY <1>3, <1>4, <1>5, <1>9 DEF AdmitByLeases
  <2>2. leaving' \subseteq Robots
    BY <1>9, ChangeFacts DEF AdmitByLeases, TypeOK
  <2> QED BY <1>9, <2>1, <2>2 DEF AdmitByLeases, TypeOK
<1>10. CASE PassGate(x)
  <2>1. TaskOK
    BY <1>4, <1>5, <1>10 DEF PassGate
  <2>2. gate' \subseteq Kinds
    BY <1>2, <1>10, ChangeFacts DEF PassGate, TypeOK
  <2> QED BY <1>10, <2>1, <2>2 DEF PassGate, TypeOK
<1>11. CASE RefuseChange(x)
  BY <1>3, <1>11 DEF RefuseChange, DropHold, AlsoLifted, TypeOK
<1>12. CASE CommitJoin(x)
  <2> DEFINE c == change[x].client
             r == change[x].robot
  <2>1. c \in Clients /\ r \in Robots
    BY <1>12, ChangeFacts DEF CommitJoin
  <2>2. TaskOK
    BY <1>4, <1>5, <1>12 DEF CommitJoin
  <2>3. {<<c, "taken", r>>} \in SUBSET Events
    BY <2>1 DEF Events
  <2>4. /\ lease' \in [Robots -> Lease \cup {NoLease}]
        /\ knows' \in [Clients -> SUBSET Robots]
        /\ offered' \in [Clients -> SUBSET Robots]
    <3>1. CASE LeasesJoined(c, r)
      <4>1. lease' = [lease EXCEPT ![r] = NewLease(c, Own)] /\ Tell({<<c, "taken", r>>}, Holding)
        BY <1>12, <3>1 DEF CommitJoin
      <4> QED BY <4>1, <2>1, <2>3, NewLeaseType, TellType DEF TypeOK
    <3>2. CASE ~LeasesJoined(c, r)
      BY <1>12, <3>2 DEF CommitJoin, TypeOK
    <3> QED BY <3>1, <3>2
  <2> QED BY <1>12, <2>1, <2>2, <2>4 DEF CommitJoin, TypeOK
<1>13. CASE CommitRemoval(x)
  <2>1. TaskOK
    BY <1>4, <1>5, <1>13 DEF CommitRemoval
  <2> QED BY <1>13, <2>1 DEF CommitRemoval, TypeOK
<1>14. CASE DropLaunch(x)
  <2>1. TaskOK
    BY <1>4, <1>5, <1>14 DEF DropLaunch
  <2> QED BY <1>14, <2>1, EndEveryLeaseType DEF DropLaunch, TypeOK
<1>15. ASSUME NEW rs \in SUBSET Robots, CommitLaunch(x, rs)
       PROVE  TypeOK'
  <2>1. TaskOK
    BY <1>4, <1>5, <1>15 DEF CommitLaunch
  <2> QED BY <1>15, <2>1 DEF CommitLaunch, TypeOK
<1>16. CASE ChangeFails(x)
  <2>1. TaskOK
    BY <1>4, <1>5, <1>16 DEF ChangeFails
  <2> QED BY <1>16, <2>1 DEF ChangeFails, TypeOK
<1>17. CASE DropMutation(x)
  <2>1. TaskOK
    BY <1>3, <1>4, <1>5, <1>17 DEF DropMutation
  <2> QED BY <1>17, <2>1 DEF DropMutation, TypeOK
<1>18. CASE DropRemovalHold(x)
  <2>1. TaskOK
    BY <1>4, <1>5, <1>18 DEF DropRemovalHold
  <2> QED BY <1>18, <2>1 DEF DropRemovalHold, DropHold, AlsoLifted, TypeOK
<1>19. CASE ReleaseGate(x)
  BY <1>3, <1>19 DEF ReleaseGate, TypeOK
<1> QED BY <1>1, <1>7, <1>8, <1>9, <1>10, <1>11, <1>12, <1>13, <1>14, <1>15, <1>16, <1>17,
           <1>18, <1>19

\* A daemon starts within the types.
LEMMA InitTypes == Init => TypeOK
<1>1. 1 \in Gens
  BY FleetAssumption DEF Gens, FleetAssumption
<1>2. [c \in Clients |-> [g \in Gens |-> "none"]]
        \in [Clients -> [Gens -> {"none", "begun", "running"}]]
  <2>1. [g \in Gens |-> "none"] \in [Gens -> {"none", "begun", "running"}]
    OBVIOUS
  <2> QED BY <2>1
<1>3. Init => goal \in [Clients -> [Gens -> {"none", "begun", "running"}]]
  BY <1>2 DEF Init
<1> QED BY <1>1, <1>3 DEF Init, TypeOK

\* Every step keeps the types.
LEMMA NextTypes == TypeOK /\ [Next]_vars => TypeOK'
<1> SUFFICES ASSUME TypeOK, [Next]_vars PROVE TypeOK'
  OBVIOUS
<1>1. CASE UNCHANGED vars
  BY <1>1 DEF vars, bookVars, goalVars, changeVars, recordVars, diskVars, TypeOK
<1> QED BY <1>1, GoalTypes, ServiceTypes, HaltTypes, ChangeTypes DEF Next

\* The book, the goals, the changes and what clients know keep their types, over
\* crashes of the daemon too.
THEOREM FleetTypeCorrect == Spec => []TypeOK
BY InitTypes, NextTypes, PTL DEF Spec

\* A client hears of a robot exactly what an event tells.
LEMMA HeardIff ==
  ASSUME NEW ev \in SUBSET Events, NEW c, NEW kind, NEW r
  PROVE  r \in Heard(ev, c, kind) <=> <<c, kind, r>> \in ev
<1>1. ASSUME r \in Heard(ev, c, kind)
      PROVE  <<c, kind, r>> \in ev
  <2>1. PICK e \in ev : e[1] = c /\ e[2] = kind /\ e[3] = r
    BY <1>1 DEF Heard
  <2>2. e = <<c, kind, r>>
    BY <2>1 DEF Events
  <2> QED BY <2>2
<1>2. ASSUME <<c, kind, r>> \in ev
      PROVE  r \in Heard(ev, c, kind)
  <2> DEFINE e == <<c, kind, r>>
  <2>1. e \in ev /\ e[1] = c /\ e[2] = kind /\ e[3] = r
    BY <1>2
  <2> HIDE DEF e
  <2> QED BY <2>1 DEF Heard
<1> QED BY <1>1, <1>2

\* What a client knows after the events, one robot at a time.
LEMMA TellSays ==
  ASSUME TypeOK, NEW ev \in SUBSET Events, NEW hs, Tell(ev, hs), NEW c \in Clients, NEW r
  PROVE  /\ r \in knows'[c] <=>
              /\ c \in hs
              /\ r \in knows[c] \/ <<c, "lease_back", r>> \in ev \/ <<c, "taken", r>> \in ev
              /\ <<c, "lease_end", r>> \notin ev
         /\ r \in offered'[c] <=>
              /\ c \in hs
              /\ r \in offered[c] \/ <<c, "offer", r>> \in ev
              /\ <<c, "offer_end", r>> \notin ev
              /\ <<c, "taken", r>> \notin ev
BY HeardIff DEF Tell

\* Who is told of the end of an offer.
LEMMA EndOfferSays ==
  ASSUME NEW r, NEW l, NEW d, NEW k, NEW q
  PROVE  <<d, k, q>> \in EndOfferEvents(r, l) <=>
           q = r /\ k = "offer_end" /\ d = l.offer /\ l.offer # NoClient
BY DEF EndOfferEvents

\* Who is told of the end of one lease.
LEMMA GiveBackSays ==
  ASSUME NEW r, NEW l, NEW hs, NEW d, NEW k, NEW q
  PROVE  <<d, k, q>> \in GiveBackEvents(r, l, hs) <=>
           /\ q = r
           /\ \/ k = "offer_end" /\ d = l.offer /\ l.offer # NoClient
              \/ k = "lease_end" /\ d = l.holder
              \/ k = "lease_back" /\ d = l.giver /\ l.giver \in hs
<1>1. <<d, k, q>> \in {<<l.holder, "lease_end", r>>} <=> d = l.holder /\ k = "lease_end" /\ q = r
  OBVIOUS
<1>2. <<d, k, q>> \in {<<l.giver, "lease_back", r>>} <=> d = l.giver /\ k = "lease_back" /\ q = r
  OBVIOUS
<1> QED BY <1>1, <1>2, EndOfferSays DEF GiveBackEvents

\* Who is told as a client leaves the book.
LEMMA EndHoldingSays ==
  ASSUME NEW c, NEW hs, NEW d, NEW k, NEW q
  PROVE  <<d, k, q>> \in EndHoldingEvents(c, hs) <=>
           /\ q \in HeldBy(c)
           /\ \/ k = "offer_end" /\ d = lease[q].offer /\ lease[q].offer # NoClient
              \/ k = "lease_end" /\ d = c
              \/ k = "lease_back" /\ d = lease[q].giver /\ lease[q].giver \in hs
<1>1. \A r \in HeldBy(c) : lease[r].holder = c
  BY DEF HeldBy
<1>2. <<d, k, q>> \in EndHoldingEvents(c, hs) <=>
        \E r \in HeldBy(c) : <<d, k, q>> \in GiveBackEvents(r, lease[r], hs)
  BY DEF EndHoldingEvents
<1> QED BY <1>1, <1>2, GiveBackSays

\* Who is told when every lease ends.
LEMMA EndEverySays ==
  ASSUME NEW d, NEW k, NEW q
  PROVE  <<d, k, q>> \in EndEveryLeaseEvents <=>
           /\ q \in Leased
           /\ \/ k = "offer_end" /\ d = lease[q].offer /\ lease[q].offer # NoClient
              \/ k = "lease_end" /\ d = lease[q].holder
<1>1. <<d, k, q>> \in EndEveryLeaseEvents <=>
        \E r \in Leased : \/ <<d, k, q>> \in EndOfferEvents(r, lease[r])
                          \/ <<d, k, q>> = <<lease[r].holder, "lease_end", r>>
  BY DEF EndEveryLeaseEvents
<1> QED BY <1>1, EndOfferSays

-----------------------------------------------------------------------------
\* The lease l is right when the clients hs hold leases.
RightLease(l, hs) ==
    /\ l.holder \in hs
    /\ l.giver \in Clients => l.giver \in hs \ {l.holder}
    /\ l.offer # NoClient => l.giver = Own /\ l.offer # l.holder

\* Every lease is right, and there is none under a halt.
RightBook == \A r \in Robots : lease[r] # NoLease => ~halt /\ RightLease(lease[r], Holding)

\* Every client knows exactly its leases, and of offers only open ones.  It is of
\* all clients: one that begins to hold starts from knowing nothing.
RightNews ==
    \A c \in Clients, r \in Robots :
      /\ r \in knows[c] <=> lease[r] # NoLease /\ lease[r].holder = c
      /\ r \in offered[c] => lease[r] # NoLease /\ lease[r].offer = c

\* RightBook is LeasesHaveHolders, one robot at a time.
LEMMA BookMeaning == RightBook <=> LeasesHaveHolders
BY DEF RightBook, RightLease, LeasesHaveHolders, Leased

\* RightNews implies EventsTellAll: the move check follows from the leases.
LEMMA NewsMeaning == TypeOK /\ RightNews => EventsTellAll
<1> SUFFICES ASSUME TypeOK, RightNews, NEW c \in Holding
    PROVE  /\ knows[c] = HeldBy(c)
           /\ \A r \in offered[c] : lease[r] # NoLease /\ lease[r].offer = c
           /\ \A r \in Robots :
                ~halt => (MayMove(c, r) <=>
                            (r \in knows[c] \/ (lease[r] # NoLease /\ lease[r].open)))
  BY DEF EventsTellAll
<1>1. c \in Clients /\ holders[c] # 0
  BY DEF Holding
<1>2. knows[c] \subseteq Robots /\ offered[c] \subseteq Robots
  BY <1>1 DEF TypeOK
<1>3. \A r \in Robots : r \in knows[c] <=> lease[r] # NoLease /\ lease[r].holder = c
  BY <1>1 DEF RightNews
<1>4. knows[c] = HeldBy(c)
  BY <1>2, <1>3 DEF HeldBy, Leased
<1>5. \A r \in offered[c] : lease[r] # NoLease /\ lease[r].offer = c
  BY <1>1, <1>2 DEF RightNews
<1>6. ASSUME NEW r \in Robots, ~halt
      PROVE  MayMove(c, r) <=> (r \in knows[c] \/ (lease[r] # NoLease /\ lease[r].open))
  BY <1>1, <1>3, <1>6 DEF MayMove
<1> QED BY <1>4, <1>5, <1>6

\* A new lease of a holder, given by nobody or by another holder, is right.
LEMMA NewLeaseRight ==
  ASSUME NEW hs \in SUBSET Clients, NEW c \in hs, NEW giver \in (hs \ {c}) \cup {Own}
  PROVE  RightLease(NewLease(c, giver), hs)
BY FleetAssumption DEF RightLease, NewLease, FleetAssumption

\* A client leaves the book: its leases go back or end, the others lose it as
\* giver and as the one they are offered to, and everyone concerned is told
\* (end_holding, and begin_holding of a later process).
LEMMA WithoutRight ==
  ASSUME TypeOK, RightBook, RightNews, NEW c \in Clients,
         lease' = LeasesWithout(c, Holding \ {c}),
         Tell(EndHoldingEvents(c, Holding \ {c}), Holding \ {c}),
         halt' = halt, Holding \ {c} \subseteq Holding'
  PROVE  RightBook' /\ RightNews'
<1> DEFINE hs == Holding \ {c}
           ev == EndHoldingEvents(c, hs)
<1>1. hs \in SUBSET Clients /\ c \notin hs
  BY DEF Holding
<1>2. ev \in SUBSET Events
  BY <1>1, WithoutType
<1>3. ASSUME NEW r \in Robots
      PROVE  /\ lease[r] = NoLease => lease'[r] = NoLease
             /\ lease[r] # NoLease /\ lease[r].holder = c =>
                  lease'[r] = GiveBackOrEnd(lease[r], hs)
             /\ lease[r] # NoLease /\ lease[r].holder # c =>
                  /\ lease'[r] \in Lease
                  /\ lease'[r].holder = lease[r].holder
                  /\ lease'[r].offer = IF lease[r].offer = c THEN NoClient ELSE lease[r].offer
                  /\ lease'[r].giver = IF lease[r].giver = c THEN Gone ELSE lease[r].giver
  <2>1. lease'[r] = LeasesWithout(c, hs)[r]
    OBVIOUS
  <2>2. CASE lease[r] = NoLease
    BY <2>1, <2>2 DEF LeasesWithout
  <2>3. CASE lease[r] # NoLease /\ lease[r].holder = c
    BY <2>1, <2>3 DEF LeasesWithout
  <2>4. CASE lease[r] # NoLease /\ lease[r].holder # c
    <3>1. lease[r] \in Lease
      BY <2>4 DEF TypeOK
    <3>2. lease'[r] = [lease[r] EXCEPT !.offer = IF @ = c THEN NoClient ELSE @,
                                       !.giver = IF @ = c THEN Gone ELSE @]
      BY <2>1, <2>4 DEF LeasesWithout
    <3> QED BY <2>4, <3>1, <3>2 DEF Lease
  <2> QED BY <2>2, <2>3, <2>4
<1>4. ASSUME NEW r \in Robots, lease[r] # NoLease, lease[r].holder = c
      PROVE  /\ lease[r].giver \in hs => lease'[r] = NewLease(lease[r].giver, Own)
             /\ lease[r].giver \notin hs => lease'[r] = NoLease
  BY <1>3, <1>4 DEF GiveBackOrEnd
<1>5. RightBook'
  <2> SUFFICES ASSUME NEW r \in Robots, lease'[r] # NoLease
               PROVE  ~halt' /\ RightLease(lease'[r], Holding')
    BY DEF RightBook
  <2>1. lease[r] # NoLease /\ ~halt /\ RightLease(lease[r], Holding)
    BY <1>3 DEF RightBook
  <2>2. CASE lease[r].holder = c
    <3>1. lease[r].giver \in hs /\ lease'[r] = NewLease(lease[r].giver, Own)
      BY <1>4, <2>1, <2>2
    <3>2. Holding' \in SUBSET Clients /\ lease[r].giver \in Holding'
      BY <3>1 DEF Holding
    <3> QED BY <2>1, <3>1, <3>2, NewLeaseRight
  <2>3. CASE lease[r].holder # c
    <3>1. lease[r] \in Lease
      BY <2>1 DEF TypeOK
    <3> QED BY <1>3, <2>1, <2>3, <3>1, FleetAssumption
        DEF RightLease, Lease, FleetAssumption
  <2> QED BY <2>2, <2>3
<1>6. RightNews'
  <2> SUFFICES ASSUME NEW d \in Clients, NEW r \in Robots
               PROVE  /\ r \in knows'[d] <=> lease'[r] # NoLease /\ lease'[r].holder = d
                      /\ r \in offered'[d] => lease'[r] # NoLease /\ lease'[r].offer = d
    BY DEF RightNews
  <2>1. /\ r \in knows'[d] <=>
             /\ d \in hs
             /\ r \in knows[d] \/ <<d, "lease_back", r>> \in ev \/ <<d, "taken", r>> \in ev
             /\ <<d, "lease_end", r>> \notin ev
        /\ r \in offered'[d] <=>
             /\ d \in hs
             /\ r \in offered[d] \/ <<d, "offer", r>> \in ev
             /\ <<d, "offer_end", r>> \notin ev
             /\ <<d, "taken", r>> \notin ev
    <3>1. Tell(ev, hs)
      OBVIOUS
    <3> HIDE DEF ev, hs
    <3> QED BY <1>2, <3>1, TellSays
  <2>2. r \in HeldBy(c) <=> lease[r] # NoLease /\ lease[r].holder = c
    BY DEF HeldBy, Leased
  <2>3. /\ <<d, "taken", r>> \notin ev /\ <<d, "offer", r>> \notin ev
        /\ <<d, "lease_back", r>> \in ev <=>
             r \in HeldBy(c) /\ d = lease[r].giver /\ lease[r].giver \in hs
        /\ <<d, "lease_end", r>> \in ev <=> r \in HeldBy(c) /\ d = c
        /\ <<d, "offer_end", r>> \in ev <=>
             r \in HeldBy(c) /\ d = lease[r].offer /\ lease[r].offer # NoClient
    BY EndHoldingSays
  <2>4. /\ r \in knows[d] <=> lease[r] # NoLease /\ lease[r].holder = d
        /\ r \in offered[d] => lease[r] # NoLease /\ lease[r].offer = d
    BY DEF RightNews
  <2>5. d # NoClient /\ d # Own
    BY FleetAssumption DEF FleetAssumption
  <2>6. CASE lease[r] = NoLease
    BY <1>3, <2>1, <2>2, <2>3, <2>4, <2>6
  <2>7. CASE lease[r] # NoLease /\ lease[r].holder = c
    <3>1. CASE lease[r].giver \in hs
      <4>1. lease'[r] = NewLease(lease[r].giver, Own) /\ lease[r].giver \in Clients
        BY <1>1, <1>4, <2>7, <3>1
      <4>2. lease'[r].holder = lease[r].giver /\ lease'[r] # NoLease
        BY <4>1, NewLeaseType DEF NewLease
      <4> QED BY <1>1, <2>1, <2>2, <2>3, <2>4, <2>5, <2>7, <3>1, <4>2
    <3>2. CASE lease[r].giver \notin hs
      BY <1>1, <1>4, <2>1, <2>2, <2>3, <2>4, <2>5, <2>7, <3>2
    <3> QED BY <3>1, <3>2
  <2>8. CASE lease[r] # NoLease /\ lease[r].holder # c
    <3>1. lease'[r] # NoLease
      BY <1>3, <2>8, LeaseFacts
    <3>2. lease[r].holder \in hs
      BY <2>8 DEF RightBook, RightLease
    <3> QED BY <1>1, <1>3, <2>1, <2>2, <2>3, <2>4, <2>5, <2>8, <3>1, <3>2
  <2> QED BY <2>6, <2>7, <2>8
<1> QED BY <1>5, <1>6

\* Every lease ends, and its holder and the client it is offered to are told.
LEMMA EndEveryRight ==
  ASSUME TypeOK, RightNews, EndEveryLease
  PROVE  RightBook' /\ RightNews'
<1>1. \A r \in Robots : lease'[r] = NoLease
  BY DEF EndEveryLease
<1>2. RightBook'
  BY <1>1 DEF RightBook
<1>3. ASSUME NEW d \in Clients, NEW r \in Robots
      PROVE  r \notin knows'[d] /\ r \notin offered'[d]
  <2> DEFINE ev == EndEveryLeaseEvents
  <2>1. ev \in SUBSET Events /\ Tell(ev, Holding)
    BY EndEveryType DEF EndEveryLease
  <2>2. /\ <<d, "taken", r>> \notin ev /\ <<d, "offer", r>> \notin ev
        /\ <<d, "lease_back", r>> \notin ev
        /\ <<d, "lease_end", r>> \in ev <=> r \in Leased /\ d = lease[r].holder
        /\ <<d, "offer_end", r>> \in ev <=>
             r \in Leased /\ d = lease[r].offer /\ lease[r].offer # NoClient
    BY EndEverySays
  <2>3. d # NoClient
    BY FleetAssumption DEF FleetAssumption
  <2> HIDE DEF ev
  <2>4. r \in knows'[d] => r \in knows[d] /\ <<d, "lease_end", r>> \notin ev
    BY <2>1, <2>2, TellSays
  <2>5. r \in offered'[d] => r \in offered[d] /\ <<d, "offer_end", r>> \notin ev
    BY <2>1, <2>2, TellSays
  <2> QED BY <2>2, <2>3, <2>4, <2>5 DEF RightNews, Leased
<1>4. RightNews'
  BY <1>1, <1>3 DEF RightNews
<1> QED BY <1>2, <1>4

\* Steps beside the leases and the holders, and the clear of a halt.
LEMMA BookFrame ==
  ASSUME TypeOK, RightBook, RightNews,
         UNCHANGED <<lease, holders, knows, offered>>, halt' \in {halt, FALSE}
  PROVE  RightBook' /\ RightNews'
<1>1. Holding' = Holding
  BY DEF Holding
<1>2. RightBook'
  BY <1>1 DEF RightBook, RightLease
<1>3. RightNews'
  BY DEF RightNews
<1> QED BY <1>2, <1>3

\* A holder takes a robot without a lease, by a call or by its join.
LEMMA TakenFresh ==
  ASSUME TypeOK, RightBook, RightNews, NEW c \in Holding, NEW r \in Robots,
         lease[r] = NoLease, lease' = [lease EXCEPT ![r] = NewLease(c, Own)],
         Tell({<<c, "taken", r>>}, Holding), ~halt, UNCHANGED <<halt, holders>>
  PROVE  RightBook' /\ RightNews'
<1> DEFINE ev == {<<c, "taken", r>>}
<1>1. Holding' = Holding /\ Holding \in SUBSET Clients /\ c \in Clients
  BY DEF Holding
<1>2. \A q \in Robots : lease'[q] = IF q = r THEN NewLease(c, Own) ELSE lease[q]
  BY DEF TypeOK
<1>3. RightBook'
  BY <1>1, <1>2, NewLeaseRight DEF RightBook
<1>4. ASSUME NEW d \in Clients, NEW q \in Robots
      PROVE  /\ q \in knows'[d] <=> lease'[q] # NoLease /\ lease'[q].holder = d
             /\ q \in offered'[d] => lease'[q] # NoLease /\ lease'[q].offer = d
  <2>1. ev \in SUBSET Events
    BY <1>1 DEF Events
  <2>2. /\ <<d, "taken", q>> \in ev <=> d = c /\ q = r
        /\ <<d, "lease_back", q>> \notin ev /\ <<d, "lease_end", q>> \notin ev
        /\ <<d, "offer_end", q>> \notin ev /\ <<d, "offer", q>> \notin ev
    OBVIOUS
  <2>3. Tell(ev, Holding)
    OBVIOUS
  <2> HIDE DEF ev
  <2>4. /\ q \in knows'[d] <=> d \in Holding /\ (q \in knows[d] \/ (d = c /\ q = r))
        /\ q \in offered'[d] => q \in offered[d]
    BY SMTT(30), <2>1, <2>2, <2>3, TellSays
  <2>5. NewLease(c, Own).holder = c /\ NewLease(c, Own) # NoLease
    BY <1>1, NewLeaseType DEF NewLease
  <2>6. lease[q] # NoLease => lease[q].holder \in Holding
    BY DEF RightBook, RightLease
  <2> QED BY <1>2, <2>4, <2>5, <2>6 DEF RightNews
<1>5. RightNews'
  BY <1>4 DEF RightNews
<1> QED BY <1>3, <1>5

\* A holder takes what it is offered, and the lease names the giver.
LEMMA TakenOffered ==
  ASSUME TypeOK, RightBook, RightNews, NEW c \in Holding, NEW r \in Robots,
         lease[r] # NoLease, lease[r].holder # c, lease[r].offer = c,
         lease' = [lease EXCEPT ![r] = NewLease(c, lease[r].holder)],
         Tell({<<c, "taken", r>>, <<lease[r].holder, "lease_end", r>>}, Holding),
         ~halt, UNCHANGED <<halt, holders>>
  PROVE  RightBook' /\ RightNews'
<1> DEFINE h == lease[r].holder
           ev == {<<c, "taken", r>>, <<h, "lease_end", r>>}
<1>1. Holding' = Holding /\ Holding \in SUBSET Clients /\ c \in Clients
  BY DEF Holding
<1>2. h \in Holding
  BY DEF RightBook, RightLease
<1>3. \A q \in Robots : lease'[q] = IF q = r THEN NewLease(c, h) ELSE lease[q]
  BY DEF TypeOK
<1>4. RightBook'
  BY <1>1, <1>2, <1>3, NewLeaseRight DEF RightBook
<1>5. ASSUME NEW d \in Clients, NEW q \in Robots
      PROVE  /\ q \in knows'[d] <=> lease'[q] # NoLease /\ lease'[q].holder = d
             /\ q \in offered'[d] => lease'[q] # NoLease /\ lease'[q].offer = d
  <2>1. ev \in SUBSET Events
    BY <1>1, <1>2 DEF Events
  <2>2. /\ <<d, "taken", q>> \in ev <=> d = c /\ q = r
        /\ <<d, "lease_end", q>> \in ev <=> d = h /\ q = r
        /\ <<d, "lease_back", q>> \notin ev
        /\ <<d, "offer_end", q>> \notin ev /\ <<d, "offer", q>> \notin ev
    OBVIOUS
  <2>3. Tell(ev, Holding)
    OBVIOUS
  <2> HIDE DEF ev
  <2>4. /\ q \in knows'[d] <=> /\ d \in Holding
                               /\ q \in knows[d] \/ (d = c /\ q = r)
                               /\ ~(d = h /\ q = r)
        /\ q \in offered'[d] => q \in offered[d] /\ ~(d = c /\ q = r)
    BY <2>1, <2>2, <2>3, TellSays
  <2>5. NewLease(c, h).holder = c /\ NewLease(c, h) # NoLease
    BY <1>1, <1>2, NewLeaseType DEF NewLease
  <2>6. lease[q] # NoLease => lease[q].holder \in Holding
    BY DEF RightBook, RightLease
  <2> QED BY <1>3, <2>4, <2>5, <2>6 DEF RightNews
<1>6. RightNews'
  BY <1>5 DEF RightNews
<1> QED BY <1>4, <1>6

\* A release gives back to a giver that still holds, and else ends.
LEMMA ReleaseRight ==
  ASSUME TypeOK, RightBook, RightNews, NEW c \in Clients, NEW r \in Robots, Release(c, r)
  PROVE  RightBook' /\ RightNews'
<1> DEFINE l == lease[r]
           ev == GiveBackEvents(r, l, Holding)
<1>1. /\ l # NoLease /\ l.holder = c /\ Tell(ev, Holding)
      /\ lease' = [lease EXCEPT ![r] = GiveBackOrEnd(l, Holding)] /\ UNCHANGED <<halt, holders>>
  BY DEF Release, IsHeld
<1>2. Holding' = Holding /\ Holding \in SUBSET Clients
  BY <1>1 DEF Holding
<1>3. l \in Lease
  BY <1>1 DEF TypeOK
<1>4. ~halt /\ RightLease(l, Holding) /\ l.giver # c
  BY <1>1, <1>3, FleetAssumption DEF RightBook, RightLease, FleetAssumption
<1>5. \A q \in Robots : lease'[q] = IF q # r THEN lease[q]
                                    ELSE IF l.giver \in Holding THEN NewLease(l.giver, Own)
                                    ELSE NoLease
  BY <1>1 DEF TypeOK, GiveBackOrEnd
<1>6. RightBook'
  BY <1>1, <1>2, <1>4, <1>5, NewLeaseRight DEF RightBook
<1>7. ASSUME NEW d \in Clients, NEW q \in Robots
      PROVE  /\ q \in knows'[d] <=> lease'[q] # NoLease /\ lease'[q].holder = d
             /\ q \in offered'[d] => lease'[q] # NoLease /\ lease'[q].offer = d
  <2>1. ev \in SUBSET Events
    BY <1>2, <1>3, GiveBackType
  <2>2. /\ <<d, "taken", q>> \notin ev /\ <<d, "offer", q>> \notin ev
        /\ <<d, "lease_end", q>> \in ev <=> q = r /\ d = l.holder
        /\ <<d, "lease_back", q>> \in ev <=> q = r /\ d = l.giver /\ l.giver \in Holding
        /\ <<d, "offer_end", q>> \in ev <=> q = r /\ d = l.offer /\ l.offer # NoClient
    BY GiveBackSays
  <2> HIDE DEF ev
  <2>3. /\ q \in knows'[d] <=>
             /\ d \in Holding
             /\ q \in knows[d] \/ (q = r /\ d = l.giver /\ l.giver \in Holding)
             /\ ~(q = r /\ d = l.holder)
        /\ q \in offered'[d] => q \in offered[d] /\ ~(q = r /\ d = l.offer /\ l.offer # NoClient)
    BY <1>1, <2>1, <2>2, TellSays
  <2>4. l.giver \in Holding =>
          NewLease(l.giver, Own).holder = l.giver /\ NewLease(l.giver, Own) # NoLease
    BY <1>2, NewLeaseType DEF NewLease
  <2>5. lease[q] # NoLease => lease[q].holder \in Holding
    BY DEF RightBook, RightLease
  <2>6. d # NoClient
    BY FleetAssumption DEF FleetAssumption
  <2> QED BY <1>1, <1>4, <1>5, <2>3, <2>4, <2>5, <2>6 DEF RightNews
<1>8. RightNews'
  BY <1>7 DEF RightNews
<1> QED BY <1>6, <1>8

\* An offer replaces an earlier one, whose client is told.
LEMMA OfferRight ==
  ASSUME TypeOK, RightBook, RightNews, NEW c \in Clients, NEW rs \in SUBSET Robots,
         NEW to \in Clients, Offer(c, rs, to)
  PROVE  RightBook' /\ RightNews'
<1> DEFINE fresh == {r \in rs : lease[r].offer # to}
           ev == (UNION {EndOfferEvents(r, lease[r]) : r \in fresh})
                     \cup {<<to, "offer", r>> : r \in fresh}
<1>1. /\ to # c /\ Tell(ev, Holding) /\ UNCHANGED <<halt, holders>>
      /\ \A r \in rs : lease[r] # NoLease /\ lease[r].holder = c /\ lease[r].giver = Own
      /\ lease' = [r \in Robots |-> IF r \in rs THEN [lease[r] EXCEPT !.offer = to] ELSE lease[r]]
  BY DEF Offer, IsHeld
<1>2. Holding' = Holding /\ Holding \in SUBSET Clients
  BY <1>1 DEF Holding
<1>3. \A r \in rs : lease[r] \in Lease
  BY <1>1 DEF TypeOK
<1>4. \A q \in Robots \ rs : lease'[q] = lease[q]
  BY <1>1
<1>5. \A q \in rs : /\ lease'[q].holder = c /\ lease'[q].giver = Own
                    /\ lease'[q].offer = to /\ lease'[q] \in Lease
  <2>1. \A q \in rs : lease'[q] = [lease[q] EXCEPT !.offer = to]
    BY <1>1
  <2> QED BY <1>1, <1>3, <2>1 DEF Lease
<1>6. RightBook'
  <2>1. \A q \in rs : ~halt /\ lease[q].holder \in Holding
    BY <1>1 DEF RightBook, RightLease
  <2>2. ASSUME NEW q \in rs
        PROVE  ~halt' /\ RightLease(lease'[q], Holding')
    BY <1>1, <1>2, <1>5, <2>1, FleetAssumption DEF RightLease, FleetAssumption
  <2>3. ASSUME NEW q \in Robots \ rs, lease'[q] # NoLease
        PROVE  ~halt' /\ RightLease(lease'[q], Holding')
    BY <1>1, <1>2, <1>4, <2>3 DEF RightBook
  <2> QED BY <2>2, <2>3 DEF RightBook
<1>7. ASSUME NEW d \in Clients, NEW q \in Robots
      PROVE  /\ q \in knows'[d] <=> lease'[q] # NoLease /\ lease'[q].holder = d
             /\ q \in offered'[d] => lease'[q] # NoLease /\ lease'[q].offer = d
  <2>1. ev \in SUBSET Events
    <3>1. \A r \in fresh : EndOfferEvents(r, lease[r]) \subseteq Events
      BY <1>3, EndOfferType
    <3>2. \A r \in fresh : <<to, "offer", r>> \in Events
      BY DEF Events
    <3> QED BY <3>1, <3>2
  <2>2. \A k : <<d, k, q>> \in ev <=>
                 /\ q \in fresh
                 /\ \/ k = "offer_end" /\ d = lease[q].offer /\ lease[q].offer # NoClient
                    \/ k = "offer" /\ d = to
    <3>1. \A k : <<d, k, q>> \in ev <=>
            \E r \in fresh : \/ <<d, k, q>> \in EndOfferEvents(r, lease[r])
                             \/ <<d, k, q>> = <<to, "offer", r>>
      OBVIOUS
    <3> QED BY <3>1, EndOfferSays
  <2>3. fresh \subseteq rs /\ \A x \in rs \ fresh : lease[x].offer = to
    OBVIOUS
  <2> HIDE DEF ev, fresh
  <2>4. /\ q \in knows'[d] <=> d \in Holding /\ q \in knows[d]
        /\ q \in offered'[d] =>
             /\ q \in offered[d] \/ (q \in fresh /\ d = to)
             /\ ~(q \in fresh /\ d = lease[q].offer /\ lease[q].offer # NoClient)
    <3>1. Tell(ev, Holding)
      BY <1>1 DEF ev, fresh
    <3>2. /\ <<d, "taken", q>> \notin ev /\ <<d, "lease_end", q>> \notin ev
          /\ <<d, "lease_back", q>> \notin ev
          /\ <<d, "offer", q>> \in ev <=> q \in fresh /\ d = to
          /\ <<d, "offer_end", q>> \in ev <=>
               q \in fresh /\ d = lease[q].offer /\ lease[q].offer # NoClient
      BY <2>2
    <3>3. /\ q \in knows'[d] <=>
               /\ d \in Holding
               /\ q \in knows[d] \/ <<d, "lease_back", q>> \in ev \/ <<d, "taken", q>> \in ev
               /\ <<d, "lease_end", q>> \notin ev
          /\ q \in offered'[d] <=>
               /\ d \in Holding
               /\ q \in offered[d] \/ <<d, "offer", q>> \in ev
               /\ <<d, "offer_end", q>> \notin ev
               /\ <<d, "taken", q>> \notin ev
      BY <2>1, <3>1, TellSays
    <3> QED BY <3>2, <3>3
  <2>5. lease[q] # NoLease => lease[q].holder \in Holding
    BY DEF RightBook, RightLease
  <2>6. d # NoClient
    BY FleetAssumption DEF FleetAssumption
  <2>7. q \in rs => lease'[q] # NoLease
    BY <1>5, LeaseFacts
  <2> QED BY <1>1, <1>4, <1>5, <2>3, <2>4, <2>5, <2>6, <2>7 DEF RightNews
<1>8. RightNews'
  BY <1>7 DEF RightNews
<1> QED BY <1>6, <1>8

\* Goals begin and end with the book and the news right.
LEMMA GoalRight ==
  ASSUME TypeOK, RightBook, RightNews, GoalNext
  PROVE  RightBook' /\ RightNews'
<1>1. PICK c \in Clients :
        \/ ProcessRestarts(c)
        \/ \E g \in Gens : BeginGoal(c, g) \/ AcceptGoal(c, g) \/ AcceptFails(c, g) \/ EndGoal(c, g)
  BY DEF GoalNext
<1>2. ASSUME NEW g \in Gens, BeginGoal(c, g) PROVE RightBook' /\ RightNews'
  <2>1. holders' = [holders EXCEPT ![c] = g] /\ halt' = halt /\ g # 0
    BY <1>2, FleetAssumption DEF BeginGoal, TypeOK, Gens, FleetAssumption
  <2>2. Holding' = Holding \cup {c}
    BY <2>1 DEF Holding, TypeOK
  <2>3. CASE holders[c] = 0
    <3>1. UNCHANGED <<lease, knows, offered>>
      BY <1>2, <2>3 DEF BeginGoal
    <3>2. RightBook'
      BY <2>1, <2>2, <3>1 DEF RightBook, RightLease
    <3>3. RightNews'
      BY <3>1 DEF RightNews
    <3> QED BY <3>2, <3>3
  <2>4. CASE holders[c] # 0
    <3>1. lease' = LeasesWithout(c, Holding \ {c})
          /\ Tell(EndHoldingEvents(c, Holding \ {c}), Holding \ {c})
      BY <1>2, <2>4 DEF BeginGoal
    <3> QED BY <2>1, <2>2, <3>1, WithoutRight
  <2> QED BY <2>3, <2>4
<1>3. CASE ProcessRestarts(c)
  BY <1>3, BookFrame DEF ProcessRestarts, bookVars
<1>4. ASSUME NEW g \in Gens, AcceptGoal(c, g)
      PROVE  RightBook' /\ RightNews'
  BY <1>4, BookFrame DEF AcceptGoal, bookVars
<1>5. ASSUME NEW g \in Gens, AcceptFails(c, g) \/ EndGoal(c, g)
      PROVE  RightBook' /\ RightNews'
  <2>1. EndHolding(c, g) /\ halt' = halt
    BY <1>5 DEF AcceptFails, EndGoal
  <2>2. CASE MatchesGeneration(c, g) /\ holders[c] # 0
    <3>1. /\ lease' = LeasesWithout(c, Holding \ {c})
          /\ Tell(EndHoldingEvents(c, Holding \ {c}), Holding \ {c})
          /\ holders' = [holders EXCEPT ![c] = 0]
      BY <2>1, <2>2 DEF EndHolding
    <3>2. Holding' = Holding \ {c}
      BY <3>1 DEF Holding, TypeOK
    <3> QED BY <2>1, <3>1, <3>2, WithoutRight
  <2>3. CASE ~(MatchesGeneration(c, g) /\ holders[c] # 0)
    BY <2>1, <2>3, BookFrame DEF EndHolding
  <2> QED BY <2>2, <2>3
<1> QED BY <1>1, <1>2, <1>3, <1>4, <1>5

\* The services keep the book and the news right.
LEMMA ServiceRight ==
  ASSUME TypeOK, RightBook, RightNews, ServiceNext
  PROVE  RightBook' /\ RightNews'
<1>1. ASSUME NEW c \in Clients, NEW r \in Robots, Take(c, r)
      PROVE  RightBook' /\ RightNews'
  <2>1. c \in Holding /\ ~halt /\ UNCHANGED <<halt, holders>>
        /\ (lease[r] # NoLease => lease[r].holder # c)
    BY <1>1 DEF Take, CanTake, IsHeld, Holding
  <2>2. CASE lease[r] = NoLease
    BY <1>1, <2>1, <2>2, TakenFresh DEF Take
  <2>3. CASE lease[r] # NoLease
    BY <1>1, <2>1, <2>3, TakenOffered DEF Take
  <2> QED BY <2>2, <2>3
<1>2. ASSUME NEW c \in Clients, NEW r \in Robots, Open(c, r) \/ Close(c, r)
      PROVE  RightBook' /\ RightNews'
  <2>1. PICK b \in BOOLEAN : lease' = [lease EXCEPT ![r].open = b]
    BY <1>2 DEF Open, Close
  <2>2. lease[r] \in Lease /\ lease[r] # NoLease /\ UNCHANGED <<halt, holders, knows, offered>>
    BY <1>2 DEF Open, Close, IsHeld, TypeOK
  <2>3. lease'[r] = [lease[r] EXCEPT !.open = b] /\ \A q \in Robots \ {r} : lease'[q] = lease[q]
    BY <2>1 DEF TypeOK
  <2>4. /\ lease'[r].holder = lease[r].holder /\ lease'[r].giver = lease[r].giver
        /\ lease'[r].offer = lease[r].offer /\ lease'[r] \in Lease
    BY <2>2, <2>3 DEF Lease
  <2>5. lease'[r] # NoLease /\ Holding' = Holding
    BY <2>2, <2>4, LeaseFacts DEF Holding
  <2>6. RightBook'
    <3>1. ASSUME NEW q \in Robots \ {r}, lease'[q] # NoLease
          PROVE  ~halt' /\ RightLease(lease'[q], Holding')
      BY <2>2, <2>3, <2>5, <3>1 DEF RightBook
    <3>2. ~halt' /\ RightLease(lease'[r], Holding')
      BY <2>2, <2>4, <2>5 DEF RightBook, RightLease
    <3> QED BY <3>1, <3>2 DEF RightBook
  <2>7. RightNews'
    <3>1. \A q \in Robots : /\ lease'[q].holder = lease[q].holder
                            /\ lease'[q].offer = lease[q].offer
                            /\ lease'[q] # NoLease <=> lease[q] # NoLease
      BY <2>2, <2>3, <2>4, <2>5
    <3> QED BY <2>2, <3>1 DEF RightNews
  <2> QED BY <2>6, <2>7
<1> QED BY <1>1, <1>2, ReleaseRight, OfferRight DEF ServiceNext

\* The halt, its clear and the crashes keep the book and the news right.
LEMMA HaltRight ==
  ASSUME TypeOK, RightBook, RightNews, HaltNext
  PROVE  RightBook' /\ RightNews'
<1>1. CASE HaltWritten \/ HaltNotWritten
  <2>1. HaltBook /\ UNCHANGED holders
    BY <1>1 DEF HaltWritten, HaltNotWritten
  <2>2. CASE halt
    BY <2>1, <2>2, BookFrame DEF HaltBook
  <2>3. CASE ~halt
    BY <2>1, <2>3, EndEveryRight DEF HaltBook
  <2> QED BY <2>2, <2>3
<1>2. CASE ClearHalt
  BY <1>2, BookFrame DEF ClearHalt
<1>3. CASE Crash \/ CrashInClear
  <2>1. /\ lease' = [r \in Robots |-> NoLease]
        /\ knows' = [c \in Clients |-> {}]
        /\ offered' = [c \in Clients |-> {}]
    BY <1>3 DEF Crash, CrashInClear, Restart
  <2> QED BY <2>1 DEF RightBook, RightNews
<1> QED BY <1>1, <1>2, <1>3 DEF HaltNext

\* Stack changes keep the book and the news right.
LEMMA ChangeRight ==
  ASSUME TypeOK, RightBook, RightNews, ChangeNext
  PROVE  RightBook' /\ RightNews'
<1>1. PICK x \in Changes :
        \/ \E k \in {"join", "remove"}, r \in Robots, c \in Askers : BeginOfCopy(x, k, r, c)
        \/ \E k \in {"launch", "reset"} : BeginOfStack(x, k)
        \/ AdmitByLeases(x) \/ PassGate(x) \/ RefuseChange(x)
        \/ CommitJoin(x) \/ CommitRemoval(x) \/ DropLaunch(x)
        \/ \E rs \in SUBSET Robots : CommitLaunch(x, rs)
        \/ ChangeFails(x) \/ DropMutation(x) \/ DropRemovalHold(x) \/ ReleaseGate(x)
  BY DEF ChangeNext
<1>2. CASE CommitJoin(x)
  <2> DEFINE c == change[x].client
             r == change[x].robot
  <2>1. c \in Clients /\ r \in Robots
    BY <1>2, ChangeFacts DEF CommitJoin
  <2>2. CASE LeasesJoined(c, r)
    <3>1. c \in Holding /\ ~halt /\ lease[r] = NoLease
      BY <2>1, <2>2 DEF LeasesJoined, Holding
    <3>2. /\ lease' = [lease EXCEPT ![r] = NewLease(c, Own)]
          /\ Tell({<<c, "taken", r>>}, Holding) /\ UNCHANGED <<halt, holders>>
      BY <1>2, <2>2 DEF CommitJoin
    <3> HIDE DEF c, r
    <3> QED BY <2>1, <3>1, <3>2, TakenFresh
  <2>3. CASE ~LeasesJoined(c, r)
    BY <1>2, <2>3, BookFrame DEF CommitJoin
  <2> QED BY <2>2, <2>3
<1>3. CASE DropLaunch(x)
  BY <1>3, EndEveryRight DEF DropLaunch
<1>4. CASE UNCHANGED <<halt, lease, holders, knows, offered>>
  BY <1>4, BookFrame
<1> QED BY <1>1, <1>2, <1>3, <1>4
    DEF BeginOfCopy, BeginOfStack, BeginChange, AdmitByLeases, PassGate, RefuseChange,
        CommitRemoval, CommitLaunch, ChangeFails, DropMutation, DropRemovalHold, ReleaseGate,
        bookVars

\* The inductive invariant of leases and news.  The news rest on the book: a client
\* off the book has no lease, so it may forget everything.
BookInv == TypeOK /\ RightBook /\ RightNews

\* The book and the news are right in every state.
LEMMA BookHolds == Spec => []BookInv
<1>1. Init => BookInv
  BY InitTypes DEF BookInv, Init, RightBook, RightNews
<1>2. BookInv /\ [Next]_vars => BookInv'
  <2> SUFFICES ASSUME BookInv, [Next]_vars PROVE RightBook' /\ RightNews'
    BY NextTypes DEF BookInv
  <2>1. CASE UNCHANGED vars
    BY <2>1, BookFrame DEF BookInv, vars, bookVars
  <2> QED BY <2>1, GoalRight, ServiceRight, HaltRight, ChangeRight DEF BookInv, Next
<1> QED BY <1>1, <1>2, PTL DEF Spec

\* A lease is of a client whose goal runs, its giver is another such client, what
\* was received is not on offer, and nothing is leased under a halt, for any
\* number of clients, robots, processes and stack changes (book.rs).
THEOREM LeasesAlwaysHeld == Spec => []LeasesHaveHolders
<1>1. BookInv => LeasesHaveHolders
  BY BookMeaning DEF BookInv
<1> QED BY <1>1, BookHolds, PTL

\* A holder that applies its replies and events knows exactly its leases, takes
\* no offer for open that ended, and the move check agrees with it (book.rs, the
\* events of each operation, and check_move).
THEOREM HoldersToldTruth == Spec => []EventsTellAll
<1>1. BookInv => EventsTellAll
  BY NewsMeaning DEF BookInv
<1> QED BY <1>1, BookHolds, PTL

-----------------------------------------------------------------------------
\* A promised halt is also on disk, where a crash finds it.
HaltInv == promised => halt /\ onDisk

\* A halt that was answered holds until it is cleared, over crashes at any point:
\* a promised halt is on disk too (fleet.rs writes before it answers).
THEOREM AnsweredHaltKept == Spec => []AnsweredHaltHolds
<1>1. Init => HaltInv
  BY DEF Init, HaltInv
<1>2. TypeOK /\ HaltInv /\ [Next]_vars => HaltInv'
  <2> SUFFICES ASSUME TypeOK, HaltInv, [Next]_vars PROVE HaltInv'
    OBVIOUS
  <2>1. CASE UNCHANGED <<halt, diskVars>>
    BY <2>1 DEF HaltInv, diskVars
  <2>2. CASE UNCHANGED vars
    BY <2>1, <2>2 DEF vars, bookVars
  <2>3. CASE GoalNext
    BY <2>1, <2>3 DEF GoalNext, BeginGoal, ProcessRestarts, AcceptGoal, AcceptFails, EndGoal,
                      bookVars
  <2>4. CASE ServiceNext
    BY <2>1, <2>4 DEF ServiceNext, Take, Release, Open, Close, Offer
  <2>5. CASE HaltNext
    BY <2>5 DEF HaltNext, HaltInv, HaltWritten, HaltNotWritten, HaltBook, ClearHalt, Crash,
                CrashInClear, Restart, diskVars, TypeOK
  <2>6. CASE ChangeNext
    BY <2>1, <2>6
    DEF ChangeNext, BeginOfCopy, BeginOfStack, BeginChange, AdmitByLeases, PassGate,
        RefuseChange, CommitJoin, CommitRemoval, DropLaunch, CommitLaunch, ChangeFails,
        DropMutation, DropRemovalHold, ReleaseGate, bookVars
  <2> QED BY <2>2, <2>3, <2>4, <2>5, <2>6 DEF Next
<1>3. HaltInv => AnsweredHaltHolds
  BY DEF HaltInv, AnsweredHaltHolds
<1> QED BY <1>1, <1>2, <1>3, FleetTypeCorrect, PTL DEF Spec

-----------------------------------------------------------------------------
\* Holders and unended goals are the same.
GoalInv ==
    \A c \in Clients, g \in Gens :
      /\ holders[c] = g => goal[c][g] # "none"
      /\ goal[c][g] # "none" /\ <<c, g>> \notin ended => holders[c] = g

\* A holder leaves the book as its own goal ends.
LeavesWithGoal ==
    \A c \in Clients, g \in Gens :
      holders[c] = g /\ holders'[c] = 0 => goal'[c][g] = "none"

\* Goals and holders stay matched, and a holder leaves with its own goal.
LEMMA GoalStep ==
  ASSUME TypeOK, GoalInv, [Next]_vars
  PROVE  GoalInv' /\ LeavesWithGoal
<1>1. 0 \notin Gens
  BY FleetAssumption DEF Gens, FleetAssumption
<1>2. CASE UNCHANGED <<holders, goal, ended>>
  BY <1>1, <1>2 DEF GoalInv, LeavesWithGoal
<1>3. CASE GoalNext
  <2>1. PICK c \in Clients :
          \/ ProcessRestarts(c)
          \/ \E g \in Gens : BeginGoal(c, g) \/ AcceptGoal(c, g) \/ AcceptFails(c, g) \/ EndGoal(c, g)
    BY <1>3 DEF GoalNext
  <2>2. ASSUME NEW p \in Gens, BeginGoal(c, p) PROVE GoalInv' /\ LeavesWithGoal
    <3>1. /\ holders' = [holders EXCEPT ![c] = p] /\ goal[c][p] = "none"
          /\ goal' = [goal EXCEPT ![c][p] = "begun"]
          /\ \/ holders[c] = 0 /\ ended' = ended \ {<<c, p>>}
             \/ holders[c] # 0 /\ ended' = (ended \cup {<<c, holders[c]>>}) \ {<<c, p>>}
      BY <2>2 DEF BeginGoal
    <3>3. \A d \in Clients, g \in Gens :
            /\ holders'[d] = IF d = c THEN p ELSE holders[d]
            /\ goal'[d][g] = IF d = c /\ g = p THEN "begun" ELSE goal[d][g]
      BY <3>1 DEF TypeOK
    <3>4. \A d \in Clients, g \in Gens :
            <<d, g>> \in ended' <=> (<<d, g>> \in ended \/ (d = c /\ g = holders[c]))
                                      /\ ~(d = c /\ g = p)
      BY <3>1, <1>1
    <3> QED BY <1>1, <3>1, <3>3, <3>4 DEF GoalInv, LeavesWithGoal
  <2>3. CASE ProcessRestarts(c)
    BY <1>2, <2>3 DEF ProcessRestarts, bookVars
  <2>4. ASSUME NEW g \in Gens, AcceptGoal(c, g)
        PROVE  GoalInv' /\ LeavesWithGoal
    <3>1. /\ UNCHANGED <<holders, ended>> /\ goal[c][g] # "none"
          /\ \A d \in Clients, h \in Gens :
               goal'[d][h] = IF d = c /\ h = g THEN "running" ELSE goal[d][h]
      BY <2>4 DEF AcceptGoal, bookVars, TypeOK
    <3> QED BY <1>1, <3>1 DEF GoalInv, LeavesWithGoal
  <2>5. ASSUME NEW g \in Gens, AcceptFails(c, g) \/ EndGoal(c, g)
        PROVE  GoalInv' /\ LeavesWithGoal
    <3>1. /\ EndHolding(c, g)
          /\ \A d \in Clients, h \in Gens :
               goal'[d][h] = IF d = c /\ h = g THEN "none" ELSE goal[d][h]
      BY <2>5 DEF AcceptFails, EndGoal, TypeOK
    <3>2. CASE holders[c] = g
      <4>1. holders' = [holders EXCEPT ![c] = 0] /\ ended' = ended \ {<<c, g>>}
        BY <3>1, <3>2, <1>1 DEF EndHolding, MatchesGeneration
      <4>2. \A d \in Clients : holders'[d] = IF d = c THEN 0 ELSE holders[d]
        BY <4>1 DEF TypeOK
      <4>3. \A d \in Clients, h \in Gens :
              <<d, h>> \in ended' <=> <<d, h>> \in ended /\ ~(d = c /\ h = g)
        BY <4>1
      <4> QED BY <1>1, <3>1, <3>2, <4>2, <4>3 DEF GoalInv, LeavesWithGoal
    <3>3. CASE holders[c] # g
      <4>1. UNCHANGED holders /\ ended' = ended \ {<<c, g>>}
        BY <3>1, <3>3 DEF EndHolding, MatchesGeneration
      <4>2. \A d \in Clients, h \in Gens :
              <<d, h>> \in ended' <=> <<d, h>> \in ended /\ ~(d = c /\ h = g)
        BY <4>1
      <4> QED BY <1>1, <3>1, <3>3, <4>1, <4>2 DEF GoalInv, LeavesWithGoal
    <3> QED BY <3>2, <3>3
  <2> QED BY <2>1, <2>2, <2>3, <2>4, <2>5
<1>4. CASE HaltNext
  <2>1. CASE Crash \/ CrashInClear
    <3>1. /\ holders' = [c \in Clients |-> 0]
          /\ goal' = [c \in Clients |-> [g \in Gens |-> "none"]]
      BY <2>1 DEF Crash, CrashInClear, Restart
    <3> QED BY <1>1, <3>1 DEF GoalInv, LeavesWithGoal
  <2> QED BY <1>2, <1>4, <2>1 DEF HaltNext, HaltWritten, HaltNotWritten, ClearHalt, goalVars
<1>5. CASE ServiceNext
  BY <1>2, <1>5 DEF ServiceNext, Take, Release, Open, Close, Offer, goalVars
<1>6. CASE ChangeNext
  BY <1>2, <1>6
  DEF ChangeNext, BeginOfCopy, BeginOfStack, BeginChange, AdmitByLeases, PassGate,
      RefuseChange, CommitJoin, CommitRemoval, DropLaunch, CommitLaunch, ChangeFails,
      DropMutation, DropRemovalHold, ReleaseGate, bookVars, goalVars
<1>7. CASE UNCHANGED vars
  BY <1>2, <1>7 DEF vars, bookVars, goalVars
<1> QED BY <1>3, <1>4, <1>5, <1>6, <1>7 DEF Next

\* Each holder has the task that takes it off the book, a goal the book did not
\* end is the holder's, and no other goal's end takes it off (end_holding compares
\* generations).
THEOREM HoldersHaveGoals == Spec => HolderHasGoal
<1>1. Init => GoalInv
  BY FleetAssumption DEF Init, GoalInv, Gens, FleetAssumption
<1>2. TypeOK /\ GoalInv /\ [Next]_vars => GoalInv'
  BY GoalStep
<1>3. TypeOK /\ GoalInv /\ [Next]_vars =>
        [\A c \in Clients, g \in Gens :
           /\ holders[c] = g => goal[c][g] # "none"
           /\ goal[c][g] # "none" /\ <<c, g>> \notin ended => holders[c] = g
           /\ holders[c] = g /\ holders'[c] = 0 => goal'[c][g] = "none"]_vars
  BY GoalStep DEF GoalInv, LeavesWithGoal
<1> QED BY <1>1, <1>2, <1>3, FleetTypeCorrect, PTL DEF Spec, HolderHasGoal

-----------------------------------------------------------------------------
\* A change has the stack from its start until it drops it, and a removal past its
\* admission holds its robot back, unless another removal's end lifted its hold.
Working == {"leases", "gate", "run", "launched", "drop"}
Holds(x) ==
    change[x].kind = "remove" /\ change[x].pc \in {"gate", "run", "launched", "drop", "unhold"}
HoldInv ==
    \A x \in Changes :
      /\ change[x].pc \in Working => mutation = x
      /\ Holds(x) /\ x \notin lifted => change[x].robot \in leaving

\* What a step of change x does to its task.
LEMMA GotoDoes ==
  ASSUME TypeOK, NEW x \in Changes, NEW pc, Goto(x, pc), change[x].pc \in Steps
  PROVE  /\ change'[x].pc = pc /\ change'[x].kind = change[x].kind
         /\ change[x].kind = "remove" => change'[x].robot = change[x].robot
         /\ \A y \in Changes \ {x} : change'[y] = change[y]
<1>1. change'[x] = [change[x] EXCEPT !.pc = pc] /\ change[x] \in Task
  BY DEF Goto, TypeOK, Steps, Idle
<1>2. CASE change[x] \in [kind : {"join", "remove"}, robot : Robots, client : Clients, pc : Steps]
  BY <1>1, <1>2 DEF Goto, TypeOK
<1>3. CASE change[x] \in [kind : {"launch", "reset"}, pc : Steps]
  BY <1>1, <1>3 DEF Goto, TypeOK
<1> QED BY <1>1, <1>2, <1>3 DEF Task

\* The hold of a removal lasts while it runs, but for the end of another removal.
LEMMA HoldStep ==
  ASSUME TypeOK, HoldInv, [Next]_vars
  PROVE  HoldInv'
<1>1. CASE UNCHANGED <<change, mutation, lifted, leaving>>
  BY <1>1 DEF HoldInv, Holds
<1>2. CASE GoalNext \/ ServiceNext
  <2>1. CASE GoalNext
    BY <1>1, <2>1 DEF GoalNext, BeginGoal, ProcessRestarts, AcceptGoal, AcceptFails, EndGoal,
       bookVars, changeVars
  <2>2. CASE ServiceNext
    BY <1>1, <2>2 DEF ServiceNext, Take, Release, Open, Close, Offer, bookVars, changeVars
  <2> QED BY <1>2, <2>1, <2>2
<1>3. CASE HaltNext
  <2>1. CASE Crash \/ CrashInClear
    <3>1. \A x \in Changes : change'[x] = Idle
      BY <2>1 DEF Crash, CrashInClear, Restart
    <3>2. Idle.kind # "remove" /\ Idle.pc \notin Working
      BY DEF Idle, Working
    <3> QED BY <3>1, <3>2 DEF HoldInv, Holds
  <2> QED BY <1>1, <1>3, <2>1 DEF HaltNext, HaltWritten, HaltNotWritten, ClearHalt, changeVars
<1>4. CASE ChangeNext
  <2>1. PICK x \in Changes :
          \/ \E k \in {"join", "remove"}, r \in Robots, c \in Askers : BeginOfCopy(x, k, r, c)
          \/ \E k \in {"launch", "reset"} : BeginOfStack(x, k)
          \/ AdmitByLeases(x) \/ PassGate(x) \/ RefuseChange(x)
          \/ CommitJoin(x) \/ CommitRemoval(x) \/ DropLaunch(x)
          \/ \E rs \in SUBSET Robots : CommitLaunch(x, rs)
          \/ ChangeFails(x) \/ DropMutation(x) \/ DropRemovalHold(x) \/ ReleaseGate(x)
    BY <1>4 DEF ChangeNext
  <2>2. mutation = x => \A y \in Changes \ {x} : change[y].pc \notin Working
    BY DEF HoldInv
  <2>3. Idle.kind # "remove" /\ Idle.pc \notin Working
    BY DEF Idle, Working
  <2>4. ASSUME NEW task, BeginChange(x, task), task.pc \in {"leases", "gate", "run"},
               task.pc = "leases" \/ task.kind # "remove"
        PROVE  HoldInv'
    <3>1. /\ mutation = "free" /\ mutation' = x /\ UNCHANGED <<lifted, leaving>>
          /\ change'[x] = task /\ \A y \in Changes \ {x} : change'[y] = change[y]
      BY <2>4 DEF BeginChange, TypeOK, bookVars
    <3>2. \A y \in Changes : change[y].pc \notin Working
      BY <3>1, FleetAssumption DEF HoldInv, FleetAssumption
    <3> QED BY <2>4, <3>1, <3>2 DEF HoldInv, Holds, Working
  <2>5. CASE (\E k \in {"join", "remove"}, r \in Robots, c \in Askers : BeginOfCopy(x, k, r, c))
             \/ \E k \in {"launch", "reset"} : BeginOfStack(x, k)
    BY <2>4, <2>5 DEF BeginOfCopy, BeginOfStack
  <2>6. CASE AdmitByLeases(x)
    <3>1. change[x].pc = "leases" /\ mutation = x /\ leaving \subseteq leaving' /\ UNCHANGED lifted
      BY <2>6 DEF AdmitByLeases, HoldInv, Working
    <3>2. CASE AdmitsByLeases(x)
      <4>1. Goto(x, "gate") /\ UNCHANGED mutation
            /\ (change[x].kind = "remove" => change[x].robot \in leaving')
        BY <2>6, <3>2 DEF AdmitByLeases
      <4>2. /\ change'[x].pc = "gate" /\ change'[x].kind = change[x].kind
            /\ change[x].kind = "remove" => change'[x].robot = change[x].robot
            /\ \A y \in Changes \ {x} : change'[y] = change[y]
        BY <3>1, <4>1, GotoDoes DEF Steps
      <4> QED BY <3>1, <4>1, <4>2 DEF HoldInv, Holds
    <3>3. CASE ~AdmitsByLeases(x)
      <4>1. change'[x] = Idle /\ \A y \in Changes \ {x} : change'[y] = change[y]
        BY <2>6, <3>3 DEF AdmitByLeases, TypeOK
      <4> QED BY <2>2, <2>3, <3>1, <4>1 DEF HoldInv, Holds
    <3> QED BY <3>2, <3>3
  <2>7. CASE PassGate(x) \/ CommitJoin(x) \/ CommitRemoval(x) \/ DropLaunch(x) \/ ChangeFails(x)
             \/ \E rs \in SUBSET Robots : CommitLaunch(x, rs)
    <3>1. PICK pc \in {"run", "drop", "launched"} : Goto(x, pc)
      BY <2>7 DEF PassGate, CommitJoin, CommitRemoval, DropLaunch, ChangeFails, CommitLaunch
    <3>2. UNCHANGED <<mutation, lifted, leaving>>
      BY <2>7 DEF PassGate, CommitJoin, CommitRemoval, DropLaunch, ChangeFails, CommitLaunch, bookVars
    <3>3. change[x].pc \in {"gate", "run", "launched"}
      BY <2>7 DEF PassGate, CommitJoin, CommitRemoval, DropLaunch, ChangeFails, CommitLaunch
    <3>4. mutation = x
      BY <3>3 DEF HoldInv, Working
    <3>5. /\ change'[x].pc = pc /\ change'[x].kind = change[x].kind
          /\ change[x].kind = "remove" => change'[x].robot = change[x].robot
          /\ \A y \in Changes \ {x} : change'[y] = change[y]
      BY <3>1, <3>3, GotoDoes DEF Steps
    <3> QED BY <3>2, <3>3, <3>4, <3>5 DEF HoldInv, Holds
  <2>8. CASE DropMutation(x)
    <3>1. change[x].pc = "drop" /\ UNCHANGED <<lifted, leaving>> /\ mutation = x
      BY <2>8 DEF DropMutation, HoldInv, Working, bookVars
    <3>2. CASE change[x].kind = "reset"
      <4>1. change'[x] = Idle /\ \A y \in Changes \ {x} : change'[y] = change[y]
        BY <2>8, <3>2 DEF DropMutation, TypeOK
      <4> QED BY <2>2, <2>3, <3>1, <4>1 DEF HoldInv, Holds
    <3>3. CASE change[x].kind # "reset"
      <4>1. /\ change'[x].pc = "unhold" /\ change'[x].kind = change[x].kind
            /\ change[x].kind = "remove" => change'[x].robot = change[x].robot
            /\ \A y \in Changes \ {x} : change'[y] = change[y]
        BY <2>8, <3>1, <3>3, GotoDoes DEF DropMutation, Steps
      <4> QED BY <2>2, <3>1, <4>1 DEF HoldInv, Holds, Working
    <3> QED BY <3>2, <3>3
  <2>9. ASSUME DropHold(x), AlsoLifted(x) \subseteq lifted', lifted \ {x} \subseteq lifted',
                \A y \in Changes \ {x} : change'[y] = change[y],
                change'[x].pc \notin Working, change'[x].kind # "remove" \/ change'[x].pc = "release",
                UNCHANGED mutation \/ mutation = x
         PROVE  HoldInv'
    <3>1. ASSUME NEW y \in Changes \ {x}, Holds(y)', y \notin lifted'
          PROVE  change'[y].robot \in leaving'
      <4>1. Holds(y) /\ change'[y] = change[y] /\ y \notin lifted /\ y \notin AlsoLifted(x)
        BY <2>9, <3>1 DEF Holds
      <4>2. change[y].robot \in leaving
        BY <4>1 DEF HoldInv
      <4>3. HoldsRemoval(x) => change[y].robot # change[x].robot
        BY <4>1 DEF AlsoLifted, Holds, HoldsRemoval
      <4> QED BY <2>9, <4>1, <4>2, <4>3 DEF DropHold
    <3>2. \A y \in Changes \ {x} : change'[y].pc \in Working => mutation' = y
      BY <2>2, <2>9 DEF HoldInv
    <3> QED BY <2>9, <3>1, <3>2 DEF HoldInv, Holds
  <2>10. CASE RefuseChange(x)
    <3>1. change'[x] = Idle /\ \A y \in Changes \ {x} : change'[y] = change[y]
      BY <2>10 DEF RefuseChange, TypeOK
    <3>2. /\ DropHold(x) /\ lifted' = (lifted \ {x}) \cup AlsoLifted(x) /\ mutation = x
      BY <2>10 DEF RefuseChange, HoldInv, Working
    <3> QED BY <2>3, <2>9, <3>1, <3>2
  <2>11. CASE DropRemovalHold(x)
    <3>1. Goto(x, "release") /\ change[x].pc = "unhold" /\ UNCHANGED mutation /\ DropHold(x)
          /\ lifted' = lifted \cup AlsoLifted(x)
      BY <2>11 DEF DropRemovalHold
    <3>2. change'[x].pc = "release" /\ \A y \in Changes \ {x} : change'[y] = change[y]
      BY <3>1, GotoDoes DEF Steps
    <3> QED BY <2>9, <3>1, <3>2 DEF Working
  <2>12. CASE ReleaseGate(x)
    <3>1. /\ change'[x] = Idle /\ (\A y \in Changes \ {x} : change'[y] = change[y])
          /\ UNCHANGED <<mutation, leaving>> /\ lifted' = lifted \ {x}
      BY <2>12 DEF ReleaseGate, TypeOK, bookVars
    <3> QED BY <2>3, <3>1 DEF HoldInv, Holds
  <2> QED BY <2>1, <2>5, <2>6, <2>7, <2>8, <2>10, <2>11, <2>12
<1>5. CASE UNCHANGED vars
  BY <1>1, <1>5 DEF vars, bookVars, changeVars
<1> QED BY <1>2, <1>3, <1>4, <1>5 DEF Next

\* No step gives the lease of a robot under removal to somebody new.
LEMMA RemovalStep ==
  ASSUME TypeOK, HoldInv, [Next]_vars, NEW x \in Changes, RemovalRuns(x)
  PROVE  StaysOrBack(change[x].robot)
<1> SUFFICES ASSUME NEW r \in Robots, r = change[x].robot PROVE StaysOrBack(r)
  BY ChangeFacts DEF RemovalRuns, HoldsRemoval
<1>1. change[x].kind = "remove" /\ change[x].pc = "run" /\ x \notin lifted
  BY DEF RemovalRuns, HoldsRemoval
<1>2. r \in leaving /\ \A y \in Changes \ {x} : change[y].pc \notin Working
  BY <1>1 DEF HoldInv, Holds, Working
<1>3. CASE lease' = lease
  BY <1>3 DEF StaysOrBack
<1>4. CASE EndEveryLease
  BY <1>4 DEF StaysOrBack, EndEveryLease
<1>5. \A hs : GiveBackOrEnd(lease[r], hs) \in {NewLease(lease[r].giver, Own), NoLease}
  BY DEF GiveBackOrEnd
<1>6. NewLease(lease[r].giver, Own).holder = lease[r].giver
  BY DEF NewLease
<1>7. ASSUME NEW c, NEW hs, lease' = LeasesWithout(c, hs)
      PROVE  StaysOrBack(r)
  <2>1. lease[r] = NoLease => lease'[r] = NoLease
    BY <1>7 DEF LeasesWithout
  <2>2. lease[r] # NoLease /\ lease[r].holder = c => lease'[r] = GiveBackOrEnd(lease[r], hs)
    BY <1>7 DEF LeasesWithout
  <2>3. ASSUME lease[r] # NoLease, lease[r].holder # c
        PROVE  lease'[r].holder = lease[r].holder
    <3>1. lease'[r] = [lease[r] EXCEPT !.offer = IF @ = c THEN NoClient ELSE @,
                                       !.giver = IF @ = c THEN Gone ELSE @]
      BY <1>7, <2>3 DEF LeasesWithout
    <3>2. lease[r] \in Lease
      BY <2>3 DEF TypeOK
    <3> QED BY <3>1, <3>2 DEF Lease
  <2> QED BY <1>5, <1>6, <2>1, <2>2, <2>3 DEF StaysOrBack
<1>8. CASE GoalNext
  BY <1>3, <1>7, <1>8
  DEF GoalNext, BeginGoal, ProcessRestarts, AcceptGoal, AcceptFails, EndGoal, EndHolding, bookVars
<1>9. CASE ServiceNext
  <2>1. ASSUME NEW c \in Clients, NEW q \in Robots, Take(c, q)
        PROVE  StaysOrBack(r)
    <3>1. q # r
      BY <1>2, <2>1 DEF Take, CanTake
    <3>2. lease'[r] = lease[r]
      BY <1>2, <2>1, <3>1 DEF Take, TypeOK
    <3> QED BY <3>2 DEF StaysOrBack
  <2>2. ASSUME NEW c \in Clients, NEW q \in Robots, Release(c, q)
        PROVE  StaysOrBack(r)
    <3>1. lease' = [lease EXCEPT ![q] = GiveBackOrEnd(lease[q], Holding)] /\ lease[q] # NoLease
      BY <2>2 DEF Release, IsHeld
    <3>2. q # r => lease'[r] = lease[r]
      BY <3>1 DEF TypeOK
    <3>3. q = r => lease'[r] = GiveBackOrEnd(lease[r], Holding)
      BY <3>1 DEF TypeOK
    <3> QED BY <1>5, <1>6, <3>1, <3>2, <3>3 DEF StaysOrBack
  <2>3. ASSUME NEW c \in Clients, NEW q \in Robots, Open(c, q) \/ Close(c, q)
        PROVE  StaysOrBack(r)
    <3>1. PICK b \in BOOLEAN : lease' = [lease EXCEPT ![q].open = b]
      BY <2>3 DEF Open, Close
    <3>2. lease[q] \in Lease /\ lease[q] # NoLease
      BY <2>3 DEF Open, Close, IsHeld, TypeOK
    <3>3. lease'[r] = IF q = r THEN [lease[r] EXCEPT !.open = b] ELSE lease[r]
      BY <3>1 DEF TypeOK
    <3>4. q = r => lease'[r].holder = lease[r].holder
      BY <3>2, <3>3 DEF Lease
    <3> QED BY <3>2, <3>3, <3>4 DEF StaysOrBack
  <2>4. ASSUME NEW c \in Clients, NEW rs \in SUBSET Robots, NEW to \in Clients, Offer(c, rs, to)
        PROVE  StaysOrBack(r)
    <3>1. lease'[r] = IF r \in rs THEN [lease[r] EXCEPT !.offer = to] ELSE lease[r]
      BY <2>4 DEF Offer
    <3>2. r \in rs => lease[r] # NoLease /\ lease[r] \in Lease
      BY <2>4 DEF Offer, IsHeld, TypeOK
    <3>3. r \in rs => lease'[r].holder = lease[r].holder
      BY <3>1, <3>2 DEF Lease
    <3> QED BY <3>1, <3>2, <3>3 DEF StaysOrBack
  <2> QED BY <1>9, <2>1, <2>2, <2>3, <2>4 DEF ServiceNext
<1>10. CASE HaltNext
  <2>1. CASE Crash \/ CrashInClear
    BY <2>1 DEF Crash, CrashInClear, Restart, StaysOrBack
  <2> QED BY <1>3, <1>4, <1>10, <2>1
      DEF HaltNext, HaltWritten, HaltNotWritten, HaltBook, ClearHalt
<1>11. CASE ChangeNext
  <2>1. \A y \in Changes : ~CommitJoin(y)
    BY <1>1, <1>2 DEF CommitJoin, Working
  <2> QED BY <1>3, <1>4, <1>11, <2>1
      DEF ChangeNext, BeginOfCopy, BeginOfStack, BeginChange, AdmitByLeases, PassGate,
          RefuseChange, CommitRemoval, DropLaunch, CommitLaunch, ChangeFails, DropMutation,
          DropRemovalHold, ReleaseGate, bookVars
<1>12. CASE UNCHANGED vars
  BY <1>3, <1>12 DEF vars, bookVars
<1> QED BY <1>8, <1>9, <1>10, <1>11, <1>12 DEF Next

\* While a removal runs with its hold, the lease of its robot passes to nobody new,
\* however many changes overlap; only the end of another removal of the robot,
\* admitted to the stack before this one, lifts the hold (RemovalHold's drop).
THEOREM RemovalsKeepTakersOut == Spec => NoTakeDuringRemoval
<1>1. Init => HoldInv
  BY DEF Init, HoldInv, Holds, Working, Idle
<1>2. TypeOK /\ HoldInv /\ [Next]_vars => HoldInv'
  BY HoldStep
<1>3. TypeOK /\ HoldInv /\ [Next]_vars =>
        [\A x \in Changes : RemovalRuns(x) => StaysOrBack(change[x].robot)]_vars
  BY RemovalStep
<1> QED BY <1>1, <1>2, <1>3, FleetTypeCorrect, PTL DEF Spec, NoTakeDuringRemoval
=============================================================================
