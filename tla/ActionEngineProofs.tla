------------------------- MODULE ActionEngineProofs -------------------------
(***************************************************************************)
(* Proofs about ActionEngine, for any sets of goals, senders, polls,       *)
(* cancels and links, any caps, and every combination of faults.           *)
(*                                                                         *)
(* Each step touches few of the groups of variables, so each case proves   *)
(* the groups it changes and takes the others from Frames.                 *)
(***************************************************************************)
EXTENDS ActionEngine, TLAPS

\* A group of variables that does not change keeps its types.
LEMMA Frames ==
  /\ AcceptOK /\ UNCHANGED acceptVars => AcceptOK'
  /\ MapsOK /\ UNCHANGED mapVars => MapsOK'
  /\ SlotsOK /\ UNCHANGED stateVars => SlotsOK'
  /\ SignalsOK /\ UNCHANGED signalVars => SignalsOK'
  /\ EndersOK /\ UNCHANGED enderVars => EndersOK'
  /\ PollsOK /\ UNCHANGED resultVars => PollsOK'
  /\ CancelsOK /\ UNCHANGED cancelVars => CancelsOK'
  /\ SweepOK /\ UNCHANGED sweepVars => SweepOK'
  /\ WatchesOK /\ UNCHANGED watchVars => WatchesOK'
<1>1. AcceptOK /\ UNCHANGED acceptVars => AcceptOK'
  BY DEF AcceptOK, acceptVars
<1>2. MapsOK /\ UNCHANGED mapVars => MapsOK'
  BY DEF MapsOK, mapVars
<1>3. SlotsOK /\ UNCHANGED stateVars => SlotsOK'
  BY DEF SlotsOK, stateVars
<1>4. SignalsOK /\ UNCHANGED signalVars => SignalsOK'
  BY DEF SignalsOK, signalVars
<1>5. EndersOK /\ UNCHANGED enderVars => EndersOK'
  BY DEF EndersOK, enderVars
<1>6. PollsOK /\ UNCHANGED resultVars => PollsOK'
  BY DEF PollsOK, resultVars
<1>7. CancelsOK /\ UNCHANGED cancelVars => CancelsOK'
  BY DEF CancelsOK, cancelVars
<1>8. SweepOK /\ UNCHANGED sweepVars => SweepOK'
  BY DEF SweepOK, sweepVars
<1>9. WatchesOK /\ UNCHANGED watchVars => WatchesOK'
  BY DEF WatchesOK, watchVars
<1> QED BY <1>1, <1>2, <1>3, <1>4, <1>5, <1>6, <1>7, <1>8, <1>9

\* The tombstones stay a sequence of goals.
LEMMA TombsInsertType ==
  ASSUME NEW t \in Seq(Goals), NEW g \in Goals
  PROVE  TombsInsert(t, g) \in Seq(Goals)
<1>1. Append(t, g) \in Seq(Goals)
  OBVIOUS
<1>2. CASE Len(t) >= EXPIRED_TOMBSTONE_CAP
  <2> DEFINE m == Len(t) - EXPIRED_TOMBSTONE_CAP + 2
  <2>1. m \in Nat /\ m >= 2 /\ Len(t) \in Nat
    BY <1>2, ActionEngineAssumptions DEF ActionEngineAssumptions
  <2>2. SubSeq(t, m, Len(t)) \in Seq(Goals)
    <3> HIDE DEF m
    <3> QED BY <2>1
  <2>3. Append(SubSeq(t, m, Len(t)), g) \in Seq(Goals)
    BY <2>2
  <2> QED BY <2>3, <1>2 DEF TombsInsert
<1>3. CASE ~(Len(t) >= EXPIRED_TOMBSTONE_CAP)
  BY <1>1, <1>3 DEF TombsInsert
<1> QED BY <1>2, <1>3

\* One call of a goal moves in the table of the calls.
LEMMA EnderMove ==
  ASSUME NEW t \in EnderTable, NEW g \in Goals, NEW e \in Enders \cup {Abandon},
         NEW x \in EnderStates
  PROVE  [t EXCEPT ![g][e] = x] \in EnderTable
<1>1. [t[g] EXCEPT ![e] = x] \in [Enders \cup {Abandon} -> EnderStates]
  BY DEF EnderTable
<1>2. [t EXCEPT ![g] = [t[g] EXCEPT ![e] = x]] \in EnderTable
  BY <1>1 DEF EnderTable
<1> QED BY <1>2

\* Admission: recv_next_goal, accept and refuse keep the types.
LEMMA AcceptTypes ==
  ASSUME TypeOK, NEW g \in Goals, RecvNextGoal(g) \/ Refuse(g) \/ AcceptStep(g)
  PROVE  TypeOK'
<1>1. AcceptOK /\ MapsOK /\ SlotsOK /\ SignalsOK /\ EndersOK /\ PollsOK /\ CancelsOK
      /\ SweepOK /\ WatchesOK
  BY DEF TypeOK
<1>2. CASE RecvNextGoal(g)
  <2>1. AcceptOK'
    BY <1>1, <1>2, ActionEngineAssumptions
    DEF RecvNextGoal, AcceptOK, Phases
  <2>2. MapsOK' /\ SlotsOK' /\ SignalsOK' /\ EndersOK' /\ PollsOK' /\ CancelsOK' /\ SweepOK' /\
      WatchesOK'
    BY <1>1, <1>2, Frames DEF RecvNextGoal
  <2> QED BY <2>1, <2>2 DEF TypeOK
<1>3. CASE Refuse(g)
  <2>1. AcceptOK'
    BY <1>1, <1>3, ActionEngineAssumptions
    DEF Refuse, AcceptOK, Phases
  <2>2. MapsOK' /\ SlotsOK' /\ SignalsOK' /\ EndersOK' /\ PollsOK' /\ CancelsOK' /\ SweepOK' /\
      WatchesOK'
    BY <1>1, <1>3, Frames DEF Refuse
  <2> QED BY <2>1, <2>2 DEF TypeOK
<1>4. CASE AcceptRegister(g)
  <2>1. AcceptOK'
    BY <1>1, <1>4, ActionEngineAssumptions
    DEF AcceptRegister, AcceptOK, Phases
  <2>2. MapsOK'
    BY <1>1, <1>4, ActionEngineAssumptions
    DEF AcceptRegister, EarlyKeys, MapsOK
  <2>3. SlotsOK'
    BY <1>1, <1>4, ActionEngineAssumptions
    DEF AcceptRegister, SlotsOK
  <2>4. SignalsOK' /\ EndersOK' /\ PollsOK' /\ CancelsOK' /\ SweepOK' /\ WatchesOK'
    BY <1>1, <1>4, Frames DEF AcceptRegister
  <2> QED BY <2>1, <2>2, <2>3, <2>4 DEF TypeOK
<1>5. CASE AcceptEarlyCancel(g)
  <2>1. AcceptOK'
    BY <1>1, <1>5, ActionEngineAssumptions
    DEF AcceptEarlyCancel, AcceptOK, Phases
  <2>2. MapsOK'
    BY <1>1, <1>5, ActionEngineAssumptions
    DEF AcceptEarlyCancel, EarlyKeys, MapsOK, SlotOwner, VerifiedCaller
  <2>3. SignalsOK'
    BY <1>1, <1>5, ActionEngineAssumptions
    DEF AcceptEarlyCancel, SignalsOK
  <2>4. SlotsOK' /\ EndersOK' /\ PollsOK' /\ CancelsOK' /\ SweepOK' /\ WatchesOK'
    BY <1>1, <1>5, Frames DEF AcceptEarlyCancel
  <2> QED BY <2>1, <2>2, <2>3, <2>4 DEF TypeOK
<1>6. CASE AcceptAdopt(g)
  <2>1. AcceptOK'
    BY <1>1, <1>6, ActionEngineAssumptions
    DEF AcceptAdopt, AcceptOK, MapsOK, Phases
  <2>2. MapsOK'
    BY <1>1, <1>6, ActionEngineAssumptions
    DEF AcceptAdopt, EarlyKeys, MapsOK
  <2>3. SlotsOK' /\ SignalsOK' /\ EndersOK' /\ PollsOK' /\ CancelsOK' /\ SweepOK' /\ WatchesOK'
    BY <1>1, <1>6, Frames DEF AcceptAdopt
  <2> QED BY <2>1, <2>2, <2>3 DEF TypeOK
<1>7. CASE AcceptExtend(g)
  <2>1. AcceptOK'
    BY <1>1, <1>7, ActionEngineAssumptions
    DEF AcceptExtend, AcceptOK, Phases
  <2>2. SlotsOK'
    BY <1>1, <1>7, ActionEngineAssumptions
    DEF AcceptExtend, AcceptOK, SlotsOK
  <2>3. MapsOK' /\ SignalsOK' /\ EndersOK' /\ PollsOK' /\ CancelsOK' /\ SweepOK' /\ WatchesOK'
    BY <1>1, <1>7, Frames DEF AcceptExtend
  <2> QED BY <2>1, <2>2, <2>3 DEF TypeOK
<1>8. CASE AcceptReply(g)
  <2>1. AcceptOK'
    BY <1>1, <1>8, ActionEngineAssumptions
    DEF AcceptReply, AcceptOK, Phases
  <2>2. MapsOK' /\ SlotsOK' /\ SignalsOK' /\ EndersOK' /\ PollsOK' /\ CancelsOK' /\ SweepOK' /\
      WatchesOK'
    BY <1>1, <1>8, Frames DEF AcceptReply
  <2> QED BY <2>1, <2>2 DEF TypeOK
<1>9. CASE AcceptReplyFails(g)
  <2>1. AcceptOK'
    BY <1>1, <1>9, ActionEngineAssumptions
    DEF AcceptReplyFails, AcceptOK, Phases
  <2>2. MapsOK'
    BY <1>1, <1>9, ActionEngineAssumptions
    DEF AcceptReplyFails, EarlyKeys, MapsOK
  <2>3. SlotsOK'
    BY <1>1, <1>9, ActionEngineAssumptions
    DEF AcceptReplyFails, SlotsOK
  <2>4. PollsOK'
    BY <1>1, <1>9, ActionEngineAssumptions
    DEF AcceptReplyFails, PollStates, PollsOK
  <2>5. SignalsOK' /\ EndersOK' /\ CancelsOK' /\ SweepOK' /\ WatchesOK'
    BY <1>1, <1>9, Frames DEF AcceptReplyFails
  <2> QED BY <2>1, <2>2, <2>3, <2>4, <2>5 DEF TypeOK
<1>10. CASE TrackSenderGoal(g)
  <2>1. AcceptOK'
    BY <1>1, <1>10, ActionEngineAssumptions
    DEF TrackSenderGoal, AcceptOK, Phases
  <2>2. WatchesOK'
    BY SMTT(30), <1>1, <1>10, ActionEngineAssumptions
    DEF TrackSenderGoal, AtAwait, WatchStates, WatchesOK
  <2>3. MapsOK' /\ SlotsOK' /\ SignalsOK' /\ EndersOK' /\ PollsOK' /\ CancelsOK' /\ SweepOK'
    BY <1>1, <1>10, Frames DEF TrackSenderGoal
  <2> QED BY <2>1, <2>2, <2>3 DEF TypeOK
<1> QED BY <1>2, <1>3, <1>4, <1>5, <1>6, <1>7, <1>8, <1>9, <1>10 DEF AcceptStep

\* A goal's end and its worker's links keep the types.
LEMMA EnderTypes ==
  ASSUME TypeOK, NEW g \in Goals, EnderStep(g) \/ WorkerStep(g)
  PROVE  TypeOK'
<1>1. AcceptOK /\ MapsOK /\ SlotsOK /\ SignalsOK /\ EndersOK /\ PollsOK /\ CancelsOK
      /\ SweepOK /\ WatchesOK
  BY DEF TypeOK
<1>2. CASE AbandonSwap(g)
  <2>1. SlotsOK'
    BY <1>1, <1>2, ActionEngineAssumptions
    DEF AbandonSwap, SlotsOK, Swap
  <2>m. PICK x \in EnderStates : ender' = [ender EXCEPT ![g][Abandon] = x]
    BY <1>1, <1>2 DEF AbandonSwap, EndersOK, EnderTable, EnderStates, Swap
  <2>2a. ender' \in EnderTable
    BY <1>1, <2>m, EnderMove DEF EndersOK
  <2>2. EndersOK'
    BY <1>1, <1>2, <2>2a DEF AbandonSwap, EndersOK, Outcomes, Swap
  <2>3. AcceptOK' /\ MapsOK' /\ SignalsOK' /\ PollsOK' /\ CancelsOK' /\ SweepOK' /\ WatchesOK'
    BY <1>1, <1>2, Frames DEF AbandonSwap, Swap
  <2> QED BY <2>1, <2>2, <2>3 DEF TypeOK
<1>3. CASE \E e \in Enders, o \in Results : Deliver(g, e, o)
  <2>1. SlotsOK'
    BY <1>1, <1>3, ActionEngineAssumptions
    DEF Deliver, SlotsOK, Swap
  <2>p. PICK e \in Enders, o \in Results : Deliver(g, e, o)
    BY <1>3
  <2>m. PICK x \in EnderStates : ender' = [ender EXCEPT ![g][e] = x]
    BY <1>1, <1>3, <2>p DEF Deliver, EndersOK, EnderTable, EnderStates, Swap
  <2>2a. ender' \in EnderTable
    BY <1>1, <2>m, EnderMove DEF EndersOK
  <2>2. EndersOK'
    BY <1>1, <2>p, <2>2a DEF Deliver, EndersOK, Outcomes, Swap
  <2>3. AcceptOK' /\ MapsOK' /\ SignalsOK' /\ PollsOK' /\ CancelsOK' /\ SweepOK' /\ WatchesOK'
    BY <1>1, <1>3, Frames DEF Deliver, Swap
  <2> QED BY <2>1, <2>2, <2>3 DEF TypeOK
<1>4. CASE \E e \in Enders \cup {Abandon} : ReplaceState(g, e)
  <2>1. SlotsOK'
    BY <1>1, <1>4, ActionEngineAssumptions
    DEF ReplaceState, EndersOK, SlotsOK
  <2>p. PICK e \in Enders \cup {Abandon} : ReplaceState(g, e)
    BY <1>4
  <2>2a. ender' \in EnderTable
    BY <1>1, <2>p, EnderMove DEF ReplaceState, EndersOK, EnderStates
  <2>2. EndersOK'
    BY <1>1, <2>p, <2>2a DEF ReplaceState, EndersOK, SlotsOK
  <2>3. AcceptOK' /\ MapsOK' /\ SignalsOK' /\ PollsOK' /\ CancelsOK' /\ SweepOK' /\ WatchesOK'
    BY <1>1, <1>4, Frames DEF ReplaceState
  <2> QED BY <2>1, <2>2, <2>3 DEF TypeOK
<1>5. CASE \E e \in Enders \cup {Abandon}, p \in Polls : WakeWaiter(g, e, p)
  <2>p. PICK e \in Enders \cup {Abandon}, p \in Polls : WakeWaiter(g, e, p)
    BY <1>5
  <2>1. EndersOK'
    BY <1>1, <2>p DEF WakeWaiter, EndersOK
  <2>2. PollsOK'
    BY <1>1, <1>5, ActionEngineAssumptions
    DEF WakeWaiter, EndersOK, PollStates, PollsOK, SlotsOK
  <2>3. AcceptOK' /\ MapsOK' /\ SlotsOK' /\ SignalsOK' /\ CancelsOK' /\ SweepOK' /\ WatchesOK'
    BY <1>1, <1>5, Frames DEF WakeWaiter
  <2> QED BY <2>1, <2>2, <2>3 DEF TypeOK
<1>6. CASE \E e \in Enders \cup {Abandon} : PublishEnd(g, e)
  <2>p. PICK e \in Enders \cup {Abandon} : PublishEnd(g, e)
    BY <1>6
  <2>1a. ender' \in EnderTable
    BY <1>1, <2>p, EnderMove DEF PublishEnd, EndersOK, EnderStates
  <2>1. EndersOK'
    BY <1>1, <2>p, <2>1a DEF PublishEnd, EndersOK
  <2>2. AcceptOK' /\ MapsOK' /\ SlotsOK' /\ SignalsOK' /\ PollsOK' /\ CancelsOK' /\ SweepOK' /\
      WatchesOK'
    BY <1>1, <1>6, Frames DEF PublishEnd
  <2> QED BY <2>1, <2>2 DEF TypeOK
<1>7. CASE \E e \in Enders : DeliverDropped(g, e)
  <2>p. PICK e \in Enders : DeliverDropped(g, e)
    BY <1>7
  <2>1a. ender' \in EnderTable
    BY <1>1, <2>p, EnderMove DEF DeliverDropped, EndersOK, EnderStates
  <2>1. EndersOK'
    BY <1>1, <2>p, <2>1a DEF DeliverDropped, EndersOK
  <2>2. PollsOK'
    BY <1>1, <1>7, ActionEngineAssumptions
    DEF DeliverDropped, EndersOK, PollStates, PollsOK
  <2>3. AcceptOK' /\ MapsOK' /\ SlotsOK' /\ SignalsOK' /\ CancelsOK' /\ SweepOK' /\ WatchesOK'
    BY <1>1, <1>7, Frames DEF DeliverDropped
  <2> QED BY <2>1, <2>2, <2>3 DEF TypeOK
<1>8. CASE ContextDrop(g)
  <2>1. AcceptOK'
    BY <1>1, <1>8, ActionEngineAssumptions
    DEF ContextDrop, AcceptOK, Phases
  <2>2a. ender' \in EnderTable
    BY <1>1, <1>8, EnderMove DEF ContextDrop, EndersOK, EnderStates
  <2>2. EndersOK'
    BY <1>1, <1>8, <2>2a DEF ContextDrop, EndersOK
  <2>3. MapsOK' /\ SlotsOK' /\ SignalsOK' /\ PollsOK' /\ CancelsOK' /\ SweepOK' /\ WatchesOK'
    BY <1>1, <1>8, Frames DEF ContextDrop
  <2> QED BY <2>1, <2>2, <2>3 DEF TypeOK
<1>9. CASE \E l \in Links : Link(g, l)
  <2>1. SignalsOK'
    BY <1>1, <1>9, ActionEngineAssumptions
    DEF Link, SignalsOK
  <2>2. AcceptOK' /\ MapsOK' /\ SlotsOK' /\ EndersOK' /\ PollsOK' /\ CancelsOK' /\ SweepOK' /\
      WatchesOK'
    BY <1>1, <1>9, Frames DEF Link
  <2> QED BY <2>1, <2>2 DEF TypeOK
<1>10. CASE \E l \in Links : Unlink(g, l)
  <2>1. SignalsOK'
    BY <1>1, <1>10, ActionEngineAssumptions
    DEF Unlink, SignalsOK
  <2>2. AcceptOK' /\ MapsOK' /\ SlotsOK' /\ EndersOK' /\ PollsOK' /\ CancelsOK' /\ SweepOK' /\
      WatchesOK'
    BY <1>1, <1>10, Frames DEF Unlink
  <2> QED BY <2>1, <2>2 DEF TypeOK
<1> QED BY <1>2, <1>3, <1>4, <1>5, <1>6, <1>7, <1>8, <1>9, <1>10 DEF EnderStep, WorkerStep

\* The result loop keeps the types.
LEMMA ResultTypes ==
  ASSUME TypeOK, (\E p \in Polls : RecvResultPoll(p)) \/ ResultStep \/ ResultLoopAborted
  PROVE  TypeOK'
<1>1. AcceptOK /\ MapsOK /\ SlotsOK /\ SignalsOK /\ EndersOK /\ PollsOK /\ CancelsOK
      /\ SweepOK /\ WatchesOK
  BY DEF TypeOK
<1>2. CASE \E p \in Polls : RecvResultPoll(p)
  <2>1. PollsOK'
    BY <1>1, <1>2, ActionEngineAssumptions
    DEF RecvResultPoll, PollStates, PollsOK
  <2>2. AcceptOK' /\ MapsOK' /\ SlotsOK' /\ SignalsOK' /\ EndersOK' /\ CancelsOK' /\ SweepOK' /\
      WatchesOK'
    BY <1>1, <1>2, Frames DEF RecvResultPoll
  <2> QED BY <2>1, <2>2 DEF TypeOK
<1>3. CASE RelookUnderLock
  <2>1. PollsOK'
    BY <1>1, <1>3, ActionEngineAssumptions
    DEF RelookUnderLock, PollStates, PollsOK
  <2>2. AcceptOK' /\ MapsOK' /\ SlotsOK' /\ SignalsOK' /\ EndersOK' /\ CancelsOK' /\ SweepOK' /\
      WatchesOK'
    BY <1>1, <1>3, Frames DEF RelookUnderLock
  <2> QED BY <2>1, <2>2 DEF TypeOK
<1>4. CASE RouteUnderLock
  <2>1. MapsOK'
    BY <1>1, <1>4, ActionEngineAssumptions
    DEF RouteUnderLock, EarlyKeys, MapsOK, PollsOK
  <2>2. PollsOK'
    BY <1>1, <1>4, ActionEngineAssumptions
    DEF RouteUnderLock, Answered, Expired, PollStates, PollsOK
  <2>3. AcceptOK' /\ SlotsOK' /\ SignalsOK' /\ EndersOK' /\ CancelsOK' /\ SweepOK' /\ WatchesOK'
    BY <1>1, <1>4, Frames DEF RouteUnderLock
  <2> QED BY <2>1, <2>2, <2>3 DEF TypeOK
<1>5. CASE ActOnSlot
  <2>1. SlotsOK'
    BY <1>1, <1>5, ActionEngineAssumptions
    DEF ActOnSlot, PollsOK, SlotsOK
  <2>2. PollsOK'
    BY <1>1, <1>5, ActionEngineAssumptions
    DEF ActOnSlot, Answered, PollStates, PollsOK, SlotAnswer, SlotsOK
  <2>3. AcceptOK' /\ MapsOK' /\ SignalsOK' /\ EndersOK' /\ CancelsOK' /\ SweepOK' /\ WatchesOK'
    BY <1>1, <1>5, Frames DEF ActOnSlot
  <2> QED BY <2>1, <2>2, <2>3 DEF TypeOK
<1>6. CASE ResultLoopAborted
  <2>1. PollsOK'
    BY <1>1, <1>6, ActionEngineAssumptions
    DEF ResultLoopAborted, PollStates, PollsOK
  <2>2. AcceptOK' /\ MapsOK' /\ SlotsOK' /\ SignalsOK' /\ EndersOK' /\ CancelsOK' /\ SweepOK' /\
      WatchesOK'
    BY <1>1, <1>6, Frames DEF ResultLoopAborted
  <2> QED BY <2>1, <2>2 DEF TypeOK
<1> QED BY <1>2, <1>3, <1>4, <1>5, <1>6 DEF ResultStep

\* The cancel loop keeps the types.
LEMMA CancelTypes ==
  ASSUME TypeOK, (\E c \in Cancels : RecvCancel(c)) \/ CancelStep
  PROVE  TypeOK'
<1>1. AcceptOK /\ MapsOK /\ SlotsOK /\ SignalsOK /\ EndersOK /\ PollsOK /\ CancelsOK
      /\ SweepOK /\ WatchesOK
  BY DEF TypeOK
<1>2. CASE \E c \in Cancels : RecvCancel(c)
  <2>1. CancelsOK'
    BY <1>1, <1>2, ActionEngineAssumptions
    DEF RecvCancel, CancelStates, CancelsOK
  <2>2. AcceptOK' /\ MapsOK' /\ SlotsOK' /\ SignalsOK' /\ EndersOK' /\ PollsOK' /\ SweepOK' /\
      WatchesOK'
    BY <1>1, <1>2, Frames DEF RecvCancel
  <2> QED BY <2>1, <2>2 DEF TypeOK
<1>3. CASE CancelLookTombstone
  <2>1. CancelsOK'
    BY <1>1, <1>3, ActionEngineAssumptions
    DEF CancelLookTombstone, CancelReplied, CancelStates, CancelsOK
  <2>2. AcceptOK' /\ MapsOK' /\ SlotsOK' /\ SignalsOK' /\ EndersOK' /\ PollsOK' /\ SweepOK' /\
      WatchesOK'
    BY <1>1, <1>3, Frames DEF CancelLookTombstone
  <2> QED BY <2>1, <2>2 DEF TypeOK
<1>4. CASE RememberEarlyCancel
  <2>1. MapsOK'
    BY <1>1, <1>4, ActionEngineAssumptions
    DEF RememberEarlyCancel, CancelsOK, EarlyKeys, MapsOK, VerifiedCaller
  <2>2. CancelsOK'
    BY <1>1, <1>4, ActionEngineAssumptions
    DEF RememberEarlyCancel, CancelReplied, CancelStates, CancelsOK
  <2>3. AcceptOK' /\ SlotsOK' /\ SignalsOK' /\ EndersOK' /\ PollsOK' /\ SweepOK' /\ WatchesOK'
    BY <1>1, <1>4, Frames DEF RememberEarlyCancel
  <2> QED BY <2>1, <2>2, <2>3 DEF TypeOK
<1>5. CASE CancelSlot
  <2>1. SignalsOK'
    BY <1>1, <1>5, ActionEngineAssumptions
    DEF CancelSlot, CancelsOK, SignalCancel, SignalsOK
  <2>2. CancelsOK'
    BY <1>1, <1>5, ActionEngineAssumptions
    DEF CancelSlot, CancelReplied, CancelStates, CancelsOK
  <2>3. AcceptOK' /\ MapsOK' /\ SlotsOK' /\ EndersOK' /\ PollsOK' /\ SweepOK' /\ WatchesOK'
    BY <1>1, <1>5, Frames DEF CancelSlot
  <2> QED BY <2>1, <2>2, <2>3 DEF TypeOK
<1>6. CASE CancelTakes
  <2>1. SignalsOK'
    BY <1>1, <1>6, ActionEngineAssumptions
    DEF CancelTakes, CancelsOK, SignalsOK, TakeLinked
  <2>2. CancelsOK'
    BY <1>1, <1>6, ActionEngineAssumptions
    DEF CancelTakes, CancelStates, CancelsOK, SignalsOK
  <2>3. AcceptOK' /\ MapsOK' /\ SlotsOK' /\ EndersOK' /\ PollsOK' /\ SweepOK' /\ WatchesOK'
    BY <1>1, <1>6, Frames DEF CancelTakes
  <2> QED BY <2>1, <2>2, <2>3 DEF TypeOK
<1>7. CASE CancelTokens
  <2>1. SignalsOK'
    BY <1>1, <1>7, ActionEngineAssumptions
    DEF CancelTokens, CancelsOK, SignalsOK
  <2>2. CancelsOK'
    BY <1>1, <1>7, ActionEngineAssumptions
    DEF CancelTokens, CancelReplied, CancelStates, CancelsOK
  <2>3. AcceptOK' /\ MapsOK' /\ SlotsOK' /\ EndersOK' /\ PollsOK' /\ SweepOK' /\ WatchesOK'
    BY <1>1, <1>7, Frames DEF CancelTokens
  <2> QED BY <2>1, <2>2, <2>3 DEF TypeOK
<1> QED BY <1>2, <1>3, <1>4, <1>5, <1>6, <1>7 DEF CancelStep

\* A pass of the retention sweeper keeps the types.
LEMMA SweepTypes ==
  ASSUME TypeOK, SweepStep
  PROVE  TypeOK'
<1>1. AcceptOK /\ MapsOK /\ SlotsOK /\ SignalsOK /\ EndersOK /\ PollsOK /\ CancelsOK
      /\ SweepOK /\ WatchesOK
  BY DEF TypeOK
<1>2. CASE SweepEvict
  <2>1. MapsOK'
    BY <1>1, <1>2, ActionEngineAssumptions
    DEF SweepEvict, EarlyKeys, MapsOK
  <2>2. SweepOK'
    BY <1>1, <1>2, ActionEngineAssumptions
    DEF SweepEvict, MapsOK, SweepOK
  <2>3. AcceptOK' /\ SlotsOK' /\ SignalsOK' /\ EndersOK' /\ PollsOK' /\ CancelsOK' /\ WatchesOK'
    BY <1>1, <1>2, Frames DEF SweepEvict
  <2> QED BY <2>1, <2>2, <2>3 DEF TypeOK
<1>3. CASE SweepLockTombs
  <2>1. SweepOK'
    BY <1>1, <1>3, ActionEngineAssumptions
    DEF SweepLockTombs, SweepOK
  <2>2. AcceptOK' /\ MapsOK' /\ SlotsOK' /\ SignalsOK' /\ EndersOK' /\ PollsOK' /\ CancelsOK' /\
      WatchesOK'
    BY <1>1, <1>3, Frames DEF SweepLockTombs
  <2> QED BY <2>1, <2>2 DEF TypeOK
<1>4. CASE \E g \in Goals : SweepTombstone(g)
  <2>1. MapsOK'
    <3>1. PICK g \in Goals : SweepTombstone(g)
      BY <1>4
    <3>2. TombsInsert(tombs, g) \in Seq(Goals)
      BY <1>1, TombsInsertType DEF MapsOK
    <3> QED BY <1>1, <3>1, <3>2 DEF SweepTombstone, MapsOK
  <2>2. SweepOK'
    BY <1>1, <1>4, ActionEngineAssumptions
    DEF SweepTombstone, SweepOK
  <2>3. AcceptOK' /\ SlotsOK' /\ SignalsOK' /\ EndersOK' /\ PollsOK' /\ CancelsOK' /\ WatchesOK'
    BY <1>1, <1>4, Frames DEF SweepTombstone
  <2> QED BY <2>1, <2>2, <2>3 DEF TypeOK
<1>5. CASE SweepPolls
  <2>1. MapsOK'
    BY <1>1, <1>5, ActionEngineAssumptions
    DEF SweepPolls, EarlyKeys, MapsOK
  <2>2. PollsOK'
    BY <1>1, <1>5, ActionEngineAssumptions
    DEF SweepPolls, MapsOK, PollStates, PollsOK
  <2>3. SweepOK'
    BY <1>1, <1>5, ActionEngineAssumptions
    DEF SweepPolls, SweepOK
  <2>4. AcceptOK' /\ SlotsOK' /\ SignalsOK' /\ EndersOK' /\ CancelsOK' /\ WatchesOK'
    BY <1>1, <1>5, Frames DEF SweepPolls
  <2> QED BY <2>1, <2>2, <2>3, <2>4 DEF TypeOK
<1>6. CASE EndIdleSenderWatches
  <2>1. SweepOK'
    BY <1>1, <1>6, ActionEngineAssumptions
    DEF EndIdleSenderWatches, SweepOK
  <2>2. WatchesOK'
    BY <1>1, <1>6, ActionEngineAssumptions
    DEF EndIdleSenderWatches, AtAwait, LiveGoalsOf, WatchStates, WatchesOK
  <2>3. AcceptOK' /\ MapsOK' /\ SlotsOK' /\ SignalsOK' /\ EndersOK' /\ PollsOK' /\ CancelsOK'
    BY <1>1, <1>6, Frames DEF EndIdleSenderWatches
  <2> QED BY <2>1, <2>2, <2>3 DEF TypeOK
<1>7. CASE SweepEarlyCancels
  <2>1. MapsOK'
    BY <1>1, <1>7, ActionEngineAssumptions
    DEF SweepEarlyCancels, EarlyKeys, MapsOK
  <2>2. SweepOK'
    BY <1>1, <1>7, ActionEngineAssumptions
    DEF SweepEarlyCancels, SweepOK
  <2>3. AcceptOK' /\ SlotsOK' /\ SignalsOK' /\ EndersOK' /\ PollsOK' /\ CancelsOK' /\ WatchesOK'
    BY <1>1, <1>7, Frames DEF SweepEarlyCancels
  <2> QED BY <2>1, <2>2, <2>3 DEF TypeOK
<1> QED BY <1>2, <1>3, <1>4, <1>5, <1>6, <1>7 DEF SweepStep

\* A sender watch keeps the types.
LEMMA WatchTypes ==
  ASSUME TypeOK, NEW w \in Goals, WatchTaskStep(w) \/ WatchFails(w)
  PROVE  TypeOK'
<1>1. AcceptOK /\ MapsOK /\ SlotsOK /\ SignalsOK /\ EndersOK /\ PollsOK /\ CancelsOK
      /\ SweepOK /\ WatchesOK
  BY DEF TypeOK
<1>2. CASE WatchResolve(w)
  <2>1. WatchesOK'
    BY <1>1, <1>2, ActionEngineAssumptions
    DEF WatchResolve, AtAwait, WatchStates, WatchTo, WatchesOK
  <2>2. AcceptOK' /\ MapsOK' /\ SlotsOK' /\ SignalsOK' /\ EndersOK' /\ PollsOK' /\ CancelsOK' /\
      SweepOK'
    BY <1>1, <1>2, Frames DEF WatchResolve, WatchTo
  <2> QED BY <2>1, <2>2 DEF TypeOK
<1>3. CASE WatchReadGone(w)
  <2>1. WatchesOK'
    BY <1>1, <1>3, ActionEngineAssumptions
    DEF WatchReadGone, AtAwait, WatchStates, WatchTo, WatchesOK
  <2>2. AcceptOK' /\ MapsOK' /\ SlotsOK' /\ SignalsOK' /\ EndersOK' /\ PollsOK' /\ CancelsOK' /\
      SweepOK'
    BY <1>1, <1>3, Frames DEF WatchReadGone, WatchTo
  <2> QED BY <2>1, <2>2 DEF TypeOK
<1>4. CASE WatchProbeAbsent(w)
  <2>1. WatchesOK'
    BY SMTT(30), <1>1, <1>4, ActionEngineAssumptions
    DEF WatchProbeAbsent, AtAwait, WatchStates, WatchTo, WatchesOK
  <2>2. AcceptOK' /\ MapsOK' /\ SlotsOK' /\ SignalsOK' /\ EndersOK' /\ PollsOK' /\ CancelsOK' /\
      SweepOK'
    BY <1>1, <1>4, Frames DEF WatchProbeAbsent, WatchTo
  <2> QED BY <2>1, <2>2 DEF TypeOK
<1>5. CASE WatchProbeSeen(w)
  <2>1. WatchesOK'
    <3>1. PICK to \in {"watching", "resolving"} : WatchTo(w, to)
      BY <1>5 DEF WatchProbeSeen
    <3>2. UNCHANGED <<entry, owner, doomed, signalling, watchTok, alive, visible, unread>>
      BY <1>5, <3>1 DEF WatchTo, WatchProbeSeen
    <3>3. watch' = [watch EXCEPT ![w] = to] /\ to \in WatchStates /\ to # "taking"
      BY <3>1 DEF WatchTo, WatchStates
    <3> QED BY <1>1, <3>2, <3>3 DEF WatchesOK
  <2>2. AcceptOK' /\ MapsOK' /\ SlotsOK' /\ SignalsOK' /\ EndersOK' /\ PollsOK' /\ CancelsOK' /\
      SweepOK'
    BY <1>1, <1>5, Frames DEF WatchProbeSeen, WatchTo
  <2> QED BY <2>1, <2>2 DEF TypeOK
<1>6. CASE ForgetSender(w)
  <2>1. WatchesOK'
    BY <1>1, <1>6, ActionEngineAssumptions
    DEF ForgetSender, AtAwait, WatchStates, WatchesOK
  <2>2. AcceptOK' /\ MapsOK' /\ SlotsOK' /\ SignalsOK' /\ EndersOK' /\ PollsOK' /\ CancelsOK' /\
      SweepOK'
    BY <1>1, <1>6, Frames DEF ForgetSender
  <2> QED BY <2>1, <2>2 DEF TypeOK
<1>7. CASE \E g \in Goals : SignalSenderGone(w, g)
  <2>1. SignalsOK'
    BY <1>1, <1>7, ActionEngineAssumptions
    DEF SignalSenderGone, SignalCancel, SignalsOK
  <2>2. WatchesOK'
    BY SMTT(30), <1>1, <1>7, ActionEngineAssumptions
    DEF SignalSenderGone, AtAwait, WatchStates, WatchesOK
  <2>3. AcceptOK' /\ MapsOK' /\ SlotsOK' /\ EndersOK' /\ PollsOK' /\ CancelsOK' /\ SweepOK'
    BY <1>1, <1>7, Frames DEF SignalSenderGone
  <2> QED BY <2>1, <2>2, <2>3 DEF TypeOK
<1>8. CASE SenderGoneTakes(w)
  <2>1. SignalsOK'
    BY <1>1, <1>8, ActionEngineAssumptions
    DEF SenderGoneTakes, SignalsOK, TakeLinked, WatchesOK
  <2>2. WatchesOK'
    BY <1>1, <1>8, ActionEngineAssumptions
    DEF SenderGoneTakes, AtAwait, SignalsOK, WatchStates, WatchesOK
  <2>3. AcceptOK' /\ MapsOK' /\ SlotsOK' /\ EndersOK' /\ PollsOK' /\ CancelsOK' /\ SweepOK'
    BY <1>1, <1>8, Frames DEF SenderGoneTakes
  <2> QED BY <2>1, <2>2, <2>3 DEF TypeOK
<1>9. CASE SenderGoneTokens(w)
  <2>1. SignalsOK'
    BY <1>1, <1>9, ActionEngineAssumptions
    DEF SenderGoneTokens, SignalsOK, WatchesOK
  <2>2. WatchesOK'
    BY <1>1, <1>9, ActionEngineAssumptions
    DEF SenderGoneTokens, AtAwait, WatchStates, WatchesOK
  <2>3. AcceptOK' /\ MapsOK' /\ SlotsOK' /\ EndersOK' /\ PollsOK' /\ CancelsOK' /\ SweepOK'
    BY <1>1, <1>9, Frames DEF SenderGoneTokens
  <2> QED BY <2>1, <2>2, <2>3 DEF TypeOK
<1>10. CASE WatchEnds(w)
  <2>1. WatchesOK'
    BY <1>1, <1>10, ActionEngineAssumptions
    DEF WatchEnds, AtAwait, WatchStates, WatchTo, WatchesOK
  <2>2. AcceptOK' /\ MapsOK' /\ SlotsOK' /\ SignalsOK' /\ EndersOK' /\ PollsOK' /\ CancelsOK' /\
      SweepOK'
    BY <1>1, <1>10, Frames DEF WatchEnds, WatchTo
  <2> QED BY <2>1, <2>2 DEF TypeOK
<1>11. CASE WatchFails(w)
  <2>1. WatchesOK'
    BY <1>1, <1>11, ActionEngineAssumptions
    DEF WatchFails, AtAwait, WatchStates, WatchesOK
  <2>2. AcceptOK' /\ MapsOK' /\ SlotsOK' /\ SignalsOK' /\ EndersOK' /\ PollsOK' /\ CancelsOK' /\
      SweepOK'
    BY <1>1, <1>11, Frames DEF WatchFails
  <2> QED BY <2>1, <2>2 DEF TypeOK
<1> QED BY <1>2, <1>3, <1>4, <1>5, <1>6, <1>7, <1>8, <1>9, <1>10, <1>11 DEF WatchTaskStep

\* The drop of the engine, the timers and the presence of senders keep the types.
LEMMA EnvTypes ==
  ASSUME TypeOK, EngineDrop \/ TimeStep \/ PresenceStep
  PROVE  TypeOK'
<1>1. AcceptOK /\ MapsOK /\ SlotsOK /\ SignalsOK /\ EndersOK /\ PollsOK /\ CancelsOK
      /\ SweepOK /\ WatchesOK
  BY DEF TypeOK
<1>2. CASE EngineDrop
  <2>1. AcceptOK'
    BY <1>1, <1>2, ActionEngineAssumptions
    DEF EngineDrop, AcceptOK, Phases
  <2>2. WatchesOK'
    BY <1>1, <1>2, ActionEngineAssumptions
    DEF EngineDrop, AtAwait, WatchStates, WatchesOK
  <2>3. MapsOK' /\ SlotsOK' /\ SignalsOK' /\ EndersOK' /\ PollsOK' /\ CancelsOK' /\ SweepOK'
    BY <1>1, <1>2, Frames DEF EngineDrop
  <2> QED BY <2>1, <2>2, <2>3 DEF TypeOK
<1>3. CASE \E g \in Goals : RetentionPasses(g)
  <2>1. SlotsOK'
    BY <1>1, <1>3, ActionEngineAssumptions
    DEF RetentionPasses, SlotsOK
  <2>2. AcceptOK' /\ MapsOK' /\ SignalsOK' /\ EndersOK' /\ PollsOK' /\ CancelsOK' /\ SweepOK' /\
      WatchesOK'
    BY <1>1, <1>3, Frames DEF RetentionPasses
  <2> QED BY <2>1, <2>2 DEF TypeOK
<1>4. CASE \E p \in Polls : ParkDeadlinePasses(p)
  <2>1. MapsOK'
    BY <1>1, <1>4, ActionEngineAssumptions
    DEF ParkDeadlinePasses, EarlyKeys, MapsOK
  <2>2. AcceptOK' /\ SlotsOK' /\ SignalsOK' /\ EndersOK' /\ PollsOK' /\ CancelsOK' /\ SweepOK'
      /\ WatchesOK'
    BY <1>1, <1>4, Frames DEF ParkDeadlinePasses
  <2> QED BY <2>1, <2>2 DEF TypeOK
<1>5. CASE \E key \in early : EarlyCancelAges(key)
  <2>1. MapsOK'
    BY <1>1, <1>5, ActionEngineAssumptions
    DEF EarlyCancelAges, EarlyKeys, MapsOK
  <2>2. AcceptOK' /\ SlotsOK' /\ SignalsOK' /\ EndersOK' /\ PollsOK' /\ CancelsOK' /\ SweepOK'
      /\ WatchesOK'
    BY <1>1, <1>5, Frames DEF EarlyCancelAges
  <2> QED BY <2>1, <2>2 DEF TypeOK
<1>6. CASE \E s \in Senders : SenderDies(s)
  <2>1. WatchesOK'
    BY <1>1, <1>6, ActionEngineAssumptions
    DEF SenderDies, AtAwait, TokenGone, WatchStates, WatchesOK
  <2>2. AcceptOK' /\ MapsOK' /\ SlotsOK' /\ SignalsOK' /\ EndersOK' /\ PollsOK' /\ CancelsOK' /\
      SweepOK'
    BY <1>1, <1>6, Frames DEF SenderDies, TokenGone
  <2> QED BY <2>1, <2>2 DEF TypeOK
<1>7. CASE \E s \in Senders : TokenHidden(s)
  <2>1. WatchesOK'
    BY <1>1, <1>7, ActionEngineAssumptions
    DEF TokenHidden, AtAwait, TokenGone, WatchStates, WatchesOK
  <2>2. AcceptOK' /\ MapsOK' /\ SlotsOK' /\ SignalsOK' /\ EndersOK' /\ PollsOK' /\ CancelsOK' /\
      SweepOK'
    BY <1>1, <1>7, Frames DEF TokenHidden, TokenGone
  <2> QED BY <2>1, <2>2 DEF TypeOK
<1>8. CASE \E s \in Senders : TokenBack(s)
  <2>1. WatchesOK'
    BY <1>1, <1>8, ActionEngineAssumptions
    DEF TokenBack, AtAwait, WatchStates, WatchesOK
  <2>2. AcceptOK' /\ MapsOK' /\ SlotsOK' /\ SignalsOK' /\ EndersOK' /\ PollsOK' /\ CancelsOK' /\
      SweepOK'
    BY <1>1, <1>8, Frames DEF TokenBack
  <2> QED BY <2>1, <2>2 DEF TypeOK
<1> QED BY <1>2, <1>3, <1>4, <1>5, <1>6, <1>7, <1>8 DEF TimeStep, PresenceStep
\* A step of the engine or of its environment keeps the types.
LEMMA NextTypes == TypeOK /\ [Next]_vars => TypeOK'
<1> SUFFICES ASSUME TypeOK, [Next]_vars
             PROVE  TypeOK'
  OBVIOUS
<1>1. CASE UNCHANGED vars
  BY <1>1, Frames DEF TypeOK, vars
<1>2. CASE Next
  BY <1>2, AcceptTypes, EnderTypes, ResultTypes, CancelTypes, SweepTypes, WatchTypes, EnvTypes
  DEF Next
<1> QED BY <1>1, <1>2

\* The engine starts well typed.
LEMMA InitTypes == Init => TypeOK
<1> SUFFICES ASSUME Init
             PROVE  TypeOK
  OBVIOUS
<1>1. AcceptOK
  BY DEF Init, AcceptOK, Phases
<1>2. MapsOK
  BY DEF Init, MapsOK
<1>3. SlotsOK
  BY DEF Init, SlotsOK
<1>4. SignalsOK
  BY DEF Init, SignalsOK
<1>5. EndersOK
  BY DEF Init, EndersOK, EnderTable, EnderStates
<1>6. PollsOK
  BY DEF Init, PollsOK, PollStates
<1>7. CancelsOK
  BY DEF Init, CancelsOK, CancelStates
<1>8. SweepOK
  BY DEF Init, SweepOK
<1>9. WatchesOK
  BY DEF Init, WatchesOK, WatchStates
<1> QED BY <1>1, <1>2, <1>3, <1>4, <1>5, <1>6, <1>7, <1>8, <1>9 DEF TypeOK

\* Type correctness: every variable of the engine keeps its type, and a loop that
\* works on a request holds one.
THEOREM TypeCorrect == Spec => []TypeOK
BY InitTypes, NextTypes, PTL DEF Spec

-----------------------------------------------------------------------------
(***************************************************************************)
(* Polls and cancels that arrive before their goal is registered           *)
(***************************************************************************)

\* While the result loop holds the lock of pending_waiters after its second look,
\* accept cannot have passed its adoption of the goal.
LockedPollEarly ==
  (resPc = "locked") => \/ PollOf[resPoll] \notin registry
                        \/ phase[PollOf[resPoll]] \in {"registered", "cancel_checked"}

EarlyInv == NoOrphanPoll /\ NoOrphanCancel /\ LockedPollEarly

earlyVars == <<phase, registry, pending, early, resPc, resPoll>>

LEMMA EarlyInvFrame == EarlyInv /\ UNCHANGED earlyVars => EarlyInv'
BY DEF EarlyInv, NoOrphanPoll, NoOrphanCancel, LockedPollEarly, earlyVars

\* Every step keeps a poll or a cancel that beat accept within reach of accept.
LEMMA NextEarly == TypeOK /\ EarlyInv /\ [Next]_vars => EarlyInv'
<1> SUFFICES ASSUME TypeOK, EarlyInv, [Next]_vars
             PROVE  EarlyInv'
  OBVIOUS
<1> USE ActionEngineAssumptions
<1>1. /\ phase \in [Goals -> Phases]
      /\ registry \subseteq Goals /\ pending \in [Goals -> SUBSET Polls]
      /\ resPoll \in Polls \cup {NoPoll} /\ ((resPc # "recv") => (resPoll \in Polls))
      /\ canReq \in Cancels \cup {NoCancel} /\ ((canPc # "recv") => (canReq \in Cancels))
  BY DEF TypeOK, AcceptOK, MapsOK, PollsOK, CancelsOK
<1>2. CASE UNCHANGED vars
  BY <1>2, EarlyInvFrame DEF vars, earlyVars, acceptVars, mapVars, resultVars
<1> USE DEF EarlyInv, NoOrphanPoll, NoOrphanCancel, LockedPollEarly, PastAdoption, PastEarlyCheck
<1>3. ASSUME NEW g \in Goals, RecvNextGoal(g) \/ Refuse(g) \/ AcceptStep(g)
      PROVE  EarlyInv'
  <2>1. CASE RecvNextGoal(g)
    BY <1>1, <2>1 DEF RecvNextGoal, mapVars, resultVars
  <2>2. CASE Refuse(g)
    BY <1>1, <2>2 DEF Refuse, mapVars, resultVars
  <2>3. CASE AcceptRegister(g)
    BY <1>1, <2>3 DEF AcceptRegister, resultVars
  <2>4. CASE AcceptEarlyCancel(g)
    BY <1>1, <2>4 DEF AcceptEarlyCancel, resultVars
  <2>5. CASE AcceptAdopt(g)
    BY <1>1, <2>5 DEF AcceptAdopt, resultVars
  <2>6. CASE AcceptExtend(g)
    BY <1>1, <2>6 DEF AcceptExtend, mapVars, resultVars
  <2>7. CASE AcceptReply(g)
    BY <1>1, <2>7 DEF AcceptReply, mapVars, resultVars
  <2>8. CASE AcceptReplyFails(g)
    BY <1>1, <2>8 DEF AcceptReplyFails
  <2>9. CASE TrackSenderGoal(g)
    BY <1>1, <2>9 DEF TrackSenderGoal, mapVars, resultVars
  <2> QED BY <1>3, <2>1, <2>2, <2>3, <2>4, <2>5, <2>6, <2>7, <2>8, <2>9 DEF AcceptStep
<1>4. ASSUME NEW g \in Goals, EnderStep(g) \/ WorkerStep(g)
      PROVE  EarlyInv'
  <2>1. CASE ContextDrop(g)
    BY <1>1, <2>1 DEF ContextDrop, mapVars, resultVars
  <2>2. CASE ~ContextDrop(g)
    <3>1. UNCHANGED earlyVars
      BY <1>4, <2>2 DEF EnderStep, WorkerStep, AbandonSwap, Deliver, Swap, ReplaceState, WakeWaiter,
         PublishEnd, DeliverDropped, Link, Unlink, earlyVars, acceptVars, mapVars, resultVars
    <3> QED BY <3>1, EarlyInvFrame
  <2> QED BY <2>1, <2>2
<1>5. CASE (\E p \in Polls : RecvResultPoll(p)) \/ ResultStep \/ ResultLoopAborted
  <2>1. CASE \E p \in Polls : RecvResultPoll(p)
    BY <1>1, <2>1 DEF RecvResultPoll, acceptVars, mapVars
  <2>2. CASE RelookUnderLock
    BY <1>1, <2>2 DEF RelookUnderLock, acceptVars, mapVars
  <2>3. CASE RouteUnderLock
    BY <1>1, <2>3 DEF RouteUnderLock, acceptVars
  <2>4. CASE ActOnSlot
    BY <1>1, <2>4 DEF ActOnSlot, acceptVars, mapVars
  <2>5. CASE ResultLoopAborted
    BY <1>1, <2>5 DEF ResultLoopAborted, acceptVars, mapVars
  <2> QED BY <1>5, <2>1, <2>2, <2>3, <2>4, <2>5 DEF ResultStep
<1>6. CASE (\E c \in Cancels : RecvCancel(c)) \/ CancelStep
  <2>1. CASE RememberEarlyCancel
    BY <1>1, <2>1 DEF RememberEarlyCancel, acceptVars, resultVars
  <2>2. CASE ~RememberEarlyCancel
    <3>1. UNCHANGED earlyVars
      BY <1>6, <2>2 DEF CancelStep, RecvCancel, CancelLookTombstone, CancelSlot, CancelTakes,
         CancelTokens, earlyVars, acceptVars, mapVars, resultVars
    <3> QED BY <3>1, EarlyInvFrame
  <2> QED BY <2>1, <2>2
<1>7. CASE SweepStep
  <2>1. CASE SweepEvict
    BY <1>1, <2>1 DEF SweepEvict, acceptVars, resultVars
  <2>2. CASE SweepPolls
    BY <1>1, <2>2 DEF SweepPolls, acceptVars
  <2>3. CASE SweepEarlyCancels
    BY <1>1, <2>3 DEF SweepEarlyCancels, acceptVars, resultVars
  <2>4. CASE SweepLockTombs \/ EndIdleSenderWatches \/ \E g \in Goals : SweepTombstone(g)
    <3>1. UNCHANGED earlyVars
      BY <2>4 DEF SweepLockTombs, EndIdleSenderWatches, SweepTombstone, earlyVars, acceptVars,
         mapVars, resultVars
    <3> QED BY <3>1, EarlyInvFrame
  <2> QED BY <1>7, <2>1, <2>2, <2>3, <2>4 DEF SweepStep
<1>8. ASSUME NEW w \in Goals, WatchTaskStep(w) \/ WatchFails(w)
      PROVE  EarlyInv'
  <2>1. UNCHANGED earlyVars
    BY <1>8 DEF WatchTaskStep, WatchFails, WatchResolve, WatchReadGone, WatchProbeAbsent,
       WatchProbeSeen, WatchTo, ForgetSender, SignalSenderGone, SenderGoneTakes, SenderGoneTokens,
       WatchEnds, earlyVars, acceptVars, mapVars, resultVars
  <2> QED BY <2>1, EarlyInvFrame
<1>9. CASE EngineDrop \/ TimeStep \/ PresenceStep
  <2>1. UNCHANGED earlyVars
    BY <1>9 DEF EngineDrop, TimeStep, PresenceStep, RetentionPasses, ParkDeadlinePasses,
       EarlyCancelAges, SenderDies, TokenHidden, TokenBack, TokenGone, earlyVars, acceptVars,
       mapVars, resultVars
  <2> QED BY <2>1, EarlyInvFrame
<1> QED BY <1>2, <1>3, <1>4, <1>5, <1>6, <1>7, <1>8, <1>9 DEF Next

LEMMA InitEarly == Init => EarlyInv
BY DEF Init, EarlyInv, NoOrphanPoll, NoOrphanCancel, LockedPollEarly

LEMMA EarlyInvariant == Spec => []EarlyInv
BY InitTypes, NextTypes, InitEarly, NextEarly, PTL DEF Spec

\* No poll is orphaned: one that beat accept is adopted by it or finds the slot,
\* because route_result_poll reads the registry again under the lock that the
\* adoption takes.
THEOREM PollsNotOrphaned == Spec => []NoOrphanPoll
BY EarlyInvariant, PTL DEF EarlyInv

\* No cancel is orphaned: one of the sender that beat accept is found by accept,
\* or finds the slot.
THEOREM CancelsNotOrphaned == Spec => []NoOrphanCancel
BY EarlyInvariant, PTL DEF EarlyInv

-----------------------------------------------------------------------------
(***************************************************************************)
(* The first end of a goal wins                                            *)
(***************************************************************************)

Winning == {"swapped", "waking"}

\* What the atomic flag guards: before it is set nobody ends the goal; after it,
\* one call at most does, it finds no outcome, and no stream is closed before it.
EndInv ==
  \A g \in Goals :
    /\ (g \notin terminal) => /\ outcome[g] = NoOutcome /\ ends[g] = 0
                              /\ \A e \in Enders \cup {Abandon} : ender[g][e] \notin Winning
    /\ \A e \in Enders \cup {Abandon} :
         /\ (ender[g][e] = "swapped") => (outcome[g] = NoOutcome)
         /\ (ender[g][e] \in Winning) => (ends[g] = 0)
         /\ \A f \in Enders \cup {Abandon} :
              (ender[g][e] \in Winning /\ ender[g][f] \in Winning) => (e = f)
    /\ ends[g] <= 1

endVars == <<terminal, outcome, ender, ends>>

LEMMA EndInvFrame == EndInv /\ UNCHANGED endVars => EndInv'
BY DEF EndInv, endVars

\* How a step of a call changes the table of the calls.
LEMMA EnderAt ==
  ASSUME NEW t \in EnderTable, NEW g \in Goals, NEW e \in Enders \cup {Abandon},
         NEW x \in EnderStates, NEW h \in Goals, NEW f \in Enders \cup {Abandon}
  PROVE  [t EXCEPT ![g][e] = x][h][f] = IF h = g /\ f = e THEN x ELSE t[h][f]
BY DEF EnderTable

\* Only the steps that end a goal touch what EndInv reads.
LEMMA EndFootprint ==
  ASSUME [Next]_vars, \A g \in Goals : ~EnderStep(g) /\ ~WorkerStep(g)
  PROVE  UNCHANGED endVars
<1> USE DEF endVars, stateVars, enderVars
<1>1. CASE UNCHANGED vars
  BY <1>1 DEF vars
<1>2. ASSUME NEW g \in Goals, RecvNextGoal(g) \/ Refuse(g) \/ AcceptStep(g)
      PROVE  UNCHANGED endVars
  BY <1>2 DEF AcceptStep, RecvNextGoal, Refuse, AcceptRegister, AcceptEarlyCancel, AcceptAdopt,
     AcceptExtend, AcceptReply, AcceptReplyFails, TrackSenderGoal
<1>3. CASE (\E p \in Polls : RecvResultPoll(p)) \/ ResultStep \/ ResultLoopAborted
  BY <1>3 DEF ResultStep, RecvResultPoll, RelookUnderLock, RouteUnderLock, ActOnSlot,
     ResultLoopAborted
<1>4. CASE (\E c \in Cancels : RecvCancel(c)) \/ CancelStep
  BY <1>4 DEF CancelStep, RecvCancel, CancelLookTombstone, RememberEarlyCancel, CancelSlot,
     CancelTakes, CancelTokens
<1>5. CASE SweepStep
  BY <1>5 DEF SweepStep, SweepEvict, SweepLockTombs, SweepTombstone, SweepPolls,
     EndIdleSenderWatches, SweepEarlyCancels
<1>6. ASSUME NEW w \in Goals, WatchTaskStep(w) \/ WatchFails(w)
      PROVE  UNCHANGED endVars
  BY <1>6 DEF WatchTaskStep, WatchFails, WatchResolve, WatchReadGone, WatchProbeAbsent,
     WatchProbeSeen, WatchTo, ForgetSender, SignalSenderGone, SenderGoneTakes, SenderGoneTokens,
     WatchEnds
<1>7. CASE EngineDrop \/ TimeStep \/ PresenceStep
  BY <1>7 DEF EngineDrop, TimeStep, PresenceStep, RetentionPasses, ParkDeadlinePasses,
     EarlyCancelAges, SenderDies, TokenHidden, TokenBack, TokenGone
<1> QED BY <1>1, <1>2, <1>3, <1>4, <1>5, <1>6, <1>7 DEF Next

\* Every step keeps EndInv, and no step changes an outcome that is there.
LEMMA NextEnd ==
  ASSUME TypeOK, EndInv, [Next]_vars
  PROVE  /\ EndInv'
         /\ \A g \in Goals : (outcome[g] # NoOutcome) => (outcome'[g] = outcome[g])
<1>1. /\ ender \in EnderTable /\ outcome \in [Goals -> Outcomes \cup {NoOutcome}]
      /\ ends \in [Goals -> Nat] /\ terminal \subseteq Goals
  BY DEF TypeOK, EndersOK, SlotsOK
<1> DEFINE Kept == \A g \in Goals : (outcome[g] # NoOutcome) => (outcome'[g] = outcome[g])
<1>2. ASSUME NEW g \in Goals, NEW e \in Enders \cup {Abandon}, NEW o, Swap(g, e, o)
      PROVE  EndInv' /\ Kept
  <2>1. CASE g \in terminal
    <3>1. ender' = [ender EXCEPT ![g][e] = "done"] /\ UNCHANGED <<terminal, outcome, ends>>
      BY <1>2, <2>1 DEF Swap
    <3>2. \A h \in Goals, f \in Enders \cup {Abandon} :
            ender'[h][f] = IF h = g /\ f = e THEN "done" ELSE ender[h][f]
      BY <1>1, <3>1, EnderAt DEF EnderStates
    <3> QED BY <1>1, <2>1, <3>1, <3>2 DEF EndInv, Winning
  <2>2. CASE g \notin terminal
    <3>1. /\ ender' = [ender EXCEPT ![g][e] = "swapped"] /\ UNCHANGED <<outcome, ends>>
          /\ terminal' = terminal \cup {g}
      BY <1>2, <2>2 DEF Swap
    <3>2. \A h \in Goals, f \in Enders \cup {Abandon} :
            ender'[h][f] = IF h = g /\ f = e THEN "swapped" ELSE ender[h][f]
      BY <1>1, <3>1, EnderAt DEF EnderStates
    <3> QED BY <1>1, <2>2, <3>1, <3>2 DEF EndInv, Winning
  <2> QED BY <2>1, <2>2
<1>3. ASSUME NEW g \in Goals, NEW e \in Enders \cup {Abandon}, ReplaceState(g, e)
      PROVE  EndInv' /\ Kept
  <2>1. /\ ender[g][e] = "swapped" /\ ender' = [ender EXCEPT ![g][e] = "waking"]
        /\ outcome' = [outcome EXCEPT ![g] = ending[g]] /\ UNCHANGED <<terminal, ends>>
    BY <1>3 DEF ReplaceState
  <2>2. \A h \in Goals, f \in Enders \cup {Abandon} :
          ender'[h][f] = IF h = g /\ f = e THEN "waking" ELSE ender[h][f]
    BY <1>1, <2>1, EnderAt DEF EnderStates
  <2> QED BY <1>1, <2>1, <2>2 DEF EndInv, Winning
<1>4. ASSUME NEW g \in Goals, NEW e \in Enders \cup {Abandon}, PublishEnd(g, e)
      PROVE  EndInv' /\ Kept
  <2>1. /\ ender[g][e] = "waking" /\ ender' = [ender EXCEPT ![g][e] = "done"]
        /\ ends' = [ends EXCEPT ![g] = @ + 1] /\ UNCHANGED <<terminal, outcome>>
    BY <1>4 DEF PublishEnd, stateVars
  <2>2. \A h \in Goals, f \in Enders \cup {Abandon} :
          ender'[h][f] = IF h = g /\ f = e THEN "done" ELSE ender[h][f]
    BY <1>1, <2>1, EnderAt DEF EnderStates
  <2> QED BY <1>1, <2>1, <2>2 DEF EndInv, Winning
<1>5. ASSUME NEW g \in Goals, NEW e \in Enders, DeliverDropped(g, e)
      PROVE  EndInv' /\ Kept
  <2>1. ender' = [ender EXCEPT ![g][e] = "done"] /\ UNCHANGED <<terminal, outcome, ends>>
    BY <1>5 DEF DeliverDropped, stateVars
  <2>2. \A h \in Goals, f \in Enders \cup {Abandon} :
          ender'[h][f] = IF h = g /\ f = e THEN "done" ELSE ender[h][f]
    BY <1>1, <2>1, EnderAt DEF EnderStates
  <2> QED BY <1>1, <2>1, <2>2 DEF EndInv, Winning
<1>6. ASSUME NEW g \in Goals, ContextDrop(g)
      PROVE  EndInv' /\ Kept
  <2>1. CASE g \in terminal
    BY <1>6, <2>1, EndInvFrame DEF ContextDrop, stateVars, endVars
  <2>2. CASE g \notin terminal
    <3>1. /\ ender' = [ender EXCEPT ![g][Abandon] = "spawned"]
          /\ UNCHANGED <<terminal, outcome, ends>>
      BY <1>6, <2>2 DEF ContextDrop, stateVars
    <3>2. \A h \in Goals, f \in Enders \cup {Abandon} :
            ender'[h][f] = IF h = g /\ f = Abandon THEN "spawned" ELSE ender[h][f]
      BY <1>1, <3>1, EnderAt DEF EnderStates
    <3> QED BY <1>1, <3>1, <3>2 DEF EndInv, Winning
  <2> QED BY <2>1, <2>2
<1>7. ASSUME NEW g \in Goals, EnderStep(g) \/ WorkerStep(g)
      PROVE  EndInv' /\ Kept
  <2>1. CASE \E l \in Links : Link(g, l) \/ Unlink(g, l)
    BY <2>1, EndInvFrame DEF Link, Unlink, stateVars, enderVars, endVars
  <2>2. CASE \E e \in Enders \cup {Abandon}, p \in Polls : WakeWaiter(g, e, p)
    BY <2>2, EndInvFrame DEF WakeWaiter, stateVars, endVars
  <2>3. CASE AbandonSwap(g)
    BY <2>3, <1>2 DEF AbandonSwap
  <2>4. CASE \E e \in Enders, o \in Results : Deliver(g, e, o)
    BY <2>4, <1>2 DEF Deliver
  <2> QED BY <1>3, <1>4, <1>5, <1>6, <1>7, <2>1, <2>2, <2>3, <2>4 DEF EnderStep, WorkerStep
<1>8. CASE \A g \in Goals : ~EnderStep(g) /\ ~WorkerStep(g)
  BY <1>8, EndFootprint, EndInvFrame DEF endVars
<1> QED BY <1>7, <1>8

LEMMA InitEnd == Init => EndInv
BY DEF Init, EndInv, Winning

LEMMA EndInvariant == Spec => []EndInv
<1>1. TypeOK /\ EndInv /\ [Next]_vars => EndInv'
  BY NextEnd
<1> QED BY <1>1, InitTypes, NextTypes, InitEnd, PTL DEF Spec

\* The first end wins: whatever calls of complete, fail, complete_cancelled and
\* abandon race, an outcome never changes and the stream is closed at most once.
THEOREM FirstEndAlwaysWins == Spec => FirstEndWins
<1>1. TypeOK /\ EndInv /\ [Next]_vars => [EndStays]_vars
  BY NextEnd DEF EndInv, EndStays
<1> QED BY <1>1, TypeCorrect, EndInvariant, PTL DEF Spec, FirstEndWins

-----------------------------------------------------------------------------
(***************************************************************************)
(* What the answer to a cancel request says                                *)
(***************************************************************************)

\* c asked, for the sender of g, to cancel g: the engine answered it or has it.
Asked(c) == reply[c] # "none" \/ (canPc # "recv" /\ canReq = c)

\* A tombstone, an eviction in progress and a terminal slot all follow the flag;
\* the cancel loop is past the signal when it takes tokens; a remembered cancel
\* and a caller's cause come from a request of that caller.
CancelInv ==
  /\ CancelReplyTrue
  /\ (canPc \in {"take", "tokens"}) => (CancelOf[canReq] \in cancelled)
  /\ Range(tombs) \cup expired \subseteq terminal
  /\ \A g \in Goals : (state[g] = "terminal") => (g \in terminal)
  /\ \A key \in early : \E c \in Cancels :
       CancelOf[c] = key[1] /\ VerifiedCaller(CancelBy[c]) = key[2] /\ Asked(c)
  /\ \A g \in Goals : (cause[g] = "caller") =>
       \E c \in Cancels : CancelOf[c] = g /\ VerifiedCaller(CancelBy[c]) = SlotOwner(g) /\ Asked(c)

cancelInvVars == <<reply, canPc, canReq, tombs, expired, terminal, state, early, cause, cancelled>>

LEMMA CancelInvFrame == CancelInv /\ UNCHANGED cancelInvVars => CancelInv'
BY DEF CancelInv, CancelReplyTrue, cancelInvVars, Asked, Range

\* The tombstones hold nothing but the goals inserted.
LEMMA TombsInsertRange ==
  ASSUME NEW t \in Seq(Goals), NEW g \in Goals
  PROVE  Range(TombsInsert(t, g)) \subseteq Range(t) \cup {g}
<1>1. Range(Append(t, g)) \subseteq Range(t) \cup {g}
  BY DEF Range
<1>2. CASE Len(t) >= EXPIRED_TOMBSTONE_CAP
  <2> DEFINE m == Len(t) - EXPIRED_TOMBSTONE_CAP + 2
             u == SubSeq(t, m, Len(t))
  <2>1. m \in Nat /\ m >= 2 /\ Len(t) \in Nat
    BY <1>2, ActionEngineAssumptions DEF ActionEngineAssumptions
  <2>2. u \in Seq(Goals) /\ Range(u) \subseteq Range(t)
    <3> HIDE DEF m
    <3>1. \A i \in DOMAIN u : u[i] = t[m + i - 1] /\ m + i - 1 \in DOMAIN t
      BY <2>1
    <3>2. u \in Seq(Goals)
      BY <2>1
    <3> QED BY <3>1, <3>2 DEF Range
  <2>3. Range(Append(u, g)) \subseteq Range(u) \cup {g}
    <3> HIDE DEF u
    <3> QED BY <2>2 DEF Range
  <2>4. TombsInsert(t, g) = t \/ TombsInsert(t, g) = Append(u, g)
    BY <1>2 DEF TombsInsert
  <2> QED BY <2>2, <2>3, <2>4
<1>3. CASE ~(Len(t) >= EXPIRED_TOMBSTONE_CAP)
  BY <1>1, <1>3 DEF TombsInsert
<1> QED BY <1>2, <1>3

\* A reply names its state, and leaves the replies of the other requests.
LEMMA Replies ==
  ASSUME reply \in [Cancels -> CancelStates], canReq \in Cancels, NEW r, CancelReplied(r)
  PROVE  \A c \in Cancels : reply'[c] = IF c = canReq THEN r ELSE reply[c]
BY DEF CancelReplied

\* A request that was asked stays asked when the loop answers one.
LEMMA RepliedOnce ==
  ASSUME reply \in [Cancels -> CancelStates], canReq \in Cancels,
         NEW r \in CancelStates \ {"none"}, CancelReplied(r)
  PROVE  \A c \in Cancels : (c = canReq \/ Asked(c)) => Asked(c)'
BY Replies DEF CancelReplied, Asked, CancelStates

\* Every step keeps CancelInv.
LEMMA NextCancel == TypeOK /\ EndInv /\ CancelInv /\ [Next]_vars => CancelInv'
<1> SUFFICES ASSUME TypeOK, EndInv, CancelInv, [Next]_vars
             PROVE  CancelInv'
  OBVIOUS
<1> USE ActionEngineAssumptions
<1>1. /\ tombs \in Seq(Goals) /\ expired \subseteq Goals /\ registry \subseteq Goals
      /\ terminal \subseteq Goals /\ cancelled \subseteq Goals /\ early \subseteq EarlyKeys
      /\ state \in [Goals -> {"none", "pending", "terminal"}]
      /\ cause \in [Goals -> {"none", "caller", "sender_gone"}]
      /\ reply \in [Cancels -> CancelStates] /\ ender \in EnderTable
      /\ canReq \in Cancels \cup {NoCancel} /\ ((canPc # "recv") => (canReq \in Cancels))
  BY DEF TypeOK, MapsOK, SlotsOK, SignalsOK, EndersOK, CancelsOK, SweepOK
<1>2. CASE UNCHANGED vars
  BY <1>2, CancelInvFrame DEF vars, cancelInvVars, cancelVars, mapVars, stateVars, signalVars,
     sweepVars
<1>3. ASSUME NEW g \in Goals, RecvNextGoal(g) \/ Refuse(g) \/ AcceptStep(g)
      PROVE  CancelInv'
  <2>1. CASE AcceptRegister(g)
    BY <1>1, <2>1 DEF AcceptRegister, CancelInv, CancelReplyTrue, Asked, Range, signalVars,
       cancelVars, sweepVars
  <2>2. CASE AcceptEarlyCancel(g)
    <3>1. UNCHANGED <<reply, canPc, canReq, tombs, expired, terminal, state>>
      BY <2>2 DEF AcceptEarlyCancel, stateVars, cancelVars, sweepVars
    <3>2. CASE <<g, SlotOwner(g)>> \in early
      BY <1>1, <2>2, <3>1, <3>2 DEF AcceptEarlyCancel, CancelInv, CancelReplyTrue, Asked, Range
    <3>3. CASE <<g, SlotOwner(g)>> \notin early
      BY <2>2, <3>1, <3>3, CancelInvFrame DEF AcceptEarlyCancel, cancelInvVars
    <3> QED BY <3>2, <3>3
  <2>3. CASE AcceptReplyFails(g)
    BY <1>1, <2>3 DEF AcceptReplyFails, CancelInv, CancelReplyTrue, Asked, Range, signalVars,
       cancelVars, sweepVars
  <2>4. CASE ~AcceptRegister(g) /\ ~AcceptEarlyCancel(g) /\ ~AcceptReplyFails(g)
    <3>1. UNCHANGED cancelInvVars
      BY <1>3, <2>4 DEF AcceptStep, RecvNextGoal, Refuse, AcceptAdopt, AcceptExtend, AcceptReply,
         TrackSenderGoal, cancelInvVars, cancelVars, mapVars, stateVars, signalVars, sweepVars
    <3> QED BY <3>1, CancelInvFrame
  <2> QED BY <2>1, <2>2, <2>3, <2>4
<1>4. ASSUME NEW g \in Goals, EnderStep(g) \/ WorkerStep(g)
      PROVE  CancelInv'
  <2>1. /\ terminal \subseteq terminal'
        /\ UNCHANGED <<reply, canPc, canReq, tombs, expired, early, cause, cancelled>>
    BY <1>4 DEF EnderStep, WorkerStep, AbandonSwap, Deliver, Swap, ReplaceState, WakeWaiter,
       PublishEnd, DeliverDropped, ContextDrop, Link, Unlink, cancelVars, mapVars, signalVars,
       sweepVars, stateVars
  <2>2. \A h \in Goals : (state'[h] = "terminal") => (h \in terminal')
    <3>1. CASE \E e \in Enders \cup {Abandon} : ReplaceState(g, e)
      BY <1>1, <3>1 DEF ReplaceState, EndInv, Winning, CancelInv
    <3>2. CASE ~ \E e \in Enders \cup {Abandon} : ReplaceState(g, e)
      <4>1. state' = state
        BY <1>4, <3>2 DEF EnderStep, WorkerStep, AbandonSwap, Deliver, Swap, WakeWaiter,
           PublishEnd, DeliverDropped, ContextDrop, Link, Unlink, stateVars
      <4> QED BY <4>1, <2>1 DEF CancelInv
    <3> QED BY <3>1, <3>2
  <2> QED BY <1>1, <2>1, <2>2 DEF CancelInv, CancelReplyTrue, Asked, Range
<1>5. CASE (\E p \in Polls : RecvResultPoll(p)) \/ ResultStep \/ ResultLoopAborted
  <2>1. UNCHANGED cancelInvVars
    BY <1>5 DEF ResultStep, RecvResultPoll, RelookUnderLock, RouteUnderLock, ActOnSlot,
       ResultLoopAborted, cancelInvVars, cancelVars, mapVars, stateVars, signalVars, sweepVars
  <2> QED BY <2>1, CancelInvFrame
<1>6. CASE (\E c \in Cancels : RecvCancel(c)) \/ CancelStep
  <2> USE DEF CancelInv, CancelReplyTrue
  <2>1. CASE \E c \in Cancels : RecvCancel(c)
    BY <1>1, <2>1 DEF RecvCancel, Asked, mapVars, stateVars, signalVars, sweepVars
  <2>2. CASE CancelLookTombstone
    <3>1. CASE Tombstoned(CancelOf[canReq])
      <4>1. CancelReplied("already_terminal") /\ canReq \in Cancels
        BY <1>1, <2>2, <3>1 DEF CancelLookTombstone
      <4>2. CancelOf[canReq] \in terminal
        BY <3>1 DEF Tombstoned
      <4>3. UNCHANGED <<tombs, expired, terminal, state, early, cause, cancelled>>
        BY <2>2 DEF CancelLookTombstone, mapVars, stateVars, signalVars, sweepVars
      <4>4. \A c \in Cancels : reply'[c] = IF c = canReq THEN "already_terminal" ELSE reply[c]
        BY <1>1, <4>1, Replies
      <4>5. \A c \in Cancels : Asked(c) => Asked(c)'
        BY <1>1, <4>1, RepliedOnce DEF CancelStates
      <4>6. CancelReplyTrue'
        BY <4>2, <4>3, <4>4
      <4>7. canPc' = "recv" /\ Range(tombs') = Range(tombs)
        BY <4>1, <4>3 DEF CancelReplied
      <4> HIDE DEF CancelReplyTrue
      <4> QED BY <4>3, <4>5, <4>6, <4>7
    <3>2. CASE ~Tombstoned(CancelOf[canReq])
      BY <1>1, <2>2, <3>2 DEF CancelLookTombstone, Asked, mapVars, stateVars, signalVars, sweepVars
    <3> QED BY <3>1, <3>2
  <2>3. CASE RememberEarlyCancel
    <3>1. CASE CancelOf[canReq] \in registry
      BY <1>1, <2>3, <3>1 DEF RememberEarlyCancel, Asked, stateVars, signalVars, sweepVars
    <3>2. CASE CancelOf[canReq] \notin registry
      <4>1. CancelReplied("unknown") /\ canReq \in Cancels
        BY <1>1, <2>3, <3>2 DEF RememberEarlyCancel
      <4>2. early' \subseteq early \cup {<<CancelOf[canReq], VerifiedCaller(CancelBy[canReq])>>}
        BY <2>3, <3>2 DEF RememberEarlyCancel
      <4>3. UNCHANGED <<tombs, expired, terminal, state, cause, cancelled>>
        BY <2>3 DEF RememberEarlyCancel, stateVars, signalVars, sweepVars
      <4>4. \A c \in Cancels : (c = canReq \/ Asked(c)) => Asked(c)'
        BY <1>1, <4>1, RepliedOnce DEF CancelStates
      <4>5. \A key \in early' : \E c \in Cancels :
              CancelOf[c] = key[1] /\ VerifiedCaller(CancelBy[c]) = key[2] /\ Asked(c)'
        BY <4>1, <4>2, <4>4
      <4>6. \A g \in Goals : (cause'[g] = "caller") => \E c \in Cancels :
              CancelOf[c] = g /\ VerifiedCaller(CancelBy[c]) = SlotOwner(g) /\ Asked(c)'
        BY <4>3, <4>4
      <4>7. CancelReplyTrue' /\ canPc' = "recv"
        BY <1>1, <4>1, <4>3, Replies DEF CancelReplied
      <4>8. /\ Range(tombs') \cup expired' \subseteq terminal'
            /\ \A g \in Goals : (state'[g] = "terminal") => (g \in terminal')
        BY <4>3
      <4> QED BY <4>5, <4>6, <4>7, <4>8
    <3> QED BY <3>1, <3>2
  <2>4. CASE CancelSlot
    BY <1>1, <2>4 DEF CancelSlot, Asked, CancelReplied, SignalCancel, MayCancel, CancelStates, mapVars,
       stateVars, sweepVars
  <2>5. CASE CancelTakes
    BY <1>1, <2>5 DEF CancelTakes, Asked, mapVars, stateVars, sweepVars
  <2>6. CASE CancelTokens
    BY <1>1, <2>6 DEF CancelTokens, Asked, CancelReplied, CancelStates, mapVars, stateVars, sweepVars
  <2> QED BY <1>6, <2>1, <2>2, <2>3, <2>4, <2>5, <2>6 DEF CancelStep
<1>7. CASE SweepStep
  <2>1. CASE SweepEvict
    BY <1>1, <2>1 DEF SweepEvict, CancelInv, CancelReplyTrue, Asked, Range, cancelVars, stateVars,
       signalVars
  <2>2. CASE \E g \in Goals : SweepTombstone(g)
    <3>1. PICK g \in Goals : SweepTombstone(g)
      BY <2>2
    <3>2. Range(tombs') \cup expired' \subseteq terminal'
      BY <1>1, <3>1, TombsInsertRange DEF SweepTombstone, CancelInv, stateVars
    <3>3. UNCHANGED <<reply, canPc, canReq, terminal, state, early, cause, cancelled>>
      BY <3>1 DEF SweepTombstone, stateVars, cancelVars, signalVars
    <3> QED BY <3>2, <3>3 DEF CancelInv, CancelReplyTrue, Asked
  <2>3. CASE SweepEarlyCancels
    BY <1>1, <2>3 DEF SweepEarlyCancels, CancelInv, CancelReplyTrue, Asked, Range, cancelVars,
       stateVars, signalVars
  <2>4. CASE SweepLockTombs \/ SweepPolls \/ EndIdleSenderWatches
    <3>1. UNCHANGED cancelInvVars
      BY <2>4 DEF SweepLockTombs, SweepPolls, EndIdleSenderWatches, cancelInvVars, cancelVars,
         mapVars, stateVars, signalVars
    <3> QED BY <3>1, CancelInvFrame
  <2> QED BY <1>7, <2>1, <2>2, <2>3, <2>4 DEF SweepStep
<1>8. ASSUME NEW w \in Goals, WatchTaskStep(w) \/ WatchFails(w)
      PROVE  CancelInv'
  <2>1. CASE \E g \in Goals : SignalSenderGone(w, g)
    BY <1>1, <2>1 DEF SignalSenderGone, SignalCancel, CancelInv, CancelReplyTrue, Asked, Range,
       cancelVars, mapVars, stateVars, sweepVars
  <2>2. CASE ~ \E g \in Goals : SignalSenderGone(w, g)
    <3>1. UNCHANGED cancelInvVars
      BY <1>8, <2>2 DEF WatchTaskStep, WatchFails, WatchResolve, WatchReadGone, WatchProbeAbsent,
         WatchProbeSeen, WatchTo, ForgetSender, SenderGoneTakes, SenderGoneTokens, WatchEnds,
         cancelInvVars, cancelVars, mapVars, stateVars, signalVars, sweepVars
    <3> QED BY <3>1, CancelInvFrame
  <2> QED BY <2>1, <2>2
<1>9. CASE EngineDrop \/ TimeStep \/ PresenceStep
  <2>1. UNCHANGED cancelInvVars
    BY <1>9 DEF EngineDrop, TimeStep, PresenceStep, RetentionPasses, ParkDeadlinePasses,
       EarlyCancelAges, SenderDies, TokenHidden, TokenBack, TokenGone, cancelInvVars, cancelVars,
       mapVars, stateVars, signalVars, sweepVars
  <2> QED BY <2>1, CancelInvFrame
<1> QED BY <1>2, <1>3, <1>4, <1>5, <1>6, <1>7, <1>8, <1>9 DEF Next

LEMMA InitCancel == Init => CancelInv
BY DEF Init, CancelInv, CancelReplyTrue, Range

LEMMA CancelInvariant == Spec => []CancelInv
BY InitTypes, NextTypes, EndInvariant, InitCancel, NextCancel, TypeCorrect, PTL DEF Spec

\* The answer of a cancel is true: Signalled means the goal has its signal,
\* AlreadyTerminal that it ended, whatever the accept path, the sweeper and the
\* racing ends did between the lookups of the cancel loop.
THEOREM CancelRepliesTrue == Spec => []CancelReplyTrue
BY CancelInvariant, PTL DEF CancelInv

\* On an endpoint that verifies its callers, only the sender of a goal cancels it,
\* the cancels that accept finds remembered included.
THEOREM OnlyTheOwnerCancels == Spec => []OnlyOwnerCancels
<1>1. CancelInv => OnlyOwnerCancels
  BY DEF CancelInv, OnlyOwnerCancels, Asked, SlotOwner, VerifiedCaller
<1> QED BY <1>1, CancelInvariant, PTL

=============================================================================
