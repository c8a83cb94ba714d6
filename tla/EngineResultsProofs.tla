------------------------ MODULE EngineResultsProofs ------------------------
(***************************************************************************)
(* Proofs about the results of goals in ActionEngine: where a result poll  *)
(* waits, when a goal has ended, and that the engine implements            *)
(* GoalPromise under the mapping of EngineKeepsPromise.  The constants are *)
(* arbitrary, as in ActionEngineProofs, and every fault may happen unless  *)
(* a theorem says otherwise.                                               *)
(***************************************************************************)
EXTENDS ActionEngineProofs, EngineKeepsPromise, FiniteSetTheorems

-----------------------------------------------------------------------------
(***************************************************************************)
(* The life of a slot                                                      *)
(***************************************************************************)

Served == {"live", "dropped"}
Opening == {"registered", "cancel_checked", "adopting", "adopted", "replied"}

\* A goal that no context serves yet has no call that ends it; its slot is there
\* from the registration on. The slot is terminal exactly when it shows an
\* outcome, and a call that drains waiters or closed the stream comes after that.
LifeOf(g) ==
  /\ (phase[g] \notin Served) =>
       (g \notin terminal /\ \A e \in Enders \cup {Abandon} : ender[g][e] = "idle")
  /\ (phase[g] \in Opening) => (state[g] = "pending")
  /\ (phase[g] \in Served) => (state[g] # "none")
  /\ (state[g] = "terminal") <=> (outcome[g] # NoOutcome)
  /\ \A e \in Enders \cup {Abandon} : /\ (ender[g][e] = "swapped") => (ending[g] \in Outcomes)
                                      /\ (ender[g][e] = "waking") => (outcome[g] # NoOutcome)
  /\ (ends[g] # 0) => (outcome[g] # NoOutcome)

\* A context that is gone set the flag or left a task that will; and the flag
\* means, unless a future of `deliver' was dropped, that a call is still ending
\* the goal or has closed its stream.
GoneOf(g) ==
  /\ (phase[g] = "dropped") => (g \in terminal \/ ender[g][Abandon] = "spawned")
  /\ ("deliver_dropped" \notin Faults /\ g \in terminal) =>
       ((\E e \in Enders \cup {Abandon} : ender[g][e] \in Winning) \/ ends[g] = 1)

LifeInv == \A g \in Goals : LifeOf(g) /\ GoneOf(g)

lifeVars == <<phase, state, terminal, outcome, ender, ending, ends>>

LEMMA LifeInvFrame == LifeInv /\ UNCHANGED lifeVars => LifeInv'
BY DEF LifeInv, LifeOf, GoneOf, lifeVars

\* Only admission and the steps that end a goal touch what LifeInv reads.
LEMMA LifeFootprint ==
  ASSUME [Next]_vars,
         \A g \in Goals : /\ ~RecvNextGoal(g) /\ ~Refuse(g) /\ ~AcceptStep(g)
                          /\ ~EnderStep(g) /\ ~WorkerStep(g)
  PROVE  UNCHANGED lifeVars
<1> USE DEF lifeVars, acceptVars, stateVars, enderVars
<1>1. CASE UNCHANGED vars
  BY <1>1 DEF vars
<1>2. CASE (\E p \in Polls : RecvResultPoll(p)) \/ ResultStep \/ ResultLoopAborted
  BY <1>2 DEF ResultStep, RecvResultPoll, RelookUnderLock, RouteUnderLock, ActOnSlot,
     ResultLoopAborted
<1>3. CASE (\E c \in Cancels : RecvCancel(c)) \/ CancelStep
  BY <1>3 DEF CancelStep, RecvCancel, CancelLookTombstone, RememberEarlyCancel, CancelSlot,
     CancelTakes, CancelTokens
<1>4. CASE SweepStep
  BY <1>4 DEF SweepStep, SweepEvict, SweepLockTombs, SweepTombstone, SweepPolls,
     EndIdleSenderWatches, SweepEarlyCancels
<1>5. ASSUME NEW w \in Goals, WatchTaskStep(w) \/ WatchFails(w)
      PROVE  UNCHANGED lifeVars
  BY <1>5 DEF WatchTaskStep, WatchFails, WatchResolve, WatchReadGone, WatchProbeAbsent,
     WatchProbeSeen, WatchTo, ForgetSender, SignalSenderGone, SenderGoneTakes, SenderGoneTokens,
     WatchEnds
<1>6. CASE EngineDrop \/ TimeStep \/ PresenceStep
  BY <1>6 DEF EngineDrop, TimeStep, PresenceStep, RetentionPasses, ParkDeadlinePasses,
     EarlyCancelAges, SenderDies, TokenHidden, TokenBack, TokenGone
<1> QED BY <1>1, <1>2, <1>3, <1>4, <1>5, <1>6 DEF Next

\* Admission changes the phase and the slot of one goal that no context serves.
LEMMA AcceptLife ==
  ASSUME TypeOK, EndInv, LifeInv, NEW g \in Goals, RecvNextGoal(g) \/ Refuse(g) \/ AcceptStep(g)
  PROVE  LifeInv'
<1>1. phase \in [Goals -> Phases] /\ state \in [Goals -> {"none", "pending", "terminal"}]
  BY DEF TypeOK, AcceptOK, SlotsOK
<1>2. UNCHANGED <<terminal, outcome, ender, ending, ends>>
  BY DEF AcceptStep, RecvNextGoal, Refuse, AcceptRegister, AcceptEarlyCancel, AcceptAdopt,
     AcceptExtend, AcceptReply, AcceptReplyFails, TrackSenderGoal, stateVars, enderVars
<1>3. phase[g] \notin Served
  BY DEF AcceptStep, RecvNextGoal, Refuse, AcceptRegister, AcceptEarlyCancel, AcceptAdopt,
     AcceptExtend, AcceptReply, AcceptReplyFails, TrackSenderGoal, Served
<1>4. /\ g \notin terminal /\ outcome[g] = NoOutcome /\ ends[g] = 0
      /\ \A e \in Enders \cup {Abandon} : ender[g][e] = "idle"
  BY <1>3 DEF LifeInv, LifeOf, EndInv
<1>5. ASSUME NEW h \in Goals, h # g
      PROVE  phase'[h] = phase[h] /\ state'[h] = state[h]
  BY <1>1, <1>5 DEF AcceptStep, RecvNextGoal, Refuse, AcceptRegister, AcceptEarlyCancel, AcceptAdopt,
     AcceptExtend, AcceptReply, AcceptReplyFails, TrackSenderGoal, stateVars
<1>6. ASSUME NEW h \in Goals, h # g
      PROVE  (LifeOf(h) /\ GoneOf(h))'
  BY <1>2, <1>5, <1>6 DEF LifeInv, LifeOf, GoneOf
<1>7. /\ phase'[g] # "dropped"
      /\ (phase'[g] \in Opening) => (state'[g] = "pending")
      /\ (phase'[g] \in Served) => (state'[g] # "none")
      /\ state'[g] # "terminal"
  BY <1>1, <1>4 DEF AcceptStep, RecvNextGoal, Refuse, AcceptRegister, AcceptEarlyCancel, AcceptAdopt,
     AcceptExtend, AcceptReply, AcceptReplyFails, TrackSenderGoal, stateVars, LifeInv, LifeOf, Opening,
     Served
<1>8. (LifeOf(g) /\ GoneOf(g))'
  BY <1>2, <1>4, <1>7 DEF LifeOf, GoneOf
<1> QED BY <1>6, <1>8 DEF LifeInv

\* The steps that end a goal keep LifeInv.
LEMMA EnderLife ==
  ASSUME TypeOK, EndInv, LifeInv, NEW g \in Goals, EnderStep(g) \/ WorkerStep(g)
  PROVE  LifeInv'
<1> USE ActionEngineAssumptions
<1>1. /\ phase \in [Goals -> Phases] /\ state \in [Goals -> {"none", "pending", "terminal"}]
      /\ ender \in EnderTable /\ outcome \in [Goals -> Outcomes \cup {NoOutcome}]
      /\ ending \in [Goals -> Outcomes \cup {NoOutcome}]
      /\ ends \in [Goals -> Nat] /\ terminal \subseteq Goals
  BY DEF TypeOK, AcceptOK, EndersOK, SlotsOK
<1>t. NoOutcome \notin Outcomes
  BY DEF Outcomes, NoOutcome
\* A step of one call: the other goals, and the other calls of this one, stay.
<1>2. ASSUME NEW e \in Enders \cup {Abandon}, NEW x \in EnderStates,
             ender' = [ender EXCEPT ![g][e] = x]
      PROVE  /\ \A f \in Enders \cup {Abandon} : ender'[g][f] = IF f = e THEN x ELSE ender[g][f]
             /\ \A h \in Goals : (h # g) => (ender'[h] = ender[h])
  <2>1. \A f \in Enders \cup {Abandon} : ender'[g][f] = IF f = e THEN x ELSE ender[g][f]
    <3> TAKE f \in Enders \cup {Abandon}
    <3>1. \A h \in Goals : [ender EXCEPT ![g][e] = x][h][f]
                            = IF h = g /\ f = e THEN x ELSE ender[h][f]
      BY SMTT(30), <1>1, EnderAt
    <3> QED BY <1>2, <3>1
  <2>2. \A h \in Goals : (h # g) => (ender'[h] = ender[h])
    BY <1>1, <1>2 DEF EnderTable
  <2> QED BY <2>1, <2>2
<1>3. ASSUME (LifeOf(g) /\ GoneOf(g))',
             \A h \in Goals : (h # g) =>
               /\ phase'[h] = phase[h] /\ state'[h] = state[h] /\ outcome'[h] = outcome[h]
               /\ ender'[h] = ender[h] /\ ending'[h] = ending[h] /\ ends'[h] = ends[h]
               /\ (h \in terminal') <=> (h \in terminal)
      PROVE  LifeInv'
  <2>1. ASSUME NEW h \in Goals, h # g
        PROVE  (LifeOf(h) /\ GoneOf(h))'
    BY <1>3, <2>1 DEF LifeInv, LifeOf, GoneOf
  <2> QED BY <1>3, <2>1 DEF LifeInv
<1>4. ASSUME NEW e \in Enders \cup {Abandon}, NEW o \in Outcomes, Swap(g, e, o), phase[g] \in Served,
             ender[g][e] \notin Winning
      PROVE  LifeInv'
  <2>1. UNCHANGED <<phase, state, outcome, ends>>
    BY <1>4 DEF Swap, acceptVars
  <2>2. CASE g \in terminal
    <3>1. ender' = [ender EXCEPT ![g][e] = "done"] /\ UNCHANGED <<terminal, ending>>
      BY <1>4, <2>2 DEF Swap
    <3>2. /\ \A f \in Enders \cup {Abandon} : ender'[g][f] = IF f = e THEN "done" ELSE ender[g][f]
          /\ \A h \in Goals : (h # g) => (ender'[h] = ender[h])
      BY <1>2, <3>1 DEF EnderStates
    <3>3. (LifeOf(g) /\ GoneOf(g))'
      BY <1>1, <1>4, <2>1, <2>2, <3>1, <3>2 DEF LifeInv, LifeOf, GoneOf, Winning
    <3> QED BY <1>3, <2>1, <3>1, <3>2, <3>3
  <2>3. CASE g \notin terminal
    <3>1. /\ ender' = [ender EXCEPT ![g][e] = "swapped"]
          /\ terminal' = terminal \cup {g} /\ ending' = [ending EXCEPT ![g] = o]
      BY <1>4, <2>3 DEF Swap
    <3>2. /\ \A f \in Enders \cup {Abandon} : ender'[g][f] = IF f = e THEN "swapped" ELSE ender[g][f]
          /\ \A h \in Goals : (h # g) => (ender'[h] = ender[h])
      BY <1>2, <3>1 DEF EnderStates
    <3>3. (LifeOf(g) /\ GoneOf(g))'
      BY <1>1, <1>4, <2>1, <2>3, <3>1, <3>2 DEF LifeInv, LifeOf, GoneOf, Winning
    <3>4. \A h \in Goals : (h # g) => (ending'[h] = ending[h])
      BY <1>1, <3>1
    <3> QED BY <1>3, <2>1, <3>1, <3>2, <3>3, <3>4
  <2> QED BY <2>2, <2>3
<1>5. ASSUME NEW e \in Enders \cup {Abandon}, ReplaceState(g, e)
      PROVE  LifeInv'
  <2>1. /\ ender[g][e] = "swapped" /\ ender' = [ender EXCEPT ![g][e] = "waking"]
        /\ state' = [state EXCEPT ![g] = "terminal"]
        /\ outcome' = [outcome EXCEPT ![g] = ending[g]] /\ UNCHANGED <<phase, terminal, ending, ends>>
    BY <1>5 DEF ReplaceState, acceptVars
  <2>2. /\ \A f \in Enders \cup {Abandon} : ender'[g][f] = IF f = e THEN "waking" ELSE ender[g][f]
        /\ \A h \in Goals : (h # g) => (ender'[h] = ender[h])
    BY <1>2, <2>1 DEF EnderStates
  <2>3. outcome'[g] # NoOutcome /\ state'[g] = "terminal" /\ phase[g] \in Served
    BY <1>1, <1>t, <2>1 DEF LifeInv, LifeOf
  <2>4. (LifeOf(g) /\ GoneOf(g))'
    BY <1>1, <2>1, <2>2, <2>3 DEF LifeInv, LifeOf, GoneOf, Winning, Served, Opening
  <2>5. \A h \in Goals : (h # g) => (state'[h] = state[h] /\ outcome'[h] = outcome[h])
    BY <1>1, <2>1
  <2> QED BY <1>3, <2>1, <2>2, <2>4, <2>5
<1>6. ASSUME NEW e \in Enders \cup {Abandon}, PublishEnd(g, e)
      PROVE  LifeInv'
  <2>1. /\ ender[g][e] = "waking" /\ ender' = [ender EXCEPT ![g][e] = "done"]
        /\ ends' = [ends EXCEPT ![g] = @ + 1]
        /\ UNCHANGED <<phase, state, terminal, outcome, ending>>
    BY <1>6 DEF PublishEnd, acceptVars, stateVars
  <2>2. /\ \A f \in Enders \cup {Abandon} : ender'[g][f] = IF f = e THEN "done" ELSE ender[g][f]
        /\ \A h \in Goals : (h # g) => (ender'[h] = ender[h])
    BY <1>2, <2>1 DEF EnderStates
  <2>3. ends[g] = 0 /\ ends'[g] = 1 /\ outcome[g] # NoOutcome /\ phase[g] \in Served
    BY <1>1, <2>1 DEF LifeInv, LifeOf, EndInv, Winning
  <2>4. (LifeOf(g) /\ GoneOf(g))'
    BY <1>1, <2>1, <2>2, <2>3 DEF LifeInv, LifeOf, GoneOf, Winning, Served, Opening
  <2>5. \A h \in Goals : (h # g) => (ends'[h] = ends[h])
    BY <1>1, <2>1
  <2> QED BY <1>3, <2>1, <2>2, <2>4, <2>5
<1>7. ASSUME NEW e \in Enders, DeliverDropped(g, e)
      PROVE  LifeInv'
  <2>1. /\ ender[g][e] \in Winning /\ ender' = [ender EXCEPT ![g][e] = "done"]
        /\ "deliver_dropped" \in Faults
        /\ UNCHANGED <<phase, state, terminal, outcome, ending, ends>>
    BY <1>7 DEF DeliverDropped, acceptVars, stateVars, Winning
  <2>2. /\ \A f \in Enders \cup {Abandon} : ender'[g][f] = IF f = e THEN "done" ELSE ender[g][f]
        /\ \A h \in Goals : (h # g) => (ender'[h] = ender[h])
    BY <1>2, <2>1 DEF EnderStates
  <2>3. phase[g] \in Served /\ g \in terminal
    BY <2>1 DEF LifeInv, LifeOf, EndInv, Winning
  <2>4. (LifeOf(g) /\ GoneOf(g))'
    BY <1>1, <2>1, <2>2, <2>3 DEF LifeInv, LifeOf, GoneOf, Winning, Served, Opening
  <2> QED BY <1>3, <2>1, <2>2, <2>4
<1>8. ASSUME ContextDrop(g)
      PROVE  LifeInv'
  <2>1. /\ phase[g] = "live" /\ phase' = [phase EXCEPT ![g] = "dropped"]
        /\ UNCHANGED <<state, terminal, outcome, ending, ends>>
    BY <1>8 DEF ContextDrop, stateVars
  <2>2. \A h \in Goals : (h # g) => (phase'[h] = phase[h])
    BY <1>1, <2>1
  <2>3. phase'[g] = "dropped"
    BY <1>1, <2>1
  <2>4. CASE g \in terminal
    <3>1. ender' = ender
      BY <1>8, <2>4 DEF ContextDrop
    <3>2. (LifeOf(g) /\ GoneOf(g))'
      BY <2>1, <2>3, <2>4, <3>1 DEF LifeInv, LifeOf, GoneOf, Served, Opening
    <3> QED BY <1>3, <2>1, <2>2, <3>1, <3>2
  <2>5. CASE g \notin terminal
    <3>1. ender' = [ender EXCEPT ![g][Abandon] = "spawned"]
      BY <1>8, <2>5 DEF ContextDrop
    <3>2. /\ \A f \in Enders \cup {Abandon} :
               ender'[g][f] = IF f = Abandon THEN "spawned" ELSE ender[g][f]
          /\ \A h \in Goals : (h # g) => (ender'[h] = ender[h])
      BY <1>2, <3>1 DEF EnderStates
    <3>3. (LifeOf(g) /\ GoneOf(g))'
      BY <2>1, <2>3, <2>5, <3>2 DEF LifeInv, LifeOf, GoneOf, Served, Opening
    <3> QED BY <1>3, <2>1, <2>2, <3>2, <3>3
  <2> QED BY <2>4, <2>5
<1>9. CASE \E l \in Links : Link(g, l) \/ Unlink(g, l)
  BY <1>9, LifeInvFrame DEF Link, Unlink, acceptVars, stateVars, enderVars, lifeVars
<1>10. CASE \E e \in Enders \cup {Abandon}, p \in Polls : WakeWaiter(g, e, p)
  BY <1>10, LifeInvFrame DEF WakeWaiter, acceptVars, stateVars, lifeVars
<1>11. CASE AbandonSwap(g)
  <2>1. phase[g] \in Served
    BY <1>11 DEF AbandonSwap, LifeInv, LifeOf
  <2> QED BY <1>4, <1>11, <2>1 DEF AbandonSwap, Outcomes, Winning
<1>12. CASE \E e \in Enders, o \in Results : Deliver(g, e, o)
  BY <1>4, <1>12 DEF Deliver, Outcomes, Winning, Served
<1> QED BY <1>5, <1>6, <1>7, <1>8, <1>9, <1>10, <1>11, <1>12 DEF EnderStep, WorkerStep

\* Every step keeps LifeInv.
LEMMA NextLife == TypeOK /\ EndInv /\ LifeInv /\ [Next]_vars => LifeInv'
BY AcceptLife, EnderLife, LifeFootprint, LifeInvFrame

LEMMA InitLife == Init => LifeInv
BY DEF Init, LifeInv, LifeOf, GoneOf, Served, Opening

LEMMA LifeInvariant == Spec => []LifeInv
BY TypeCorrect, EndInvariant, InitLife, NextLife, PTL DEF Spec

\* A goal whose context is gone has ended: whatever calls raced the drop, once
\* none of them is in progress the slot shows an outcome and the feedback stream
\* is closed. A caller that drops the future of `deliver' is excluded: then the
\* flag stays set with no outcome behind it.
THEOREM DroppedGoalsEnd ==
  ASSUME "deliver_dropped" \notin Faults
  PROVE  Spec => []DroppedGoalEnds
<1>1. LifeInv => DroppedGoalEnds
  <2> SUFFICES ASSUME LifeInv, NEW g \in Goals, phase[g] = "dropped",
                      \A e \in Enders \cup {Abandon} : ender[g][e] \notin InProgress
               PROVE  state[g] = "terminal" /\ ends[g] = 1
    BY DEF DroppedGoalEnds
  <2>1. g \in terminal
    BY DEF LifeInv, GoneOf, InProgress
  <2>2. ends[g] = 1
    BY <2>1 DEF LifeInv, GoneOf, InProgress, Winning
  <2> QED BY <2>2 DEF LifeInv, LifeOf
<1> QED BY <1>1, LifeInvariant, PTL

-----------------------------------------------------------------------------
(***************************************************************************)
(* What the retention sweeper evicted                                      *)
(***************************************************************************)

\* A slot past evict_at is terminal; the sweeper evicts, and leaves a tombstone
\* for, none but such slots.
AgeInv ==
  /\ \A g \in due : state[g] = "terminal"
  /\ Range(tombs) \cup expired \subseteq due

ageVars == <<due, state, tombs, expired>>

LEMMA AgeInvFrame == AgeInv /\ UNCHANGED ageVars => AgeInv'
BY DEF AgeInv, ageVars, Range

\* Every step keeps AgeInv.
LEMMA NextAge == TypeOK /\ EndInv /\ LifeInv /\ AgeInv /\ [Next]_vars => AgeInv'
<1> SUFFICES ASSUME TypeOK, EndInv, LifeInv, AgeInv, [Next]_vars
             PROVE  AgeInv'
  OBVIOUS
<1> USE ActionEngineAssumptions
<1>1. /\ tombs \in Seq(Goals) /\ expired \subseteq Goals /\ due \subseteq Goals
      /\ state \in [Goals -> {"none", "pending", "terminal"}] /\ registry \subseteq Goals
  BY DEF TypeOK, MapsOK, SlotsOK, SweepOK
<1>2. CASE UNCHANGED vars
  BY <1>2, AgeInvFrame DEF vars, ageVars, mapVars, stateVars, sweepVars
<1>3. ASSUME NEW g \in Goals, RecvNextGoal(g) \/ Refuse(g) \/ AcceptStep(g)
      PROVE  AgeInv'
  <2>1. UNCHANGED <<due, tombs, expired>>
    BY <1>3 DEF AcceptStep, RecvNextGoal, Refuse, AcceptRegister, AcceptEarlyCancel, AcceptAdopt,
       AcceptExtend, AcceptReply, AcceptReplyFails, TrackSenderGoal, mapVars, stateVars, sweepVars
  <2>2. phase[g] \notin Served
    BY <1>3 DEF AcceptStep, RecvNextGoal, Refuse, AcceptRegister, AcceptEarlyCancel, AcceptAdopt,
       AcceptExtend, AcceptReply, AcceptReplyFails, TrackSenderGoal, Served
  <2>3. g \notin due
    BY <2>2 DEF LifeInv, LifeOf, EndInv, AgeInv
  <2>4. \A h \in Goals : (h # g) => (state'[h] = state[h])
    BY <1>1, <1>3 DEF AcceptStep, RecvNextGoal, Refuse, AcceptRegister, AcceptEarlyCancel,
       AcceptAdopt, AcceptExtend, AcceptReply, AcceptReplyFails, TrackSenderGoal, stateVars
  <2> QED BY <1>1, <2>1, <2>3, <2>4 DEF AgeInv, Range
<1>4. ASSUME NEW g \in Goals, EnderStep(g) \/ WorkerStep(g)
      PROVE  AgeInv'
  <2>1. UNCHANGED <<due, tombs, expired>>
    BY <1>4 DEF EnderStep, WorkerStep, AbandonSwap, Deliver, Swap, ReplaceState, WakeWaiter,
       PublishEnd, DeliverDropped, ContextDrop, Link, Unlink, mapVars, stateVars, sweepVars
  <2>2. \A h \in Goals : state'[h] \in {state[h], "terminal"}
    BY <1>1, <1>4 DEF EnderStep, WorkerStep, AbandonSwap, Deliver, Swap, ReplaceState, WakeWaiter,
       PublishEnd, DeliverDropped, ContextDrop, Link, Unlink, stateVars
  <2> QED BY <1>1, <2>1, <2>2 DEF AgeInv, Range
<1>5. CASE SweepStep
  <2>1. CASE SweepEvict
    BY <1>1, <2>1 DEF SweepEvict, AgeInv, Range, stateVars
  <2>2. CASE \E g \in Goals : SweepTombstone(g)
    <3>1. PICK g \in Goals : SweepTombstone(g)
      BY <2>2
    <3>2. Range(tombs') \cup expired' \subseteq due'
      BY <1>1, <3>1, TombsInsertRange DEF SweepTombstone, AgeInv, stateVars
    <3> QED BY <3>1, <3>2 DEF SweepTombstone, AgeInv, stateVars
  <2>3. CASE SweepEarlyCancels \/ SweepLockTombs \/ SweepPolls \/ EndIdleSenderWatches
    <3>1. UNCHANGED ageVars
      BY <2>3 DEF SweepEarlyCancels, SweepLockTombs, SweepPolls, EndIdleSenderWatches, ageVars,
         mapVars, stateVars
    <3> QED BY <3>1, AgeInvFrame
  <2> QED BY <1>5, <2>1, <2>2, <2>3 DEF SweepStep
<1>6. CASE TimeStep
  <2>1. CASE \E g \in Goals : RetentionPasses(g)
    BY <1>1, <2>1 DEF RetentionPasses, AgeInv, Range, mapVars, sweepVars
  <2>2. CASE ~ \E g \in Goals : RetentionPasses(g)
    <3>1. UNCHANGED ageVars
      BY <1>6, <2>2 DEF TimeStep, ParkDeadlinePasses, EarlyCancelAges, ageVars, stateVars, sweepVars
    <3> QED BY <3>1, AgeInvFrame
  <2> QED BY <2>1, <2>2
<1>7. CASE (\E p \in Polls : RecvResultPoll(p)) \/ ResultStep \/ ResultLoopAborted
  <2>1. UNCHANGED ageVars
    BY <1>7 DEF ResultStep, RecvResultPoll, RelookUnderLock, RouteUnderLock, ActOnSlot,
       ResultLoopAborted, ageVars, mapVars, stateVars, sweepVars
  <2> QED BY <2>1, AgeInvFrame
<1>8. CASE (\E c \in Cancels : RecvCancel(c)) \/ CancelStep
  <2>1. UNCHANGED ageVars
    BY <1>8 DEF CancelStep, RecvCancel, CancelLookTombstone, RememberEarlyCancel, CancelSlot,
       CancelTakes, CancelTokens, ageVars, mapVars, stateVars, sweepVars
  <2> QED BY <2>1, AgeInvFrame
<1>9. ASSUME NEW w \in Goals, WatchTaskStep(w) \/ WatchFails(w)
      PROVE  AgeInv'
  <2>1. UNCHANGED ageVars
    BY <1>9 DEF WatchTaskStep, WatchFails, WatchResolve, WatchReadGone, WatchProbeAbsent,
       WatchProbeSeen, WatchTo, ForgetSender, SignalSenderGone, SenderGoneTakes, SenderGoneTokens,
       WatchEnds, ageVars, mapVars, stateVars, sweepVars
  <2> QED BY <2>1, AgeInvFrame
<1>10. CASE EngineDrop \/ PresenceStep
  <2>1. UNCHANGED ageVars
    BY <1>10 DEF EngineDrop, PresenceStep, SenderDies, TokenHidden, TokenBack, TokenGone, ageVars,
       mapVars, stateVars, sweepVars
  <2> QED BY <2>1, AgeInvFrame
<1> QED BY <1>2, <1>3, <1>4, <1>5, <1>6, <1>7, <1>8, <1>9, <1>10 DEF Next

LEMMA InitAge == Init => AgeInv
BY DEF Init, AgeInv, Range

LEMMA AgeInvariant == Spec => []AgeInv
BY TypeCorrect, EndInvariant, LifeInvariant, InitAge, NextAge, PTL DEF Spec

-----------------------------------------------------------------------------
(***************************************************************************)
(* Where a parked poll waits                                               *)
(***************************************************************************)

Home(g) == pending[g] \cup adopted[g] \cup waiters[g] \cup waking[g]

\* The polls of a goal wait apart in four places; each place is filled only while
\* something will still drain it: accept, the slot, or the call that ends it.
HomeOf(g) ==
  /\ \A p \in Home(g) : PollOf[p] = g /\ poll[p] = "parked"
  /\ pending[g] \cap adopted[g] = {} /\ pending[g] \cap waiters[g] = {}
  /\ pending[g] \cap waking[g] = {} /\ adopted[g] \cap waiters[g] = {}
  /\ adopted[g] \cap waking[g] = {} /\ waiters[g] \cap waking[g] = {}
  /\ (adopted[g] # {}) => (phase[g] = "adopting")
  /\ (waiters[g] # {}) => (state[g] = "pending")
  /\ (waking[g] # {}) => (\E e \in Enders \cup {Abandon} : ender[g][e] = "waking")

HomeInv ==
  /\ \A g \in Goals : HomeOf(g)
  /\ \A p \in Polls : (poll[p] = "parked") => (p \in Home(PollOf[p]))
  /\ (resPc # "recv") => (poll[resPoll] = "handling")

homeVars == <<phase, adopted, pending, state, waiters, ender, waking, poll, resPc, resPoll>>

LEMMA HomeInvFrame == HomeInv /\ UNCHANGED homeVars => HomeInv'
BY DEF HomeInv, HomeOf, Home, homeVars

\* Every step keeps a parked poll in one place that will be drained.
LEMMA NextHome == TypeOK /\ EndInv /\ LifeInv /\ HomeInv /\ [Next]_vars => HomeInv'
<1> SUFFICES ASSUME TypeOK, EndInv, LifeInv, HomeInv, [Next]_vars
             PROVE  HomeInv'
  OBVIOUS
<1> USE ActionEngineAssumptions
<1>1. /\ phase \in [Goals -> Phases] /\ adopted \in [Goals -> SUBSET Polls]
      /\ pending \in [Goals -> SUBSET Polls] /\ waiters \in [Goals -> SUBSET Polls]
      /\ waking \in [Goals -> SUBSET Polls]
      /\ state \in [Goals -> {"none", "pending", "terminal"}] /\ ender \in EnderTable
      /\ poll \in [Polls -> PollStates] /\ ((resPc # "recv") => (resPoll \in Polls))
  BY DEF TypeOK, AcceptOK, MapsOK, SlotsOK, EndersOK, PollsOK
<1>2. CASE UNCHANGED vars
  BY <1>2, HomeInvFrame DEF vars, homeVars, acceptVars, mapVars, stateVars, enderVars, resultVars
<1>3. ASSUME NEW g \in Goals, RecvNextGoal(g) \/ Refuse(g) \/ AcceptStep(g)
      PROVE  HomeInv'
  <2>1. CASE RecvNextGoal(g)
    BY <1>1, <2>1 DEF RecvNextGoal, mapVars, stateVars, enderVars, resultVars, HomeInv, HomeOf, Home
  <2>2. CASE Refuse(g)
    BY <1>1, <2>2 DEF Refuse, mapVars, stateVars, enderVars, resultVars, HomeInv, HomeOf, Home
  <2>3. CASE AcceptRegister(g)
    BY <1>1, <2>3 DEF AcceptRegister, enderVars, resultVars, HomeInv, HomeOf, Home
  <2>4. CASE AcceptEarlyCancel(g)
    BY <1>1, <2>4 DEF AcceptEarlyCancel, stateVars, enderVars, resultVars, HomeInv, HomeOf, Home
  <2>5. CASE AcceptAdopt(g)
    BY SMTT(30), <1>1, <2>5 DEF AcceptAdopt, stateVars, enderVars, resultVars, HomeInv, HomeOf, Home
  <2>6. CASE AcceptExtend(g)
    <3>1. state[g] = "pending"
      BY <2>6 DEF AcceptExtend, LifeInv, LifeOf, Opening
    <3> QED BY <1>1, <2>6, <3>1 DEF AcceptExtend, mapVars, enderVars, resultVars, HomeInv, HomeOf,
            Home
  <2>7. CASE AcceptReply(g)
    BY <1>1, <2>7 DEF AcceptReply, mapVars, stateVars, enderVars, resultVars, HomeInv, HomeOf, Home
  <2>8. CASE AcceptReplyFails(g)
    BY <1>1, <2>8 DEF AcceptReplyFails, enderVars, HomeInv, HomeOf, Home
  <2>9. CASE TrackSenderGoal(g)
    BY <1>1, <2>9 DEF TrackSenderGoal, mapVars, stateVars, enderVars, resultVars, HomeInv, HomeOf,
       Home
  <2> QED BY <1>3, <2>1, <2>2, <2>3, <2>4, <2>5, <2>6, <2>7, <2>8, <2>9 DEF AcceptStep
<1>4. ASSUME NEW g \in Goals, EnderStep(g) \/ WorkerStep(g)
      PROVE  HomeInv'
  <2>1. ASSUME NEW e \in Enders \cup {Abandon}, NEW x \in EnderStates \ {"waking"},
               ender' = [ender EXCEPT ![g][e] = x], (ender[g][e] # "waking") \/ (waking[g] = {}),
               UNCHANGED <<adopted, pending, state, waiters, waking, poll, resPc, resPoll>>,
               \A h \in Goals : (phase[h] = "adopting") => (phase'[h] = "adopting")
        PROVE  HomeInv'
    <3>1. \A h \in Goals, f \in Enders \cup {Abandon} :
            ender'[h][f] = IF h = g /\ f = e THEN x ELSE ender[h][f]
      BY <1>1, <2>1, EnderAt
    <3>2. ASSUME NEW h \in Goals, waking[h] # {}
          PROVE  \E f \in Enders \cup {Abandon} : ender'[h][f] = "waking"
      <4>1. PICK f \in Enders \cup {Abandon} : ender[h][f] = "waking"
        BY <3>2 DEF HomeInv, HomeOf
      <4> QED BY <2>1, <3>1, <3>2, <4>1
    <3>3. ASSUME NEW h \in Goals
          PROVE  HomeOf(h)'
      BY <2>1, <3>2 DEF HomeInv, HomeOf, Home
    <3> QED BY <2>1, <3>3 DEF HomeInv, Home
  <2>2. CASE AbandonSwap(g) \/ \E e \in Enders, o \in Results : Deliver(g, e, o)
    <3>1. PICK e \in Enders \cup {Abandon}, o \in Outcomes : Swap(g, e, o) /\ ender[g][e] # "waking"
      BY <2>2 DEF AbandonSwap, Deliver, Outcomes
    <3>2. \E x \in EnderStates \ {"waking"} : ender' = [ender EXCEPT ![g][e] = x]
      BY <3>1 DEF Swap, EnderStates
    <3>3. UNCHANGED <<phase, adopted, pending, state, waiters, waking, poll, resPc, resPoll>>
      BY <3>1 DEF Swap, acceptVars, mapVars, resultVars
    <3> QED BY <2>1, <3>1, <3>2, <3>3
  <2>3. CASE \E e \in Enders \cup {Abandon} : ReplaceState(g, e)
    <3>1. PICK e \in Enders \cup {Abandon} : ReplaceState(g, e)
      BY <2>3
    <3>2. /\ ender[g][e] = "swapped" /\ ender' = [ender EXCEPT ![g][e] = "waking"]
          /\ state' = [state EXCEPT ![g] = "terminal"]
          /\ waking' = [waking EXCEPT ![g] = waiters[g]] /\ waiters' = [waiters EXCEPT ![g] = {}]
          /\ UNCHANGED <<phase, adopted, pending, poll, resPc, resPoll>>
      BY <3>1 DEF ReplaceState, acceptVars, mapVars, resultVars
    <3>3. \A h \in Goals, f \in Enders \cup {Abandon} :
            ender'[h][f] = IF h = g /\ f = e THEN "waking" ELSE ender[h][f]
      BY SMTT(30), <1>1, <3>2, EnderAt DEF EnderStates
    <3>4. waking[g] = {}
      BY <3>2 DEF HomeInv, HomeOf, EndInv, Winning
    <3> QED BY <1>1, <3>2, <3>3, <3>4 DEF HomeInv, HomeOf, Home
  <2>4. CASE \E e \in Enders \cup {Abandon}, p \in Polls : WakeWaiter(g, e, p)
    <3>1. PICK e \in Enders \cup {Abandon}, p \in Polls : WakeWaiter(g, e, p)
      BY <2>4
    <3>2. /\ p \in waking[g] /\ waking' = [waking EXCEPT ![g] = @ \ {p}]
          /\ poll' = [poll EXCEPT ![p] = "answered"]
          /\ UNCHANGED <<phase, adopted, pending, state, waiters, ender, resPc, resPoll>>
      BY <3>1 DEF WakeWaiter, acceptVars, mapVars, stateVars
    <3>3. PollOf[p] = g /\ poll[p] = "parked"
      BY <3>2 DEF HomeInv, HomeOf, Home
    <3>4. ASSUME NEW h \in Goals
          PROVE  HomeOf(h)'
      BY <1>1, <3>2, <3>3 DEF HomeInv, HomeOf, Home
    <3>5. ASSUME NEW q \in Polls, poll'[q] = "parked"
          PROVE  q \in Home(PollOf[q])'
      BY <1>1, <3>2, <3>3, <3>5 DEF HomeInv, Home
    <3>6. (resPc' # "recv") => (poll'[resPoll'] = "handling")
      BY <1>1, <3>2, <3>3 DEF HomeInv
    <3> QED BY <3>4, <3>5, <3>6 DEF HomeInv
  <2>5. CASE \E e \in Enders \cup {Abandon} : PublishEnd(g, e)
    <3>1. PICK e \in Enders \cup {Abandon} : PublishEnd(g, e)
      BY <2>5
    <3>2. UNCHANGED <<phase, adopted, pending, state, waiters, waking, poll, resPc, resPoll>>
      BY <3>1 DEF PublishEnd, acceptVars, mapVars, stateVars, resultVars
    <3> QED BY <2>1, <3>1, <3>2 DEF PublishEnd, EnderStates
  <2>6. CASE \E e \in Enders : DeliverDropped(g, e)
    <3>1. PICK e \in Enders : DeliverDropped(g, e)
      BY <2>6
    <3>2. /\ ender[g][e] \in Winning /\ ender' = [ender EXCEPT ![g][e] = "done"]
          /\ poll' = [p \in Polls |-> IF p \in waking[g] THEN "dropped" ELSE poll[p]]
          /\ waking' = [waking EXCEPT ![g] = {}]
          /\ UNCHANGED <<phase, adopted, pending, state, waiters, resPc, resPoll>>
      BY <3>1 DEF DeliverDropped, acceptVars, mapVars, stateVars, Winning
    <3>3. \A h \in Goals, f \in Enders \cup {Abandon} :
            ender'[h][f] = IF h = g /\ f = e THEN "done" ELSE ender[h][f]
      BY <1>1, <3>2, EnderAt DEF EnderStates
    <3> QED BY SMTT(30), <1>1, <3>2, <3>3 DEF HomeInv, HomeOf, Home
  <2>7. CASE ContextDrop(g)
    <3>1. /\ UNCHANGED <<adopted, pending, state, waiters, waking, poll, resPc, resPoll>>
          /\ phase[g] = "live" /\ phase' = [phase EXCEPT ![g] = "dropped"]
      BY <2>7 DEF ContextDrop, mapVars, stateVars, resultVars
    <3>2. \A h \in Goals : (phase[h] = "adopting") => (phase'[h] = "adopting")
      BY <1>1, <3>1
    <3>3. CASE g \in terminal
      <4>1. ender' = ender
        BY <2>7, <3>3 DEF ContextDrop
      <4> QED BY <3>1, <3>2, <4>1 DEF HomeInv, HomeOf, Home
    <3>4. CASE g \notin terminal
      <4>1. ender' = [ender EXCEPT ![g][Abandon] = "spawned"]
        BY <2>7, <3>4 DEF ContextDrop
      <4>2. ender[g][Abandon] # "waking"
        BY <3>4 DEF EndInv, Winning
      <4> QED BY <2>1, <3>1, <3>2, <4>1, <4>2 DEF EnderStates
    <3> QED BY <3>3, <3>4
  <2>8. CASE \E l \in Links : Link(g, l) \/ Unlink(g, l)
    BY <2>8, HomeInvFrame DEF Link, Unlink, homeVars, acceptVars, mapVars, stateVars, enderVars,
       resultVars
  <2> QED BY <1>4, <2>2, <2>3, <2>4, <2>5, <2>6, <2>7, <2>8 DEF EnderStep, WorkerStep
<1>5. CASE (\E p \in Polls : RecvResultPoll(p)) \/ ResultStep \/ ResultLoopAborted
  <2>1. CASE \E p \in Polls : RecvResultPoll(p)
    BY <1>1, <2>1 DEF RecvResultPoll, acceptVars, mapVars, stateVars, enderVars, HomeInv,
       HomeOf, Home
  <2>2. CASE RelookUnderLock
    BY <1>1, <2>2 DEF RelookUnderLock, acceptVars, mapVars, stateVars, enderVars, HomeInv,
       HomeOf, Home
  <2>3. CASE RouteUnderLock
    <3>1. /\ resPoll \in Polls /\ poll[resPoll] = "handling" /\ resPc' = "recv"
          /\ PollOf[resPoll] \in Goals
          /\ UNCHANGED <<phase, adopted, state, waiters, ender, waking>>
      BY <1>1, <2>3 DEF RouteUnderLock, acceptVars, stateVars, enderVars, HomeInv
    <3>2. \A h \in Goals : resPoll \notin Home(h)
      BY <3>1 DEF HomeInv, HomeOf
    <3>3. CASE /\ poll' = [poll EXCEPT ![resPoll] = "parked"]
               /\ pending' = [pending EXCEPT ![PollOf[resPoll]] = @ \cup {resPoll}]
      <4>1. ASSUME NEW h \in Goals
            PROVE  HomeOf(h)'
        <5>1. CASE h = PollOf[resPoll]
          BY <1>1, <3>1, <3>2, <3>3, <5>1 DEF HomeInv, HomeOf, Home
        <5>2. CASE h # PollOf[resPoll]
          BY <1>1, <3>1, <3>2, <3>3, <5>2 DEF HomeInv, HomeOf, Home
        <5> QED BY <5>1, <5>2
      <4>2. ASSUME NEW q \in Polls, poll'[q] = "parked"
            PROVE  q \in Home(PollOf[q])'
        BY <1>1, <3>1, <3>3, <4>2 DEF HomeInv, Home
      <4> QED BY <3>1, <4>1, <4>2 DEF HomeInv
    <3>4. CASE /\ \E x \in {"answered", "dropped"} : poll' = [poll EXCEPT ![resPoll] = x]
               /\ UNCHANGED pending
      <4>1. \A q \in Polls : q # resPoll => poll'[q] = poll[q]
        BY <1>1, <3>4
      <4>2. poll'[resPoll] # "parked"
        BY <1>1, <3>1, <3>4
      <4>3. ASSUME NEW h \in Goals
            PROVE  HomeOf(h)'
        <5>1. \A q \in Home(h) : q \in Polls /\ q # resPoll
          BY <1>1, <3>2 DEF Home
        <5> QED BY <3>1, <3>4, <4>1, <5>1 DEF HomeInv, HomeOf, Home
      <4> QED BY <3>1, <3>4, <4>1, <4>2, <4>3 DEF HomeInv, Home
    <3> QED BY <2>3, <3>3, <3>4 DEF RouteUnderLock, Answered
  <2>4. CASE ActOnSlot
    <3>1. /\ resPoll \in Polls /\ poll[resPoll] = "handling" /\ resPc' = "recv"
          /\ PollOf[resPoll] \in Goals
          /\ UNCHANGED <<phase, adopted, pending, state, ender, waking>>
      BY <1>1, <2>4 DEF ActOnSlot, acceptVars, mapVars, enderVars, HomeInv
    <3>2. \A h \in Goals : resPoll \notin Home(h)
      BY <3>1 DEF HomeInv, HomeOf
    <3>3. CASE /\ poll' = [poll EXCEPT ![resPoll] = "parked"] /\ state[PollOf[resPoll]] = "pending"
               /\ waiters' = [waiters EXCEPT ![PollOf[resPoll]] = @ \cup {resPoll}]
      <4>1. ASSUME NEW h \in Goals
            PROVE  HomeOf(h)'
        <5>1. CASE h = PollOf[resPoll]
          BY SMTT(30), <1>1, <3>1, <3>2, <3>3, <5>1 DEF HomeInv, HomeOf, Home
        <5>2. CASE h # PollOf[resPoll]
          BY <1>1, <3>1, <3>2, <3>3, <5>2 DEF HomeInv, HomeOf, Home
        <5> QED BY <5>1, <5>2
      <4>2. ASSUME NEW q \in Polls, poll'[q] = "parked"
            PROVE  q \in Home(PollOf[q])'
        BY <1>1, <3>1, <3>3, <4>2 DEF HomeInv, Home
      <4> QED BY <3>1, <4>1, <4>2 DEF HomeInv
    <3>4. CASE /\ \E x \in {"answered", "dropped"} : poll' = [poll EXCEPT ![resPoll] = x]
               /\ UNCHANGED waiters
      <4>1. \A q \in Polls : q # resPoll => poll'[q] = poll[q]
        BY <1>1, <3>4
      <4>2. poll'[resPoll] # "parked"
        BY <1>1, <3>1, <3>4
      <4>3. ASSUME NEW h \in Goals
            PROVE  HomeOf(h)'
        <5>1. \A q \in Home(h) : q \in Polls /\ q # resPoll
          BY <1>1, <3>2 DEF Home
        <5> QED BY <3>1, <3>4, <4>1, <5>1 DEF HomeInv, HomeOf, Home
      <4> QED BY <3>1, <3>4, <4>1, <4>2, <4>3 DEF HomeInv, Home
    <3> QED BY <2>4, <3>3, <3>4 DEF ActOnSlot, Answered
  <2>5. CASE ResultLoopAborted
    BY <1>1, <2>5 DEF ResultLoopAborted, acceptVars, mapVars, stateVars, enderVars, HomeInv,
       HomeOf, Home
  <2> QED BY <1>5, <2>1, <2>2, <2>3, <2>4, <2>5 DEF ResultStep
<1>6. CASE (\E c \in Cancels : RecvCancel(c)) \/ CancelStep
  <2>1. UNCHANGED homeVars
    BY <1>6 DEF CancelStep, RecvCancel, CancelLookTombstone, RememberEarlyCancel, CancelSlot,
       CancelTakes, CancelTokens, homeVars, acceptVars, mapVars, stateVars, enderVars, resultVars
  <2> QED BY <2>1, HomeInvFrame
<1>7. CASE SweepStep
  <2>1. CASE SweepPolls
    BY SMTT(30), <1>1, <2>1 DEF SweepPolls, acceptVars, stateVars, enderVars, HomeInv, HomeOf, Home
  <2>2. CASE ~SweepPolls
    <3>1. UNCHANGED homeVars
      BY <1>7, <2>2 DEF SweepStep, SweepEvict, SweepLockTombs, SweepTombstone, EndIdleSenderWatches,
         SweepEarlyCancels, homeVars, acceptVars, mapVars, stateVars, enderVars, resultVars
    <3> QED BY <3>1, HomeInvFrame
  <2> QED BY <2>1, <2>2
<1>8. ASSUME NEW w \in Goals, WatchTaskStep(w) \/ WatchFails(w)
      PROVE  HomeInv'
  <2>1. UNCHANGED homeVars
    BY <1>8 DEF WatchTaskStep, WatchFails, WatchResolve, WatchReadGone, WatchProbeAbsent,
       WatchProbeSeen, WatchTo, ForgetSender, SignalSenderGone, SenderGoneTakes, SenderGoneTokens,
       WatchEnds, homeVars, acceptVars, mapVars, stateVars, enderVars, resultVars
  <2> QED BY <2>1, HomeInvFrame
<1>9. CASE EngineDrop \/ TimeStep \/ PresenceStep
  <2>1. UNCHANGED homeVars
    BY <1>9 DEF EngineDrop, TimeStep, PresenceStep, RetentionPasses, ParkDeadlinePasses,
       EarlyCancelAges, SenderDies, TokenHidden, TokenBack, TokenGone, homeVars, acceptVars,
       mapVars, stateVars, enderVars, resultVars
  <2> QED BY <2>1, HomeInvFrame
<1> QED BY <1>2, <1>3, <1>4, <1>5, <1>6, <1>7, <1>8, <1>9 DEF Next

LEMMA InitHome == Init => HomeInv
BY ActionEngineAssumptions DEF Init, HomeInv, HomeOf, Home

LEMMA HomeInvariant == Spec => []HomeInv
BY TypeCorrect, EndInvariant, LifeInvariant, InitHome, NextHome, PTL DEF Spec

\* No lost wakeup: a parked result poll is in exactly one of pending_waiters, the
\* local of accept, the waiters of the slot and the list that the winner of the
\* end drains; and no poll waits in a slot that is terminal already, whatever
\* accept, route_result_poll, transition_terminal and the sweeper interleave.
THEOREM NoWakeupLost == Spec => []NoLostWakeup
<1>1. TypeOK /\ HomeInv => NoLostWakeup
  <2> SUFFICES ASSUME TypeOK, HomeInv
               PROVE  NoLostWakeup
    OBVIOUS
  <2>1. \A g \in Goals : (waiters[g] # {}) => (state[g] = "pending")
    BY DEF HomeInv, HomeOf
  <2>2. ASSUME NEW p \in Polls, NEW g \in Goals, g = PollOf[p], poll[p] = "parked"
        PROVE  Cardinality({place \in 1 .. 4 : p \in <<pending[g], adopted[g], waiters[g],
                                                       waking[g]>>[place]}) = 1
    <3> DEFINE At(place) == p \in <<pending[g], adopted[g], waiters[g], waking[g]>>[place]
               Places == {place \in 1 .. 4 : At(place)}
    <3>1. /\ At(1) <=> (p \in pending[g])
          /\ At(2) <=> (p \in adopted[g])
          /\ At(3) <=> (p \in waiters[g])
          /\ At(4) <=> (p \in waking[g])
      OBVIOUS
    <3>2. \A k \in 1 .. 4 : k = 1 \/ k = 2 \/ k = 3 \/ k = 4
      OBVIOUS
    <3>3. At(1) \/ At(2) \/ At(3) \/ At(4)
      BY <2>2, <3>1 DEF HomeInv, Home
    <3>4. /\ ~(At(1) /\ At(2)) /\ ~(At(1) /\ At(3)) /\ ~(At(1) /\ At(4))
          /\ ~(At(2) /\ At(3)) /\ ~(At(2) /\ At(4)) /\ ~(At(3) /\ At(4))
      BY <2>2, <3>1 DEF HomeInv, HomeOf
    <3>5. \E k \in 1 .. 4 : Places = {k}
      <4> HIDE DEF At
      <4> QED BY <3>2, <3>3, <3>4
    <3>6. Cardinality(Places) = 1
      BY <3>5, FS_Singleton
    <3> QED BY <3>6
  <2> QED BY <2>1, <2>2, ActionEngineAssumptions DEF NoLostWakeup
<1> QED BY <1>1, TypeCorrect, HomeInvariant, PTL

-----------------------------------------------------------------------------
(***************************************************************************)
(* The engine implements GoalPromise                                       *)
(***************************************************************************)

Open == {"idle", "handling", "parked"}

\* What a client got, by the state of its request.
LEMMA GotAt ==
  ASSUME NEW p \in Polls
  PROVE  /\ (poll[p] = "answered") => (Got[p] = answer[p])
         /\ (poll[p] = "dropped") => (Got[p] = "dropped")
         /\ (poll[p] \in Open) => (Got[p] = NoOutcome)
BY DEF Got, Open

\* A step that leaves what the clients see is a stutter of GoalPromise.
LEMMA PromiseStutters ==
  ASSUME UNCHANGED <<outcome, ends, due>>, poll \in [Polls -> PollStates],
         \A p \in Polls : \/ poll'[p] = poll[p] /\ answer'[p] = answer[p]
                          \/ poll[p] \in Open /\ poll'[p] \in Open
  PROVE  UNCHANGED <<outcome, ends, due, Got>>
<1>1. ASSUME NEW p \in Polls
      PROVE  Got'[p] = Got[p]
  BY DEF Got, Open
<1> QED BY <1>1 DEF Got

\* Requests that are dropped are a step Lose.
LEMMA PromiseLoses ==
  ASSUME UNCHANGED <<outcome, ends, due, answer>>, poll \in [Polls -> PollStates],
         NEW P \in SUBSET Polls, \A p \in P : poll[p] \in Open,
         \A p \in Polls : poll'[p] = IF p \in P THEN "dropped" ELSE poll[p]
  PROVE  Promise!Lose(P)
<1>1. \A p \in P : Got[p] = NoOutcome
  BY GotAt
<1>2. Got' = [p \in Polls |-> IF p \in P THEN "dropped" ELSE Got[p]]
  <2>1. ASSUME NEW p \in Polls
        PROVE  Got'[p] = IF p \in P THEN "dropped" ELSE Got[p]
    BY DEF Got
  <2> QED BY <2>1 DEF Got
<1> QED BY <1>1, <1>2 DEF Promise!Lose

\* A request that is answered is a step Answer, if its goal shows the outcome it
\* gets, or is past evict_at and the answer is Expired.
LEMMA PromiseAnswers ==
  ASSUME UNCHANGED <<outcome, ends, due>>, poll \in [Polls -> PollStates],
         NEW p \in Polls, NEW o, poll[p] \in Open, outcome[PollOf[p]] # NoOutcome,
         o = outcome[PollOf[p]] \/ (PollOf[p] \in due /\ o = Expired),
         answer \in [Polls -> Outcomes \cup {NoOutcome, Expired}],
         poll' = [poll EXCEPT ![p] = "answered"], answer' = [answer EXCEPT ![p] = o]
  PROVE  Promise!Answer(p)
<1>1. Got[p] = NoOutcome
  BY GotAt
<1>2. Got' = [Got EXCEPT ![p] = o]
  <2>1. ASSUME NEW q \in Polls
        PROVE  Got'[q] = IF q = p THEN o ELSE Got[q]
    BY DEF Got
  <2> QED BY <2>1 DEF Got
<1> QED BY <1>1, <1>2 DEF Promise!Answer

PromiseStep == [Promise!Next]_(Promise!vars)

\* Every step of the engine is a step of GoalPromise, or a stutter of it.
LEMMA NextPromise ==
  ASSUME TypeOK, EndInv, LifeInv, AgeInv, HomeInv, [Next]_vars
  PROVE  PromiseStep
<1> USE ActionEngineAssumptions
<1>1. /\ outcome \in [Goals -> Outcomes \cup {NoOutcome}] /\ ends \in [Goals -> Nat]
      /\ due \subseteq Goals /\ poll \in [Polls -> PollStates]
      /\ answer \in [Polls -> Outcomes \cup {NoOutcome, Expired}]
      /\ ((resPc # "recv") => (resPoll \in Polls))
      /\ waiters \in [Goals -> SUBSET Polls] /\ waking \in [Goals -> SUBSET Polls]
      /\ pending \in [Goals -> SUBSET Polls]
  BY DEF TypeOK, EndersOK, MapsOK, SlotsOK, PollsOK
<1>2. ASSUME UNCHANGED <<outcome, ends, due, poll, answer>>
      PROVE  PromiseStep
  BY <1>1, <1>2, PromiseStutters DEF PromiseStep, Promise!vars
<1>3. ASSUME NEW P \in SUBSET Polls, Promise!Lose(P)
      PROVE  PromiseStep
  BY <1>3 DEF PromiseStep, Promise!Next
<1>4. ASSUME NEW p \in Polls, Promise!Answer(p)
      PROVE  PromiseStep
  BY <1>4 DEF PromiseStep, Promise!Next
<1>5. CASE UNCHANGED vars
  BY <1>2, <1>5 DEF vars, stateVars, enderVars, resultVars
<1>6. ASSUME NEW g \in Goals, RecvNextGoal(g) \/ Refuse(g) \/ AcceptStep(g)
      PROVE  PromiseStep
  <2>1. CASE AcceptReplyFails(g)
    <3>1. /\ UNCHANGED <<outcome, ends, due, answer>>
          /\ \A p \in Polls : poll'[p] = IF p \in waiters[g] THEN "dropped" ELSE poll[p]
      BY <2>1 DEF AcceptReplyFails, enderVars
    <3>2. \A p \in waiters[g] : poll[p] \in Open
      BY DEF HomeInv, HomeOf, Home, Open
    <3> QED BY <1>1, <1>3, <3>1, <3>2, PromiseLoses
  <2>2. CASE ~AcceptReplyFails(g)
    <3>1. UNCHANGED <<outcome, ends, due, poll, answer>>
      BY <1>6, <2>2 DEF AcceptStep, RecvNextGoal, Refuse, AcceptRegister, AcceptEarlyCancel,
         AcceptAdopt, AcceptExtend, AcceptReply, TrackSenderGoal, stateVars, enderVars, resultVars
    <3> QED BY <1>2, <3>1
  <2> QED BY <2>1, <2>2
<1>7. ASSUME NEW g \in Goals, EnderStep(g) \/ WorkerStep(g)
      PROVE  PromiseStep
  <2>1. CASE \E e \in Enders \cup {Abandon} : ReplaceState(g, e)
    <3>1. PICK e \in Enders \cup {Abandon} : ReplaceState(g, e)
      BY <2>1
    <3>2. /\ ender[g][e] = "swapped" /\ outcome' = [outcome EXCEPT ![g] = ending[g]]
          /\ UNCHANGED <<ends, due, poll, answer>>
      BY <3>1 DEF ReplaceState, resultVars
    <3>3. outcome[g] = NoOutcome /\ ending[g] \in Outcomes
      BY <3>2 DEF EndInv, LifeInv, LifeOf
    <3>4. Got' = Got
      BY <3>2 DEF Got
    <3>5. Promise!Decide(g, ending[g])
      BY <3>2, <3>3, <3>4 DEF Promise!Decide
    <3> QED BY <3>3, <3>5 DEF PromiseStep, Promise!Next
  <2>2. CASE \E e \in Enders \cup {Abandon} : PublishEnd(g, e)
    <3>1. PICK e \in Enders \cup {Abandon} : PublishEnd(g, e)
      BY <2>2
    <3>2. /\ ender[g][e] = "waking" /\ ends' = [ends EXCEPT ![g] = @ + 1]
          /\ UNCHANGED <<outcome, due, poll, answer>>
      BY <3>1 DEF PublishEnd, stateVars, resultVars
    <3>3. outcome[g] # NoOutcome /\ ends[g] = 0
      BY <3>2 DEF EndInv, LifeInv, LifeOf, Winning
    <3>4. ends' = [ends EXCEPT ![g] = 1]
      BY <1>1, <3>2, <3>3
    <3>5. Got' = Got
      BY <3>2 DEF Got
    <3>6. Promise!Close(g)
      BY <3>2, <3>3, <3>4, <3>5 DEF Promise!Close
    <3> QED BY <3>6 DEF PromiseStep, Promise!Next
  <2>3. CASE \E e \in Enders \cup {Abandon}, p \in Polls : WakeWaiter(g, e, p)
    <3>1. PICK e \in Enders \cup {Abandon}, p \in Polls : WakeWaiter(g, e, p)
      BY <2>3
    <3>2. /\ ender[g][e] = "waking" /\ p \in waking[g]
          /\ poll' = [poll EXCEPT ![p] = "answered"]
          /\ answer' = [answer EXCEPT ![p] = outcome[g]] /\ UNCHANGED <<outcome, ends, due>>
      BY <3>1 DEF WakeWaiter, stateVars
    <3>3. PollOf[p] = g /\ poll[p] \in Open /\ outcome[g] # NoOutcome
      BY <3>2 DEF HomeInv, HomeOf, Home, LifeInv, LifeOf, Open
    <3>4. Promise!Answer(p)
      BY <1>1, <3>2, <3>3, PromiseAnswers
    <3> QED BY <1>4, <3>4
  <2>4. CASE \E e \in Enders : DeliverDropped(g, e)
    <3>1. /\ UNCHANGED <<outcome, ends, due, answer>>
          /\ \A p \in Polls : poll'[p] = IF p \in waking[g] THEN "dropped" ELSE poll[p]
      BY <2>4 DEF DeliverDropped, stateVars
    <3>2. \A p \in waking[g] : poll[p] \in Open
      BY DEF HomeInv, HomeOf, Home, Open
    <3> QED BY <1>1, <1>3, <3>1, <3>2, PromiseLoses
  <2>5. CASE \/ AbandonSwap(g) \/ \E e \in Enders, o \in Results : Deliver(g, e, o)
             \/ ContextDrop(g) \/ \E l \in Links : Link(g, l) \/ Unlink(g, l)
    <3>1. UNCHANGED <<outcome, ends, due, poll, answer>>
      BY <2>5 DEF AbandonSwap, Deliver, Swap, ContextDrop, Link, Unlink, stateVars, enderVars,
         resultVars
    <3> QED BY <1>2, <3>1
  <2> QED BY <1>7, <2>1, <2>2, <2>3, <2>4, <2>5 DEF EnderStep, WorkerStep
<1>8. CASE (\E p \in Polls : RecvResultPoll(p)) \/ ResultStep \/ ResultLoopAborted
  <2>1. UNCHANGED <<outcome, ends, due>>
    BY <1>8 DEF ResultStep, RecvResultPoll, RelookUnderLock, RouteUnderLock, ActOnSlot,
       ResultLoopAborted, stateVars, enderVars
  <2>2. (resPc # "recv") => (resPoll \in Polls /\ poll[resPoll] = "handling")
    BY <1>1 DEF HomeInv
  <2>3. ASSUME NEW p \in Polls, poll[p] \in Open, NEW x \in Open, poll' = [poll EXCEPT ![p] = x],
               answer' = answer
        PROVE  PromiseStep
    <3>1. \A q \in Polls : \/ poll'[q] = poll[q] /\ answer'[q] = answer[q]
                           \/ poll[q] \in Open /\ poll'[q] \in Open
      BY <1>1, <2>3
    <3> QED BY <1>1, <2>1, <3>1, PromiseStutters DEF PromiseStep, Promise!vars
  <2>4. ASSUME NEW p \in Polls, poll[p] \in Open, poll' = [poll EXCEPT ![p] = "dropped"],
               answer' = answer
        PROVE  PromiseStep
    <3>1. \A q \in Polls : poll'[q] = IF q \in {p} THEN "dropped" ELSE poll[q]
      BY <1>1, <2>4
    <3>2. Promise!Lose({p})
      BY <1>1, <2>1, <2>4, <3>1, PromiseLoses
    <3> QED BY <1>3, <3>2
  <2>5. CASE \E p \in Polls : RecvResultPoll(p)
    BY <2>3, <2>5 DEF RecvResultPoll, Open
  <2>6. CASE RelookUnderLock
    BY <1>2, <2>1, <2>6 DEF RelookUnderLock
  <2>7. CASE RouteUnderLock
    <3>1. resPoll \in Polls /\ poll[resPoll] \in Open
      BY <2>2, <2>7 DEF RouteUnderLock, Open
    <3>2. CASE Tombstoned(PollOf[resPoll])
      <4>1. /\ poll' = [poll EXCEPT ![resPoll] = "answered"]
            /\ answer' = [answer EXCEPT ![resPoll] = Expired]
        BY <2>7, <3>2 DEF RouteUnderLock, Answered
      <4>2. PollOf[resPoll] \in due /\ outcome[PollOf[resPoll]] # NoOutcome
        BY <1>1, <3>1, <3>2 DEF Tombstoned, AgeInv, LifeInv, LifeOf
      <4>3. Promise!Answer(resPoll)
        BY <1>1, <2>1, <3>1, <4>1, <4>2, PromiseAnswers
      <4> QED BY <1>4, <3>1, <4>3
    <3>3. CASE ~Tombstoned(PollOf[resPoll])
      <4>1. /\ \/ poll' = [poll EXCEPT ![resPoll] = "dropped"]
               \/ poll' = [poll EXCEPT ![resPoll] = "parked"]
            /\ answer' = answer
        BY <2>7, <3>3 DEF RouteUnderLock
      <4> QED BY <2>3, <2>4, <3>1, <4>1 DEF Open
    <3> QED BY <3>2, <3>3
  <2>8. CASE ActOnSlot
    <3>1. resPoll \in Polls /\ poll[resPoll] \in Open
      BY <2>2, <2>8 DEF ActOnSlot, Open
    <3>2. CASE state[PollOf[resPoll]] = "terminal"
      <4>1. /\ poll' = [poll EXCEPT ![resPoll] = "answered"]
            /\ answer' = [answer EXCEPT ![resPoll] = SlotAnswer(PollOf[resPoll])]
        BY <2>8, <3>2 DEF ActOnSlot, Answered
      <4>2. outcome[PollOf[resPoll]] # NoOutcome
        BY <3>1, <3>2 DEF LifeInv, LifeOf
      <4>3. Promise!Answer(resPoll)
        BY <1>1, <2>1, <3>1, <4>1, <4>2, PromiseAnswers DEF SlotAnswer
      <4> QED BY <1>4, <3>1, <4>3
    <3>3. CASE state[PollOf[resPoll]] # "terminal"
      <4>1. /\ \/ poll' = [poll EXCEPT ![resPoll] = "dropped"]
               \/ poll' = [poll EXCEPT ![resPoll] = "parked"]
            /\ answer' = answer
        BY <2>8, <3>3 DEF ActOnSlot
      <4> QED BY <2>3, <2>4, <3>1, <4>1 DEF Open
    <3> QED BY <3>2, <3>3
  <2>9. CASE ResultLoopAborted
    BY <2>2, <2>4, <2>9 DEF ResultLoopAborted, Open
  <2> QED BY <1>8, <2>5, <2>6, <2>7, <2>8, <2>9 DEF ResultStep
<1>9. CASE (\E c \in Cancels : RecvCancel(c)) \/ CancelStep
  <2>1. UNCHANGED <<outcome, ends, due, poll, answer>>
    BY <1>9 DEF CancelStep, RecvCancel, CancelLookTombstone, RememberEarlyCancel, CancelSlot,
       CancelTakes, CancelTokens, stateVars, enderVars, resultVars
  <2> QED BY <1>2, <2>1
<1>10. CASE SweepStep
  <2>1. CASE SweepPolls
    <3> DEFINE P == {p \in Polls : p \in pending[PollOf[p]] \cap parkDue}
    <3>1. /\ UNCHANGED <<outcome, ends, due, answer>>
          /\ \A p \in Polls : poll'[p] = IF p \in P THEN "dropped" ELSE poll[p]
      BY <2>1 DEF SweepPolls, stateVars, enderVars
    <3>2. \A p \in P : poll[p] \in Open
      BY DEF HomeInv, HomeOf, Home, Open
    <3>3. P \in SUBSET Polls
      OBVIOUS
    <3> HIDE DEF P
    <3> QED BY <1>1, <1>3, <3>1, <3>2, <3>3, PromiseLoses
  <2>2. CASE ~SweepPolls
    <3>1. UNCHANGED <<outcome, ends, due, poll, answer>>
      BY <1>10, <2>2 DEF SweepStep, SweepEvict, SweepLockTombs, SweepTombstone,
         EndIdleSenderWatches, SweepEarlyCancels, stateVars, enderVars, resultVars
    <3> QED BY <1>2, <3>1
  <2> QED BY <2>1, <2>2
<1>11. ASSUME NEW w \in Goals, WatchTaskStep(w) \/ WatchFails(w)
       PROVE  PromiseStep
  <2>1. UNCHANGED <<outcome, ends, due, poll, answer>>
    BY <1>11 DEF WatchTaskStep, WatchFails, WatchResolve, WatchReadGone, WatchProbeAbsent,
       WatchProbeSeen, WatchTo, ForgetSender, SignalSenderGone, SenderGoneTakes, SenderGoneTokens,
       WatchEnds, stateVars, enderVars, resultVars
  <2> QED BY <1>2, <2>1
<1>12. CASE EngineDrop \/ TimeStep \/ PresenceStep
  <2>1. CASE \E g \in Goals : RetentionPasses(g)
    <3>1. PICK g \in Goals : RetentionPasses(g)
      BY <2>1
    <3>2. due' = due \cup {g} /\ state[g] = "terminal" /\ UNCHANGED <<outcome, ends, poll, answer>>
      BY <3>1 DEF RetentionPasses, enderVars, resultVars
    <3>3. outcome[g] # NoOutcome
      BY <3>2 DEF LifeInv, LifeOf
    <3>4. Got' = Got
      BY <3>2 DEF Got
    <3>5. Promise!Age(g)
      BY <3>2, <3>3, <3>4 DEF Promise!Age
    <3> QED BY <3>5 DEF PromiseStep, Promise!Next
  <2>2. CASE ~ \E g \in Goals : RetentionPasses(g)
    <3>1. UNCHANGED <<outcome, ends, due, poll, answer>>
      BY <1>12, <2>2 DEF EngineDrop, TimeStep, PresenceStep, ParkDeadlinePasses, EarlyCancelAges,
         SenderDies, TokenHidden, TokenBack, TokenGone, stateVars, enderVars, resultVars
    <3> QED BY <1>2, <3>1
  <2> QED BY <2>1, <2>2
<1> QED BY <1>5, <1>6, <1>7, <1>8, <1>9, <1>10, <1>11, <1>12 DEF Next

LEMMA InitPromise == Init => Promise!Init
<1> SUFFICES ASSUME Init
             PROVE  Promise!Init
  OBVIOUS
<1>1. \A p \in Polls : Got[p] = NoOutcome
  BY GotAt DEF Init, Open
<1>2. Got = [p \in Polls |-> NoOutcome]
  BY <1>1 DEF Got
<1> QED BY <1>2 DEF Init, Promise!Init

\* The engine implements GoalPromise, for any goals, polls and caps and with every
\* fault: a goal gets one result, the stream ends once and after it, and a result
\* request gets that result, or Expired once the retention window passed, or is
\* dropped (the accept path, transition_terminal, act_on_slot, route_result_poll
\* and the sweeper together).
THEOREM EngineImplementsPromise == Spec => PromiseKept
<1>1. Init => Promise!Init
  BY InitPromise
<1>2. TypeOK /\ EndInv /\ LifeInv /\ AgeInv /\ HomeInv /\ [Next]_vars
        => [Promise!Next]_(Promise!vars)
  BY NextPromise DEF PromiseStep
<1> QED BY <1>1, <1>2, TypeCorrect, EndInvariant, LifeInvariant, AgeInvariant, HomeInvariant, PTL
        DEF Spec, PromiseKept, Promise!Spec
=============================================================================
