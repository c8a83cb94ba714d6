------------------------- MODULE EngineWatchProofs -------------------------
(***************************************************************************)
(* Proofs about the cancel signal in ActionEngine: the tokens linked to it *)
(* and the watches of the senders.  The constants are arbitrary, as in     *)
(* ActionEngineProofs; a theorem names the faults it excludes.             *)
(***************************************************************************)
EXTENDS ActionEngineProofs

-----------------------------------------------------------------------------
(***************************************************************************)
(* The entries of the senders and the tasks that watch them                *)
(***************************************************************************)

InService == {"live", "dropped"}
Slotted   == {"registered", "cancel_checked", "adopting", "adopted", "replied", "live", "dropped"}
Guarding  == AtAwait \cup {"sentenced"}
Executing == {"signalling", "taking", "cancelling"}

\* A task exists once its goal is in service; a task that signals holds goals of
\* its own sender; the task that owns an entry still guards it.
TasksInv ==
  /\ \A g \in Goals : (phase[g] \notin InService) => (watch[g] = "none")
  /\ \A s \in Senders : \A g \in entry[s] : SenderOf[g] = s
  /\ \A w \in Goals : (watch[w] \notin Executing) => (doomed[w] = {})
  /\ \A w \in Goals : \A g \in doomed[w] : SenderOf[g] = SenderOf[w]
  /\ \A s \in Senders : (owner[s] # NoGoal) =>
       (SenderOf[owner[s]] = s /\ watch[owner[s]] \in Guarding)

\* A goal that did not end keeps its slot in the registry.
SlotsInv == \A g \in Goals : (phase[g] \in Slotted /\ g \notin terminal) => (g \in registry)

\* A live goal that did not end is in the entry of its sender, beside a task, or
\* in the hands of a task that signals it, or has its signal.
WatchedOf(g) ==
  \/ g \in entry[SenderOf[g]] /\ owner[SenderOf[g]] # NoGoal
  \/ \E w \in Goals : g \in doomed[w]
  \/ g \in cancelled

WatchedInv == (running /\ "watch_fails" \notin Faults) =>
                \A g \in Goals : (phase[g] = "live" /\ g \notin terminal) => WatchedOf(g)

SenderInv == TasksInv /\ SlotsInv /\ WatchedInv

senderVars == <<running, phase, registry, terminal, cancelled, entry, owner, watch, doomed>>

LEMMA SenderInvFrame == SenderInv /\ UNCHANGED senderVars => SenderInv'
BY DEF SenderInv, TasksInv, SlotsInv, WatchedInv, WatchedOf, senderVars

\* A task that does not end, sentence or execute moves between its awaits.
LEMMA TaskMoves ==
  ASSUME TypeOK, SenderInv, NEW w \in Goals, NEW to \in WatchStates, WatchTo(w, to),
         (watch[w] \in AtAwait /\ to \in Guarding) \/ (doomed[w] = {} /\ watch[w] \in Executing)
  PROVE  SenderInv'
<1>1. /\ watch \in [Goals -> WatchStates] /\ phase \in [Goals -> Phases]
      /\ owner \in [Senders -> Goals \cup {NoGoal}]
  BY DEF TypeOK, WatchesOK, AcceptOK
<1>2. /\ watch' = [watch EXCEPT ![w] = to]
      /\ UNCHANGED <<running, phase, registry, terminal, cancelled, entry, owner, doomed>>
  BY DEF WatchTo, acceptVars, mapVars, stateVars, signalVars
<1>3. phase[w] \in InService
  BY DEF SenderInv, TasksInv, AtAwait, Executing
<1>4. doomed[w] = {}
  BY DEF SenderInv, TasksInv, AtAwait, Executing
<1>5. \A s \in Senders : owner[s] = w /\ owner[s] # NoGoal => to \in Guarding
  BY DEF SenderInv, TasksInv, AtAwait, Executing, Guarding
<1>6. TasksInv'
  BY <1>1, <1>2, <1>3, <1>4, <1>5 DEF SenderInv, TasksInv
<1>7. SlotsInv' /\ WatchedInv'
  BY <1>2 DEF SenderInv, SlotsInv, WatchedInv, WatchedOf
<1> QED BY <1>6, <1>7 DEF SenderInv

\* Every step keeps SenderInv.
LEMMA NextSender == TypeOK /\ CancelInv /\ SenderInv /\ [Next]_vars => SenderInv'
<1> SUFFICES ASSUME TypeOK, CancelInv, SenderInv, [Next]_vars
             PROVE  SenderInv'
  OBVIOUS
<1> USE ActionEngineAssumptions, NoGoalAssumption
<1>1. /\ phase \in [Goals -> Phases] /\ registry \subseteq Goals /\ terminal \subseteq Goals
      /\ cancelled \subseteq Goals /\ entry \in [Senders -> SUBSET Goals]
      /\ owner \in [Senders -> Goals \cup {NoGoal}] /\ watch \in [Goals -> WatchStates]
      /\ doomed \in [Goals -> SUBSET Goals]
  BY DEF TypeOK, AcceptOK, MapsOK, SlotsOK, SignalsOK, WatchesOK
<1>2. CASE UNCHANGED vars
  BY <1>2, SenderInvFrame DEF vars, senderVars, acceptVars, mapVars, stateVars, signalVars, watchVars
<1>3. ASSUME NEW g \in Goals, RecvNextGoal(g) \/ Refuse(g) \/ AcceptStep(g)
      PROVE  SenderInv'
  <2>1. /\ UNCHANGED <<running, terminal, doomed>> /\ cancelled \subseteq cancelled'
        /\ \A h \in Goals : (h # g) => (phase'[h] = phase[h] /\ ((h \in registry') <=> (h \in registry)))
    BY <1>1, <1>3 DEF AcceptStep, RecvNextGoal, Refuse, AcceptRegister, AcceptEarlyCancel,
       AcceptAdopt, AcceptExtend, AcceptReply, AcceptReplyFails, TrackSenderGoal, acceptVars,
       mapVars, stateVars, signalVars, watchVars
  <2>2. SlotsInv'
    <3>1. (phase'[g] \in Slotted) => (g \in registry' \/ (phase[g] \in Slotted /\ registry' = registry))
      BY <1>1, <1>3 DEF AcceptStep, RecvNextGoal, Refuse, AcceptRegister, AcceptEarlyCancel,
         AcceptAdopt, AcceptExtend, AcceptReply, AcceptReplyFails, TrackSenderGoal, mapVars, Slotted
    <3> QED BY <2>1, <3>1 DEF SenderInv, SlotsInv
  <2>3. CASE TrackSenderGoal(g)
    <3> DEFINE s == SenderOf[g]
    <3>1. /\ phase[g] = "replied" /\ phase' = [phase EXCEPT ![g] = "live"]
          /\ entry' = [entry EXCEPT ![s] = @ \cup {g}]
          /\ \/ /\ owner[s] = NoGoal /\ owner' = [owner EXCEPT ![s] = g]
                /\ watch' = [watch EXCEPT ![g] = "resolving"]
             \/ owner[s] # NoGoal /\ UNCHANGED <<owner, watch>>
      BY <2>3 DEF TrackSenderGoal
    <3>2. watch[g] = "none" /\ doomed[g] = {}
      BY <3>1 DEF SenderInv, TasksInv, InService, Executing
    <3>3. s \in Senders /\ NoGoal # g
      OBVIOUS
    <3>4. phase'[g] = "live"
      BY <1>1, <3>1
    <3>5. \A t \in Senders : \A h \in entry'[t] : SenderOf[h] = t
      BY <1>1, <3>1, <3>3 DEF SenderInv, TasksInv
    <3>6. \A h \in Goals : (phase'[h] \notin InService) => (watch'[h] = "none")
      BY <1>1, <2>1, <3>1, <3>4 DEF SenderInv, TasksInv, InService
    <3>7. \A h \in Goals : (watch'[h] = watch[h]) \/ h = g
      BY <1>1, <3>1
    <3>8. ASSUME NEW t \in Senders, owner'[t] # NoGoal
          PROVE  SenderOf[owner'[t]] = t /\ watch'[owner'[t]] \in Guarding
      <4>1. CASE owner'[t] = owner[t]
        <5>1. SenderOf[owner[t]] = t /\ watch[owner[t]] \in Guarding /\ owner[t] \in Goals
          BY <1>1, <3>8, <4>1 DEF SenderInv, TasksInv
        <5>2. owner[t] # g
          BY <3>2, <5>1 DEF Guarding, AtAwait
        <5> QED BY <3>7, <4>1, <5>1, <5>2
      <4>2. CASE owner'[t] # owner[t]
        BY <1>1, <3>1, <3>3, <4>2 DEF Guarding, AtAwait
      <4> QED BY <4>1, <4>2
    <3>9. TasksInv'
      BY <2>1, <3>2, <3>5, <3>6, <3>7, <3>8 DEF SenderInv, TasksInv
    <3>10. ASSUME running', "watch_fails" \notin Faults, NEW h \in Goals, phase'[h] = "live",
                  h \notin terminal'
           PROVE  WatchedOf(h)'
      <4>1. \A t \in Senders : entry[t] \subseteq entry'[t] /\ (owner[t] # NoGoal => owner'[t] # NoGoal)
        BY <1>1, <3>1, <3>3
      <4>2. CASE h = g
        BY <1>1, <3>1, <3>3, <4>2 DEF WatchedOf
      <4>3. CASE h # g
        <5>1. WatchedOf(h) /\ SenderOf[h] \in Senders
          BY <2>1, <3>10, <4>3 DEF SenderInv, WatchedInv
        <5> QED BY <2>1, <4>1, <5>1 DEF WatchedOf
      <4> QED BY <4>2, <4>3
    <3> QED BY <2>2, <3>9, <3>10 DEF SenderInv, WatchedInv
  <2>4. CASE ~TrackSenderGoal(g)
    <3>1. /\ UNCHANGED <<entry, owner, watch>> /\ phase[g] \notin InService
          /\ phase'[g] \notin InService
      BY <1>1, <1>3, <2>4 DEF AcceptStep, RecvNextGoal, Refuse, AcceptRegister, AcceptEarlyCancel,
         AcceptAdopt, AcceptExtend, AcceptReply, AcceptReplyFails, watchVars, InService
    <3>2. TasksInv'
      BY <2>1, <3>1 DEF SenderInv, TasksInv
    <3>3. WatchedInv'
      BY <2>1, <3>1 DEF SenderInv, WatchedInv, WatchedOf, InService
    <3> QED BY <2>2, <3>2, <3>3 DEF SenderInv
  <2> QED BY <2>3, <2>4
<1>4. ASSUME NEW g \in Goals, EnderStep(g) \/ WorkerStep(g)
      PROVE  SenderInv'
  <2>1. /\ UNCHANGED <<running, registry, cancelled, entry, owner, watch, doomed>>
        /\ terminal \subseteq terminal'
    BY <1>4 DEF EnderStep, WorkerStep, AbandonSwap, Deliver, Swap, ReplaceState, WakeWaiter,
       PublishEnd, DeliverDropped, ContextDrop, Link, Unlink, acceptVars, mapVars, stateVars,
       signalVars, watchVars
  <2>2. \A h \in Goals : \/ phase'[h] = phase[h]
                         \/ phase[h] = "live" /\ phase'[h] = "dropped"
    BY <1>1, <1>4 DEF EnderStep, WorkerStep, AbandonSwap, Deliver, Swap, ReplaceState, WakeWaiter,
       PublishEnd, DeliverDropped, ContextDrop, Link, Unlink, acceptVars
  <2>3. TasksInv'
    BY <2>1, <2>2 DEF SenderInv, TasksInv, InService
  <2>4. SlotsInv'
    BY <2>1, <2>2 DEF SenderInv, SlotsInv, Slotted
  <2>5. WatchedInv'
    BY <2>1, <2>2 DEF SenderInv, WatchedInv, WatchedOf
  <2> QED BY <2>3, <2>4, <2>5 DEF SenderInv
<1>5. CASE (\E p \in Polls : RecvResultPoll(p)) \/ ResultStep \/ ResultLoopAborted
  <2>1. UNCHANGED senderVars
    BY <1>5 DEF ResultStep, RecvResultPoll, RelookUnderLock, RouteUnderLock, ActOnSlot,
       ResultLoopAborted, senderVars, acceptVars, mapVars, stateVars, signalVars, watchVars
  <2> QED BY <2>1, SenderInvFrame
<1>6. CASE (\E c \in Cancels : RecvCancel(c)) \/ CancelStep
  <2>1. /\ UNCHANGED <<running, phase, registry, terminal, entry, owner, watch, doomed>>
        /\ cancelled \subseteq cancelled'
    BY <1>6 DEF CancelStep, RecvCancel, CancelLookTombstone, RememberEarlyCancel, CancelSlot,
       CancelTakes, CancelTokens, SignalCancel, acceptVars, mapVars, stateVars, signalVars, watchVars
  <2> QED BY <2>1 DEF SenderInv, TasksInv, SlotsInv, WatchedInv, WatchedOf
<1>7. CASE SweepStep
  <2>1. CASE SweepEvict
    <3>1. /\ UNCHANGED <<running, phase, terminal, cancelled, entry, owner, watch, doomed>>
          /\ \A g \in registry \ registry' : state[g] = "terminal"
      BY <2>1 DEF SweepEvict, acceptVars, stateVars, signalVars, watchVars
    <3>2. SlotsInv'
      BY <3>1 DEF SenderInv, SlotsInv, CancelInv
    <3> QED BY <3>1, <3>2 DEF SenderInv, TasksInv, WatchedInv, WatchedOf
  <2>2. CASE EndIdleSenderWatches
    <3> DEFINE idle == {s \in Senders : owner[s] # NoGoal /\ LiveGoalsOf(s) = {}}
    <3>1. /\ UNCHANGED <<running, phase, registry, terminal, cancelled, doomed>>
          /\ entry' = [s \in Senders |-> LiveGoalsOf(s)]
          /\ owner' = [s \in Senders |-> IF s \in idle THEN NoGoal ELSE owner[s]]
          /\ watch' = [g \in Goals |-> IF (\E s \in idle : owner[s] = g) /\ watch[g] \in AtAwait
                                       THEN "done" ELSE watch[g]]
      BY <2>2 DEF EndIdleSenderWatches, acceptVars, mapVars, stateVars, signalVars
    <3>2. \A w \in Goals : watch'[w] = watch[w] \/ (watch[w] \in AtAwait /\ watch'[w] = "done")
      BY <3>1
    <3>3. ASSUME NEW s \in Senders, owner'[s] # NoGoal
          PROVE  SenderOf[owner'[s]] = s /\ watch'[owner'[s]] \in Guarding
      <4>1. s \notin idle /\ owner'[s] = owner[s] /\ owner[s] \in Goals
        BY <1>1, <3>1, <3>3
      <4>2. SenderOf[owner[s]] = s /\ watch[owner[s]] \in Guarding
        BY <3>3, <4>1 DEF SenderInv, TasksInv
      <4>3. \A t \in idle : owner[t] # owner[s]
        BY <4>1, <4>2 DEF SenderInv, TasksInv
      <4> QED BY <3>1, <4>1, <4>2, <4>3
    <3>4. TasksInv'
      <4>1. \A g \in Goals : (phase'[g] \notin InService) => (watch'[g] = "none")
        BY <3>1, <3>2 DEF SenderInv, TasksInv, AtAwait
      <4>2. \A s \in Senders : \A g \in entry'[s] : SenderOf[g] = s
        BY <3>1 DEF SenderInv, TasksInv, LiveGoalsOf
      <4>3. \A w \in Goals : (watch'[w] \notin Executing) => (doomed'[w] = {})
        BY <3>1, <3>2 DEF SenderInv, TasksInv, AtAwait, Executing
      <4> QED BY <3>1, <3>3, <4>1, <4>2, <4>3 DEF SenderInv, TasksInv
    <3>5. ASSUME running', "watch_fails" \notin Faults, NEW g \in Goals, phase'[g] = "live",
                 g \notin terminal'
          PROVE  WatchedOf(g)'
      <4>1. WatchedOf(g) /\ g \in registry /\ SenderOf[g] \in Senders
        BY <3>1, <3>5 DEF SenderInv, WatchedInv, SlotsInv, Slotted
      <4>2. CASE g \in entry[SenderOf[g]] /\ owner[SenderOf[g]] # NoGoal
        <5>1. g \in LiveGoalsOf(SenderOf[g])
          BY <3>1, <3>5, <4>1, <4>2 DEF LiveGoalsOf
        <5> QED BY <3>1, <4>1, <4>2, <5>1 DEF WatchedOf
      <4> QED BY <3>1, <4>1, <4>2 DEF WatchedOf
    <3> QED BY <3>1, <3>4, <3>5 DEF SenderInv, SlotsInv, WatchedInv
  <2>3. CASE ~SweepEvict /\ ~EndIdleSenderWatches
    <3>1. UNCHANGED senderVars
      BY <1>7, <2>3 DEF SweepStep, SweepLockTombs, SweepTombstone, SweepPolls, SweepEarlyCancels,
         senderVars, acceptVars, mapVars, stateVars, signalVars, watchVars
    <3> QED BY <3>1, SenderInvFrame
  <2> QED BY <2>1, <2>2, <2>3
<1>8. ASSUME NEW w \in Goals, WatchTaskStep(w) \/ WatchFails(w)
      PROVE  SenderInv'
  <2> DEFINE s == SenderOf[w]
  <2>s. s \in Senders
    OBVIOUS
  <2>1. CASE WatchResolve(w) \/ WatchReadGone(w) \/ WatchProbeAbsent(w) \/ WatchProbeSeen(w)
    <3>1. PICK to \in Guarding : WatchTo(w, to) /\ watch[w] \in AtAwait
      BY <2>1 DEF WatchResolve, WatchReadGone, WatchProbeAbsent, WatchProbeSeen, AtAwait, Guarding
    <3>2. Guarding \subseteq WatchStates
      BY DEF Guarding, AtAwait, WatchStates
    <3> QED BY <3>1, <3>2, TaskMoves
  <2>2. CASE WatchEnds(w)
    BY <2>2, TaskMoves DEF WatchEnds, WatchStates, Executing
  <2>3. CASE ForgetSender(w)
    <3>1. /\ watch[w] = "sentenced" /\ watch' = [watch EXCEPT ![w] = "signalling"]
          /\ doomed' = [doomed EXCEPT ![w] = entry[s]] /\ entry' = [entry EXCEPT ![s] = {}]
          /\ owner' = [owner EXCEPT ![s] = NoGoal]
          /\ UNCHANGED <<running, phase, registry, terminal, cancelled>>
      BY <2>3 DEF ForgetSender, acceptVars, mapVars, stateVars, signalVars
    <3>2. phase[w] \in InService /\ doomed[w] = {}
      BY <3>1 DEF SenderInv, TasksInv, Executing
    <3>3. \A g \in Goals : (phase'[g] \notin InService) => (watch'[g] = "none")
      BY <1>1, <3>1, <3>2 DEF SenderInv, TasksInv
    <3>4. \A t \in Senders : \A g \in entry'[t] : SenderOf[g] = t
      BY <1>1, <2>s, <3>1 DEF SenderInv, TasksInv
    <3>5. \A v \in Goals : (watch'[v] \notin Executing) => (doomed'[v] = {})
      BY <1>1, <3>1 DEF SenderInv, TasksInv, Executing
    <3>6. \A v \in Goals : \A g \in doomed'[v] : SenderOf[g] = SenderOf[v]
      BY <1>1, <2>s, <3>1 DEF SenderInv, TasksInv
    <3>7. ASSUME NEW t \in Senders, owner'[t] # NoGoal
          PROVE  SenderOf[owner'[t]] = t /\ watch'[owner'[t]] \in Guarding
      <4>1. t # s /\ owner'[t] = owner[t] /\ owner[t] \in Goals
        BY <1>1, <2>s, <3>1, <3>7
      <4>2. SenderOf[owner[t]] = t /\ watch[owner[t]] \in Guarding
        BY <3>7, <4>1 DEF SenderInv, TasksInv
      <4> QED BY <1>1, <3>1, <4>1, <4>2
    <3>8. TasksInv'
      BY <3>3, <3>4, <3>5, <3>6, <3>7 DEF TasksInv
    <3>9. ASSUME running', "watch_fails" \notin Faults, NEW g \in Goals, phase'[g] = "live",
                 g \notin terminal'
          PROVE  WatchedOf(g)'
      <4>1. WatchedOf(g) /\ SenderOf[g] \in Senders
        BY <3>1, <3>9 DEF SenderInv, WatchedInv
      <4>2. CASE g \in cancelled
        BY <3>1, <4>2 DEF WatchedOf
      <4>3. CASE \E v \in Goals : g \in doomed[v]
        BY <1>1, <3>1, <3>2, <4>3 DEF WatchedOf
      <4>4. CASE g \in entry[SenderOf[g]] /\ owner[SenderOf[g]] # NoGoal
        <5>1. CASE SenderOf[g] = s
          BY <1>1, <3>1, <4>4, <5>1 DEF WatchedOf
        <5>2. CASE SenderOf[g] # s
          BY <1>1, <3>1, <4>1, <4>4, <5>2 DEF WatchedOf
        <5> QED BY <5>1, <5>2
      <4> QED BY <4>1, <4>2, <4>3, <4>4 DEF WatchedOf
    <3> QED BY <3>1, <3>8, <3>9 DEF SenderInv, SlotsInv, WatchedInv
  <2>4. CASE \E g \in Goals : SignalSenderGone(w, g)
    <3>1. PICK g \in Goals : SignalSenderGone(w, g)
      BY <2>4
    <3>2. /\ watch[w] = "signalling" /\ doomed' = [doomed EXCEPT ![w] = @ \ {g}]
          /\ UNCHANGED <<running, phase, registry, terminal, entry, owner>>
          /\ cancelled \subseteq cancelled'
          /\ watch' = watch \/ watch' = [watch EXCEPT ![w] = "taking"]
          /\ (g \in registry /\ g \notin terminal) => (g \in cancelled')
      BY <3>1 DEF SignalSenderGone, SignalCancel, acceptVars, mapVars, stateVars
    <3>3. /\ \A v \in Goals : doomed'[v] \subseteq doomed[v]
          /\ \A v \in Goals, h \in Goals : (h # g /\ h \in doomed[v]) => (h \in doomed'[v])
      BY <1>1, <3>2
    <3>4. \A v \in Goals : (watch'[v] = watch[v]) \/ (v = w /\ watch'[v] = "taking")
      BY <1>1, <3>2
    <3>5. TasksInv'
      <4>1. phase[w] \in InService
        BY <3>2 DEF SenderInv, TasksInv
      <4>2. \A h \in Goals : (phase'[h] \notin InService) => (watch'[h] = "none")
        BY <3>2, <3>4, <4>1 DEF SenderInv, TasksInv
      <4>3. \A v \in Goals : (watch'[v] \notin Executing) => (doomed'[v] = {})
        BY <3>2, <3>3, <3>4 DEF SenderInv, TasksInv, Executing
      <4>4. \A t \in Senders : (owner[t] # NoGoal) => (watch'[owner[t]] = watch[owner[t]])
        BY <1>1, <3>2, <3>4 DEF SenderInv, TasksInv, Guarding, AtAwait
      <4> QED BY <3>2, <3>3, <4>2, <4>3, <4>4 DEF SenderInv, TasksInv
    <3>6. ASSUME running', "watch_fails" \notin Faults, NEW h \in Goals, phase'[h] = "live",
                 h \notin terminal'
          PROVE  WatchedOf(h)'
      <4>1. WatchedOf(h) /\ h \in registry
        BY <3>2, <3>6 DEF SenderInv, WatchedInv, SlotsInv, Slotted
      <4>2. CASE h = g
        BY <3>2, <3>6, <4>1, <4>2 DEF WatchedOf
      <4>3. CASE h # g
        BY <3>2, <3>3, <4>1, <4>3 DEF WatchedOf
      <4> QED BY <4>2, <4>3
    <3> QED BY <3>2, <3>5, <3>6 DEF SenderInv, SlotsInv, WatchedInv
  <2>5. CASE SenderGoneTakes(w) \/ SenderGoneTokens(w)
    <3>1. /\ watch[w] \in Executing
          /\ \E to \in Executing : watch' = [watch EXCEPT ![w] = to]
          /\ UNCHANGED <<running, phase, registry, terminal, cancelled, entry, owner, doomed>>
      BY <2>5 DEF SenderGoneTakes, SenderGoneTokens, acceptVars, mapVars, stateVars, Executing
    <3>2. phase[w] \in InService
      BY <3>1 DEF SenderInv, TasksInv, Executing
    <3>3. \A v \in Goals : (watch'[v] = watch[v]) \/ (v = w /\ watch'[v] \in Executing)
      BY <1>1, <3>1
    <3>4. \A t \in Senders : (owner[t] # NoGoal) => (watch'[owner[t]] = watch[owner[t]])
      BY <1>1, <3>1, <3>3 DEF SenderInv, TasksInv, Guarding, AtAwait, Executing
    <3>5. TasksInv'
      BY <3>1, <3>2, <3>3, <3>4 DEF SenderInv, TasksInv
    <3> QED BY <3>1, <3>5 DEF SenderInv, SlotsInv, WatchedInv, WatchedOf
  <2>6. CASE WatchFails(w)
    <3>1. /\ "watch_fails" \in Faults /\ watch[w] \in AtAwait
          /\ watch' = [watch EXCEPT ![w] = "done"] /\ entry' = [entry EXCEPT ![s] = {}]
          /\ owner' = [owner EXCEPT ![s] = NoGoal]
          /\ UNCHANGED <<running, phase, registry, terminal, cancelled, doomed>>
      BY <2>6 DEF WatchFails, acceptVars, mapVars, stateVars, signalVars, AtAwait
    <3>2. phase[w] \in InService /\ doomed[w] = {}
      BY <3>1 DEF SenderInv, TasksInv, AtAwait, Executing
    <3>3. \A v \in Goals : (watch'[v] = watch[v]) \/ v = w
      BY <1>1, <3>1
    <3>4. ASSUME NEW t \in Senders, owner'[t] # NoGoal
          PROVE  SenderOf[owner'[t]] = t /\ watch'[owner'[t]] \in Guarding
      <4>1. t # s /\ owner'[t] = owner[t] /\ owner[t] \in Goals
        BY <1>1, <2>s, <3>1, <3>4
      <4>2. SenderOf[owner[t]] = t /\ watch[owner[t]] \in Guarding
        BY <3>4, <4>1 DEF SenderInv, TasksInv
      <4> QED BY <3>3, <4>1, <4>2
    <3>5. \A t \in Senders : \A g \in entry'[t] : SenderOf[g] = t
      BY <1>1, <2>s, <3>1 DEF SenderInv, TasksInv
    <3>6. TasksInv'
      BY <3>1, <3>2, <3>3, <3>4, <3>5 DEF SenderInv, TasksInv
    <3> QED BY <3>1, <3>6 DEF SenderInv, SlotsInv, WatchedInv
  <2> QED BY <1>8, <2>1, <2>2, <2>3, <2>4, <2>5, <2>6 DEF WatchTaskStep
<1>9. CASE EngineDrop
  <2>1. /\ running' = FALSE /\ entry' = [s \in Senders |-> {}]
        /\ owner' = [s \in Senders |-> NoGoal]
        /\ UNCHANGED <<phase, registry, terminal, cancelled, doomed>>
    BY <1>9 DEF EngineDrop, mapVars, stateVars, signalVars
  <2>2. \A w \in Goals : watch'[w] = watch[w] \/ (watch[w] \in AtAwait /\ watch'[w] = "done")
    BY <1>9 DEF EngineDrop
  <2>3. \A g \in Goals : (phase'[g] \notin InService) => (watch'[g] = "none")
    BY <2>1, <2>2 DEF SenderInv, TasksInv, AtAwait
  <2>4. \A w \in Goals : (watch'[w] \notin Executing) => (doomed'[w] = {})
    BY <2>1, <2>2 DEF SenderInv, TasksInv, AtAwait, Executing
  <2>5. TasksInv'
    BY <2>1, <2>3, <2>4 DEF SenderInv, TasksInv
  <2> QED BY <2>1, <2>5 DEF SenderInv, SlotsInv, WatchedInv
<1>10. CASE TimeStep \/ PresenceStep
  <2>1. UNCHANGED senderVars
    BY <1>10 DEF TimeStep, PresenceStep, RetentionPasses, ParkDeadlinePasses, EarlyCancelAges,
       SenderDies, TokenHidden, TokenBack, TokenGone, senderVars, acceptVars, mapVars, stateVars,
       signalVars, watchVars
  <2> QED BY <2>1, SenderInvFrame
<1> QED BY <1>2, <1>3, <1>4, <1>5, <1>6, <1>7, <1>8, <1>9, <1>10 DEF Next

LEMMA InitSender == Init => SenderInv
BY ActionEngineAssumptions DEF Init, SenderInv, TasksInv, SlotsInv, WatchedInv, InService, Slotted

LEMMA SenderInvariant == Spec => []SenderInv
BY TypeCorrect, CancelInvariant, InitSender, NextSender, PTL DEF Spec

\* Every live goal is watched, however the admissions of goals of one sender, the
\* end of its idle watch, a sentence and the drop of the engine interleave: only a
\* subscription that fails leaves goals without a watch.
THEOREM LiveGoalsWatched ==
  ASSUME "watch_fails" \notin Faults
  PROVE  Spec => []LiveGoalWatched
<1>1. SenderInv => LiveGoalWatched
  <2> SUFFICES ASSUME SenderInv, running, NEW g \in Goals, phase[g] = "live", g \notin terminal
               PROVE  \/ /\ g \in entry[SenderOf[g]] /\ owner[SenderOf[g]] # NoGoal
                         /\ watch[owner[SenderOf[g]]] \in AtAwait \cup {"sentenced"}
                      \/ \E w \in Goals : g \in doomed[w]
                      \/ g \in cancelled
    BY DEF LiveGoalWatched
  <2>1. WatchedOf(g) /\ SenderOf[g] \in Senders
    BY ActionEngineAssumptions DEF SenderInv, WatchedInv
  <2> QED BY <2>1 DEF WatchedOf, SenderInv, TasksInv, Guarding
<1> QED BY <1>1, SenderInvariant, PTL

-----------------------------------------------------------------------------
(***************************************************************************)
(* The tokens linked to the signal                                         *)
(***************************************************************************)

\* t is in the hands of somebody who will cancel it.
Taken(t) == t \in canTok \/ \E w \in Goals : t \in watchTok[w]

\* A link that lives has its token cancelled, linked, or taken to be cancelled;
\* only a task between its two steps holds tokens; and from the moment the cancel
\* loop takes the tokens of a goal nothing is linked to the goal any more.
LinkInv ==
  /\ \A g \in Goals, l \in Links :
       (<<g, l>> \in held) => (<<g, l>> \in tokens \/ l \in linked[g] \/ Taken(<<g, l>>))
  /\ (canPc # "tokens") => (canTok = {})
  /\ \A w \in Goals : (watch[w] # "cancelling") => (watchTok[w] = {})
  /\ (canPc = "tokens") => (linked[CancelOf[canReq]] = {})
  /\ \A c \in Cancels : (reply[c] = "signalled") =>
       /\ linked[CancelOf[c]] = {}
       /\ \A l \in Links : <<CancelOf[c], l>> \notin canTok

linkVars == <<held, tokens, linked, canTok, watchTok, canPc, canReq, watch, reply>>

LEMMA LinkInvFrame == LinkInv /\ UNCHANGED linkVars => LinkInv'
BY DEF LinkInv, Taken, linkVars

\* Every step keeps LinkInv.
LEMMA NextLink == TypeOK /\ CancelInv /\ SenderInv /\ LinkInv /\ [Next]_vars => LinkInv'
<1> SUFFICES ASSUME TypeOK, CancelInv, SenderInv, LinkInv, [Next]_vars
             PROVE  LinkInv'
  OBVIOUS
<1> USE ActionEngineAssumptions, NoGoalAssumption
<1>1. /\ linked \in [Goals -> SUBSET Links] /\ tokens \subseteq Goals \X Links
      /\ held \subseteq Goals \X Links /\ canTok \subseteq Goals \X Links
      /\ watchTok \in [Goals -> SUBSET (Goals \X Links)] /\ watch \in [Goals -> WatchStates]
      /\ reply \in [Cancels -> CancelStates] /\ ((canPc # "recv") => (canReq \in Cancels))
      /\ \A w \in Goals : (watch[w] = "taking") => (signalling[w] \in Goals)
  BY DEF TypeOK, SignalsOK, CancelsOK, WatchesOK
<1>2. CASE UNCHANGED vars
  BY <1>2, LinkInvFrame DEF vars, linkVars, signalVars, cancelVars, watchVars
<1>m. ASSUME UNCHANGED <<held, tokens, linked, canTok, watchTok, canPc, canReq, reply>>,
             \A w \in Goals : (watch'[w] = watch[w]) \/ (watchTok[w] = {})
      PROVE  LinkInv'
  BY <1>m DEF LinkInv, Taken
<1>3. ASSUME NEW g \in Goals, RecvNextGoal(g) \/ Refuse(g) \/ AcceptStep(g)
      PROVE  LinkInv'
  <2>1. UNCHANGED <<held, tokens, linked, canTok, watchTok, canPc, canReq, reply>>
    BY <1>3 DEF AcceptStep, RecvNextGoal, Refuse, AcceptRegister, AcceptEarlyCancel, AcceptAdopt,
       AcceptExtend, AcceptReply, AcceptReplyFails, TrackSenderGoal, signalVars, cancelVars, watchVars
  <2>2. CASE TrackSenderGoal(g)
    <3>1. watch[g] = "none" /\ watchTok[g] = {}
      BY <2>2 DEF TrackSenderGoal, SenderInv, TasksInv, InService, LinkInv
    <3>2. \A w \in Goals : (watch'[w] = watch[w]) \/ w = g
      BY <1>1, <2>2 DEF TrackSenderGoal
    <3> QED BY <1>m, <2>1, <3>1, <3>2
  <2>3. CASE ~TrackSenderGoal(g)
    <3>1. watch' = watch
      BY <1>3, <2>3 DEF AcceptStep, RecvNextGoal, Refuse, AcceptRegister, AcceptEarlyCancel,
         AcceptAdopt, AcceptExtend, AcceptReply, AcceptReplyFails, watchVars
    <3> QED BY <1>m, <2>1, <3>1
  <2> QED BY <2>2, <2>3
<1>4. ASSUME NEW g \in Goals, EnderStep(g) \/ WorkerStep(g)
      PROVE  LinkInv'
  <2>1. CASE \E l \in Links : Link(g, l)
    <3>1. PICK l \in Links : Link(g, l)
      BY <2>1
    <3>2. /\ held' = held \cup {<<g, l>>}
          /\ UNCHANGED <<canTok, watchTok, canPc, canReq, watch, reply>>
      BY <3>1 DEF Link, cancelVars, watchVars
    <3>3. CASE g \in cancelled
      <4>1. tokens' = tokens \cup {<<g, l>>} /\ linked' = linked
        BY <3>1, <3>3 DEF Link
      <4> QED BY <3>2, <4>1 DEF LinkInv, Taken
    <3>4. CASE g \notin cancelled
      <4>1. linked' = [linked EXCEPT ![g] = @ \cup {l}] /\ tokens' = tokens
        BY <3>1, <3>4 DEF Link
      <4>2. \A h \in Goals : /\ (h # g) => (linked'[h] = linked[h])
                             /\ linked[h] \subseteq linked'[h]
        BY <1>1, <4>1
      <4>3. /\ (canPc = "tokens") => (CancelOf[canReq] \in Goals \ {g})
            /\ \A c \in Cancels : (reply[c] = "signalled") => (CancelOf[c] \in Goals \ {g})
        BY <1>1, <3>4 DEF CancelInv, CancelReplyTrue
      <4>4. l \in linked'[g]
        BY <1>1, <4>1
      <4>5. \A h \in Goals, m \in Links : (<<h, m>> \in held') =>
              (<<h, m>> \in tokens' \/ m \in linked'[h] \/ Taken(<<h, m>>)')
        <5> SUFFICES ASSUME NEW h \in Goals, NEW m \in Links, <<h, m>> \in held'
                     PROVE  <<h, m>> \in tokens' \/ m \in linked'[h] \/ Taken(<<h, m>>)'
          OBVIOUS
        <5>1. CASE <<h, m>> = <<g, l>>
          BY <4>4, <5>1
        <5>2. CASE <<h, m>> \in held
          <6>1. <<h, m>> \in tokens \/ m \in linked[h] \/ Taken(<<h, m>>)
            BY <5>2 DEF LinkInv
          <6>2. Taken(<<h, m>>)' = Taken(<<h, m>>)
            BY <3>2 DEF Taken
          <6>3. linked[h] \subseteq linked'[h]
            BY <4>2
          <6> QED BY <4>1, <6>1, <6>2, <6>3
        <5> QED BY <3>2, <5>1, <5>2
      <4>6. /\ (canPc' = "tokens") => (linked'[CancelOf[canReq']] = {})
            /\ \A c \in Cancels : (reply'[c] = "signalled") =>
                 /\ linked'[CancelOf[c]] = {}
                 /\ \A m \in Links : <<CancelOf[c], m>> \notin canTok'
        BY <3>2, <4>2, <4>3 DEF LinkInv
      <4> QED BY <3>2, <4>5, <4>6 DEF LinkInv
    <3> QED BY <3>3, <3>4
  <2>2. CASE \E l \in Links : Unlink(g, l)
    <3>1. PICK l \in Links : Unlink(g, l)
      BY <2>2
    <3>2. /\ held' = held \ {<<g, l>>} /\ linked' = [linked EXCEPT ![g] = @ \ {l}]
          /\ UNCHANGED <<tokens, canTok, watchTok, canPc, canReq, watch, reply>>
      BY <3>1 DEF Unlink, cancelVars, watchVars
    <3>3. \A h \in Goals : /\ linked'[h] \subseteq linked[h]
                           /\ \A m \in Links : (<<h, m>> # <<g, l>> /\ m \in linked[h]) => (m \in linked'[h])
      BY <1>1, <3>2
    <3>4. (canPc = "tokens") => (CancelOf[canReq] \in Goals)
      BY <1>1
    <3>5. \A h \in Goals, m \in Links : (<<h, m>> \in held') =>
            (<<h, m>> \in tokens' \/ m \in linked'[h] \/ Taken(<<h, m>>)')
      BY <3>2, <3>3 DEF LinkInv, Taken
    <3> QED BY <3>2, <3>3, <3>4, <3>5 DEF LinkInv
  <2>3. CASE ~ \E l \in Links : Link(g, l) \/ Unlink(g, l)
    <3>1. UNCHANGED linkVars
      BY <1>4, <2>3 DEF EnderStep, WorkerStep, AbandonSwap, Deliver, Swap, ReplaceState, WakeWaiter,
         PublishEnd, DeliverDropped, ContextDrop, linkVars, signalVars, cancelVars, watchVars
    <3> QED BY <3>1, LinkInvFrame
  <2> QED BY <2>1, <2>2, <2>3
<1>5. CASE (\E p \in Polls : RecvResultPoll(p)) \/ ResultStep \/ ResultLoopAborted
  <2>1. UNCHANGED linkVars
    BY <1>5 DEF ResultStep, RecvResultPoll, RelookUnderLock, RouteUnderLock, ActOnSlot,
       ResultLoopAborted, linkVars, signalVars, cancelVars, watchVars
  <2> QED BY <2>1, LinkInvFrame
<1>6. CASE (\E c \in Cancels : RecvCancel(c)) \/ CancelStep
  \* A step that neither takes nor cancels tokens and signals nobody.
  <2>1. ASSUME UNCHANGED <<held, tokens, linked, watchTok, watch>>, canPc # "tokens", canPc' # "tokens",
               canTok' = canTok \/ canTok' = {},
               \A c \in Cancels : (reply'[c] = "signalled") => (reply[c] = "signalled")
        PROVE  LinkInv'
    <3>1. canTok' = canTok
      BY <2>1 DEF LinkInv
    <3> QED BY <2>1, <3>1 DEF LinkInv, Taken
  <2>2. CASE \E c \in Cancels : RecvCancel(c)
    BY <2>1, <2>2 DEF RecvCancel, signalVars, watchVars
  <2>3. CASE CancelLookTombstone \/ RememberEarlyCancel \/ CancelSlot
    <3>1. /\ UNCHANGED <<held, tokens, linked, watchTok, watch>> /\ canPc # "tokens"
          /\ canPc' # "tokens" /\ (canTok' = canTok \/ canTok' = {})
      BY <2>3 DEF CancelLookTombstone, RememberEarlyCancel, CancelSlot, CancelReplied, signalVars,
         watchVars
    <3>2. canReq \in Cancels
      BY <1>1, <2>3 DEF CancelLookTombstone, RememberEarlyCancel, CancelSlot
    <3>3. reply' = reply \/ \E r \in CancelStates \ {"signalled"} : reply' = [reply EXCEPT ![canReq] = r]
      BY <2>3 DEF CancelLookTombstone, RememberEarlyCancel, CancelSlot, CancelReplied, CancelStates
    <3>4. \A c \in Cancels : (reply'[c] = "signalled") => (reply[c] = "signalled")
      BY <1>1, <3>2, <3>3
    <3> QED BY <2>1, <3>1, <3>4
  <2>4. CASE CancelTakes
    <3> DEFINE g == CancelOf[canReq]
    <3>1. /\ canPc = "take" /\ canPc' = "tokens" /\ canReq' = canReq
          /\ canTok' = {<<g, l>> : l \in linked[g]} /\ linked' = [linked EXCEPT ![g] = {}]
          /\ UNCHANGED <<held, tokens, watchTok, watch, reply>>
      BY <2>4 DEF CancelTakes, TakeLinked, watchVars
    <3>2. canReq \in Cancels /\ g \in Goals /\ canTok = {}
      BY <1>1, <3>1 DEF LinkInv
    <3>3. \A h \in Goals : linked'[h] = IF h = g THEN {} ELSE linked[h]
      BY <1>1, <3>1
    <3>4. \A h \in Goals, l \in Links : (<<h, l>> \in canTok') <=> (h = g /\ l \in linked[g])
      BY <3>1
    <3>5. \A h \in Goals, l \in Links : (<<h, l>> \in held') =>
            (<<h, l>> \in tokens' \/ l \in linked'[h] \/ Taken(<<h, l>>)')
      <4> SUFFICES ASSUME NEW h \in Goals, NEW l \in Links, <<h, l>> \in held'
                   PROVE  <<h, l>> \in tokens' \/ l \in linked'[h] \/ Taken(<<h, l>>)'
        OBVIOUS
      <4>1. <<h, l>> \in tokens \/ l \in linked[h] \/ Taken(<<h, l>>)
        BY <3>1 DEF LinkInv
      <4>2. Taken(<<h, l>>) => Taken(<<h, l>>)'
        BY <3>1, <3>2 DEF Taken
      <4>3. (h = g /\ l \in linked[h]) => Taken(<<h, l>>)'
        BY <3>4 DEF Taken
      <4>4. (h # g) => (linked'[h] = linked[h])
        BY <3>3
      <4> QED BY <3>1, <4>1, <4>2, <4>3, <4>4
    <3>6. ASSUME NEW c \in Cancels, reply'[c] = "signalled"
          PROVE  /\ linked'[CancelOf[c]] = {}
                 /\ \A l \in Links : <<CancelOf[c], l>> \notin canTok'
      BY <3>1, <3>3, <3>4, <3>6 DEF LinkInv
    <3>7. linked'[CancelOf[canReq']] = {}
      BY <3>1, <3>2, <3>3
    <3> QED BY <3>1, <3>5, <3>6, <3>7 DEF LinkInv
  <2>5. CASE CancelTokens
    <3>1. /\ canPc = "tokens" /\ canPc' = "recv" /\ tokens' = tokens \cup canTok /\ canTok' = {}
          /\ reply' = [reply EXCEPT ![canReq] = "signalled"]
          /\ UNCHANGED <<held, linked, watchTok, watch>>
      BY <2>5 DEF CancelTokens, CancelReplied, watchVars
    <3>2. \A c \in Cancels : (reply'[c] = "signalled") => (c = canReq \/ reply[c] = "signalled")
      BY <1>1, <3>1
    <3> QED BY <3>1, <3>2 DEF LinkInv, Taken
  <2> QED BY <1>6, <2>2, <2>3, <2>4, <2>5 DEF CancelStep
<1>7. CASE SweepStep
  <2>1. UNCHANGED <<held, tokens, linked, canTok, watchTok, canPc, canReq, reply>>
    BY <1>7 DEF SweepStep, SweepEvict, SweepLockTombs, SweepTombstone, SweepPolls,
       EndIdleSenderWatches, SweepEarlyCancels, signalVars, cancelVars, watchVars
  <2>2. \A w \in Goals : watch'[w] = watch[w] \/ watch[w] \in AtAwait
    BY <1>7 DEF SweepStep, SweepEvict, SweepLockTombs, SweepTombstone, SweepPolls,
       EndIdleSenderWatches, SweepEarlyCancels, watchVars
  <2> QED BY <1>m, <2>1, <2>2 DEF LinkInv, AtAwait
<1>8. ASSUME NEW w \in Goals, WatchTaskStep(w) \/ WatchFails(w)
      PROVE  LinkInv'
  <2>1. CASE SenderGoneTakes(w)
    <3> DEFINE g == signalling[w]
    <3>1. /\ watch[w] = "taking" /\ watch' = [watch EXCEPT ![w] = "cancelling"]
          /\ watchTok' = [watchTok EXCEPT ![w] = {<<g, l>> : l \in linked[g]}]
          /\ linked' = [linked EXCEPT ![g] = {}]
          /\ UNCHANGED <<held, tokens, canTok, canPc, canReq, reply>>
      BY <2>1 DEF SenderGoneTakes, TakeLinked, cancelVars
    <3>2. g \in Goals /\ watchTok[w] = {}
      BY <1>1, <3>1 DEF LinkInv
    <3>3. \A h \in Goals : linked'[h] = IF h = g THEN {} ELSE linked[h]
      BY <1>1, <3>1
    <3>4. /\ \A l \in linked[g] : <<g, l>> \in watchTok'[w]
          /\ \A v \in Goals : (v # w) => (watchTok'[v] = watchTok[v] /\ watch'[v] = watch[v])
          /\ watch'[w] = "cancelling"
      BY <1>1, <3>1
    <3>5. \A v \in Goals : watchTok[v] \subseteq watchTok'[v]
      BY <3>2, <3>4
    <3>6. \A h \in Goals, l \in Links : (<<h, l>> \in held') =>
            (<<h, l>> \in tokens' \/ l \in linked'[h] \/ Taken(<<h, l>>)')
      <4> SUFFICES ASSUME NEW h \in Goals, NEW l \in Links, <<h, l>> \in held'
                   PROVE  <<h, l>> \in tokens' \/ l \in linked'[h] \/ Taken(<<h, l>>)'
        OBVIOUS
      <4>1. <<h, l>> \in tokens \/ l \in linked[h] \/ Taken(<<h, l>>)
        BY <3>1 DEF LinkInv
      <4>2. Taken(<<h, l>>) => Taken(<<h, l>>)'
        BY <3>1, <3>5 DEF Taken
      <4>3. (h = g /\ l \in linked[h]) => Taken(<<h, l>>)'
        BY <3>4 DEF Taken
      <4>4. (h # g) => (linked'[h] = linked[h])
        BY <3>3
      <4> QED BY <3>1, <4>1, <4>2, <4>3, <4>4
    <3>7. /\ (canPc' = "tokens") => (linked'[CancelOf[canReq']] = {})
          /\ \A c \in Cancels : (reply'[c] = "signalled") =>
               /\ linked'[CancelOf[c]] = {}
               /\ \A l \in Links : <<CancelOf[c], l>> \notin canTok'
      BY <1>1, <3>1, <3>3 DEF LinkInv
    <3> QED BY <3>1, <3>4, <3>6, <3>7 DEF LinkInv
  <2>2. CASE SenderGoneTokens(w)
    <3>1. /\ watch' = [watch EXCEPT ![w] = "signalling"] /\ tokens' = tokens \cup watchTok[w]
          /\ watchTok' = [watchTok EXCEPT ![w] = {}]
          /\ UNCHANGED <<held, linked, canTok, canPc, canReq, reply>>
      BY <2>2 DEF SenderGoneTokens, cancelVars
    <3>2. /\ watchTok'[w] = {}
          /\ \A v \in Goals : (v # w) => (watchTok'[v] = watchTok[v] /\ watch'[v] = watch[v])
      BY <1>1, <3>1
    <3>3. \A h \in Goals, l \in Links : (<<h, l>> \in held') =>
            (<<h, l>> \in tokens' \/ l \in linked'[h] \/ Taken(<<h, l>>)')
      BY <3>1, <3>2 DEF LinkInv, Taken
    <3>4. \A v \in Goals : (watch'[v] # "cancelling") => (watchTok'[v] = {})
      BY <3>2 DEF LinkInv
    <3> QED BY <3>1, <3>3, <3>4 DEF LinkInv
  <2>3. CASE ~SenderGoneTakes(w) /\ ~SenderGoneTokens(w)
    <3>1. UNCHANGED <<held, tokens, linked, canTok, watchTok, canPc, canReq, reply>>
      BY <1>8, <2>3 DEF WatchTaskStep, WatchFails, WatchResolve, WatchReadGone, WatchProbeAbsent,
         WatchProbeSeen, WatchTo, ForgetSender, SignalSenderGone, WatchEnds, signalVars, cancelVars
    <3>2. watch[w] # "cancelling" /\ \A v \in Goals : watch'[v] = watch[v] \/ v = w
      BY <1>1, <1>8, <2>3 DEF WatchTaskStep, WatchFails, WatchResolve, WatchReadGone,
         WatchProbeAbsent, WatchProbeSeen, WatchTo, ForgetSender, SignalSenderGone, WatchEnds
    <3> QED BY <1>m, <3>1, <3>2 DEF LinkInv
  <2> QED BY <2>1, <2>2, <2>3
<1>9. CASE EngineDrop
  <2>1. UNCHANGED <<held, tokens, linked, canTok, watchTok, canPc, canReq, reply>>
    BY <1>9 DEF EngineDrop, signalVars, cancelVars
  <2>2. \A w \in Goals : watch'[w] = watch[w] \/ watch[w] \in AtAwait
    BY <1>9 DEF EngineDrop
  <2> QED BY <1>m, <2>1, <2>2 DEF LinkInv, AtAwait
<1>10. CASE TimeStep \/ PresenceStep
  <2>1. UNCHANGED linkVars
    BY <1>10 DEF TimeStep, PresenceStep, RetentionPasses, ParkDeadlinePasses, EarlyCancelAges,
       SenderDies, TokenHidden, TokenBack, TokenGone, linkVars, signalVars, cancelVars, watchVars
  <2> QED BY <2>1, LinkInvFrame
<1> QED BY <1>2, <1>3, <1>4, <1>5, <1>6, <1>7, <1>8, <1>9, <1>10 DEF Next

LEMMA InitLink == Init => LinkInv
BY DEF Init, LinkInv

LEMMA LinkInvariant == Spec => []LinkInv
BY TypeCorrect, CancelInvariant, SenderInvariant, InitLink, NextLink, PTL DEF Spec

\* A cancel answered Signalled has cancelled every token linked to the goal, the
\* ones linked while it ran included, but for those that the watch of the sender
\* took and is about to cancel (cancel_at_signal and signal_cancel, any number of
\* cancel requests, links and watches).
THEOREM SignalReachesLinks == Spec => []SignalledReachedLinksOrRaces
<1>1. TypeOK /\ LinkInv => SignalledReachedLinksOrRaces
  BY ActionEngineAssumptions DEF LinkInv, Taken, SignalledReachedLinksOrRaces
<1> QED BY <1>1, TypeCorrect, LinkInvariant, PTL

-----------------------------------------------------------------------------
(***************************************************************************)
(* The death of a sender is not made up                                    *)
(***************************************************************************)

Condemned == {"suspect2", "grace", "sentenced", "signalling", "taking", "cancelling"}

\* Without a router bounce a token goes only with its process: a task that found
\* none, and a goal that got its signal for that, are of a sender that is dead.
DeathInv ==
  ("router_bounce" \notin Faults) =>
    /\ alive \subseteq visible
    /\ \A w \in Goals : (watch[w] \in Condemned) => (SenderOf[w] \notin alive)
    /\ \A g \in Goals : (cause[g] = "sender_gone") => (SenderOf[g] \notin alive)

deathVars == <<alive, visible, watch, cause>>

LEMMA DeathInvFrame == DeathInv /\ UNCHANGED deathVars => DeathInv'
BY DEF DeathInv, deathVars

\* Every step keeps DeathInv.
LEMMA NextDeath == TypeOK /\ SenderInv /\ DeathInv /\ [Next]_vars => DeathInv'
<1> SUFFICES ASSUME TypeOK, SenderInv, DeathInv, [Next]_vars
             PROVE  DeathInv'
  OBVIOUS
<1> USE ActionEngineAssumptions, NoGoalAssumption
<1>1. /\ cause \in [Goals -> {"none", "caller", "sender_gone"}] /\ watch \in [Goals -> WatchStates]
      /\ alive \subseteq Senders /\ visible \subseteq Senders
      /\ canReq \in Cancels \cup {NoCancel} /\ ((canPc # "recv") => (canReq \in Cancels))
  BY DEF TypeOK, SignalsOK, WatchesOK, CancelsOK
\* A step after which a task or a goal is condemned only if it was.
<1>m. ASSUME UNCHANGED <<alive, visible>>,
             \A w \in Goals : (watch'[w] \in Condemned) => (watch[w] \in Condemned),
             \A g \in Goals : (cause'[g] = "sender_gone") => (cause[g] = "sender_gone")
      PROVE  DeathInv'
  BY <1>m DEF DeathInv
<1>2. CASE UNCHANGED vars
  BY <1>2, DeathInvFrame DEF vars, deathVars, signalVars, watchVars
<1>3. ASSUME NEW g \in Goals, RecvNextGoal(g) \/ Refuse(g) \/ AcceptStep(g)
      PROVE  DeathInv'
  <2>1. UNCHANGED <<alive, visible>>
    BY <1>3 DEF AcceptStep, RecvNextGoal, Refuse, AcceptRegister, AcceptEarlyCancel, AcceptAdopt,
       AcceptExtend, AcceptReply, AcceptReplyFails, TrackSenderGoal, watchVars
  <2>2. \A w \in Goals : (watch'[w] = watch[w]) \/ watch'[w] = "resolving"
    BY <1>1, <1>3 DEF AcceptStep, RecvNextGoal, Refuse, AcceptRegister, AcceptEarlyCancel,
       AcceptAdopt, AcceptExtend, AcceptReply, AcceptReplyFails, TrackSenderGoal, watchVars
  <2>3. \A h \in Goals : (cause'[h] = cause[h]) \/ cause'[h] = "caller"
    BY <1>1, <1>3 DEF AcceptStep, RecvNextGoal, Refuse, AcceptRegister, AcceptEarlyCancel,
       AcceptAdopt, AcceptExtend, AcceptReply, AcceptReplyFails, TrackSenderGoal, signalVars
  <2> QED BY <1>m, <2>1, <2>2, <2>3 DEF Condemned
<1>4. ASSUME NEW g \in Goals, EnderStep(g) \/ WorkerStep(g)
      PROVE  DeathInv'
  <2>1. UNCHANGED deathVars
    BY <1>4 DEF EnderStep, WorkerStep, AbandonSwap, Deliver, Swap, ReplaceState, WakeWaiter,
       PublishEnd, DeliverDropped, ContextDrop, Link, Unlink, deathVars, signalVars, watchVars
  <2> QED BY <2>1, DeathInvFrame
<1>5. CASE (\E p \in Polls : RecvResultPoll(p)) \/ ResultStep \/ ResultLoopAborted
  <2>1. UNCHANGED deathVars
    BY <1>5 DEF ResultStep, RecvResultPoll, RelookUnderLock, RouteUnderLock, ActOnSlot,
       ResultLoopAborted, deathVars, signalVars, watchVars
  <2> QED BY <2>1, DeathInvFrame
<1>6. CASE (\E c \in Cancels : RecvCancel(c)) \/ CancelStep
  <2>1. UNCHANGED <<alive, visible, watch>>
    BY <1>6 DEF CancelStep, RecvCancel, CancelLookTombstone, RememberEarlyCancel, CancelSlot,
       CancelTakes, CancelTokens, watchVars
  <2>2. \A h \in Goals : (cause'[h] = cause[h]) \/ cause'[h] = "caller"
    BY <1>1, <1>6 DEF CancelStep, RecvCancel, CancelLookTombstone, RememberEarlyCancel, CancelSlot,
       CancelTakes, CancelTokens, SignalCancel, signalVars
  <2> QED BY <1>m, <2>1, <2>2
<1>7. CASE SweepStep
  <2>1. UNCHANGED <<alive, visible, cause>>
    BY <1>7 DEF SweepStep, SweepEvict, SweepLockTombs, SweepTombstone, SweepPolls,
       EndIdleSenderWatches, SweepEarlyCancels, signalVars, watchVars
  <2>2. \A w \in Goals : watch'[w] = watch[w] \/ watch'[w] = "done"
    BY <1>7 DEF SweepStep, SweepEvict, SweepLockTombs, SweepTombstone, SweepPolls,
       EndIdleSenderWatches, SweepEarlyCancels, watchVars
  <2> QED BY <1>m, <2>1, <2>2 DEF Condemned
<1>8. ASSUME NEW w \in Goals, WatchTaskStep(w) \/ WatchFails(w)
      PROVE  DeathInv'
  <2>0. UNCHANGED <<alive, visible>>
    BY <1>8 DEF WatchTaskStep, WatchFails, WatchResolve, WatchReadGone, WatchProbeAbsent,
       WatchProbeSeen, WatchTo, ForgetSender, SignalSenderGone, SenderGoneTakes, SenderGoneTokens,
       WatchEnds
  <2>1. CASE WatchProbeAbsent(w)
    <3>1. SenderOf[w] \notin visible /\ cause' = cause
      BY <2>1 DEF WatchProbeAbsent, WatchTo, Seen, signalVars
    <3>2. \A v \in Goals : watch'[v] = watch[v] \/ v = w
      BY <1>1, <2>1 DEF WatchProbeAbsent, WatchTo
    <3> QED BY <2>0, <3>1, <3>2 DEF DeathInv
  <2>2. CASE \E g \in Goals : SignalSenderGone(w, g)
    <3>1. PICK g \in Goals : SignalSenderGone(w, g)
      BY <2>2
    <3>2. watch[w] = "signalling" /\ SenderOf[g] = SenderOf[w]
      BY <3>1 DEF SignalSenderGone, SenderInv, TasksInv
    <3>3. /\ \A v \in Goals : watch'[v] = watch[v] \/ v = w
          /\ \A h \in Goals : cause'[h] = cause[h] \/ h = g
      BY <1>1, <3>1 DEF SignalSenderGone, SignalCancel
    <3> QED BY <2>0, <3>2, <3>3 DEF DeathInv, Condemned
  <2>3. CASE ~WatchProbeAbsent(w) /\ ~ \E g \in Goals : SignalSenderGone(w, g)
    <3>1. /\ cause' = cause
          /\ \A v \in Goals : watch'[v] = watch[v] \/ v = w
          /\ (watch'[w] \in Condemned) => (watch[w] \in Condemned)
      BY <1>1, <1>8, <2>3 DEF WatchTaskStep, WatchFails, WatchResolve, WatchReadGone,
         WatchProbeSeen, WatchTo, ForgetSender, SenderGoneTakes, SenderGoneTokens, WatchEnds,
         signalVars, Condemned
    <3> QED BY <1>m, <2>0, <3>1
  <2> QED BY <2>1, <2>2, <2>3
<1>9. CASE EngineDrop
  <2>1. UNCHANGED <<alive, visible, cause>>
    BY <1>9 DEF EngineDrop, signalVars
  <2>2. \A w \in Goals : watch'[w] = watch[w] \/ watch'[w] = "done"
    BY <1>9 DEF EngineDrop
  <2> QED BY <1>m, <2>1, <2>2 DEF Condemned
<1>10. CASE TimeStep
  <2>1. UNCHANGED deathVars
    BY <1>10 DEF TimeStep, RetentionPasses, ParkDeadlinePasses, EarlyCancelAges, deathVars,
       signalVars, watchVars
  <2> QED BY <2>1, DeathInvFrame
<1>11. CASE PresenceStep
  <2>1. UNCHANGED <<watch, cause>> /\ alive' \subseteq alive
    BY <1>11 DEF PresenceStep, SenderDies, TokenHidden, TokenBack, TokenGone, signalVars
  <2>2. ("router_bounce" \notin Faults /\ alive \subseteq visible) => (alive' \subseteq visible')
    BY <1>11 DEF PresenceStep, SenderDies, TokenHidden, TokenBack, TokenGone
  <2> QED BY <2>1, <2>2 DEF DeathInv
<1> QED BY <1>2, <1>3, <1>4, <1>5, <1>6, <1>7, <1>8, <1>9, <1>10, <1>11 DEF Next

LEMMA InitDeath == Init => DeathInv
BY DEF Init, DeathInv, Condemned

\* No death is made up: without a router bounce only a goal of a sender that is
\* dead gets the signal of a gone sender, however the probes fail, the history
\* replay is late and the watches of one sender follow each other.
THEOREM NoDeathFabricated == Spec => []NoFabricatedDeath
<1>1. DeathInv => NoFabricatedDeath
  BY DEF DeathInv, NoFabricatedDeath
<1> QED BY <1>1, TypeCorrect, SenderInvariant, InitDeath, NextDeath, PTL DEF Spec
=============================================================================
