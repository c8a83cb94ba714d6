---------------------------- MODULE ActionEngine ----------------------------
(***************************************************************************)
(* The concurrent-action engine of a provider                              *)
(* (peppylib-rs/src/messaging/actions.rs): the goal registry, the accept   *)
(* path of a goal, the loops that route cancels and result polls, the      *)
(* retention sweeper, the per-goal contexts that end a goal, and the       *)
(* watches of the senders.                                                 *)
(*                                                                         *)
(* Grain.  One action is one critical section of the code: what happens    *)
(* under one hold of one lock, or between two awaits.  The only lock held  *)
(* over several actions is `pending_waiters' (the result loop holds it     *)
(* while it reads the registry and then the tombstones) and the one of the *)
(* tombstones (the sweeper holds it over its insertions).                  *)
(*                                                                         *)
(* Time.  A deadline is a membership in due, parkDue or earlyDue, which    *)
(* the environment adds at any moment: no bound on speeds is assumed.      *)
(*                                                                         *)
(* A sender watch task is named after the goal that started it, so several *)
(* tasks of one sender can exist at once, as in the code.                  *)
(***************************************************************************)
EXTENDS Naturals, FiniteSets, Sequences, Functions

CONSTANTS Goals,      \* goal ids, each sent once
          Senders,    \* client processes (core node, instance, generation)
          SenderOf,   \* [Goals -> Senders]
          Polls,      \* result requests
          PollOf,     \* [Polls -> Goals]
          Cancels,    \* cancel requests
          CancelOf,   \* [Cancels -> Goals]
          CancelBy,   \* [Cancels -> Senders]
          Links,      \* tokens a worker may link to the cancel signal
          Enders,     \* concurrent calls of complete/fail/complete_cancelled
          Results,    \* outcomes those calls deliver: a status and its payload
          Checked,    \* the endpoint verifies its callers
          HasGrace,   \* the sender grace of the action is not zero
          Faults,     \* which of the faults below may happen
          PENDING_WAITERS_CAP, EARLY_CANCELS_CAP, EXPIRED_TOMBSTONE_CAP

FaultKinds == {"sender_dies", "reply_fails", "watch_fails", "deliver_dropped",
               "engine_drop", "router_bounce", "probe_fails", "replay_late"}

ASSUME ActionEngineAssumptions ==
  /\ SenderOf \in [Goals -> Senders]
  /\ PollOf \in [Polls -> Goals]
  /\ CancelOf \in [Cancels -> Goals]
  /\ CancelBy \in [Cancels -> Senders]
  /\ Checked \in BOOLEAN /\ HasGrace \in BOOLEAN
  /\ Faults \subseteq FaultKinds
  /\ {"none", "expired", "abandoned"} \cap Results = {}
  /\ PENDING_WAITERS_CAP \in Nat
  /\ EARLY_CANCELS_CAP \in Nat
  /\ EXPIRED_TOMBSTONE_CAP \in Nat \ {0}

\* The empty owner slot of a sender is no goal.
NoGoal == "no_goal"

ASSUME NoGoalAssumption == NoGoal \notin Goals

VARIABLES
  \* The accept path and the shared maps of the engine
  running,    \* the ConcurrentAction exists
  phase,      \* [Goals -> Phases]: how far the goal went
  adopted,    \* [Goals -> SUBSET Polls]: polls `accept' holds in a local
  registry,   \* goals that have a slot in the registry
  pending,    \* [Goals -> SUBSET Polls]: polls parked before accept
  parkDue,    \* polls whose park deadline passed
  early,      \* remembered cancels: <<goal, verified caller>>
  earlyDue,   \* those whose instant to be forgotten passed
  tombs,      \* order of the tombstones of evicted goals
  \* The slot of a goal
  state,      \* [Goals -> {"none", "pending", "terminal"}]
  waiters,    \* [Goals -> SUBSET Polls]: responders parked in the slot
  terminal,   \* goals whose atomic flag is set
  outcome,    \* [Goals -> outcome of the goal]
  due,        \* goals past evict_at
  cause,      \* [Goals -> cancel cause]
  cancelled,  \* goals whose cancel token fired
  linked,     \* [Goals -> SUBSET Links]: tokens linked to the signal
  tokens,     \* <<goal, link>> whose linked token is cancelled
  held,       \* <<goal, link>> whose CancelLink is alive
  \* The calls that end a goal
  ender,      \* [Goals -> [Enders \cup {Abandon} -> EnderStates]]
  ending,     \* [Goals -> outcome the winner of the swap delivers]
  waking,     \* [Goals -> SUBSET Polls]: responders the winner drained
  ends,       \* [Goals -> number of end sentinels published]
  \* The clients' requests and the loops that route them
  poll,       \* [Polls -> PollStates]
  answer,     \* [Polls -> outcome the poll got]
  resPc, resPoll,          \* run_result_loop
  reply,      \* [Cancels -> cancel state the request got]
  canPc, canReq, canTok,   \* run_cancel_loop
  swPc, expired,           \* run_retention_sweeper
  \* The watches of the senders
  entry,      \* [Senders -> SUBSET Goals]: goals of the watch
  owner,      \* [Senders -> Goals \cup {NoGoal}]: its task, if it has an entry
  watch,      \* [Goals -> WatchStates]: the task the goal started
  doomed,     \* [Goals -> SUBSET Goals]: goals the task still signals
  unread,     \* tasks with a Gone event they did not read yet
  signalling, \* [Goals -> Goals \cup {NoGoal}]: the goal it signals now
  watchTok,   \* [Goals -> SUBSET (Goals \X Links)]: tokens it took
  alive, visible           \* senders that run; whose presence token is seen

acceptVars == <<running, phase, adopted>>
mapVars    == <<registry, pending, parkDue, early, earlyDue, tombs>>
stateVars  == <<state, waiters, terminal, outcome, due>>
signalVars == <<cause, cancelled, linked, tokens, held>>
enderVars  == <<ender, ending, waking, ends>>
resultVars == <<poll, answer, resPc, resPoll>>
cancelVars == <<reply, canPc, canReq, canTok>>
sweepVars  == <<swPc, expired>>
watchVars  == <<entry, owner, watch, doomed, signalling, watchTok, unread, alive, visible>>
vars == <<acceptVars, mapVars, stateVars, signalVars, enderVars, resultVars,
          cancelVars, sweepVars, watchVars>>

NoPoll   == "no_poll"
NoCancel == "no_cancel"
NoCaller == "no_caller"   \* VerifiedCaller is None
Abandon  == "abandon"     \* the task that Drop of a GoalContext spawns

Phases == {"unseen", "received", "refused", "registered", "cancel_checked", "adopting",
           "adopted", "replied", "failed", "live", "dropped"}
Outcomes == Results \cup {"abandoned"}
NoOutcome == "none"
EnderStates == {"idle", "spawned", "swapped", "waking", "done"}
PollStates  == {"idle", "handling", "parked", "answered", "dropped"}
CancelStates == {"none", "signalled", "already_terminal", "unknown", "refused"}
WatchStates == {"none", "resolving", "watching", "suspect", "suspect2", "grace", "sentenced",
                "signalling", "taking", "cancelling", "done"}

VerifiedCaller(s) == IF Checked THEN s ELSE NoCaller
SlotOwner(g) == VerifiedCaller(SenderOf[g])

Init ==
  /\ running = TRUE
  /\ phase = [g \in Goals |-> "unseen"]
  /\ adopted = [g \in Goals |-> {}]
  /\ registry = {} /\ pending = [g \in Goals |-> {}] /\ parkDue = {}
  /\ early = {} /\ earlyDue = {} /\ tombs = <<>>
  /\ state = [g \in Goals |-> "none"] /\ waiters = [g \in Goals |-> {}]
  /\ terminal = {} /\ outcome = [g \in Goals |-> NoOutcome] /\ due = {}
  /\ cause = [g \in Goals |-> "none"] /\ cancelled = {}
  /\ linked = [g \in Goals |-> {}] /\ tokens = {} /\ held = {}
  /\ ender = [g \in Goals |-> [e \in Enders \cup {Abandon} |-> "idle"]]
  /\ ending = [g \in Goals |-> NoOutcome]
  /\ waking = [g \in Goals |-> {}] /\ ends = [g \in Goals |-> 0]
  /\ poll = [p \in Polls |-> "idle"] /\ answer = [p \in Polls |-> NoOutcome]
  /\ resPc = "recv" /\ resPoll = NoPoll
  /\ reply = [c \in Cancels |-> "none"]
  /\ canPc = "recv" /\ canReq = NoCancel /\ canTok = {}
  /\ swPc = "sleep" /\ expired = {}
  /\ entry = [s \in Senders |-> {}] /\ owner = [s \in Senders |-> NoGoal]
  /\ watch = [g \in Goals |-> "none"] /\ doomed = [g \in Goals |-> {}]
  /\ signalling = [g \in Goals |-> NoGoal] /\ watchTok = [g \in Goals |-> {}] /\ unread = {}
  /\ alive = Senders /\ visible = Senders

(***************************************************************************)
(* Goal admission: recv_next_goal, PendingGoal::accept, PendingGoal::refuse*)
(***************************************************************************)

\* A goal request arrives; its sender is alive when it sends.
RecvNextGoal(g) ==
  /\ running /\ phase[g] = "unseen" /\ SenderOf[g] \in alive
  /\ phase' = [phase EXCEPT ![g] = "received"]
  /\ UNCHANGED <<running, adopted, mapVars, stateVars, signalVars, enderVars, resultVars,
                 cancelVars, sweepVars, watchVars>>

\* The provider refuses it, or the engine cannot admit it (malformed request,
\* feedback publisher not declared): nothing is registered.
Refuse(g) ==
  /\ phase[g] = "received"
  /\ phase' = [phase EXCEPT ![g] = "refused"]
  /\ UNCHANGED <<running, adopted, mapVars, stateVars, signalVars, enderVars, resultVars,
                 cancelVars, sweepVars, watchVars>>

\* accept, first: the slot goes into the registry.
AcceptRegister(g) ==
  /\ phase[g] = "received"
  /\ phase' = [phase EXCEPT ![g] = "registered"]
  /\ registry' = registry \cup {g}
  /\ state' = [state EXCEPT ![g] = "pending"]
  /\ UNCHANGED <<running, adopted, pending, parkDue, early, earlyDue, tombs, waiters, terminal,
                 outcome, due, signalVars, enderVars, resultVars, cancelVars, sweepVars, watchVars>>

\* accept, second: a cancel of the sender that came before the slot applies now.
AcceptEarlyCancel(g) ==
  LET key == <<g, SlotOwner(g)>> IN
  /\ phase[g] = "registered"
  /\ phase' = [phase EXCEPT ![g] = "cancel_checked"]
  /\ IF key \in early
     THEN /\ early' = early \ {key} /\ earlyDue' = earlyDue \ {key}
          /\ cancelled' = cancelled \cup {g}
          /\ cause' = [cause EXCEPT ![g] = IF @ = "none" THEN "caller" ELSE @]
     ELSE UNCHANGED <<early, earlyDue, cancelled, cause>>
  /\ UNCHANGED <<running, adopted, registry, pending, parkDue, tombs, stateVars, linked, tokens,
                 held, enderVars, resultVars, cancelVars, sweepVars, watchVars>>

\* accept, third: the polls that parked before the slot existed leave the map.
AcceptAdopt(g) ==
  /\ phase[g] = "cancel_checked" /\ resPc # "locked"
  /\ phase' = [phase EXCEPT ![g] = "adopting"]
  /\ adopted' = [adopted EXCEPT ![g] = pending[g]]
  /\ pending' = [pending EXCEPT ![g] = {}]
  /\ UNCHANGED <<running, registry, parkDue, early, earlyDue, tombs, stateVars, signalVars,
                 enderVars, resultVars, cancelVars, sweepVars, watchVars>>

\* ... and join the waiters of the slot.
AcceptExtend(g) ==
  /\ phase[g] = "adopting"
  /\ phase' = [phase EXCEPT ![g] = "adopted"]
  /\ waiters' = [waiters EXCEPT ![g] = @ \cup adopted[g]]
  /\ adopted' = [adopted EXCEPT ![g] = {}]
  /\ UNCHANGED <<running, mapVars, state, terminal, outcome, due, signalVars, enderVars,
                 resultVars, cancelVars, sweepVars, watchVars>>

\* accept, last: the admission reply. It can fail: the slot leaves the registry
\* and the responders parked in it are dropped.
AcceptReply(g) ==
  /\ phase[g] = "adopted"
  /\ phase' = [phase EXCEPT ![g] = "replied"]
  /\ UNCHANGED <<running, adopted, mapVars, stateVars, signalVars, enderVars, resultVars,
                 cancelVars, sweepVars, watchVars>>

AcceptReplyFails(g) ==
  /\ "reply_fails" \in Faults
  /\ phase[g] = "adopted"
  /\ phase' = [phase EXCEPT ![g] = "failed"]
  /\ registry' = registry \ {g}
  /\ state' = [state EXCEPT ![g] = "none"]
  /\ poll' = [p \in Polls |-> IF p \in waiters[g] THEN "dropped" ELSE poll[p]]
  /\ waiters' = [waiters EXCEPT ![g] = {}]
  /\ UNCHANGED <<running, adopted, pending, parkDue, early, earlyDue, tombs, terminal, outcome,
                 due, signalVars, enderVars, answer, resPc, resPoll, cancelVars, sweepVars,
                 watchVars>>

\* Seeded fault: only the first goal of a sender is recorded.
TrackFirstGoalOnly(g) ==
  LET s == SenderOf[g] IN
  /\ phase[g] = "replied"
  /\ phase' = [phase EXCEPT ![g] = "live"]
  /\ IF owner[s] = NoGoal
     THEN /\ entry' = [entry EXCEPT ![s] = @ \cup {g}]
          /\ owner' = [owner EXCEPT ![s] = g]
          /\ watch' = [watch EXCEPT ![g] = "resolving"]
     ELSE UNCHANGED <<entry, owner, watch>>
  /\ UNCHANGED <<running, adopted, mapVars, stateVars, signalVars, enderVars, resultVars,
                 cancelVars, sweepVars, doomed, signalling, watchTok, unread, alive, visible>>

\* The goal joins the watch of its sender, or starts one; the context is born.
TrackSenderGoal(g) ==
  LET s == SenderOf[g] IN
  /\ phase[g] = "replied"
  /\ phase' = [phase EXCEPT ![g] = "live"]
  /\ entry' = [entry EXCEPT ![s] = @ \cup {g}]
  /\ IF owner[s] = NoGoal
     THEN /\ owner' = [owner EXCEPT ![s] = g]
          /\ watch' = [watch EXCEPT ![g] = "resolving"]
     ELSE UNCHANGED <<owner, watch>>
  /\ UNCHANGED <<running, adopted, mapVars, stateVars, signalVars, enderVars, resultVars,
                 cancelVars, sweepVars, doomed, signalling, watchTok, unread, alive, visible>>

(***************************************************************************)
(* The end of a goal: GoalContext::deliver and Drop, transition_terminal   *)
(***************************************************************************)

InProgress == {"spawned", "swapped", "waking"}

\* Seeded fault: the flag is set without reading what it was.
SwapUnchecked(g, e, o) ==
  /\ ender' = [ender EXCEPT ![g][e] = "swapped"]
  /\ terminal' = terminal \cup {g}
  /\ ending' = [ending EXCEPT ![g] = o]
  /\ UNCHANGED <<acceptVars, mapVars, state, waiters, outcome, due, signalVars, waking, ends,
                 resultVars, cancelVars, sweepVars, watchVars>>

\* The atomic swap: the first call wins, later ones are done at once.
Swap(g, e, o) ==
  /\ IF g \in terminal
     THEN /\ ender' = [ender EXCEPT ![g][e] = "done"]
          /\ UNCHANGED <<terminal, ending>>
     ELSE /\ ender' = [ender EXCEPT ![g][e] = "swapped"]
          /\ terminal' = terminal \cup {g}
          /\ ending' = [ending EXCEPT ![g] = o]
  /\ UNCHANGED <<acceptVars, mapVars, state, waiters, outcome, due, signalVars, waking, ends,
                 resultVars, cancelVars, sweepVars, watchVars>>

Deliver(g, e, o) ==
  /\ phase[g] = "live" /\ e \in Enders /\ ender[g][e] = "idle"
  /\ Swap(g, e, o)

AbandonSwap(g) ==
  /\ ender[g][Abandon] = "spawned"
  /\ Swap(g, Abandon, "abandoned")

\* Seeded fault: the waiters are cloned and stay in the slot.
ReplaceStateKeepsWaiters(g, e) ==
  /\ ender[g][e] = "swapped"
  /\ ender' = [ender EXCEPT ![g][e] = "waking"]
  /\ state' = [state EXCEPT ![g] = "terminal"]
  /\ outcome' = [outcome EXCEPT ![g] = ending[g]]
  /\ waking' = [waking EXCEPT ![g] = waiters[g]]
  /\ UNCHANGED <<acceptVars, mapVars, waiters, terminal, due, signalVars, ending, ends, resultVars,
                 cancelVars, sweepVars, watchVars>>

\* Under the lock of the slot: Pending becomes Terminal, its waiters leave.
ReplaceState(g, e) ==
  /\ ender[g][e] = "swapped"
  /\ ender' = [ender EXCEPT ![g][e] = "waking"]
  /\ state' = [state EXCEPT ![g] = "terminal"]
  /\ outcome' = [outcome EXCEPT ![g] = ending[g]]
  /\ waking' = [waking EXCEPT ![g] = waiters[g]]
  /\ waiters' = [waiters EXCEPT ![g] = {}]
  /\ UNCHANGED <<acceptVars, mapVars, terminal, due, signalVars, ending, ends, resultVars,
                 cancelVars, sweepVars, watchVars>>

\* One drained responder is answered.
WakeWaiter(g, e, p) ==
  /\ ender[g][e] = "waking" /\ p \in waking[g]
  /\ waking' = [waking EXCEPT ![g] = @ \ {p}]
  /\ poll' = [poll EXCEPT ![p] = "answered"]
  /\ answer' = [answer EXCEPT ![p] = outcome[g]]
  /\ UNCHANGED <<acceptVars, mapVars, stateVars, signalVars, ender, ending, ends, resPc, resPoll,
                 cancelVars, sweepVars, watchVars>>

\* Seeded fault: the end sentinel may go out before the slot shows the outcome.
PublishEndEarly(g, e) ==
  /\ ender[g][e] \in {"swapped", "waking"} /\ waking[g] = {}
  /\ ender' = [ender EXCEPT ![g][e] = "done"]
  /\ ends' = [ends EXCEPT ![g] = @ + 1]
  /\ UNCHANGED <<acceptVars, mapVars, stateVars, signalVars, ending, waking, resultVars,
                 cancelVars, sweepVars, watchVars>>

\* The winner closes the feedback stream with the end sentinel.
PublishEnd(g, e) ==
  /\ ender[g][e] = "waking" /\ waking[g] = {}
  /\ ender' = [ender EXCEPT ![g][e] = "done"]
  /\ ends' = [ends EXCEPT ![g] = @ + 1]
  /\ UNCHANGED <<acceptVars, mapVars, stateVars, signalVars, ending, waking, resultVars,
                 cancelVars, sweepVars, watchVars>>

\* The caller drops the future of `deliver' at one of its awaits: the lock of
\* the slot, the reply of a waiter, or the sentinel.
DeliverDropped(g, e) ==
  /\ "deliver_dropped" \in Faults
  /\ e \in Enders /\ ender[g][e] \in {"swapped", "waking"}
  /\ ender' = [ender EXCEPT ![g][e] = "done"]
  /\ poll' = [p \in Polls |-> IF p \in waking[g] THEN "dropped" ELSE poll[p]]
  /\ waking' = [waking EXCEPT ![g] = {}]
  /\ UNCHANGED <<acceptVars, mapVars, stateVars, signalVars, ending, ends, answer, resPc, resPoll,
                 cancelVars, sweepVars, watchVars>>

\* Seeded fault: the drop of a goal that did not end spawns no abandon.
ContextDropSilent(g) ==
  /\ phase[g] = "live"
  /\ \A e \in Enders : ender[g][e] \notin InProgress
  /\ phase' = [phase EXCEPT ![g] = "dropped"]
  /\ UNCHANGED <<running, adopted, mapVars, stateVars, signalVars, enderVars, resultVars,
                 cancelVars, sweepVars, watchVars>>

\* Drop of the context: no call borrows it any more. A goal that did not end is
\* abandoned by a task of its own.
ContextDrop(g) ==
  /\ phase[g] = "live"
  /\ \A e \in Enders : ender[g][e] \notin InProgress
  /\ phase' = [phase EXCEPT ![g] = "dropped"]
  /\ ender' = IF g \in terminal THEN ender ELSE [ender EXCEPT ![g][Abandon] = "spawned"]
  /\ UNCHANGED <<running, adopted, mapVars, stateVars, signalVars, ending, waking, ends,
                 resultVars, cancelVars, sweepVars, watchVars>>

(***************************************************************************)
(* Result polls: run_result_loop, route_result_poll, act_on_slot           *)
(***************************************************************************)

Expired == "expired"

Answered(p, o) ==
  /\ poll' = [poll EXCEPT ![p] = "answered"]
  /\ answer' = [answer EXCEPT ![p] = o]

\* The next poll arrives: a first look at the registry.
RecvResultPoll(p) ==
  /\ running /\ resPc = "recv" /\ poll[p] = "idle"
  /\ poll' = [poll EXCEPT ![p] = "handling"]
  /\ resPoll' = p
  /\ resPc' = IF PollOf[p] \in registry THEN "act" ELSE "relook"
  /\ UNCHANGED <<acceptVars, mapVars, stateVars, signalVars, enderVars, answer, cancelVars,
                 sweepVars, watchVars>>

\* Seeded fault: the registry is not read again under the lock.
LockWithoutRelook ==
  /\ resPc = "relook"
  /\ resPc' = "locked"
  /\ UNCHANGED <<acceptVars, mapVars, stateVars, signalVars, enderVars, poll, answer, resPoll,
                 cancelVars, sweepVars, watchVars>>

\* No slot: a second look under the lock of pending_waiters.
RelookUnderLock ==
  /\ resPc = "relook"
  /\ resPc' = IF PollOf[resPoll] \in registry THEN "act" ELSE "locked"
  /\ UNCHANGED <<acceptVars, mapVars, stateVars, signalVars, enderVars, poll, answer, resPoll,
                 cancelVars, sweepVars, watchVars>>

\* ExpiredTombstones::contains.
Tombstoned(g) == g \in Range(tombs)

\* Still no slot, under the same lock: an evicted goal is Expired, a poll past
\* the cap is dropped, any other one parks until accept adopts it.
RouteUnderLock ==
  LET g == PollOf[resPoll]
      total == Cardinality({p \in Polls : p \in pending[PollOf[p]]})
  IN
  /\ resPc = "locked" /\ swPc # "tombs"
  /\ resPc' = "recv" /\ resPoll' = NoPoll
  /\ \/ /\ Tombstoned(g)
        /\ Answered(resPoll, Expired)
        /\ UNCHANGED pending
     \/ /\ ~Tombstoned(g) /\ total >= PENDING_WAITERS_CAP
        /\ poll' = [poll EXCEPT ![resPoll] = "dropped"]
        /\ UNCHANGED <<pending, answer>>
     \/ /\ ~Tombstoned(g) /\ total < PENDING_WAITERS_CAP
        /\ poll' = [poll EXCEPT ![resPoll] = "parked"]
        /\ pending' = [pending EXCEPT ![g] = @ \cup {resPoll}]
        /\ UNCHANGED answer
  /\ UNCHANGED <<acceptVars, registry, parkDue, early, earlyDue, tombs, stateVars, signalVars,
                 enderVars, cancelVars, sweepVars, watchVars>>

SlotAnswer(g) == IF g \in due THEN Expired ELSE outcome[g]

\* Under the lock of the slot the loop cloned: answer a terminal goal, or park.
\* A slot whose admission reply failed meanwhile is gone with its responders.
ActOnSlot ==
  LET g == PollOf[resPoll] IN
  /\ resPc = "act"
  /\ resPc' = "recv" /\ resPoll' = NoPoll
  /\ \/ /\ state[g] = "terminal"
        /\ Answered(resPoll, SlotAnswer(g))
        /\ UNCHANGED waiters
     \/ /\ state[g] = "pending"
        /\ poll' = [poll EXCEPT ![resPoll] = "parked"]
        /\ waiters' = [waiters EXCEPT ![g] = @ \cup {resPoll}]
        /\ UNCHANGED answer
     \/ /\ state[g] = "none"
        /\ poll' = [poll EXCEPT ![resPoll] = "dropped"]
        /\ UNCHANGED <<waiters, answer>>
  /\ UNCHANGED <<acceptVars, mapVars, state, terminal, outcome, due, signalVars, enderVars,
                 cancelVars, sweepVars, watchVars>>

(***************************************************************************)
(* Cancels: run_cancel_loop, remember_early_cancel, cancel_slot,           *)
(* GoalSlot::signal_cancel and GoalSlot::link                              *)
(***************************************************************************)

CancelReplied(r) ==
  /\ reply' = [reply EXCEPT ![canReq] = r]
  /\ canPc' = "recv" /\ canReq' = NoCancel /\ canTok' = {}

\* The next cancel arrives: a first look at the registry.
RecvCancel(c) ==
  /\ running /\ canPc = "recv" /\ reply[c] = "none"
  /\ canReq' = c
  /\ canPc' = IF CancelOf[c] \in registry THEN "slot" ELSE "tombstone"
  /\ UNCHANGED <<acceptVars, mapVars, stateVars, signalVars, enderVars, resultVars, reply, canTok,
                 sweepVars, watchVars>>

\* Seeded fault: a goal without a slot is taken for one that ended.
CancelNoSlotEnded ==
  /\ canPc = "tombstone" /\ swPc # "tombs"
  /\ CancelReplied("already_terminal")
  /\ UNCHANGED <<acceptVars, mapVars, stateVars, signalVars, enderVars, resultVars, sweepVars,
                 watchVars>>

\* No slot: the tombstones tell an evicted goal.
CancelLookTombstone ==
  /\ canPc = "tombstone" /\ swPc # "tombs"
  /\ IF Tombstoned(CancelOf[canReq])
     THEN CancelReplied("already_terminal")
     ELSE canPc' = "early" /\ UNCHANGED <<reply, canReq, canTok>>
  /\ UNCHANGED <<acceptVars, mapVars, stateVars, signalVars, enderVars, resultVars, sweepVars,
                 watchVars>>

\* Seeded fault: the cancel is remembered without reading the registry again.
RememberWithoutRelook ==
  LET key == <<CancelOf[canReq], VerifiedCaller(CancelBy[canReq])>> IN
  /\ canPc = "early"
  /\ CancelReplied("unknown")
  /\ early' = early \cup {key} /\ earlyDue' = earlyDue \ {key}
  /\ UNCHANGED <<acceptVars, registry, pending, parkDue, tombs, stateVars, signalVars, enderVars,
                 resultVars, sweepVars, watchVars>>

\* Under the locks of the early cancels and the registry: a slot that accept
\* registered meanwhile is cancelled (the code keeps both locks over cancel_slot;
\* here the rest may interleave as on the other path), else it is remembered.
RememberEarlyCancel ==
  LET g == CancelOf[canReq]
      key == <<g, VerifiedCaller(CancelBy[canReq])>>
  IN
  /\ canPc = "early"
  /\ \/ /\ g \in registry
        /\ canPc' = "slot"
        /\ UNCHANGED <<early, earlyDue, reply, canReq, canTok>>
     \/ /\ g \notin registry
        /\ CancelReplied("unknown")
        /\ IF Cardinality(early) < EARLY_CANCELS_CAP
           THEN early' = early \cup {key} /\ earlyDue' = earlyDue \ {key}
           ELSE UNCHANGED <<early, earlyDue>>
  /\ UNCHANGED <<acceptVars, registry, pending, parkDue, tombs, stateVars, signalVars, enderVars,
                 resultVars, sweepVars, watchVars>>

\* Seeded fault: any client cancels any goal.
AnyoneMayCancel(g, c) == TRUE

MayCancel(g, c) == SlotOwner(g) = VerifiedCaller(CancelBy[c])

\* signal_cancel, first: the cause of the first signal is kept, the token fires.
SignalCancel(g, why) ==
  /\ cause' = [cause EXCEPT ![g] = IF @ = "none" THEN why ELSE @]
  /\ cancelled' = cancelled \cup {g}

\* signal_cancel, second: the linked tokens are taken, under their lock.
TakeLinked(g) == linked' = [linked EXCEPT ![g] = {}]

\* The slot was found: refuse another client, tell a goal that ended, or signal.
CancelSlot ==
  LET g == CancelOf[canReq] IN
  /\ canPc = "slot"
  /\ \/ /\ ~MayCancel(g, canReq)
        /\ CancelReplied("refused")
        /\ UNCHANGED <<cause, cancelled>>
     \/ /\ MayCancel(g, canReq) /\ g \in terminal
        /\ CancelReplied("already_terminal")
        /\ UNCHANGED <<cause, cancelled>>
     \/ /\ MayCancel(g, canReq) /\ g \notin terminal
        /\ canPc' = "take"
        /\ SignalCancel(g, "caller")
        /\ UNCHANGED <<reply, canReq, canTok>>
  /\ UNCHANGED <<acceptVars, mapVars, stateVars, linked, tokens, held, enderVars, resultVars,
                 sweepVars, watchVars>>

CancelTakes ==
  LET g == CancelOf[canReq] IN
  /\ canPc = "take"
  /\ canPc' = "tokens"
  /\ canTok' = {<<g, l>> : l \in linked[g]}
  /\ TakeLinked(g)
  /\ UNCHANGED <<acceptVars, mapVars, stateVars, cause, cancelled, tokens, held, enderVars,
                 resultVars, reply, canReq, sweepVars, watchVars>>

\* The taken tokens are cancelled, then the request is answered.
CancelTokens ==
  /\ canPc = "tokens"
  /\ tokens' = tokens \cup canTok
  /\ CancelReplied("signalled")
  /\ UNCHANGED <<acceptVars, mapVars, stateVars, cause, cancelled, linked, held, enderVars,
                 resultVars, sweepVars, watchVars>>

\* Seeded fault: a link does not look whether the signal came already.
LinkUnchecked(g, l) ==
  /\ phase[g] = "live" /\ <<g, l>> \notin held /\ <<g, l>> \notin tokens
  /\ held' = held \cup {<<g, l>>}
  /\ linked' = [linked EXCEPT ![g] = @ \cup {l}]
  /\ UNCHANGED <<acceptVars, mapVars, stateVars, cause, cancelled, tokens, enderVars, resultVars,
                 cancelVars, sweepVars, watchVars>>

\* cancel_at_signal: under the lock of the links, a goal that received its
\* signal cancels the token at once.
Link(g, l) ==
  /\ phase[g] = "live" /\ <<g, l>> \notin held /\ <<g, l>> \notin tokens
  /\ held' = held \cup {<<g, l>>}
  /\ IF g \in cancelled
     THEN tokens' = tokens \cup {<<g, l>>} /\ UNCHANGED linked
     ELSE linked' = [linked EXCEPT ![g] = @ \cup {l}] /\ UNCHANGED tokens
  /\ UNCHANGED <<acceptVars, mapVars, stateVars, cause, cancelled, enderVars, resultVars,
                 cancelVars, sweepVars, watchVars>>

\* Drop of a CancelLink.
Unlink(g, l) ==
  /\ <<g, l>> \in held
  /\ held' = held \ {<<g, l>>}
  /\ linked' = [linked EXCEPT ![g] = @ \ {l}]
  /\ UNCHANGED <<acceptVars, mapVars, stateVars, cause, cancelled, tokens, enderVars, resultVars,
                 cancelVars, sweepVars, watchVars>>

(***************************************************************************)
(* Retention: run_retention_sweeper, sweep_once, end_idle_sender_watches,  *)
(* ExpiredTombstones::insert                                               *)
(***************************************************************************)

\* Under the registry lock: terminal slots past their window leave. A slot whose
\* lock is taken at that moment is skipped.
SweepEvict ==
  /\ running /\ swPc = "sleep"
  /\ \E E \in SUBSET {g \in registry : state[g] = "terminal" /\ g \in due} :
       /\ registry' = registry \ E
       /\ expired' = E
  /\ swPc' = "evicted"
  /\ UNCHANGED <<acceptVars, pending, parkDue, early, earlyDue, tombs, stateVars, signalVars,
                 enderVars, resultVars, cancelVars, watchVars>>

\* The lock of the tombstones is taken only if something was evicted.
SweepLockTombs ==
  /\ swPc = "evicted"
  /\ swPc' = IF expired = {} THEN "polls" ELSE "tombs"
  /\ UNCHANGED <<acceptVars, mapVars, stateVars, signalVars, enderVars, resultVars, cancelVars,
                 expired, watchVars>>

\* Insertion with the oldest entries popped at the cap.
TombsInsert(t, g) ==
  IF g \in Range(t) THEN t
  ELSE IF Len(t) >= EXPIRED_TOMBSTONE_CAP
       THEN Append(SubSeq(t, Len(t) - EXPIRED_TOMBSTONE_CAP + 2, Len(t)), g)
       ELSE Append(t, g)

SweepTombstone(g) ==
  /\ swPc = "tombs" /\ g \in expired
  /\ tombs' = TombsInsert(tombs, g)
  /\ expired' = expired \ {g}
  /\ swPc' = IF expired = {g} THEN "polls" ELSE "tombs"
  /\ UNCHANGED <<acceptVars, registry, pending, parkDue, early, earlyDue, stateVars, signalVars,
                 enderVars, resultVars, cancelVars, watchVars>>

\* Seeded fault: parked polls are never dropped.
SweepPollsNever ==
  /\ swPc = "polls" /\ resPc # "locked"
  /\ swPc' = "watches"
  /\ UNCHANGED <<acceptVars, mapVars, stateVars, signalVars, enderVars, resultVars, cancelVars,
                 expired, watchVars>>

\* Parked polls past their deadline are dropped.
SweepPolls ==
  /\ swPc = "polls" /\ resPc # "locked"
  /\ pending' = [g \in Goals |-> pending[g] \ parkDue]
  /\ poll' = [p \in Polls |-> IF p \in pending[PollOf[p]] \cap parkDue THEN "dropped" ELSE poll[p]]
  /\ swPc' = "watches"
  /\ UNCHANGED <<acceptVars, registry, parkDue, early, earlyDue, tombs, stateVars, signalVars,
                 enderVars, answer, resPc, resPoll, cancelVars, expired, watchVars>>

\* An abort stops a task at an await, never between its last probe and its end.
AtAwait == {"resolving", "watching", "suspect", "suspect2", "grace"}

LiveGoalsOf(s) == {g \in entry[s] : g \in registry /\ g \notin terminal}

\* Seeded fault: an idle watch is aborted and its entry kept.
EndIdleKeepsEntry ==
  LET idle == {s \in Senders : owner[s] # NoGoal /\ LiveGoalsOf(s) = {}} IN
  /\ swPc = "watches"
  /\ swPc' = "early"
  /\ entry' = [s \in Senders |-> LiveGoalsOf(s)]
  /\ watch' = [g \in Goals |-> IF (\E s \in idle : owner[s] = g) /\ watch[g] \in AtAwait
                               THEN "done" ELSE watch[g]]
  /\ UNCHANGED <<acceptVars, mapVars, stateVars, signalVars, enderVars, resultVars, cancelVars,
                 expired, owner, doomed, signalling, watchTok, unread, alive, visible>>

\* Under the locks of the senders and the registry: watches with no live goal end.
EndIdleSenderWatches ==
  LET idle == {s \in Senders : owner[s] # NoGoal /\ LiveGoalsOf(s) = {}} IN
  /\ swPc = "watches"
  /\ swPc' = "early"
  /\ entry' = [s \in Senders |-> LiveGoalsOf(s)]
  /\ owner' = [s \in Senders |-> IF s \in idle THEN NoGoal ELSE owner[s]]
  /\ watch' = [g \in Goals |-> IF (\E s \in idle : owner[s] = g) /\ watch[g] \in AtAwait
                               THEN "done" ELSE watch[g]]
  /\ UNCHANGED <<acceptVars, mapVars, stateVars, signalVars, enderVars, resultVars, cancelVars,
                 expired, doomed, signalling, watchTok, unread, alive, visible>>

SweepEarlyCancels ==
  /\ swPc = "early"
  /\ early' = early \ earlyDue /\ earlyDue' = {}
  /\ swPc' = "sleep"
  /\ UNCHANGED <<acceptVars, registry, pending, parkDue, tombs, stateVars, signalVars, enderVars,
                 resultVars, cancelVars, expired, watchVars>>

(***************************************************************************)
(* Sender watches: run_sender_watch, wait_until_confirmed_gone,            *)
(* confirm_gone                                                            *)
(***************************************************************************)

WatchTo(w, to) ==
  /\ watch' = [watch EXCEPT ![w] = to]
  /\ UNCHANGED <<acceptVars, mapVars, stateVars, signalVars, enderVars, resultVars, cancelVars,
                 sweepVars, entry, owner, doomed, signalling, watchTok, alive, visible>>

Seen(w) == SenderOf[w] \in visible

\* The watch subscribes with history: a token that is there replays as Alive; a
\* resolve window that ends first, as when the token is gone or its declaration
\* is late, leads to the probes.
WatchResolve(w) ==
  /\ watch[w] = "resolving"
  /\ unread' = unread \ {w}
  /\ \/ Seen(w) /\ WatchTo(w, "watching")
     \/ (~Seen(w) \/ "replay_late" \in Faults) /\ WatchTo(w, "suspect")

\* Seeded fault: a Gone event in the steady state is ignored.
WatchIgnoresGone(w) ==
  /\ watch[w] = "watching" /\ w \in unread
  /\ unread' = unread \ {w}
  /\ WatchTo(w, "watching")

\* A Gone event is read: the confirmation probes begin.
WatchReadGone(w) ==
  /\ watch[w] = "watching" /\ w \in unread
  /\ unread' = unread \ {w}
  /\ WatchTo(w, "suspect")

\* Seeded fault: a probe that errs counts as an absent token.
WatchProbeErrAbsent(w) ==
  /\ \/ watch[w] = "suspect" /\ WatchTo(w, "suspect2")
     \/ watch[w] = "suspect2" /\ WatchTo(w, IF HasGrace THEN "grace" ELSE "sentenced")
     \/ watch[w] = "grace" /\ WatchTo(w, "sentenced")
  /\ UNCHANGED unread

\* One of the PRODUCER_GONE_CONFIRM_PROBES finds no token; after the last one the
\* sender is gone, and a zero grace ends the wait.
WatchProbeAbsent(w) ==
  /\ ~Seen(w)
  /\ \/ watch[w] = "suspect" /\ WatchTo(w, "suspect2")
     \/ watch[w] = "suspect2" /\ WatchTo(w, IF HasGrace THEN "grace" ELSE "sentenced")
     \/ watch[w] = "grace" /\ WatchTo(w, "sentenced")   \* the probe after the grace
  /\ UNCHANGED unread

\* A probe sees the token: the sender is not gone. After the grace the watch
\* subscribes again.
WatchProbeSeen(w) ==
  /\ Seen(w) \/ "probe_fails" \in Faults
  /\ \/ watch[w] \in {"suspect", "suspect2"} /\ WatchTo(w, "watching")
     \/ watch[w] = "grace" /\ WatchTo(w, "resolving")
  /\ UNCHANGED unread

\* forget_sender: the entry of the sender leaves the map, whoever's it is.
ForgetSender(w) ==
  LET s == SenderOf[w] IN
  /\ watch[w] = "sentenced"
  /\ watch' = [watch EXCEPT ![w] = "signalling"]
  /\ doomed' = [doomed EXCEPT ![w] = entry[s]]
  /\ entry' = [entry EXCEPT ![s] = {}]
  /\ owner' = [owner EXCEPT ![s] = NoGoal]
  /\ UNCHANGED <<acceptVars, mapVars, stateVars, signalVars, enderVars, resultVars, cancelVars,
                 sweepVars, signalling, watchTok, unread, alive, visible>>

\* One of its goals that still has a slot and did not end gets the signal.
SignalSenderGone(w, g) ==
  /\ watch[w] = "signalling" /\ g \in doomed[w]
  /\ IF g \in registry /\ g \notin terminal
     THEN /\ SignalCancel(g, "sender_gone")
          /\ watch' = [watch EXCEPT ![w] = "taking"]
          /\ signalling' = [signalling EXCEPT ![w] = g]
     ELSE UNCHANGED <<cause, cancelled, watch, signalling>>
  /\ doomed' = [doomed EXCEPT ![w] = @ \ {g}]
  /\ UNCHANGED <<acceptVars, mapVars, stateVars, linked, tokens, held, enderVars, resultVars,
                 cancelVars, sweepVars, entry, owner, watchTok, unread, alive, visible>>

SenderGoneTakes(w) ==
  LET g == signalling[w] IN
  /\ watch[w] = "taking"
  /\ watch' = [watch EXCEPT ![w] = "cancelling"]
  /\ watchTok' = [watchTok EXCEPT ![w] = {<<g, l>> : l \in linked[g]}]
  /\ TakeLinked(g)
  /\ UNCHANGED <<acceptVars, mapVars, stateVars, cause, cancelled, tokens, held, enderVars,
                 resultVars, cancelVars, sweepVars, entry, owner, doomed, signalling, unread, alive,
                 visible>>

SenderGoneTokens(w) ==
  /\ watch[w] = "cancelling"
  /\ watch' = [watch EXCEPT ![w] = "signalling"]
  /\ tokens' = tokens \cup watchTok[w]
  /\ watchTok' = [watchTok EXCEPT ![w] = {}]
  /\ signalling' = [signalling EXCEPT ![w] = NoGoal]
  /\ UNCHANGED <<acceptVars, mapVars, stateVars, cause, cancelled, linked, held, enderVars,
                 resultVars, cancelVars, sweepVars, entry, owner, doomed, unread, alive, visible>>

WatchEnds(w) ==
  /\ watch[w] = "signalling" /\ doomed[w] = {}
  /\ WatchTo(w, "done")
  /\ UNCHANGED unread

\* The subscription to the presence token fails, or its channel closes: the
\* entry of the sender is forgotten and its goals are no longer watched.
WatchFails(w) ==
  /\ "watch_fails" \in Faults
  /\ watch[w] \in {"resolving", "watching"}
  /\ watch' = [watch EXCEPT ![w] = "done"]
  /\ entry' = [entry EXCEPT ![SenderOf[w]] = {}]
  /\ owner' = [owner EXCEPT ![SenderOf[w]] = NoGoal]
  /\ UNCHANGED <<acceptVars, mapVars, stateVars, signalVars, enderVars, resultVars, cancelVars,
                 sweepVars, doomed, signalling, watchTok, unread, alive, visible>>

(***************************************************************************)
(* Drop of the engine, and the environment                                 *)
(***************************************************************************)

\* Drop of the ConcurrentAction: the loops stop, the watches are aborted.
EngineDrop ==
  /\ "engine_drop" \in Faults /\ running
  /\ running' = FALSE
  /\ entry' = [s \in Senders |-> {}]
  /\ owner' = [s \in Senders |-> NoGoal]
  /\ watch' = [g \in Goals |-> IF (\E s \in Senders : owner[s] = g) /\ watch[g] \in AtAwait
                               THEN "done" ELSE watch[g]]
  /\ UNCHANGED <<phase, adopted, mapVars, stateVars, signalVars, enderVars, resultVars, cancelVars,
                 sweepVars, doomed, signalling, watchTok, unread, alive, visible>>

\* ... and an abort at the lock of the slot drops the poll in the loop's hand.
ResultLoopAborted ==
  /\ ~running /\ resPc = "act"
  /\ resPc' = "recv" /\ resPoll' = NoPoll
  /\ poll' = [poll EXCEPT ![resPoll] = "dropped"]
  /\ UNCHANGED <<acceptVars, mapVars, stateVars, signalVars, enderVars, answer, cancelVars,
                 sweepVars, watchVars>>

RetentionPasses(g) ==
  /\ state[g] = "terminal" /\ g \notin due
  /\ due' = due \cup {g}
  /\ UNCHANGED <<acceptVars, mapVars, state, waiters, terminal, outcome, signalVars, enderVars,
                 resultVars, cancelVars, sweepVars, watchVars>>

ParkDeadlinePasses(p) ==
  /\ p \in pending[PollOf[p]] /\ p \notin parkDue
  /\ parkDue' = parkDue \cup {p}
  /\ UNCHANGED <<acceptVars, registry, pending, early, earlyDue, tombs, stateVars, signalVars,
                 enderVars, resultVars, cancelVars, sweepVars, watchVars>>

EarlyCancelAges(key) ==
  /\ key \in early \ earlyDue
  /\ earlyDue' = earlyDue \cup {key}
  /\ UNCHANGED <<acceptVars, registry, pending, parkDue, early, tombs, stateVars, signalVars,
                 enderVars, resultVars, cancelVars, sweepVars, watchVars>>

\* The token of s goes: each task subscribed to it gets a Gone event.
TokenGone(s) ==
  /\ visible' = visible \ {s}
  /\ unread' = IF s \in visible
               THEN unread \cup {w \in Goals : /\ SenderOf[w] = s
                                               /\ watch[w] \in {"watching", "suspect", "suspect2"}}
               ELSE unread
  /\ UNCHANGED <<acceptVars, mapVars, stateVars, signalVars, enderVars, resultVars, cancelVars,
                 sweepVars, entry, owner, watch, doomed, signalling, watchTok>>

SenderDies(s) ==
  /\ "sender_dies" \in Faults /\ s \in alive
  /\ alive' = alive \ {s}
  /\ TokenGone(s)

\* A router bounce hides the token of a live sender for a while.
TokenHidden(s) ==
  /\ "router_bounce" \in Faults /\ s \in alive \cap visible
  /\ TokenGone(s)
  /\ UNCHANGED alive

TokenBack(s) ==
  /\ s \in alive \ visible
  /\ visible' = visible \cup {s}
  /\ UNCHANGED <<acceptVars, mapVars, stateVars, signalVars, enderVars, resultVars, cancelVars,
                 sweepVars, entry, owner, watch, doomed, signalling, watchTok, unread, alive>>

AcceptStep(g) ==
  \/ AcceptRegister(g) \/ AcceptEarlyCancel(g) \/ AcceptAdopt(g) \/ AcceptExtend(g)
  \/ AcceptReply(g) \/ AcceptReplyFails(g) \/ TrackSenderGoal(g)

EnderStep(g) ==
  \/ AbandonSwap(g)
  \/ \E e \in Enders \cup {Abandon} : ReplaceState(g, e) \/ PublishEnd(g, e)
  \/ \E e \in Enders \cup {Abandon}, p \in Polls : WakeWaiter(g, e, p)

ResultStep == RelookUnderLock \/ RouteUnderLock \/ ActOnSlot
CancelStep == CancelLookTombstone \/ RememberEarlyCancel \/ CancelSlot \/ CancelTakes
              \/ CancelTokens
SweepStep == \/ SweepEvict \/ SweepLockTombs \/ SweepPolls \/ EndIdleSenderWatches
             \/ SweepEarlyCancels
             \/ \E g \in Goals : SweepTombstone(g)
WatchTaskStep(w) ==
  \/ WatchResolve(w) \/ WatchReadGone(w) \/ WatchProbeAbsent(w) \/ WatchProbeSeen(w)
  \/ ForgetSender(w) \/ SenderGoneTakes(w) \/ SenderGoneTokens(w) \/ WatchEnds(w)
  \/ \E g \in Goals : SignalSenderGone(w, g)

WorkerStep(g) ==
  \/ \E e \in Enders, o \in Results : Deliver(g, e, o)
  \/ \E e \in Enders : DeliverDropped(g, e)
  \/ ContextDrop(g)
  \/ \E l \in Links : Link(g, l) \/ Unlink(g, l)

TimeStep ==
  \/ \E g \in Goals : RetentionPasses(g)
  \/ \E p \in Polls : ParkDeadlinePasses(p)
  \/ \E key \in early : EarlyCancelAges(key)

PresenceStep == \E s \in Senders : SenderDies(s) \/ TokenHidden(s) \/ TokenBack(s)

Next ==
  \/ \E g \in Goals : RecvNextGoal(g) \/ Refuse(g) \/ AcceptStep(g) \/ EnderStep(g)
                      \/ WorkerStep(g) \/ WatchTaskStep(g) \/ WatchFails(g)
  \/ \E p \in Polls : RecvResultPoll(p)
  \/ \E c \in Cancels : RecvCancel(c)
  \/ ResultStep \/ CancelStep \/ SweepStep
  \/ EngineDrop \/ ResultLoopAborted \/ TimeStep \/ PresenceStep

Spec == Init /\ [][Next]_vars

\* The tasks of the engine run on the async runtime, which polls every ready
\* task: each has weak fairness. So do the timers and a hidden token's return.
\* The worker's and the clients' own moves have none.
Fairness ==
  /\ \A g \in Goals : WF_vars(AcceptStep(g)) /\ WF_vars(EnderStep(g)) /\ WF_vars(WatchTaskStep(g))
  /\ WF_vars(ResultStep) /\ WF_vars(CancelStep) /\ WF_vars(SweepStep)
  /\ \A p \in Polls : WF_vars(ParkDeadlinePasses(p))

FairSpec == Spec /\ Fairness

(***************************************************************************)
(* Properties                                                              *)
(***************************************************************************)

EarlyKeys == Goals \X (Senders \cup {NoCaller})

AcceptOK ==
  /\ running \in BOOLEAN
  /\ phase \in [Goals -> Phases] /\ adopted \in [Goals -> SUBSET Polls]
MapsOK ==
  /\ registry \subseteq Goals /\ pending \in [Goals -> SUBSET Polls] /\ parkDue \subseteq Polls
  /\ early \subseteq EarlyKeys /\ earlyDue \subseteq EarlyKeys /\ tombs \in Seq(Goals)
SlotsOK ==
  /\ state \in [Goals -> {"none", "pending", "terminal"}]
  /\ waiters \in [Goals -> SUBSET Polls] /\ terminal \subseteq Goals
  /\ outcome \in [Goals -> Outcomes \cup {NoOutcome}] /\ due \subseteq Goals
SignalsOK ==
  /\ cause \in [Goals -> {"none", "caller", "sender_gone"}] /\ cancelled \subseteq Goals
  /\ linked \in [Goals -> SUBSET Links]
  /\ tokens \subseteq Goals \X Links /\ held \subseteq Goals \X Links
EnderTable == [Goals -> [Enders \cup {Abandon} -> EnderStates]]
EndersOK ==
  /\ ender \in EnderTable
  /\ ending \in [Goals -> Outcomes \cup {NoOutcome}]
  /\ waking \in [Goals -> SUBSET Polls] /\ ends \in [Goals -> Nat]
PollsOK ==
  /\ poll \in [Polls -> PollStates] /\ answer \in [Polls -> Outcomes \cup {NoOutcome, Expired}]
  /\ resPc \in {"recv", "relook", "locked", "act"} /\ resPoll \in Polls \cup {NoPoll}
  /\ (resPc # "recv") => (resPoll \in Polls)
CancelsOK ==
  /\ reply \in [Cancels -> CancelStates]
  /\ canPc \in {"recv", "tombstone", "early", "slot", "take", "tokens"}
  /\ canReq \in Cancels \cup {NoCancel} /\ ((canPc # "recv") => (canReq \in Cancels))
  /\ canTok \subseteq Goals \X Links
SweepOK ==
  /\ swPc \in {"sleep", "evicted", "tombs", "polls", "watches", "early"} /\ expired \subseteq Goals
WatchesOK ==
  /\ entry \in [Senders -> SUBSET Goals] /\ owner \in [Senders -> Goals \cup {NoGoal}]
  /\ watch \in [Goals -> WatchStates] /\ doomed \in [Goals -> SUBSET Goals]
  /\ signalling \in [Goals -> Goals \cup {NoGoal}]
  /\ \A w \in Goals : (watch[w] = "taking") => (signalling[w] \in Goals)
  /\ watchTok \in [Goals -> SUBSET (Goals \X Links)] /\ unread \subseteq Goals
  /\ alive \subseteq Senders /\ visible \subseteq Senders

\* The variables keep their types; a loop that works on a request holds it.
TypeOK ==
  /\ AcceptOK /\ MapsOK /\ SlotsOK /\ SignalsOK /\ EndersOK /\ PollsOK /\ CancelsOK
  /\ SweepOK /\ WatchesOK

\* The phases after accept read the early cancels, and after it adopted the polls.
PastEarlyCheck == {"cancel_checked", "adopting", "adopted", "replied", "live", "dropped"}
PastAdoption   == {"adopting", "adopted", "replied", "live", "dropped"}

\* A poll that beat accept is adopted or sees the slot: no poll stays in
\* pending_waiters of a goal whose slot accept finished registering
\* (route_result_poll reads the registry again under the lock).
NoOrphanPoll ==
  \A g \in registry : (phase[g] \in PastAdoption) => (pending[g] = {})

\* A cancel of the sender that beat accept is applied by accept or reaches the
\* slot: it never stays remembered beside the registered goal.
NoOrphanCancel ==
  \A g \in registry : (phase[g] \in PastEarlyCheck) => (<<g, SlotOwner(g)>> \notin early)

\* No lost wakeup: a parked responder is in exactly one place that will still be
\* drained, and none waits in a slot that is terminal already.
NoLostWakeup ==
  /\ \A g \in Goals : (waiters[g] # {}) => (state[g] = "pending")
  /\ \A p \in Polls :
       LET g == PollOf[p] IN
       (poll[p] = "parked") =>
         Cardinality({place \in 1 .. 4 : p \in <<pending[g], adopted[g], waiters[g],
                                                 waking[g]>>[place]}) = 1

\* The first end wins: an outcome never changes, and the feedback stream is
\* closed once, however many calls race.
EndStays ==
  \A g \in Goals : /\ (outcome[g] # NoOutcome) => (outcome'[g] = outcome[g])
                   /\ ends'[g] <= 1

FirstEndWins == [][EndStays]_vars

\* On an endpoint that verifies its callers, a goal is cancelled by its caller
\* only after a cancel request that its own sender sent.
OnlyOwnerCancels ==
  Checked => \A g \in Goals : (cause[g] = "caller") =>
    \E c \in Cancels : /\ CancelOf[c] = g /\ CancelBy[c] = SenderOf[g]
                       /\ reply[c] # "none" \/ canReq = c

\* A cancel answered Signalled reached the goal, and a goal whose cancel was
\* answered AlreadyTerminal has ended.
CancelReplyTrue ==
  \A c \in Cancels :
    /\ (reply[c] = "signalled") => (CancelOf[c] \in cancelled)
    /\ (reply[c] = "already_terminal") => (CancelOf[c] \in terminal)

\* The signal cancels each linked token before the engine answers the cancel
\* request (comment of cancel_at_signal), unless a sender watch that signals the
\* same goal has taken the tokens and is about to cancel them.
SignalledReachedLinksOrRaces ==
  \A c \in Cancels, l \in Links :
    LET t == <<CancelOf[c], l>> IN
    (reply[c] = "signalled" /\ t \in held) => (t \in tokens \/ \E w \in Goals : t \in watchTok[w])

\* Every live goal is watched: it is in the entry of its sender and the task that
\* owns the entry runs (track_sender_goal against end_idle_sender_watches and the
\* end of a watch), or a task that took the entry is about to signal it, or it has
\* its signal.
LiveGoalWatched ==
  running => \A g \in Goals : (phase[g] = "live" /\ g \notin terminal) =>
    \/ /\ g \in entry[SenderOf[g]] /\ owner[SenderOf[g]] # NoGoal
       /\ watch[owner[SenderOf[g]]] \in AtAwait \cup {"sentenced"}
    \/ \E w \in Goals : g \in doomed[w]
    \/ g \in cancelled

\* Without a router bounce only a dead sender is taken for gone: a probe that
\* fails never fabricates a death (comment of confirm_gone).
NoFabricatedDeath ==
  ("router_bounce" \notin Faults) =>
    \A g \in Goals : (cause[g] = "sender_gone") => (SenderOf[g] \notin alive)

\* A goal whose context is gone has ended and its feedback stream is closed
\* (Drop of GoalContext: a client draining feedback breaks out).
DroppedGoalEnds ==
  \A g \in Goals : (phase[g] = "dropped" /\ \A e \in Enders \cup {Abandon} : ender[g][e] \notin InProgress)
    => (state[g] = "terminal" /\ ends[g] = 1)

\* No poll stays parked for good: one at a goal whose context is gone gets its
\* answer (transition_terminal), and one that parked before accept is adopted or
\* dropped at its deadline (sweep_once).
ParkedPollsLeave ==
  \A p \in Polls :
    /\ (phase[PollOf[p]] = "dropped" /\ p \in waiters[PollOf[p]]) ~> (poll[p] = "answered")
    /\ (p \in pending[PollOf[p]]) ~> (p \notin pending[PollOf[p]])

\* A goal whose sender is gone receives its cancel signal or ends.
SenderGoneCancels ==
  \A g \in Goals : (phase[g] = "live" /\ SenderOf[g] \notin alive) ~> (g \in cancelled \cup terminal)
=============================================================================
