--------------------------- MODULE DaemonPresence ---------------------------
(***************************************************************************)
(* Who may speak for a core node's name, and what a node does about it.    *)
(*                                                                         *)
(* Daemon processes that boot under one core node name elect an owner      *)
(* (crates/core-node-internal/src/services/presence.rs, claim_name): each  *)
(* declares a candidate token, reads the tokens under the name until it    *)
(* is refused or stands alone for a whole settle window, and then declares *)
(* the token of its process.  The owner watches the name for a second      *)
(* owner and raises an alarm (watch_for_duplicate_name).  A node follows   *)
(* the daemon that started it (peppylib-rs, services/daemon_watchdog.rs):  *)
(* it ends when that daemon falls silent, or when another daemon of the    *)
(* name beats and nothing says that its own daemon lives.                  *)
(*                                                                         *)
(* Tokens live in the registries of the routers.  Declarations cross the   *)
(* links between routers in order and late; a process that dies takes its  *)
(* tokens with it late; a session drops and comes back; a read may miss    *)
(* tokens.                                                                 *)
(***************************************************************************)
EXTENDS Naturals, FiniteSets, Sequences

CONSTANTS
    Daemons,     \* instance ids of daemon processes, drawn at boot and ordered
    Routers,     \* the routers of the federation, each linked with the others
    RouterOf,    \* the router each daemon process, and its node, is a client of
    Federated,   \* the daemons whose own managed router has configured connect links
                 \* (daemon-internal/src/builder.rs, has_router_links)
    Watched,     \* the daemons whose node the model follows
    MaxFaults    \* bound on the faults that void the election's premises

ASSUME IdsAssumption == Daemons \subseteq Nat /\ IsFiniteSet(Daemons)

ASSUME PlacesAssumption ==
    /\ RouterOf \in [Daemons -> Routers]
    /\ Federated \subseteq Daemons /\ Watched \subseteq Daemons
    /\ MaxFaults \in Nat

VARIABLES
    phase,     \* how far each daemon process is with its claim and its life
    trail,     \* the token sets each process held, in the order it held them
    applied,   \* how much of a trail each router has been told of
    offline,   \* the daemons whose session is down
    before,    \* how much of each trail an open claim's settle window waits for
    settled,   \* the daemons whose settle window has passed
    blind,     \* the claims whose last read did not list their own candidacy
    alarmed,   \* the running owners that raised the name collision alarm
    node,      \* what the watchdog of a daemon's node is doing
    ownLive,   \* own_token_live of that watchdog
    told,      \* the last state of the own token that was sent to it
    reports,   \* presence reports that arrived and are not read yet
    beats,     \* the daemons with a beat that is not read yet
    missed,    \* the nodes one of whose reads missed a live own token
    faults,    \* the faults so far
    hasty      \* the daemons that booted with no settle window while their router had
               \* not heard of another such daemon across a link: history

claimVars == <<phase, trail, before, settled, blind>>
nodeVars == <<node, ownLive, told, reports, beats, missed>>
vars == <<phase, trail, applied, offline, before, settled, blind, alarmed,
          node, ownLive, told, reports, beats, missed, faults, hasty>>

Phases == {"off", "claiming", "committing", "declared", "up",
           "refused", "failed", "crashed", "stopped"}
Kinds == {"candidate", "claim"}
Tokens == Daemons \X Kinds
NodeStates == {"none", "watching", "checking", "replaced", "silent",
               "unwatched", "stopped"}

(***************************************************************************)
(* The registries.  Held(d) is what process d holds, Listed(r) what the    *)
(* registry of router r lists: everything declared at r itself, and of the *)
(* other routers' processes what has crossed the link.                     *)
(***************************************************************************)
Held(d) == IF trail[d] = <<>> THEN {} ELSE trail[d][Len(trail[d])]

Reached(r, d) == IF RouterOf[d] = r THEN Len(trail[d]) ELSE applied[r][d]

Known(r, d) ==
    IF d \in offline \/ Reached(r, d) = 0 THEN {} ELSE trail[d][Reached(r, d)]

Listed(r) == UNION {{d} \X Known(r, d) : d \in Daemons}

Hold(d, kinds) == trail' = [trail EXCEPT ![d] = Append(@, kinds)]

\* A change of tokens crosses one link; a link never reorders a process's
\* declarations, and may hand over several at once.
Crosses(r, d) ==
    /\ RouterOf[d] # r
    /\ \E n \in applied[r][d] + 1 .. Len(trail[d]) :
          applied' = [applied EXCEPT ![r][d] = n]
    /\ UNCHANGED <<claimVars, offline, alarmed, nodeVars, faults, hasty>>

(***************************************************************************)
(* The claim.                                                              *)
(***************************************************************************)
\* A routed query answers with a token once per path it took; claim_name reads the
\* replies as a set of identities before it judges them.
Replies(listed, twice) == {[token |-> t, path |-> 1] : t \in listed}
                          \cup {[token |-> t, path |-> 2] : t \in twice}
\* Mutant: the raw replies are counted.
DedupNever(replies) == replies

Dedup(replies) == {[token |-> reply.token, path |-> 1] : reply \in replies}

\* Mutant: a rival candidate that is not smaller is not waited for.
ArbitrateSmallest(d, read) ==
    LET candidates == {reply \in read : reply.token[2] = "candidate"}
        owned == candidates # read
        visible == \E reply \in candidates : reply.token[1] = d
        lost == \E reply \in candidates : reply.token[1] < d
    IN CASE owned -> "owned"
         [] ~owned /\ ~visible -> "invisible"
         [] ~owned /\ visible /\ lost -> "lost"
         [] ~owned /\ visible /\ ~lost -> "sole"

\* Mutant: any rival refuses the claim.
ArbitrateAnyRival(d, read) ==
    LET candidates == {reply \in read : reply.token[2] = "candidate"}
        owned == candidates # read
        visible == \E reply \in candidates : reply.token[1] = d
    IN CASE owned -> "owned"
         [] ~owned /\ ~visible -> "invisible"
         [] ~owned /\ visible ->
                IF Cardinality(candidates) > 1 THEN "lost" ELSE "sole"

\* arbitrate_claim: the verdict of one read of replies.
Arbitrate(d, read) ==
    LET candidates == {reply \in read : reply.token[2] = "candidate"}
        owned == candidates # read
        visible == \E reply \in candidates : reply.token[1] = d
        lost == \E reply \in candidates : reply.token[1] < d
    IN CASE owned -> "owned"
         [] ~owned /\ ~visible -> "invisible"
         [] ~owned /\ visible /\ lost -> "lost"
         [] ~owned /\ visible /\ ~lost ->
                IF Cardinality(candidates) > 1 THEN "awaiting" ELSE "sole"

Verdict(d, listed, twice) == Arbitrate(d, Dedup(Replies(listed, twice)))

\* claim_name declares the candidacy before it reads anything.  Only a federated
\* daemon has a settle window: one whose own router has no configured link takes
\* that router for authoritative and goes by what it lists, even if others dial it.
\* Such a boot can miss a claim whose candidacy has not crossed yet; the window of
\* that claim then waits for this one.
Unheard(r) == {e \in Daemons : trail[e] # <<>> /\ Reached(r, e) = 0}

Boot(d) ==
    LET r == RouterOf[d]
        missing == IF d \in Federated THEN {} ELSE Unheard(r)
    IN /\ phase[d] = "off"
       /\ phase' = [phase EXCEPT ![d] = "claiming"]
       /\ Hold(d, {"candidate"})
       /\ before' = [e \in Daemons |->
              CASE e = d -> [x \in Daemons |->
                                IF d \in Federated THEN Len(trail[x]) ELSE Reached(r, x)]
                [] e \in missing /\ phase[e] = "claiming" -> [before[e] EXCEPT ![d] = 1]
                [] OTHER -> before[e]]
       /\ settled' = IF d \in Federated THEN settled ELSE settled \cup {d}
       /\ hasty' = IF missing \subseteq Federated THEN hasty ELSE hasty \cup {d}
       /\ UNCHANGED <<applied, offline, blind, alarmed, nodeVars, faults>>

\* claim_name returns, or its process dies: what it kept for the claim goes.
ClaimReturns(d) ==
    /\ before' = [before EXCEPT ![d] = [e \in Daemons |-> 0]]
    /\ settled' = settled \ {d}
    /\ blind' = blind \ {d}

\* The claim ends without the name; its candidate token is dropped with it.
GivesUp(d, why) ==
    /\ phase' = [phase EXCEPT ![d] = why]
    /\ Hold(d, {})
    /\ ClaimReturns(d)

\* The loop goes on, after a read that lists the own candidacy or not.
GoesOn(d, blindNow) ==
    /\ blind' = IF blindNow THEN blind \cup {d} ELSE blind \ {d}
    /\ UNCHANGED <<phase, trail, before, settled>>

\* One round of the loop on a read that says something.
Judge(d, verdict) ==
    \/ /\ verdict \in {"owned", "lost"}
       /\ GivesUp(d, "refused")
    \/ /\ verdict = "sole"
       /\ d \in settled
       /\ phase' = [phase EXCEPT ![d] = "committing"]
       /\ UNCHANGED <<trail, before, settled, blind>>
    \/ /\ verdict = "awaiting" \/ (verdict = "sole" /\ d \notin settled)
       /\ GoesOn(d, FALSE)

\* A read that lists everything the router knows.
ReadWhole(d) ==
    /\ phase[d] = "claiming"
    /\ d \notin offline
    /\ \E twice \in {{}, Listed(RouterOf[d])} :
          Judge(d, Verdict(d, Listed(RouterOf[d]), twice))
    /\ UNCHANGED <<applied, offline, alarmed, nodeVars, faults, hasty>>

\* A degraded read: the query timed out or lost replies, the own candidacy's
\* among them.  A claim it still shows is evidence; otherwise the claim is blind,
\* and may have been for the whole NAME_CLAIM_SELF_VISIBILITY_TIMEOUT.
ReadDegraded(d) ==
    /\ phase[d] = "claiming"
    /\ \E read \in SUBSET ((IF d \in offline THEN {} ELSE Listed(RouterOf[d]))
                           \ {<<d, "candidate">>}) :
          \/ /\ Verdict(d, read, {}) = "owned"
             /\ GivesUp(d, "refused")
          \/ /\ Verdict(d, read, {}) = "invisible"
             /\ \/ GoesOn(d, TRUE)
                \/ /\ d \in blind
                   /\ GivesUp(d, "failed")
    /\ UNCHANGED <<applied, offline, alarmed, nodeVars, faults, hasty>>

\* A degraded read that does list the own candidacy passes for a whole one.
ReadMisses(d) ==
    /\ phase[d] = "claiming"
    /\ d \notin offline
    /\ faults < MaxFaults
    /\ \E read \in SUBSET Listed(RouterOf[d]) :
          /\ <<d, "candidate">> \in read
          /\ read # Listed(RouterOf[d])
          /\ Judge(d, Verdict(d, read, {}))
    /\ faults' = faults + 1
    /\ UNCHANGED <<applied, offline, alarmed, nodeVars, hasty>>

\* A read, or the declaration of the token, fails, and the boot with it.
CallFails(d) ==
    /\ phase[d] \in {"claiming", "committing"}
    /\ GivesUp(d, "failed")
    /\ UNCHANGED <<applied, offline, alarmed, nodeVars, faults, hasty>>

\* The settle window passes.  It is sized far above the time the links take to flush:
\* by then the candidacy has reached every router, and what was declared before it,
\* or at a router before it was heard of there, has arrived.
Flushed(d) ==
    /\ \A r \in Routers : Reached(r, d) > 0
    /\ \A e \in Daemons : Reached(RouterOf[d], e) >= before[d][e]

Settles(d) ==
    /\ phase[d] = "claiming"
    /\ d \notin settled
    /\ Flushed(d)
    /\ settled' = settled \cup {d}
    /\ UNCHANGED <<phase, trail, before, blind, applied, offline, alarmed, nodeVars,
                   faults, hasty>>

\* A link that comes up later than that.
SettlesTooSoon(d) ==
    /\ phase[d] = "claiming"
    /\ d \notin settled
    /\ ~Flushed(d)
    /\ faults < MaxFaults
    /\ settled' = settled \cup {d}
    /\ faults' = faults + 1
    /\ UNCHANGED <<phase, trail, before, blind, applied, offline, alarmed, nodeVars, hasty>>

\* The winner declares the token of its process, and only then drops its
\* candidacy: at no time does it hold neither.
Declare(d) ==
    /\ phase[d] = "committing"
    /\ Hold(d, Held(d) \cup {"claim"})
    /\ phase' = [phase EXCEPT ![d] = "declared"]
    /\ UNCHANGED <<before, settled, blind, applied, offline, alarmed, nodeVars, faults, hasty>>

DropCandidate(d) ==
    /\ phase[d] = "declared"
    /\ Hold(d, {"claim"})
    /\ phase' = [phase EXCEPT ![d] = "up"]
    /\ ClaimReturns(d)
    /\ UNCHANGED <<applied, offline, alarmed, nodeVars, faults, hasty>>

(***************************************************************************)
(* The owner's watch of its name.                                          *)
(***************************************************************************)
\* is_committed_foreign_claim
\* Mutant: the candidates of the name count as owners.
IsForeignClaim(d, token) == token # <<d, "claim">>

\* Mutant: only the claims of smaller ids, the election's winners, are reported.
IsSmallerClaim(d, token) == token[1] < d /\ token[2] = "claim"

IsCommittedForeignClaim(d, token) == token[1] # d /\ token[2] = "claim"

\* One Alive report of the watch: of a token listed at the owner's router, or of
\* its own candidacy, which a history replay can deliver after it was dropped.
\* The cooldown only spares the log a repetition.
Hears(d) ==
    /\ phase[d] = "up"
    /\ d \notin alarmed
    /\ \E token \in Listed(RouterOf[d]) \cup {<<d, "candidate">>} :
          /\ IsCommittedForeignClaim(d, token)
          /\ alarmed' = alarmed \cup {d}
    /\ UNCHANGED <<claimVars, applied, offline, nodeVars, faults, hasty>>

(***************************************************************************)
(* The ends of a daemon process, and its session.                          *)
(***************************************************************************)
Running == {"claiming", "committing", "declared", "up"}

\* An uncatchable death: nothing is cleaned up.
Crash(d) ==
    /\ phase[d] \in Running
    /\ phase' = [phase EXCEPT ![d] = "crashed"]
    /\ ClaimReturns(d)
    /\ alarmed' = alarmed \ {d}
    /\ UNCHANGED <<trail, applied, offline, nodeVars, faults, hasty>>

\* The routers give up on the session of a process that died.
Expires(d) ==
    /\ phase[d] = "crashed"
    /\ Held(d) # {}
    /\ Hold(d, {})
    /\ UNCHANGED <<phase, before, settled, blind, applied, offline, alarmed, nodeVars,
                   faults, hasty>>

\* The watch of a node returns; what the session still holds for it is dropped.
WatchReturns(d, why) ==
    /\ node' = [node EXCEPT ![d] = why]
    /\ ownLive' = [ownLive EXCEPT ![d] = FALSE]
    /\ told' = [told EXCEPT ![d] = FALSE]
    /\ reports' = [reports EXCEPT ![d] = <<>>]
    /\ beats' = [beats EXCEPT ![d] = {}]

\* A clean stop tears the daemon's nodes down before the daemon goes.
Stop(d) ==
    /\ phase[d] = "up"
    /\ phase' = [phase EXCEPT ![d] = "stopped"]
    /\ Hold(d, {})
    /\ WatchReturns(d, IF node[d] = "none" THEN "none" ELSE "stopped")
    /\ alarmed' = alarmed \ {d}
    /\ UNCHANGED <<before, settled, blind, applied, offline, missed, faults, hasty>>

\* The router of a daemon restarts: the session drops, its tokens are listed
\* nowhere until it is back.
SessionDrops(d) ==
    /\ phase[d] \in Running
    /\ d \notin offline
    /\ faults < MaxFaults
    /\ offline' = offline \cup {d}
    /\ faults' = faults + 1
    /\ UNCHANGED <<claimVars, applied, alarmed, nodeVars, hasty>>

SessionReturns(d) ==
    /\ d \in offline
    /\ offline' = offline \ {d}
    /\ UNCHANGED <<claimVars, applied, alarmed, nodeVars, faults, hasty>>

(***************************************************************************)
(* A node of daemon d, started by it and watching it.                      *)
(***************************************************************************)
OwnListed(d) == "claim" \in Known(RouterOf[d], d)

StartNode(d) ==
    /\ d \in Watched
    /\ phase[d] = "up"
    /\ node[d] = "none"
    /\ node' = [node EXCEPT ![d] = "watching"]
    /\ UNCHANGED <<claimVars, applied, offline, alarmed,
                   ownLive, told, reports, beats, missed, faults, hasty>>

\* A report of the own token reaches the node's session.
ReportArrives(d) ==
    /\ node[d] \in {"watching", "checking"}
    /\ told[d] # OwnListed(d)
    /\ told' = [told EXCEPT ![d] = OwnListed(d)]
    /\ reports' = [reports EXCEPT ![d] = Append(@, OwnListed(d))]
    /\ UNCHANGED <<claimVars, applied, offline, alarmed, node, ownLive, beats, missed,
                   faults, hasty>>

\* A beat of another daemon reaches the session of the node of d.  The own daemon's
\* beats do nothing but restart the grace, which Silence accounts for.
Beat(e, d) ==
    /\ e # d
    /\ phase[e] = "up"
    /\ e \notin offline
    /\ node[d] \in {"watching", "checking"}
    /\ e \notin beats[d]
    /\ beats' = [beats EXCEPT ![d] = @ \cup {e}]
    /\ UNCHANGED <<claimVars, applied, offline, alarmed, node, ownLive, told, reports,
                   missed, faults, hasty>>

\* next_signal is biased: a report that arrived is read before any beat.
\* Mutant: a token that went away is not noted.
HearReportAlive(d) ==
    /\ node[d] = "watching"
    /\ reports[d] # <<>>
    /\ ownLive' = [ownLive EXCEPT ![d] = @ \/ Head(reports[d])]
    /\ reports' = [reports EXCEPT ![d] = Tail(@)]
    /\ UNCHANGED <<claimVars, applied, offline, alarmed, node, told, beats, missed,
                   faults, hasty>>

HearReport(d) ==
    /\ node[d] = "watching"
    /\ reports[d] # <<>>
    /\ ownLive' = [ownLive EXCEPT ![d] = Head(reports[d])]
    /\ reports' = [reports EXCEPT ![d] = Tail(@)]
    /\ UNCHANGED <<claimVars, applied, offline, alarmed, node, told, beats, missed,
                   faults, hasty>>

\* The beat of another daemon: the node stays if it knows that its own lives, and
\* asks the registry otherwise.
\* Mutant: what the watch has heard decides alone.
AfterOtherBeatUnread(d) == IF ownLive[d] THEN "watching" ELSE "replaced"

AfterOtherBeat(d) == IF ownLive[d] THEN "watching" ELSE "checking"

HearOtherBeat(d, e) ==
    /\ node[d] = "watching"
    /\ reports[d] = <<>>
    /\ e \in beats[d]
    /\ beats' = [beats EXCEPT ![d] = @ \ {e}]
    /\ node' = [node EXCEPT ![d] = AfterOtherBeat(d)]
    /\ UNCHANGED <<claimVars, applied, offline, alarmed, ownLive, told, reports,
                   missed, faults, hasty>>

\* reads_present: only a token that is listed is evidence; a read may miss it.
ReadsPresent(d, lists) ==
    /\ node[d] = "checking"
    /\ lists => OwnListed(d)
    /\ \/ /\ lists
          /\ node' = [node EXCEPT ![d] = "watching"]
          /\ UNCHANGED <<ownLive, told, reports, beats>>
       \/ /\ ~lists
          /\ WatchReturns(d, "replaced")
    /\ missed' = IF OwnListed(d) /\ ~lists THEN missed \cup {d} ELSE missed
    /\ UNCHANGED <<claimVars, applied, offline, alarmed, faults, hasty>>

\* The grace passes with no beat of the own daemon.  It is generous: the beats of
\* a daemon that runs arrive within it, a restart of its router included.
Silence(d) ==
    /\ node[d] = "watching"
    /\ reports[d] = <<>>
    /\ beats[d] = {}
    /\ phase[d] # "up"
    /\ WatchReturns(d, "silent")
    /\ UNCHANGED <<claimVars, applied, offline, alarmed, missed, faults, hasty>>

\* The node's session closes: the watch ends, and says nothing about the daemon.
SessionCloses(d) ==
    /\ node[d] = "watching"
    /\ WatchReturns(d, "unwatched")
    /\ UNCHANGED <<claimVars, applied, offline, alarmed, missed, faults, hasty>>

-----------------------------------------------------------------------------
Init ==
    /\ phase = [d \in Daemons |-> "off"]
    /\ trail = [d \in Daemons |-> <<>>]
    /\ applied = [r \in Routers |-> [d \in Daemons |-> 0]]
    /\ offline = {}
    /\ before = [d \in Daemons |-> [e \in Daemons |-> 0]]
    /\ settled = {}
    /\ blind = {}
    /\ alarmed = {}
    /\ node = [d \in Daemons |-> "none"]
    /\ ownLive = [d \in Daemons |-> FALSE]
    /\ told = [d \in Daemons |-> FALSE]
    /\ reports = [d \in Daemons |-> <<>>]
    /\ beats = [d \in Daemons |-> {}]
    /\ missed = {}
    /\ faults = 0
    /\ hasty = {}

Claim(d) == \/ Boot(d) \/ ReadWhole(d) \/ ReadDegraded(d) \/ ReadMisses(d) \/ CallFails(d)
            \/ Settles(d) \/ SettlesTooSoon(d) \/ Declare(d) \/ DropCandidate(d)

Life(d) == \/ Hears(d) \/ Crash(d) \/ Expires(d) \/ Stop(d)
           \/ SessionDrops(d) \/ SessionReturns(d)

\* One step of the watchdog's loop on what has arrived.
WatchStep(d) == \/ HearReport(d)
                \/ \E e \in Daemons : HearOtherBeat(d, e)
                \/ \E lists \in BOOLEAN : ReadsPresent(d, lists)

Node(d) == \/ StartNode(d) \/ ReportArrives(d) \/ WatchStep(d)
           \/ Silence(d) \/ SessionCloses(d)
           \/ \E e \in Daemons : Beat(e, d)

Next == \/ \E d \in Daemons : Claim(d) \/ Life(d) \/ Node(d)
        \/ \E r \in Routers, d \in Daemons : Crosses(r, d)

Spec == Init /\ [][Next]_vars

\* The claim's loop, the links, the timers, the session's reconnection, the owner's
\* watch and the node's loop go on; boots, deaths, stops, faults and the node's start
\* are the environment's.  Not every read of a claim is degraded, and a running
\* daemon's beats arrive.  Silence is left without fairness: a new daemon must clear
\* the orphans alone.  Each step of Elapses happens finitely often, so that fairness
\* of their union is fairness of each.
Elapses == \E d \in Daemons :
    \/ Settles(d) \/ Hears(d) \/ Expires(d) \/ SessionReturns(d)
    \/ \E r \in Routers : Crosses(r, d)

Fairness ==
    /\ WF_vars(Elapses)
    /\ \A d \in Daemons : WF_vars(ReadWhole(d) \/ Declare(d) \/ DropCandidate(d))
    /\ \A d \in Watched :
          /\ WF_vars(ReportArrives(d))
          /\ WF_vars(WatchStep(d))
          /\ WF_vars(\E e \in Daemons : Beat(e, d))

FairSpec == Spec /\ Fairness

-----------------------------------------------------------------------------
\* The variables hold values of their types: the tokens of a process come from its
\* claim alone, and no router is ahead of what was declared (claim_name).
TypeOK ==
    /\ phase \in [Daemons -> Phases]
    /\ trail \in [Daemons -> Seq(SUBSET Kinds)]
    /\ \A r \in Routers, d \in Daemons : applied[r][d] \in 0 .. Len(trail[d])
    /\ \A d, e \in Daemons : before[d][e] \in 0 .. Len(trail[e])
    /\ offline \subseteq Daemons /\ settled \subseteq Daemons
    /\ alarmed \subseteq Daemons /\ missed \subseteq Watched
    /\ blind \subseteq {d \in Daemons : phase[d] \in {"claiming", "committing", "declared"}}
    /\ node \in [Daemons -> NodeStates]
    /\ ownLive \in [Daemons -> BOOLEAN] /\ told \in [Daemons -> BOOLEAN]
    /\ reports \in [Daemons -> Seq(BOOLEAN)]
    /\ beats \in [Daemons -> SUBSET Daemons]
    /\ faults \in 0 .. MaxFaults
    /\ hasty \subseteq Daemons \ Federated

Owners == {d \in Daemons : phase[d] \in {"declared", "up"}}

\* The premises of the election: reads that are whole or show they are not, sessions
\* that hold, links that flush within the settle window, and of two boots with no
\* window on two routers the later one after the links flushed (claim_name).
Clean == faults = 0 /\ hasty = {}

\* Under the election's premises no two running daemons hold one name, in
\* whatever order they boot, read, settle, declare and die (claim_name); and the
\* owner raises no collision alarm for the candidates of refused boots, its own
\* dropped candidacy or the token of a process that died (watch_for_duplicate_name).
OneOwner == Clean => Cardinality(Owners) <= 1 /\ alarmed = {}

\* A second daemon of the name does not end the nodes of a daemon that runs and is
\* connected, unless the registry read under load missed its token
\* (watch_own_daemon).
NodeKept ==
    [][\A d \in Watched : node'[d] = "replaced" /\ node[d] # "replaced"
                            => phase[d] # "up" \/ d \in offline \cup missed']_vars

OtherUp(d) == \E e \in Daemons : e # d /\ phase[e] = "up"

\* The claims that are open end, each with the name, refused or given up: no two wait
\* for each other, none waits for a process that is gone (claim_name), and daemons
\* that boot together do not all refuse each other away (arbitrate_claim).
ClaimsEnd ==
    (\E d \in Daemons : phase[d] = "claiming")
        ~> /\ \A d \in Daemons : phase[d] # "claiming"
           /\ \E d \in Daemons : phase[d] \notin {"off", "refused"}

\* Two owners of a name do not stay unreported: while both run, each raises the
\* alarm (watch_for_duplicate_name).
CollisionReported ==
    (\E d \in Daemons : phase[d] = "up" /\ OtherUp(d))
        ~> (\A d \in Daemons : phase[d] = "up" /\ OtherUp(d) => d \in alarmed)

\* The node of a daemon that died is ended by the beats of the name's new daemon,
\* with no help of the grace period, as long as one runs and the node's session
\* lasts (watch_own_daemon).
OrphanCleared ==
    \A d \in Watched :
        (node[d] \in {"watching", "checking"} /\ phase[d] = "crashed" /\ OtherUp(d))
            ~> (node[d] \notin {"watching", "checking"} \/ ~OtherUp(d))
=============================================================================
