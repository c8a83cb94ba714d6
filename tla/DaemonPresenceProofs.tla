------------------------ MODULE DaemonPresenceProofs ------------------------
(***************************************************************************)
(* Proofs about the election of a name's owner and about the nodes that    *)
(* follow it, for every number of daemons, routers and nodes, every        *)
(* placement of the daemons and every interleaving.                        *)
(*                                                                         *)
(* The argument of the election: of two claims that are open at once one   *)
(* has the other in its `before`, the later one unless it booted with no   *)
(* window and unaware of the earlier.  The router of whoever settled has   *)
(* heard of every process in its `before`, so it sees that claim until it  *)
(* has ended and cannot stand alone.  Hence all who run beside a process   *)
(* that stood alone have it in their `before`, and wait.                   *)
(***************************************************************************)
EXTENDS DaemonPresence, FiniteSetTheorems, SequenceTheorems, TLAPS

\* The process runs, and has or keeps its claim.
Alive(d) == phase[d] \in Running

\* The process stood alone and has taken the name, or is about to.
Chosen(d) == phase[d] \in {"committing", "declared", "up"}

\* The trail of d: how long it is, and its n-th set of tokens.
Size(d) == Len(trail[d])
Entry(d, n) == trail[d][n]

\* Types.
ClaimTypes ==
  /\ phase \in [Daemons -> Phases]
  /\ trail \in [Daemons -> Seq(SUBSET Kinds)]
  /\ applied \in [Routers -> [Daemons -> Nat]]
  /\ before \in [Daemons -> [Daemons -> Nat]]
  /\ offline \subseteq Daemons /\ settled \subseteq Daemons /\ alarmed \subseteq Daemons
  /\ blind \subseteq Daemons
  /\ faults \in 0 .. MaxFaults /\ hasty \subseteq Daemons \ Federated

NodeTypes ==
  /\ node \in [Daemons -> NodeStates]
  /\ ownLive \in [Daemons -> BOOLEAN] /\ told \in [Daemons -> BOOLEAN]
  /\ reports \in [Daemons -> Seq(BOOLEAN)]
  /\ beats \in [Daemons -> SUBSET Daemons]
  /\ missed \subseteq Watched
  /\ \A d \in Daemons : node[d] # "none" => d \in Watched

\* Nothing is known of a trail that it does not have.
ReachInv ==
  /\ \A r \in Routers, d \in Daemons : applied[r][d] <= Size(d)
  /\ \A d, e \in Daemons : before[d][e] <= Size(e)
  /\ \A d \in blind \cup settled : phase[d] \in {"claiming", "committing", "declared"}

\* A process that runs holds a token from its boot on; the empty set of tokens
\* is the last of its trail.
TrailInv ==
  \A d \in Daemons :
    /\ phase[d] = "off" => Size(d) = 0
    /\ Alive(d) => Size(d) >= 1
    /\ Alive(d) => \A n \in 1 .. Size(d) : Entry(d, n) # {}
    /\ \A n \in 1 .. Size(d) : Entry(d, n) = {} => n = Size(d)
    /\ phase[d] = "up" => Entry(d, Size(d)) = {"claim"}

\* Of two open claims one knows of the other; the router of one that settled has
\* heard of every process it knows of.
OpenInv(d, e) ==
  /\ phase[d] = "claiming" /\ phase[e] = "claiming" => before[e][d] >= 1 \/ before[d][e] >= 1
  /\ phase[d] = "claiming" /\ d \in settled /\ before[d][e] >= 1 =>
       Reached(RouterOf[d], e) >= 1
  /\ phase[d] = "claiming" /\ before[d][e] = 0 =>
       \A n \in 1 .. Size(e) : "claim" \notin Entry(e, n)

\* A federated daemon that settled, now or before it ended, is known at every router.
HeardInv(d) ==
  d \in Federated /\ (d \in settled \/ Chosen(d) \/ \E n \in 1 .. Size(d) : "claim" \in Entry(d, n))
    => \A r \in Routers : Reached(r, d) >= 1

\* Who runs beside a process that stood alone has its claim open and waits for it,
\* and the router of that process lists no other claim, now or later.
ChosenInv(d, e) ==
  /\ Chosen(d) /\ Alive(e) => phase[e] = "claiming" /\ before[e][d] >= 1
  /\ Chosen(d) => \A n \in 1 .. Size(e) :
                    n >= Reached(RouterOf[d], e) => "claim" \notin Entry(e, n)

ElectInv ==
  Clean =>
    /\ offline = {} /\ alarmed = {}
    /\ \A d \in Daemons : HeardInv(d)
    /\ \A d, e \in Daemons : d # e => OpenInv(d, e) /\ ChosenInv(d, e)

PresenceInv == ClaimTypes /\ NodeTypes /\ ReachInv /\ TrailInv /\ ElectInv

ClaimInv == ClaimTypes /\ ReachInv /\ TrailInv /\ ElectInv

-----------------------------------------------------------------------------
(***************************************************************************)
(* Facts about the state and its changes                                   *)
(***************************************************************************)

\* The numbers are numbers.
Numbers ==
  /\ \A d \in Daemons : Size(d) \in Nat
  /\ \A r \in Routers, d \in Daemons : applied[r][d] \in Nat
  /\ \A d, e \in Daemons : before[d][e] \in Nat
  /\ \A d \in Daemons : RouterOf[d] \in Routers
  /\ faults \in Nat

LEMMA NumbersTyped ==
  ASSUME ClaimTypes
  PROVE  Numbers
<1>1. \A d \in Daemons : Size(d) \in Nat
  BY LenProperties DEF ClaimTypes, Size
<1> QED BY <1>1, PlacesAssumption DEF ClaimTypes, Numbers, PlacesAssumption

TrailSame(d) == Size(d)' = Size(d) /\ \A n \in 1 .. Size(d) : Entry(d, n)' = Entry(d, n)

\* The trail of d grows by the set S, and no other trail changes.
Grows(d, S) ==
  /\ Size(d)' = Size(d) + 1
  /\ Entry(d, Size(d))' = S
  /\ \A n \in 1 .. Size(d) : Entry(d, n)' = Entry(d, n)
  /\ \A e \in Daemons : e # d => TrailSame(e)

LEMMA HoldGrows ==
  ASSUME ClaimTypes, NEW d \in Daemons, NEW S \in SUBSET Kinds, Hold(d, S)
  PROVE  trail' \in [Daemons -> Seq(SUBSET Kinds)] /\ Grows(d, S)
<1>1. trail[d] \in Seq(SUBSET Kinds)
  BY DEF ClaimTypes
<1>2. Append(trail[d], S) \in Seq(SUBSET Kinds)
  BY <1>1, AppendProperties
<1>3. trail'[d] = Append(trail[d], S) /\ \A e \in Daemons : e # d => trail'[e] = trail[e]
  BY DEF Hold, ClaimTypes
<1>4. trail' \in [Daemons -> Seq(SUBSET Kinds)]
  BY <1>2 DEF Hold, ClaimTypes
<1>5. /\ Size(d)' = Size(d) + 1
      /\ trail'[d][Size(d) + 1] = S
      /\ \A n \in 1 .. Size(d) : trail'[d][n] = trail[d][n]
  BY <1>1, <1>3, AppendProperties DEF Size
<1> QED BY <1>3, <1>4, <1>5 DEF Grows, Entry, Size, TrailSame

\* What a process holds is the last of its trail.
LEMMA HeldIsLast ==
  ASSUME ClaimTypes, NEW d \in Daemons
  PROVE  /\ Held(d) = IF Size(d) = 0 THEN {} ELSE Entry(d, Size(d))
         /\ Held(d) \in SUBSET Kinds
<1>1. trail[d] \in Seq(SUBSET Kinds)
  BY DEF ClaimTypes
<1>2. (trail[d] = <<>> <=> Size(d) = 0) /\ Size(d) \in Nat
  BY <1>1, EmptySeq, LenProperties DEF Size
<1>3. Size(d) # 0 => trail[d][Size(d)] \in SUBSET Kinds
  BY <1>1, <1>2, ElementOfSeq DEF Size
<1> QED BY <1>2, <1>3 DEF Held, Entry, Size

\* The premises of the election are not restored once they are broken.
Counted ==
  /\ faults' \in 0 .. MaxFaults /\ hasty' \subseteq Daemons \ Federated
  /\ Clean' => Clean

LEMMA FaultCounted ==
  ASSUME ClaimTypes, faults < MaxFaults, faults' = faults + 1, hasty' = hasty
  PROVE  Counted /\ ~Clean'
BY PlacesAssumption DEF PlacesAssumption, ClaimTypes, Counted, Clean

LEMMA NoFaultCounted ==
  ASSUME ClaimTypes, UNCHANGED <<faults, hasty>>
  PROVE  Counted
BY DEF ClaimTypes, Counted, Clean

\* Two elements and no more than one do not go together.
LEMMA TwoElements ==
  ASSUME NEW S, IsFiniteSet(S), NEW a \in S, NEW b \in S, a # b
  PROVE  Cardinality(S) > 1
<1>1. IsFiniteSet({a}) /\ Cardinality({a}) = 1
  BY FS_Singleton
<1>2. IsFiniteSet({a} \cup {b}) /\ Cardinality({a} \cup {b}) = 2
  <2>1. b \notin {a}
    OBVIOUS
  <2>2. /\ IsFiniteSet({a} \cup {b})
        /\ Cardinality({a} \cup {b}) = IF b \in {a} THEN Cardinality({a}) ELSE Cardinality({a}) + 1
    BY <1>1, FS_AddElement
  <2> QED BY <1>1, <2>1, <2>2
<1>3. {a} \cup {b} \in SUBSET S
  OBVIOUS
<1>4. Cardinality({a} \cup {b}) <= Cardinality(S)
  BY <1>3, FS_Subset
<1>5. Cardinality(S) \in Nat
  BY FS_CardinalityType
<1> QED BY <1>2, <1>4, <1>5

LEMMA AtMostOne ==
  ASSUME NEW S, \A a, b \in S : a = b
  PROVE  IsFiniteSet(S) /\ Cardinality(S) <= 1
<1>1. CASE S = {}
  BY <1>1, FS_EmptySet
<1>2. CASE S # {}
  <2>1. PICK a : a \in S
    BY <1>2
  <2>2. S = {a}
    BY <2>1
  <2>3. IsFiniteSet({a}) /\ Cardinality({a}) = 1
    BY FS_Singleton
  <2> QED BY <2>2, <2>3
<1> QED BY <1>1, <1>2

-----------------------------------------------------------------------------
(***************************************************************************)
(* A claim that stands alone in a whole read                               *)
(***************************************************************************)

\* The identities that claim_name judges.
Identities(tokens) == {[token |-> t, path |-> 1] : t \in tokens}

LEMMA DedupIdentities ==
  ASSUME NEW L, NEW twice \in {{}, L}
  PROVE  Dedup(Replies(L, twice)) = Identities(L)
BY DEF Dedup, Replies, Identities

\* What a router lists of a process is in the process's trail.
LEMMA KnownInTrail ==
  ASSUME ClaimTypes, ReachInv, NEW r \in Routers, NEW d \in Daemons
  PROVE  /\ Reached(r, d) \in Nat /\ Reached(r, d) <= Size(d)
         /\ Known(r, d) \in SUBSET Kinds
         /\ offline = {} /\ Reached(r, d) >= 1 => Known(r, d) = Entry(d, Reached(r, d))
<1>1. trail[d] \in Seq(SUBSET Kinds)
  BY DEF ClaimTypes
<1>2. Reached(r, d) \in Nat /\ Reached(r, d) <= Size(d)
  BY NumbersTyped DEF Numbers, Reached, ReachInv, Size
<1>3. Reached(r, d) # 0 => Entry(d, Reached(r, d)) \in SUBSET Kinds
  <2>1. Reached(r, d) # 0 => Reached(r, d) \in 1 .. Size(d)
    BY <1>2, NumbersTyped DEF Numbers
  <2> QED BY <1>1, <2>1, ElementOfSeq DEF Size, Entry
<1>4. Known(r, d) = IF d \in offline \/ Reached(r, d) = 0 THEN {} ELSE Entry(d, Reached(r, d))
  BY DEF Known, Reached, Size, Entry
<1> QED BY <1>2, <1>3, <1>4

LEMMA IdentitiesFinite ==
  ASSUME ClaimTypes, ReachInv, NEW r \in Routers, NEW S \in SUBSET Identities(Listed(r))
  PROVE  IsFiniteSet(S)
<1>1. IsFiniteSet(Kinds)
  <2>1. IsFiniteSet({"candidate"})
    BY FS_Singleton
  <2>2. IsFiniteSet({"candidate"} \cup {"claim"})
    BY <2>1, FS_AddElement
  <2>3. Kinds = {"candidate"} \cup {"claim"}
    BY DEF Kinds
  <2> QED BY <2>2, <2>3
<1>2. IsFiniteSet(Daemons \X Kinds)
  BY <1>1, IdsAssumption, FS_Product DEF IdsAssumption
<1>3. Listed(r) \subseteq Daemons \X Kinds
  BY KnownInTrail DEF Listed
<1> DEFINE f == [x \in S |-> x.token]
<1>4. f \in Injection(S, Daemons \X Kinds)
  BY <1>3 DEF Identities, Injection, IsInjective
<1> QED BY <1>2, <1>4, FS_Injection

\* The verdict of a whole read is "sole" only if the router lists no other process.
LEMMA SoleSeesNone ==
  ASSUME ClaimTypes, ReachInv, NEW d \in Daemons, NEW r \in Routers,
         NEW twice \in {{}, Listed(r)}, Verdict(d, Listed(r), twice) = "sole",
         NEW e \in Daemons, e # d
  PROVE  Known(r, e) = {}
<1> DEFINE read == Identities(Listed(r))
           candidates == {reply \in read : reply.token[2] = "candidate"}
<1>1. Verdict(d, Listed(r), twice) = Arbitrate(d, read)
  BY DedupIdentities DEF Verdict
<1>2. Arbitrate(d, read) = "sole"
  BY <1>1
<1>3. /\ candidates = read
      /\ \E reply \in candidates : reply.token[1] = d
      /\ ~(Cardinality(candidates) > 1)
  BY <1>2 DEF Arbitrate
<1>4. IsFiniteSet(candidates)
  BY IdentitiesFinite
<1>5. SUFFICES ASSUME NEW k \in Known(r, e)
               PROVE  FALSE
  OBVIOUS
<1>6. <<e, k>> \in Listed(r)
  BY <1>5 DEF Listed
<1>7. [token |-> <<e, k>>, path |-> 1] \in candidates
  BY <1>3, <1>6 DEF Identities
<1>8. PICK own \in candidates : own.token[1] = d
  BY <1>3
<1>9. own # [token |-> <<e, k>>, path |-> 1]
  BY <1>8
<1> QED BY <1>3, <1>4, <1>7, <1>8, <1>9, TwoElements

-----------------------------------------------------------------------------
(***************************************************************************)
(* What the steps of a claim keep                                          *)
(***************************************************************************)

\* A step that leaves the claims alone, and tells a router more or lets a settle
\* window pass.
LEMMA QuietKeeps ==
  ASSUME ClaimInv, UNCHANGED <<phase, trail, before>>,
         applied' \in [Routers -> [Daemons -> Nat]],
         \A r \in Routers, d \in Daemons :
            applied'[r][d] >= applied[r][d] /\ applied'[r][d] <= Size(d),
         blind' \subseteq Daemons,
         \A d \in blind' \cup settled' : phase[d] \in {"claiming", "committing", "declared"},
         offline' \subseteq Daemons, settled' \subseteq Daemons, alarmed' \subseteq Daemons,
         Counted,
         Clean' =>
           /\ offline' \subseteq offline /\ alarmed' = alarmed
           /\ \A d \in settled' : d \in settled \/ Flushed(d)
  PROVE  ClaimInv'
<1> USE DEF ClaimInv
<1>0. Numbers /\ Numbers'
  <2>1. ClaimTypes'
    BY DEF ClaimTypes, Counted
  <2> QED BY <2>1, NumbersTyped, PTL
<1>1. ClaimTypes'
  BY DEF ClaimTypes, Counted
<1>2. \A x \in Daemons : Size(x)' = Size(x) /\ \A n : Entry(x, n)' = Entry(x, n)
  BY DEF Size, Entry
<1>3. ReachInv'
  BY <1>2 DEF ReachInv
<1>4. TrailInv'
  BY <1>2 DEF TrailInv, Alive
<1>5. ElectInv'
  <2> SUFFICES ASSUME Clean'
               PROVE  ElectInv'
    BY DEF ElectInv
  <2>1. offline' = {} /\ alarmed' = {}
    BY DEF ElectInv, Counted
  <2>2. ASSUME NEW d \in Daemons, NEW e \in Daemons, d # e
        PROVE  OpenInv(d, e)' /\ ChosenInv(d, e)'
    <3>1. OpenInv(d, e) /\ ChosenInv(d, e)
      BY <2>2 DEF ElectInv, Counted
    <3>2. RouterOf[d] \in Routers
      BY <1>0 DEF Numbers
    <3>3. Reached(RouterOf[d], e)' >= Reached(RouterOf[d], e)
      BY <1>0, <1>2, <3>2 DEF Reached, Numbers, Size
    <3>4. Reached(RouterOf[d], e)' \in Nat /\ Reached(RouterOf[d], e) \in Nat
      BY <1>0, <1>2, <3>2 DEF Reached, Numbers, Size
    <3>5. Flushed(d) => Reached(RouterOf[d], e) >= before[d][e]
      BY <1>0 DEF Flushed, Reached, ReachInv, Numbers, Size
    <3>6. OpenInv(d, e)'
      BY <1>0, <1>2, <3>1, <3>3, <3>4, <3>5 DEF OpenInv, Numbers
    <3>7. ChosenInv(d, e)'
      BY <1>0, <1>2, <3>1, <3>3, <3>4 DEF ChosenInv, Chosen, Alive, Numbers
    <3> QED BY <3>6, <3>7
  <2>3. ASSUME NEW d \in Daemons
        PROVE  HeardInv(d)'
    <3>1. HeardInv(d)
      BY DEF ElectInv, Counted
    <3>2. \A r \in Routers : /\ Reached(r, d)' >= Reached(r, d)
                             /\ Reached(r, d)' \in Nat /\ Reached(r, d) \in Nat
      BY <1>0 DEF Reached, Numbers, Size
    <3>3. Flushed(d) => \A r \in Routers : Reached(r, d) >= 1
      BY <3>2 DEF Flushed
    <3> QED BY <1>2, <3>1, <3>2, <3>3 DEF HeardInv, Chosen
  <2> QED BY <2>1, <2>2, <2>3 DEF ElectInv
<1> QED BY <1>1, <1>3, <1>4, <1>5

\* The trail of d is left, or grows by the empty set.
Closes(d) == UNCHANGED trail \/ (Hold(d, {}) /\ Held(d) # {})

LEMMA ClosesGrows ==
  ASSUME ClaimTypes, NEW d \in Daemons, Closes(d)
  PROVE  /\ trail' \in [Daemons -> Seq(SUBSET Kinds)]
         /\ (\A x \in Daemons : TrailSame(x)) \/ (Grows(d, {}) /\ Held(d) # {})
<1>1. CASE UNCHANGED trail
  BY <1>1 DEF ClaimTypes, TrailSame, Size, Entry
<1>2. CASE Hold(d, {}) /\ Held(d) # {}
  BY <1>2, HoldGrows
<1> QED BY <1>1, <1>2 DEF Closes

\* A process that ends, or ended, keeps no claim open.
LEMMA EndKeeps ==
  ASSUME ClaimInv, NEW d \in Daemons, NEW why \in {"refused", "failed", "crashed", "stopped"},
         phase' = [phase EXCEPT ![d] = why], Closes(d),
         before' \in [Daemons -> [Daemons -> Nat]],
         \A x, y \in Daemons : before'[x][y] = before[x][y] \/ (x = d /\ before'[x][y] = 0),
         settled' \subseteq settled \ {d}, blind' \subseteq blind \ {d},
         alarmed' \subseteq alarmed, UNCHANGED <<applied, offline>>, Counted
  PROVE  ClaimInv'
<1> USE DEF ClaimInv
<1>1. ClaimTypes'
  BY ClosesGrows DEF ClaimTypes, Counted, Phases
<1>0. Numbers /\ Numbers'
  BY <1>1, NumbersTyped, PTL
<1>2. (\A x \in Daemons : TrailSame(x)) \/ (Grows(d, {}) /\ Held(d) # {})
  BY ClosesGrows
<1>3. phase'[d] = why /\ \A x \in Daemons : x # d => phase'[x] = phase[x]
  BY DEF ClaimTypes
<1>4. \A x \in Daemons : Size(x)' >= Size(x)
  BY <1>0, <1>2 DEF Grows, Numbers, TrailSame
<1>5. ReachInv'
  <2>1. \A x \in blind' \cup settled' : x \in Daemons /\ x # d /\ x \in blind \cup settled
    BY DEF ClaimTypes
  <2> QED BY <1>0, <1>3, <1>4, <2>1 DEF ReachInv, Numbers
<1>6. TrailInv'
  <2>1. ASSUME NEW x \in Daemons, x # d
        PROVE  TrailSame(x) /\ phase'[x] = phase[x]
    BY <1>2, <1>3, <2>1 DEF Grows
  <2>2. ~Alive(d)' /\ phase'[d] # "off" /\ phase'[d] # "up"
    BY <1>3 DEF Alive, Running
  <2>3. \A n \in 1 .. Size(d)' : Entry(d, n)' = {} => n = Size(d)'
    <3>1. CASE TrailSame(d)
      BY <3>1 DEF TrailInv, TrailSame
    <3>2. CASE Grows(d, {}) /\ Held(d) # {}
      <4>1. \A n \in 1 .. Size(d) : Entry(d, n) # {}
        BY <1>0, <3>2, HeldIsLast DEF TrailInv, Numbers
      <4> QED BY <1>0, <3>2, <4>1 DEF Grows, Numbers
    <3> QED BY <1>2, <3>1, <3>2
  <2>4. \A x \in Daemons : x # d => Size(x)' \in 1 .. Size(x)' \/ Size(x)' = 0
    BY <1>0 DEF Numbers
  <2> QED BY <1>0, <2>1, <2>2, <2>3, <2>4 DEF TrailInv, TrailSame, Alive, Running, Numbers
<1>7. ElectInv'
  <2> SUFFICES ASSUME Clean'
               PROVE  ElectInv'
    BY DEF ElectInv
  <2>1. offline' = {} /\ alarmed' = {}
    BY DEF ElectInv, Counted
  <2>2. ASSUME NEW x \in Daemons, NEW y \in Daemons, x # y
        PROVE  OpenInv(x, y)' /\ ChosenInv(x, y)'
    <3>1. OpenInv(x, y) /\ ChosenInv(x, y)
      BY <2>2 DEF ElectInv, Counted
    <3>2. Reached(RouterOf[x], y)' >= Reached(RouterOf[x], y)
          /\ Reached(RouterOf[x], y)' \in Nat /\ Reached(RouterOf[x], y) \in Nat
      BY <1>0, <1>4 DEF Reached, Numbers, Size
    <3>3. \A n \in 1 .. Size(y)' :
            "claim" \notin Entry(y, n)' \/ (n \in 1 .. Size(y) /\ Entry(y, n)' = Entry(y, n))
      BY <1>0, <1>2 DEF Grows, Numbers, TrailSame
    <3>4. /\ phase'[x] = "claiming" => x # d /\ phase[x] = "claiming"
          /\ phase'[y] = "claiming" => y # d /\ phase[y] = "claiming"
          /\ Chosen(x)' => x # d /\ Chosen(x)
          /\ Alive(y)' => y # d /\ Alive(y) /\ phase'[y] = phase[y]
      BY <1>3 DEF Chosen, Alive, Running
    <3>5. OpenInv(x, y)'
      BY <1>0, <3>1, <3>2, <3>3, <3>4 DEF OpenInv, Numbers
    <3>6. ChosenInv(x, y)'
      BY <1>0, <3>1, <3>2, <3>3, <3>4 DEF ChosenInv, Numbers
    <3> QED BY <3>5, <3>6
  <2>3. ASSUME NEW x \in Daemons
        PROVE  HeardInv(x)'
    <3>1. HeardInv(x)
      BY DEF ElectInv, Counted
    <3>2. \A r \in Routers : /\ Reached(r, x)' >= Reached(r, x)
                             /\ Reached(r, x)' \in Nat /\ Reached(r, x) \in Nat
      BY <1>0, <1>4 DEF Reached, Numbers, Size
    <3>3. \A n \in 1 .. Size(x)' :
            "claim" \notin Entry(x, n)' \/ (n \in 1 .. Size(x) /\ Entry(x, n)' = Entry(x, n))
      BY <1>0, <1>2 DEF Grows, Numbers, TrailSame
    <3>4. (Chosen(x)' => Chosen(x)) /\ (x \in settled' => x \in settled)
      BY <1>3 DEF Chosen
    <3> QED BY <3>1, <3>2, <3>3, <3>4 DEF HeardInv
  <2> QED BY <2>1, <2>2, <2>3 DEF ElectInv
<1> QED BY <1>1, <1>5, <1>6, <1>7

\* A boot waits for the claims its router may not list yet, or, with no window and
\* unaware of them, is waited for.
LEMMA BootKeeps ==
  ASSUME ClaimInv, NEW d \in Daemons, Boot(d)
  PROVE  ClaimInv'
<1> USE DEF ClaimInv
<1> DEFINE r == RouterOf[d]
           missing == IF d \in Federated THEN {} ELSE Unheard(r)
<1>1. phase[d] = "off" /\ Size(d) = 0
  BY DEF Boot, TrailInv
<1>2. trail' \in [Daemons -> Seq(SUBSET Kinds)] /\ Grows(d, {"candidate"})
  BY HoldGrows DEF Boot, Kinds
<1>3. /\ missing \subseteq Daemons
      /\ \A x \in Daemons : x \in missing => x # d
      /\ \A x \in Daemons : d \notin Federated /\ x \notin missing /\ Size(x) >= 1 =>
                              Reached(r, x) >= 1
  <2>1. \A x \in Daemons : Size(x) >= 1 => trail[x] # <<>>
    BY EmptySeq DEF Size
  <2>2. trail[d] = <<>>
    BY <1>1, EmptySeq DEF ClaimTypes, Size
  <2>3. \A x \in Daemons : Reached(r, x) \in Nat
    BY NumbersTyped, KnownInTrail DEF Numbers
  <2> QED BY <2>1, <2>2, <2>3 DEF Unheard
<1>4. \A x, y \in Daemons :
        before'[x][y] = IF x = d THEN (IF d \in Federated THEN Size(y) ELSE Reached(r, y))
                        ELSE IF x \in missing /\ phase[x] = "claiming" /\ y = d THEN 1
                        ELSE before[x][y]
  <2>1. \A x \in Daemons :
          before'[x] = IF x = d THEN [y \in Daemons |->
                                        IF d \in Federated THEN Size(y) ELSE Reached(r, y)]
                       ELSE IF x \in missing /\ phase[x] = "claiming"
                            THEN [before[x] EXCEPT ![d] = 1] ELSE before[x]
    BY <1>3 DEF Boot, Size
  <2> QED BY <2>1 DEF ClaimTypes
<1>5. before' \in [Daemons -> [Daemons -> Nat]]
  <2>1. \A x \in Daemons : Size(x) \in Nat /\ Reached(r, x) \in Nat
    BY NumbersTyped, KnownInTrail DEF Numbers
  <2>2. [y \in Daemons |-> IF d \in Federated THEN Size(y) ELSE Reached(r, y)]
          \in [Daemons -> Nat]
    BY <2>1
  <2>3. \A x \in Daemons : [before[x] EXCEPT ![d] = 1] \in [Daemons -> Nat]
    BY DEF ClaimTypes
  <2> QED BY <1>3, <2>2, <2>3 DEF Boot, Size, ClaimTypes
<1>6. ClaimTypes'
  <2>1. hasty' \subseteq Daemons \ Federated
    BY DEF Boot, ClaimTypes
  <2> QED BY <1>2, <1>5, <2>1 DEF Boot, ClaimTypes, Phases
<1>0. Numbers /\ Numbers'
  BY <1>6, NumbersTyped, PTL
<1>7. /\ phase'[d] = "claiming" /\ \A x \in Daemons : x # d => phase'[x] = phase[x]
      /\ UNCHANGED <<applied, offline, blind, alarmed, faults>>
      /\ d \in Federated => settled' = settled
      /\ \A x \in settled' : x = d \/ x \in settled
      /\ Clean' => Clean /\ missing \subseteq Federated
  BY DEF ClaimTypes, Boot, Clean
<1>8. Entry(d, 1)' = {"candidate"} /\ Size(d)' = 1 /\ \A x \in Daemons : x # d => TrailSame(x)
  BY <1>1, <1>2 DEF Grows
<1>9. \A x \in Daemons : Size(x)' >= Size(x)
  BY <1>0, <1>1, <1>8 DEF Numbers, TrailSame
<1>10. ReachInv'
  <2>1. \A x \in blind' \cup settled' : x \in Daemons /\ (x = d \/ x \in blind \cup settled)
    BY <1>7 DEF ClaimTypes
  <2>2. \A x \in Daemons : Reached(r, x) \in Nat /\ Reached(r, x) <= Size(x)
    BY <1>0, KnownInTrail DEF Numbers
  <2>3. \A x, y \in Daemons : before'[x][y] <= Size(y)'
    BY <1>0, <1>4, <1>8, <1>9, <2>2 DEF ReachInv, Numbers
  <2> QED BY <1>0, <1>1, <1>7, <1>9, <2>1, <2>3 DEF ReachInv, Numbers
<1>11. TrailInv'
  <2>1. \A n \in 1 .. Size(d)' : Entry(d, n)' # {}
    BY <1>8
  <2>2. \A x \in Daemons : x # d => Size(x)' \in 1 .. Size(x)' \/ Size(x)' = 0
    BY <1>0 DEF Numbers
  <2> QED BY <1>0, <1>7, <1>8, <2>1, <2>2 DEF TrailInv, TrailSame, Alive, Running, Numbers
<1>12. ElectInv'
  <2> SUFFICES ASSUME Clean'
               PROVE  ElectInv'
    BY DEF ElectInv
  <2>0. Clean /\ missing \subseteq Federated
    BY <1>7
  <2>1. offline' = {} /\ alarmed' = {}
    BY <1>7, <2>0 DEF ElectInv
  <2>2. \A s \in Routers, x \in Daemons :
          /\ Reached(s, x)' >= Reached(s, x)
          /\ Reached(s, x)' \in Nat /\ Reached(s, x) \in Nat
    BY <1>0, <1>7, <1>9 DEF Reached, Numbers, Size
  <2>3. \A x \in Daemons : (Alive(x) => Size(x) >= 1) /\ HeardInv(x)
    BY <2>0 DEF TrailInv, ElectInv
  <2>4. \A n \in 1 .. Size(d)' : "claim" \notin Entry(d, n)'
    BY <1>8
  <2>5. ASSUME NEW x \in missing
        PROVE  /\ x \in Daemons /\ Reached(r, x) = 0
               /\ x \notin settled /\ ~Chosen(x)
               /\ \A n \in 1 .. Size(x) : "claim" \notin Entry(x, n)
    <3>1. x \in Daemons /\ x \in Federated /\ r \in Routers /\ Reached(r, x) = 0
      BY <1>0, <1>3, <2>0 DEF Unheard, Numbers
    <3> QED BY <2>3, <3>1 DEF HeardInv
  <2>6. ASSUME NEW x \in Daemons
        PROVE  HeardInv(x)'
    <3>1. CASE x = d
      <4>1. d \in Federated => d \notin settled'
        BY <1>1, <1>7 DEF ReachInv
      <4> QED BY <1>7, <2>4, <3>1, <4>1 DEF HeardInv, Chosen
    <3>2. CASE x # d
      BY <1>7, <1>8, <2>2, <2>3, <3>2 DEF HeardInv, Chosen, TrailSame
    <3> QED BY <3>1, <3>2
  <2>7. ASSUME NEW x \in Daemons, x # d
        PROVE  OpenInv(d, x)' /\ ChosenInv(d, x)' /\ OpenInv(x, d)' /\ ChosenInv(x, d)'
    <3>1. OpenInv(x, d) /\ ChosenInv(x, d) /\ TrailSame(x) /\ phase'[x] = phase[x]
      BY <1>7, <1>8, <2>0, <2>7 DEF ElectInv
    <3>2. r \in Routers
      BY <1>0 DEF Numbers
    <3>3. Alive(x) => before'[d][x] >= 1 \/ x \in missing
      BY <1>0, <1>3, <1>4, <2>3 DEF Numbers
    <3>4. x \in missing /\ phase[x] = "claiming" => before'[x][d] = 1
      BY <1>4, <2>7
    <3>5. d \in settled' /\ before'[d][x] >= 1 => Reached(r, x)' >= 1
      <4>1. d \in settled' => d \notin Federated
        BY <1>1, <1>7 DEF ReachInv
      <4> QED BY <1>4, <2>2, <3>2, <4>1
    <3>6. before'[d][x] = 0 => \A n \in 1 .. Size(x) : "claim" \notin Entry(x, n)
      <4>1. CASE x \in missing
        BY <2>5, <4>1
      <4>2. CASE x \notin missing
        BY <1>0, <1>3, <1>4, <2>2, <3>2, <4>2 DEF Numbers
      <4> QED BY <4>1, <4>2
    <3>7. OpenInv(d, x)'
      BY <3>1, <3>3, <3>4, <3>5, <3>6 DEF OpenInv, TrailSame, Alive, Running
    <3>8. ChosenInv(d, x)'
      BY <1>7 DEF ChosenInv, Chosen
    <3>9. x \in settled' => x \in settled /\ x \notin missing
      BY <1>7, <2>5, <2>7
    <3>10. before'[x][d] = 0 \/ (before'[x][d] = 1 /\ x \in missing)
      BY <1>0, <1>1, <1>4, <2>7 DEF ReachInv, Numbers
    <3>11. OpenInv(x, d)'
      BY <2>4, <3>1, <3>3, <3>4, <3>9, <3>10 DEF OpenInv, Alive, Running
    <3>12. Chosen(x)' => before'[d][x] >= 1
      BY <2>5, <3>1, <3>3 DEF Chosen, Alive, Running
    <3>13. ChosenInv(x, d)'
      BY <1>7, <2>4, <3>12 DEF ChosenInv
    <3> QED BY <3>7, <3>8, <3>11, <3>13
  <2>8. ASSUME NEW x \in Daemons, NEW y \in Daemons, x # y, x # d, y # d
        PROVE  OpenInv(x, y)' /\ ChosenInv(x, y)'
    <3>1. OpenInv(x, y) /\ ChosenInv(x, y)
      BY <2>0, <2>8 DEF ElectInv
    <3>2. /\ phase'[x] = phase[x] /\ phase'[y] = phase[y]
          /\ before'[x][y] = before[x][y] /\ before'[y][x] = before[y][x]
          /\ TrailSame(y) /\ (x \in settled' => x \in settled)
      BY <1>4, <1>7, <1>8, <2>8
    <3>3. Reached(RouterOf[x], y)' = Reached(RouterOf[x], y)
      BY <1>7, <3>2 DEF Reached, TrailSame, Size
    <3> QED BY <3>1, <3>2, <3>3 DEF OpenInv, ChosenInv, Chosen, Alive, TrailSame
  <2> QED BY <2>1, <2>6, <2>7, <2>8 DEF ElectInv
<1> QED BY <1>6, <1>10, <1>11, <1>12

\* A claim that a whole read shows alone, once settled, may take the name.
LEMMA CommitKeeps ==
  ASSUME ClaimInv, NEW d \in Daemons, phase[d] = "claiming",
         phase' = [phase EXCEPT ![d] = "committing"],
         UNCHANGED <<trail, before, settled, blind, applied, offline, alarmed>>, Counted,
         Clean' => d \in settled
                        /\ \A e \in Daemons : e # d => Known(RouterOf[d], e) = {}
  PROVE  ClaimInv'
<1> USE DEF ClaimInv
<1>1. ClaimTypes'
  BY DEF ClaimTypes, Counted, Phases
<1>0. Numbers /\ Numbers'
  BY <1>1, NumbersTyped, PTL
<1>2. phase'[d] = "committing" /\ \A x \in Daemons : x # d => phase'[x] = phase[x]
  BY DEF ClaimTypes
<1>3. \A x \in Daemons : Size(x)' = Size(x) /\ \A n : Entry(x, n)' = Entry(x, n)
  BY DEF Size, Entry
<1>4. ReachInv'
  BY <1>2, <1>3 DEF ReachInv, ClaimTypes
<1>5. TrailInv'
  BY <1>2, <1>3 DEF TrailInv, Alive, Running
<1>6. ElectInv'
  <2> SUFFICES ASSUME Clean'
               PROVE  ElectInv'
    BY DEF ElectInv
  <2>1. offline = {} /\ alarmed = {} /\ d \in settled
    BY DEF ElectInv, Counted
  <2>2. ASSUME NEW e \in Daemons, e # d
        PROVE  /\ OpenInv(d, e) /\ ChosenInv(e, d) /\ OpenInv(e, d) /\ ChosenInv(d, e)
               /\ Reached(RouterOf[d], e) = 0 => before[d][e] = 0
               /\ Reached(RouterOf[d], e) # 0 =>
                    Reached(RouterOf[d], e) = Size(e) /\ Entry(e, Size(e)) = {} /\ ~Alive(e)
    <3>1. OpenInv(d, e) /\ ChosenInv(e, d) /\ OpenInv(e, d) /\ ChosenInv(d, e)
      BY <2>2 DEF ElectInv, Counted
    <3>2. Reached(RouterOf[d], e) = 0 => before[d][e] = 0
      BY <1>0, <2>1, <3>1 DEF OpenInv, Numbers
    <3>3. ASSUME Reached(RouterOf[d], e) # 0
          PROVE  Reached(RouterOf[d], e) \in 1 .. Size(e)
                 /\ Entry(e, Reached(RouterOf[d], e)) = {}
      BY <1>0, <2>1, <2>2, <3>3, KnownInTrail DEF Numbers
    <3> QED BY <3>1, <3>2, <3>3 DEF TrailInv
  <2>3. ASSUME NEW e \in Daemons, e # d, Alive(e)
        PROVE  phase[e] = "claiming" /\ before[e][d] >= 1
    <3>1. before[d][e] = 0
      BY <2>2, <2>3
    <3>2. ~Chosen(e)
      BY <2>2, <2>3, <3>1 DEF ChosenInv, Alive, Running
    <3>3. phase[e] = "claiming"
      BY <2>3, <3>2 DEF Alive, Chosen, Running
    <3> QED BY <2>2, <2>3, <3>1, <3>3 DEF OpenInv
  <2>4. ASSUME NEW e \in Daemons, e # d
        PROVE  \A n \in 1 .. Size(e) :
                 n >= Reached(RouterOf[d], e) => "claim" \notin Entry(e, n)
    <3>1. CASE Reached(RouterOf[d], e) = 0
      BY <2>2, <2>4, <3>1 DEF OpenInv
    <3>2. CASE Reached(RouterOf[d], e) # 0
      <4>1. Reached(RouterOf[d], e) = Size(e) /\ Entry(e, Size(e)) = {}
        BY <2>2, <2>4, <3>2
      <4> QED BY <1>0, <4>1 DEF Numbers
    <3> QED BY <3>1, <3>2
  <2>5. ASSUME NEW x \in Daemons, NEW y \in Daemons, x # y
        PROVE  OpenInv(x, y)' /\ ChosenInv(x, y)'
    <3>1. OpenInv(x, y) /\ ChosenInv(x, y)
      BY <2>5 DEF ElectInv, Counted
    <3>2. Reached(RouterOf[x], y)' = Reached(RouterOf[x], y)
      BY <1>3 DEF Reached, Size
    <3>3. OpenInv(x, y)'
      BY <1>2, <1>3, <3>1, <3>2 DEF OpenInv
    <3>4. CASE x = d
      <4>1. Alive(y)' => phase'[y] = "claiming" /\ before'[y][x] >= 1
        BY <1>2, <2>3, <2>5, <3>4 DEF Alive
      <4> QED BY <1>3, <2>4, <2>5, <3>2, <3>3, <3>4, <4>1 DEF ChosenInv
    <3>5. CASE x # d /\ y = d
      <4>1. ~Chosen(x)
        BY <2>3, <3>5 DEF Chosen, Alive, Running
      <4> QED BY <1>2, <3>3, <3>5, <4>1 DEF ChosenInv, Chosen
    <3>6. CASE x # d /\ y # d
      BY <1>2, <1>3, <3>1, <3>2, <3>3, <3>6 DEF ChosenInv, Chosen, Alive
    <3> QED BY <3>4, <3>5, <3>6
  <2>6. ASSUME NEW x \in Daemons
        PROVE  HeardInv(x)'
    <3>1. HeardInv(x) /\ (Chosen(x)' => Chosen(x) \/ x \in settled)
      BY <1>2, <2>1 DEF ElectInv, Counted, Chosen
    <3>2. \A r \in Routers : Reached(r, x)' = Reached(r, x)
      BY DEF Reached
    <3> QED BY <1>3, <3>1, <3>2 DEF HeardInv
  <2> QED BY <2>1, <2>5, <2>6 DEF ElectInv
<1> QED BY <1>1, <1>4, <1>5, <1>6

\* The process that stood alone declares its token, then drops its candidacy.
LEMMA TakeKeeps ==
  ASSUME ClaimInv, NEW d \in Daemons, phase[d] \in {"committing", "declared"},
         NEW new \in {"declared", "up"}, phase' = [phase EXCEPT ![d] = new],
         NEW S \in SUBSET Kinds, "claim" \in S, new = "up" => S = {"claim"}, Hold(d, S),
         before' \in [Daemons -> [Daemons -> Nat]],
         \A x, y \in Daemons : before'[x][y] = before[x][y] \/ (x = d /\ before'[x][y] = 0),
         settled' \subseteq settled, blind' \subseteq blind,
         new = "up" => d \notin settled' \cup blind',
         UNCHANGED <<applied, offline, alarmed, faults, hasty>>
  PROVE  ClaimInv'
<1> USE DEF ClaimInv
<1>1. trail' \in [Daemons -> Seq(SUBSET Kinds)] /\ Grows(d, S)
  BY HoldGrows
<1>2. ClaimTypes'
  BY <1>1 DEF ClaimTypes, Phases
<1>0. Numbers /\ Numbers'
  BY <1>2, NumbersTyped, PTL
<1>3. phase'[d] = new /\ \A x \in Daemons : x # d => phase'[x] = phase[x]
  BY DEF ClaimTypes
<1>4. /\ Size(d)' = Size(d) + 1 /\ Entry(d, Size(d))' = S
      /\ \A n \in 1 .. Size(d) : Entry(d, n)' = Entry(d, n)
      /\ \A x \in Daemons : x # d => TrailSame(x)
  BY <1>1 DEF Grows
<1>5. \A x \in Daemons : Size(x)' >= Size(x)
  BY <1>0, <1>4 DEF Numbers, TrailSame
<1>6. ReachInv'
  <2>1. \A x \in blind' \cup settled' : x \in Daemons /\ x \in blind \cup settled
                                        /\ (x = d => new = "declared")
    BY DEF ClaimTypes
  <2> QED BY <1>0, <1>3, <1>5, <2>1 DEF ReachInv, Numbers
<1>7. TrailInv'
  <2>1. Alive(d) /\ Size(d) >= 1 /\ \A n \in 1 .. Size(d) : Entry(d, n) # {}
    BY DEF TrailInv, Alive, Running
  <2>2. \A n \in 1 .. Size(d)' : Entry(d, n)' # {}
    BY <1>0, <1>4, <2>1 DEF Numbers
  <2>3. \A x \in Daemons : x # d => Size(x)' \in 1 .. Size(x)' \/ Size(x)' = 0
    BY <1>0 DEF Numbers
  <2>4. Size(d)' >= 1
    BY <1>0, <1>4 DEF Numbers
  <2> QED BY <1>0, <1>3, <1>4, <2>2, <2>3, <2>4 DEF TrailInv, TrailSame, Alive, Running, Numbers
<1>8. ElectInv'
  <2> SUFFICES ASSUME Clean'
               PROVE  ElectInv'
    BY DEF ElectInv
  <2>0. Clean
    BY DEF Clean
  <2>1. offline' = {} /\ alarmed' = {}
    BY <2>0 DEF ElectInv
  <2>2. ASSUME NEW x \in Daemons, x # d
        PROVE  ~Chosen(x) /\ (phase[x] = "claiming" => before[x][d] >= 1)
    <3>1. ChosenInv(d, x) /\ ChosenInv(x, d)
      BY <2>0, <2>2 DEF ElectInv
    <3> QED BY <3>1 DEF ChosenInv, Chosen, Alive, Running
  <2>3. ASSUME NEW x \in Daemons, NEW y \in Daemons, x # y
        PROVE  OpenInv(x, y)' /\ ChosenInv(x, y)'
    <3>1. OpenInv(x, y) /\ ChosenInv(x, y)
      BY <2>0, <2>3 DEF ElectInv
    <3>2. Reached(RouterOf[x], y)' >= Reached(RouterOf[x], y)
          /\ Reached(RouterOf[x], y)' \in Nat /\ Reached(RouterOf[x], y) \in Nat
      BY <1>0, <1>5 DEF Reached, Numbers, Size
    <3>3. /\ phase'[x] = "claiming" => x # d /\ phase[x] = "claiming"
          /\ phase'[y] = "claiming" => y # d /\ phase[y] = "claiming"
      BY <1>3
    <3>4. OpenInv(x, y)'
      BY <1>0, <1>4, <2>2, <2>3, <3>1, <3>2, <3>3 DEF OpenInv, Numbers, TrailSame
    <3>5. CASE x = d
      <4>1. y # d /\ phase'[y] = phase[y] /\ TrailSame(y) /\ before'[y][x] = before[y][x]
        BY <1>3, <1>4, <2>3, <3>5
      <4>2. Chosen(d)
        BY DEF Chosen
      <4> QED BY <1>0, <3>1, <3>2, <3>4, <3>5, <4>1, <4>2 DEF ChosenInv, Alive, TrailSame, Numbers
    <3>6. CASE x # d
      BY <1>3, <2>2, <3>4, <3>6 DEF ChosenInv, Chosen
    <3> QED BY <3>4, <3>5, <3>6
  <2>4. ASSUME NEW x \in Daemons
        PROVE  HeardInv(x)'
    <3>1. HeardInv(x) /\ (x = d => Chosen(x))
      BY <2>0 DEF ElectInv, Chosen
    <3>2. \A r \in Routers : /\ Reached(r, x)' >= Reached(r, x)
                             /\ Reached(r, x)' \in Nat /\ Reached(r, x) \in Nat
      BY <1>0, <1>5 DEF Reached, Numbers, Size
    <3>3. x # d => phase'[x] = phase[x] /\ TrailSame(x)
      BY <1>3, <1>4
    <3> QED BY <3>1, <3>2, <3>3 DEF HeardInv, Chosen, TrailSame
  <2> QED BY <2>1, <2>3, <2>4 DEF ElectInv
<1> QED BY <1>2, <1>6, <1>7, <1>8

\* While no fault has happened the owner's watch hears of no other claim.
LEMMA HearsNone ==
  ASSUME ClaimInv, NEW d \in Daemons, Hears(d)
  PROVE  ~Clean
<1> USE DEF ClaimInv
<1>1. SUFFICES ASSUME Clean
               PROVE  FALSE
  OBVIOUS
<1>2. PICK token \in Listed(RouterOf[d]) \cup {<<d, "candidate">>} :
        IsCommittedForeignClaim(d, token)
  BY DEF Hears
<1>3. token[1] # d /\ token[2] = "claim"
  BY <1>2 DEF IsCommittedForeignClaim
<1>4. PICK e \in Daemons : token \in {e} \X Known(RouterOf[d], e)
  BY <1>2, <1>3 DEF Listed
<1>5. e # d /\ "claim" \in Known(RouterOf[d], e)
  BY <1>3, <1>4
<1>6. Numbers
  BY NumbersTyped
<1>7. offline = {} /\ ChosenInv(d, e) /\ Chosen(d)
  BY <1>1, <1>5 DEF ElectInv, Hears, Chosen
<1>8. Reached(RouterOf[d], e) # 0
  BY <1>5 DEF Known, Reached, Size
<1>9. /\ Reached(RouterOf[d], e) \in 1 .. Size(e)
      /\ Known(RouterOf[d], e) = Entry(e, Reached(RouterOf[d], e))
  BY <1>6, <1>7, <1>8, KnownInTrail DEF Numbers
<1> QED BY <1>5, <1>7, <1>9 DEF ChosenInv

-----------------------------------------------------------------------------
(***************************************************************************)
(* The actions keep the invariant                                          *)
(***************************************************************************)

\* A step that leaves the claims, the routers and the faults alone.
LEMMA ClaimsSame ==
  ASSUME ClaimInv, UNCHANGED <<claimVars, applied, offline, alarmed, faults, hasty>>
  PROVE  ClaimInv'
<1> USE DEF ClaimInv, claimVars
<1>1. ClaimTypes'
  BY DEF ClaimTypes
<1>2. ReachInv' /\ TrailInv'
  BY DEF ReachInv, TrailInv, Size, Entry, Alive
<1>3. ASSUME NEW d \in Daemons, NEW e \in Daemons
      PROVE  OpenInv(d, e)' = OpenInv(d, e) /\ ChosenInv(d, e)' = ChosenInv(d, e)
  BY DEF OpenInv, ChosenInv, Size, Entry, Reached, Alive, Chosen
<1>4. ASSUME NEW d \in Daemons
      PROVE  HeardInv(d)' = HeardInv(d)
  BY DEF HeardInv, Size, Entry, Reached, Chosen
<1>5. ElectInv'
  BY <1>3, <1>4 DEF ElectInv, Clean
<1> QED BY <1>1, <1>2, <1>5

LEMMA NodesSame ==
  ASSUME NodeTypes, UNCHANGED nodeVars
  PROVE  NodeTypes'
BY DEF NodeTypes, nodeVars

\* claim_name returns without the name.
LEMMA GivesUpKeeps ==
  ASSUME ClaimInv, NEW d \in Daemons, NEW why \in {"refused", "failed"},
         phase[d] \in {"claiming", "committing"}, GivesUp(d, why),
         UNCHANGED <<applied, offline, alarmed>>, Counted
  PROVE  ClaimInv'
<1>1. Held(d) # {}
  BY HeldIsLast, NumbersTyped DEF ClaimInv, TrailInv, Alive, Running, Numbers
<1>2. Closes(d) /\ phase' = [phase EXCEPT ![d] = why]
  BY <1>1 DEF Closes, GivesUp
<1>3. /\ before' \in [Daemons -> [Daemons -> Nat]]
      /\ \A x, y \in Daemons : before'[x][y] = before[x][y] \/ (x = d /\ before'[x][y] = 0)
      /\ settled' \subseteq settled \ {d} /\ blind' \subseteq blind \ {d}
  BY DEF GivesUp, ClaimReturns, ClaimInv, ClaimTypes
<1> QED BY <1>2, <1>3, EndKeeps

\* claim_name reads on.
LEMMA GoesOnKeeps ==
  ASSUME ClaimInv, NEW d \in Daemons, phase[d] = "claiming", NEW blindNow, GoesOn(d, blindNow),
         UNCHANGED <<applied, offline, alarmed>>, Counted
  PROVE  ClaimInv'
<1>1. /\ blind' \subseteq Daemons
      /\ \A x \in blind' \cup settled' : phase[x] \in {"claiming", "committing", "declared"}
  BY DEF GoesOn, ClaimInv, ClaimTypes, ReachInv
<1>2. /\ applied' \in [Routers -> [Daemons -> Nat]]
      /\ \A r \in Routers, x \in Daemons :
            applied'[r][x] >= applied[r][x] /\ applied'[r][x] <= Size(x)
  BY NumbersTyped DEF ClaimInv, ClaimTypes, ReachInv, Numbers
<1>3. UNCHANGED <<phase, trail, before, settled>>
  BY DEF GoesOn
<1>4. offline' \subseteq Daemons /\ settled' \subseteq Daemons /\ alarmed' \subseteq Daemons
  BY <1>3 DEF ClaimInv, ClaimTypes
<1> QED BY <1>1, <1>2, <1>3, <1>4, QuietKeeps

\* One round of the loop: it may take the name only if it stood alone.
LEMMA JudgeKeeps ==
  ASSUME ClaimInv, NEW d \in Daemons, phase[d] = "claiming", NEW verdict, Judge(d, verdict),
         UNCHANGED <<applied, offline, alarmed>>, Counted,
         Clean' /\ verdict = "sole" =>
           \A e \in Daemons : e # d => Known(RouterOf[d], e) = {}
  PROVE  ClaimInv'
<1>1. CASE GivesUp(d, "refused")
  BY <1>1, GivesUpKeeps
<1>2. CASE /\ verdict = "sole" /\ d \in settled
           /\ phase' = [phase EXCEPT ![d] = "committing"]
           /\ UNCHANGED <<trail, before, settled, blind>>
  BY <1>2, CommitKeeps
<1>3. CASE GoesOn(d, FALSE)
  BY <1>3, GoesOnKeeps
<1> QED BY <1>1, <1>2, <1>3 DEF Judge

LEMMA ReadWholeKeeps ==
  ASSUME ClaimInv, NEW d \in Daemons, ReadWhole(d)
  PROVE  ClaimInv'
<1>1. PICK twice \in {{}, Listed(RouterOf[d])} :
        Judge(d, Verdict(d, Listed(RouterOf[d]), twice))
  BY DEF ReadWhole
<1>2. RouterOf[d] \in Routers
  BY NumbersTyped DEF ClaimInv, Numbers
<1>3. Verdict(d, Listed(RouterOf[d]), twice) = "sole" =>
        \A e \in Daemons : e # d => Known(RouterOf[d], e) = {}
  BY <1>2, SoleSeesNone DEF ClaimInv
<1>4. phase[d] = "claiming" /\ UNCHANGED <<applied, offline, alarmed>> /\ Counted
  BY NoFaultCounted DEF ReadWhole, ClaimInv
<1> QED BY <1>1, <1>3, <1>4, JudgeKeeps

LEMMA ReadDegradedKeeps ==
  ASSUME ClaimInv, NEW d \in Daemons, ReadDegraded(d)
  PROVE  ClaimInv'
<1>1. phase[d] = "claiming" /\ UNCHANGED <<applied, offline, alarmed>> /\ Counted
  BY NoFaultCounted DEF ReadDegraded, ClaimInv
<1>2. GivesUp(d, "refused") \/ GoesOn(d, TRUE) \/ GivesUp(d, "failed")
  BY DEF ReadDegraded
<1> QED BY <1>1, <1>2, GivesUpKeeps, GoesOnKeeps

LEMMA ReadMissesKeeps ==
  ASSUME ClaimInv, NEW d \in Daemons, ReadMisses(d)
  PROVE  ClaimInv'
<1>1. PICK read : Judge(d, Verdict(d, read, {}))
  BY DEF ReadMisses
<1>2. /\ phase[d] = "claiming" /\ UNCHANGED <<applied, offline, alarmed>>
      /\ Counted /\ ~Clean'
  BY FaultCounted DEF ReadMisses, ClaimInv
<1> QED BY <1>1, <1>2, JudgeKeeps

LEMMA CallFailsKeeps ==
  ASSUME ClaimInv, NEW d \in Daemons, CallFails(d)
  PROVE  ClaimInv'
<1>1. Counted
  BY NoFaultCounted DEF CallFails, ClaimInv
<1> QED BY <1>1, GivesUpKeeps DEF CallFails

\* The facts that QuietKeeps asks for, of a step that leaves the routers alone.
LEMMA RoutersSame ==
  ASSUME ClaimInv, applied' = applied
  PROVE  /\ applied' \in [Routers -> [Daemons -> Nat]]
         /\ \A r \in Routers, x \in Daemons :
               applied'[r][x] >= applied[r][x] /\ applied'[r][x] <= Size(x)
BY NumbersTyped DEF ClaimInv, ClaimTypes, ReachInv, Numbers

LEMMA SettlesKeeps ==
  ASSUME ClaimInv, NEW d \in Daemons, Settles(d) \/ SettlesTooSoon(d)
  PROVE  ClaimInv'
<1>1. /\ UNCHANGED <<phase, trail, before, blind, applied, offline, alarmed>>
      /\ settled' = settled \cup {d} /\ phase[d] = "claiming"
  BY DEF Settles, SettlesTooSoon
<1>2. Counted /\ (~Clean' \/ Flushed(d))
  BY FaultCounted, NoFaultCounted DEF ClaimInv, Settles, SettlesTooSoon
<1>3. \A x \in blind' \cup settled' : phase[x] \in {"claiming", "committing", "declared"}
  BY <1>1 DEF ClaimInv, ReachInv
<1>4. /\ blind' \subseteq Daemons /\ offline' \subseteq Daemons
      /\ settled' \subseteq Daemons /\ alarmed' \subseteq Daemons
  BY <1>1 DEF ClaimInv, ClaimTypes
<1> QED BY <1>1, <1>2, <1>3, <1>4, RoutersSame, QuietKeeps

LEMMA CrossesKeeps ==
  ASSUME ClaimInv, NEW r \in Routers, NEW d \in Daemons, Crosses(r, d)
  PROVE  ClaimInv'
<1>1. PICK n \in applied[r][d] + 1 .. Len(trail[d]) : applied' = [applied EXCEPT ![r][d] = n]
  BY DEF Crosses
<1>2. Numbers
  BY NumbersTyped DEF ClaimInv
<1>3. n \in Nat /\ n >= applied[r][d] /\ n <= Size(d)
  BY <1>1, <1>2 DEF Numbers, Size
<1>4. [applied[r] EXCEPT ![d] = n] \in [Daemons -> Nat]
  BY <1>3 DEF ClaimInv, ClaimTypes
<1>5. applied' \in [Routers -> [Daemons -> Nat]]
  BY <1>1, <1>4 DEF ClaimInv, ClaimTypes
<1>6. \A s \in Routers, x \in Daemons :
        applied'[s][x] = IF s = r /\ x = d THEN n ELSE applied[s][x]
  BY <1>1 DEF ClaimInv, ClaimTypes
<1>7. \A s \in Routers, x \in Daemons :
        applied'[s][x] >= applied[s][x] /\ applied'[s][x] <= Size(x)
  BY <1>2, <1>3, <1>6 DEF Numbers, ClaimInv, ReachInv
<1>8. UNCHANGED <<phase, trail, before, settled, blind, offline, alarmed, faults, hasty>> /\ Counted
  BY NoFaultCounted DEF Crosses, claimVars, ClaimInv
<1>9. /\ blind' \subseteq Daemons /\ offline' \subseteq Daemons
      /\ settled' \subseteq Daemons /\ alarmed' \subseteq Daemons
      /\ \A x \in blind' \cup settled' : phase[x] \in {"claiming", "committing", "declared"}
  BY <1>8 DEF ClaimInv, ClaimTypes, ReachInv
<1> QED BY <1>5, <1>7, <1>8, <1>9, QuietKeeps

LEMMA SessionKeeps ==
  ASSUME ClaimInv, NEW d \in Daemons, SessionDrops(d) \/ SessionReturns(d)
  PROVE  ClaimInv'
<1>1. UNCHANGED <<phase, trail, before, settled, blind, applied, alarmed>>
  BY DEF SessionDrops, SessionReturns, claimVars
<1>2. Counted /\ (~Clean' \/ offline' \subseteq offline)
  BY FaultCounted, NoFaultCounted DEF ClaimInv, SessionDrops, SessionReturns
<1>3. /\ blind' \subseteq Daemons /\ offline' \subseteq Daemons
      /\ settled' \subseteq Daemons /\ alarmed' \subseteq Daemons
      /\ \A x \in blind' \cup settled' : phase[x] \in {"claiming", "committing", "declared"}
  BY <1>1 DEF ClaimInv, ClaimTypes, ReachInv, SessionDrops, SessionReturns
<1> QED BY <1>1, <1>2, <1>3, RoutersSame, QuietKeeps

LEMMA HearsKeeps ==
  ASSUME ClaimInv, NEW d \in Daemons, Hears(d)
  PROVE  ClaimInv'
<1>1. UNCHANGED <<phase, trail, before, settled, blind, applied, offline, faults, hasty>>
  BY DEF Hears, claimVars
<1>2. Counted /\ ~Clean'
  BY <1>1, HearsNone, NoFaultCounted DEF ClaimInv, Clean
<1>3. /\ blind' \subseteq Daemons /\ offline' \subseteq Daemons
      /\ settled' \subseteq Daemons /\ alarmed' \subseteq Daemons
      /\ \A x \in blind' \cup settled' : phase[x] \in {"claiming", "committing", "declared"}
  BY <1>1 DEF ClaimInv, ClaimTypes, ReachInv, Hears
<1> QED BY <1>1, <1>2, <1>3, RoutersSame, QuietKeeps

LEMMA CrashKeeps ==
  ASSUME ClaimInv, NEW d \in Daemons, Crash(d)
  PROVE  ClaimInv'
<1>1. /\ before' \in [Daemons -> [Daemons -> Nat]]
      /\ \A x, y \in Daemons : before'[x][y] = before[x][y] \/ (x = d /\ before'[x][y] = 0)
      /\ settled' \subseteq settled \ {d} /\ blind' \subseteq blind \ {d}
  BY DEF Crash, ClaimReturns, ClaimInv, ClaimTypes
<1>2. /\ Closes(d) /\ phase' = [phase EXCEPT ![d] = "crashed"] /\ alarmed' \subseteq alarmed
      /\ UNCHANGED <<applied, offline>> /\ Counted
  BY NoFaultCounted DEF Crash, Closes, ClaimInv
<1> QED BY <1>1, <1>2, EndKeeps

LEMMA ExpiresKeeps ==
  ASSUME ClaimInv, NEW d \in Daemons, Expires(d)
  PROVE  ClaimInv'
<1>1. phase' = [phase EXCEPT ![d] = "crashed"]
  BY DEF Expires, ClaimInv, ClaimTypes
<1>2. /\ before' \in [Daemons -> [Daemons -> Nat]]
      /\ \A x, y \in Daemons : before'[x][y] = before[x][y] \/ (x = d /\ before'[x][y] = 0)
      /\ settled' \subseteq settled \ {d} /\ blind' \subseteq blind \ {d}
  BY DEF Expires, ClaimInv, ClaimTypes, ReachInv
<1>3. Closes(d) /\ alarmed' \subseteq alarmed /\ UNCHANGED <<applied, offline>> /\ Counted
  BY NoFaultCounted DEF Expires, Closes, ClaimInv
<1> QED BY <1>1, <1>2, <1>3, EndKeeps

LEMMA StopKeeps ==
  ASSUME ClaimInv, NEW d \in Daemons, Stop(d)
  PROVE  ClaimInv'
<1>1. Held(d) # {}
  BY HeldIsLast, NumbersTyped DEF Stop, ClaimInv, TrailInv, Alive, Running, Numbers
<1>2. /\ before' \in [Daemons -> [Daemons -> Nat]]
      /\ \A x, y \in Daemons : before'[x][y] = before[x][y] \/ (x = d /\ before'[x][y] = 0)
      /\ settled' \subseteq settled \ {d} /\ blind' \subseteq blind \ {d}
  BY DEF Stop, ClaimInv, ClaimTypes, ReachInv
<1>3. /\ Closes(d) /\ phase' = [phase EXCEPT ![d] = "stopped"] /\ alarmed' \subseteq alarmed
      /\ UNCHANGED <<applied, offline>> /\ Counted
  BY <1>1, NoFaultCounted DEF Stop, Closes, ClaimInv
<1> QED BY <1>2, <1>3, EndKeeps

LEMMA DeclareKeeps ==
  ASSUME ClaimInv, NEW d \in Daemons, Declare(d)
  PROVE  ClaimInv'
<1>1. Held(d) \cup {"claim"} \in SUBSET Kinds
  BY HeldIsLast DEF ClaimInv, Kinds
<1>2. before' \in [Daemons -> [Daemons -> Nat]]
  BY DEF Declare, ClaimInv, ClaimTypes
<1> QED BY <1>1, <1>2, TakeKeeps DEF Declare

LEMMA DropCandidateKeeps ==
  ASSUME ClaimInv, NEW d \in Daemons, DropCandidate(d)
  PROVE  ClaimInv'
<1>1. /\ before' \in [Daemons -> [Daemons -> Nat]]
      /\ \A x, y \in Daemons : before'[x][y] = before[x][y] \/ (x = d /\ before'[x][y] = 0)
      /\ settled' \subseteq settled \ {d} /\ blind' \subseteq blind \ {d}
  BY DEF DropCandidate, ClaimReturns, ClaimInv, ClaimTypes
<1>2. {"claim"} \in SUBSET Kinds
  BY DEF Kinds
<1> QED BY <1>1, <1>2, TakeKeeps DEF DropCandidate

\* A node starts with its watch, for a daemon whose node is followed.
LEMMA NodeKeeps ==
  ASSUME NodeTypes, NEW d \in Daemons, Node(d)
  PROVE  NodeTypes'
<1> USE DEF NodeTypes, NodeStates
<1>1. CASE StartNode(d)
  BY <1>1 DEF StartNode
<1>2. CASE ReportArrives(d)
  <2>1. OwnListed(d) \in BOOLEAN
    BY DEF OwnListed
  <2>2. Append(reports[d], OwnListed(d)) \in Seq(BOOLEAN)
    BY <2>1, AppendProperties
  <2> QED BY <1>2, <2>1, <2>2 DEF ReportArrives
<1>3. CASE HearReport(d)
  <2>1. Head(reports[d]) \in BOOLEAN /\ Tail(reports[d]) \in Seq(BOOLEAN)
    BY <1>3, HeadTailProperties DEF HearReport
  <2> QED BY <1>3, <2>1 DEF HearReport
<1>4. ASSUME NEW e \in Daemons, HearOtherBeat(d, e) \/ Beat(e, d)
      PROVE  NodeTypes'
  <2>1. CASE HearOtherBeat(d, e)
    <3>1. d \in Watched /\ AfterOtherBeat(d) \in NodeStates
      BY <2>1 DEF HearOtherBeat, AfterOtherBeat
    <3>2. node' \in [Daemons -> NodeStates] /\ beats' \in [Daemons -> SUBSET Daemons]
      BY <2>1, <3>1 DEF HearOtherBeat
    <3> QED BY <2>1, <3>1, <3>2 DEF HearOtherBeat
  <2>2. CASE Beat(e, d)
    BY <2>2 DEF Beat
  <2> QED BY <1>4, <2>1, <2>2
<1>5. ASSUME NEW why \in NodeStates, WatchReturns(d, why), node[d] # "none",
             missed' \subseteq missed \cup {d}
      PROVE  NodeTypes'
  <2>1. d \in Watched /\ <<>> \in Seq(BOOLEAN)
    BY <1>5, EmptySeq
  <2>2. /\ node' \in [Daemons -> NodeStates] /\ ownLive' \in [Daemons -> BOOLEAN]
        /\ told' \in [Daemons -> BOOLEAN] /\ reports' \in [Daemons -> Seq(BOOLEAN)]
        /\ beats' \in [Daemons -> SUBSET Daemons]
    BY <1>5, <2>1 DEF WatchReturns
  <2>3. \A x \in Daemons : node'[x] # "none" => x \in Watched
    BY <1>5, <2>1 DEF WatchReturns
  <2> QED BY <1>5, <2>1, <2>2, <2>3
<1>6. ASSUME NEW lists \in BOOLEAN, ReadsPresent(d, lists)
      PROVE  NodeTypes'
  <2>1. missed' \subseteq missed \cup {d} /\ node[d] # "none"
    BY <1>6 DEF ReadsPresent
  <2>2. CASE lists
    BY <1>6, <2>1, <2>2 DEF ReadsPresent
  <2>3. CASE ~lists
    BY <1>5, <1>6, <2>1, <2>3 DEF ReadsPresent
  <2> QED BY <2>2, <2>3
<1>7. CASE Silence(d) \/ SessionCloses(d)
  BY <1>5, <1>7 DEF Silence, SessionCloses
<1> QED BY <1>1, <1>2, <1>3, <1>4, <1>6, <1>7 DEF Node, WatchStep

LEMMA NodeLeavesClaims ==
  ASSUME NEW d \in Daemons, Node(d)
  PROVE  UNCHANGED <<claimVars, applied, offline, alarmed, faults, hasty>>
BY DEF Node, WatchStep, StartNode, ReportArrives, HearReport, HearOtherBeat, ReadsPresent, Silence,
   SessionCloses, Beat

LEMMA StopKeepsNodes ==
  ASSUME NodeTypes, NEW d \in Daemons, Stop(d)
  PROVE  NodeTypes'
BY EmptySeq DEF NodeTypes, NodeStates, Stop, WatchReturns

LEMMA ClaimLeavesNodes ==
  ASSUME NEW d \in Daemons, Claim(d) \/ Life(d), ~Stop(d)
  PROVE  UNCHANGED nodeVars
BY DEF Claim, Life, Boot, ReadWhole, ReadDegraded, ReadMisses, CallFails, Settles, SettlesTooSoon,
   Declare, DropCandidate, Hears, Crash, Expires, SessionDrops, SessionReturns

LEMMA StepKeeps ==
  ASSUME PresenceInv, Next
  PROVE  PresenceInv'
<1>0. ClaimInv /\ NodeTypes
  BY DEF PresenceInv, ClaimInv
<1>1. ASSUME NEW d \in Daemons, Claim(d) \/ Life(d), ~Stop(d)
      PROVE  ClaimInv' /\ NodeTypes'
  <2>1. UNCHANGED nodeVars
    BY <1>1, ClaimLeavesNodes
  <2>2. ClaimInv'
    BY <1>0, <1>1, BootKeeps, ReadWholeKeeps, ReadDegradedKeeps, ReadMissesKeeps, CallFailsKeeps,
       SettlesKeeps, DeclareKeeps, DropCandidateKeeps, HearsKeeps, CrashKeeps, ExpiresKeeps,
       SessionKeeps DEF Claim, Life
  <2> QED BY <1>0, <2>1, <2>2, NodesSame
<1>2. ASSUME NEW d \in Daemons, Stop(d)
      PROVE  ClaimInv' /\ NodeTypes'
  BY <1>0, <1>2, StopKeeps, StopKeepsNodes
<1>3. ASSUME NEW d \in Daemons, Node(d)
      PROVE  ClaimInv' /\ NodeTypes'
  BY <1>0, <1>3, NodeKeeps, NodeLeavesClaims, ClaimsSame
<1>4. ASSUME NEW r \in Routers, NEW d \in Daemons, Crosses(r, d)
      PROVE  ClaimInv' /\ NodeTypes'
  BY <1>0, <1>4, CrossesKeeps, NodesSame DEF Crosses
<1>5. ClaimInv' /\ NodeTypes'
  BY <1>1, <1>2, <1>3, <1>4 DEF Next
<1> QED BY <1>5 DEF PresenceInv, ClaimInv

LEMMA InitHolds ==
  ASSUME Init
  PROVE  PresenceInv
<1>1. ClaimTypes
  BY PlacesAssumption, EmptySeq DEF PlacesAssumption, Init, ClaimTypes, Phases
<1>2. NodeTypes
  BY EmptySeq DEF Init, NodeTypes, NodeStates
<1>3. \A d \in Daemons : Size(d) = 0
  BY EmptySeq DEF Init, Size
<1>4. ReachInv /\ TrailInv
  BY <1>3 DEF Init, ReachInv, TrailInv, Alive, Running
<1>5. ElectInv
  BY <1>3 DEF Init, ElectInv, HeardInv, OpenInv, ChosenInv, Chosen
<1> QED BY <1>1, <1>2, <1>4, <1>5 DEF PresenceInv

LEMMA StutterKeeps ==
  ASSUME PresenceInv, UNCHANGED vars
  PROVE  PresenceInv'
<1>1. ClaimInv /\ NodeTypes
  BY DEF PresenceInv, ClaimInv
<1>2. ClaimInv' /\ NodeTypes'
  BY <1>1, ClaimsSame, NodesSame DEF vars, claimVars, nodeVars
<1> QED BY <1>2 DEF PresenceInv, ClaimInv

-----------------------------------------------------------------------------
(***************************************************************************)
(* The theorems                                                            *)
(***************************************************************************)

\* The inductive invariant: of two open claims one waits for the other, the router
\* of one that settled has heard of those it waits for, and who runs beside a
\* process that stood alone waits for it (claim_name).
THEOREM PresenceInvariant == Spec => []PresenceInv
<1>1. Init => PresenceInv
  BY InitHolds
<1>2. PresenceInv /\ [Next]_vars => PresenceInv'
  BY StepKeeps, StutterKeeps
<1> QED BY <1>1, <1>2, PTL DEF Spec

\* Every variable has its type, no router is ahead of what was declared, and only
\* an open claim is blind (claim_name).
THEOREM PresenceTypeCorrect == Spec => []TypeOK
<1>1. ASSUME PresenceInv
      PROVE  TypeOK
  <2>1. Numbers
    BY <1>1, NumbersTyped DEF PresenceInv
  <2>2. /\ \A r \in Routers, d \in Daemons : applied[r][d] \in 0 .. Len(trail[d])
        /\ \A d, e \in Daemons : before[d][e] \in 0 .. Len(trail[e])
    BY <1>1, <2>1 DEF PresenceInv, ReachInv, Numbers, Size
  <2>3. blind \subseteq {d \in Daemons : phase[d] \in {"claiming", "committing", "declared"}}
    BY <1>1 DEF PresenceInv, ReachInv, ClaimTypes
  <2> QED BY <1>1, <2>2, <2>3 DEF PresenceInv, ClaimTypes, NodeTypes, TypeOK
<1> QED BY <1>1, PresenceInvariant, PTL

\* The election: under its premises no two running daemons hold one name, and no
\* owner raises the alarm for what is left of other boots (claim_name,
\* arbitrate_claim, watch_for_duplicate_name).
THEOREM ElectionIsUnique == Spec => []OneOwner
<1>1. ASSUME PresenceInv, Clean
      PROVE  Cardinality(Owners) <= 1 /\ alarmed = {}
  <2>1. ASSUME NEW d \in Owners, NEW e \in Owners, d # e
        PROVE  FALSE
    <3>1. ChosenInv(d, e)
      BY <1>1, <2>1 DEF PresenceInv, ElectInv, Owners
    <3> QED BY <2>1, <3>1 DEF ChosenInv, Chosen, Alive, Running, Owners
  <2>2. Cardinality(Owners) <= 1
    BY <2>1, AtMostOne
  <2> QED BY <1>1, <2>2 DEF PresenceInv, ElectInv
<1>2. PresenceInv => OneOwner
  BY <1>1 DEF OneOwner
<1> QED BY <1>2, PresenceInvariant, PTL

\* A second daemon of the name does not end the nodes of a daemon that runs and is
\* connected, unless the registry read missed its token (watch_own_daemon).
THEOREM NodesAreKept == Spec => NodeKept
<1>1. ASSUME PresenceInv, Next, NEW d \in Watched, node'[d] = "replaced", node[d] # "replaced"
      PROVE  phase[d] # "up" \/ d \in offline \cup missed'
  <2>1. d \in Daemons /\ ClaimTypes /\ TrailInv /\ NodeTypes
    BY <1>1, PlacesAssumption DEF PresenceInv, PlacesAssumption
  <2>2. ReadsPresent(d, FALSE)
    <3>1. ASSUME NEW e \in Daemons, Claim(e) \/ Life(e)
          PROVE  FALSE
      <4>1. CASE Stop(e)
        BY <1>1, <2>1, <4>1 DEF Stop, WatchReturns, NodeTypes
      <4>2. CASE ~Stop(e)
        BY <1>1, <3>1, <4>2, ClaimLeavesNodes DEF nodeVars
      <4> QED BY <4>1, <4>2
    <3>2. ASSUME NEW r \in Routers, NEW e \in Daemons, Crosses(r, e)
          PROVE  FALSE
      BY <1>1, <3>2 DEF Crosses, nodeVars
    <3>3. ASSUME NEW e \in Daemons, Node(e), ~(\E lists \in BOOLEAN : ReadsPresent(e, lists))
          PROVE  FALSE
      BY <1>1, <2>1, <3>3 DEF Node, WatchStep, StartNode, ReportArrives, HearReport, HearOtherBeat,
         AfterOtherBeat, Silence, SessionCloses, Beat, WatchReturns, NodeTypes
    <3>4. PICK e \in Daemons, lists \in BOOLEAN : ReadsPresent(e, lists)
      BY <1>1, <3>1, <3>2, <3>3 DEF Next
    <3> QED BY <1>1, <2>1, <3>4 DEF ReadsPresent, WatchReturns, NodeTypes
  <2>3. phase[d] = "up" /\ d \notin offline => OwnListed(d)
    BY <2>1, NumbersTyped DEF OwnListed, Known, Reached, TrailInv, Alive, Running, Size, Entry,
       Numbers
  <2> QED BY <2>2, <2>3 DEF ReadsPresent
<1>2. PresenceInv /\ [Next]_vars =>
        [\A d \in Watched : node'[d] = "replaced" /\ node[d] # "replaced"
                              => phase[d] # "up" \/ d \in offline \cup missed']_vars
  BY <1>1
<1> QED BY <1>2, PresenceInvariant, PTL DEF Spec, NodeKept
====
