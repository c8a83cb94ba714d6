---------------------------- MODULE GoalPromise ----------------------------
(***************************************************************************)
(* What an action provider promises the clients of its goals, without the  *)
(* registry, the locks and the loops that keep the promise: a goal gets    *)
(* one result; the feedback stream ends once, and only when the result is  *)
(* there to be fetched; a result request gets that result, or learns that  *)
(* it is no longer kept, or is dropped and may be sent again.              *)
(***************************************************************************)
CONSTANTS Goals, Polls, PollOf, Outcomes, None, Expired, Dropped

VARIABLES
  result,   \* [Goals -> Outcomes \cup {None}]
  ends,     \* [Goals -> how often the stream ended]
  aged,     \* goals whose result need not be kept any more
  got       \* [Polls -> what the request got]

vars == <<result, ends, aged, got>>

Init ==
  /\ result = [g \in Goals |-> None]
  /\ ends = [g \in Goals |-> 0]
  /\ aged = {}
  /\ got = [p \in Polls |-> None]

Decide(g, o) ==
  /\ result[g] = None
  /\ result' = [result EXCEPT ![g] = o]
  /\ UNCHANGED <<ends, aged, got>>

Close(g) ==
  /\ result[g] # None /\ ends[g] = 0
  /\ ends' = [ends EXCEPT ![g] = 1]
  /\ UNCHANGED <<result, aged, got>>

Age(g) ==
  /\ result[g] # None
  /\ aged' = aged \cup {g}
  /\ UNCHANGED <<result, ends, got>>

Answer(p) ==
  LET g == PollOf[p] IN
  /\ got[p] = None /\ result[g] # None
  /\ \/ got' = [got EXCEPT ![p] = result[g]]
     \/ g \in aged /\ got' = [got EXCEPT ![p] = Expired]
  /\ UNCHANGED <<result, ends, aged>>

Lose(P) ==
  /\ \A p \in P : got[p] = None
  /\ got' = [p \in Polls |-> IF p \in P THEN Dropped ELSE got[p]]
  /\ UNCHANGED <<result, ends, aged>>

Next ==
  \/ \E g \in Goals : Close(g) \/ Age(g) \/ \E o \in Outcomes : Decide(g, o)
  \/ \E p \in Polls : Answer(p)
  \/ \E P \in SUBSET Polls : Lose(P)

Spec == Init /\ [][Next]_vars
=============================================================================
