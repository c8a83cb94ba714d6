--------------------------- MODULE MCActionEngine ---------------------------
(***************************************************************************)
(* Small instances of ActionEngine for TLC.                                *)
(***************************************************************************)
EXTENDS EngineKeepsPromise

CONSTANTS g1, g2, s1, s2, p1, p2, c1, c2, e1, e2, l1

\* Every goal is of the sender s1, and every poll asks for g1.
OneSender == [g \in Goals |-> s1]
PollsOfG1 == [p \in Polls |-> g1]

\* c1 is a cancel of g1 by its sender s1, c2 one by the other client s2.
CancelsOfG1 == [c \in Cancels |-> g1]
CancelsBy == [c \in Cancels |-> IF c = c1 THEN s1 ELSE s2]
=============================================================================
