-------------------------- MODULE MCDaemonPresence --------------------------
(***************************************************************************)
(* Small instances of DaemonPresence for TLC.                              *)
(***************************************************************************)
EXTENDS DaemonPresence

CONSTANTS ra, rb

\* Two processes share the router ra; every other one is across a link.
TwoRouters == [d \in Daemons |-> IF d \in {1, 3} THEN ra ELSE rb]
=============================================================================
