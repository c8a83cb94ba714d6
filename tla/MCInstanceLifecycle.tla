-------------------------- MODULE MCInstanceLifecycle --------------------------
(***************************************************************************)
(* Small instances of InstanceLifecycle for TLC.                           *)
(***************************************************************************)
EXTENDS InstanceLifecycle

CONSTANTS s1, r1, o1

NoRequests == {}
OneStop == {s1}
OneRemover == {r1}
OneOverwriter == {o1}
AllPolicies == {"never", "on_failure", "always"}
Restarting == {"always"}
ShortRuns == {"short"}
AnyRuns == {"short", "long"}
================================================================================
