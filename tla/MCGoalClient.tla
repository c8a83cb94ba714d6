---------------------------- MODULE MCGoalClient ----------------------------
(* The client of one goal and its followers for TLC: the constants are numbers
   in the cfg. *)
EXTENDS FollowedGoal
=============================================================================
