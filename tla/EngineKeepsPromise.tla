------------------------ MODULE EngineKeepsPromise ------------------------
(***************************************************************************)
(* The refinement mapping under which ActionEngine implements GoalPromise. *)
(* The result of a goal is the outcome its slot shows, so that a goal is   *)
(* decided by the replacement of the slot's state and not by the earlier   *)
(* swap of the flag; a result need not be kept once evict_at has passed.   *)
(***************************************************************************)
EXTENDS ActionEngine

Got == [p \in Polls |-> CASE poll[p] = "answered" -> answer[p]
                          [] poll[p] = "dropped" -> "dropped"
                          [] OTHER -> NoOutcome]

Promise == INSTANCE GoalPromise
             WITH result <- outcome, ends <- ends, aged <- due, got <- Got,
                  None <- NoOutcome, Dropped <- "dropped"

\* The engine keeps the promise: every step of its loops, its sweeper, the calls
\* that end a goal and its faults is a step of GoalPromise or changes nothing a
\* client can see (GoalContext::deliver, transition_terminal, act_on_slot,
\* run_retention_sweeper).
PromiseKept == Promise!Spec
=============================================================================
