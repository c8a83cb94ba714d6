---------------------------- MODULE FollowedGoal ----------------------------
(***************************************************************************)
(* Who follows the goal of GoalClient: the command line's RunningStackGoal *)
(* (modelled there), or the bridge of the MCP server, which runs the goal  *)
(* behind an action-backed tool for its client.                            *)
(*                                                                         *)
(* Sources: mcp-server-internal/src/bridges.rs (drive_goal and its three   *)
(* follows, FollowedGoal and its drop), moves.rs (follow_unwaited_goal,    *)
(* MarkedGoal) and peppylib-rs/src/messaging/actions.rs (CancelOnDrop,     *)
(* request_result).  The bridge is one future: it acts at its awaits, and  *)
(* the runtime may drop it at each of them.  The client of the bridge, the *)
(* view of the fleet and the deadlines are the environment.  Under the     *)
(* bridge the handle moves in larger steps: a read, a delivery, the latch, *)
(* the task of the overflow's cancel and the drop of the handle are one    *)
(* step each, whose smaller ones GoalClient has for the stack goal.        *)
(***************************************************************************)
EXTENDS GoalClient

VARIABLES
    mode,       \* who follows: the stack goal, or the bridge by GoalFollow
    moves,      \* BOOLEAN: the goal is on a member that moves a robot
    br,         \* where the bridge is
    armed,      \* BOOLEAN: the guard CancelOnDrop is armed
    endRead,    \* BOOLEAN: FollowedGoal::end_read
    cancelSent, \* BOOLEAN: FollowedGoal::cancel_sent
    ask,        \* the cancel that the bridge sends and awaits
    wish,       \* BOOLEAN: the client asked for the cancel
    stop        \* BOOLEAN: must_stop, the halt that the view of the fleet shows

guardVars  == <<armed, endRead, cancelSent>>
bridgeVars == <<mode, moves, br, guardVars, ask, wish, stop>>
followVars == <<vars, bridgeVars>>

(* WholeGoal with and without feedback, and Progress. *)
Modes     == {"stack", "feedback", "result", "progress"}
Following == {"turn", "report", "cancel", "result"}
Unwaited  == {"unwaited", "halting"}

FollowTypeOK ==
    /\ TypeOK
    /\ mode \in {"none"} \cup Modes /\ moves \in BOOLEAN
    /\ br \in {"none", "leaving", "over"} \cup Following \cup Unwaited
    /\ armed \in BOOLEAN /\ endRead \in BOOLEAN /\ cancelSent \in BOOLEAN
    /\ ask \in {"none", "flying", "signalled", "terminal", "unknown", "missed"}
    /\ wish \in BOOLEAN /\ stop \in BOOLEAN

FollowInit ==
    /\ Init
    /\ mode = "none" /\ moves = FALSE
    /\ br = "none" /\ armed = FALSE /\ endRead = FALSE /\ cancelSent = FALSE
    /\ ask = "none" /\ wish = FALSE /\ stop = FALSE

(* MarkedSurface: the client's cancel, and a halt for a goal that moves. *)
CancelRequested == ~cancelSent /\ (wish \/ (moves /\ stop))

----------------------------------------------------------------------------
(* drive_goal: the goal is fired; accepted, it gets its guard.  Until then it
   makes no difference who the follower is. *)
Admitted ==
    /\ ReceiveAnswer
    /\ \/ call' # "held" /\ UNCHANGED <<mode, moves, br, armed>>
       \/ call' = "held" /\ mode' = "stack" /\ UNCHANGED <<moves, br, armed>>
       \/ /\ call' = "held" /\ wire = <<>> /\ dlv = "idle"
          /\ mode' \in Modes \ {"stack"} /\ moves' \in BOOLEAN
          /\ (mode' = "result") => (pub = 0)
          /\ br' = IF mode' = "result" THEN "result" ELSE "turn"
          /\ armed' = TRUE
    /\ UNCHANGED <<endRead, cancelSent, ask, wish, stop>>

\* Mutant: the task is told that the goal got its cancel.
LeaveCancelled ==
    /\ br' = IF moves /\ ~endRead THEN "unwaited" ELSE "leaving"
    /\ armed' = (armed /\ br' = "leaving")
    /\ cancelSent' = (cancelSent \/ br' = "unwaited")
    /\ UNCHANGED <<endRead, ask>>

(* Drop of FollowedGoal: a goal that moves a robot goes to a task of its own,
   any other one drops its handle and then its guard. *)
Leave ==
    /\ br' = IF moves /\ ~endRead THEN "unwaited" ELSE "leaving"
    /\ armed' = (armed /\ br' = "leaving")
    /\ UNCHANGED <<endRead, cancelSent, ask>>

Surroundings == <<mode, moves, wish, stop>>

(* next_feedback in one step. *)
ReadsMessage ==
    /\ ~raised /\ queue # <<>> /\ Head(queue) # End
    /\ queue' = Tail(queue) /\ read' = read + 1
    /\ UNCHANGED ending

ReadsLast(e) ==
    /\ \/ e = "overflow" /\ raised
       \/ e = "closed" /\ ~raised /\ queue # <<>> /\ Head(queue) = End
       \/ e = "gone" /\ ~raised /\ queue = <<>> /\ gone
    /\ ending' = e
    /\ UNCHANGED <<queue, read>>

NothingToRead == ~raised /\ queue = <<>> /\ ~gone

(* next_feedback_step, of which Skipped shows the client nothing.  next_turn
   polls the cancel before the feedback; the select of settle_after_feedback
   takes what is ready in any order. *)
NextFeedbackStep ==
    /\ br = "turn" /\ (mode = "progress" => ~CancelRequested)
    /\ \/ /\ ReadsMessage
          /\ br' \in {"report", "turn"}
          /\ UNCHANGED <<armed, cancelSent>>
       \/ /\ \E e \in {"closed", "gone"} : ReadsLast(e)
          /\ br' = "result"
          /\ UNCHANGED <<armed, cancelSent>>
       \/ /\ ReadsLast("overflow")
          /\ br' = "result" /\ armed' = FALSE /\ cancelSent' = TRUE
    /\ FollowFeedback
    /\ UNCHANGED <<callVars, provVars, own, pubVars, sink, dlv, raised, goneVars,
                   rd, reg, woken, stage, handle, Surroundings, endRead, ask>>

(* The read is polled and waits: from the first one on the task of the
   overflow's cancel runs. *)
FirstRead ==
    /\ br = "turn" /\ oc = "none" /\ (mode = "progress" => ~CancelRequested)
    /\ FollowFeedback
    /\ UNCHANGED <<readElse, readVars, bridgeVars>>

(* The relay took the message: report_feedback returns. *)
ReportTaken ==
    /\ br = "report" /\ br' = "turn"
    /\ UNCHANGED <<vars, Surroundings, guardVars, ask>>

(* The deadline of the whole goal ends the loop, a report too. *)
Expires ==
    /\ mode = "feedback" /\ br \in {"turn", "report"}
    /\ br' = "result"
    /\ UNCHANGED <<vars, Surroundings, guardVars, ask>>

(* A window without progress ends the follow; a read that is ready wins. *)
GoesSilent ==
    /\ mode = "progress" /\ br = "turn" /\ oc # "none"
    /\ ~CancelRequested /\ NothingToRead
    /\ Leave
    /\ UNCHANGED <<vars, Surroundings>>

(* FollowedGoal::cancel: disarmed and noted before the cancel goes out. *)
SendsCancel ==
    /\ br = "turn" \/ (br = "result" /\ mode = "result")
    /\ CancelRequested
    /\ br' = "cancel" /\ armed' = FALSE /\ cancelSent' = TRUE /\ ask' = "flying"
    /\ UNCHANGED <<vars, Surroundings, endRead>>

(* Only follow_progress reads the reply; an answer may come too late, and the
   wait of every mode is bounded. *)
CancelReturns ==
    /\ br = "cancel"
    /\ \/ /\ \/ mode = "feedback" /\ br' = "turn"
             \/ mode = "result" /\ br' = "result"
             \/ mode = "progress" /\ ask = "signalled" /\ br' = "turn"
             \/ mode = "progress" /\ ask = "terminal" /\ br' = "result"
          /\ UNCHANGED <<guardVars, ask>>
       \/ mode = "progress" /\ Leave
    /\ UNCHANGED <<vars, Surroundings>>

(* request_result gives an end: the provider's outcome, or Abandoned when the
   latch or the probe says that the provider is gone. *)
EndReadable == goal = "ended" \/ ~alive

ResultRead ==
    /\ br = "result" /\ EndReadable
    /\ endRead' = TRUE /\ armed' = FALSE /\ br' = "leaving"
    /\ UNCHANGED <<vars, Surroundings, cancelSent, ask>>

\* Mutant: the guard is disarmed by a result request that failed too.
ResultFailsDisarmed ==
    /\ br = "result"
    /\ br' = IF moves THEN "unwaited" ELSE "leaving"
    /\ armed' = FALSE
    /\ UNCHANGED <<vars, Surroundings, endRead, cancelSent, ask>>

(* The deadline passes, the request is lost with a probe that finds the
   provider alive or errs, or the outcome does not convert. *)
ResultFails ==
    /\ br = "result"
    /\ Leave
    /\ UNCHANGED <<vars, Surroundings>>

(* The TTL of the task or the stop of the endpoint: the runtime drops the
   future where it waits. *)
FutureIsDropped ==
    /\ br \in Following
    /\ Leave
    /\ UNCHANGED <<vars, Surroundings>>

(* The guard is the last field to go. *)
GuardDrops ==
    /\ br = "leaving" /\ handle = "dropped"
    /\ br' = "over"
    /\ IF armed THEN SpawnOwnCancel ELSE NoOwnCancel
    /\ UNCHANGED <<callVars, provVars, pubVars, sinkVars, goneVars, readVars,
                   taskVars, handle, Surroundings, guardVars, ask>>

----------------------------------------------------------------------------
(* follow_unwaited_goal: a result request that misses is sent again. *)

UnwaitedEnds ==
    /\ br = "unwaited"
    /\ \/ EndReadable /\ endRead' = TRUE
       \/ goal = "ended" /\ UNCHANGED endRead   \* an outcome that does not convert
    /\ br' = "leaving"
    /\ UNCHANGED <<vars, Surroundings, armed, cancelSent, ask>>

MustStop ==
    /\ br = "unwaited" /\ stop /\ ~cancelSent
    /\ br' = "halting" /\ cancelSent' = TRUE /\ ask' = "flying"
    /\ UNCHANGED <<vars, Surroundings, armed, endRead>>

HaltCancelReturns ==
    /\ br = "halting" /\ br' = "unwaited"
    /\ UNCHANGED <<vars, Surroundings, guardVars, ask>>

----------------------------------------------------------------------------
(* The cancel on its way, the client and the fleet (external). *)

AskArrives ==
    /\ ask = "flying" /\ alive
    /\ ask' \in IF goal = "ended" THEN {"terminal", "unknown"} ELSE {"signalled"}
    /\ knows' = TRUE
    /\ UNCHANGED <<callVars, goal, alive, own, pubVars, sinkVars, goneVars,
                   readVars, taskVars, handle, Surroundings, br, guardVars>>

(* While the bridge waits, a request that met nobody is sent again. *)
AskIsLost ==
    /\ ask = "flying" /\ (br \notin {"cancel", "halting"} \/ ~alive)
    /\ ask' = "missed"
    /\ UNCHANGED <<vars, Surroundings, br, guardVars>>

ClientCancels ==
    /\ br \in Following /\ ~wish
    /\ wish' = TRUE
    /\ UNCHANGED <<vars, mode, moves, br, guardVars, ask, stop>>

(* The view shows a halt, or that it is lost; a halt may be cleared again. *)
ViewChanges ==
    /\ moves /\ br \in Following \cup Unwaited
    /\ stop' = ~stop
    /\ UNCHANGED <<vars, mode, moves, br, guardVars, ask, wish>>

----------------------------------------------------------------------------
(* The handle under the bridge, in larger steps. *)

handleElse == <<callVars, rd, reg, woken, read, stage, ending, bridgeVars>>

(* A message is delivered as it is published; the receiver discards what comes
   after the end and after an overflow. *)
Publishes ==
    /\ mode \in {"feedback", "progress"}
    /\ goal \in {"running", "ended"} /\ alive /\ pub < MaxFeedback
    /\ sink = "Open" /\ ~ReaderGone
    /\ pub' = pub + 1
    /\ IF Overflows(pub + 1)
       THEN sink' = "Overflowed" /\ raised' = TRUE /\ queue' = <<>>
       ELSE queue' = Append(queue, pub + 1) /\ UNCHANGED <<sink, raised>>
    /\ UNCHANGED <<handleElse, provVars, own, pubAtEnd, wire, dlv, goneVars,
                   taskVars, handle>>

Ends ==
    /\ mode \notin {"none", "stack"} /\ goal = "running" /\ alive
    /\ goal' = "ended"
    /\ pubAtEnd' = pub
    /\ IF sink = "Open" /\ ~ReaderGone /\ mode # "result"
       THEN sink' = "Ended" /\ queue' = Append(queue, End)
       ELSE UNCHANGED <<sink, queue>>
    /\ UNCHANGED <<handleElse, alive, knows, own, pub, wire, dlv, raised, goneVars,
                   taskVars, handle>>

Latches ==
    /\ mode \notin {"none", "stack"} /\ watcher = "watch" /\ ~alive
    /\ gone' = TRUE /\ watcher' = "over"
    /\ UNCHANGED <<handleElse, provVars, own, pubVars, sinkVars, taskVars, handle>>

OverflowCancelFires ==
    /\ mode \notin {"none", "stack"} /\ oc = "start" /\ raised
    /\ oc' = "over"
    /\ SpawnOwnCancel
    /\ UNCHANGED <<handleElse, provVars, pubVars, sinkVars, goneVars, ocReg, handle>>

HandleDrops ==
    /\ br = "leaving" /\ handle = "held"
    /\ handle' = "dropped" /\ watcher' = "over" /\ queue' = <<>>
    /\ oc' = IF raised \/ oc = "none" THEN oc ELSE "over"
    /\ UNCHANGED <<handleElse, provVars, own, pubVars, sink, dlv, raised, gone, ocReg>>

----------------------------------------------------------------------------
Alone(A) == A /\ UNCHANGED bridgeVars

(* The steps of GoalClient, until the bridge holds the goal. *)
StackGoal == mode = "stack" /\ Alone(Follower)

SmallStep(A) == mode \in {"none", "stack"} /\ Alone(A)

Bridge ==
    \/ FirstRead \/ NextFeedbackStep \/ SendsCancel \/ CancelReturns
    \/ ResultRead \/ ResultFails \/ HandleDrops \/ GuardDrops
    \/ UnwaitedEnds \/ MustStop \/ HaltCancelReturns

FollowNext ==
    \/ Admitted \/ StackGoal \/ Bridge
    \/ ReportTaken \/ Expires \/ GoesSilent \/ FutureIsDropped
    \/ AskArrives \/ AskIsLost \/ ClientCancels \/ ViewChanges
    \/ Publishes \/ Ends \/ Latches \/ OverflowCancelFires
    \/ SmallStep(Request) \/ SmallStep(Provider) \/ SmallStep(Reads) \/ SmallStep(Drops)
    \/ SmallStep(CancelTask) \/ SmallStep(Deliveries) \/ SmallStep(Watch)
    \/ Alone(ProviderDies) \/ Alone(CancelArrives)

(* Threads and tasks of the runtime run on, the bridge's among them, whose
   waits for the provider are bounded; the network delivers, and the watch
   confirms a death.  Callers, workers and the fleet may stop for good. *)
FollowSpec ==
    /\ FollowInit /\ [][FollowNext]_followVars
    /\ WF_followVars(SmallStep(Reads)) /\ WF_followVars(SmallStep(Drops))
    /\ WF_followVars(SmallStep(CancelTask)) /\ WF_followVars(SmallStep(Deliveries))
    /\ WF_followVars(SmallStep(Watch)) /\ WF_followVars(Alone(CancelArrives))
    /\ WF_followVars(Bridge) /\ WF_followVars(Latches \/ OverflowCancelFires)
    /\ WF_followVars(AskArrives \/ AskIsLost)

----------------------------------------------------------------------------
(* A caller that holds its goal and never fell behind its reads keeps it: the
   client cancels a goal by itself only after an overflow, and only when the
   caller reads the feedback (actions.rs, follow_feedback), or as a bridge
   that did not read the end lets it go (bridges.rs, FollowedGoal). *)
KeepsFollowedGoal ==
    own # "none" /\ call = "held" =>
        \/ raised /\ oc # "none"
        \/ br = "over" /\ ~endRead

(* No goal runs on with nobody to follow it.  A goal whose follower was told
   of the overflow is cancelled, also when the handle is dropped at once
   (OverflowCancel); so is a goal whose answer the caller did not read
   (send_goal, cancel_unread_goal); so is a goal whose bridge ended before it
   read the end, wherever its future was dropped (FollowedGoal), unless the
   one cancel it sent was lost on the way. *)
LeftGoalCancelled ==
    /\ ending = "overflow" ~> (knows \/ ~alive)
    /\ call \in {"timeout", "undecodable"} ~> (knows \/ ~alive)
    /\ (br = "over" /\ ~endRead) ~> (knows \/ EndReadable \/ ask = "missed")

(* A halt that lasts cancels a goal that moves a robot, whoever still waits
   for it (must_stop, follow_unwaited_goal), but for a client that does not
   take its feedback: the bridge looks at the halt after it.  A cancel that
   was lost is the one that the goal gets. *)
HaltCancelsMove ==
    (moves /\ stop /\ br \in Following \cup Unwaited)
        ~> (knows \/ EndReadable \/ ~stop \/ ask = "missed" \/ [](br = "report"))
=============================================================================
