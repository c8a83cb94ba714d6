----------------------------- MODULE GoalClient -----------------------------
(***************************************************************************)
(* The client side of one goal of an action: the request and its answer,   *)
(* the buffer of the feedback, the latch of the provider's death, the      *)
(* reads of the follower, the cancels that the client sends by itself and  *)
(* the read of the goal's end.                                             *)
(*                                                                         *)
(* Sources: peppylib-rs/src/messaging/actions.rs (send_goal, the handle),  *)
(* peppylib-rs/src/messaging.rs (poll_service), peppy-messaging-interface  *)
(* subscription_buffer.rs and types.rs (the sink and its overflow), and    *)
(* stack-goal-internal/src/goal.rs (RunningStackGoal, which follows a goal *)
(* to its end).  The provider is external here: ActionEngine models it.    *)
(* A read of feedback runs on one thread, a delivery, the watch of the     *)
(* provider and the task of the overflow's cancel on others, so each load, *)
(* store, registration and wake up of theirs is a step.                    *)
(***************************************************************************)
EXTENDS Naturals, Sequences

CONSTANTS
    Bound,        \* FeedbackBound: unread messages that the buffer keeps
    MaxFeedback,  \* bound: feedback messages the worker publishes
    MaxAttempts   \* bound: queries of the goal request

ASSUME ClientAssumption ==
    /\ Bound \in Nat \ {0}
    /\ MaxFeedback \in Nat
    /\ MaxAttempts \in Nat \ {0}

VARIABLES
    call,     \* where send_goal is, or how it ended
    attempts, \* queries issued so far
    req,      \* the query: none, flying, received or missed
    replies,  \* replies of the query that wait for the caller
    goal,     \* the goal at its provider
    alive,    \* BOOLEAN: the provider lives
    knows,    \* BOOLEAN: a cancel of the goal reached its provider
    own,      \* the client's own cancel: none, sent or arrived
    pub,      \* feedback messages published
    pubAtEnd, \* of these, the ones before the end of the stream
    wire,     \* feedback on its way, in order
    sink,     \* FeedbackState of the buffer
    dlv,      \* where the delivery that overflows is
    queue,    \* messages that wait in the buffer
    raised,   \* BOOLEAN: FeedbackOverflow
    gone,     \* BOOLEAN: the latch of ProducerGoneWatch
    watcher,  \* its task
    rd,       \* where on_next_feedback is
    reg,      \* what the sleeping read is registered with
    woken,    \* BOOLEAN: the read is to be polled again
    read,     \* feedback messages the follower got
    stage,    \* Stage of RunningStackGoal
    ending,   \* what ended the feedback for the follower
    oc,       \* the task of OverflowCancel
    ocReg,    \* BOOLEAN: it is registered with the overflow
    handle    \* the ActionGoalHandle: none, held, or how far its drop is

callVars   == <<call, attempts, req, replies>>
provVars   == <<goal, alive, knows>>
pubVars    == <<pub, pubAtEnd, wire>>
sinkVars   == <<sink, dlv, queue, raised>>
goneVars   == <<gone, watcher>>
readVars   == <<rd, reg, woken, read, stage, ending>>
taskVars   == <<oc, ocReg>>
vars == <<callVars, provVars, own, pubVars, sinkVars, goneVars, readVars,
          taskVars, handle>>

End == 0   \* the end of the stream, an empty payload

Waiting == {"polling", "acked"}
Failed  == {"unreachable", "timeout", "undecodable", "refused", "failed", "undecodable_body"}
Answers == {"accepted", "accepted_bad_body", "refused", "garbled", "failure"}
Sources == {"overflow", "queue", "gone"}

TypeOK ==
    /\ call \in {"idle", "backoff", "held"} \cup Waiting \cup Failed
    /\ attempts \in 0..MaxAttempts
    /\ req \in {"none", "flying", "received", "missed"}
    /\ replies \in Seq({"ack"} \cup Answers)
    /\ goal \in {"none", "deciding", "running", "ended", "refused"}
    /\ alive \in BOOLEAN /\ knows \in BOOLEAN
    /\ own \in {"none", "sent", "arrived"}
    /\ pub \in 0..MaxFeedback /\ pubAtEnd \in 0..MaxFeedback
    /\ wire \in Seq(0..MaxFeedback)
    /\ queue \in Seq(0..MaxFeedback) /\ Len(queue) <= Bound + 1
    /\ sink \in {"Open", "Ended", "Overflowed"}
    /\ dlv \in {"idle", "drain", "raise", "notify"}
    /\ raised \in BOOLEAN /\ gone \in BOOLEAN
    /\ watcher \in {"watch", "notify", "over"}
    /\ rd \in {"idle", "overflow", "checkO", "queue", "gone", "checkG", "asleep"}
    /\ reg \subseteq Sources /\ woken \in BOOLEAN
    /\ read \in 0..MaxFeedback
    /\ stage \in {"Feedback", "Result", "Ended"}
    /\ ending \in {"none", "closed", "overflow", "gone"}
    /\ oc \in {"none", "start", "check", "wait", "over"}
    /\ ocReg \in BOOLEAN
    /\ handle \in {"none", "held", "no_feedback", "aborts", "no_cancel", "dropped"}

(* The subscription and the watch are up before the request leaves. *)
Init ==
    /\ call = "idle" /\ attempts = 0 /\ req = "none" /\ replies = <<>>
    /\ goal = "none" /\ alive = TRUE /\ knows = FALSE /\ own = "none"
    /\ pub = 0 /\ pubAtEnd = 0 /\ wire = <<>>
    /\ sink = "Open" /\ dlv = "idle" /\ queue = <<>> /\ raised = FALSE
    /\ gone = FALSE /\ watcher = "watch"
    /\ rd = "idle" /\ reg = {} /\ woken = FALSE /\ read = 0
    /\ stage = "Feedback" /\ ending = "none"
    /\ oc = "none" /\ ocReg = FALSE /\ handle = "none"

----------------------------------------------------------------------------
(* The request: send_goal and poll_service. *)

(* spawn_own_cancel: a task of its own asks the provider to cancel. *)
SpawnOwnCancel == own' = IF own = "none" THEN "sent" ELSE own

NoOwnCancel == own' = own

(* The call fails: what send_goal made is dropped, the watch is aborted. *)
FailCall(how) ==
    /\ call' = how
    /\ watcher' = "over"
    /\ UNCHANGED <<provVars, pubVars, sinkVars, gone, readVars, taskVars, handle>>

\* Mutant: no failed request leads to a cancel.
NeverMayHaveStarted(how) == FALSE

(* Only these failures may have left a goal that nobody holds. *)
RequestMayHaveStartedAGoal(how) == how = "timeout"

CancelUnread(how) ==
    IF RequestMayHaveStartedAGoal(how) THEN SpawnOwnCancel ELSE NoOwnCancel

IssueQuery ==
    /\ call \in {"idle", "backoff"}
    /\ attempts < MaxAttempts
    /\ call' = "polling"
    /\ attempts' = attempts + 1
    /\ req' = "flying"
    /\ UNCHANGED <<replies, provVars, own, pubVars, sinkVars, goneVars,
                   readVars, taskVars, handle>>

(* The session cannot send the query. *)
SendFails ==
    /\ call \in {"idle", "backoff"}
    /\ CancelUnread("failed") /\ FailCall("failed")
    /\ UNCHANGED <<attempts, req, replies>>

(* The query finalized and nobody got it. *)
NotReached ==
    /\ call = "polling" /\ req = "missed" /\ replies = <<>>
    /\ call' = "backoff"
    /\ UNCHANGED <<attempts, req, replies, provVars, own, pubVars, sinkVars,
                   goneVars, readVars, taskVars, handle>>

(* The deadline bounds the wait: a reply that is there is read first. *)
DeadlinePasses ==
    /\ call \in {"idle", "backoff"} \cup Waiting
    /\ replies = <<>>
    /\ LET how == IF call = "acked" THEN "timeout" ELSE "unreachable" IN
          CancelUnread(how) /\ FailCall(how)
    /\ UNCHANGED <<attempts, req, replies>>

(* The provider died after its ack: the stream of the replies is closed. *)
RepliesClose ==
    /\ call = "acked" /\ replies = <<>> /\ ~alive
    /\ CancelUnread("timeout") /\ FailCall("timeout")
    /\ UNCHANGED <<attempts, req, replies>>

ReceiveAck ==
    /\ call \in Waiting /\ replies # <<>> /\ Head(replies) = "ack"
    /\ call' = "acked"
    /\ replies' = Tail(replies)
    /\ UNCHANGED <<attempts, req, provVars, own, pubVars, sinkVars, goneVars,
                   readVars, taskVars, handle>>

(* unwrap_goal_ack: the handle of a refused goal is dropped by the follower. *)
ReceiveAnswer ==
    /\ call \in Waiting /\ replies # <<>> /\ Head(replies) \in Answers
    /\ replies' = Tail(replies)
    /\ attempts' = 0 /\ UNCHANGED req
    /\ \/ /\ Head(replies) = "accepted"
          /\ call' = "held" /\ handle' = "held"
          /\ UNCHANGED <<provVars, own, pubVars, sinkVars, goneVars, readVars, taskVars>>
       \/ Head(replies) = "refused" /\ NoOwnCancel /\ FailCall("refused")
       \/ Head(replies) = "accepted_bad_body" /\ NoOwnCancel /\ FailCall("undecodable_body")
       \/ Head(replies) = "failure" /\ CancelUnread("failed") /\ FailCall("failed")
       \/ Head(replies) = "garbled" /\ SpawnOwnCancel /\ FailCall("undecodable")

----------------------------------------------------------------------------
(* The provider and the network, as the client meets them (external). *)

ReaderGone == call \in Failed \/ handle \notin {"none", "held"}

Reply(r) == replies' = IF call \in Waiting THEN Append(replies, r) ELSE replies

(* The ack leaves before the handler of the request runs. *)
ProviderReceives ==
    /\ req = "flying" /\ alive
    /\ req' = "received"
    /\ Reply("ack")
    /\ goal' = "deciding"
    /\ UNCHANGED <<call, attempts, alive, knows, own, pubVars, sinkVars, goneVars,
                   readVars, taskVars, handle>>

(* The query runs ahead of discovery, or its provider is gone. *)
QueryMisses ==
    /\ req = "flying"
    /\ req' = "missed"
    /\ UNCHANGED <<call, attempts, replies, provVars, own, pubVars, sinkVars,
                   goneVars, readVars, taskVars, handle>>

(* The answer, with a body that an other version wrote now and then. *)
ProviderAnswers(r) ==
    /\ goal = "deciding" /\ alive
    /\ Reply(r)
    /\ goal' = IF r \in {"refused", "failure"} THEN "refused" ELSE "running"
    /\ UNCHANGED <<call, attempts, req, alive, knows, own, pubVars, sinkVars,
                   goneVars, readVars, taskVars, handle>>

(* Workers may publish after the goal ended too.  What is published when the
   reader is gone would be discarded as it comes: it is left out. *)
ProviderPublishes ==
    /\ goal \in {"running", "ended"} /\ alive /\ pub < MaxFeedback
    /\ ~ReaderGone
    /\ pub' = pub + 1
    /\ wire' = Append(wire, pub + 1)
    /\ UNCHANGED <<callVars, provVars, own, pubAtEnd, sinkVars, goneVars,
                   readVars, taskVars, handle>>

ProviderEnds ==
    /\ goal = "running" /\ alive
    /\ goal' = "ended"
    /\ pubAtEnd' = pub
    /\ wire' = Append(wire, End)
    /\ UNCHANGED <<callVars, alive, knows, own, pub, sinkVars, goneVars,
                   readVars, taskVars, handle>>

(* A provider that dies takes what it did not get onto the wire with it. *)
ProviderDies ==
    /\ alive
    /\ alive' = FALSE
    /\ \E n \in 0..Len(wire) : wire' = SubSeq(wire, 1, n)
    /\ UNCHANGED <<callVars, goal, knows, own, pub, pubAtEnd, sinkVars, goneVars,
                   readVars, taskVars, handle>>

(* A cancel that comes before the goal is remembered until it is decided. *)
CancelArrives ==
    /\ own = "sent"
    /\ own' = "arrived"
    /\ knows' = (knows \/ alive)
    /\ UNCHANGED <<callVars, goal, alive, pubVars, sinkVars, goneVars, readVars,
                   taskVars, handle>>

----------------------------------------------------------------------------
(* FeedbackSink::deliver: each delivery holds the lock of the state. *)

(* What a push does to a read that sleeps on the queue. *)
Push(m) ==
    /\ queue' = Append(queue, m)
    /\ reg' = reg \ {"queue"}
    /\ woken' = (woken \/ "queue" \in reg)

Arrives ==
    /\ wire # <<>> /\ dlv = "idle"
    /\ wire' = Tail(wire)
    /\ UNCHANGED <<callVars, provVars, own, pub, pubAtEnd, goneVars, taskVars, handle>>

(* Messages beyond the bound overflow it; the end always has room. *)
Overflows(m) == m # End /\ Len(queue) >= Bound

DiscardMessage ==
    /\ Arrives
    /\ sink # "Open" \/ ReaderGone
    /\ UNCHANGED <<sinkVars, readVars>>

\* Mutant: the bound holds for the end of the stream too.
KeepUnlessFull ==
    /\ Arrives
    /\ sink = "Open" /\ ~ReaderGone /\ ~Overflows(Head(wire))
    /\ \/ /\ Len(queue) < Bound
          /\ sink' = IF Head(wire) = End THEN "Ended" ELSE "Open"
          /\ Push(Head(wire))
       \/ Len(queue) >= Bound /\ UNCHANGED <<sink, queue, reg, woken>>
    /\ UNCHANGED <<dlv, raised, rd, read, stage, ending>>

KeepMessage ==
    /\ Arrives
    /\ sink = "Open" /\ ~ReaderGone /\ ~Overflows(Head(wire))
    /\ sink' = IF Head(wire) = End THEN "Ended" ELSE "Open"
    /\ Push(Head(wire))
    /\ UNCHANGED <<dlv, raised, rd, read, stage, ending>>

\* Mutant: the oldest unread message makes room, as in the buffer of a topic.
DropOldest ==
    /\ Arrives
    /\ sink = "Open" /\ ~ReaderGone /\ Overflows(Head(wire))
    /\ queue' = Append(Tail(queue), Head(wire))
    /\ UNCHANGED <<sink, dlv, raised, readVars>>

BeginOverflow ==
    /\ Arrives
    /\ sink = "Open" /\ ~ReaderGone /\ Overflows(Head(wire))
    /\ sink' = "Overflowed"
    /\ dlv' = "drain"
    /\ UNCHANGED <<queue, raised, readVars>>

DrainUnread ==
    /\ dlv = "drain"
    /\ queue' = <<>>
    /\ dlv' = "raise"
    /\ UNCHANGED <<callVars, provVars, own, pubVars, sink, raised, goneVars,
                   readVars, taskVars, handle>>

(* FeedbackOverflow::raise: the flag, then notify_waiters. *)
RaiseStores ==
    /\ dlv = "raise"
    /\ raised' = TRUE
    /\ dlv' = "notify"
    /\ UNCHANGED <<callVars, provVars, own, pubVars, sink, queue, goneVars,
                   readVars, taskVars, handle>>

RaiseNotifies ==
    /\ dlv = "notify"
    /\ dlv' = "idle"
    /\ reg' = reg \ {"overflow"}
    /\ woken' = (woken \/ "overflow" \in reg)
    /\ ocReg' = FALSE
    /\ UNCHANGED <<callVars, provVars, own, pubVars, sink, queue, raised, goneVars,
                   rd, read, stage, ending, oc, handle>>

----------------------------------------------------------------------------
(* run_producer_liveliness_watch, once the death is confirmed. *)

GoneStores ==
    /\ watcher = "watch" /\ ~alive
    /\ gone' = TRUE
    /\ watcher' = "notify"
    /\ UNCHANGED <<callVars, provVars, own, pubVars, sinkVars, readVars, taskVars, handle>>

GoneNotifies ==
    /\ watcher = "notify"
    /\ watcher' = "over"
    /\ reg' = reg \ {"gone"}
    /\ woken' = (woken \/ "gone" \in reg)
    /\ UNCHANGED <<callVars, provVars, own, pubVars, sinkVars, gone, rd, read,
                   stage, ending, taskVars, handle>>

----------------------------------------------------------------------------
(* on_next_feedback, one call of the follower at a time. *)

readElse == <<callVars, provVars, own, pubVars, sinkVars, goneVars, handle>>

(* follow_feedback: the first read starts the task of the overflow's cancel. *)
FollowFeedback ==
    /\ oc' = IF oc = "none" THEN "start" ELSE oc
    /\ UNCHANGED ocReg

BeginRead ==
    /\ handle = "held" /\ rd = "idle" /\ stage = "Feedback"
    /\ FollowFeedback
    /\ rd' = "overflow"
    /\ reg' = {} /\ woken' = FALSE
    /\ UNCHANGED <<readElse, read, stage, ending>>

(* The read ends: its registrations go with it. *)
ReadGives(n, st, e) ==
    /\ rd' = "idle" /\ reg' = {} /\ woken' = FALSE
    /\ read' = n /\ stage' = st /\ ending' = e
    /\ UNCHANGED <<readElse, taskVars>>

GoesTo(step) ==
    /\ rd' = step
    /\ UNCHANGED <<readElse, taskVars, read, stage, ending>>

(* A select arm that is registered and was not notified stays pending. *)
PollOverflow ==
    /\ rd = "overflow"
    /\ reg' = reg \cup {"overflow"}
    /\ GoesTo(IF "overflow" \in reg THEN "queue" ELSE "checkO")
    /\ UNCHANGED woken

CheckRaised ==
    /\ rd = "checkO"
    /\ \/ raised /\ ReadGives(read, "Ended", "overflow")
       \/ ~raised /\ GoesTo("queue") /\ UNCHANGED <<reg, woken>>

TakeMessage ==
    /\ rd = "queue" /\ queue # <<>>
    /\ queue' = Tail(queue)
    /\ rd' = "idle" /\ reg' = {} /\ woken' = FALSE
    /\ \/ /\ Head(queue) = End
          /\ stage' = "Result" /\ ending' = "closed" /\ UNCHANGED read
       \/ /\ Head(queue) # End
          /\ read' = read + 1
          /\ UNCHANGED <<stage, ending>>
    /\ UNCHANGED <<callVars, provVars, own, pubVars, sink, dlv, raised, goneVars,
                   taskVars, handle>>

WaitForMessage ==
    /\ rd = "queue" /\ queue = <<>>
    /\ reg' = reg \cup {"queue"}
    /\ GoesTo("gone")
    /\ UNCHANGED woken

(* ProducerGoneWatch::gone registers before it checks the latch again. *)
PollGone ==
    /\ rd = "gone"
    /\ reg' = reg \cup {"gone"}
    /\ GoesTo(IF "gone" \in reg THEN "asleep" ELSE "checkG")
    /\ UNCHANGED woken

\* Mutant: the latch is not checked again after the registration.
GoneNotSeen == FALSE

GoneSeen == gone

CheckGone ==
    /\ rd = "checkG"
    /\ \/ GoneSeen /\ ReadGives(read, "Ended", "gone")
       \/ ~GoneSeen /\ GoesTo("asleep") /\ UNCHANGED <<reg, woken>>

Wakes ==
    /\ rd = "asleep" /\ woken
    /\ woken' = FALSE
    /\ GoesTo("overflow")
    /\ UNCHANGED reg

(* Cancel safe: the caller drops the future of the read where it waits. *)
ReadIsDropped ==
    /\ rd = "asleep"
    /\ ReadGives(read, stage, ending)

----------------------------------------------------------------------------
(* The task of OverflowCancel, and the drop of the handle. *)

OverflowCancelRegisters ==
    /\ oc = "start"
    /\ oc' = "check" /\ ocReg' = TRUE
    /\ UNCHANGED <<readElse, readVars>>

\* Mutant: the task cancels the goal without an overflow.
CancelsUnchecked ==
    /\ oc = "check"
    /\ oc' = "over" /\ ocReg' = FALSE
    /\ SpawnOwnCancel
    /\ UNCHANGED <<callVars, provVars, pubVars, sinkVars, goneVars, readVars, handle>>

OverflowCancelChecks ==
    /\ oc = "check"
    /\ \/ /\ raised
          /\ oc' = "over" /\ ocReg' = FALSE
          /\ SpawnOwnCancel
       \/ /\ ~raised
          /\ oc' = "wait"
          /\ UNCHANGED <<ocReg, own>>
    /\ UNCHANGED <<callVars, provVars, pubVars, sinkVars, goneVars, readVars, handle>>

OverflowCancelWakes ==
    /\ oc = "wait" /\ ~ocReg
    /\ oc' = "start"
    /\ UNCHANGED <<readElse, readVars, ocReg>>

(* The fields drop in order: the receiver, then OverflowCancel, then the watch. *)
dropElse == <<callVars, provVars, own, pubVars, sink, dlv, raised, gone, readVars>>

DropHandle ==
    /\ handle = "held" /\ rd = "idle"
    /\ handle' = "no_feedback"
    /\ queue' = <<>>
    /\ UNCHANGED <<dropElse, watcher, taskVars>>

\* Mutant: the drop of the handle aborts the task whatever happened.
AbortsAlways == TRUE

AbortsUnraised == ~raised

DropOverflowCancel ==
    /\ handle = "no_feedback"
    /\ handle' = IF oc # "none" /\ AbortsUnraised THEN "aborts" ELSE "no_cancel"
    /\ UNCHANGED <<dropElse, queue, watcher, taskVars>>

AbortOverflowCancel ==
    /\ handle = "aborts"
    /\ handle' = "no_cancel"
    /\ oc' = "over" /\ ocReg' = FALSE
    /\ UNCHANGED <<dropElse, queue, watcher>>

DropProducerWatch ==
    /\ handle = "no_cancel"
    /\ handle' = "dropped"
    /\ watcher' = "over"
    /\ UNCHANGED <<dropElse, queue, taskVars>>

----------------------------------------------------------------------------
(* RunningStackGoal::fetch_end: whatever the result service answers, the goal
   gives no event after it. *)
FetchEnd ==
    /\ handle = "held" /\ rd = "idle" /\ stage = "Result"
    /\ stage' = "Ended"
    /\ UNCHANGED <<readElse, taskVars, rd, reg, woken, read, ending>>

Request ==
    \/ IssueQuery \/ SendFails \/ NotReached \/ DeadlinePasses \/ RepliesClose
    \/ ReceiveAck

Follower == BeginRead \/ ReadIsDropped \/ FetchEnd \/ DropHandle

Reads ==
    \/ PollOverflow \/ CheckRaised \/ TakeMessage \/ WaitForMessage
    \/ PollGone \/ CheckGone \/ Wakes

Drops == DropOverflowCancel \/ AbortOverflowCancel \/ DropProducerWatch

CancelTask == OverflowCancelRegisters \/ OverflowCancelChecks \/ OverflowCancelWakes

Deliveries ==
    \/ DiscardMessage \/ KeepMessage \/ BeginOverflow
    \/ DrainUnread \/ RaiseStores \/ RaiseNotifies

Watch == GoneStores \/ GoneNotifies

Provider ==
    \/ ProviderReceives \/ QueryMisses
    \/ \E r \in Answers : ProviderAnswers(r)
    \/ ProviderPublishes \/ ProviderEnds \/ ProviderDies

Next == Request \/ ReceiveAnswer \/ Follower \/ Reads \/ Drops \/ CancelTask
          \/ Deliveries \/ Watch \/ Provider \/ CancelArrives

Spec == Init /\ [][Next]_vars

----------------------------------------------------------------------------
(* Properties. *)

(* A follower whose stream ended with the end of the goal got every message
   that was published before that end: one that fell behind gets an overflow
   instead, never a stream with a gap (subscription_buffer.rs, deliver, and
   actions.rs, on_next_feedback). *)
NoSilentGap == ending = "closed" => read = pubAtEnd

(* A read in progress comes back once the goal ended or its provider died
   (actions.rs, on_next_feedback: the end is always kept, and the watch stands
   in for the end of a provider that died). *)
ReadsEnd == rd # "idle" /\ (goal = "ended" \/ ~alive) ~> rd = "idle"
=============================================================================
