------------------------- MODULE FollowedGoalProofs -------------------------
(***************************************************************************)
(* Proofs about the client of a goal and its followers, for every bound of *)
(* the buffer, every number of messages and of queries: the types, that a  *)
(* stream which ends with the goal has no gap, and that a followed goal is *)
(* kept.                                                                   *)
(***************************************************************************)
EXTENDS FollowedGoal, TLAPS

-----------------------------------------------------------------------------
(***************************************************************************)
(* The inductive invariant                                                 *)
(***************************************************************************)

\* A provider that did not get the query has no goal; a handle is of an accepted
\* goal, and only then somebody follows it.
CallInv ==
  /\ (req # "received") => (goal = "none")
  /\ (call \in {"idle", "backoff"}) => (req \in {"none", "missed"})
  /\ (call # "held") <=> (handle = "none")
  /\ (mode = "none") <=> (handle = "none")

\* Where the end of the stream is in the buffer, all the messages before it are
\* read or before it in the buffer; and a message in the buffer is not older than
\* the reads let expect.
QueueInv ==
  /\ \A i \in 1 .. Len(queue) :
       IF queue[i] = End
       THEN goal = "ended" /\ sink = "Ended" /\ read + i - 1 = pubAtEnd
       ELSE queue[i] >= read + i
  /\ (sink = "Open") => (Len(queue) <= Bound)
  /\ (dlv = "drain") => (sink = "Overflowed")

\* As long as the sink is open nothing is lost between the provider and the
\* follower: what is read, in the buffer and on the wire is all that was
\* published, and the end on the wire comes after all that it closes.
WireFull ==
  /\ \A k \in 1 .. Len(wire) : (wire[k] = End) => (read + Len(queue) + k - 1 = pubAtEnd)
  /\ \A j \in 1 .. Len(wire) :
       (\A k \in 1 .. j : wire[k] # End) => (wire[j] >= read + Len(queue) + j)
  /\ (alive /\ goal # "ended") => (read + Len(queue) + Len(wire) = pub)
  /\ (alive /\ goal = "ended" /\ mode # "result") => \E k \in 1 .. Len(wire) : wire[k] = End

WireInv ==
  /\ (goal # "ended") => \A k \in 1 .. Len(wire) : wire[k] # End
  /\ (sink = "Open" /\ ~ReaderGone) => WireFull

\* A read runs for the stack goal only, before its stream ended; a stream that is
\* closed was read to its end; and a bridge that reads has not seen the end.
ReadInv ==
  /\ (rd # "idle") => (ending = "none" /\ handle = "held" /\ mode = "stack")
  /\ (ending = "closed") => (goal = "ended" /\ read = pubAtEnd)
  /\ (mode \in {"none", "stack"}) => (br = "none" /\ (stage = "Feedback" => ending = "none"))
  /\ (mode = "none") => (stage = "Feedback")
  /\ (mode \notin {"none", "stack"}) => (wire = <<>>)
  /\ (br \in {"turn", "report"}) => (mode \in {"feedback", "progress"})
  /\ (br \in {"turn", "report", "cancel"} \/ mode = "result") => (ending = "none")

\* The guard of a bridge is armed until the end is read; the client's own cancel
\* has one of its three reasons.
KeepInv ==
  /\ armed => ~endRead
  /\ (br \in Unwaited) => ~armed
  /\ (mode \in {"none", "stack"}) => ~endRead
  /\ (oc # "none") => (call = "held")
  /\ (own # "none") => \/ call \in Failed
                       \/ /\ call = "held"
                          /\ \/ raised /\ oc # "none"
                             \/ br = "over" /\ ~endRead

\* The types by the part of the client that they belong to.
CallTypes ==
  /\ call \in {"idle", "backoff", "held"} \cup Waiting \cup Failed
  /\ attempts \in 0 .. MaxAttempts
  /\ req \in {"none", "flying", "received", "missed"}
  /\ replies \in Seq({"ack"} \cup Answers)
ProviderTypes ==
  /\ goal \in {"none", "deciding", "running", "ended", "refused"}
  /\ own \in {"none", "sent", "arrived"}
StreamTypes ==
  /\ pub \in 0 .. MaxFeedback /\ pubAtEnd \in 0 .. MaxFeedback
  /\ wire \in Seq(0 .. MaxFeedback)
  /\ queue \in Seq(0 .. MaxFeedback) /\ Len(queue) <= Bound + 1
  /\ sink \in {"Open", "Ended", "Overflowed"}
  /\ dlv \in {"idle", "drain", "raise", "notify"}
ReadTypes ==
  /\ rd \in {"idle", "overflow", "checkO", "queue", "gone", "checkG", "asleep"}
  /\ reg \subseteq Sources
  /\ read \in 0 .. MaxFeedback
  /\ stage \in {"Feedback", "Result", "Ended"}
  /\ ending \in {"none", "closed", "overflow", "gone"}
TaskTypes ==
  /\ watcher \in {"watch", "notify", "over"}
  /\ oc \in {"none", "start", "check", "wait", "over"}
  /\ handle \in {"none", "held", "no_feedback", "aborts", "no_cancel", "dropped"}
BridgeTypes ==
  /\ mode \in {"none"} \cup Modes
  /\ br \in {"none", "leaving", "over"} \cup Following \cup Unwaited
  /\ ask \in {"none", "flying", "signalled", "terminal", "unknown", "missed"}
FlagTypes ==
  /\ alive \in BOOLEAN /\ knows \in BOOLEAN
  /\ raised \in BOOLEAN /\ gone \in BOOLEAN /\ woken \in BOOLEAN /\ ocReg \in BOOLEAN
  /\ moves \in BOOLEAN /\ wish \in BOOLEAN /\ stop \in BOOLEAN
  /\ armed \in BOOLEAN /\ endRead \in BOOLEAN /\ cancelSent \in BOOLEAN

Types ==
  /\ CallTypes /\ ProviderTypes /\ StreamTypes /\ ReadTypes /\ TaskTypes /\ BridgeTypes
  /\ FlagTypes

FollowInv == Types /\ CallInv /\ QueueInv /\ WireInv /\ ReadInv /\ KeepInv

\* The parts are the type invariant.
LEMMA TypesAreTypes == Types <=> FollowTypeOK
BY DEF Types, CallTypes, ProviderTypes, StreamTypes, ReadTypes, TaskTypes, BridgeTypes, FlagTypes,
   FollowTypeOK, TypeOK

\* The empty stream has its type.
LEMMA NoMessages ==
  ASSUME NEW S
  PROVE  <<>> \in Seq(S) /\ Len(<<>>) = 0
OBVIOUS

\* What the tail of a sequence is.
LEMMA TailAt ==
  ASSUME NEW S, NEW q \in Seq(S), q # <<>>
  PROVE  /\ Tail(q) \in Seq(S) /\ Len(q) \in Nat \ {0} /\ Len(Tail(q)) = Len(q) - 1
         /\ Head(q) = q[1] /\ Head(q) \in S
         /\ \A i \in 1 .. Len(q) - 1 : Tail(q)[i] = q[i + 1]
OBVIOUS

\* What a sequence with one more element is.
LEMMA AppendAt ==
  ASSUME NEW S, NEW q \in Seq(S), NEW m \in S
  PROVE  /\ Append(q, m) \in Seq(S) /\ Len(q) \in Nat /\ Len(Append(q, m)) = Len(q) + 1
         /\ Append(q, m)[Len(q) + 1] = m
         /\ \A i \in 1 .. Len(q) : Append(q, m)[i] = q[i]
OBVIOUS

\* What a prefix of a sequence is.
LEMMA PrefixAt ==
  ASSUME NEW S, NEW q \in Seq(S), NEW n \in 0 .. Len(q)
  PROVE  /\ SubSeq(q, 1, n) \in Seq(S) /\ Len(SubSeq(q, 1, n)) = n
         /\ \A i \in 1 .. n : SubSeq(q, 1, n)[i] = q[i]
OBVIOUS

LEMMA InitFollow == FollowInit => FollowInv
<1> SUFFICES ASSUME FollowInit
             PROVE  FollowInv
  OBVIOUS
<1>1. CallTypes /\ ProviderTypes /\ StreamTypes /\ ReadTypes /\ TaskTypes /\ BridgeTypes
  BY ClientAssumption DEF ClientAssumption, FollowInit, Init, CallTypes, ProviderTypes, StreamTypes,
     ReadTypes, TaskTypes, BridgeTypes
<1>2. FlagTypes
  BY Zenon DEF FollowInit, Init, FlagTypes
<1>3. CallInv /\ QueueInv /\ WireInv /\ ReadInv /\ KeepInv
  BY ClientAssumption DEF ClientAssumption, FollowInit, Init, CallInv, QueueInv, WireInv, WireFull,
     ReadInv, KeepInv, End
<1> QED BY <1>1, <1>2, <1>3 DEF FollowInv, Types

-----------------------------------------------------------------------------
(***************************************************************************)
(* Messages on their way from the provider to the follower                 *)
(***************************************************************************)

\* What moves of the stream when nothing else does.
elsewhere == <<call, handle, alive, mode, dlv>>

\* Whether the reader is gone depends on the call and on the handle alone.
LEMMA SameReader == UNCHANGED <<call, handle>> => (ReaderGone' = ReaderGone)
BY DEF ReaderGone

\* A message that the follower takes is one of those that were published.
LEMMA ReadOne ==
  ASSUME StreamTypes, ReadTypes, QueueInv, WireInv,
         queue # <<>>, Head(queue) # End, queue' = Tail(queue), read' = read + 1,
         UNCHANGED <<elsewhere, goal, sink, pub, pubAtEnd, wire>>
  PROVE  QueueInv' /\ WireInv' /\ StreamTypes' /\ (read' \in 0 .. MaxFeedback)
<1>1. /\ queue \in Seq(0 .. MaxFeedback) /\ wire \in Seq(0 .. MaxFeedback)
      /\ read \in Nat /\ MaxFeedback \in Nat /\ Bound \in Nat
  BY ClientAssumption DEF ClientAssumption, StreamTypes, ReadTypes
<1>2. /\ queue' \in Seq(0 .. MaxFeedback) /\ Len(queue) \in Nat \ {0} /\ Len(queue') = Len(queue) - 1
      /\ queue[1] # End /\ queue[1] \in 0 .. MaxFeedback
      /\ \A i \in 1 .. Len(queue) - 1 : queue'[i] = queue[i + 1]
  BY <1>1, TailAt
<1>3. queue[1] >= read + 1
  BY <1>2 DEF QueueInv
<1>4. QueueInv'
  <2>1. ASSUME NEW i \in 1 .. Len(queue')
        PROVE  IF queue'[i] = End
               THEN goal' = "ended" /\ sink' = "Ended" /\ read' + i - 1 = pubAtEnd'
               ELSE queue'[i] >= read' + i
    <3>1. i + 1 \in 1 .. Len(queue) /\ queue'[i] = queue[i + 1] /\ i \in Nat
      BY <1>2
    <3>2. IF queue[i + 1] = End
          THEN goal = "ended" /\ sink = "Ended" /\ read + (i + 1) - 1 = pubAtEnd
          ELSE queue[i + 1] >= read + (i + 1)
      BY <3>1 DEF QueueInv
    <3> QED BY <1>1, <3>1, <3>2
  <2> QED BY <1>1, <1>2, <2>1 DEF QueueInv, elsewhere
<1>5. WireInv'
  <2>1. read' + Len(queue') = read + Len(queue)
    BY <1>1, <1>2
  <2>2. ReaderGone' = ReaderGone
    BY SameReader DEF elsewhere
  <2>3. WireFull => WireFull'
    BY <2>1 DEF WireFull, elsewhere
  <2> QED BY <2>2, <2>3 DEF WireInv, elsewhere
<1>6. StreamTypes' /\ (read' \in 0 .. MaxFeedback)
  BY <1>1, <1>2, <1>3 DEF StreamTypes, elsewhere
<1> QED BY <1>4, <1>5, <1>6

\* A message that the sink keeps is the next one of the stream.
LEMMA KeepOne ==
  ASSUME StreamTypes, ReadTypes, QueueInv, WireInv, sink = "Open", ~ReaderGone,
         wire # <<>>, ~Overflows(Head(wire)),
         wire' = Tail(wire), queue' = Append(queue, Head(wire)),
         sink' = IF Head(wire) = End THEN "Ended" ELSE "Open",
         UNCHANGED <<elsewhere, goal, pub, pubAtEnd, read>>
  PROVE  QueueInv' /\ WireInv' /\ StreamTypes'
<1> DEFINE m == Head(wire)
<1>1. /\ queue \in Seq(0 .. MaxFeedback) /\ wire \in Seq(0 .. MaxFeedback)
      /\ read \in Nat /\ MaxFeedback \in Nat /\ Bound \in Nat \ {0} /\ pubAtEnd \in Nat
      /\ Len(queue) \in Nat
  BY ClientAssumption DEF ClientAssumption, StreamTypes, ReadTypes
<1>2. /\ wire' \in Seq(0 .. MaxFeedback) /\ Len(wire) \in Nat \ {0} /\ Len(wire') = Len(wire) - 1
      /\ wire[1] = m /\ m \in 0 .. MaxFeedback
      /\ \A i \in 1 .. Len(wire) - 1 : wire'[i] = wire[i + 1]
  BY <1>1, TailAt
<1>3. /\ queue' \in Seq(0 .. MaxFeedback) /\ Len(queue') = Len(queue) + 1
      /\ queue'[Len(queue) + 1] = m /\ \A i \in 1 .. Len(queue) : queue'[i] = queue[i]
  BY <1>1, <1>2, AppendAt
<1>4. WireFull /\ Len(queue) <= Bound /\ (m # End => Len(queue) < Bound)
  BY <1>1 DEF WireInv, QueueInv, Overflows
<1>5. IF m = End THEN goal = "ended" /\ read + Len(queue) = pubAtEnd ELSE m >= read + Len(queue) + 1
  <2>1. 1 \in 1 .. Len(wire) /\ \A k \in 1 .. 1 : wire[k] = m
    BY <1>2
  <2>2. CASE m = End
    <3>1. goal = "ended" /\ read + Len(queue) + 1 - 1 = pubAtEnd
      BY <1>2, <1>4, <2>1, <2>2 DEF WireFull, WireInv
    <3> QED BY <1>1, <2>2, <3>1
  <2>3. CASE m # End
    <3>1. wire[1] >= read + Len(queue) + 1
      BY <1>4, <2>1, <2>3 DEF WireFull
    <3> QED BY <1>2, <2>3, <3>1
  <2> QED BY <2>2, <2>3
<1>6. QueueInv'
  <2>1. ASSUME NEW i \in 1 .. Len(queue')
        PROVE  IF queue'[i] = End
               THEN goal' = "ended" /\ sink' = "Ended" /\ read' + i - 1 = pubAtEnd'
               ELSE queue'[i] >= read' + i
    <3>1. CASE i \in 1 .. Len(queue)
      BY <1>3, <3>1 DEF QueueInv
    <3>2. CASE i = Len(queue) + 1
      BY <1>1, <1>3, <1>5, <3>2
    <3> QED BY <1>1, <1>3, <3>1, <3>2
  <2>2. (sink' = "Open") => (Len(queue') <= Bound)
    BY <1>1, <1>3, <1>4
  <2> QED BY <2>1, <2>2 DEF QueueInv, elsewhere
<1>7. WireInv'
  <2>1. (goal' # "ended") => \A k \in 1 .. Len(wire') : wire'[k] # End
    BY <1>2 DEF WireInv
  <2>2. ASSUME m # End
        PROVE  WireFull'
    <3>1. read' + Len(queue') = read + Len(queue) + 1
      BY <1>1, <1>3
    <3>2. ASSUME NEW k \in 1 .. Len(wire'), wire'[k] = End
          PROVE  read' + Len(queue') + k - 1 = pubAtEnd'
      <4>1. k + 1 \in 1 .. Len(wire) /\ wire[k + 1] = End /\ k \in Nat
        BY <1>2, <3>2
      <4>2. read + Len(queue) + (k + 1) - 1 = pubAtEnd
        BY <1>4, <4>1 DEF WireFull
      <4>3. read' = read /\ pubAtEnd' = pubAtEnd /\ Len(queue') = Len(queue) + 1
        BY <1>3
      <4>4. read + Len(queue) + (k + 1) - 1 = read + (Len(queue) + 1) + k - 1
        BY <1>1, <4>1
      <4> QED BY <4>2, <4>3, <4>4
    <3>3. ASSUME NEW j \in 1 .. Len(wire'), \A k \in 1 .. j : wire'[k] # End
          PROVE  wire'[j] >= read' + Len(queue') + j
      <4>1. j + 1 \in 1 .. Len(wire) /\ wire[j + 1] = wire'[j] /\ j \in Nat
        BY <1>2
      <4>2. ASSUME NEW k \in 1 .. j + 1
            PROVE  wire[k] # End
        <5>1. CASE k = 1
          BY <1>2, <2>2, <5>1
        <5>2. CASE k # 1
          <6>1. k - 1 \in 1 .. j /\ k - 1 \in 1 .. Len(wire) - 1
            BY <1>2, <4>1, <5>2
          <6>2. wire'[k - 1] = wire[(k - 1) + 1]
            BY <1>2, <6>1
          <6>3. (k - 1) + 1 = k
            OBVIOUS
          <6>4. wire'[k - 1] # End
            BY <3>3, <6>1
          <6> QED BY <6>2, <6>3, <6>4
        <5> QED BY <5>1, <5>2
      <4>3. wire[j + 1] >= read + Len(queue) + (j + 1)
        BY <1>4, <4>1, <4>2 DEF WireFull
      <4> QED BY <1>1, <3>1, <4>1, <4>3
    <3>4. (alive' /\ goal' # "ended") => (read' + Len(queue') + Len(wire') = pub')
      BY <1>1, <1>2, <1>4, <3>1 DEF WireFull, elsewhere
    <3>5. ASSUME alive', goal' = "ended", mode' # "result"
          PROVE  \E k \in 1 .. Len(wire') : wire'[k] = End
      <4>1. PICK k \in 1 .. Len(wire) : wire[k] = End
        BY <1>4, <3>5 DEF WireFull, elsewhere
      <4>2. k - 1 \in 1 .. Len(wire')
        BY <1>2, <2>2, <4>1
      <4>3. wire'[k - 1] = wire[(k - 1) + 1]
        BY <1>2, <4>2
      <4>4. (k - 1) + 1 = k
        OBVIOUS
      <4>5. wire'[k - 1] = End
        BY <4>1, <4>3, <4>4
      <4> QED BY <4>2, <4>5
    <3> QED BY <3>2, <3>3, <3>4, <3>5 DEF WireFull
  <2> QED BY <2>1, <2>2 DEF WireInv
<1>8. StreamTypes'
  BY <1>1, <1>2, <1>3, <1>4 DEF StreamTypes, elsewhere
<1> QED BY <1>6, <1>7, <1>8

\* What the provider publishes comes after all that is on the wire.
LEMMA PublishOne ==
  ASSUME StreamTypes, ReadTypes, WireInv, mode # "result",
         alive, pub < MaxFeedback, pub' = pub + 1, wire' = Append(wire, pub + 1),
         UNCHANGED <<elsewhere, goal, sink, pubAtEnd, queue, read>>
  PROVE  WireInv' /\ StreamTypes'
<1>1. /\ wire \in Seq(0 .. MaxFeedback) /\ read \in Nat /\ pub \in Nat /\ pub + 1 \in 0 .. MaxFeedback
      /\ queue \in Seq(0 .. MaxFeedback) /\ Len(queue) \in Nat /\ pub + 1 # End
  BY ClientAssumption DEF ClientAssumption, StreamTypes, ReadTypes, End
<1>2. /\ wire' \in Seq(0 .. MaxFeedback) /\ Len(wire) \in Nat /\ Len(wire') = Len(wire) + 1
      /\ wire'[Len(wire) + 1] = pub + 1 /\ \A i \in 1 .. Len(wire) : wire'[i] = wire[i]
  BY <1>1, AppendAt
<1>3. \A k \in 1 .. Len(wire') : (wire'[k] = End) => (k \in 1 .. Len(wire) /\ wire[k] = End)
  BY <1>1, <1>2
<1>4. WireInv'
  <2>1. ReaderGone' = ReaderGone
    BY SameReader DEF elsewhere
  <2>2. ASSUME WireFull
        PROVE  WireFull'
    <3>1. \A k \in 1 .. Len(wire') : (wire'[k] = End) => (read' + Len(queue') + k - 1 = pubAtEnd')
      BY <1>3, <2>2 DEF WireFull
    <3>2. ASSUME NEW j \in 1 .. Len(wire'), \A k \in 1 .. j : wire'[k] # End
          PROVE  wire'[j] >= read' + Len(queue') + j
      <4>1. CASE j \in 1 .. Len(wire)
        <5>1. \A k \in 1 .. j : k \in 1 .. Len(wire)
          BY <1>2, <4>1
        <5>2. \A k \in 1 .. j : wire[k] # End
          BY <1>2, <3>2, <5>1
        <5> QED BY <1>2, <2>2, <4>1, <5>2 DEF WireFull
      <4>2. CASE j = Len(wire) + 1
        <5>1. \A k \in 1 .. Len(wire) : k \in 1 .. j /\ wire[k] # End
          BY <1>2, <3>2, <4>2
        <5>2. read + Len(queue) + Len(wire) = pub
          BY <2>2, <5>1 DEF WireFull
        <5> QED BY <1>1, <1>2, <4>2, <5>2
      <4> QED BY <1>2, <4>1, <4>2
    <3>3. (alive' /\ goal' # "ended") => (read' + Len(queue') + Len(wire') = pub')
      <4> SUFFICES ASSUME alive, goal # "ended"
                   PROVE  read' + Len(queue') + Len(wire') = pub'
        BY DEF elsewhere
      <4>1. read + Len(queue) + Len(wire) = pub
        BY <2>2 DEF WireFull
      <4>2. read' = read /\ queue' = queue
        OBVIOUS
      <4> QED BY <1>1, <1>2, <4>1, <4>2
    <3>4. ASSUME goal' = "ended"
          PROVE  \E k \in 1 .. Len(wire') : wire'[k] = End
      <4>1. PICK k \in 1 .. Len(wire) : wire[k] = End
        BY <2>2, <3>4 DEF WireFull
      <4> QED BY <1>2, <4>1
    <3> QED BY <3>1, <3>2, <3>3, <3>4 DEF WireFull
  <2> QED BY <1>3, <2>1, <2>2 DEF WireInv, elsewhere
<1>5. StreamTypes'
  BY <1>1, <1>2 DEF StreamTypes, elsewhere
<1> QED BY <1>4, <1>5

\* The end of a goal comes after all that the goal published.
LEMMA EndOne ==
  ASSUME StreamTypes, ReadTypes, QueueInv, WireInv,
         alive, goal = "running", goal' = "ended", pubAtEnd' = pub, wire' = Append(wire, End),
         UNCHANGED <<elsewhere, sink, pub, queue, read>>
  PROVE  QueueInv' /\ WireInv' /\ StreamTypes'
<1>1. /\ wire \in Seq(0 .. MaxFeedback) /\ read \in Nat /\ pub \in 0 .. MaxFeedback
      /\ queue \in Seq(0 .. MaxFeedback) /\ Len(queue) \in Nat /\ End \in 0 .. MaxFeedback
  BY ClientAssumption DEF ClientAssumption, StreamTypes, ReadTypes, End
<1>2. /\ wire' \in Seq(0 .. MaxFeedback) /\ Len(wire) \in Nat /\ Len(wire') = Len(wire) + 1
      /\ wire'[Len(wire) + 1] = End /\ \A i \in 1 .. Len(wire) : wire'[i] = wire[i]
  BY <1>1, AppendAt
<1>3. QueueInv'
  BY DEF QueueInv, elsewhere
<1>4. \A k \in 1 .. Len(wire') : (wire'[k] = End) => (k = Len(wire) + 1)
  BY <1>1, <1>2 DEF WireInv
<1>5. WireInv'
  <2>1. ReaderGone' = ReaderGone
    BY SameReader DEF elsewhere
  <2>2. ASSUME WireFull
        PROVE  WireFull'
    <3>1. read + Len(queue) + Len(wire) = pub
      BY <2>2 DEF WireFull
    <3>2. ASSUME NEW k \in 1 .. Len(wire'), wire'[k] = End
          PROVE  read' + Len(queue') + k - 1 = pubAtEnd'
      <4>1. k = Len(wire) + 1 /\ read' = read /\ queue' = queue /\ pubAtEnd' = pub
        BY <1>4, <3>2
      <4>2. read + Len(queue) + (Len(wire) + 1) - 1 = read + Len(queue) + Len(wire)
        BY <1>1, <1>2
      <4> QED BY <3>1, <4>1, <4>2
    <3>3. ASSUME NEW j \in 1 .. Len(wire'), \A k \in 1 .. j : wire'[k] # End
          PROVE  wire'[j] >= read' + Len(queue') + j
      <4>1. j \in 1 .. Len(wire) /\ \A k \in 1 .. j : k \in 1 .. Len(wire)
        BY <1>2, <3>3
      <4>2. \A k \in 1 .. j : wire[k] # End
        BY <1>2, <3>3, <4>1
      <4> QED BY <1>2, <2>2, <4>1, <4>2 DEF WireFull
    <3>4. \E k \in 1 .. Len(wire') : wire'[k] = End
      BY <1>2
    <3> QED BY <3>2, <3>3, <3>4 DEF WireFull
  <2> QED BY <2>1, <2>2 DEF WireInv, elsewhere
<1>6. StreamTypes'
  BY <1>1, <1>2 DEF StreamTypes, elsewhere
<1> QED BY <1>3, <1>5, <1>6

\* What a dead provider leaves on the wire is what it put there first.
LEMMA CutWire ==
  ASSUME StreamTypes, ReadTypes, WireInv, NEW n \in 0 .. Len(wire),
         alive' = FALSE, wire' = SubSeq(wire, 1, n),
         UNCHANGED <<call, handle, mode, dlv, goal, sink, pub, pubAtEnd, queue, read>>
  PROVE  WireInv' /\ StreamTypes'
<1>1. /\ wire' \in Seq(0 .. MaxFeedback) /\ Len(wire') = n
      /\ \A i \in 1 .. n : i \in 1 .. Len(wire) /\ wire'[i] = wire[i]
  <2>1. wire \in Seq(0 .. MaxFeedback) /\ Len(wire) \in Nat
    BY DEF StreamTypes
  <2>2. n \in Nat /\ \A i \in 1 .. n : i \in 1 .. Len(wire)
    BY <2>1
  <2>3. /\ SubSeq(wire, 1, n) \in Seq(0 .. MaxFeedback) /\ Len(SubSeq(wire, 1, n)) = n
        /\ \A i \in 1 .. n : SubSeq(wire, 1, n)[i] = wire[i]
    BY <2>1, PrefixAt
  <2> QED BY <2>2, <2>3
<1>2. WireInv'
  <2>1. ReaderGone' = ReaderGone
    BY SameReader
  <2>2. ASSUME WireFull
        PROVE  WireFull'
    <3>1. ASSUME NEW j \in 1 .. Len(wire'), \A k \in 1 .. j : wire'[k] # End
          PROVE  wire'[j] >= read' + Len(queue') + j
      <4>1. \A k \in 1 .. j : k \in 1 .. n
        BY <1>1
      <4>2. \A k \in 1 .. j : wire[k] # End
        BY <1>1, <3>1, <4>1
      <4> QED BY <1>1, <2>2, <4>2 DEF WireFull
    <3>2. \A k \in 1 .. Len(wire') : (wire'[k] = End) => (read' + Len(queue') + k - 1 = pubAtEnd')
      BY <1>1, <2>2 DEF WireFull
    <3> QED BY <3>1, <3>2 DEF WireFull
  <2> QED BY <1>1, <2>1, <2>2 DEF WireInv
<1>3. StreamTypes'
  BY <1>1 DEF StreamTypes
<1> QED BY <1>2, <1>3

\* Under the bridge a message goes to the buffer as it is published, or overflows it.
LEMMA PublishNow ==
  ASSUME StreamTypes, ReadTypes, QueueInv, WireInv, ReadInv, Publishes
  PROVE  QueueInv' /\ WireInv' /\ StreamTypes'
<1>1. /\ wire = <<>> /\ sink = "Open" /\ ~ReaderGone /\ alive /\ goal # "none"
      /\ mode \in {"feedback", "progress"} /\ pub < MaxFeedback /\ pub' = pub + 1
      /\ UNCHANGED <<call, handle, alive, mode, goal, pubAtEnd, wire, dlv, read>>
  BY DEF Publishes, ReadInv, handleElse, callVars, provVars, bridgeVars
<1>2. /\ read \in Nat /\ pub \in Nat /\ pub + 1 \in 0 .. MaxFeedback /\ pub + 1 # End
      /\ queue \in Seq(0 .. MaxFeedback) /\ Len(queue) \in Nat /\ Len(wire) = 0
      /\ Bound \in Nat
  BY <1>1, ClientAssumption DEF ClientAssumption, StreamTypes, ReadTypes, End
<1>3. WireFull /\ ReaderGone' = ReaderGone
  BY <1>1, SameReader DEF WireInv
<1>4. goal # "ended" /\ read + Len(queue) = pub
  BY <1>1, <1>2, <1>3 DEF WireFull
<1>5. CASE Overflows(pub + 1)
  <2>1. sink' = "Overflowed" /\ queue' = <<>>
    BY <1>5 DEF Publishes
  <2> QED BY <1>1, <1>2, <2>1 DEF QueueInv, WireInv, StreamTypes
<1>6. CASE ~Overflows(pub + 1)
  <2>1. sink' = sink /\ queue' = Append(queue, pub + 1) /\ Len(queue) < Bound
    BY <1>2, <1>6 DEF Publishes, Overflows
  <2>2. /\ queue' \in Seq(0 .. MaxFeedback) /\ Len(queue') = Len(queue) + 1
        /\ queue'[Len(queue) + 1] = pub + 1 /\ \A i \in 1 .. Len(queue) : queue'[i] = queue[i]
    BY <1>2, <2>1, AppendAt
  <2>3. ASSUME NEW i \in 1 .. Len(queue')
        PROVE  queue'[i] # End /\ queue'[i] >= read' + i
    <3>1. CASE i \in 1 .. Len(queue)
      BY <1>1, <2>2, <3>1 DEF QueueInv
    <3>2. CASE i = Len(queue) + 1
      BY <1>1, <1>2, <1>4, <2>2, <3>2
    <3> QED BY <1>2, <2>2, <3>1, <3>2
  <2>4. QueueInv'
    BY <1>1, <1>2, <2>1, <2>2, <2>3 DEF QueueInv
  <2>5. WireFull'
    BY <1>1, <1>2, <1>4, <2>2 DEF WireFull
  <2> QED BY <1>1, <1>2, <2>1, <2>2, <2>4, <2>5 DEF WireInv, StreamTypes
<1> QED BY <1>5, <1>6

\* Under the bridge the end of the goal goes to the buffer at once.
LEMMA EndNow ==
  ASSUME StreamTypes, ReadTypes, QueueInv, WireInv, ReadInv, Ends
  PROVE  QueueInv' /\ WireInv' /\ StreamTypes'
<1>1. /\ wire = <<>> /\ alive /\ goal = "running" /\ goal' = "ended" /\ pubAtEnd' = pub
      /\ mode \notin {"none", "stack"}
      /\ UNCHANGED <<call, handle, alive, mode, pub, wire, dlv, read>>
  BY DEF Ends, ReadInv, handleElse, callVars, provVars, bridgeVars
<1>2. /\ read \in Nat /\ pub \in 0 .. MaxFeedback /\ pub \in Nat
      /\ queue \in Seq(0 .. MaxFeedback) /\ Len(queue) \in Nat /\ Len(wire) = 0
      /\ Bound \in Nat /\ End \in 0 .. MaxFeedback
  BY <1>1, ClientAssumption DEF ClientAssumption, StreamTypes, ReadTypes, End
<1>3. ReaderGone' = ReaderGone
  BY <1>1, SameReader
<1>4. CASE sink = "Open" /\ ~ReaderGone /\ mode # "result"
  <2>1. sink' = "Ended" /\ queue' = Append(queue, End)
    BY <1>4 DEF Ends
  <2>2. read + Len(queue) = pub /\ Len(queue) <= Bound
    BY <1>1, <1>2, <1>4 DEF WireInv, WireFull, QueueInv
  <2>3. /\ queue' \in Seq(0 .. MaxFeedback) /\ Len(queue') = Len(queue) + 1
        /\ queue'[Len(queue) + 1] = End /\ \A i \in 1 .. Len(queue) : queue'[i] = queue[i]
    BY <1>2, <2>1, AppendAt
  <2>4. ASSUME NEW i \in 1 .. Len(queue')
        PROVE  IF queue'[i] = End
               THEN goal' = "ended" /\ sink' = "Ended" /\ read' + i - 1 = pubAtEnd'
               ELSE queue'[i] >= read' + i
    <3>1. CASE i \in 1 .. Len(queue)
      BY <1>1, <2>3, <3>1 DEF QueueInv
    <3>2. CASE i = Len(queue) + 1
      BY <1>1, <1>2, <2>1, <2>2, <2>3, <3>2
    <3> QED BY <1>2, <2>3, <3>1, <3>2
  <2>5. QueueInv'
    BY <1>1, <1>4, <2>1, <2>4 DEF QueueInv
  <2> QED BY <1>1, <1>2, <2>1, <2>2, <2>3, <2>5 DEF WireInv, StreamTypes
<1>5. CASE ~(sink = "Open" /\ ~ReaderGone /\ mode # "result")
  <2>1. UNCHANGED <<sink, queue>>
    BY <1>5 DEF Ends
  <2>2. QueueInv'
    BY <1>1, <2>1 DEF QueueInv
  <2>3. WireInv'
    BY <1>1, <1>2, <1>3, <1>5, <2>1 DEF WireInv, WireFull
  <2> QED BY <1>1, <1>2, <2>1, <2>2, <2>3 DEF StreamTypes
<1> QED BY <1>4, <1>5

\* A message that is discarded leaves a stream that is lost already.
LEMMA DropOne ==
  ASSUME StreamTypes, ReadTypes, QueueInv, WireInv,
         wire # <<>>, wire' = Tail(wire), sink # "Open" \/ ReaderGone,
         UNCHANGED <<elsewhere, goal, sink, pub, pubAtEnd, queue, read>>
  PROVE  QueueInv' /\ WireInv' /\ StreamTypes' /\ (read' \in 0 .. MaxFeedback)
<1>1. /\ wire' \in Seq(0 .. MaxFeedback) /\ Len(wire) \in Nat \ {0} /\ Len(wire') = Len(wire) - 1
      /\ \A i \in 1 .. Len(wire) - 1 : wire'[i] = wire[i + 1]
  <2>1. wire \in Seq(0 .. MaxFeedback)
    BY DEF StreamTypes
  <2> QED BY <2>1, TailAt
<1>2. ReaderGone' = ReaderGone
  BY SameReader DEF elsewhere
<1>3. WireInv'
  BY <1>1, <1>2 DEF WireInv, elsewhere
<1> QED BY <1>1, <1>3 DEF QueueInv, StreamTypes, ReadTypes, elsewhere

\* A message that overflows the buffer ends the stream in an overflow.
LEMMA OverflowOne ==
  ASSUME StreamTypes, ReadTypes, QueueInv, WireInv,
         wire # <<>>, wire' = Tail(wire), sink = "Open", sink' = "Overflowed", dlv' = "drain",
         UNCHANGED <<call, handle, goal, pub, pubAtEnd, queue, read>>
  PROVE  QueueInv' /\ WireInv' /\ StreamTypes' /\ (read' \in 0 .. MaxFeedback)
<1>1. /\ wire' \in Seq(0 .. MaxFeedback) /\ Len(wire) \in Nat \ {0} /\ Len(wire') = Len(wire) - 1
      /\ \A i \in 1 .. Len(wire) - 1 : wire'[i] = wire[i + 1]
  <2>1. wire \in Seq(0 .. MaxFeedback)
    BY DEF StreamTypes
  <2> QED BY <2>1, TailAt
<1>2. WireInv'
  BY <1>1 DEF WireInv
<1>3. QueueInv'
  BY DEF QueueInv
<1> QED BY <1>1, <1>2, <1>3 DEF StreamTypes, ReadTypes

\* The follower takes the end of the stream after all that it closes.
LEMMA TakeEnd ==
  ASSUME StreamTypes, ReadTypes, QueueInv, WireInv,
         queue # <<>>, Head(queue) = End, queue' = Tail(queue),
         UNCHANGED <<elsewhere, goal, sink, pub, pubAtEnd, wire, read>>
  PROVE  /\ QueueInv' /\ WireInv' /\ StreamTypes' /\ (read' \in 0 .. MaxFeedback)
         /\ goal = "ended" /\ read = pubAtEnd
<1>1. /\ queue \in Seq(0 .. MaxFeedback) /\ read \in Nat /\ pubAtEnd \in Nat /\ Bound \in Nat
      /\ MaxFeedback \in Nat
  BY ClientAssumption DEF ClientAssumption, StreamTypes, ReadTypes
<1>2. /\ queue' \in Seq(0 .. MaxFeedback) /\ Len(queue) \in Nat \ {0} /\ Len(queue') = Len(queue) - 1
      /\ queue[1] = End
      /\ \A i \in 1 .. Len(queue) - 1 : queue'[i] = queue[i + 1]
  BY <1>1, TailAt
<1>3. goal = "ended" /\ sink = "Ended" /\ read = pubAtEnd
  <2>1. goal = "ended" /\ sink = "Ended" /\ read + 1 - 1 = pubAtEnd
    BY <1>2 DEF QueueInv
  <2> QED BY <1>1, <2>1
<1>4. ASSUME NEW i \in 1 .. Len(queue')
      PROVE  queue'[i] # End /\ queue'[i] >= read' + i
  <2>1. i + 1 \in 1 .. Len(queue) /\ queue'[i] = queue[i + 1] /\ i \in Nat \ {0}
    BY <1>2
  <2>2. queue[i + 1] # End => queue[i + 1] >= read + (i + 1)
    BY <2>1 DEF QueueInv
  <2>3. queue[i + 1] = End => read + (i + 1) - 1 = pubAtEnd
    BY <2>1 DEF QueueInv
  <2>4. read + (i + 1) - 1 # read
    BY <1>1, <2>1
  <2>5. queue[i + 1] \in Nat
    BY <1>1, <2>1
  <2>6. queue[i + 1] # End
    BY <1>3, <2>3, <2>4
  <2>7. queue[i + 1] >= read + i
    BY <1>1, <2>1, <2>2, <2>5, <2>6
  <2> QED BY <2>1, <2>6, <2>7
<1>5. QueueInv'
  BY <1>3, <1>4 DEF QueueInv, elsewhere
<1>6. WireInv'
  BY <1>3 DEF WireInv, elsewhere
<1> QED BY <1>1, <1>2, <1>3, <1>5, <1>6 DEF StreamTypes, ReadTypes, elsewhere

\* The end in the buffer is the end of the goal, after all that the goal published.
LEMMA EndInBuffer ==
  ASSUME StreamTypes, ReadTypes, QueueInv, queue # <<>>, Head(queue) = End
  PROVE  goal = "ended" /\ read = pubAtEnd
<1>1. queue \in Seq(0 .. MaxFeedback) /\ read \in Nat
  BY ClientAssumption DEF ClientAssumption, StreamTypes, ReadTypes
<1>2. 1 \in 1 .. Len(queue) /\ queue[1] = End
  BY <1>1
<1>3. goal = "ended" /\ read + 1 - 1 = pubAtEnd
  BY <1>2 DEF QueueInv
<1> QED BY <1>1, <1>3

\* What leaves the stream alone, or drops the buffer of a reader that is gone.
StreamStill ==
  /\ UNCHANGED <<sink, pub, pubAtEnd, wire, read, alive>>
  /\ (goal' = goal) \/ (goal # "ended" /\ goal' # "ended")
  /\ (dlv' = dlv) \/ (dlv' \in {"idle", "raise", "notify"})
  /\ (mode = "result") => (mode' = "result")
  /\ (queue' = queue) \/ (queue' = <<>> /\ (ReaderGone' \/ sink = "Overflowed"))
  /\ ReaderGone => ReaderGone'

LEMMA StillStream ==
  ASSUME StreamTypes, ReadTypes, QueueInv, WireInv, StreamStill
  PROVE  QueueInv' /\ WireInv' /\ StreamTypes' /\ (read' \in 0 .. MaxFeedback)
<1>1. Bound \in Nat
  BY ClientAssumption DEF ClientAssumption
<1>2. CASE queue' = queue
  <2>1. QueueInv'
    BY <1>2 DEF QueueInv, StreamStill
  <2>2. WireFull => WireFull'
    BY <1>2 DEF WireFull, StreamStill
  <2>3. WireInv'
    BY <2>2 DEF WireInv, StreamStill
  <2> QED BY <1>2, <2>1, <2>3 DEF StreamStill, StreamTypes, ReadTypes
<1>3. CASE queue' = <<>> /\ (ReaderGone' \/ sink = "Overflowed")
  <2>1. Len(queue') = 0 /\ queue' \in Seq(0 .. MaxFeedback)
    BY <1>3
  <2>2. QueueInv'
    BY <1>1, <1>3, <2>1 DEF QueueInv, StreamStill
  <2>3. WireInv'
    BY <1>3 DEF WireInv, StreamStill
  <2> QED BY <1>1, <2>1, <2>2, <2>3 DEF StreamStill, StreamTypes, ReadTypes
<1> QED BY <1>2, <1>3 DEF StreamStill

\* Every step keeps what is known of the stream.
LEMMA StreamStep ==
  ASSUME Types, CallInv, QueueInv, WireInv, ReadInv, [FollowNext]_followVars
  PROVE  QueueInv' /\ WireInv' /\ StreamTypes' /\ (read' \in 0 .. MaxFeedback)
<1>1. StreamTypes /\ ReadTypes
  BY DEF Types
<1>2. CASE UNCHANGED followVars
  <2>1. StreamStill
    BY <1>2 DEF StreamStill, ReaderGone, followVars, vars, bridgeVars, callVars, provVars,
       pubVars, sinkVars, readVars
  <2> QED BY <1>1, <2>1, StillStream
<1>3. CASE Admitted
  <2>1. StreamStill
    BY <1>3 DEF StreamStill, ReaderGone, CallInv, Failed, Admitted, ReceiveAnswer, Waiting,
       provVars, pubVars, sinkVars, readVars, NoOwnCancel, FailCall, CancelUnread, SpawnOwnCancel,
       RequestMayHaveStartedAGoal
  <2> QED BY <1>1, <2>1, StillStream
<1>4. CASE StackGoal
  <2>1. StreamStill
    BY <1>4 DEF StreamStill, ReaderGone, StackGoal, Alone, Follower, bridgeVars, BeginRead,
       ReadIsDropped, FetchEnd, DropHandle, FollowFeedback, readElse, ReadGives, dropElse,
       callVars, provVars, pubVars, sinkVars, readVars
  <2> QED BY <1>1, <2>1, StillStream
<1>5. CASE Bridge
  <2>1. CASE NextFeedbackStep /\ ReadsMessage
    <3>1. /\ queue # <<>> /\ Head(queue) # End /\ queue' = Tail(queue) /\ read' = read + 1
          /\ UNCHANGED <<elsewhere, goal, sink, pub, pubAtEnd, wire>>
      BY <2>1 DEF elsewhere, NextFeedbackStep, ReadsMessage, ReadsLast, FollowFeedback, callVars,
         provVars, pubVars, Surroundings
    <3> QED BY <1>1, <3>1, ReadOne
  <2>2. CASE NextFeedbackStep /\ \E e \in {"closed", "gone", "overflow"} : ReadsLast(e)
    <3>1. StreamStill
      BY <2>2 DEF StreamStill, ReaderGone, NextFeedbackStep, ReadsMessage, ReadsLast,
         FollowFeedback, callVars, provVars, pubVars, Surroundings
    <3> QED BY <1>1, <3>1, StillStream
  <2>3. CASE Bridge /\ ~NextFeedbackStep
    <3>1. StreamStill
      BY <2>3 DEF StreamStill, ReaderGone, Bridge, FirstRead, SendsCancel, CancelReturns,
         ResultRead, ResultFails, HandleDrops, GuardDrops, UnwaitedEnds, MustStop,
         HaltCancelReturns, FollowFeedback, readElse, readVars, bridgeVars, vars, Surroundings,
         Leave, handleElse, provVars, pubVars, SpawnOwnCancel, NoOwnCancel, callVars, sinkVars
    <3> QED BY <1>1, <3>1, StillStream
  <2> QED BY <1>5, <2>1, <2>2, <2>3 DEF NextFeedbackStep
<1>6. CASE ReportTaken \/ Expires \/ GoesSilent \/ FutureIsDropped \/ AskArrives \/ AskIsLost
           \/ ClientCancels \/ ViewChanges \/ Latches \/ OverflowCancelFires
  <2>1. StreamStill
    BY <1>6 DEF StreamStill, ReaderGone, ReportTaken, Expires, GoesSilent, FutureIsDropped,
       AskArrives, AskIsLost, ClientCancels, ViewChanges, Latches, OverflowCancelFires, vars,
       Surroundings, Leave, Following, callVars, pubVars, sinkVars, readVars, Unwaited,
       handleElse, provVars, SpawnOwnCancel, bridgeVars
  <2> QED BY <1>1, <2>1, StillStream
<1>7. CASE Publishes
  <2>1. read' = read
    BY <1>7 DEF Publishes, handleElse, provVars, callVars, bridgeVars
  <2> QED BY <1>1, <1>7, <2>1, PublishNow DEF ReadTypes
<1>8. CASE Ends
  <2>1. read' = read
    BY <1>8 DEF Ends, handleElse, callVars, bridgeVars
  <2> QED BY <1>1, <1>8, <2>1, EndNow DEF ReadTypes
<1>9. CASE SmallStep(Request)
  <2>1. StreamStill
    BY <1>9 DEF StreamStill, ReaderGone, Failed, Request, SmallStep, Alone, bridgeVars,
       IssueQuery, SendFails, NotReached, DeadlinePasses, RepliesClose, ReceiveAck, provVars,
       pubVars, sinkVars, readVars, CancelUnread, FailCall, Waiting, RequestMayHaveStartedAGoal,
       SpawnOwnCancel, NoOwnCancel
  <2> QED BY <1>1, <2>1, StillStream
<1>10. CASE Alone(ProviderDies)
  <2>1. PICK n \in 0 .. Len(wire) :
          /\ alive' = FALSE /\ wire' = SubSeq(wire, 1, n)
          /\ UNCHANGED <<call, handle, mode, dlv, goal, sink, pub, pubAtEnd, queue, read>>
    BY <1>10 DEF ProviderDies, Alone, bridgeVars, callVars, sinkVars, readVars
  <2>2. QueueInv' /\ (read' \in 0 .. MaxFeedback)
    BY <1>1, <2>1 DEF QueueInv, ReadTypes
  <2> QED BY <1>1, <2>1, <2>2, CutWire
<1>11. CASE SmallStep(Provider)
  <2>1. mode # "result" /\ mode' = mode
    BY <1>11 DEF SmallStep, Alone, bridgeVars
  <2>2. CASE ProviderReceives \/ QueryMisses \/ \E r \in Answers : ProviderAnswers(r)
    <3>1. StreamStill
      BY <2>1, <2>2 DEF StreamStill, ReaderGone, CallInv, ProviderReceives, QueryMisses,
         ProviderAnswers, Reply, pubVars, sinkVars, readVars, provVars, Waiting
    <3> QED BY <1>1, <3>1, StillStream
  <2>3. CASE ProviderPublishes
    <3>1. /\ alive /\ pub < MaxFeedback /\ pub' = pub + 1 /\ wire' = Append(wire, pub + 1)
          /\ UNCHANGED <<elsewhere, goal, sink, pubAtEnd, queue, read>>
      BY <2>1, <2>3 DEF elsewhere, ProviderPublishes, callVars, provVars, sinkVars, readVars
    <3>2. QueueInv' /\ (read' \in 0 .. MaxFeedback)
      BY <1>1, <3>1 DEF QueueInv, ReadTypes, elsewhere
    <3> QED BY <1>1, <2>1, <3>1, <3>2, PublishOne
  <2>4. CASE ProviderEnds
    <3>1. /\ alive /\ goal = "running" /\ goal' = "ended" /\ pubAtEnd' = pub
          /\ wire' = Append(wire, End) /\ UNCHANGED <<elsewhere, sink, pub, queue, read>>
      BY <2>1, <2>4 DEF elsewhere, ProviderEnds, callVars, sinkVars, readVars
    <3> QED BY <1>1, <3>1, EndOne DEF ReadTypes
  <2> QED BY <1>11, <1>10, <2>2, <2>3, <2>4 DEF SmallStep, Alone, Provider
<1>12. CASE SmallStep(Reads)
  <2>1. UNCHANGED bridgeVars
    BY <1>12 DEF SmallStep, Alone
  <2>2. CASE TakeMessage /\ Head(queue) # End
    <3>1. /\ queue # <<>> /\ Head(queue) # End /\ queue' = Tail(queue) /\ read' = read + 1
          /\ UNCHANGED <<elsewhere, goal, sink, pub, pubAtEnd, wire>>
      BY <2>1, <2>2 DEF elsewhere, TakeMessage, bridgeVars, callVars, provVars, pubVars
    <3> QED BY <1>1, <3>1, ReadOne
  <2>3. CASE TakeMessage /\ Head(queue) = End
    <3>1. /\ queue # <<>> /\ queue' = Tail(queue)
          /\ UNCHANGED <<elsewhere, goal, sink, pub, pubAtEnd, wire, read>>
      BY <2>1, <2>3 DEF elsewhere, TakeMessage, bridgeVars, callVars, provVars, pubVars
    <3> QED BY <1>1, <2>3, <3>1, TakeEnd
  <2>4. CASE ~TakeMessage
    <3>1. StreamStill
      BY <1>12, <2>4 DEF StreamStill, ReaderGone, Reads, PollOverflow, CheckRaised,
         WaitForMessage, PollGone, CheckGone, Wakes, SmallStep, Alone, bridgeVars, GoesTo,
         ReadGives, GoneSeen, readElse, callVars, provVars, pubVars, sinkVars
    <3> QED BY <1>1, <3>1, StillStream
  <2> QED BY <2>2, <2>3, <2>4
<1>13. CASE SmallStep(Drops) \/ SmallStep(CancelTask) \/ SmallStep(Watch) \/ Alone(CancelArrives)
  <2>1. StreamStill
    BY <1>13 DEF StreamStill, ReaderGone, Drops, CancelTask, Watch, CancelArrives, SmallStep,
       Alone, bridgeVars, DropOverflowCancel, AbortOverflowCancel, DropProducerWatch,
       OverflowCancelRegisters, OverflowCancelChecks, OverflowCancelWakes, GoneStores,
       GoneNotifies, callVars, pubVars, sinkVars, readVars, AbortsUnraised, dropElse, readElse,
       SpawnOwnCancel, provVars
  <2> QED BY <1>1, <2>1, StillStream
<1>14. CASE SmallStep(Deliveries)
  <2>1. UNCHANGED bridgeVars
    BY <1>14 DEF SmallStep, Alone
  <2>2. CASE DiscardMessage
    <3>1. /\ wire # <<>> /\ wire' = Tail(wire) /\ (sink # "Open" \/ ReaderGone)
          /\ UNCHANGED <<elsewhere, goal, sink, pub, pubAtEnd, queue, read>>
      BY <2>1, <2>2 DEF elsewhere, DiscardMessage, bridgeVars, Arrives, sinkVars, readVars,
         callVars, provVars
    <3> QED BY <1>1, <3>1, DropOne
  <2>3. CASE KeepMessage
    <3>1. /\ sink = "Open" /\ ~ReaderGone /\ wire # <<>> /\ ~Overflows(Head(wire))
          /\ wire' = Tail(wire) /\ queue' = Append(queue, Head(wire))
          /\ sink' = IF Head(wire) = End THEN "Ended" ELSE "Open"
          /\ UNCHANGED <<elsewhere, goal, pub, pubAtEnd, read>>
      BY <2>1, <2>3 DEF elsewhere, KeepMessage, bridgeVars, Arrives, Push, callVars, provVars
    <3> QED BY <1>1, <3>1, KeepOne DEF ReadTypes
  <2>4. CASE BeginOverflow
    <3>1. /\ wire # <<>> /\ wire' = Tail(wire) /\ sink = "Open" /\ sink' = "Overflowed"
          /\ dlv' = "drain" /\ UNCHANGED <<call, handle, goal, pub, pubAtEnd, queue, read>>
      BY <2>4 DEF BeginOverflow, Arrives, readVars, callVars, provVars
    <3> QED BY <1>1, <3>1, OverflowOne
  <2>5. CASE DrainUnread \/ RaiseStores \/ RaiseNotifies
    <3>1. StreamStill
      BY <2>1, <2>5 DEF StreamStill, ReaderGone, QueueInv, DrainUnread, RaiseStores,
         RaiseNotifies, bridgeVars, callVars, provVars, pubVars, readVars
    <3> QED BY <1>1, <3>1, StillStream
  <2> QED BY <1>14, <2>2, <2>3, <2>4, <2>5 DEF SmallStep, Alone, Deliveries
<1> QED BY <1>2, <1>3, <1>4, <1>5, <1>6, <1>7, <1>8, <1>9, <1>10, <1>11, <1>12, <1>13, <1>14
    DEF FollowNext

-----------------------------------------------------------------------------
(***************************************************************************)
(* The steps, one conjunct of the invariant at a time                      *)
(***************************************************************************)

\* The call keeps its types.
LEMMA CallTypesStep ==
  ASSUME Types, [FollowNext]_followVars
  PROVE  CallTypes'
<1>1. CASE UNCHANGED followVars
  BY <1>1, ClientAssumption DEF ClientAssumption, Types, CallTypes, followVars, vars, callVars
<1>2. CASE Admitted
  <2>1. replies # <<>> /\ replies' = Tail(replies) /\ attempts' = 0 /\ req' = req
    BY <1>2 DEF Admitted, ReceiveAnswer
  <2>2. call' \in {"held"} \cup Failed
    BY <1>2 DEF Admitted, Failed, ReceiveAnswer, NoOwnCancel, FailCall, CancelUnread,
       SpawnOwnCancel, RequestMayHaveStartedAGoal
  <2>3. replies' \in Seq({"ack"} \cup Answers)
    BY <2>1, TailAt DEF Types, CallTypes
  <2> QED BY <2>1, <2>2, <2>3, ClientAssumption DEF ClientAssumption, Types, CallTypes
<1>3. CASE StackGoal
  BY <1>3, ClientAssumption DEF ClientAssumption, Types, CallTypes, StackGoal, Alone, Follower,
     BeginRead, ReadIsDropped, FetchEnd, DropHandle, FollowFeedback, readElse, ReadGives,
     dropElse, callVars
<1>4. CASE Bridge
  BY <1>4, ClientAssumption DEF ClientAssumption, Types, CallTypes, Bridge, FirstRead,
     NextFeedbackStep, SendsCancel, CancelReturns, ResultRead, ResultFails, HandleDrops,
     GuardDrops, UnwaitedEnds, MustStop, HaltCancelReturns, FollowFeedback, readElse,
     ReadsMessage, ReadsLast, callVars, vars, Leave, handleElse, SpawnOwnCancel, NoOwnCancel, End
<1>5. CASE ReportTaken \/ Expires \/ GoesSilent \/ FutureIsDropped
  BY <1>5, ClientAssumption DEF ClientAssumption, Types, CallTypes, ReportTaken, Expires,
     GoesSilent, FutureIsDropped, vars, Leave, Following, callVars
<1>6. CASE AskArrives \/ AskIsLost \/ ClientCancels \/ ViewChanges
  BY <1>6, ClientAssumption DEF ClientAssumption, Types, CallTypes, AskArrives, AskIsLost,
     ClientCancels, ViewChanges, callVars, vars, Following, Unwaited
<1>7. CASE Publishes \/ Ends \/ Latches \/ OverflowCancelFires
  BY <1>7, ClientAssumption DEF ClientAssumption, Types, CallTypes, Publishes, Ends, Latches,
     OverflowCancelFires, ReaderGone, Overflows, handleElse, End, SpawnOwnCancel, Failed, callVars
<1>8. CASE SmallStep(Request)
  <2>1. CASE IssueQuery
    BY <2>1, ClientAssumption DEF ClientAssumption, Types, CallTypes, Failed, Waiting,
       IssueQuery
  <2>2. CASE SendFails
    BY <2>2, ClientAssumption DEF ClientAssumption, Types, CallTypes, Failed, Waiting,
       SendFails, CancelUnread, FailCall, RequestMayHaveStartedAGoal, SpawnOwnCancel, NoOwnCancel
  <2>3. CASE NotReached
    BY <2>3, ClientAssumption DEF ClientAssumption, Types, CallTypes, Failed, Waiting,
       NotReached
  <2>4. CASE DeadlinePasses
    BY <2>4, ClientAssumption DEF ClientAssumption, Types, CallTypes, Failed, Waiting,
       DeadlinePasses, CancelUnread, FailCall, RequestMayHaveStartedAGoal, SpawnOwnCancel,
       NoOwnCancel
  <2>5. CASE RepliesClose
    BY <2>5, ClientAssumption DEF ClientAssumption, Types, CallTypes, Failed, Waiting,
       RepliesClose, CancelUnread, FailCall, RequestMayHaveStartedAGoal, SpawnOwnCancel,
       NoOwnCancel
  <2>6. CASE ReceiveAck
    BY <2>6, ClientAssumption DEF ClientAssumption, Types, CallTypes, Failed, Waiting,
       ReceiveAck
  <2> QED BY <1>8, <2>1, <2>2, <2>3, <2>4, <2>5, <2>6 DEF SmallStep, Alone, Request
<1>9. CASE SmallStep(Provider) \/ Alone(ProviderDies)
  BY <1>9, ClientAssumption DEF ClientAssumption, Types, CallTypes, SmallStep, Provider, Alone,
     ProviderReceives, QueryMisses, Answers, ProviderAnswers, ProviderPublishes, ProviderEnds,
     ProviderDies, Reply, ReaderGone, callVars, End, Waiting, Failed
<1>10. CASE SmallStep(Reads)
  BY <1>10, ClientAssumption DEF ClientAssumption, Types, CallTypes, SmallStep, Reads, Alone,
     PollOverflow, CheckRaised, TakeMessage, WaitForMessage, PollGone, CheckGone, Wakes, GoesTo,
     ReadGives, End, callVars, GoneSeen, readElse
<1>11. CASE SmallStep(Drops) \/ SmallStep(CancelTask)
  BY <1>11, ClientAssumption DEF ClientAssumption, Types, CallTypes, SmallStep, Drops, CancelTask,
     Alone, DropOverflowCancel, AbortOverflowCancel, DropProducerWatch, OverflowCancelRegisters,
     OverflowCancelChecks, OverflowCancelWakes, AbortsUnraised, dropElse, readElse,
     SpawnOwnCancel, callVars
<1>12. CASE SmallStep(Deliveries)
  BY <1>12, ClientAssumption DEF ClientAssumption, Types, CallTypes, SmallStep, Deliveries, Alone,
     DiscardMessage, KeepMessage, BeginOverflow, DrainUnread, RaiseStores, RaiseNotifies, Arrives,
     ReaderGone, Overflows, End, Push, callVars, Failed
<1>13. CASE SmallStep(Watch) \/ Alone(CancelArrives)
  BY <1>13, ClientAssumption DEF ClientAssumption, Types, CallTypes, SmallStep, Watch,
     CancelArrives, Alone, GoneStores, GoneNotifies, callVars
<1> QED BY <1>1, <1>2, <1>3, <1>4, <1>5, <1>6, <1>7, <1>8, <1>9, <1>10, <1>11, <1>12, <1>13
    DEF FollowNext

\* The goal and the client's own cancel keep their types.
LEMMA ProviderTypesStep ==
  ASSUME Types, [FollowNext]_followVars
  PROVE  ProviderTypes'
<1>1. CASE UNCHANGED followVars
  BY <1>1 DEF Types, ProviderTypes, followVars, vars, provVars
<1>2. CASE Admitted
  BY <1>2 DEF Types, ProviderTypes, Admitted, ReceiveAnswer, Modes, Waiting, provVars,
     NoOwnCancel, FailCall, CancelUnread, SpawnOwnCancel, RequestMayHaveStartedAGoal
<1>3. CASE StackGoal
  BY <1>3 DEF Types, ProviderTypes, StackGoal, Alone, Follower, BeginRead, ReadIsDropped,
     FetchEnd, DropHandle, FollowFeedback, readElse, ReadGives, dropElse, provVars
<1>4. CASE Bridge
  BY <1>4 DEF Types, ProviderTypes, Bridge, FirstRead, NextFeedbackStep, SendsCancel,
     CancelReturns, ResultRead, ResultFails, HandleDrops, GuardDrops, UnwaitedEnds, MustStop,
     HaltCancelReturns, FollowFeedback, readElse, ReadsMessage, ReadsLast, provVars, vars, Leave,
     SpawnOwnCancel, NoOwnCancel, End
<1>5. CASE ReportTaken \/ Expires \/ GoesSilent \/ FutureIsDropped
  BY <1>5 DEF Types, ProviderTypes, ReportTaken, Expires, GoesSilent, FutureIsDropped, vars,
     Leave, Following, provVars
<1>6. CASE AskArrives \/ AskIsLost \/ ClientCancels \/ ViewChanges
  BY <1>6 DEF Types, ProviderTypes, AskArrives, AskIsLost, ClientCancels, ViewChanges, vars,
     Following, Unwaited, provVars
<1>7. CASE Publishes \/ Ends \/ Latches \/ OverflowCancelFires
  BY <1>7 DEF Types, ProviderTypes, Publishes, Ends, Latches, OverflowCancelFires, ReaderGone,
     Overflows, provVars, End, SpawnOwnCancel, Failed
<1>8. CASE SmallStep(Request)
  BY <1>8 DEF Types, ProviderTypes, SmallStep, Request, Alone, IssueQuery, SendFails, NotReached,
     DeadlinePasses, RepliesClose, ReceiveAck, provVars, CancelUnread, FailCall, Waiting,
     RequestMayHaveStartedAGoal, SpawnOwnCancel, NoOwnCancel
<1>9. CASE SmallStep(Provider) \/ Alone(ProviderDies)
  BY <1>9 DEF Types, ProviderTypes, SmallStep, Provider, Alone, ProviderReceives, QueryMisses,
     ProviderAnswers, ProviderPublishes, ProviderEnds, ProviderDies, Reply, provVars, ReaderGone,
     End, Waiting, Failed
<1>10. CASE SmallStep(Reads)
  BY <1>10 DEF Types, ProviderTypes, SmallStep, Reads, Alone, PollOverflow, CheckRaised,
     TakeMessage, WaitForMessage, PollGone, CheckGone, Wakes, GoesTo, ReadGives, End, provVars,
     GoneSeen, readElse
<1>11. CASE SmallStep(Drops) \/ SmallStep(CancelTask)
  BY <1>11 DEF Types, ProviderTypes, SmallStep, Drops, CancelTask, Alone, DropOverflowCancel,
     AbortOverflowCancel, DropProducerWatch, OverflowCancelRegisters, OverflowCancelChecks,
     OverflowCancelWakes, AbortsUnraised, dropElse, readElse, SpawnOwnCancel, provVars
<1>12. CASE SmallStep(Deliveries)
  BY <1>12 DEF Types, ProviderTypes, SmallStep, Deliveries, Alone, DiscardMessage, KeepMessage,
     BeginOverflow, DrainUnread, RaiseStores, RaiseNotifies, Arrives, ReaderGone, Overflows, End,
     Push, provVars, Failed
<1>13. CASE SmallStep(Watch) \/ Alone(CancelArrives)
  BY <1>13 DEF Types, ProviderTypes, SmallStep, Watch, CancelArrives, Alone, GoneStores,
     GoneNotifies, provVars
<1> QED BY <1>1, <1>2, <1>3, <1>4, <1>5, <1>6, <1>7, <1>8, <1>9, <1>10, <1>11, <1>12, <1>13
    DEF FollowNext

\* A read keeps its types.
LEMMA ReadTypesStep ==
  ASSUME Types, read' \in 0 .. MaxFeedback, [FollowNext]_followVars
  PROVE  ReadTypes'
<1>1. CASE UNCHANGED followVars
  BY <1>1 DEF Types, ReadTypes, followVars, vars, readVars
<1>2. CASE Admitted
  BY <1>2 DEF Types, ReadTypes, Admitted, ReceiveAnswer, Modes, Waiting, readVars, NoOwnCancel,
     FailCall, CancelUnread, SpawnOwnCancel, RequestMayHaveStartedAGoal
<1>3. CASE StackGoal
  BY <1>3 DEF Types, ReadTypes, StackGoal, Alone, Follower, BeginRead, ReadIsDropped, FetchEnd,
     DropHandle, FollowFeedback, ReadGives, dropElse, readVars
<1>4. CASE Bridge
  BY <1>4 DEF Types, ReadTypes, Bridge, FirstRead, NextFeedbackStep, SendsCancel, CancelReturns,
     ResultRead, ResultFails, HandleDrops, GuardDrops, UnwaitedEnds, MustStop, HaltCancelReturns,
     FollowFeedback, readVars, ReadsMessage, ReadsLast, vars, Leave, handleElse, SpawnOwnCancel,
     NoOwnCancel, End
<1>5. CASE ReportTaken \/ Expires \/ GoesSilent \/ FutureIsDropped
  BY <1>5 DEF Types, ReadTypes, ReportTaken, Expires, GoesSilent, FutureIsDropped, vars, Leave,
     Following, readVars
<1>6. CASE AskArrives \/ AskIsLost \/ ClientCancels \/ ViewChanges
  BY <1>6 DEF Types, ReadTypes, AskArrives, AskIsLost, ClientCancels, ViewChanges, readVars, vars,
     Following, Unwaited
<1>7. CASE Publishes \/ Ends \/ Latches \/ OverflowCancelFires
  BY <1>7 DEF Types, ReadTypes, Publishes, Ends, Latches, OverflowCancelFires, ReaderGone,
     Overflows, handleElse, End, SpawnOwnCancel, Failed
<1>8. CASE SmallStep(Request)
  BY <1>8 DEF Types, ReadTypes, SmallStep, Request, Alone, IssueQuery, SendFails, NotReached,
     DeadlinePasses, RepliesClose, ReceiveAck, readVars, CancelUnread, FailCall, Waiting,
     RequestMayHaveStartedAGoal, SpawnOwnCancel, NoOwnCancel
<1>9. CASE SmallStep(Provider) \/ Alone(ProviderDies)
  BY <1>9 DEF Types, ReadTypes, SmallStep, Provider, Alone, ProviderReceives, QueryMisses,
     ProviderAnswers, ProviderPublishes, ProviderEnds, ProviderDies, Reply, readVars, ReaderGone,
     End, Waiting, Failed
<1>10. CASE SmallStep(Reads)
  <2>1. CASE PollOverflow
    BY <2>1 DEF Types, ReadTypes, Sources, PollOverflow, GoesTo
  <2>2. CASE CheckRaised
    BY <2>2 DEF Types, ReadTypes, Sources, CheckRaised, ReadGives, GoesTo
  <2>3. CASE TakeMessage
    BY <2>3 DEF Types, ReadTypes, Sources, TakeMessage, End
  <2>4. CASE WaitForMessage
    BY <2>4 DEF Types, ReadTypes, Sources, WaitForMessage, GoesTo
  <2>5. CASE PollGone
    BY <2>5 DEF Types, ReadTypes, Sources, PollGone, GoesTo
  <2>6. CASE CheckGone
    BY <2>6 DEF Types, ReadTypes, Sources, CheckGone, GoneSeen, ReadGives, GoesTo
  <2>7. CASE Wakes
    BY <2>7 DEF Types, ReadTypes, Sources, Wakes, GoesTo
  <2> QED BY <1>10, <2>1, <2>2, <2>3, <2>4, <2>5, <2>6, <2>7 DEF SmallStep, Alone, Reads
<1>11. CASE SmallStep(Drops) \/ SmallStep(CancelTask)
  BY <1>11 DEF Types, ReadTypes, SmallStep, Drops, CancelTask, Alone, DropOverflowCancel,
     AbortOverflowCancel, DropProducerWatch, OverflowCancelRegisters, OverflowCancelChecks,
     OverflowCancelWakes, AbortsUnraised, dropElse, readVars, SpawnOwnCancel
<1>12. CASE SmallStep(Deliveries)
  BY <1>12 DEF Types, ReadTypes, SmallStep, Deliveries, Alone, DiscardMessage, KeepMessage,
     BeginOverflow, DrainUnread, RaiseStores, RaiseNotifies, Arrives, ReaderGone, readVars,
     Overflows, End, Push, Failed
<1>13. CASE SmallStep(Watch) \/ Alone(CancelArrives)
  BY <1>13 DEF Types, ReadTypes, SmallStep, Watch, CancelArrives, Alone, GoneStores, GoneNotifies,
     readVars
<1> QED BY <1>1, <1>2, <1>3, <1>4, <1>5, <1>6, <1>7, <1>8, <1>9, <1>10, <1>11, <1>12, <1>13
    DEF FollowNext

\* The watch, the task of the overflow's cancel and the handle keep their types.
LEMMA TaskTypesStep ==
  ASSUME Types, [FollowNext]_followVars
  PROVE  TaskTypes'
<1>1. CASE UNCHANGED followVars
  BY <1>1 DEF Types, TaskTypes, followVars, vars, goneVars, taskVars
<1>2. CASE Admitted
  BY <1>2 DEF Types, TaskTypes, Admitted, ReceiveAnswer, Modes, Waiting, goneVars, taskVars,
     NoOwnCancel, FailCall, CancelUnread, SpawnOwnCancel, RequestMayHaveStartedAGoal
<1>3. CASE StackGoal
  BY <1>3 DEF Types, TaskTypes, StackGoal, Alone, Follower, BeginRead, ReadIsDropped, FetchEnd,
     DropHandle, FollowFeedback, readElse, ReadGives, taskVars, goneVars
<1>4. CASE Bridge
  BY <1>4 DEF Types, TaskTypes, Bridge, FirstRead, NextFeedbackStep, SendsCancel, CancelReturns,
     ResultRead, ResultFails, HandleDrops, GuardDrops, UnwaitedEnds, MustStop, HaltCancelReturns,
     FollowFeedback, readElse, ReadsMessage, ReadsLast, goneVars, vars, Leave, SpawnOwnCancel,
     NoOwnCancel, taskVars, End
<1>5. CASE ReportTaken \/ Expires \/ GoesSilent \/ FutureIsDropped
  BY <1>5 DEF Types, TaskTypes, ReportTaken, Expires, GoesSilent, FutureIsDropped, vars, Leave,
     Following, goneVars, taskVars
<1>6. CASE AskArrives \/ AskIsLost \/ ClientCancels \/ ViewChanges
  BY <1>6 DEF Types, TaskTypes, AskArrives, AskIsLost, ClientCancels, ViewChanges, goneVars,
     taskVars, vars, Following, Unwaited
<1>7. CASE Publishes \/ Ends \/ Latches \/ OverflowCancelFires
  BY <1>7 DEF Types, TaskTypes, Publishes, Ends, Latches, OverflowCancelFires, ReaderGone,
     Overflows, goneVars, taskVars, End, SpawnOwnCancel, Failed
<1>8. CASE SmallStep(Request)
  BY <1>8 DEF Types, TaskTypes, SmallStep, Request, Alone, IssueQuery, SendFails, NotReached,
     DeadlinePasses, RepliesClose, ReceiveAck, goneVars, taskVars, CancelUnread, FailCall,
     Waiting, RequestMayHaveStartedAGoal, SpawnOwnCancel, NoOwnCancel
<1>9. CASE SmallStep(Provider) \/ Alone(ProviderDies)
  BY <1>9 DEF Types, TaskTypes, SmallStep, Provider, Alone, ProviderReceives, QueryMisses,
     ProviderAnswers, ProviderPublishes, ProviderEnds, ProviderDies, Reply, goneVars, taskVars,
     ReaderGone, End, Waiting, Failed
<1>10. CASE SmallStep(Reads)
  BY <1>10 DEF Types, TaskTypes, SmallStep, Reads, Alone, PollOverflow, CheckRaised, TakeMessage,
     WaitForMessage, PollGone, CheckGone, Wakes, GoesTo, ReadGives, End, goneVars, taskVars,
     GoneSeen, readElse
<1>11. CASE SmallStep(Drops) \/ SmallStep(CancelTask)
  BY <1>11 DEF Types, TaskTypes, SmallStep, Drops, CancelTask, Alone, DropOverflowCancel,
     AbortOverflowCancel, DropProducerWatch, OverflowCancelRegisters, OverflowCancelChecks,
     OverflowCancelWakes, AbortsUnraised, taskVars, readElse, SpawnOwnCancel, goneVars
<1>12. CASE SmallStep(Deliveries)
  BY <1>12 DEF Types, TaskTypes, SmallStep, Deliveries, Alone, DiscardMessage, KeepMessage,
     BeginOverflow, DrainUnread, RaiseStores, RaiseNotifies, Arrives, ReaderGone, Overflows, End,
     Push, goneVars, taskVars, Failed
<1>13. CASE SmallStep(Watch) \/ Alone(CancelArrives)
  BY <1>13 DEF Types, TaskTypes, SmallStep, Watch, CancelArrives, Alone, GoneStores, GoneNotifies,
     goneVars, taskVars
<1> QED BY <1>1, <1>2, <1>3, <1>4, <1>5, <1>6, <1>7, <1>8, <1>9, <1>10, <1>11, <1>12, <1>13
    DEF FollowNext

\* The bridge keeps its types.
LEMMA BridgeTypesStep ==
  ASSUME Types, [FollowNext]_followVars
  PROVE  BridgeTypes'
<1>1. CASE UNCHANGED followVars
  BY <1>1 DEF Types, BridgeTypes, followVars, bridgeVars
<1>2. CASE Admitted
  <2>1. /\ mode' = mode \/ mode' \in Modes
        /\ br' \in {br, "result", "turn"} /\ ask' = ask
    BY <1>2 DEF Admitted, Modes
  <2> QED BY <2>1 DEF Types, BridgeTypes, Following
<1>3. CASE StackGoal
  BY <1>3 DEF Types, BridgeTypes, StackGoal, Alone, Follower, bridgeVars, BeginRead,
     ReadIsDropped, FetchEnd, DropHandle, FollowFeedback, ReadGives
<1>4. CASE Bridge
  <2>1. CASE FirstRead
    BY <1>4, <2>1 DEF Types, BridgeTypes, Modes, Following, Unwaited, FirstRead, FollowFeedback,
       bridgeVars
  <2>2. CASE NextFeedbackStep
    BY <1>4, <2>2 DEF Types, BridgeTypes, Modes, Following, Unwaited, NextFeedbackStep,
       ReadsMessage, ReadsLast, FollowFeedback, Surroundings, End
  <2>3. CASE SendsCancel
    BY <1>4, <2>3 DEF Types, BridgeTypes, Modes, Following, Unwaited, SendsCancel, Surroundings
  <2>4. CASE CancelReturns
    BY <1>4, <2>4 DEF Types, BridgeTypes, Modes, Following, Unwaited, CancelReturns, Leave,
       Surroundings
  <2>5. CASE ResultRead
    BY <1>4, <2>5 DEF Types, BridgeTypes, Modes, Following, Unwaited, ResultRead, Surroundings
  <2>6. CASE ResultFails
    BY <1>4, <2>6 DEF Types, BridgeTypes, Modes, Following, Unwaited, ResultFails, Leave,
       Surroundings
  <2>7. CASE HandleDrops
    BY <1>4, <2>7 DEF Types, BridgeTypes, Modes, Following, Unwaited, HandleDrops, handleElse,
       bridgeVars
  <2>8. CASE GuardDrops
    BY <1>4, <2>8 DEF Types, BridgeTypes, Modes, Following, Unwaited, GuardDrops, SpawnOwnCancel,
       NoOwnCancel, Surroundings
  <2>9. CASE UnwaitedEnds
    BY <1>4, <2>9 DEF Types, BridgeTypes, Modes, Following, Unwaited, UnwaitedEnds, Surroundings
  <2>10. CASE MustStop
    BY <1>4, <2>10 DEF Types, BridgeTypes, Modes, Following, Unwaited, MustStop, Surroundings
  <2>11. CASE HaltCancelReturns
    BY <1>4, <2>11 DEF Types, BridgeTypes, Modes, Following, Unwaited, HaltCancelReturns,
       Surroundings
  <2> QED BY <1>4, <2>1, <2>2, <2>3, <2>4, <2>5, <2>6, <2>7, <2>8, <2>9, <2>10, <2>11 DEF Bridge
<1>5. CASE ReportTaken \/ Expires \/ GoesSilent \/ FutureIsDropped
  <2>1. CASE ReportTaken
    BY <1>5, <2>1 DEF Types, BridgeTypes, Modes, Following, Unwaited, ReportTaken, Surroundings
  <2>2. CASE Expires
    BY <1>5, <2>2 DEF Types, BridgeTypes, Modes, Following, Unwaited, Expires, Surroundings
  <2>3. CASE GoesSilent
    BY <1>5, <2>3 DEF Types, BridgeTypes, Modes, Following, Unwaited, GoesSilent, Leave,
       Surroundings
  <2>4. CASE FutureIsDropped
    BY <1>5, <2>4 DEF Types, BridgeTypes, Modes, Following, Unwaited, FutureIsDropped, Leave,
       Surroundings
  <2> QED BY <1>5, <2>1, <2>2, <2>3, <2>4
<1>6. CASE AskArrives \/ AskIsLost \/ ClientCancels \/ ViewChanges
  BY <1>6 DEF Types, BridgeTypes, AskArrives, AskIsLost, ClientCancels, ViewChanges, Surroundings,
     Following, Unwaited
<1>7. CASE Publishes \/ Ends \/ Latches \/ OverflowCancelFires
  BY <1>7 DEF Types, BridgeTypes, Publishes, Ends, Latches, OverflowCancelFires, ReaderGone,
     Overflows, handleElse, End, SpawnOwnCancel, Failed, bridgeVars
<1>8. CASE SmallStep(Request)
  BY <1>8 DEF Types, BridgeTypes, SmallStep, Request, Alone, IssueQuery, SendFails, NotReached,
     DeadlinePasses, RepliesClose, ReceiveAck, bridgeVars, CancelUnread, FailCall, Waiting,
     RequestMayHaveStartedAGoal, SpawnOwnCancel, NoOwnCancel
<1>9. CASE SmallStep(Provider) \/ Alone(ProviderDies)
  BY <1>9 DEF Types, BridgeTypes, SmallStep, Provider, Alone, ProviderReceives, QueryMisses,
     ProviderAnswers, ProviderPublishes, ProviderEnds, ProviderDies, bridgeVars, Reply,
     ReaderGone, End, Waiting, Failed
<1>10. CASE SmallStep(Reads)
  BY <1>10 DEF Types, BridgeTypes, SmallStep, Reads, Alone, PollOverflow, CheckRaised,
     TakeMessage, WaitForMessage, PollGone, CheckGone, Wakes, bridgeVars, GoesTo, ReadGives, End,
     GoneSeen
<1>11. CASE SmallStep(Drops) \/ SmallStep(CancelTask)
  BY <1>11 DEF Types, BridgeTypes, SmallStep, Drops, CancelTask, Alone, DropOverflowCancel,
     AbortOverflowCancel, DropProducerWatch, OverflowCancelRegisters, OverflowCancelChecks,
     OverflowCancelWakes, bridgeVars, AbortsUnraised, SpawnOwnCancel
<1>12. CASE SmallStep(Deliveries)
  BY <1>12 DEF Types, BridgeTypes, SmallStep, Deliveries, Alone, DiscardMessage, KeepMessage,
     BeginOverflow, DrainUnread, RaiseStores, RaiseNotifies, bridgeVars, Arrives, ReaderGone,
     Overflows, End, Push, Failed
<1>13. CASE SmallStep(Watch) \/ Alone(CancelArrives)
  BY <1>13 DEF Types, BridgeTypes, SmallStep, Watch, CancelArrives, Alone, GoneStores,
     GoneNotifies, bridgeVars
<1> QED BY <1>1, <1>2, <1>3, <1>4, <1>5, <1>6, <1>7, <1>8, <1>9, <1>10, <1>11, <1>12, <1>13
    DEF FollowNext

\* The flags stay Boolean.
LEMMA FlagTypesStep ==
  ASSUME Types, [FollowNext]_followVars
  PROVE  FlagTypes'
<1>1. CASE UNCHANGED followVars
  BY <1>1 DEF Types, FlagTypes, followVars, vars, bridgeVars, provVars, sinkVars, goneVars,
     readVars, taskVars, guardVars
<1>2. CASE Admitted
  <2>1. UNCHANGED <<alive, knows, raised, gone, woken, ocReg>>
    BY <1>2 DEF Admitted, ReceiveAnswer, provVars, sinkVars, goneVars, readVars, taskVars, FailCall
  <2>2. /\ UNCHANGED <<wish, stop, endRead, cancelSent>>
        /\ (moves' = moves) \/ (moves' \in BOOLEAN)
        /\ (armed' = armed) \/ (armed' = TRUE)
    BY <1>2 DEF Admitted
  <2>3. moves' \in BOOLEAN /\ armed' \in BOOLEAN
    BY <2>2 DEF Types, FlagTypes
  <2> QED BY <2>1, <2>2, <2>3 DEF Types, FlagTypes
<1>3. CASE StackGoal
  <2>1. UNCHANGED <<alive, knows, raised, gone, ocReg, moves, wish, stop, armed, endRead,
                 cancelSent>>
    BY <1>3 DEF StackGoal, Alone, Follower, bridgeVars, BeginRead, ReadIsDropped, FetchEnd,
       DropHandle, guardVars, FollowFeedback, readElse, ReadGives, taskVars, dropElse, provVars,
       sinkVars, goneVars, readVars
  <2>2. woken' \in BOOLEAN
    BY <1>3 DEF Types, FlagTypes, StackGoal, Alone, Follower, bridgeVars, BeginRead,
       ReadIsDropped, FetchEnd, DropHandle, guardVars, FollowFeedback, readElse, ReadGives,
       taskVars, dropElse, provVars, sinkVars, goneVars, readVars
  <2> QED BY <2>1, <2>2 DEF Types, FlagTypes
<1>4. CASE Bridge
  <2>1. UNCHANGED <<alive, knows, raised, gone, woken, ocReg, moves, wish, stop>>
    BY <1>4 DEF Bridge, FirstRead, NextFeedbackStep, SendsCancel, CancelReturns, ResultRead,
       ResultFails, HandleDrops, GuardDrops, UnwaitedEnds, MustStop, HaltCancelReturns,
       FollowFeedback, readElse, readVars, bridgeVars, ReadsMessage, ReadsLast, provVars,
       goneVars, Surroundings, vars, guardVars, Leave, handleElse, SpawnOwnCancel, NoOwnCancel,
       sinkVars, taskVars, End
  <2>2. armed' \in BOOLEAN /\ endRead' \in BOOLEAN /\ cancelSent' \in BOOLEAN
    BY <1>4 DEF Types, FlagTypes, Bridge, FirstRead, NextFeedbackStep, SendsCancel, CancelReturns,
       ResultRead, ResultFails, HandleDrops, GuardDrops, UnwaitedEnds, MustStop,
       HaltCancelReturns, FollowFeedback, readElse, readVars, bridgeVars, ReadsMessage, ReadsLast,
       provVars, goneVars, Surroundings, vars, guardVars, Leave, handleElse, SpawnOwnCancel,
       NoOwnCancel, sinkVars, taskVars, End
  <2> QED BY <2>1, <2>2 DEF Types, FlagTypes
<1>5. CASE ReportTaken \/ Expires \/ GoesSilent \/ FutureIsDropped
  <2>1. UNCHANGED <<alive, knows, raised, gone, woken, ocReg, moves, wish, stop, endRead,
                 cancelSent>>
    BY <1>5 DEF ReportTaken, Expires, GoesSilent, FutureIsDropped, vars, Surroundings, guardVars,
       Leave, Following, provVars, sinkVars, goneVars, readVars, taskVars
  <2>2. armed' \in BOOLEAN
    BY <1>5 DEF Types, FlagTypes, ReportTaken, Expires, GoesSilent, FutureIsDropped, vars,
       Surroundings, guardVars, Leave, Following, provVars, sinkVars, goneVars, readVars, taskVars
  <2> QED BY <2>1, <2>2 DEF Types, FlagTypes
<1>6. CASE AskArrives \/ AskIsLost \/ ClientCancels \/ ViewChanges
  <2>1. UNCHANGED <<alive, raised, gone, woken, ocReg, moves, armed, endRead, cancelSent>>
    BY <1>6 DEF AskArrives, AskIsLost, ClientCancels, ViewChanges, sinkVars, goneVars, readVars,
       taskVars, Surroundings, guardVars, vars, Following, Unwaited, provVars
  <2>2. knows' \in BOOLEAN /\ wish' \in BOOLEAN /\ stop' \in BOOLEAN
    BY <1>6 DEF Types, FlagTypes, AskArrives, AskIsLost, ClientCancels, ViewChanges, sinkVars,
       goneVars, readVars, taskVars, Surroundings, guardVars, vars, Following, Unwaited, provVars
  <2> QED BY <2>1, <2>2 DEF Types, FlagTypes
<1>7. CASE Publishes \/ Ends \/ Latches \/ OverflowCancelFires
  <2>1. UNCHANGED <<alive, knows, woken, ocReg, moves, wish, stop, armed, endRead, cancelSent>>
    BY <1>7 DEF Publishes, Ends, Latches, OverflowCancelFires, ReaderGone, Overflows, handleElse,
       provVars, goneVars, taskVars, End, sinkVars, SpawnOwnCancel, Failed, bridgeVars, guardVars
  <2>2. raised' \in BOOLEAN /\ gone' \in BOOLEAN
    BY <1>7 DEF Types, FlagTypes, Publishes, Ends, Latches, OverflowCancelFires, ReaderGone,
       Overflows, handleElse, provVars, goneVars, taskVars, End, sinkVars, SpawnOwnCancel, Failed,
       bridgeVars, guardVars
  <2> QED BY <2>1, <2>2 DEF Types, FlagTypes
<1>8. CASE SmallStep(Request)
  BY <1>8 DEF Types, FlagTypes, SmallStep, Request, Alone, IssueQuery, SendFails, NotReached,
     DeadlinePasses, RepliesClose, ReceiveAck, bridgeVars, provVars, sinkVars, goneVars, readVars,
     taskVars, CancelUnread, FailCall, Waiting, guardVars, RequestMayHaveStartedAGoal,
     SpawnOwnCancel, NoOwnCancel
<1>9. CASE SmallStep(Provider) \/ Alone(ProviderDies)
  <2>1. UNCHANGED <<knows, raised, gone, woken, ocReg, moves, wish, stop, armed, endRead,
                 cancelSent>>
    BY <1>9 DEF SmallStep, Provider, Alone, ProviderReceives, QueryMisses, ProviderAnswers,
       ProviderPublishes, ProviderEnds, ProviderDies, bridgeVars, Reply, sinkVars, goneVars,
       readVars, taskVars, provVars, ReaderGone, End, guardVars, Waiting, Failed
  <2>2. alive' \in BOOLEAN
    BY <1>9 DEF Types, FlagTypes, SmallStep, Provider, Alone, ProviderReceives, QueryMisses,
       ProviderAnswers, ProviderPublishes, ProviderEnds, ProviderDies, bridgeVars, Reply,
       sinkVars, goneVars, readVars, taskVars, provVars, ReaderGone, End, guardVars, Waiting,
       Failed
  <2> QED BY <2>1, <2>2 DEF Types, FlagTypes
<1>10. CASE SmallStep(Reads)
  <2>1. UNCHANGED <<alive, knows, raised, gone, ocReg, moves, wish, stop, armed, endRead,
                    cancelSent>>
    BY <1>10 DEF SmallStep, Reads, Alone, PollOverflow, CheckRaised, TakeMessage, WaitForMessage,
       PollGone, CheckGone, Wakes, bridgeVars, GoesTo, ReadGives, provVars, goneVars, taskVars,
       guardVars, readElse, sinkVars
  <2>2. (woken' = woken) \/ (woken' = FALSE)
    BY <1>10 DEF SmallStep, Reads, Alone, PollOverflow, CheckRaised, TakeMessage, WaitForMessage,
       PollGone, CheckGone, Wakes, ReadGives
  <2>3. woken' \in BOOLEAN
    BY <2>2 DEF Types, FlagTypes
  <2> QED BY <2>1, <2>3 DEF Types, FlagTypes
<1>11. CASE SmallStep(Drops) \/ SmallStep(CancelTask)
  <2>1. UNCHANGED <<alive, knows, raised, gone, woken, moves, wish, stop, armed, endRead,
                 cancelSent>>
    BY <1>11 DEF SmallStep, Drops, CancelTask, Alone, DropOverflowCancel, AbortOverflowCancel,
       DropProducerWatch, OverflowCancelRegisters, OverflowCancelChecks, OverflowCancelWakes,
       bridgeVars, AbortsUnraised, dropElse, taskVars, readElse, readVars, SpawnOwnCancel,
       provVars, sinkVars, goneVars, guardVars
  <2>2. ocReg' \in BOOLEAN
    BY <1>11 DEF Types, FlagTypes, SmallStep, Drops, CancelTask, Alone, DropOverflowCancel,
       AbortOverflowCancel, DropProducerWatch, OverflowCancelRegisters, OverflowCancelChecks,
       OverflowCancelWakes, bridgeVars, AbortsUnraised, dropElse, taskVars, readElse, readVars,
       SpawnOwnCancel, provVars, sinkVars, goneVars, guardVars
  <2> QED BY <2>1, <2>2 DEF Types, FlagTypes
<1>12. CASE SmallStep(Deliveries)
  <2>1. UNCHANGED <<alive, knows, gone, moves, wish, stop, armed, endRead, cancelSent>>
    BY <1>12 DEF SmallStep, Deliveries, Alone, DiscardMessage, KeepMessage, BeginOverflow,
       DrainUnread, RaiseStores, RaiseNotifies, bridgeVars, Arrives, ReaderGone, sinkVars,
       readVars, Overflows, End, Push, provVars, goneVars, taskVars, guardVars, Failed
  <2>2. raised' \in BOOLEAN /\ woken' \in BOOLEAN /\ ocReg' \in BOOLEAN
    BY <1>12 DEF Types, FlagTypes, SmallStep, Deliveries, Alone, DiscardMessage, KeepMessage,
       BeginOverflow, DrainUnread, RaiseStores, RaiseNotifies, bridgeVars, Arrives, ReaderGone,
       sinkVars, readVars, Overflows, End, Push, provVars, goneVars, taskVars, guardVars, Failed
  <2> QED BY <2>1, <2>2 DEF Types, FlagTypes
<1>13. CASE SmallStep(Watch) \/ Alone(CancelArrives)
  <2>1. UNCHANGED <<alive, raised, ocReg, moves, wish, stop, armed, endRead, cancelSent>>
    BY <1>13 DEF SmallStep, Watch, CancelArrives, Alone, GoneStores, GoneNotifies, sinkVars,
       goneVars, readVars, taskVars, bridgeVars, provVars, guardVars
  <2>2. knows' \in BOOLEAN /\ gone' \in BOOLEAN /\ woken' \in BOOLEAN
    BY <1>13 DEF Types, FlagTypes, SmallStep, Watch, CancelArrives, Alone, GoneStores,
       GoneNotifies, sinkVars, goneVars, readVars, taskVars, bridgeVars, provVars, guardVars
  <2> QED BY <2>1, <2>2 DEF Types, FlagTypes
<1> QED BY <1>1, <1>2, <1>3, <1>4, <1>5, <1>6, <1>7, <1>8, <1>9, <1>10, <1>11, <1>12, <1>13
    DEF FollowNext

\* Every step keeps CallInv.
LEMMA CallStep ==
  ASSUME Types, CallInv, [FollowNext]_followVars
  PROVE  CallInv'
<1>1. CASE UNCHANGED followVars
  BY <1>1 DEF Types, CallTypes, CallInv, followVars, vars, bridgeVars, callVars, provVars
<1>2. CASE Admitted
  BY <1>2 DEF Types, CallTypes, CallInv, Admitted, ReceiveAnswer, Modes, Waiting, provVars,
     NoOwnCancel, FailCall, CancelUnread, SpawnOwnCancel, RequestMayHaveStartedAGoal
<1>3. CASE StackGoal
  BY <1>3 DEF Types, CallTypes, CallInv, StackGoal, Alone, Follower, bridgeVars, BeginRead,
     ReadIsDropped, FetchEnd, DropHandle, FollowFeedback, readElse, ReadGives, dropElse, callVars,
     provVars
<1>4. CASE Bridge
  BY <1>4 DEF Types, CallTypes, CallInv, Bridge, FirstRead, NextFeedbackStep, SendsCancel,
     CancelReturns, ResultRead, ResultFails, HandleDrops, GuardDrops, UnwaitedEnds, MustStop,
     HaltCancelReturns, FollowFeedback, readElse, bridgeVars, ReadsMessage, ReadsLast, callVars,
     provVars, Surroundings, vars, Leave, handleElse, SpawnOwnCancel, NoOwnCancel, End
<1>5. CASE ReportTaken \/ Expires \/ GoesSilent \/ FutureIsDropped
  BY <1>5 DEF Types, CallTypes, CallInv, ReportTaken, Expires, GoesSilent, FutureIsDropped, vars,
     Surroundings, Leave, Following, callVars, provVars
<1>6. CASE AskArrives \/ AskIsLost \/ ClientCancels \/ ViewChanges
  BY <1>6 DEF Types, CallTypes, CallInv, AskArrives, AskIsLost, ClientCancels, ViewChanges,
     callVars, Surroundings, vars, Following, Unwaited, provVars
<1>7. CASE Publishes \/ Ends \/ Latches \/ OverflowCancelFires
  BY <1>7 DEF Types, CallTypes, CallInv, Publishes, Ends, Latches, OverflowCancelFires,
     ReaderGone, Overflows, handleElse, provVars, End, SpawnOwnCancel, Failed, callVars,
     bridgeVars
<1>8. CASE SmallStep(Request)
  BY <1>8 DEF Types, CallTypes, CallInv, SmallStep, Request, Alone, IssueQuery, SendFails,
     NotReached, DeadlinePasses, RepliesClose, ReceiveAck, bridgeVars, provVars, CancelUnread,
     FailCall, Waiting, RequestMayHaveStartedAGoal, SpawnOwnCancel, NoOwnCancel
<1>9. CASE SmallStep(Provider) \/ Alone(ProviderDies)
  BY <1>9 DEF Types, CallTypes, CallInv, SmallStep, Provider, Alone, ProviderReceives,
     QueryMisses, ProviderAnswers, ProviderPublishes, ProviderEnds, ProviderDies, bridgeVars,
     Reply, provVars, ReaderGone, callVars, End, Waiting, Failed
<1>10. CASE SmallStep(Reads)
  BY <1>10 DEF Types, CallTypes, CallInv, SmallStep, Reads, Alone, PollOverflow, CheckRaised,
     TakeMessage, WaitForMessage, PollGone, CheckGone, Wakes, bridgeVars, GoesTo, ReadGives, End,
     callVars, provVars, GoneSeen, readElse
<1>11. CASE SmallStep(Drops) \/ SmallStep(CancelTask)
  BY <1>11 DEF Types, CallTypes, CallInv, SmallStep, Drops, CancelTask, Alone, DropOverflowCancel,
     AbortOverflowCancel, DropProducerWatch, OverflowCancelRegisters, OverflowCancelChecks,
     OverflowCancelWakes, bridgeVars, AbortsUnraised, dropElse, readElse, SpawnOwnCancel,
     callVars, provVars
<1>12. CASE SmallStep(Deliveries)
  BY <1>12 DEF Types, CallTypes, CallInv, SmallStep, Deliveries, Alone, DiscardMessage,
     KeepMessage, BeginOverflow, DrainUnread, RaiseStores, RaiseNotifies, bridgeVars, Arrives,
     ReaderGone, Overflows, End, Push, callVars, provVars, Failed
<1>13. CASE SmallStep(Watch) \/ Alone(CancelArrives)
  BY <1>13 DEF Types, CallTypes, CallInv, SmallStep, Watch, CancelArrives, Alone, GoneStores,
     GoneNotifies, callVars, bridgeVars, provVars
<1> QED BY <1>1, <1>2, <1>3, <1>4, <1>5, <1>6, <1>7, <1>8, <1>9, <1>10, <1>11, <1>12, <1>13
    DEF FollowNext

\* Every step keeps ReadInv.
LEMMA ReadStep ==
  ASSUME Types, CallInv, QueueInv, WireInv, ReadInv, [FollowNext]_followVars
  PROVE  ReadInv'
<1>1. CASE UNCHANGED followVars
  BY <1>1 DEF Types, ReadTypes, BridgeTypes, CallInv, ReadInv, followVars, vars, bridgeVars,
     callVars, provVars, pubVars, readVars
<1>2. CASE Admitted
  <2>0. call # "held" /\ UNCHANGED <<rd, ending, goal, read, pubAtEnd, stage, wire>>
    BY <1>2 DEF Admitted, ReceiveAnswer, Modes, Waiting, provVars, pubVars, readVars, NoOwnCancel,
       FailCall, CancelUnread, SpawnOwnCancel, RequestMayHaveStartedAGoal
  <2>1. mode = "none" /\ br = "none" /\ rd = "idle" /\ ending = "none"
    BY <2>0 DEF CallInv, ReadInv
  <2>2. CASE call' # "held"
    BY <1>2, <2>0, <2>1, <2>2 DEF Admitted, ReadInv
  <2>3. CASE mode' = "stack" /\ br' = br
    BY <2>0, <2>1, <2>3 DEF ReadInv
  <2>4. CASE /\ wire = <<>> /\ mode' \in Modes \ {"stack"}
             /\ br' = IF mode' = "result" THEN "result" ELSE "turn"
    BY <2>0, <2>1, <2>4 DEF ReadInv, Modes
  <2> QED BY <1>2, <2>2, <2>3, <2>4 DEF Admitted
<1>3. CASE StackGoal
  BY <1>3 DEF Types, ReadTypes, BridgeTypes, CallInv, ReadInv, StackGoal, Alone, Follower,
     bridgeVars, BeginRead, ReadIsDropped, FetchEnd, DropHandle, FollowFeedback, readElse,
     ReadGives, dropElse, callVars, provVars, pubVars, readVars
<1>4. CASE Bridge
  <2>1. CASE FirstRead
    BY <1>4, <2>1 DEF Types, ReadTypes, BridgeTypes, CallInv, ReadInv, FirstRead, FollowFeedback,
       readElse, readVars, bridgeVars, callVars, provVars, pubVars
  <2>2. CASE NextFeedbackStep
    BY <1>4, <2>2, EndInBuffer
    DEF Types, ReadTypes, BridgeTypes, CallInv, ReadInv, NextFeedbackStep,
       ReadsMessage, ReadsLast, FollowFeedback, callVars, provVars, pubVars, Surroundings, End
  <2>3. CASE SendsCancel
    BY <1>4, <2>3 DEF Types, ReadTypes, BridgeTypes, CallInv, ReadInv, SendsCancel, vars,
       Surroundings, callVars, provVars, pubVars, readVars
  <2>4. CASE CancelReturns
    BY <1>4, <2>4 DEF Types, ReadTypes, BridgeTypes, CallInv, ReadInv, CancelReturns, Leave, vars,
       Surroundings, callVars, provVars, pubVars, readVars
  <2>5. CASE ResultRead
    BY <1>4, <2>5 DEF Types, ReadTypes, BridgeTypes, CallInv, ReadInv, ResultRead, vars,
       Surroundings, callVars, provVars, pubVars, readVars
  <2>6. CASE ResultFails
    BY <1>4, <2>6 DEF Types, ReadTypes, BridgeTypes, CallInv, ReadInv, ResultFails, Leave, vars,
       Surroundings, callVars, provVars, pubVars, readVars
  <2>7. CASE HandleDrops
    BY <1>4, <2>7 DEF Types, ReadTypes, BridgeTypes, CallInv, ReadInv, HandleDrops, handleElse,
       provVars, pubVars, callVars, bridgeVars
  <2>8. CASE GuardDrops
    BY <1>4, <2>8 DEF Types, ReadTypes, BridgeTypes, CallInv, ReadInv, GuardDrops, SpawnOwnCancel,
       NoOwnCancel, callVars, provVars, pubVars, readVars, Surroundings
  <2>9. CASE UnwaitedEnds
    BY <1>4, <2>9 DEF Types, ReadTypes, BridgeTypes, CallInv, ReadInv, UnwaitedEnds, vars,
       Surroundings, callVars, provVars, pubVars, readVars
  <2>10. CASE MustStop
    BY <1>4, <2>10 DEF Types, ReadTypes, BridgeTypes, CallInv, ReadInv, MustStop, vars,
       Surroundings, callVars, provVars, pubVars, readVars
  <2>11. CASE HaltCancelReturns
    BY <1>4, <2>11 DEF Types, ReadTypes, BridgeTypes, CallInv, ReadInv, HaltCancelReturns, vars,
       Surroundings, callVars, provVars, pubVars, readVars
  <2> QED BY <1>4, <2>1, <2>2, <2>3, <2>4, <2>5, <2>6, <2>7, <2>8, <2>9, <2>10, <2>11 DEF Bridge
<1>5. CASE ReportTaken \/ Expires \/ GoesSilent \/ FutureIsDropped
  BY <1>5 DEF Types, ReadTypes, BridgeTypes, CallInv, ReadInv, ReportTaken, Expires, GoesSilent,
     FutureIsDropped, vars, Surroundings, Leave, Following, callVars, provVars, pubVars, readVars
<1>6. CASE AskArrives \/ AskIsLost \/ ClientCancels \/ ViewChanges
  BY <1>6 DEF Types, ReadTypes, BridgeTypes, CallInv, ReadInv, AskArrives, AskIsLost,
     ClientCancels, ViewChanges, callVars, pubVars, readVars, Surroundings, vars, Following,
     Unwaited, provVars
<1>7. CASE Publishes \/ Ends \/ Latches \/ OverflowCancelFires
  BY <1>7 DEF Types, ReadTypes, BridgeTypes, CallInv, ReadInv, Publishes, Ends, Latches,
     OverflowCancelFires, ReaderGone, Overflows, handleElse, provVars, End, pubVars,
     SpawnOwnCancel, Failed, callVars, bridgeVars
<1>8. CASE SmallStep(Request)
  BY <1>8 DEF Types, ReadTypes, BridgeTypes, CallInv, ReadInv, SmallStep, Request, Alone,
     IssueQuery, SendFails, NotReached, DeadlinePasses, RepliesClose, ReceiveAck, bridgeVars,
     provVars, pubVars, readVars, CancelUnread, FailCall, Waiting, RequestMayHaveStartedAGoal,
     SpawnOwnCancel, NoOwnCancel
<1>9. CASE SmallStep(Provider) \/ Alone(ProviderDies)
  BY <1>9 DEF Types, ReadTypes, BridgeTypes, CallInv, ReadInv, SmallStep, Provider, Alone,
     ProviderReceives, QueryMisses, ProviderAnswers, ProviderPublishes, ProviderEnds,
     ProviderDies, bridgeVars, Reply, pubVars, readVars, provVars, ReaderGone, callVars, End,
     Waiting, Failed
<1>10. CASE SmallStep(Reads)
  <2>0. UNCHANGED bridgeVars
    BY <1>10 DEF SmallStep, Alone
  <2>1. CASE PollOverflow
    BY <2>1, <2>0 DEF Types, ReadTypes, BridgeTypes, CallInv, ReadInv, PollOverflow,
       GoesTo, readElse, callVars, provVars, pubVars, bridgeVars
  <2>2. CASE CheckRaised
    BY <2>2, <2>0 DEF Types, ReadTypes, BridgeTypes, CallInv, ReadInv, CheckRaised,
       ReadGives, GoesTo, readElse, callVars, provVars, pubVars, bridgeVars
  <2>3. CASE TakeMessage
    BY <2>3, <2>0, EndInBuffer
    DEF Types, ReadTypes, BridgeTypes, CallInv, ReadInv, TakeMessage, End,
       callVars, provVars, pubVars, bridgeVars
  <2>4. CASE WaitForMessage
    BY <2>4, <2>0 DEF Types, ReadTypes, BridgeTypes, CallInv, ReadInv, WaitForMessage,
       GoesTo, readElse, callVars, provVars, pubVars, bridgeVars
  <2>5. CASE PollGone
    BY <2>5, <2>0 DEF Types, ReadTypes, BridgeTypes, CallInv, ReadInv, PollGone, GoesTo,
       readElse, callVars, provVars, pubVars, bridgeVars
  <2>6. CASE CheckGone
    BY <2>6, <2>0 DEF Types, ReadTypes, BridgeTypes, CallInv, ReadInv, CheckGone, GoneSeen,
       ReadGives, GoesTo, readElse, callVars, provVars, pubVars, bridgeVars
  <2>7. CASE Wakes
    BY <2>7, <2>0 DEF Types, ReadTypes, BridgeTypes, CallInv, ReadInv, Wakes, GoesTo,
       readElse, callVars, provVars, pubVars, bridgeVars
  <2> QED BY <1>10, <2>1, <2>2, <2>3, <2>4, <2>5, <2>6, <2>7 DEF SmallStep, Alone, Reads
<1>11. CASE SmallStep(Drops) \/ SmallStep(CancelTask)
  BY <1>11 DEF Types, ReadTypes, BridgeTypes, CallInv, ReadInv, SmallStep, Drops, CancelTask,
     Alone, DropOverflowCancel, AbortOverflowCancel, DropProducerWatch, OverflowCancelRegisters,
     OverflowCancelChecks, OverflowCancelWakes, bridgeVars, AbortsUnraised, dropElse, readElse,
     readVars, SpawnOwnCancel, callVars, provVars, pubVars
<1>12. CASE SmallStep(Deliveries)
  BY <1>12 DEF Types, ReadTypes, BridgeTypes, CallInv, ReadInv, SmallStep, Deliveries, Alone,
     DiscardMessage, KeepMessage, BeginOverflow, DrainUnread, RaiseStores, RaiseNotifies,
     bridgeVars, Arrives, ReaderGone, readVars, Overflows, End, Push, callVars, provVars, pubVars,
     Failed
<1>13. CASE SmallStep(Watch) \/ Alone(CancelArrives)
  BY <1>13 DEF Types, ReadTypes, BridgeTypes, CallInv, ReadInv, SmallStep, Watch, CancelArrives,
     Alone, GoneStores, GoneNotifies, callVars, pubVars, readVars, bridgeVars, provVars
<1> QED BY <1>1, <1>2, <1>3, <1>4, <1>5, <1>6, <1>7, <1>8, <1>9, <1>10, <1>11, <1>12, <1>13
    DEF FollowNext

\* Every step keeps KeepInv.
LEMMA KeepStep ==
  ASSUME Types, CallInv, ReadInv, KeepInv, [FollowNext]_followVars
  PROVE  KeepInv'
<1>1. CASE UNCHANGED followVars
  BY <1>1 DEF Types, ProviderTypes, CallInv, ReadInv, KeepInv, followVars, vars, bridgeVars,
     callVars, sinkVars, taskVars, guardVars
<1>2. CASE Admitted
  <2>0. call \in Waiting /\ UNCHANGED <<endRead, oc>>
    BY <1>2 DEF Admitted, ReceiveAnswer, sinkVars, taskVars, NoOwnCancel, FailCall, CancelUnread,
       SpawnOwnCancel, RequestMayHaveStartedAGoal
  <2>1. own = "none" /\ mode = "none" /\ br = "none" /\ oc = "none"
    BY <2>0 DEF CallInv, ReadInv, KeepInv, Waiting, Failed
  <2>2. (call' = "held" /\ own' = own) \/ call' \in Failed
    BY <1>2 DEF Admitted, Failed, ReceiveAnswer, sinkVars, taskVars, NoOwnCancel, FailCall,
       CancelUnread, SpawnOwnCancel, RequestMayHaveStartedAGoal
  <2>3. br' \notin Unwaited
    BY <1>2, <2>1 DEF Admitted, Unwaited
  <2>4. ~endRead
    BY <2>1 DEF KeepInv
  <2> QED BY <2>0, <2>1, <2>2, <2>3, <2>4 DEF KeepInv
<1>3. CASE StackGoal
  BY <1>3 DEF Types, ProviderTypes, CallInv, ReadInv, KeepInv, StackGoal, Alone, Follower,
     bridgeVars, BeginRead, ReadIsDropped, FetchEnd, DropHandle, guardVars, FollowFeedback,
     readElse, ReadGives, taskVars, dropElse, callVars, sinkVars
<1>4. CASE Bridge
  <2>1. CASE FirstRead
    BY <1>4, <2>1 DEF Failed, Unwaited, Types, ProviderTypes, TaskTypes, CallInv, ReadInv,
       KeepInv, FirstRead, FollowFeedback, readElse, bridgeVars, callVars, sinkVars, guardVars
  <2>2. CASE NextFeedbackStep
    BY <1>4, <2>2 DEF Failed, Unwaited, Types, ProviderTypes, TaskTypes, CallInv, ReadInv,
       KeepInv, NextFeedbackStep, ReadsMessage, ReadsLast, FollowFeedback, callVars, Surroundings,
       End
  <2>3. CASE SendsCancel
    BY <1>4, <2>3 DEF Failed, Unwaited, Types, ProviderTypes, TaskTypes, CallInv, ReadInv,
       KeepInv, SendsCancel, vars, Surroundings, callVars, sinkVars, taskVars
  <2>4. CASE CancelReturns
    <3>1. UNCHANGED <<own, call, raised, oc, endRead, mode>> /\ br = "cancel" /\ br' # "over"
      BY <2>4 DEF CancelReturns, guardVars, Leave, vars, Surroundings, callVars, sinkVars,
         taskVars
    <3>2. (br' \in {"turn", "result"} /\ armed' = armed) \/ Leave
      BY <2>4 DEF CancelReturns, guardVars
    <3>3. CASE br' \in {"turn", "result"} /\ armed' = armed
      BY <3>1, <3>3 DEF KeepInv, Unwaited
    <3>4. CASE Leave
      <4>1. (armed' <=> (armed /\ br' = "leaving")) /\ "leaving" \notin Unwaited
        BY <3>4 DEF Leave, Unwaited
      <4> QED BY <3>1, <4>1 DEF KeepInv
    <3> QED BY <3>2, <3>3, <3>4
  <2>5. CASE ResultRead
    BY <1>4, <2>5 DEF Failed, Unwaited, Types, ProviderTypes, TaskTypes, CallInv, ReadInv,
       KeepInv, ResultRead, vars, Surroundings, callVars, sinkVars, taskVars
  <2>6. CASE ResultFails
    BY <1>4, <2>6 DEF Failed, Unwaited, Types, ProviderTypes, TaskTypes, CallInv, ReadInv,
       KeepInv, ResultFails, Leave, vars, Surroundings, callVars, sinkVars, taskVars
  <2>7. CASE HandleDrops
    BY <1>4, <2>7 DEF Failed, Unwaited, Types, ProviderTypes, TaskTypes, CallInv, ReadInv,
       KeepInv, HandleDrops, handleElse, callVars, bridgeVars, guardVars
  <2>8. CASE GuardDrops
    BY <1>4, <2>8 DEF Failed, Unwaited, Types, ProviderTypes, TaskTypes, CallInv, ReadInv,
       KeepInv, GuardDrops, SpawnOwnCancel, NoOwnCancel, callVars, sinkVars, taskVars,
       Surroundings, guardVars
  <2>9. CASE UnwaitedEnds
    BY <1>4, <2>9 DEF Failed, Unwaited, Types, ProviderTypes, TaskTypes, CallInv, ReadInv,
       KeepInv, UnwaitedEnds, vars, Surroundings, callVars, sinkVars, taskVars
  <2>10. CASE MustStop
    BY <1>4, <2>10 DEF Failed, Unwaited, Types, ProviderTypes, TaskTypes, CallInv, ReadInv,
       KeepInv, MustStop, vars, Surroundings, callVars, sinkVars, taskVars
  <2>11. CASE HaltCancelReturns
    BY <1>4, <2>11 DEF Failed, Unwaited, Types, ProviderTypes, TaskTypes, CallInv, ReadInv,
       KeepInv, HaltCancelReturns, vars, Surroundings, guardVars, callVars, sinkVars, taskVars
  <2> QED BY <1>4, <2>1, <2>2, <2>3, <2>4, <2>5, <2>6, <2>7, <2>8, <2>9, <2>10, <2>11 DEF Bridge
<1>5. CASE ReportTaken \/ Expires \/ GoesSilent \/ FutureIsDropped
  <2>1. CASE ReportTaken
    BY <1>5, <2>1 DEF Failed, Unwaited, Types, ProviderTypes, TaskTypes, CallInv, ReadInv,
       KeepInv, ReportTaken, vars, Surroundings, guardVars, callVars, sinkVars, taskVars
  <2>2. CASE Expires
    BY <1>5, <2>2 DEF Failed, Unwaited, Types, ProviderTypes, TaskTypes, CallInv, ReadInv,
       KeepInv, Expires, vars, Surroundings, guardVars, callVars, sinkVars, taskVars
  <2>3. CASE GoesSilent
    BY <1>5, <2>3 DEF Failed, Unwaited, Types, ProviderTypes, TaskTypes, CallInv, ReadInv,
       KeepInv, GoesSilent, Leave, vars, Surroundings, callVars, sinkVars, taskVars
  <2>4. CASE FutureIsDropped
    BY <1>5, <2>4 DEF Failed, Unwaited, Types, ProviderTypes, TaskTypes, CallInv, ReadInv,
       KeepInv, FutureIsDropped, Following, Leave, vars, Surroundings, callVars, sinkVars,
       taskVars
  <2> QED BY <1>5, <2>1, <2>2, <2>3, <2>4
<1>6. CASE AskArrives \/ AskIsLost \/ ClientCancels \/ ViewChanges
  BY <1>6 DEF Types, ProviderTypes, CallInv, ReadInv, KeepInv, AskArrives, AskIsLost,
     ClientCancels, ViewChanges, callVars, sinkVars, taskVars, Surroundings, guardVars, vars,
     Following, Unwaited
<1>7. CASE Publishes \/ Ends \/ Latches \/ OverflowCancelFires
  BY <1>7 DEF Types, ProviderTypes, CallInv, ReadInv, KeepInv, Publishes, Ends, Latches,
     OverflowCancelFires, ReaderGone, Overflows, handleElse, taskVars, End, sinkVars,
     SpawnOwnCancel, Failed, callVars, bridgeVars, guardVars
<1>8. CASE SmallStep(Request)
  <2>0. UNCHANGED bridgeVars
    BY <1>8 DEF SmallStep, Alone
  <2>1. CASE IssueQuery
    BY <2>1, <2>0 DEF Failed, Unwaited, Types, ProviderTypes, TaskTypes, CallInv, ReadInv,
       KeepInv, IssueQuery, sinkVars, taskVars, bridgeVars, guardVars
  <2>2. CASE SendFails
    BY <2>2, <2>0 DEF Failed, Unwaited, Types, ProviderTypes, TaskTypes, CallInv, ReadInv,
       KeepInv, SendFails, CancelUnread, FailCall, RequestMayHaveStartedAGoal, SpawnOwnCancel,
       NoOwnCancel, sinkVars, taskVars, bridgeVars, guardVars
  <2>3. CASE NotReached
    BY <2>3, <2>0 DEF Failed, Unwaited, Types, ProviderTypes, TaskTypes, CallInv, ReadInv,
       KeepInv, NotReached, sinkVars, taskVars, bridgeVars, guardVars
  <2>4. CASE DeadlinePasses
    BY <2>4, <2>0 DEF Failed, Unwaited, Types, ProviderTypes, TaskTypes, CallInv, ReadInv,
       KeepInv, DeadlinePasses, Waiting, CancelUnread, FailCall, RequestMayHaveStartedAGoal,
       SpawnOwnCancel, NoOwnCancel, sinkVars, taskVars, bridgeVars, guardVars
  <2>5. CASE RepliesClose
    BY <2>5, <2>0 DEF Failed, Unwaited, Types, ProviderTypes, TaskTypes, CallInv, ReadInv,
       KeepInv, RepliesClose, CancelUnread, FailCall, RequestMayHaveStartedAGoal, SpawnOwnCancel,
       NoOwnCancel, sinkVars, taskVars, bridgeVars, guardVars
  <2>6. CASE ReceiveAck
    BY <2>6, <2>0 DEF Failed, Unwaited, Types, ProviderTypes, TaskTypes, CallInv, ReadInv,
       KeepInv, ReceiveAck, Waiting, sinkVars, taskVars, bridgeVars, guardVars
  <2> QED BY <1>8, <2>1, <2>2, <2>3, <2>4, <2>5, <2>6 DEF SmallStep, Alone, Request
<1>9. CASE SmallStep(Provider) \/ Alone(ProviderDies)
  BY <1>9 DEF Types, ProviderTypes, CallInv, ReadInv, KeepInv, SmallStep, Provider, Alone,
     ProviderReceives, QueryMisses, ProviderAnswers, ProviderPublishes, ProviderEnds,
     ProviderDies, bridgeVars, Reply, sinkVars, taskVars, ReaderGone, callVars, End, guardVars,
     Waiting, Failed
<1>10. CASE SmallStep(Reads)
  BY <1>10 DEF Types, ProviderTypes, CallInv, ReadInv, KeepInv, SmallStep, Reads, Alone,
     PollOverflow, CheckRaised, TakeMessage, WaitForMessage, PollGone, CheckGone, Wakes,
     bridgeVars, GoesTo, ReadGives, End, callVars, taskVars, GoneSeen, guardVars, readElse,
     sinkVars
<1>11. CASE SmallStep(Drops) \/ SmallStep(CancelTask)
  <2>0. UNCHANGED bridgeVars
    BY <1>11 DEF SmallStep, Alone
  <2>1. CASE DropOverflowCancel
    BY <2>1, <2>0 DEF Failed, Unwaited, Types, ProviderTypes, TaskTypes, CallInv, ReadInv,
       KeepInv, DropOverflowCancel, AbortsUnraised, dropElse, taskVars, callVars, bridgeVars,
       guardVars
  <2>2. CASE AbortOverflowCancel
    BY <2>2, <2>0 DEF Failed, Unwaited, Types, ProviderTypes, TaskTypes, CallInv, ReadInv,
       KeepInv, AbortOverflowCancel, dropElse, callVars, bridgeVars, guardVars
  <2>3. CASE DropProducerWatch
    BY <2>3, <2>0 DEF Failed, Unwaited, Types, ProviderTypes, TaskTypes, CallInv, ReadInv,
       KeepInv, DropProducerWatch, dropElse, taskVars, callVars, bridgeVars, guardVars
  <2>4. CASE OverflowCancelRegisters
    BY <2>4, <2>0 DEF Failed, Unwaited, Types, ProviderTypes, TaskTypes, CallInv, ReadInv,
       KeepInv, OverflowCancelRegisters, readElse, callVars, sinkVars, bridgeVars, guardVars
  <2>5. CASE OverflowCancelChecks
    <3>1. UNCHANGED <<call, raised, br, armed, endRead, mode>> /\ oc = "check"
      BY <2>0, <2>5 DEF OverflowCancelChecks, bridgeVars, SpawnOwnCancel, callVars, sinkVars,
         guardVars
    <3>2. oc' # "none" /\ (raised \/ own' = own)
      BY <2>5 DEF OverflowCancelChecks
    <3> QED BY <3>1, <3>2 DEF KeepInv
  <2>6. CASE OverflowCancelWakes
    BY <2>6, <2>0 DEF Failed, Unwaited, Types, ProviderTypes, TaskTypes, CallInv, ReadInv,
       KeepInv, OverflowCancelWakes, readElse, callVars, sinkVars, bridgeVars, guardVars
  <2> QED BY <1>11, <2>1, <2>2, <2>3, <2>4, <2>5, <2>6 DEF SmallStep, Alone, Drops, CancelTask
<1>12. CASE SmallStep(Deliveries)
  BY <1>12 DEF Types, ProviderTypes, CallInv, ReadInv, KeepInv, SmallStep, Deliveries, Alone,
     DiscardMessage, KeepMessage, BeginOverflow, DrainUnread, RaiseStores, RaiseNotifies,
     bridgeVars, Arrives, ReaderGone, sinkVars, Overflows, End, Push, callVars, taskVars,
     guardVars, Failed
<1>13. CASE SmallStep(Watch) \/ Alone(CancelArrives)
  BY <1>13 DEF Types, ProviderTypes, CallInv, ReadInv, KeepInv, SmallStep, Watch, CancelArrives,
     Alone, GoneStores, GoneNotifies, callVars, sinkVars, taskVars, bridgeVars, guardVars
<1> QED BY <1>1, <1>2, <1>3, <1>4, <1>5, <1>6, <1>7, <1>8, <1>9, <1>10, <1>11, <1>12, <1>13
    DEF FollowNext

LEMMA NextFollow == FollowInv /\ [FollowNext]_followVars => FollowInv'
BY StreamStep, CallTypesStep, ProviderTypesStep, ReadTypesStep, TaskTypesStep, BridgeTypesStep,
   FlagTypesStep, CallStep, ReadStep, KeepStep DEF FollowInv, Types

LEMMA FollowInvariant == FollowSpec => []FollowInv
BY InitFollow, NextFollow, PTL DEF FollowSpec

-----------------------------------------------------------------------------
(***************************************************************************)
(* The theorems                                                            *)
(***************************************************************************)

\* The client, its buffer, its watch and its followers keep their types: the
\* buffer has never more than its bound and the end of the stream (FeedbackSink),
\* and a follower reads no more messages than were published.
THEOREM FollowTypeCorrect == FollowSpec => []FollowTypeOK
<1>1. FollowInv => FollowTypeOK
  BY TypesAreTypes DEF FollowInv
<1> QED BY <1>1, FollowInvariant, PTL

\* A stream that ended with its goal has no gap, whatever the bound of the buffer,
\* the death of the provider and the interleaving of the deliveries with the
\* reads (FeedbackSink::deliver, on_next_feedback).
THEOREM NoGapIsSilent == FollowSpec => []NoSilentGap
<1>1. FollowInv => NoSilentGap
  BY DEF FollowInv, ReadInv, NoSilentGap
<1> QED BY <1>1, FollowInvariant, PTL

\* The client cancels a goal that it holds only after an overflow of the feedback
\* that is read, or as a bridge lets a goal go whose end it did not read
\* (follow_feedback, OverflowCancel, FollowedGoal).
THEOREM FollowedGoalsKept == FollowSpec => []KeepsFollowedGoal
<1>1. FollowInv => KeepsFollowedGoal
  BY DEF FollowInv, KeepInv, KeepsFollowedGoal, Failed
<1> QED BY <1>1, FollowInvariant, PTL
=============================================================================
