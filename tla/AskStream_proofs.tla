---------------------------- MODULE AskStream_proofs ----------------------------
(***************************************************************************)
(* The safety properties of AskStream, for every capacity of the queue and *)
(* every number of progress messages and pieces.                           *)
(*                                                                         *)
(* What the turn wrote is followed through Stream, the client's frames     *)
(* followed by the queue: forwarding leaves it as it is, every write and   *)
(* every other frame appends to it, and the sentinel is dropped from its   *)
(* end.  Kept says of it what these steps preserve.                        *)
(***************************************************************************)
EXTENDS AskStream, SequenceTheorems, TLAPS

Kept(s, n) ==
  /\ \A k \in 1..n : \E i \in DOMAIN s : s[i] = Delta(k)
  /\ \A i, j \in DOMAIN s : i < j /\ s[j].piece > 0 => s[i].piece < s[j].piece
  /\ \A i \in DOMAIN s : s[i].piece <= n

StreamKept == Kept(Stream, emitted)

(* The turn writes progress, pieces and, last and once it has stopped, the *)
(* sentinel.                                                               *)
QueueShape ==
  \A i \in DOMAIN queue :
    /\ queue[i].event \in {"status", "delta", "end"}
    /\ queue[i] = StreamEnd => i = Len(queue) /\ Stopped

(* Past the loop there is nothing left of the turn but its result. *)
PastLoop ==
  /\ at \in {"meta", "delta", "final", "done"} => queue = <<>> /\ task = "returned"
  /\ at = "error" => queue = <<>> /\ Stopped
  /\ task = "returned" => result \in Results

(* The endings that have been sent, for where the generator is. *)
Endings ==
  /\ at \notin {"closing", "closed"} => ~Sent("done") /\ ~Sent("error")
  /\ at = "done" => Sent("final")
  /\ OneEnding

IInv == TypeOK /\ QueueShape /\ PastLoop /\ StreamKept /\ Endings
-----------------------------------------------------------------------------
(* Sequences *)

LEMMA AppendIsMember ==
  ASSUME NEW S, NEW s \in Seq(S), NEW x \in S
  PROVE  /\ Append(s, x) \in Seq(S) /\ Len(Append(s, x)) = Len(s) + 1
         /\ DOMAIN Append(s, x) = 1..(Len(s) + 1) /\ DOMAIN s = 1..Len(s)
         /\ \A i \in 1..Len(s) : Append(s, x)[i] = s[i]
         /\ Append(s, x)[Len(s) + 1] = x
  BY AppendProperties, LenProperties

LEMMA TailIsMember ==
  ASSUME NEW S, NEW s \in Seq(S), s # <<>>
  PROVE  /\ Head(s) \in S /\ Tail(s) \in Seq(S) /\ Len(Tail(s)) = Len(s) - 1
         /\ DOMAIN s = 1..Len(s) /\ Len(s) \in Nat \ {0}
         /\ Head(s) = s[1] /\ DOMAIN Tail(s) = 1..(Len(s) - 1)
         /\ \A i \in 1..(Len(s) - 1) : Tail(s)[i] = s[i + 1]
  BY HeadTailProperties, LenProperties, EmptySeq

(* An item that is no piece changes nothing of Kept. *)
LEMMA KeptAppend ==
  ASSUME NEW s \in Seq(Items), NEW n \in Nat, NEW x \in Items, x.piece = 0, Kept(s, n)
  PROVE  Kept(Append(s, x), n)
<1>1. \A i \in DOMAIN s : i \in DOMAIN Append(s, x) /\ Append(s, x)[i] = s[i]
  BY AppendIsMember
<1>2. \A i \in DOMAIN Append(s, x) :
        \/ i \in DOMAIN s /\ Append(s, x)[i] = s[i]
        \/ i = Len(s) + 1 /\ Append(s, x)[i] = x
  BY AppendIsMember
<1>3. \A i \in DOMAIN s : i < Len(s) + 1
  BY AppendIsMember, LenProperties
<1>4. Len(s) \in Nat /\ DOMAIN Append(s, x) \subseteq Nat
  BY AppendIsMember, LenProperties
<1>5. \A k \in 1..n : \E i \in DOMAIN Append(s, x) : Append(s, x)[i] = Delta(k)
  BY <1>1 DEF Kept
<1>6. \A i, j \in DOMAIN Append(s, x) :
        i < j /\ Append(s, x)[j].piece > 0 => Append(s, x)[i].piece < Append(s, x)[j].piece
  BY <1>2, <1>3, <1>4 DEF Kept
<1>7. \A i \in DOMAIN Append(s, x) : Append(s, x)[i].piece <= n
  BY <1>2 DEF Kept
<1> QED BY <1>5, <1>6, <1>7 DEF Kept

(* The next piece. *)
LEMMA KeptPiece ==
  ASSUME NEW s \in Seq(Items), NEW n \in 0..MaxPieces, n < MaxPieces, Kept(s, n)
  PROVE  Kept(Append(s, Delta(n + 1)), n + 1)
<1> DEFINE x == Delta(n + 1)
           t == Append(s, x)
<1>0. x \in Items /\ x.piece = n + 1 /\ n \in Nat
  BY StreamAssumption DEF Delta, Items, Events
<1>1. \A i \in DOMAIN s : i \in DOMAIN t /\ t[i] = s[i]
  BY <1>0, AppendIsMember
<1>2. \A i \in DOMAIN t :
        \/ i \in DOMAIN s /\ t[i] = s[i]
        \/ i = Len(s) + 1 /\ t[i] = x
  BY <1>0, AppendIsMember
<1>3. \A i \in DOMAIN s : i < Len(s) + 1 /\ s[i].piece \in Nat
  <2>1. \A i \in 1..Len(s) : s[i] \in Items
    BY ElementOfSeq
  <2> QED BY <2>1, LenProperties, StreamAssumption DEF Items
<1>4. Len(s) + 1 \in DOMAIN t /\ t[Len(s) + 1] = x /\ DOMAIN t \subseteq Nat /\ Len(s) \in Nat
  BY <1>0, AppendIsMember, LenProperties
<1> HIDE DEF t
<1>5. \A k \in 1..(n + 1) : \E i \in DOMAIN t : t[i] = Delta(k)
  <2> TAKE k \in 1..(n + 1)
  <2>1. CASE k = n + 1
    BY <1>4, <2>1
  <2>2. CASE k # n + 1
    BY <1>0, <1>1, <2>2 DEF Kept
  <2> QED BY <2>1, <2>2
<1>6. \A i, j \in DOMAIN t : i < j /\ t[j].piece > 0 => t[i].piece < t[j].piece
  <2> SUFFICES ASSUME NEW i \in DOMAIN t, NEW j \in DOMAIN t, i < j, t[j].piece > 0
               PROVE  t[i].piece < t[j].piece
    OBVIOUS
  <2>1. i \in DOMAIN s /\ t[i] = s[i] /\ s[i].piece <= n
    BY <1>2, <1>3, <1>4 DEF Kept
  <2>2. CASE j \in DOMAIN s /\ t[j] = s[j]
    BY <2>1, <2>2 DEF Kept
  <2>3. CASE j = Len(s) + 1 /\ t[j] = x
    BY <1>0, <1>3, <2>1, <2>3
  <2> QED BY <1>2, <2>2, <2>3
<1>7. \A i \in DOMAIN t : t[i].piece <= n + 1
  BY <1>0, <1>2, <1>3 DEF Kept
<1> QED BY <1>5, <1>6, <1>7 DEF Kept, t

(* Dropping the sentinel from the end. *)
LEMMA KeptDrop ==
  ASSUME NEW s \in Seq(Items), NEW n \in Nat, Kept(Append(s, StreamEnd), n)
  PROVE  Kept(s, n)
<1> DEFINE t == Append(s, StreamEnd)
<1>0. StreamEnd \in Items /\ StreamEnd.piece = 0
  BY StreamAssumption DEF StreamEnd, Event, Items, Events
<1>1. \A i \in DOMAIN s : i \in DOMAIN t /\ t[i] = s[i]
  BY <1>0, AppendIsMember
<1>2. \A i \in DOMAIN t : i \in DOMAIN s \/ t[i] = StreamEnd
  BY <1>0, AppendIsMember
<1>3. \A k \in 1..n : Delta(k) # StreamEnd
  BY DEF Delta, StreamEnd, Event
<1> HIDE DEF t
<1>4. Kept(t, n)
  BY DEF t
<1>5. \A k \in 1..n : \E i \in DOMAIN s : s[i] = Delta(k)
  BY <1>1, <1>2, <1>3, <1>4 DEF Kept
<1> QED BY <1>1, <1>4, <1>5 DEF Kept

(* Writing to the queue appends to the stream. *)
LEMMA StreamOfWrite ==
  ASSUME NEW f \in Seq(Items), NEW q \in Seq(Items), NEW x \in Items
  PROVE  f \o Append(q, x) = Append(f \o q, x)
<1> DEFINE a == f \o Append(q, x)
           b == Append(f \o q, x)
<1>1. a \in Seq(Items) /\ b \in Seq(Items) /\ f \o q \in Seq(Items)
  BY ConcatProperties, AppendIsMember
<1>2. Len(a) = Len(f) + Len(q) + 1 /\ Len(b) = Len(f) + Len(q) + 1
      /\ Len(f \o q) = Len(f) + Len(q) /\ Len(f) \in Nat /\ Len(q) \in Nat
  BY ConcatProperties, AppendIsMember, LenProperties, <1>1
<1>3. ASSUME NEW i \in 1..Len(a) PROVE a[i] = b[i]
  <2>1. CASE i <= Len(f)
    BY <1>1, <1>2, <2>1, ConcatProperties, AppendIsMember
  <2>2. CASE Len(f) < i /\ i <= Len(f) + Len(q)
    BY <1>1, <1>2, <2>2, ConcatProperties, AppendIsMember
  <2>3. CASE i = Len(f) + Len(q) + 1
    BY <1>1, <1>2, <2>3, ConcatProperties, AppendIsMember
  <2> QED BY <1>2, <1>3, <2>1, <2>2, <2>3
<1> QED BY <1>1, <1>2, <1>3, SeqEqual

(* Forwarding leaves the stream as it is. *)
LEMMA StreamOfForward ==
  ASSUME NEW f \in Seq(Items), NEW q \in Seq(Items), q # <<>>
  PROVE  Append(f, Head(q)) \o Tail(q) = f \o q
<1> DEFINE h == Append(f, Head(q))
           a == h \o Tail(q)
           b == f \o q
<1>1. /\ Head(q) \in Items /\ Tail(q) \in Seq(Items) /\ Len(Tail(q)) = Len(q) - 1
      /\ Len(q) \in Nat \ {0} /\ Head(q) = q[1]
      /\ \A i \in 1..(Len(q) - 1) : Tail(q)[i] = q[i + 1]
  BY TailIsMember
<1>2. /\ h \in Seq(Items) /\ Len(h) = Len(f) + 1 /\ Len(f) \in Nat
      /\ \A i \in 1..Len(f) : h[i] = f[i]
      /\ h[Len(f) + 1] = Head(q)
  BY <1>1, AppendIsMember, LenProperties
<1> HIDE DEF h
<1>3. a \in Seq(Items) /\ b \in Seq(Items)
      /\ Len(a) = Len(f) + Len(q) /\ Len(b) = Len(f) + Len(q)
  <2>1. a \in Seq(Items) /\ Len(a) = Len(h) + Len(Tail(q))
    BY <1>1, <1>2, ConcatProperties
  <2>2. b \in Seq(Items) /\ Len(b) = Len(f) + Len(q)
    BY ConcatProperties
  <2> QED BY <1>1, <1>2, <2>1, <2>2
<1>4. ASSUME NEW i \in 1..Len(a) PROVE a[i] = b[i]
  <2>0. /\ a[i] = IF i <= Len(h) THEN h[i] ELSE Tail(q)[i - Len(h)]
        /\ b[i] = IF i <= Len(f) THEN f[i] ELSE q[i - Len(f)]
    BY <1>1, <1>2, <1>3, ConcatProperties
  <2> HIDE DEF a, b
  <2>1. CASE i <= Len(f)
    BY <1>1, <1>2, <1>3, <2>0, <2>1
  <2>2. CASE i = Len(f) + 1
    <3>1. a[i] = Head(q)
      BY <1>2, <2>0, <2>2
    <3>2. i - Len(f) = 1 /\ ~(i <= Len(f))
      BY <1>2, <2>2
    <3> QED BY <1>1, <2>0, <3>1, <3>2
  <2>3. CASE i > Len(f) + 1
    BY <1>1, <1>2, <1>3, <2>0, <2>3
  <2> QED BY <1>2, <1>3, <2>1, <2>2, <2>3
<1> QED BY <1>3, <1>4, SeqEqual DEF h
-----------------------------------------------------------------------------
(* Items and the actions' helpers *)

LEMMA ItemsMade ==
  /\ StreamEnd \in Items /\ StreamEnd.piece = 0 /\ StreamEnd.event = "end"
  /\ \A e \in Events : Event(e) \in Items /\ Event(e).piece = 0 /\ Event(e).event = e
  /\ \A n \in 0..MaxPieces : Delta(n) \in Items /\ Delta(n).piece = n /\ Delta(n).event = "delta"
  /\ 0 \in 0..MaxPieces
  BY StreamAssumption DEF StreamEnd, Event, Delta, Items, Events

(* Closing the queue appends the sentinel or, when it is full, nothing. *)
LEMMA QueueClosed ==
  ASSUME TypeOK
  PROVE  /\ Closed(queue) \in Seq(Items) /\ Len(Closed(queue)) <= Capacity
         /\ Closed(queue) \in {queue, Append(queue, StreamEnd)}
<1>1. CASE Len(queue) < Capacity
  BY <1>1, ItemsMade, AppendIsMember, LenProperties, StreamAssumption DEF Closed, TypeOK
<1>2. CASE ~(Len(queue) < Capacity)
  BY <1>2 DEF Closed, TypeOK
<1> QED BY <1>1, <1>2

(* What the disjuncts of Next leave alone and what they do to the queue    *)
(* and to the frames.                                                      *)
LEMMA Writes ==
  ASSUME TypeOK, NEW x \in Items, Write(x)
  PROVE  queue' = Append(queue, x) /\ queue' \in Seq(Items) /\ Len(queue') <= Capacity
<1>1. queue' = Append(queue, x) /\ Len(queue) < Capacity
  BY DEF Write, Room
<1>2. queue' \in Seq(Items) /\ Len(queue') = Len(queue) + 1
  BY <1>1, AppendIsMember DEF TypeOK
<1>3. Len(queue) \in Nat
  BY LenProperties DEF TypeOK
<1> QED BY <1>1, <1>2, <1>3, StreamAssumption

LEMMA Sends ==
  ASSUME TypeOK, NEW x \in Items, Send(x)
  PROVE  frames' = Append(frames, x) /\ frames' \in Seq(Items) /\ ~gone
  BY AppendIsMember DEF Send, TypeOK
-----------------------------------------------------------------------------
(* Type correctness *)

LEMMA InitTyped == Init => TypeOK
<1> SUFFICES ASSUME Init PROVE TypeOK
  OBVIOUS
<1>1. Event("status") \in Items
  BY ItemsMade DEF Events
<1>2. frames \in Seq(Items)
  BY <1>1 DEF Init
<1>3. queue \in Seq(Items) /\ Len(queue) <= Capacity
  BY EmptySeq, StreamAssumption DEF Init
<1>4. statuses \in 0..MaxStatuses /\ emitted \in 0..MaxPieces
  BY StreamAssumption DEF Init
<1> QED BY <1>2, <1>3, <1>4 DEF Init, TypeOK

LEMMA TypeStep ==
  ASSUME IInv, [Next]_vars
  PROVE  TypeOK'
<1> USE DEF TypeOK, IInv
<1>1. CASE EmitStatus
  <2>1. Event("status") \in Items
    BY ItemsMade DEF Events
  <2>2. statuses + 1 \in 0..MaxStatuses
    BY <1>1, StreamAssumption DEF EmitStatus
  <2> QED BY <1>1, <2>1, <2>2, Writes DEF EmitStatus
<1>2. CASE StartAnswer
  <2>1. Event("status") \in Items
    BY ItemsMade DEF Events
  <2> QED BY <1>2, <2>1, Writes DEF StartAnswer
<1>3. CASE EmitDelta
  <2>1. Delta(emitted + 1) \in Items /\ emitted + 1 \in 0..MaxPieces
    BY <1>3, ItemsMade, StreamAssumption DEF EmitDelta
  <2> QED BY <1>3, <2>1, Writes DEF EmitDelta
<1>4. CASE AnswerDone
  BY <1>4 DEF AnswerDone
<1>5. CASE RunReturns
  <2>1. Outcomes \subseteq Results
    BY DEF Outcomes, Results
  <2> QED BY <1>5, <2>1, QueueClosed DEF RunReturns
<1>6. CASE RunRaises
  BY <1>6, QueueClosed DEF RunRaises, runVars
<1>7. CASE RunCancelled
  BY <1>7, QueueClosed DEF RunCancelled, runVars
<1>8. CASE Forward
  <2>1. Head(queue) \in Items /\ Tail(queue) \in Seq(Items) /\ Len(Tail(queue)) <= Len(queue)
    BY <1>8, TailIsMember DEF Forward
  <2>2. Len(Tail(queue)) <= Capacity
    BY <2>1, LenProperties, StreamAssumption
  <2> QED BY <1>8, <2>1, <2>2, Sends DEF Forward, runVars
<1>9. CASE EndLoop
  <2>1. Tail(queue) \in Seq(Items) /\ Len(Tail(queue)) <= Len(queue)
    BY <1>9, TailIsMember DEF EndLoop
  <2>2. Len(Tail(queue)) <= Capacity
    BY <2>1, LenProperties, StreamAssumption
  <2> QED BY <1>9, <2>1, <2>2 DEF EndLoop, runVars
<1>10. CASE KeepAlive
  <2>1. Event("keepalive") \in Items
    BY ItemsMade DEF Events
  <2> QED BY <1>10, <2>1, Sends DEF KeepAlive, runVars
<1>11. CASE Meta
  <2>1. Event("meta") \in Items
    BY ItemsMade DEF Events
  <2> QED BY <1>11, <2>1, Sends DEF Meta, runVars
<1>12. CASE WholeAnswer
  BY <1>12, ItemsMade, Sends DEF WholeAnswer, runVars
<1>13. CASE Final
  <2>1. Event("final") \in Items
    BY ItemsMade DEF Events
  <2> QED BY <1>13, <2>1, Sends DEF Final, runVars
<1>14. CASE Done
  <2>1. Event("done") \in Items
    BY ItemsMade DEF Events
  <2> QED BY <1>14, <2>1, Sends DEF Done, runVars
<1>15. CASE ErrorFrame
  <2>1. Event("error") \in Items
    BY ItemsMade DEF Events
  <2> QED BY <1>15, <2>1, Sends DEF ErrorFrame, runVars
<1>16. CASE Close
  BY <1>16 DEF Close, CancelledTask, runVars
<1>17. CASE Closing
  BY <1>17 DEF Closing, runVars
<1>18. CASE Disconnect
  BY <1>18 DEF Disconnect, runVars
<1>19. CASE UNCHANGED vars
  BY <1>19 DEF vars, runVars
<1> QED
  BY <1>1, <1>2, <1>3, <1>4, <1>5, <1>6, <1>7, <1>8, <1>9, <1>10, <1>11, <1>12,
     <1>13, <1>14, <1>15, <1>16, <1>17, <1>18, <1>19 DEF Next, Run, Respond
-----------------------------------------------------------------------------
(* The shape of the queue *)

LEMMA NoSentinel ==
  ASSUME QueueShape, ~Stopped
  PROVE  \A i \in DOMAIN queue : queue[i] # StreamEnd
  BY DEF QueueShape

LEMMA ShapeOfWrite ==
  ASSUME TypeOK, QueueShape, ~Stopped, NEW x \in Items, Write(x),
         x.event \in {"status", "delta"}
  PROVE  QueueShape'
<1>1. queue' = Append(queue, x)
  BY Writes
<1>2. \A i \in DOMAIN queue' :
        \/ i \in DOMAIN queue /\ queue'[i] = queue[i]
        \/ queue'[i] = x
  BY <1>1, AppendIsMember DEF TypeOK
<1>3. x # StreamEnd
  BY ItemsMade
<1> QED BY <1>2, <1>3, NoSentinel DEF QueueShape

LEMMA ShapeOfClosed ==
  ASSUME TypeOK, QueueShape, ~Stopped, Stopped', queue' = Closed(queue)
  PROVE  QueueShape'
<1>1. CASE queue' = queue
  BY <1>1, NoSentinel DEF QueueShape
<1>2. CASE queue' = Append(queue, StreamEnd)
  <2>1. \A i \in DOMAIN queue' :
          \/ i \in DOMAIN queue /\ queue'[i] = queue[i]
          \/ i = Len(queue') /\ queue'[i] = StreamEnd
    BY <1>2, ItemsMade, AppendIsMember DEF TypeOK
  <2> QED BY <2>1, ItemsMade, NoSentinel DEF QueueShape
<1> QED BY <1>1, <1>2, QueueClosed

LEMMA ShapeOfTail ==
  ASSUME TypeOK, QueueShape, queue # <<>>, queue' = Tail(queue), UNCHANGED task
  PROVE  QueueShape'
<1>1. \A i \in DOMAIN queue' : i + 1 \in DOMAIN queue /\ queue'[i] = queue[i + 1]
  BY TailIsMember DEF TypeOK
<1>2. Len(queue') = Len(queue) - 1 /\ Len(queue) \in Nat \ {0} /\ DOMAIN queue' \subseteq Nat
  BY TailIsMember DEF TypeOK
<1>3. Stopped' = Stopped
  BY DEF Stopped
<1> QED BY <1>1, <1>2, <1>3 DEF QueueShape

LEMMA ShapeStep ==
  ASSUME IInv, [Next]_vars
  PROVE  QueueShape'
<1> USE DEF IInv
<1>1. CASE EmitStatus \/ StartAnswer
  <2>1. Event("status") \in Items /\ Event("status").event = "status"
    BY ItemsMade DEF Events
  <2> QED BY <1>1, <2>1, ShapeOfWrite DEF EmitStatus, StartAnswer, Stopped
<1>2. CASE EmitDelta
  <2>1. Delta(emitted + 1) \in Items /\ Delta(emitted + 1).event = "delta"
    BY <1>2, ItemsMade, StreamAssumption DEF EmitDelta, TypeOK
  <2> QED BY <1>2, <2>1, ShapeOfWrite DEF EmitDelta, Stopped
<1>3. CASE RunReturns \/ RunRaises \/ RunCancelled
  BY <1>3, ShapeOfClosed DEF RunReturns, RunRaises, RunCancelled, Stopped
<1>4. CASE Forward \/ EndLoop
  BY <1>4, ShapeOfTail DEF Forward, EndLoop
<1>5. CASE Close
  BY <1>5 DEF Close, CancelledTask, QueueShape, Stopped
<1>6. CASE AnswerDone \/ KeepAlive \/ Meta \/ WholeAnswer \/ Final \/ Done \/ ErrorFrame
           \/ Closing \/ Disconnect \/ UNCHANGED vars
  <2>1. UNCHANGED <<queue, task>>
    BY <1>6 DEF AnswerDone, KeepAlive, Meta, WholeAnswer, Final, Done, ErrorFrame, Closing,
                Disconnect, vars
  <2> QED BY <2>1 DEF QueueShape, Stopped
<1> QED
  BY <1>1, <1>2, <1>3, <1>4, <1>5, <1>6 DEF Next, Run, Respond
-----------------------------------------------------------------------------
(* Past the loop *)

(* The sentinel at the head of the queue is the whole queue. *)
LEMMA SentinelIsLast ==
  ASSUME TypeOK, QueueShape, queue # <<>>, Head(queue) = StreamEnd
  PROVE  Tail(queue) = <<>> /\ Len(queue) = 1
<1>1. 1 \in DOMAIN queue /\ queue[1] = StreamEnd
  BY TailIsMember DEF TypeOK
<1>2. Len(queue) = 1
  BY <1>1 DEF QueueShape
<1>3. Tail(queue) \in Seq(Items) /\ Len(Tail(queue)) = Len(queue) - 1
  BY TailIsMember DEF TypeOK
<1>4. \A s \in Seq(Items) : Len(s) = 0 => s = <<>>
  BY EmptySeq
<1>5. Len(Tail(queue)) = 0
  BY <1>2, <1>3
<1>6. Tail(queue) = <<>>
  BY <1>3, <1>4, <1>5, Zenon
<1> QED BY <1>2, <1>6

LEMMA PastLoopStep ==
  ASSUME IInv, [Next]_vars
  PROVE  PastLoop'
<1> USE DEF IInv
<1>1. CASE EmitStatus \/ StartAnswer \/ EmitDelta \/ AnswerDone
  BY <1>1 DEF EmitStatus, StartAnswer, EmitDelta, AnswerDone, PastLoop, Stopped
<1>2. CASE RunReturns
  <2>1. Outcomes \subseteq Results
    BY DEF Outcomes, Results, TypeOK
  <2> QED BY <1>2, <2>1 DEF RunReturns, PastLoop, Stopped
<1>3. CASE RunRaises \/ RunCancelled
  BY <1>3 DEF RunRaises, RunCancelled, PastLoop, Stopped, runVars
<1>4. CASE Forward \/ KeepAlive
  BY <1>4 DEF Forward, KeepAlive, PastLoop, Stopped, runVars
<1>5. CASE EndLoop
  <2>1. queue' = <<>>
    BY <1>5, SentinelIsLast DEF EndLoop, EndsLoop
  <2> QED BY <1>5, <2>1 DEF EndLoop, PastLoop, Stopped, runVars
<1>6. CASE Meta \/ WholeAnswer \/ Final \/ Done \/ ErrorFrame
  BY <1>6 DEF Meta, WholeAnswer, Final, Done, ErrorFrame, PastLoop, Stopped, runVars
<1>7. CASE Close
  BY <1>7 DEF Close, CancelledTask, PastLoop, Stopped, runVars
<1>8. CASE Closing
  BY <1>8 DEF Closing, PastLoop, Stopped, runVars
<1>9. CASE Disconnect \/ UNCHANGED vars
  BY <1>9 DEF Disconnect, PastLoop, Stopped, runVars, vars
<1> QED
  BY <1>1, <1>2, <1>3, <1>4, <1>5, <1>6, <1>7, <1>8, <1>9 DEF Next, Run, Respond
-----------------------------------------------------------------------------
(* Pieces *)

(* A frame or an item that is no piece. *)
LEMMA KeptFrame ==
  ASSUME IInv, NEW x \in Items, x.piece = 0, Send(x), queue = <<>>, UNCHANGED <<queue, emitted>>
  PROVE  StreamKept'
<1>1. frames' = Append(frames, x) /\ frames' \in Seq(Items)
  BY Sends DEF IInv
<1>2. Stream = frames /\ Stream' = Append(frames, x)
  BY <1>1, ConcatEmptySeq DEF Stream, IInv, TypeOK
<1> QED BY <1>2, KeptAppend DEF IInv, StreamKept, TypeOK

LEMMA KeptItem ==
  ASSUME IInv, NEW x \in Items, x.piece = 0, queue' = Append(queue, x),
         UNCHANGED <<frames, emitted>>
  PROVE  StreamKept'
<1>1. Stream' = Append(Stream, x)
  BY StreamOfWrite DEF Stream, IInv, TypeOK
<1>2. Stream \in Seq(Items) /\ emitted \in Nat
  BY ConcatProperties DEF Stream, IInv, TypeOK
<1> QED BY <1>1, <1>2, KeptAppend DEF IInv, StreamKept

LEMMA KeptSame ==
  ASSUME IInv, UNCHANGED <<frames, queue, emitted>>
  PROVE  StreamKept'
  BY DEF IInv, StreamKept, Stream

LEMMA KeptClosed ==
  ASSUME IInv, queue' = Closed(queue), UNCHANGED <<frames, emitted>>
  PROVE  StreamKept'
  BY KeptItem, KeptSame, QueueClosed, ItemsMade DEF IInv

LEMMA KeptStep ==
  ASSUME IInv, [Next]_vars
  PROVE  StreamKept'
<1>1. CASE EmitStatus \/ StartAnswer
  <2>1. Event("status") \in Items /\ Event("status").piece = 0
    BY ItemsMade DEF Events
  <2> QED BY <1>1, <2>1, KeptItem DEF EmitStatus, StartAnswer, Write
<1>2. CASE EmitDelta
  <2>1. emitted \in 0..MaxPieces /\ emitted < MaxPieces /\ emitted' = emitted + 1
    BY <1>2 DEF EmitDelta, IInv, TypeOK
  <2>2. Delta(emitted + 1) \in Items
    BY <2>1, ItemsMade, StreamAssumption
  <2>3. Stream' = Append(Stream, Delta(emitted + 1))
    BY <1>2, <2>2, StreamOfWrite DEF EmitDelta, Write, Stream, IInv, TypeOK
  <2>4. Stream \in Seq(Items)
    BY ConcatProperties DEF Stream, IInv, TypeOK
  <2> QED BY <2>1, <2>3, <2>4, KeptPiece DEF StreamKept, IInv
<1>3. CASE RunReturns \/ RunRaises \/ RunCancelled
  BY <1>3, KeptClosed DEF RunReturns, RunRaises, RunCancelled, runVars
<1>4. CASE Forward
  <2>1. Stream' = Stream
    BY <1>4, StreamOfForward DEF Forward, Send, Stream, IInv, TypeOK
  <2> QED BY <1>4, <2>1 DEF Forward, runVars, StreamKept, IInv
<1>5. CASE EndLoop
  <2>1. Tail(queue) = <<>> /\ Len(queue) = 1 /\ Head(queue) = StreamEnd
    BY <1>5, SentinelIsLast DEF EndLoop, EndsLoop, IInv
  <2>2. queue = Append(<<>>, StreamEnd)
    <3>1. <<>> \in Seq(Items) /\ Len(<<>>) = 0
      BY EmptySeq
    <3>2. queue[1] = StreamEnd
      BY <1>5, <2>1, TailIsMember DEF EndLoop, IInv, TypeOK
    <3>3. Append(<<>>, StreamEnd) \in Seq(Items) /\ Len(Append(<<>>, StreamEnd)) = 1
          /\ Append(<<>>, StreamEnd)[1] = StreamEnd
      BY <3>1, ItemsMade, AppendIsMember
    <3> QED BY <2>1, <3>2, <3>3, SeqEqual DEF IInv, TypeOK
  <2>3. Stream = Append(frames, StreamEnd)
    BY <2>2, StreamOfWrite, ConcatEmptySeq, EmptySeq, ItemsMade DEF Stream, IInv, TypeOK
  <2>4. Stream' = frames
    BY <1>5, <2>1, ConcatEmptySeq DEF EndLoop, Stream, IInv, TypeOK
  <2> QED BY <1>5, <2>3, <2>4, KeptDrop DEF EndLoop, runVars, StreamKept, IInv, TypeOK
<1>6. CASE KeepAlive
  <2>1. Event("keepalive") \in Items /\ Event("keepalive").piece = 0
    BY ItemsMade DEF Events
  <2> QED BY <1>6, <2>1, KeptFrame DEF KeepAlive, runVars
<1>7. CASE Meta
  <2>1. Event("meta") \in Items /\ Event("meta").piece = 0
    BY ItemsMade DEF Events
  <2> QED BY <1>7, <2>1, KeptFrame DEF Meta, runVars, IInv, PastLoop
<1>8. CASE WholeAnswer
  BY <1>8, ItemsMade, KeptFrame DEF WholeAnswer, runVars, IInv, PastLoop
<1>9. CASE Final
  <2>1. Event("final") \in Items /\ Event("final").piece = 0
    BY ItemsMade DEF Events
  <2> QED BY <1>9, <2>1, KeptFrame DEF Final, runVars, IInv, PastLoop
<1>10. CASE Done
  <2>1. Event("done") \in Items /\ Event("done").piece = 0
    BY ItemsMade DEF Events
  <2> QED BY <1>10, <2>1, KeptFrame DEF Done, runVars, IInv, PastLoop
<1>11. CASE ErrorFrame
  <2>1. Event("error") \in Items /\ Event("error").piece = 0
    BY ItemsMade DEF Events
  <2> QED BY <1>11, <2>1, KeptFrame DEF ErrorFrame, runVars, IInv, PastLoop
<1>12. CASE AnswerDone \/ Close \/ Closing \/ Disconnect \/ UNCHANGED vars
  BY <1>12, KeptSame DEF AnswerDone, Close, Closing, Disconnect, vars, runVars
<1> QED
  BY <1>1, <1>2, <1>3, <1>4, <1>5, <1>6, <1>7, <1>8, <1>9, <1>10, <1>11, <1>12
  DEF Next, Run, Respond
-----------------------------------------------------------------------------
(* Endings *)

(* Sending adds one event to those that have been sent. *)
LEMMA SentAfter ==
  ASSUME TypeOK, NEW x \in Items, Send(x), NEW e
  PROVE  Sent(e)' <=> Sent(e) \/ x.event = e
<1>1. /\ \A i \in DOMAIN frames : i \in DOMAIN frames' /\ frames'[i] = frames[i]
      /\ Len(frames) + 1 \in DOMAIN frames' /\ frames'[Len(frames) + 1] = x
      /\ \A i \in DOMAIN frames' : i \in DOMAIN frames \/ i = Len(frames) + 1
  BY AppendIsMember, LenProperties DEF TypeOK, Send
<1> QED BY <1>1 DEF Sent

LEMMA SentSame ==
  ASSUME UNCHANGED frames, NEW e
  PROVE  Sent(e)' <=> Sent(e)
  BY DEF Sent

LEMMA EndingsStep ==
  ASSUME IInv, [Next]_vars
  PROVE  Endings'
<1> USE DEF IInv
<1>1. CASE EmitStatus \/ StartAnswer \/ EmitDelta \/ AnswerDone
  BY <1>1, SentSame DEF EmitStatus, StartAnswer, EmitDelta, AnswerDone, Endings, OneEnding
<1>2. CASE RunReturns \/ RunRaises \/ RunCancelled
  BY <1>2, SentSame DEF RunReturns, RunRaises, RunCancelled, Endings, OneEnding
<1>3. CASE Forward
  <2>1. Head(queue) \in Items /\ Head(queue).event \in {"status", "delta", "end"}
    BY <1>3, TailIsMember DEF Forward, TypeOK, QueueShape
  <2>2. /\ Sent("done")' <=> Sent("done")
        /\ Sent("error")' <=> Sent("error")
    BY <1>3, <2>1, SentAfter DEF Forward
  <2> QED BY <1>3, <2>2 DEF Forward, Endings, OneEnding
<1>4. CASE EndLoop
  BY <1>4, SentSame DEF EndLoop, Endings, OneEnding
<1>5. CASE KeepAlive
  <2>1. Event("keepalive") \in Items /\ Event("keepalive").event = "keepalive"
    BY ItemsMade DEF Events
  <2>2. /\ Sent("done")' <=> Sent("done")
        /\ Sent("error")' <=> Sent("error")
    BY <1>5, <2>1, SentAfter DEF KeepAlive
  <2> QED BY <1>5, <2>2 DEF KeepAlive, Endings, OneEnding
<1>6. CASE Meta
  <2>1. Event("meta") \in Items /\ Event("meta").event = "meta"
    BY ItemsMade DEF Events
  <2>2. /\ Sent("done")' <=> Sent("done")
        /\ Sent("error")' <=> Sent("error")
    BY <1>6, <2>1, SentAfter DEF Meta
  <2> QED BY <1>6, <2>2 DEF Meta, Endings, OneEnding
<1>7. CASE WholeAnswer
  <2>1. Delta(0) \in Items /\ Delta(0).event = "delta"
    BY ItemsMade
  <2>2. /\ Sent("done")' <=> Sent("done")
        /\ Sent("error")' <=> Sent("error")
    BY <1>7, <2>1, SentAfter DEF WholeAnswer
  <2> QED BY <1>7, <2>2 DEF WholeAnswer, Endings, OneEnding
<1>8. CASE Final
  <2>1. Event("final") \in Items /\ Event("final").event = "final"
    BY ItemsMade DEF Events
  <2>2. /\ Sent("done")' <=> Sent("done")
        /\ Sent("error")' <=> Sent("error")
        /\ Sent("final")'
    BY <1>8, <2>1, SentAfter DEF Final
  <2> QED BY <1>8, <2>2 DEF Final, Endings, OneEnding
<1>9. CASE Done
  <2>1. Event("done") \in Items /\ Event("done").event = "done"
    BY ItemsMade DEF Events
  <2>2. /\ Sent("done")'
        /\ Sent("error")' <=> Sent("error")
        /\ Sent("final")' <=> Sent("final")
    BY <1>9, <2>1, SentAfter DEF Done
  <2> QED BY <1>9, <2>2 DEF Done, Endings, OneEnding
<1>10. CASE ErrorFrame
  <2>1. Event("error") \in Items /\ Event("error").event = "error"
    BY ItemsMade DEF Events
  <2>2. /\ Sent("done")' <=> Sent("done")
        /\ Sent("error")'
    BY <1>10, <2>1, SentAfter DEF ErrorFrame
  <2> QED BY <1>10, <2>2 DEF ErrorFrame, Endings, OneEnding
<1>11. CASE Close \/ Closing \/ Disconnect \/ UNCHANGED vars
  BY <1>11, SentSame DEF Close, Closing, Disconnect, vars, Endings, OneEnding
<1> QED
  BY <1>1, <1>2, <1>3, <1>4, <1>5, <1>6, <1>7, <1>8, <1>9, <1>10, <1>11
  DEF Next, Run, Respond
-----------------------------------------------------------------------------
(* Once the generator is closing, the task is no longer "running". *)
Unwinding == at \in {"closing", "closed"} => task # "running"

LEMMA UnwindingStep ==
  ASSUME IInv, Unwinding, [Next]_vars
  PROVE  Unwinding' /\ (Run => at \notin {"closing", "closed"})
<1> USE DEF IInv
<1>0. Run => at \notin {"closing", "closed"}
  BY DEF Run, EmitStatus, StartAnswer, EmitDelta, AnswerDone, RunReturns, RunRaises, Unwinding
<1>1. CASE Run
  BY <1>1 DEF Run, EmitStatus, StartAnswer, EmitDelta, AnswerDone, RunReturns, RunRaises, Unwinding
<1>2. CASE RunCancelled \/ Disconnect
  BY <1>0, <1>2 DEF RunCancelled, Disconnect, Unwinding
<1>3. CASE Forward \/ EndLoop \/ KeepAlive \/ Meta \/ WholeAnswer \/ Final
  BY <1>0, <1>3 DEF Forward, EndLoop, KeepAlive, Meta, WholeAnswer, Final, Unwinding
<1>4. CASE Done \/ ErrorFrame
  BY <1>0, <1>4 DEF Done, ErrorFrame, Unwinding, PastLoop, Stopped
<1>5. CASE Close
  BY <1>0, <1>5 DEF Close, CancelledTask, Unwinding
<1>6. CASE Closing \/ UNCHANGED vars
  BY <1>0, <1>6 DEF Closing, vars, Unwinding
<1> QED
  BY <1>1, <1>2, <1>3, <1>4, <1>5, <1>6 DEF Next, Respond
-----------------------------------------------------------------------------
(* The invariant and what follows from it *)

LEMMA InitInductive == Init => IInv /\ Unwinding
<1> SUFFICES ASSUME Init PROVE IInv /\ Unwinding
  OBVIOUS
<1>1. TypeOK
  BY InitTyped
<1>2. Event("status") \in Items /\ Event("status").piece = 0 /\ Event("status").event = "status"
  BY ItemsMade DEF Events
<1>3. frames = Append(<<>>, Event("status")) /\ <<>> \in Seq(Items) /\ Len(<<>>) = 0
  BY EmptySeq DEF Init
<1>4. QueueShape /\ PastLoop /\ Unwinding
  BY <1>3, LenProperties DEF Init, QueueShape, PastLoop, Unwinding
<1>5. StreamKept
  <2>1. Kept(<<>>, 0)
    BY <1>3, LenProperties DEF Kept
  <2>2. Stream = frames
    BY <1>1, ConcatEmptySeq DEF Init, Stream, TypeOK
  <2> QED BY <1>2, <1>3, <2>1, <2>2, KeptAppend DEF Init, StreamKept
<1>6. Endings
  <2>1. \A i \in DOMAIN frames : frames[i].event = "status"
    BY <1>2, <1>3, AppendIsMember
  <2> QED BY <2>1 DEF Init, Endings, OneEnding, Sent
<1> QED BY <1>1, <1>4, <1>5, <1>6 DEF IInv

LEMMA StepInductive == IInv /\ Unwinding /\ [Next]_vars => IInv' /\ Unwinding'
<1> SUFFICES ASSUME IInv, Unwinding, [Next]_vars PROVE IInv' /\ Unwinding'
  OBVIOUS
<1>1. TypeOK' /\ QueueShape' /\ PastLoop'
  BY TypeStep, ShapeStep, PastLoopStep
<1>2. StreamKept' /\ Endings' /\ Unwinding'
  BY KeptStep, EndingsStep, UnwindingStep
<1> QED BY <1>1, <1>2 DEF IInv

(* Every reachable state satisfies the strengthened invariant. *)
THEOREM StreamInductive == Spec => [](IInv /\ Unwinding)
  BY InitInductive, StepInductive, PTL DEF Spec

(* The queue never holds more than its capacity and carries only the       *)
(* items writer() and produce() put into it.                               *)
THEOREM StreamTyped == Spec => []TypeOK
<1>1. IInv => TypeOK
  BY DEF IInv
<1> QED BY <1>1, StreamInductive, PTL

(* writer(): backpressure neither loses nor reorders a piece of an answer. *)
THEOREM PiecesAreKept == Spec => []PiecesKept
<1>1. IInv => PiecesKept
  BY DEF IInv, StreamKept, Kept, PiecesKept
<1> QED BY <1>1, StreamInductive, PTL

(* stream(): the terminal frames follow everything the turn wrote.         *)
THEOREM TerminalFramesLast == Spec => []NothingAfterTheSentinel
<1>1. IInv => NothingAfterTheSentinel
  BY DEF IInv, PastLoop, NothingAfterTheSentinel
<1> QED BY <1>1, StreamInductive, PTL

(* stream(): a response ends once, and a client that stayed is told how.   *)
THEOREM EndsOnce == Spec => []OneEnding
<1>1. IInv => OneEnding
  BY DEF IInv, Endings
<1> QED BY <1>1, StreamInductive, PTL

(* The finally block of stream(): no work is done for a closed response.   *)
THEOREM NoOrphanedWork == Spec => NoWorkAfterClose
<1>1. IInv /\ Unwinding /\ [Next]_vars => [Run => at \notin {"closing", "closed"}]_vars
  BY UnwindingStep
<1> QED BY <1>1, StreamInductive, PTL DEF Spec, NoWorkAfterClose
=============================================================================
