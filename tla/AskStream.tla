------------------------------- MODULE AskStream -------------------------------
(***************************************************************************)
(* One streamed turn (copilot_service.stream behind POST /ask/stream): a   *)
(* producer task runs the turn and writes status and delta items to a      *)
(* bounded queue, the response generator forwards them to the client, adds *)
(* the terminal frames, and cancels the producer when it is closed early.  *)
(*                                                                         *)
(* The turn itself is CopilotTurn's; here it is what it writes and how it  *)
(* ends.  Pieces of the answer are numbered in the order the model makes   *)
(* them, and a delta that carries a whole answer has number 0.             *)
(***************************************************************************)
EXTENDS Naturals, Sequences

CONSTANTS
  Capacity,     \* _STREAM_QUEUE_MAX
  MaxStatuses,  \* bound on the progress messages of a turn
  MaxPieces     \* bound on the pieces of a streamed answer

ASSUME StreamAssumption ==
  /\ Capacity \in Nat \ {0}
  /\ MaxStatuses \in Nat /\ MaxPieces \in Nat

VARIABLES
  task,      \* the producer task
  phase,     \* what the turn is doing: "graph", "answer" (streaming it), "tail"
  statuses,  \* progress messages written
  emitted,   \* pieces written
  queue,
  result,    \* what run() returned, once task is "returned"
  at,        \* where the response generator is
  frames,    \* what the client has been sent
  gone       \* the client has disconnected

runVars == <<phase, statuses, emitted, result>>
vars == <<task, runVars, queue, at, frames, gone>>
-----------------------------------------------------------------------------
(* Frames and queue items *)

Event(name) == [event |-> name, piece |-> 0]
Delta(n) == [event |-> "delta", piece |-> n]
StreamEnd == Event("end")

Events == {"status", "keepalive", "delta", "meta", "final", "done", "error", "end"}
Items == [event : Events, piece : 0..MaxPieces]

(* `text` says that the answer is not empty. *)
Results == [type : {"analytics", "error", "other"}, text : BOOLEAN]
Pending == Event("pending")  \* no result yet

(* writer() awaits room in the queue. *)
Room == Len(queue) < Capacity

Stopped == task \notin {"running", "cancelling"}

Sent(name) == \E i \in DOMAIN frames : frames[i].event = name
-----------------------------------------------------------------------------
(* The client has been sent the first status, and the task exists. *)
Init ==
  /\ task = "running" /\ phase = "graph"
  /\ statuses = 0 /\ emitted = 0
  /\ queue = <<>> /\ result = Pending
  /\ at = "loop" /\ frames = <<Event("status")>>
  /\ gone = FALSE

(* A bug: the writer drops what does not fit. *)
WriteOrDrop(item) == queue' = IF Room THEN Append(queue, item) ELSE queue

Write(item) == Room /\ queue' = Append(queue, item)

(* emit_status at the entry of the lookup, plan, validate, run and analyse *)
(* nodes, some of them again on every retry.                               *)
EmitStatus ==
  /\ task = "running" /\ phase = "graph"
  /\ statuses < MaxStatuses
  /\ statuses' = statuses + 1
  /\ Write(Event("status"))
  /\ UNCHANGED <<task, phase, emitted, result, at, frames, gone>>

(* Analysing rows on a streamed turn announces and then streams the answer. *)
StartAnswer ==
  /\ task = "running" /\ phase = "graph"
  /\ phase' = "answer"
  /\ Write(Event("status"))
  /\ UNCHANGED <<task, statuses, emitted, result, at, frames, gone>>

EmitDelta ==
  /\ task = "running" /\ phase = "answer"
  /\ emitted < MaxPieces
  /\ emitted' = emitted + 1
  /\ Write(Delta(emitted + 1))
  /\ UNCHANGED <<task, phase, statuses, result, at, frames, gone>>

AnswerDone ==
  /\ task = "running" /\ phase = "answer"
  /\ phase' = "tail"
  /\ UNCHANGED <<task, statuses, emitted, queue, result, at, frames, gone>>

(* produce() closes the queue without waiting: put_nowait on a full queue  *)
(* raises QueueFull, which is suppressed.                                  *)
Closed(q) == IF Len(q) < Capacity THEN Append(q, StreamEnd) ELSE q

(* What run() can return: any answer from the graph, the streamed answer   *)
(* after its last piece, and its own error wherever the turn fails or      *)
(* api_timeout strikes.                                                    *)
Outcomes ==
  [type : {"error"}, text : {TRUE}] \union
  (CASE phase = "graph" -> [type : {"analytics", "other"}, text : BOOLEAN]
     [] phase = "answer" -> {}
     [] phase = "tail" -> [type : {"analytics"}, text : {TRUE}])

RunReturns ==
  /\ task = "running"
  /\ task' = "returned"
  /\ result' \in Outcomes
  /\ queue' = Closed(queue)
  /\ UNCHANGED <<phase, statuses, emitted, at, frames, gone>>

(* An exception outside run()'s own handler. *)
RunRaises ==
  /\ task = "running"
  /\ task' = "raised"
  /\ queue' = Closed(queue)
  /\ UNCHANGED <<runVars, at, frames, gone>>

(* The cancellation reaches the task at its await. *)
RunCancelled ==
  /\ task = "cancelling"
  /\ task' = "cancelled"
  /\ queue' = Closed(queue)
  /\ UNCHANGED <<runVars, at, frames, gone>>

Run == EmitStatus \/ StartAnswer \/ EmitDelta \/ AnswerDone \/ RunReturns \/ RunRaises
-----------------------------------------------------------------------------
(* The response generator *)

Send(item) == ~gone /\ frames' = Append(frames, item)

(* A bug: the sentinel of a turn that failed does not end the loop. *)
EndsLoopIfReturned(item) == item = StreamEnd /\ task = "returned"

(* The sentinel ends the loop, whatever else is said of the task. *)
EndsLoop(item) == item = StreamEnd

Forward ==
  /\ at = "loop" /\ queue # <<>> /\ ~EndsLoop(Head(queue))
  /\ queue' = Tail(queue)
  /\ Send(Head(queue))
  /\ UNCHANGED <<task, runVars, at, gone>>

(* `await task` yields the result or raises what the task raised. *)
EndLoop ==
  /\ at = "loop" /\ queue # <<>> /\ EndsLoop(Head(queue))
  /\ ~gone /\ Stopped
  /\ queue' = Tail(queue)
  /\ at' = IF task = "returned" THEN "meta" ELSE "error"
  /\ UNCHANGED <<task, runVars, frames, gone>>

(* Nothing for _STREAM_HEARTBEAT_SECONDS; a second keepalive in a row      *)
(* would change nothing.                                                   *)
KeepAlive ==
  /\ at = "loop" /\ queue = <<>>
  /\ frames[Len(frames)] # Event("keepalive")
  /\ Send(Event("keepalive"))
  /\ UNCHANGED <<task, runVars, queue, at, gone>>

Meta ==
  /\ at = "meta"
  /\ at' = IF result.type # "analytics" /\ result.text THEN "delta" ELSE "final"
  /\ Send(Event("meta"))
  /\ UNCHANGED <<task, runVars, queue, gone>>

WholeAnswer ==
  /\ at = "delta"
  /\ at' = "final"
  /\ Send(Delta(0))
  /\ UNCHANGED <<task, runVars, queue, gone>>

Final ==
  /\ at = "final"
  /\ at' = "done"
  /\ Send(Event("final"))
  /\ UNCHANGED <<task, runVars, queue, gone>>

Done ==
  /\ at = "done"
  /\ at' = "closing"
  /\ Send(Event("done"))
  /\ UNCHANGED <<task, runVars, queue, gone>>

ErrorFrame ==
  /\ at = "error"
  /\ at' = "closing"
  /\ Send(Event("error"))
  /\ UNCHANGED <<task, runVars, queue, gone>>

(* The client hangs up: nothing more is sent.  The generator learns of it  *)
(* when the server closes it, which may be some steps of the turn later.   *)
Disconnect ==
  /\ ~gone /\ at \notin {"closing", "closed"}
  /\ gone' = TRUE
  /\ UNCHANGED <<task, runVars, queue, at, frames>>

(* A bug: the task is left to finish by itself. *)
OrphanedTask == task

(* The finally block cancels a task that has not finished. *)
CancelledTask == IF task = "running" THEN "cancelling" ELSE task

Close ==
  /\ gone /\ at \notin {"closing", "closed"}
  /\ at' = "closing"
  /\ task' = CancelledTask
  /\ UNCHANGED <<runVars, queue, frames, gone>>

(* It awaits the task, but suppresses a cancellation of its own while it   *)
(* does: then it ends before the task.                                     *)
Closing ==
  /\ at = "closing" /\ (Stopped \/ gone)
  /\ at' = "closed"
  /\ UNCHANGED <<task, runVars, queue, frames, gone>>

Respond ==
  \/ Forward \/ EndLoop \/ KeepAlive \/ Meta \/ WholeAnswer \/ Final \/ Done \/ ErrorFrame
  \/ Close \/ Closing

Next == Run \/ RunCancelled \/ Respond \/ Disconnect

Spec == Init /\ [][Next]_vars

(* The event loop schedules the generator, and so the client reads what it *)
(* is sent or goes away; a cancelled task is resumed.                      *)
ServedSpec == Spec /\ WF_vars(Respond) /\ WF_vars(RunCancelled)

(* Moreover the turn goes on, and api_timeout ends it if it cannot.        *)
FairSpec == ServedSpec /\ WF_vars(Run)
-----------------------------------------------------------------------------
(* Correctness *)

TypeOK ==
  /\ task \in {"running", "cancelling", "returned", "raised", "cancelled"}
  /\ phase \in {"graph", "answer", "tail"}
  /\ statuses \in 0..MaxStatuses /\ emitted \in 0..MaxPieces
  /\ queue \in Seq(Items) /\ Len(queue) <= Capacity
  /\ result \in Results \union {Pending}
  /\ at \in {"loop", "meta", "delta", "final", "done", "error", "closing", "closed"}
  /\ frames \in Seq(Items)
  /\ gone \in BOOLEAN

(* Every piece the model made is with the client or still queued, in the   *)
(* order it was made: a full queue holds the turn back and loses nothing.  *)
Stream == frames \o queue
PiecesKept ==
  /\ \A n \in 1..emitted : \E i \in DOMAIN Stream : Stream[i] = Delta(n)
  /\ \A i, j \in DOMAIN Stream : i < j /\ Stream[j].piece > 0 => Stream[i].piece < Stream[j].piece

(* The terminal frames come after everything the turn wrote: a client that *)
(* replaces what it rendered by `final` has seen every piece before it,    *)
(* and one that is sent an answer's `final` was sent all of it.            *)
NothingAfterTheSentinel ==
  at \in {"meta", "delta", "final", "done"} => queue = <<>> /\ task = "returned"

(* A response says `done` or `error`, never both, and `done` only after    *)
(* `final`; a client that stayed is told one of them before the close.     *)
OneEnding ==
  /\ ~(Sent("done") /\ Sent("error"))
  /\ Sent("done") => Sent("final")
  /\ at \in {"closing", "closed"} /\ ~gone => Sent("done") \/ Sent("error")

(* Once the generator is closing, the turn does nothing more but unwind:   *)
(* no status, no piece, no result (the finally block of stream).           *)
NoWorkAfterClose == [][Run => at \notin {"closing", "closed"}]_vars

(* A client that hangs up ends its turn, whether or not the turn would     *)
(* have made any progress by itself.                                       *)
HangUpEndsTheTurn == gone ~> Stopped

(* Once the queue is closed the response comes to an end. *)
SentinelEndsTheResponse ==
  (\E i \in DOMAIN queue : queue[i] = StreamEnd) ~> at = "closed"

(* Every response comes to an end. *)
StreamEnds == <>(at = "closed")
=============================================================================
