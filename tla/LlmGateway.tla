------------------------------- MODULE LlmGateway -------------------------------
(***************************************************************************)
(* llm_service: what a call to the provider goes through.  A blocking call *)
(* runs in a worker thread, looks for the cached static block of its       *)
(* prompt, falls back to sending the block inline and, for structured      *)
(* output, to a second attempt.  A streamed call is read by a thread that  *)
(* hands its pieces to the event loop through a queue.                     *)
(*                                                                         *)
(* A caller is a turn: it makes one call after the other, until its task   *)
(* is cancelled.  A thread cannot be cancelled and runs on.  The calls     *)
(* share one static block; the provider may refuse any request and forget  *)
(* any cached content.                                                     *)
(***************************************************************************)
EXTENDS Naturals, Sequences, FiniteSets, SequencesExt

CONSTANTS
  Callers,
  MaxCalls,  \* calls of all callers
  MaxNames,  \* cached contents the provider creates
  Pieces,    \* chunks with text in a stream
  None

ASSUME GatewayAssumption ==
  /\ MaxCalls \in Nat /\ MaxNames \in Nat /\ Pieces \in Nat
  /\ None \notin Nat /\ None \notin Callers

VARIABLES
  provider,  \* LLM_PROVIDER
  registry,  \* _CACHE_REGISTRY: the block's cached content
  disabled,  \* _CACHE_DISABLED: the block is never cached again
  lock,      \* the holder of _CACHE_LOCK
  live,      \* cached contents the provider still knows
  names,     \* cached contents created so far
  evictions, \* entries evicted so far
  at,        \* where each caller's call is
  kind,      \* generate_text, generate_json or stream_text
  attempt,   \* of generate_json
  used,      \* the cached content of the attempt
  last,      \* how the last call ended
  calls,     \* calls made
  gone,      \* callers whose task was cancelled
  reader,    \* the thread that reads a stream
  produced,  \* pieces it has read
  queue,     \* its queue
  out        \* pieces the caller got

cacheVars == <<registry, disabled, lock, live, names, evictions>>
callVars == <<at, kind, attempt, used, last, calls, gone>>
streamVars == <<reader, produced, queue, out>>
vars == <<provider, cacheVars, callVars, streamVars>>

Kinds == {"text", "json", "stream"}
Ends == {"done", "error"}

Delta(n) == [kind |-> "delta", piece |-> n]
EndItem(e) == [kind |-> e, piece |-> 0]
Items == [kind : {"delta"} \union Ends, piece : 0..Pieces]
IsDelta(i) == i.kind = "delta"
-----------------------------------------------------------------------------
Init ==
  /\ provider \in {"gemini", "openai"}
  /\ registry = None /\ disabled = FALSE /\ lock = None
  /\ live = {} /\ names = 0 /\ evictions = 0
  /\ at = [c \in Callers |-> "idle"] /\ kind = [c \in Callers |-> "text"]
  /\ attempt = [c \in Callers |-> 0] /\ used = [c \in Callers |-> None]
  /\ last = [c \in Callers |-> "none"] /\ calls = 0 /\ gone = {}
  /\ reader = [c \in Callers |-> "none"] /\ produced = [c \in Callers |-> 0]
  /\ queue = [c \in Callers |-> <<>>] /\ out = [c \in Callers |-> <<>>]

Go(c, place) == at' = [at EXCEPT ![c] = place]

(* Where an attempt of a blocking call begins: only Gemini has a cache of  *)
(* its own.                                                                *)
FirstStep == IF provider = "gemini" THEN "lookup" ELSE "inline"

(* stream_text sends the block inline and starts the reader. *)
Start(c, k) ==
  /\ at[c] = "idle" /\ c \notin gone /\ calls < MaxCalls
  /\ Go(c, IF k = "stream" THEN "streaming" ELSE FirstStep)
  /\ kind' = [kind EXCEPT ![c] = k]
  /\ attempt' = [attempt EXCEPT ![c] = 1] /\ used' = [used EXCEPT ![c] = None]
  /\ last' = [last EXCEPT ![c] = "none"] /\ calls' = calls + 1
  /\ reader' = [reader EXCEPT ![c] = IF k = "stream" THEN "reading" ELSE "none"]
  /\ produced' = [produced EXCEPT ![c] = 0]
  /\ queue' = [queue EXCEPT ![c] = <<>>] /\ out' = [out EXCEPT ![c] = <<>>]
  /\ UNCHANGED <<provider, cacheVars, gone>>
-----------------------------------------------------------------------------
(* _get_or_create_cache *)

Use(c, name) ==
  /\ used' = [used EXCEPT ![c] = name]
  /\ Go(c, IF name = None THEN "inline" ELSE "generate")
  /\ UNCHANGED <<kind, attempt, last, calls, gone>>

Wait(c, place) ==
  /\ Go(c, place)
  /\ UNCHANGED <<kind, attempt, used, last, calls, gone>>

(* Without the lock: disabled, then the registry. *)
Lookup(c) ==
  /\ at[c] = "lookup"
  /\ IF disabled \/ registry # None
     THEN Use(c, IF disabled THEN None ELSE registry)
     ELSE Wait(c, "lock")
  /\ UNCHANGED <<provider, cacheVars, streamVars>>

Lock(c) ==
  /\ at[c] = "lock" /\ lock = None
  /\ lock' = c
  /\ Wait(c, "check")
  /\ UNCHANGED <<provider, registry, disabled, live, names, evictions, streamVars>>

(* A bug: what was true before the lock is taken to be true still. *)
CheckNothing(c) ==
  /\ at[c] = "check"
  /\ Wait(c, "creating") /\ UNCHANGED lock
  /\ UNCHANGED <<provider, registry, disabled, live, names, evictions, streamVars>>

(* Under the lock: the registry, then disabled. *)
Check(c) ==
  /\ at[c] = "check"
  /\ IF registry # None \/ disabled
     THEN Use(c, registry) /\ lock' = None
     ELSE Wait(c, "creating") /\ UNCHANGED lock
  /\ UNCHANGED <<provider, registry, disabled, live, names, evictions, streamVars>>

(* caches.create, still under the lock. *)
Create(c) ==
  /\ at[c] = "creating"
  /\ \/ /\ names < MaxNames
        /\ names' = names + 1 /\ registry' = names + 1 /\ live' = live \union {names + 1}
        /\ Use(c, names + 1) /\ UNCHANGED disabled
     \/ /\ disabled' = TRUE
        /\ Use(c, None) /\ UNCHANGED <<registry, live, names>>
  /\ lock' = None
  /\ UNCHANGED <<provider, evictions, streamVars>>

(* The provider forgets a cached content: its hour is over, or it was      *)
(* deleted.                                                                *)
Expire(n) ==
  /\ n \in live /\ live' = live \ {n}
  /\ UNCHANGED <<provider, registry, disabled, lock, names, evictions, callVars, streamVars>>
-----------------------------------------------------------------------------
(* The call ends in its thread; a caller that has gone does not learn of   *)
(* it.                                                                     *)
End(c, how) ==
  /\ Go(c, IF c \in gone THEN "stopped" ELSE "idle")
  /\ last' = [last EXCEPT ![c] = IF c \in gone THEN "none" ELSE how]
  /\ used' = [used EXCEPT ![c] = None]
  /\ UNCHANGED <<kind, attempt, calls, gone>>

Again(c) ==
  /\ Go(c, FirstStep)
  /\ attempt' = [attempt EXCEPT ![c] = @ + 1]
  /\ UNCHANGED <<kind, used, last, calls, gone>>

(* generate_json tries once more without the schema; a cancellation is no  *)
(* Exception, and passes.                                                  *)
TriesAgain(c) == kind[c] = "json" /\ provider = "gemini" /\ attempt[c] = 1 /\ c \notin gone

AttemptFails(c) == IF TriesAgain(c) THEN Again(c) ELSE End(c, "failed")

(* A request that names the cached content. *)
Generate(c) ==
  /\ at[c] = "generate"
  /\ (used[c] \in live /\ Go(c, "parse")) \/ Go(c, "evict")
  /\ UNCHANGED <<provider, cacheVars, kind, attempt, used, last, calls, gone, streamVars>>

(* Whatever the block's entry is by now, it goes; the retry is inline. *)
Evict(c) ==
  /\ at[c] = "evict" /\ lock = None
  /\ registry' = None
  /\ evictions' = evictions + IF registry = None THEN 0 ELSE 1
  /\ Wait(c, "inline")
  /\ UNCHANGED <<provider, disabled, lock, live, names, streamVars>>

(* A request with the block inline. *)
Inline(c) ==
  /\ at[c] = "inline"
  /\ Wait(c, "parse") \/ AttemptFails(c)
  /\ UNCHANGED <<provider, cacheVars, streamVars>>

(* The text is returned, or holds what the schema asks for, possibly after *)
(* salvaging a truncated object.                                           *)
Parse(c) ==
  /\ at[c] = "parse"
  /\ End(c, "ok") \/ (kind[c] = "json" /\ AttemptFails(c))
  /\ UNCHANGED <<provider, cacheVars, streamVars>>

(* The caller's task is cancelled.  A streamed call stops waiting for its  *)
(* queue; a blocking one leaves its thread behind.                         *)
Cancel(c) ==
  /\ c \notin gone /\ at[c] # "idle"
  /\ gone' = gone \union {c}
  /\ IF kind[c] = "stream" THEN Go(c, "stopped") ELSE UNCHANGED at
  /\ UNCHANGED <<provider, cacheVars, kind, attempt, used, last, calls, streamVars>>
-----------------------------------------------------------------------------
(* _stream_sync_iterator *)

(* A bug: a queue with room for one. *)
PutIfRoom(c, item) == queue[c] = <<>> /\ queue' = [queue EXCEPT ![c] = <<item>>]

(* The thread waits until the event loop has put the item: the queue has   *)
(* no bound, so it never waits for the caller.                             *)
Put(c, item) == queue' = [queue EXCEPT ![c] = Append(@, item)]

ReadPiece(c) ==
  /\ reader[c] = "reading" /\ produced[c] < Pieces
  /\ produced' = [produced EXCEPT ![c] = @ + 1]
  /\ Put(c, Delta(produced[c] + 1))
  /\ UNCHANGED <<provider, cacheVars, callVars, reader, out>>

(* The stream is at its end, or fails. *)
ReadEnd(c) ==
  /\ reader[c] = "reading"
  /\ \E e \in Ends : reader' = [reader EXCEPT ![c] = e] /\ Put(c, EndItem(e))
  /\ UNCHANGED <<provider, cacheVars, callVars, produced, out>>

(* A bug: an error is raised ahead of the pieces before it. *)
NextOrError(q) == IF Last(q).kind = "error" THEN Last(q) ELSE Head(q)

NextItem(q) == Head(q)

Receive(c) ==
  /\ at[c] = "streaming" /\ queue[c] # <<>>
  /\ queue' = [queue EXCEPT ![c] = Tail(@)]
  /\ LET item == NextItem(queue[c]) IN
       IF IsDelta(item)
       THEN /\ out' = [out EXCEPT ![c] = Append(@, item.piece)]
            /\ UNCHANGED <<at, kind, attempt, used, last, calls, gone>>
       ELSE End(c, IF item.kind = "done" THEN "ok" ELSE "failed") /\ UNCHANGED out
  /\ UNCHANGED <<provider, cacheVars, reader, produced>>

Work(c) ==
  Lookup(c) \/ Lock(c) \/ Check(c) \/ Create(c) \/ Generate(c) \/ Evict(c) \/ Inline(c) \/ Parse(c) \/ Receive(c)

Reading(c) == ReadPiece(c) \/ ReadEnd(c)

Next ==
  \/ \E c \in Callers :
       (\E k \in Kinds : Start(c, k)) \/ Work(c) \/ Reading(c) \/ Cancel(c)
  \/ \E n \in 1..MaxNames : Expire(n)

Spec == Init /\ [][Next]_vars

(* Threads and the event loop are scheduled, the provider answers or       *)
(* fails, and its streams end.                                             *)
FairSpec == Spec /\ \A c \in Callers : WF_vars(Work(c)) /\ WF_vars(Reading(c))
-----------------------------------------------------------------------------
(* Correctness *)

Places ==
  {"idle", "lookup", "lock", "check", "creating", "generate", "evict", "inline", "parse", "streaming", "stopped"}

CacheTypes ==
  /\ provider \in {"gemini", "openai"}
  /\ registry \in 1..names \union {None} /\ disabled \in BOOLEAN
  /\ live \subseteq 1..names /\ names \in 0..MaxNames /\ evictions \in Nat
  /\ lock \in Callers \union {None}
CallTypes ==
  /\ at \in [Callers -> Places] /\ kind \in [Callers -> Kinds] /\ attempt \in [Callers -> 0..2]
  /\ used \in [Callers -> 1..names \union {None}]
  /\ last \in [Callers -> {"none", "ok", "failed"}] /\ calls \in 0..MaxCalls
  /\ gone \subseteq Callers
StreamTypes ==
  /\ reader \in [Callers -> {"none", "reading"} \union Ends] /\ produced \in [Callers -> 0..Pieces]
  /\ queue \in [Callers -> Seq(Items)] /\ out \in [Callers -> Seq(1..Pieces)]
TypeOK == CacheTypes /\ CallTypes /\ StreamTypes

(* However many calls find no cached content at once, one of them creates  *)
(* it: every further one replaces one that was evicted.                    *)
OneCacheAtATime == names <= evictions + 1

(* The pieces the caller got and those that wait in its queue are the      *)
(* pieces read, in order; it gets all of them before it is told of the end *)
(* or the error, and an error is never taken for the end.                  *)
StreamIsWhole ==
  \A c \in Callers : kind[c] = "stream" /\ c \notin gone =>
    LET got == Len(out[c]) IN
    /\ got <= produced[c] /\ produced[c] <= got + Len(queue[c])
    /\ \A n \in 1..produced[c] :
         IF n <= got THEN out[c][n] = n ELSE queue[c][n - got] = Delta(n)
    /\ at[c] = "idle" => got = produced[c] /\ last[c] = IF reader[c] = "done" THEN "ok" ELSE "failed"

(* Nothing hangs: a call ends whatever fails, is evicted or cancelled      *)
(* beside it and whoever holds the lock, and the thread that reads a       *)
(* stream ends, also when nobody takes its pieces any more.                *)
NothingHangs ==
  \A c \in Callers :
    /\ at[c] \notin {"idle", "stopped"} ~> at[c] \in {"idle", "stopped"}
    /\ reader[c] = "reading" ~> reader[c] # "reading"
=============================================================================
