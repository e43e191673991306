------------------------------ MODULE Conversation ------------------------------
(***************************************************************************)
(* The history of a thread: what a message is taken for, the clarification *)
(* chain it continues or abandons, and what the checkpoint keeps of both   *)
(* when turns fail or overlap.                                             *)
(*                                                                         *)
(* A turn holds a connection of the checkpoint pool, reads the thread's    *)
(* checkpoint once and writes its own state after every superstep, so of   *)
(* two turns at once the later write stands.                               *)
(***************************************************************************)
EXTENDS Naturals, Sequences, FiniteSets, SequencesExt, FiniteSetsExt

CONSTANTS
  MaxTurns,  \* turns of the thread
  Limit,     \* chat_history_limit
  Pool,      \* checkpoint_pool_max_size
  Messages,  \* what a user may write, as far as the code tells it apart
  None

Turns == 1..MaxTurns

Words == {"intent", "metric", "action", "there", "time"}
Forms == {"number", "yes", "period", "words"}

(* An assistant payload: an answer, a clarification that can be answered,  *)
(* or one that reports the terminal lookup failure.                        *)
Payloads == [type : {"answer", "clarify", "failure"}, plan : SUBSET Turns]

ASSUME ConversationAssumption ==
  /\ MaxTurns \in Nat /\ Limit \in Nat \ {0, 1} /\ Pool \in Nat \ {0}
  /\ None \notin Turns /\ None \notin Payloads
  /\ \A m \in Messages :
       /\ m.form \in Forms /\ m.says \subseteq Words /\ m.length \in Nat \ {0}
       /\ m.asks \in BOOLEAN /\ m.column \in BOOLEAN

VARIABLES
  saved,     \* the history in the thread's checkpoint
  line,      \* turns waiting for a connection of the pool
  at,        \* where each turn is
  text,      \* its message
  reply,     \* its assistant payload
  work,      \* the history in its own state
  context,   \* what load_context made of the message
  \* history variables, which decide nothing:
  chain,     \* the turn that opened the chain a turn belongs to
  dropped,   \* <<chain, turn>>: the chain was abandoned by the turn
  cut,       \* turns the limit has cut, in whole or in part
  overlapped \* turns that ran while another one did

ghosts == <<chain, dropped, cut, overlapped>>
vars == <<saved, line, at, text, reply, work, context, ghosts>>

Item(r, t) == [role |-> r, turn |-> t]
Told(h, t) == Item("user", t) \in Range(h) /\ Item("assistant", t) \in Range(h)
Seen(h) == {i.turn : i \in Range(h)}
-----------------------------------------------------------------------------
(* What a message looks like (clarification_policy) *)

LooksLikeNewQuestion(m) ==
  /\ m.form \notin {"number", "yes"} /\ "metric" \in m.says
  /\ \/ "intent" \in m.says /\ m.says \intersect {"action", "time", "there"} # {}
     \/ "time" \in m.says /\ m.length >= 3

LooksLikeShortAnswer(m) ==
  /\ ~LooksLikeNewQuestion(m)
  /\ m.form \in {"number", "yes", "period"} \/ (~m.asks /\ m.length <= 4)

IsClarification(p) == p.type \in {"clarify", "failure"}
IsTerminal(p) == p.type = "failure"
-----------------------------------------------------------------------------
(* The active clarification window *)

IsAssistant(i) == i.role = "assistant"

LastIndex(h) == Max({i \in DOMAIN h : IsAssistant(h[i])})

(* The turn whose payload is the last one, None without any. *)
LastPayload(h) ==
  IF \E i \in DOMAIN h : IsAssistant(h[i]) THEN h[LastIndex(h)].turn ELSE None

Closes(i) == IsAssistant(i) /\ (IsTerminal(reply[i.turn]) \/ ~IsClarification(reply[i.turn]))

(* A bug: the window is one item too long. *)
WindowStartEarly(h) == Max({0} \union {i - 1 : i \in {j \in 1..(LastIndex(h) - 1) : Closes(h[j])}})

(* The number of items before the window: up to the last payload before    *)
(* the pending one that is not a clarification, or a terminal one.         *)
WindowStart(h) == Max({0} \union {i \in 1..(LastIndex(h) - 1) : Closes(h[i])})

HasWindow(h) == LastPayload(h) # None /\ IsClarification(reply[LastPayload(h)])

Window(h) == IF HasWindow(h) THEN (WindowStart(h) + 1)..Len(h) ELSE {}

(* A bug: the whole history is forgotten. *)
EverythingForgotten(h) == IF HasWindow(h) THEN <<>> ELSE h

(* A bug: the abandoned chain stays. *)
NothingForgotten(h) == h

WithoutWindow(h) == IF HasWindow(h) THEN SubSeq(h, 1, WindowStart(h)) ELSE h

IsUser(i) == i.role = "user"

(* The messages of the window before the pending payload. *)
Asked(h) == {i \in Window(h) : IsUser(h[i]) /\ i < LastIndex(h)}

LatestOf(h, indices) == IF indices = {} THEN None ELSE h[Max(indices)].turn

(* A bug: the latest message, whatever it looks like. *)
LatestMessage(h) == LatestOf(h, Asked(h))

(* The turn whose message is taken for the original question: the latest   *)
(* that does not look like a reply, or else the latest.                    *)
OriginalQuestion(h) ==
  LET questions == {i \in Asked(h) : ~LooksLikeShortAnswer(text[h[i].turn])}
  IN  LatestOf(h, IF questions # {} THEN questions ELSE Asked(h))

(* build_clarification_followup_query: the original question the message   *)
(* is merged with, None if it is not a follow-up.                          *)
FollowupOf(m, h, p) ==
  IF /\ p # None /\ IsClarification(reply[p])
     /\ LooksLikeShortAnswer(m)
     /\ m.form \in {"number", "yes"} \/ ~m.column
  THEN OriginalQuestion(h)
  ELSE None
-----------------------------------------------------------------------------
(* decide_conversation_turn_relation: what the code accepts of the model's *)
(* decision, and its fallback.  The period is inherited as the filters are. *)
Inherits == {{}, {"filters"}, {"filters", "entities"}}

Decisions(p) ==
  IF p = None \/ IsTerminal(reply[p]) THEN {[reuse |-> FALSE, inherits |-> {}]}
  ELSE [reuse : {FALSE} \union {IsClarification(reply[p])}, inherits : Inherits]

Nothing == [original |-> None, plan |-> {}, inherits |-> {}]
Contexts == [original : Turns \union {None}, plan : SUBSET Turns, inherits : Inherits]
-----------------------------------------------------------------------------
Init ==
  /\ saved = <<>> /\ line = <<>>
  /\ at = [t \in Turns |-> "new"]
  /\ text = [t \in Turns |-> None] /\ reply = [t \in Turns |-> None]
  /\ work = [t \in Turns |-> <<>>] /\ context = [t \in Turns |-> Nothing]
  /\ chain = [t \in Turns |-> t] /\ dropped = {} /\ cut = {} /\ overlapped = {}

(* A bug: a turn that fails keeps its connection. *)
HoldingForEver ==
  {t \in Turns : at[t] \in {"connected", "read", "ready", "running"} \/ (at[t] = "ended" /\ reply[t] = None)}

Holding == {t \in Turns : at[t] \in {"connected", "read", "ready", "running"}}

Running == {t \in Turns : at[t] \in {"read", "ready", "running"}}

(* A message arrives; get_checkpoint_saver queues for a connection. *)
Post(t) ==
  /\ at[t] = "new" /\ \A u \in 1..(t - 1) : at[u] # "new"
  /\ at' = [at EXCEPT ![t] = "waiting"]
  /\ line' = Append(line, t)
  /\ UNCHANGED <<saved, text, reply, work, context, ghosts>>

(* The pool serves its waiting clients in turn. *)
Connect ==
  /\ line # <<>> /\ Cardinality(Holding) < Pool
  /\ at' = [at EXCEPT ![Head(line)] = "connected"]
  /\ line' = Tail(line)
  /\ UNCHANGED <<saved, text, reply, work, context, ghosts>>

(* Or a client has waited too long (PoolTimeout). *)
GiveUp(t) ==
  /\ at[t] = "waiting"
  /\ at' = [at EXCEPT ![t] = "ended"]
  /\ \E i \in DOMAIN line : line[i] = t /\ line' = RemoveAt(line, i)
  /\ UNCHANGED <<saved, text, reply, work, context, ghosts>>

(* The graph starts from the message and the thread's checkpoint. *)
Read(t) ==
  /\ at[t] = "connected"
  /\ at' = [at EXCEPT ![t] = "read"]
  /\ \E m \in Messages : text' = [text EXCEPT ![t] = m]
  /\ work' = [work EXCEPT ![t] = saved]
  /\ overlapped' = IF Running = {} THEN overlapped ELSE overlapped \union Running \union {t}
  /\ UNCHANGED <<saved, line, reply, context, chain, dropped, cut>>

(* reset_turn_state keeps the history, and its superstep is checkpointed. *)
ResetTurnState(t) ==
  /\ at[t] = "read"
  /\ at' = [at EXCEPT ![t] = "ready"]
  /\ saved' = work[t]
  /\ UNCHANGED <<line, text, reply, work, context, ghosts>>

Inherited(d, abandoned) == IF abandoned THEN {} ELSE d.inherits

(* The last chat_history_limit items. *)
Trimmed(h) == SubSeq(h, Max({1, Len(h) - Limit + 1}), Len(h))

LoadContext(t) ==
  LET history == Trimmed(work[t])
      m == text[t]
      p == LastPayload(history)
      pending == p # None /\ IsClarification(reply[p])
      terminal == p # None /\ IsTerminal(reply[p])
  IN
  /\ at[t] = "ready"
  /\ \E d \in Decisions(p) :
       LET reuse == d.reuse \/ (pending /\ ~terminal /\ LooksLikeShortAnswer(m))
           abandoned == terminal \/ (pending /\ ~reuse)
           original == FollowupOf(m, history, IF reuse /\ ~terminal THEN p ELSE None)
           inherits == Inherited(d, abandoned)
       IN
       /\ context' = [context EXCEPT ![t] =
            [original |-> original,
             plan |-> IF /\ ~abandoned /\ p # None
                         /\ (reuse /\ original # None) \/ "entities" \in inherits
                      THEN reply[p].plan ELSE {},
             inherits |-> inherits]]
       /\ work' = [work EXCEPT ![t] = IF abandoned THEN WithoutWindow(history) ELSE history]
       /\ chain' = [chain EXCEPT ![t] = IF pending /\ ~abandoned THEN chain[p] ELSE t]
       /\ dropped' = IF abandoned THEN dropped \union {<<chain[p], t>>} ELSE dropped
  /\ saved' = work'[t]
  /\ cut' = cut \union (Seen(work[t]) \ {u \in Turns : Told(history, u)})
  /\ at' = [at EXCEPT ![t] = "running"]
  /\ UNCHANGED <<line, text, reply, overlapped>>

(* A superstep between load_context and save_turn checkpoints the turn's   *)
(* own history again.                                                      *)
Checkpoint(t) ==
  /\ at[t] = "running" /\ saved # work[t]
  /\ saved' = work[t]
  /\ UNCHANGED <<line, at, text, reply, work, context, ghosts>>

Gone(t) ==
  /\ at' = [at EXCEPT ![t] = "ended"]
  /\ work' = [work EXCEPT ![t] = <<>>]
  /\ context' = [context EXCEPT ![t] = Nothing]

(* The reply joins the history, with a plan made of the one carried over   *)
(* and of what this turn resolved, or without one.                         *)
SaveTurn(t) ==
  /\ at[t] = "running"
  /\ \E y \in {"answer", "clarify", "failure"}, p \in {{}, context[t].plan \union {t}} :
       reply' = [reply EXCEPT ![t] = [type |-> y, plan |-> p]]
  /\ LET history == work[t] \o <<Item("user", t), Item("assistant", t)>>
     IN  /\ saved' = Trimmed(history)
         /\ cut' = cut \union (Seen(history) \ {u \in Turns : Told(saved', u)})
  /\ Gone(t)
  /\ UNCHANGED <<line, text, chain, dropped, overlapped>>

(* api_timeout, an exception in a node or the client's hang-up: what the   *)
(* turn has checkpointed stays.                                            *)
Fail(t) ==
  /\ t \in Holding /\ Gone(t)
  /\ text' = [text EXCEPT ![t] = None]
  /\ UNCHANGED <<saved, line, reply, ghosts>>

Step(t) == Read(t) \/ ResetTurnState(t) \/ LoadContext(t) \/ SaveTurn(t) \/ Fail(t)

Next ==
  \/ Connect
  \/ \E t \in Turns : Post(t) \/ GiveUp(t) \/ Step(t) \/ Checkpoint(t)

Spec == Init /\ [][Next]_vars

(* asyncio.wait_for(api_timeout) ends a turn that has its connection, and  *)
(* the pool hands over a connection that is free.                          *)
FairSpec == Spec /\ WF_vars(Connect) /\ \A t \in Turns : WF_vars(Fail(t))
-----------------------------------------------------------------------------
(* Correctness *)

Items == [role : {"user", "assistant"}, turn : Turns]

Places == {"new", "waiting", "connected", "read", "ready", "running", "ended"}

TypeOK ==
  /\ saved \in Seq(Items) /\ Len(saved) <= Limit
  /\ line \in Seq(Turns) /\ Range(line) = {t \in Turns : at[t] = "waiting"}
  /\ at \in [Turns -> Places] /\ Cardinality(Holding) <= Pool
  /\ text \in [Turns -> Messages \union {None}] /\ reply \in [Turns -> Payloads \union {None}]
  /\ work \in [Turns -> Seq(Items)] /\ context \in [Turns -> Contexts]
  /\ chain \in [Turns -> Turns] /\ dropped \subseteq Turns \X Turns
  /\ cut \subseteq Turns /\ overlapped \subseteq Turns

(* However many replies a chain has seen, as long as they look like        *)
(* replies and its question does not, each is merged with the question     *)
(* that opened it, unless the history limit has cut that.                  *)
RecoversTheQuestion ==
  \A t \in Turns :
    LET q == chain[t]
        others == {u \in Seen(work[t]) \ {q} : chain[u] = q}
    IN  /\ context[t].original # None
        /\ Told(work[t], q) /\ ~LooksLikeShortAnswer(text[q])
        /\ \A u \in others : LooksLikeShortAnswer(text[u])
        => context[t].original = q

(* A chain that a turn has abandoned is not seen again, in the history or  *)
(* through a lookup plan, also when that turn then fails; only a turn that *)
(* ran beside the abandoning one may bring it back (load_context).         *)
AbandonedStaysGone ==
  \A d \in dropped : d[2] \notin overlapped =>
    LET chained == {t \in Turns : chain[t] = d[1] /\ at[t] = "ended"}
    IN  /\ Seen(saved) \intersect chained = {}
        /\ \A t \in Turns : at[t] = "running" =>
             Seen(work[t]) \intersect chained = {} /\ context[t].plan \intersect chained = {}

(* Whatever turns fail or are cancelled at whatever step, an answered turn *)
(* stays in the history until the limit cuts it or its chain is abandoned; *)
(* only a turn that ran beside it can write it away.                       *)
AnsweredTurnsStay ==
  \A t \in Turns :
    reply[t] # None /\ t \notin overlapped \union cut /\ (\A d \in dropped : d[1] # chain[t])
      => Told(saved, t)

(* A question is followed by its own answer, and an answer preceded by its *)
(* own question unless it is the first item, also when two turns write     *)
(* over each other.                                                        *)
QuestionsKeepTheirAnswers ==
  \A i \in DOMAIN saved :
    IF IsUser(saved[i])
    THEN i < Len(saved) /\ saved[i + 1] = Item("assistant", saved[i].turn)
    ELSE i > 1 => saved[i - 1] = Item("user", saved[i].turn)

(* A turn that waits for a connection ends, however many wait before it    *)
(* and however the turns that hold one end.                                *)
WaitingEnds == \A t \in Turns : at[t] = "waiting" ~> at[t] = "ended"
=============================================================================
