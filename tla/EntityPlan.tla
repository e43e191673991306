------------------------------ MODULE EntityPlan ------------------------------
(***************************************************************************)
(* The lookup plan of a conversation: what app/service/entity_resolution   *)
(* makes of the names in a question, what it asks the user about, and what *)
(* becomes of the plan as it travels from turn to turn in the assistant    *)
(* payload (load_context, public_lookup_plan).                             *)
(*                                                                         *)
(* A question is the set of spans the matcher finds in it.  What the       *)
(* matcher scores is not modelled: a span is a phrase with its ranked      *)
(* candidates, and says whether it is certain (span_status).               *)
(***************************************************************************)
EXTENDS Integers, FiniteSets

CONSTANTS
  Spans,      \* the spans a question can have, one per phrase
  Stores,     \* the stores of the dictionary, in an order of their own
  Numbers,    \* option numbers a user may reply
  Texts,      \* other short replies
  Says,       \* the replies an option's label contains, by name
  SlotLimit,  \* settings.lookup_max_slots_per_question
  MaxSlots,   \* bound on the slots made for one plan
  None

Levels == {"category_l1", "category_l2", "category_l3", "category_l4"}
Classes == {"opco", "store", "enum"} \union Levels

(* _entity_family and _slot_priority *)
Family(class) == IF class \in Levels THEN "category" ELSE class
Priority(class) ==
  CASE class = "opco" -> 0 [] class = "store" -> 1 [] class \in Levels -> 2 [] class = "enum" -> 3

VARIABLES
  at,        \* "user", or where the resolver is
  plan,      \* the slots of the plan
  made,      \* slots made so far; a slot's id is its place in the list
  question,  \* the spans of the question the thread is about
  said,      \* clarification_selected_option
  todo,      \* spans still to be added
  overflow,  \* a span did not fit the budget
  reply,     \* what the user was told
  picked,    \* history variable: slots the user has chosen an option for
  settled    \* history variable: phrases of this question with no slot left to choose for

vars == <<at, plan, made, question, said, todo, overflow, reply, picked, settled>>
-----------------------------------------------------------------------------
(* Candidates, options, slots *)

Best(options) == CHOOSE o \in options : \A p \in options : o.rank <= p.rank
Nth(options, n) == CHOOSE o \in options : Cardinality({p \in options : p.rank < o.rank}) = n - 1

(* What the matcher makes sure of: one family per span, an exact span is   *)
(* certain iff it has one candidate; and an OpCo's names are its own, so   *)
(* that only a guess leaves open which one is meant.                       *)
ASSUME SpanAssumption ==
  IsFiniteSet(Spans) /\ \A s, t \in Spans :
    /\ s.phrase \in Nat /\ s.exact \in BOOLEAN /\ s.certain \in BOOLEAN
    /\ s # t => s.phrase # t.phrase
    /\ s.candidates # {} /\ IsFiniteSet(s.candidates)
    /\ \A o, p \in s.candidates :
         /\ o = [rank |-> o.rank, class |-> o.class, name |-> o.name, value |-> o.value, opco |-> o.opco]
         /\ o.rank \in Nat /\ o.class \in Classes
         /\ o.rank = p.rank => o = p
         /\ Family(o.class) = Family(p.class)
    /\ s.exact => (s.certain <=> Cardinality(s.candidates) = 1)
    /\ s.exact /\ (\E o \in s.candidates : o.class = "opco") => s.certain

(* The stores matched are the dictionary's, which has an order. *)
ASSUME StoreAssumption ==
  /\ \A s \in Stores : s.order \in Nat
  /\ \A q \in Spans : \A o \in q.candidates :
       o.class = "store" => \E s \in Stores : s.name = o.name

ASSUME BoundsAssumption ==
  /\ SlotLimit \in Nat \ {0} /\ MaxSlots \in Nat
  /\ Numbers \subseteq Nat \ {0} /\ None \notin Numbers \union Texts

(* The SQL column a class filters. *)
Column(class) == IF class = "store" THEN "store_id" ELSE class

(* A slot resolved to an option takes the option's own identity. *)
Adopted(slot, o) ==
  [slot EXCEPT !.status = "resolved", !.class = o.class, !.column = Column(o.class),
               !.name = o.name, !.value = o.value, !.opco = o.opco, !.options = {}]

Slot(id, span) ==
  LET best == Best(span.candidates)
      open == [id |-> id, phrase |-> span.phrase, exact |-> span.exact, status |-> "ambiguous",
               class |-> best.class, column |-> Column(best.class), name |-> None,
               value |-> None, opco |-> None, options |-> span.candidates]
  IN IF span.certain THEN Adopted(open, best) ELSE open

Resolved(p) == {s \in p : s.status = "resolved"}
Ambiguous(p) == {s \in p : s.status = "ambiguous"}

(* _ambiguous_in_ask_order *)
AskedBefore(s, t) ==
  \/ Priority(s.class) < Priority(t.class)
  \/ Priority(s.class) = Priority(t.class) /\ s.id < t.id
FirstAsked(slots) == CHOOSE s \in slots : \A t \in slots \ {s} : AskedBefore(s, t)
-----------------------------------------------------------------------------
(* What a plan loses on its way through the payload, and gets back.        *)

(* A store's key is replaced by its label, and found again by that label:  *)
(* the first store of the dictionary that has it.                          *)
StoreNamed(name) ==
  CHOOSE s \in Stores : s.name = name /\ \A t \in Stores : t.name = name => s.order <= t.order
Internal(o) ==
  IF o.class = "store"
  THEN [o EXCEPT !.value = StoreNamed(o.name).value, !.opco = StoreNamed(o.name).opco]
  ELSE o

(* A slot still open has no label to find its column by. *)
Carried(slot) ==
  IF slot.class # "store" THEN slot
  ELSE IF slot.status = "resolved" THEN Internal(slot)
  ELSE [slot EXCEPT !.column = "store", !.options = {Internal(o) : o \in slot.options}]
-----------------------------------------------------------------------------
(* The user *)

Fits(spans) == made + Cardinality(spans) <= MaxSlots

Init ==
  /\ at = "user" /\ plan = {} /\ made = 0 /\ question = {} /\ said = None
  /\ todo = {} /\ overflow = FALSE /\ reply = "none"
  /\ picked = {} /\ settled = {}

(* A question of its own: no plan, or one that is abandoned. *)
Ask ==
  /\ at = "user" /\ at' = "resolve"
  /\ question' \in SUBSET Spans /\ Cardinality(question') <= MaxSlots
  /\ plan' = {} /\ made' = 0 /\ said' = None
  /\ picked' = {} /\ settled' = {}
  /\ UNCHANGED <<todo, overflow, reply>>

(* A question that inherits the entity filters of the last one: after a    *)
(* clarification, one that was read as its answer and is not a short reply.*)
FollowUp ==
  /\ at = "user" /\ reply # "none" /\ at' = "resolve"
  /\ question' \in SUBSET Spans /\ Fits(question')
  /\ said' = None /\ settled' = {}
  /\ UNCHANGED <<plan, made, todo, overflow, reply, picked>>

Clarifications == {"choose", "impossible", "too many", "problem", "period"}

(* A short reply to a clarification: it carries the plan, and stands for   *)
(* the original question (find_original_user_query_for_clarification).     *)
Answer ==
  /\ at = "user" /\ reply \in Clarifications /\ at' = "resolve"
  /\ said' \in Numbers \union Texts /\ Fits(question)
  /\ UNCHANGED <<plan, made, question, todo, overflow, reply, picked, settled>>
-----------------------------------------------------------------------------
(* resolve() *)

(* The option of a slot a reply stands for: one whose label contains it,   *)
(* else the one it numbers.                                                *)
Matches(slot, r) == {o \in slot.options : r \in Says[o.name]}
CanTake(slot, r) ==
  Matches(slot, r) # {} \/ (r \in Numbers /\ r <= Cardinality(slot.options))
Taken(slot, r) ==
  IF Matches(slot, r) # {} THEN Best(Matches(slot, r)) ELSE Nth(slot.options, r)

(* A resolver that fails leaves the plan as the turn brought it. *)
ResolverFails ==
  /\ at = "resolve" /\ at' = "user"
  /\ reply' = "problem"
  /\ UNCHANGED <<plan, made, question, said, todo, overflow, picked, settled>>

(* _apply_selection: the first open slot, in the order they are asked      *)
(* about, that the reply can stand for an option of.                       *)
Select ==
  LET carried == {Carried(s) : s \in plan}
      able == {s \in Ambiguous(carried) : CanTake(s, said)}
      slot == FirstAsked(able)
  IN /\ at = "resolve" /\ said # None /\ Ambiguous(plan) # {}
     /\ at' = "finalize"
     /\ IF able = {}
        THEN plan' = carried /\ UNCHANGED <<picked, settled>>
        ELSE /\ plan' = (carried \ {slot}) \union {Adopted(slot, Internal(Taken(slot, said)))}
             /\ picked' = picked \union {slot.id}
             /\ settled' = settled \union
                  ({slot.phrase} \ {s.phrase : s \in Ambiguous(plan') \ {slot}})
     /\ UNCHANGED <<made, question, said, todo, overflow, reply>>

(* dedupe_spans: of the spans with one best reading the first is kept; the *)
(* exact ones come before the guesses, each as they stand.                 *)
Deduped(spans) ==
  {s \in spans : ~\E t \in spans \ {s} :
     /\ Best(t.candidates).class = Best(s.candidates).class
     /\ Best(t.candidates).value = Best(s.candidates).value
     /\ IF s.exact = t.exact THEN t.phrase < s.phrase ELSE t.exact}

(* The spans of the question.  After a clarification only what the user    *)
(* just typed may be guessed from; what is found exactly is found again.   *)
Extract ==
  /\ at = "resolve" /\ (said = None \/ Ambiguous(plan) = {})
  /\ at' = "match"
  /\ plan' = {Carried(s) : s \in plan}
  /\ overflow' = FALSE
  /\ \E guessed \in SUBSET {s \in question : ~s.exact} :
       /\ said = None => guessed = {s \in question : ~s.exact}
       /\ todo' = Deduped({s \in question : s.exact} \union guessed)
  /\ UNCHANGED <<made, question, said, reply, picked, settled>>

Budgeted(class) == class \notin {"opco", "enum"}
BudgetedColumns(p) == {s.column : s \in {t \in p : Budgeted(t.class)}}

(* _append_lookup_slot: another value of a column already there is free. *)
HasRoom(slot) ==
  \/ ~Budgeted(slot.class)
  \/ slot.column \in BudgetedColumns(plan)
  \/ Cardinality(BudgetedColumns(plan)) < SlotLimit

(* Spans are taken by the priority of their class, then as they stand. *)
NextSpan(spans) ==
  CHOOSE s \in spans : \A t \in spans \ {s} :
    LET p == Priority(Best(s.candidates).class) q == Priority(Best(t.candidates).class)
    IN p < q \/ (p = q /\ s.phrase < t.phrase)

(* The plan filters by the span's best reading already. *)
Known(span) ==
  \E s \in Resolved(plan) :
    s.class = Best(span.candidates).class /\ s.value = Best(span.candidates).value

Match ==
  /\ at = "match" /\ todo # {}
  /\ LET span == NextSpan(todo) slot == Slot(made + 1, span)
     IN /\ todo' = todo \ {span}
        /\ \/ Known(span) /\ UNCHANGED <<plan, made, overflow>>
           \/ ~Known(span) /\ HasRoom(slot)
              /\ plan' = plan \union {slot} /\ made' = made + 1 /\ UNCHANGED overflow
           \/ ~Known(span) /\ ~HasRoom(slot) /\ overflow' = TRUE /\ UNCHANGED <<plan, made>>
  /\ UNCHANGED <<at, question, said, reply, picked, settled>>

TooMany ==
  /\ at = "match" /\ todo = {} /\ overflow
  /\ at' = "user" /\ reply' = "too many"
  /\ UNCHANGED <<plan, made, question, said, todo, overflow, picked, settled>>

Matched ==
  /\ at = "match" /\ todo = {} /\ ~overflow
  /\ at' = "finalize"
  /\ UNCHANGED <<plan, made, question, said, todo, overflow, reply, picked, settled>>
-----------------------------------------------------------------------------
(* _finalize() *)

Pinned(p) == {s.opco : s \in Resolved(p)} \ {None}
Named(p) == {s.opco : s \in {t \in Resolved(p) : t.class = "opco"}} \ {None}

(* A bug: what holds for stores is applied to every class. *)
ScopeNamedOnly(p, slot) == Named(p)

(* A store is pinned only by an OpCo the user named. *)
Scope(p, slot) == IF slot.class = "store" THEN Named(p) ELSE Pinned(p)

Kept(p, slot) ==
  IF Scope(p, slot) = {} THEN slot.options
  ELSE {o \in slot.options : o.opco \in Scope(p, slot) \union {None}}

(* A bug: any single survivor is taken. *)
PinTakesGuess(p, slot) ==
  LET kept == Kept(p, slot)
  IN IF slot.status = "resolved" \/ kept = slot.options THEN slot
     ELSE IF Cardinality(kept) = 1 THEN Adopted(slot, Best(kept))
     ELSE [slot EXCEPT !.options = kept]

(* _apply_opco_pin: a single exact survivor is no longer a choice. *)
Pin(p, slot) ==
  LET kept == Kept(p, slot)
  IN IF slot.status = "resolved" \/ kept = slot.options THEN slot
     ELSE IF slot.exact /\ Cardinality(kept) = 1 THEN Adopted(slot, Best(kept))
     ELSE [slot EXCEPT !.options = kept]

Emptied(p) == {s \in Ambiguous(p) : s.options = {}}

(* A bug: a resolved slot has no options either. *)
RedundantOfAny(p) ==
  {s \in p : s.options = {} /\ \E t \in Resolved(p) \ {s} : Family(s.class) = Family(t.class)}

(* An emptied slot of a kind already resolved was another reading of it. *)
Redundant(p) == {s \in Emptied(p) : \E t \in Resolved(p) : Family(s.class) = Family(t.class)}

(* A bug: what is impossible is settled before the pin. *)
FinalizeThenPin ==
  LET pinned == {Pin(plan, s) : s \in plan}
      kept == pinned \ Redundant(pinned)
  IN /\ at = "finalize" /\ at' = "user"
     /\ plan' = kept
     /\ \/ Emptied(plan) # {} /\ reply' = "impossible"
        \/ Emptied(plan) = {} /\ Ambiguous(kept) # {} /\ reply' = "choose"
        \/ Ambiguous(kept) = {} /\ reply' \in {"answer", "period"}
     /\ UNCHANGED <<made, question, said, todo, overflow, picked, settled>>

Finalize ==
  LET pinned == {Pin(plan, s) : s \in plan}
      kept == pinned \ Redundant(pinned)
  IN /\ at = "finalize" /\ at' = "user"
     /\ plan' = kept
     /\ \/ Emptied(kept) # {} /\ reply' = "impossible"
        \/ Emptied(kept) = {} /\ Ambiguous(kept) # {} /\ reply' = "choose"
        \/ Ambiguous(kept) = {} /\ reply' \in {"answer", "period"}
     /\ UNCHANGED <<made, question, said, todo, overflow, picked, settled>>

Next ==
  \/ Ask \/ Answer \/ FollowUp
  \/ ResolverFails \/ Select \/ Extract \/ Match \/ TooMany \/ Matched \/ Finalize

Spec == Init /\ [][Next]_vars
-----------------------------------------------------------------------------
(* Correctness *)

Candidates == UNION {s.candidates : s \in Spans}
OpCos == {o.opco : o \in Candidates} \union {s.opco : s \in Stores}
Values == {o.value : o \in Candidates} \union {s.value : s \in Stores}
Options ==
  [rank : {o.rank : o \in Candidates}, class : Classes, name : {o.name : o \in Candidates},
   value : Values, opco : OpCos]

Slots ==
  [id : 1..MaxSlots, phrase : {s.phrase : s \in Spans}, exact : BOOLEAN,
   status : {"resolved", "ambiguous"}, class : Classes,
   column : {Column(c) : c \in Classes} \union {"store"},
   name : {o.name : o \in Candidates} \union {None},
   value : Values \union {None},
   opco : OpCos \union {None}, options : SUBSET Options]

TypeOK ==
  /\ at \in {"user", "resolve", "match", "finalize"}
  /\ plan \subseteq Slots /\ made \in 0..MaxSlots
  /\ \A s, t \in plan : s.id = t.id => s = t
  /\ question \subseteq Spans /\ todo \subseteq Spans
  /\ said \in Numbers \union Texts \union {None}
  /\ overflow \in BOOLEAN
  /\ reply \in Clarifications \union {"none", "answer"}
  /\ picked \subseteq 1..MaxSlots /\ settled \subseteq {s.phrase : s \in Spans}

(* A turn asks only what can be answered, and goes on to plan SQL only     *)
(* when nothing is left to ask: the pin that empties an option list, and   *)
(* the slots dropped as redundant, come before either is decided.          *)
NothingLeftOpen ==
  /\ reply = "choose" /\ at = "user" =>
       Ambiguous(plan) # {} /\ \A s \in Ambiguous(plan) : s.options # {}
  /\ reply \in {"answer", "period"} /\ at = "user" => Ambiguous(plan) = {}

(* An option offered can be combined with what is settled: whatever the    *)
(* turn in which a slot was opened and the order in which OpCos became     *)
(* fixed, the list shown holds none of an OpCo the plan excludes.  A store *)
(* is excluded only by an OpCo that was named, not by another store's.     *)
OptionsRespectPin ==
  at = "user" /\ reply = "choose" =>
    \A s \in Ambiguous(plan) :
      LET fixed == {t \in Resolved(plan) : t.opco # None /\ (s.class # "store" \/ t.class = "opco")}
      IN fixed # {} => \A o \in s.options : o.opco \in {t.opco : t \in fixed} \union {None}

(* A filter the user did not choose was certain: the matcher said so, or   *)
(* the phrase is a name with one bearer in the OpCo it was resolved to.    *)
NoSilentGuess ==
  \A s \in Resolved(plan) :
    \/ s.id \in picked
    \/ \E q \in Spans :
         /\ q.phrase = s.phrase
         /\ q.certain \/ (q.exact /\ Cardinality({o \in q.candidates : o.opco = s.opco}) = 1)

(* What is settled stays: through clarifications, failures and follow-ups  *)
(* no step loses a resolved slot, or makes it another entity, until a new  *)
(* question drops the plan.                                                *)
SettledStays ==
  [][at # "user" =>
       \A s \in Resolved(plan) :
         \E t \in Resolved(plan') : t.id = s.id /\ t.class = s.class /\ t.name = s.name]_vars

-----------------------------------------------------------------------------
(* What the comments say and the code does not do *)

(* service.py: "A bare ordinal picks from the presented list", and a       *)
(* numbered answer is never applied to another slot than the one asked     *)
(* about.                                                                  *)
NumberPicksFromList ==
  [][Select /\ reply = "choose" =>
       LET asked == FirstAsked(Ambiguous(plan))
       IN said \in Numbers /\ said <= Cardinality(asked.options) =>
            \E s \in Resolved(plan') :
              s.id = asked.id /\ s.name = Nth(asked.options, said).name]_vars

(* clarification_policy.py: the merge of a reply into its question         *)
(* prevents loops; what the user has chosen is not asked again.            *)
AskedOnce ==
  at = "user" /\ reply = "choose" /\ said # None =>
    FirstAsked(Ambiguous(plan)).phrase \notin settled

(* The schema says that store_id is unique only within an OpCo; a store    *)
(* named exactly, beside another of its number, is still a name of its own *)
(* that an answer must filter by.                                          *)
EveryNameCounts ==
  at = "user" /\ reply = "answer" =>
    \A q \in question : q.certain /\ q.exact =>
      \E s \in Resolved(plan) :
        s.class = Best(q.candidates).class /\ s.name = Best(q.candidates).name

(* clarification_policy.py: after a lookup that failed under what was      *)
(* selected, "the user should not continue by answering the failed         *)
(* product/store value": a short reply does not carry the failed plan on.  *)
FailedLookupIsAbandoned ==
  [][at = "user" /\ reply = "impossible" /\ at' = "resolve" /\ said' # None => plan' = {}]_vars
=============================================================================
