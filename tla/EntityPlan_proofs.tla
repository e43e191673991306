--------------------------- MODULE EntityPlan_proofs ---------------------------
(***************************************************************************)
(* The properties of EntityPlan, for every dictionary, every set of spans  *)
(* and every budget.                                                       *)
(*                                                                         *)
(* What CHOOSE picks has to exist first: an option of best rank, an option *)
(* with a number, the slot asked first, the store of a label.  The rest    *)
(* follows one slot through what a step can make of it: carried, adopted,  *)
(* pinned.                                                                 *)
(***************************************************************************)
EXTENDS EntityPlan, TLAPS, WellFoundedInduction, FiniteSetTheorems, FunctionTheorems

StoreNames == {s.name : s \in Stores}

(* What an option list and an entity keep of the dictionary they are from. *)
Listed(o) == o.class = "store" => o.name \in StoreNames

Sound(slot) ==
  /\ IsFiniteSet(slot.options)
  /\ \A o, p \in slot.options : o.rank = p.rank => o = p
  /\ \A o \in slot.options : Listed(o)
  /\ slot.status = "resolved" => Listed(slot)
  /\ slot.status = "ambiguous" /\ slot.exact => \A o \in slot.options : o.class # "opco"

(* The spans still to be added fit the bound. *)
Room ==
  /\ at = "resolve" => Fits(question)
  /\ at = "match" => Fits(todo)

Numbered == \A s \in plan : s.id <= made

IInv ==
  /\ TypeOK /\ Room /\ Numbered
  /\ \A s \in plan : Sound(s)
-----------------------------------------------------------------------------
(* What CHOOSE picks *)

(* The intervals below the members of T are finite sets, and of these one  *)
(* is least by inclusion.                                                  *)
LEMMA LeastNumber ==
  ASSUME NEW T \in SUBSET Nat, T # {}
  PROVE  \E m \in T : \A k \in T : m <= k
<1> DEFINE F == {0..m : m \in T}
<1>1. F \subseteq FiniteSubsetsOf(Nat) /\ F # {}
  <2>1. \A m \in T : 0..m \in SUBSET Nat /\ IsFiniteSet(0..m)
    BY FS_Interval
  <2> QED BY <2>1 DEF FiniteSubsetsOf
<1>2. PICK x \in F : \A y \in F : ~(<<y, x>> \in StrictSubsetOrdering(Nat))
  BY <1>1, FS_StrictSubsetOrderingWellFounded, WFMin
<1>3. PICK m \in T : x = 0..m
  BY DEF F
<1>4. \A k \in T : m <= k
  <2> SUFFICES ASSUME NEW k \in T, k < m PROVE FALSE
    OBVIOUS
  <2>1. 0..k \in F /\ 0..k \subseteq 0..m /\ m \in 0..m /\ m \notin 0..k
    OBVIOUS
  <2>2. <<0..k, 0..m>> \in StrictSubsetOrdering(Nat)
    BY <2>1 DEF StrictSubsetOrdering
  <2> QED BY <1>2, <1>3, <2>1, <2>2
<1> QED BY <1>4

(* The lists that are chosen from: finite, and ranked without ties. *)
Ranked(options) ==
  /\ IsFiniteSet(options)
  /\ \A o \in options : o.rank \in Nat
  /\ \A o, p \in options : o.rank = p.rank => o = p

LEMMA BestExists ==
  ASSUME NEW options, options # {}, \A o \in options : o.rank \in Nat
  PROVE  Best(options) \in options /\ \A p \in options : Best(options).rank <= p.rank
<1>1. PICK m \in {o.rank : o \in options} : \A k \in {o.rank : o \in options} : m <= k
  BY LeastNumber
<1>2. \E o \in options : \A p \in options : o.rank <= p.rank
  BY <1>1
<1> QED BY <1>2 DEF Best

(* The options below one another are counted by different numbers, as many *)
(* as there are options: every number of the list is one of them.          *)
LEMMA NthExists ==
  ASSUME NEW options, Ranked(options), NEW n \in Nat \ {0}, n <= Cardinality(options)
  PROVE  Nth(options, n) \in options
<1> DEFINE Below(o) == {p \in options : p.rank < o.rank}
           N == Cardinality(options)
           f == [o \in options |-> Cardinality(Below(o))]
<1>1. N \in Nat
  BY FS_CardinalityType DEF Ranked
<1>2. \A o \in options : IsFiniteSet(Below(o)) /\ Cardinality(Below(o)) \in Nat
  BY FS_Subset, FS_CardinalityType DEF Ranked
<1>3. ASSUME NEW o \in options PROVE Cardinality(Below(o)) \in 0..N-1
  <2>1. o \notin Below(o) /\ Below(o) \in SUBSET options
    BY DEF Ranked
  <2>2. Cardinality(Below(o)) <= N /\ Cardinality(Below(o)) # N
    BY <2>1, FS_Subset DEF Ranked
  <2> QED BY <1>1, <1>2, <2>2
<1>4. ASSUME NEW o \in options, NEW p \in options, o.rank < p.rank
      PROVE  Cardinality(Below(o)) # Cardinality(Below(p))
  <2>1. Below(o) \in SUBSET Below(p) /\ o \in Below(p) /\ o \notin Below(o)
    BY <1>4 DEF Ranked
  <2>2. Cardinality(Below(p)) = Cardinality(Below(o)) => Below(p) = Below(o)
    BY <2>1, <1>2, FS_Subset
  <2> QED BY <2>1, <2>2
<1>5. f \in [options -> 0..N-1]
  BY <1>3
<1>6. ASSUME NEW o \in options, NEW p \in options, f[o] = f[p] PROVE o = p
  <2>1. ~(o.rank < p.rank) /\ ~(p.rank < o.rank)
    BY <1>4, <1>6
  <2> QED BY <2>1 DEF Ranked
<1>7. f \in Injection(options, 0..N-1)
  BY <1>5, <1>6, Fun_IsInj
<1>8. IsFiniteSet(0..N-1) /\ Cardinality(0..N-1) = N
  <2> HIDE DEF N
  <2>1. N - 1 \in Int
    BY <1>1
  <2>2. /\ IsFiniteSet(0..N-1)
        /\ Cardinality(0..N-1) = IF 0 > N - 1 THEN 0 ELSE (N - 1) - 0 + 1
    BY <2>1, FS_Interval
  <2> QED BY <1>1, <2>2
<1>9. f \in Surjection(options, 0..N-1)
  BY <1>7, <1>8, FS_Injection
<1>10. n - 1 \in 0..N-1
  BY <1>1
<1>11. PICK o \in options : f[o] = n - 1
  BY <1>9, <1>10 DEF Surjection
<1>12. f[o] = Cardinality({p \in options : p.rank < o.rank})
  OBVIOUS
<1> QED BY <1>11, <1>12 DEF Nth

(* The first by priority, and of those the first by id. *)
LEMMA FirstAskedExists ==
  ASSUME NEW slots, slots # {}, slots \subseteq Slots,
         \A s, t \in slots : s.id = t.id => s = t
  PROVE  FirstAsked(slots) \in slots
<1> DEFINE P(s) == Priority(s.class)
<1>1. \A s \in slots : P(s) \in Nat /\ s.id \in Nat
  BY BoundsAssumption DEF Slots, Classes, Levels, Priority
<1>2. PICK m \in {P(s) : s \in slots} : \A k \in {P(s) : s \in slots} : m <= k
  <2>1. {P(s) : s \in slots} \in SUBSET Nat /\ {P(s) : s \in slots} # {}
    BY <1>1
  <2> QED BY <2>1, LeastNumber
<1> DEFINE Ids == {s.id : s \in {t \in slots : P(t) = m}}
<1>3. PICK i \in Ids : \A k \in Ids : i <= k
  <2> HIDE DEF P
  <2>1. Ids \in SUBSET Nat /\ Ids # {}
    BY <1>1
  <2> QED BY <2>1, LeastNumber
<1>4. PICK s \in slots : P(s) = m /\ s.id = i
  BY <1>3
<1>5. ASSUME NEW t \in slots \ {s} PROVE AskedBefore(s, t)
  <2> HIDE DEF P
  <2>1. m <= P(t) /\ s.id # t.id
    BY <1>2
  <2>2. P(t) = m => s.id < t.id
    BY <1>1, <1>3, <1>4, <2>1, SMTT(30)
  <2>3. P(s) < P(t) \/ (P(s) = P(t) /\ s.id < t.id)
    BY <1>1, <1>4, <2>1, <2>2
  <2> QED BY <2>3 DEF AskedBefore, P
<1> QED BY <1>4, <1>5 DEF FirstAsked

(* The first by the priority of its best reading, then as they stand. *)
LEMMA NextSpanExists ==
  ASSUME NEW spans \in SUBSET Spans, spans # {}
  PROVE  NextSpan(spans) \in spans
<1> DEFINE P(s) == Priority(Best(s.candidates).class)
<1>1. \A s \in spans : P(s) \in Nat /\ s.phrase \in Nat
  <2> SUFFICES ASSUME NEW s \in spans PROVE P(s) \in Nat /\ s.phrase \in Nat
    OBVIOUS
  <2>1. Best(s.candidates) \in s.candidates
    BY SpanAssumption, BestExists
  <2>2. Best(s.candidates).class \in Classes /\ s.phrase \in Nat
    BY <2>1, SpanAssumption
  <2> QED BY <2>2 DEF Classes, Levels, Priority
<1> HIDE DEF P
<1>2. PICK m \in {P(s) : s \in spans} : \A k \in {P(s) : s \in spans} : m <= k
  <2>1. {P(s) : s \in spans} \in SUBSET Nat /\ {P(s) : s \in spans} # {}
    BY <1>1
  <2> QED BY <2>1, LeastNumber
<1> DEFINE Phrases == {s.phrase : s \in {t \in spans : P(t) = m}}
<1>3. PICK i \in Phrases : \A k \in Phrases : i <= k
  <2>1. Phrases \in SUBSET Nat /\ Phrases # {}
    BY <1>1
  <2> QED BY <2>1, LeastNumber
<1>4. PICK s \in spans : P(s) = m /\ s.phrase = i
  BY <1>3
<1>5. ASSUME NEW t \in spans \ {s}
      PROVE  P(s) < P(t) \/ (P(s) = P(t) /\ s.phrase < t.phrase)
  <2>1. m <= P(t) /\ s.phrase # t.phrase
    BY <1>2, SpanAssumption
  <2>2. P(t) = m => s.phrase < t.phrase
    BY <1>1, <1>3, <1>4, <2>1
  <2> QED BY <1>1, <1>4, <2>1, <2>2
<1> QED BY <1>4, <1>5 DEF NextSpan, P

LEMMA StoreNamedExists ==
  ASSUME NEW name \in StoreNames
  PROVE  StoreNamed(name) \in Stores /\ StoreNamed(name).name = name
<1> DEFINE T == {s.order : s \in {t \in Stores : t.name = name}}
<1>1. T \in SUBSET Nat /\ T # {}
  BY StoreAssumption DEF StoreNames
<1>2. PICK m \in T : \A k \in T : m <= k
  BY <1>1, LeastNumber
<1>3. \E s \in Stores : s.name = name /\ \A t \in Stores : t.name = name => s.order <= t.order
  BY <1>2
<1> QED BY <1>3 DEF StoreNamed
-----------------------------------------------------------------------------
(* What a step can make of an option and of a slot *)

LEMMA CandidatesAreOptions ==
  ASSUME NEW q \in Spans
  PROVE  /\ q.candidates \subseteq Options /\ q.candidates # {}
         /\ Ranked(q.candidates) /\ \A o \in q.candidates : Listed(o)
         /\ q.exact \in BOOLEAN /\ q.certain \in BOOLEAN
         /\ q.exact /\ ~q.certain => \A o \in q.candidates : o.class # "opco"
<1>1. ASSUME NEW o \in q.candidates PROVE o \in Options
  <2>1. o = [rank |-> o.rank, class |-> o.class, name |-> o.name, value |-> o.value, opco |-> o.opco]
        /\ o.class \in Classes
    BY SpanAssumption
  <2>2. o \in Candidates
    BY DEF Candidates
  <2> QED BY <2>1, <2>2 DEF Options, Values, OpCos
<1>2. Ranked(q.candidates)
  BY SpanAssumption DEF Ranked
<1>3. \A o \in q.candidates : Listed(o)
  BY StoreAssumption DEF Listed, StoreNames
<1> QED BY <1>1, <1>2, <1>3, SpanAssumption

LEMMA RanksAreNumbers == \A o \in Options : o.rank \in Nat
  BY SpanAssumption DEF Options, Candidates

LEMMA InternalOption ==
  ASSUME NEW o \in Options, Listed(o)
  PROVE  /\ Internal(o) \in Options
         /\ Internal(o).rank = o.rank /\ Internal(o).class = o.class /\ Internal(o).name = o.name
         /\ Listed(Internal(o))
<1>1. CASE o.class = "store"
  <2>1. StoreNamed(o.name) \in Stores
    BY <1>1, StoreNamedExists DEF Listed
  <2>2. StoreNamed(o.name).value \in Values /\ StoreNamed(o.name).opco \in OpCos
    BY <2>1 DEF Values, OpCos
  <2> QED BY <1>1, <2>2 DEF Internal, Options, Listed
<1>2. CASE o.class # "store"
  BY <1>2 DEF Internal
<1> QED BY <1>1, <1>2

LEMMA AdoptedSlot ==
  ASSUME NEW s \in Slots, NEW o \in Options, Listed(o)
  PROVE  /\ Adopted(s, o) \in Slots /\ Sound(Adopted(s, o))
         /\ Adopted(s, o).id = s.id /\ Adopted(s, o).phrase = s.phrase
         /\ Adopted(s, o).status = "resolved" /\ Adopted(s, o).options = {}
         /\ Adopted(s, o).class = o.class /\ Adopted(s, o).name = o.name
         /\ Adopted(s, o).opco = o.opco
<1>1. /\ Adopted(s, o) \in Slots
      /\ Adopted(s, o).id = s.id /\ Adopted(s, o).phrase = s.phrase
      /\ Adopted(s, o).status = "resolved" /\ Adopted(s, o).options = {}
      /\ Adopted(s, o).class = o.class /\ Adopted(s, o).name = o.name
      /\ Adopted(s, o).opco = o.opco
  BY DEF Adopted, Slots, Options
<1>2. Sound(Adopted(s, o))
  BY <1>1, FS_EmptySet DEF Sound, Listed
<1> QED BY <1>1, <1>2

LEMMA InternalList ==
  ASSUME NEW options, options \subseteq Options, IsFiniteSet(options),
         \A o, p \in options : o.rank = p.rank => o = p, \A o \in options : Listed(o)
  PROVE  LET kept == {Internal(o) : o \in options}
         IN /\ kept \subseteq Options /\ IsFiniteSet(kept)
            /\ \A o, p \in kept : o.rank = p.rank => o = p
            /\ \A o \in kept : Listed(o)
            /\ (\A o \in options : o.class # "opco") => (\A o \in kept : o.class # "opco")
<1> DEFINE kept == {Internal(o) : o \in options}
           f == [o \in options |-> Internal(o)]
<1>1. f \in Surjection(options, kept)
  BY DEF Surjection
<1>2. IsFiniteSet(kept)
  <2> HIDE DEF f, kept
  <2> QED BY <1>1, FS_Surjection
<1>3. \A o \in options :
        /\ Internal(o) \in Options /\ Internal(o).rank = o.rank
        /\ Internal(o).class = o.class /\ Listed(Internal(o))
  BY InternalOption
<1> QED BY <1>2, <1>3

LEMMA CarriedSlot ==
  ASSUME NEW s \in Slots, Sound(s)
  PROVE  /\ Carried(s) \in Slots /\ Sound(Carried(s))
         /\ Carried(s).id = s.id /\ Carried(s).status = s.status /\ Carried(s).phrase = s.phrase
         /\ Carried(s).class = s.class /\ Carried(s).name = s.name
<1>1. CASE s.class # "store"
  BY <1>1 DEF Carried
<1>2. CASE s.class = "store" /\ s.status = "resolved"
  <2>1. StoreNamed(s.name) \in Stores
    BY <1>2, StoreNamedExists DEF Sound, Listed
  <2>2. StoreNamed(s.name).value \in Values /\ StoreNamed(s.name).opco \in OpCos
    BY <2>1 DEF Values, OpCos
  <2>3. Carried(s) = [s EXCEPT !.value = StoreNamed(s.name).value, !.opco = StoreNamed(s.name).opco]
    BY <1>2 DEF Carried, Internal
  <2>4. /\ Carried(s) \in Slots
        /\ Carried(s).id = s.id /\ Carried(s).status = s.status /\ Carried(s).phrase = s.phrase
        /\ Carried(s).class = s.class /\ Carried(s).name = s.name /\ Carried(s).options = s.options
    BY <2>2, <2>3 DEF Slots
  <2> QED BY <1>2, <2>4 DEF Sound, Listed
<1>3. CASE s.class = "store" /\ s.status = "ambiguous"
  <2> DEFINE kept == {Internal(o) : o \in s.options}
  <2>1. s.options \subseteq Options
    BY DEF Slots
  <2>2. /\ kept \subseteq Options /\ IsFiniteSet(kept)
        /\ \A o, p \in kept : o.rank = p.rank => o = p
        /\ \A o \in kept : Listed(o)
        /\ (\A o \in s.options : o.class # "opco") => (\A o \in kept : o.class # "opco")
    BY <2>1, InternalList DEF Sound
  <2>3. Carried(s) = [s EXCEPT !.column = "store", !.options = kept]
    BY <1>3 DEF Carried
  <2> HIDE DEF kept
  <2>4. /\ Carried(s) \in Slots
        /\ Carried(s).id = s.id /\ Carried(s).status = s.status /\ Carried(s).phrase = s.phrase
        /\ Carried(s).exact = s.exact
        /\ Carried(s).class = s.class /\ Carried(s).name = s.name /\ Carried(s).options = kept
    BY <2>2, <2>3 DEF Slots
  <2> QED BY <1>3, <2>2, <2>4 DEF Sound, Listed
<1> QED BY <1>1, <1>2, <1>3 DEF Slots

(* A slot that is pinned is left, narrowed, or adopted; and what it adopts *)
(* is of an OpCo it was pinned to, and is no OpCo itself.                  *)
LEMMA PinnedSlot ==
  ASSUME NEW p, NEW s \in Slots, Sound(s)
  PROVE  /\ Pin(p, s) \in Slots /\ Sound(Pin(p, s)) /\ Pin(p, s).id = s.id
         /\ s.status = "resolved" => Pin(p, s) = s
         /\ s.status = "ambiguous" =>
              \/ /\ Pin(p, s).status = "ambiguous" /\ Pin(p, s).class = s.class
                 /\ Pin(p, s).options = Kept(p, s)
              \/ /\ Pin(p, s).status = "resolved" /\ Pin(p, s).class # "opco"
                 /\ Scope(p, s) # {} /\ Pin(p, s).opco \in Scope(p, s) \union {None}
<1> DEFINE kept == Kept(p, s)
<1>1. kept \in SUBSET s.options /\ s.options \subseteq Options
  BY DEF Kept, Slots
<1>2. CASE s.status = "resolved" \/ kept = s.options
  BY <1>2 DEF Pin, Slots
<1>3. CASE s.status = "ambiguous" /\ kept # s.options /\ s.exact /\ Cardinality(kept) = 1
  <2>1. kept # {} /\ IsFiniteSet(kept)
    BY <1>1, <1>3, FS_Subset, FS_EmptySet DEF Sound
  <2>2. Best(kept) \in kept
    BY <1>1, <2>1, BestExists, RanksAreNumbers
  <2>3. Best(kept) \in Options /\ Listed(Best(kept)) /\ Best(kept).class # "opco"
    BY <1>1, <1>3, <2>2 DEF Sound
  <2>4. Pin(p, s) = Adopted(s, Best(kept))
    BY <1>3 DEF Pin
  <2>5. Scope(p, s) # {} /\ Best(kept).opco \in Scope(p, s) \union {None}
    BY <1>3, <2>2 DEF Kept
  <2> QED BY <1>3, <2>3, <2>4, <2>5, AdoptedSlot
<1>4. CASE s.status = "ambiguous" /\ kept # s.options /\ ~(s.exact /\ Cardinality(kept) = 1)
  <2>1. Pin(p, s) = [s EXCEPT !.options = kept]
    BY <1>4 DEF Pin
  <2>2. /\ Pin(p, s) \in Slots /\ Pin(p, s).id = s.id /\ Pin(p, s).status = s.status
        /\ Pin(p, s).class = s.class /\ Pin(p, s).exact = s.exact /\ Pin(p, s).options = kept
    BY <1>1, <2>1 DEF Slots
  <2>3. IsFiniteSet(kept)
    BY <1>1, FS_Subset DEF Sound
  <2> QED BY <1>1, <1>4, <2>2, <2>3 DEF Sound
<1> QED BY <1>2, <1>3, <1>4 DEF Slots

LEMMA NewSlot ==
  ASSUME NEW q \in Spans, NEW id \in 1..MaxSlots
  PROVE  Slot(id, q) \in Slots /\ Sound(Slot(id, q)) /\ Slot(id, q).id = id
<1> DEFINE best == Best(q.candidates)
           open == [id |-> id, phrase |-> q.phrase, exact |-> q.exact, status |-> "ambiguous",
                    class |-> best.class, column |-> Column(best.class), name |-> None,
                    value |-> None, opco |-> None, options |-> q.candidates]
<1>1. /\ q.candidates \subseteq Options /\ q.candidates # {} /\ Ranked(q.candidates)
      /\ \A o \in q.candidates : Listed(o) /\ q.exact \in BOOLEAN
  BY CandidatesAreOptions
<1>2. best \in q.candidates
  BY <1>1, BestExists DEF Ranked
<1>3. best \in Options /\ Listed(best) /\ best.class \in Classes
  BY <1>1, <1>2 DEF Options
<1>4. open \in Slots
  <2> HIDE DEF best
  <2> QED BY <1>1, <1>3 DEF Slots
<1>5. CASE q.certain
  <2>1. Slot(id, q) = Adopted(open, best)
    BY <1>5 DEF Slot
  <2> HIDE DEF best
  <2>2. open.id = id
    OBVIOUS
  <2> HIDE DEF open
  <2> QED BY <1>3, <1>4, <2>1, <2>2, AdoptedSlot
<1>6. CASE ~q.certain
  <2>1. Slot(id, q) = open
    BY <1>6 DEF Slot
  <2>2. Sound(open)
    BY <1>1, <1>6, CandidatesAreOptions DEF Sound, Ranked
  <2> QED BY <1>4, <2>1, <2>2
<1> QED BY <1>5, <1>6
-----------------------------------------------------------------------------
LEMMA InitInductive == Init => IInv
<1> SUFFICES ASSUME Init PROVE IInv
  OBVIOUS
<1>1. plan = {} /\ made \in 0..MaxSlots /\ at = "user"
  BY BoundsAssumption DEF Init
<1>2. TypeOK
  BY <1>1 DEF Init, TypeOK, Clarifications
<1> QED BY <1>1, <1>2 DEF IInv, Room, Numbered

LEMMA FiniteQuestions ==
  ASSUME NEW spans \in SUBSET Spans
  PROVE  IsFiniteSet(spans) /\ Cardinality(spans) \in Nat
  BY SpanAssumption, FS_Subset, FS_CardinalityType

LEMMA UserStep ==
  ASSUME IInv, Ask \/ Answer \/ FollowUp
  PROVE  IInv'
<1> USE DEF IInv
<1>1. CASE Ask
  <2>1. Room'
    BY <1>1, FiniteQuestions DEF Ask, Room, Fits
  <2> QED BY <1>1, <2>1, BoundsAssumption DEF Ask, TypeOK, Numbered
<1>2. CASE Answer
  <2>1. Room'
    BY <1>2 DEF Answer, Room, Fits
  <2> QED BY <1>2, <2>1 DEF Answer, TypeOK, Numbered
<1>3. CASE FollowUp
  <2>1. Room'
    BY <1>3 DEF FollowUp, Room, Fits
  <2> QED BY <1>3, <2>1 DEF FollowUp, TypeOK, Numbered
<1> QED BY <1>1, <1>2, <1>3

(* What a reply selects: a slot still open, and one of its options. *)
LEMMA SelectedExists ==
  ASSUME NEW p \in SUBSET Slots, \A s, t \in p : s.id = t.id => s = t,
         \A s \in p : Sound(s), NEW r \in Numbers \union Texts,
         \E s \in Ambiguous(p) : CanTake(s, r)
  PROVE  LET slot == FirstAsked({s \in Ambiguous(p) : CanTake(s, r)})
         IN slot \in Ambiguous(p) /\ Taken(slot, r) \in slot.options
<1> DEFINE able == {s \in Ambiguous(p) : CanTake(s, r)}
           slot == FirstAsked(able)
<1>1. able \subseteq Slots /\ able # {} /\ \A s, t \in able : s.id = t.id => s = t
  BY DEF Ambiguous
<1>2. slot \in able
  <2> HIDE DEF able
  <2> QED BY <1>1, FirstAskedExists
<1>3. slot \in Ambiguous(p) /\ CanTake(slot, r) /\ slot \in Slots /\ Sound(slot)
  BY <1>2 DEF Ambiguous
<1> HIDE DEF slot
<1>4. \A o \in slot.options : o \in Options /\ o.rank \in Nat
  BY <1>3, RanksAreNumbers DEF Slots
<1>5. CASE Matches(slot, r) # {}
  <2>1. Matches(slot, r) \subseteq slot.options
    BY DEF Matches
  <2>2. Best(Matches(slot, r)) \in Matches(slot, r)
    BY <1>4, <1>5, <2>1, BestExists
  <2> QED BY <1>3, <1>5, <2>1, <2>2 DEF Taken, slot
<1>6. CASE Matches(slot, r) = {}
  <2>1. r \in Nat \ {0} /\ r <= Cardinality(slot.options)
    BY <1>3, <1>6, BoundsAssumption DEF CanTake
  <2>2. Ranked(slot.options)
    BY <1>3, <1>4 DEF Sound, Ranked
  <2>3. Nth(slot.options, r) \in slot.options
    BY <2>1, <2>2, NthExists
  <2> QED BY <1>3, <1>6, <2>3 DEF Taken, slot
<1> QED BY <1>5, <1>6

(* A plan that is carried keeps its slots. *)
LEMMA CarriedPlan ==
  ASSUME IInv
  PROVE  LET carried == {Carried(s) : s \in plan}
         IN /\ carried \in SUBSET Slots
            /\ \A s, t \in carried : s.id = t.id => s = t
            /\ \A s \in carried : Sound(s) /\ s.id <= made
<1>1. \A s \in plan : /\ s \in Slots /\ Carried(s) \in Slots /\ Sound(Carried(s))
                       /\ Carried(s).id = s.id /\ s.id <= made
  BY CarriedSlot DEF IInv, TypeOK, Numbered
<1> QED BY <1>1 DEF IInv, TypeOK

LEMMA SelectStep ==
  ASSUME IInv, Select
  PROVE  IInv'
<1> DEFINE carried == {Carried(s) : s \in plan}
           able == {s \in Ambiguous(carried) : CanTake(s, said)}
           slot == FirstAsked(able)
           took == Adopted(slot, Internal(Taken(slot, said)))
<1>1. /\ carried \in SUBSET Slots
      /\ \A s, t \in carried : s.id = t.id => s = t
      /\ \A s \in carried : Sound(s) /\ s.id <= made
  BY CarriedPlan
<1>2. said \in Numbers \union Texts
  BY DEF IInv, TypeOK, Select
<1>3. CASE able = {}
  <2>1. plan' = carried /\ UNCHANGED <<picked, settled>>
    BY <1>3 DEF Select
  <2> HIDE DEF carried, able, slot
  <2> QED BY <1>1, <2>1 DEF Select, IInv, TypeOK, Room, Numbered
<1>4. CASE able # {}
  <2>1. slot \in Ambiguous(carried) /\ Taken(slot, said) \in slot.options
    <3>1. \E s \in Ambiguous(carried) : CanTake(s, said)
      BY <1>4
    <3> HIDE DEF carried
    <3> QED BY <1>1, <1>2, <3>1, SelectedExists
  <2>2. slot \in carried /\ slot \in Slots /\ Sound(slot)
    BY <1>1, <2>1 DEF Ambiguous
  <2>3. /\ plan' = (carried \ {slot}) \union {took}
        /\ picked' = picked \union {slot.id}
        /\ settled' = settled \union
              ({slot.phrase} \ {s.phrase : s \in Ambiguous(plan') \ {slot}})
    BY <1>4 DEF Select
  <2> HIDE DEF carried, able, slot
  <2>4. /\ Internal(Taken(slot, said)) \in Options /\ Listed(Internal(Taken(slot, said)))
    BY <2>1, <2>2, InternalOption DEF Slots, Sound
  <2>5. took \in Slots /\ Sound(took) /\ took.id = slot.id
    BY <2>2, <2>4, AdoptedSlot
  <2> HIDE DEF took
  <2>6. /\ plan' \subseteq Slots
        /\ \A s, t \in plan' : s.id = t.id => s = t
        /\ \A s \in plan' : Sound(s) /\ s.id <= made
    BY <1>1, <2>2, <2>3, <2>5
  <2>7. slot.id \in 1..MaxSlots /\ slot.phrase \in {s.phrase : s \in Spans}
    BY <2>2 DEF Slots
  <2>8. TypeOK'
    BY <2>3, <2>6, <2>7 DEF Select, IInv, TypeOK
  <2> QED BY <2>6, <2>8 DEF Select, IInv, Room, Numbered
<1> QED BY <1>3, <1>4

LEMMA ExtractStep ==
  ASSUME IInv, Extract
  PROVE  IInv'
<1> DEFINE carried == {Carried(s) : s \in plan}
<1>1. /\ carried \in SUBSET Slots
      /\ \A s, t \in carried : s.id = t.id => s = t
      /\ \A s \in carried : Sound(s) /\ s.id <= made
  BY CarriedPlan
<1>2. plan' = carried
  BY DEF Extract
<1> HIDE DEF carried
<1>3. todo' \in SUBSET question /\ question \in SUBSET Spans
  BY DEF Extract, Deduped, IInv, TypeOK
<1>4. Cardinality(todo') <= Cardinality(question)
  BY <1>3, FiniteQuestions, FS_Subset
<1>5. Cardinality(todo') \in Nat /\ Cardinality(question) \in Nat
  BY <1>3, FiniteQuestions
<1>6. Room'
  BY <1>4, <1>5, BoundsAssumption DEF Extract, IInv, TypeOK, Room, Fits
<1> QED BY <1>1, <1>2, <1>3, <1>6 DEF Extract, IInv, TypeOK, Numbered

LEMMA MatchStep ==
  ASSUME IInv, Match
  PROVE  IInv'
<1> DEFINE span == NextSpan(todo)
           slot == Slot(made + 1, span)
<1>1. todo \in SUBSET Spans /\ todo # {} /\ made \in Nat /\ made + Cardinality(todo) <= MaxSlots
  BY DEF Match, IInv, TypeOK, Room, Fits
<1>2. span \in todo
  BY <1>1, NextSpanExists
<1> HIDE DEF span
<1>3. IsFiniteSet(todo) /\ Cardinality(todo) \in Nat /\ Cardinality(todo) # 0
  BY <1>1, FiniteQuestions, FS_EmptySet
<1>4. Cardinality(todo \ {span}) = Cardinality(todo) - 1
  BY <1>2, <1>3, FS_RemoveElement
<1>5. made + 1 \in 1..MaxSlots
  BY <1>1, <1>3, BoundsAssumption
<1>6. slot \in Slots /\ Sound(slot) /\ slot.id = made + 1
  BY <1>1, <1>2, <1>5, NewSlot
<1> HIDE DEF slot
<1>7. CASE plan' = plan \union {slot} /\ made' = made + 1 /\ UNCHANGED overflow
           /\ todo' = todo \ {span}
  <2>1. /\ plan' \subseteq Slots
        /\ \A s \in plan' : Sound(s) /\ s.id <= made'
        /\ \A s, t \in plan' : s.id = t.id => s = t
    <3>1. \A s \in plan : s \in Slots /\ s.id \in 1..MaxSlots /\ s.id <= made /\ Sound(s)
      BY DEF IInv, TypeOK, Numbered, Slots
    <3>2. \A s, t \in plan : s.id = t.id => s = t
      BY DEF IInv, TypeOK
    <3> QED BY <1>1, <1>6, <1>7, <3>1, <3>2
  <2>2. Room'
    BY <1>1, <1>3, <1>4, <1>7 DEF Match, Room, Fits
  <2>3. TypeOK'
    BY <1>5, <1>7, <2>1 DEF Match, IInv, TypeOK
  <2> QED BY <2>1, <2>2, <2>3 DEF IInv, Numbered
<1>8. CASE UNCHANGED <<plan, made>> /\ todo' = todo \ {span} /\ overflow' \in BOOLEAN
  <2>1. Room'
    <3>1. /\ Cardinality(todo') = Cardinality(todo) - 1
          /\ made' = made /\ at' = "match"
      BY <1>4, <1>8 DEF Match
    <3>2. made' + Cardinality(todo') <= MaxSlots
      BY <1>1, <1>3, <3>1, BoundsAssumption
    <3> QED BY <3>1, <3>2 DEF Room, Fits
  <2> QED BY <1>8, <2>1 DEF Match, IInv, TypeOK, Numbered
<1>9. overflow \in BOOLEAN
  BY DEF IInv, TypeOK
<1> QED BY <1>7, <1>8, <1>9 DEF Match, span, slot

LEMMA FinalizeStep ==
  ASSUME IInv, Finalize
  PROVE  IInv'
<1> DEFINE pinned == {Pin(plan, s) : s \in plan}
<1>1. \A s \in plan : /\ Pin(plan, s) \in Slots /\ Sound(Pin(plan, s))
                       /\ Pin(plan, s).id = s.id /\ s.id <= made
  BY PinnedSlot DEF IInv, TypeOK, Numbered
<1>2. /\ pinned \subseteq Slots
      /\ \A s, t \in pinned : s.id = t.id => s = t
      /\ \A s \in pinned : Sound(s) /\ s.id <= made
  BY <1>1 DEF IInv, TypeOK
<1>3. plan' \subseteq pinned /\ reply' \in Clarifications \union {"none", "answer"}
  BY DEF Finalize, Clarifications
<1> HIDE DEF pinned
<1> QED BY <1>2, <1>3 DEF Finalize, IInv, TypeOK, Room, Numbered

LEMMA Inductive == IInv /\ [Next]_vars => IInv'
<1> SUFFICES ASSUME IInv, [Next]_vars PROVE IInv'
  OBVIOUS
<1>1. CASE Ask \/ Answer \/ FollowUp
  BY <1>1, UserStep
<1>2. CASE Select
  BY <1>2, SelectStep
<1>3. CASE Extract
  BY <1>3, ExtractStep
<1>4. CASE Match
  BY <1>4, MatchStep
<1>5. CASE Finalize
  BY <1>5, FinalizeStep
<1>6. CASE ResolverFails
  BY <1>6 DEF ResolverFails, IInv, TypeOK, Room, Numbered, Clarifications
<1>7. CASE TooMany
  BY <1>7 DEF TooMany, IInv, TypeOK, Room, Numbered, Clarifications
<1>8. CASE Matched
  BY <1>8 DEF Matched, IInv, TypeOK, Room, Numbered
<1>9. CASE UNCHANGED vars
  BY <1>9 DEF vars, IInv, TypeOK, Room, Fits, Numbered
<1> QED BY <1>1, <1>2, <1>3, <1>4, <1>5, <1>6, <1>7, <1>8, <1>9 DEF Next

LEMMA Invariant == Spec => []IInv
  BY InitInductive, Inductive, PTL DEF Spec

(* The plan keeps its shape through everything that is made of it: one     *)
(* slot per id, whose options come from the dictionary, within the bound.  *)
THEOREM PlanIsWellTyped == Spec => []TypeOK
  BY Invariant, PTL DEF IInv
-----------------------------------------------------------------------------
(* A turn asks only what can be answered, and answers only when nothing is *)
(* left to ask (_finalize: the pin comes before the slots are counted).    *)
LEMMA NothingOpenStep == NothingLeftOpen /\ [Next]_vars => NothingLeftOpen'
<1> SUFFICES ASSUME NothingLeftOpen, [Next]_vars PROVE NothingLeftOpen'
  OBVIOUS
<1>1. CASE Finalize
  <2> DEFINE kept == {Pin(plan, s) : s \in plan} \ Redundant({Pin(plan, s) : s \in plan})
  <2>1. /\ plan' = kept
        /\ \/ Emptied(kept) # {} /\ reply' = "impossible"
           \/ Emptied(kept) = {} /\ Ambiguous(kept) # {} /\ reply' = "choose"
           \/ Ambiguous(kept) = {} /\ reply' \in {"answer", "period"}
    BY <1>1 DEF Finalize
  <2> HIDE DEF kept
  <2> QED BY <2>1 DEF NothingLeftOpen, Emptied
<1>2. CASE at' # "user" \/ reply' \in {"problem", "too many"}
  BY <1>2 DEF NothingLeftOpen
<1>3. CASE UNCHANGED vars
  BY <1>3 DEF vars, NothingLeftOpen, Ambiguous
<1>4. CASE Next /\ ~Finalize
  BY <1>2, <1>4 DEF Next, Ask, Answer, FollowUp, ResolverFails, Select, Extract, Match, TooMany, Matched
<1> QED BY <1>1, <1>3, <1>4

THEOREM NothingIsLeftOpen == Spec => []NothingLeftOpen
<1>1. Init => NothingLeftOpen
  BY DEF Init, NothingLeftOpen
<1> QED BY <1>1, NothingOpenStep, PTL DEF Spec
-----------------------------------------------------------------------------
(* The pin does not fix another OpCo: what it adopts is of an OpCo the     *)
(* plan was pinned to, and names none.  So a list is still filtered by     *)
(* what is fixed once every slot has been pinned.                          *)
LEMMA PinFixesNothingNew ==
  ASSUME IInv, NEW kept \in SUBSET {Pin(plan, s) : s \in plan},
         NEW t \in Resolved(kept), t.opco # None
  PROVE  /\ t.opco \in Pinned(plan)
         /\ t.class = "opco" => t.opco \in Named(plan)
<1>1. PICK s \in plan : t = Pin(plan, s)
  BY DEF Resolved
<1>2. s \in Slots /\ Sound(s) /\ s.status \in {"resolved", "ambiguous"}
  BY DEF IInv, TypeOK, Slots
<1>3. CASE s.status = "resolved"
  <2>1. t = s
    BY <1>1, <1>2, <1>3, PinnedSlot
  <2> QED BY <1>3, <2>1 DEF Pinned, Named, Resolved
<1>4. CASE s.status = "ambiguous"
  <2>1. t.class # "opco" /\ t.opco \in Scope(plan, s) \union {None}
    BY <1>1, <1>2, <1>4, PinnedSlot DEF Resolved
  <2>2. Scope(plan, s) \subseteq Pinned(plan)
    BY DEF Scope, Named, Pinned, Resolved
  <2> QED BY <2>1, <2>2
<1> QED BY <1>2, <1>3, <1>4

(* And it keeps what is fixed: a slot that is resolved is left alone and   *)
(* is not dropped.                                                         *)
LEMMA PinKeepsResolved ==
  ASSUME IInv, Finalize, NEW s \in Resolved(plan)
  PROVE  s \in Resolved(plan')
<1>1. s \in plan /\ s \in Slots /\ Sound(s) /\ s.status = "resolved"
  BY DEF IInv, TypeOK, Resolved
<1>2. Pin(plan, s) = s
  BY <1>1, PinnedSlot
<1>3. s \notin Redundant({Pin(plan, r) : r \in plan})
  BY <1>1 DEF Redundant, Emptied, Ambiguous
<1> QED BY <1>1, <1>2, <1>3 DEF Finalize, Resolved

LEMMA OptionsStep == IInv /\ OptionsRespectPin /\ [Next]_vars => OptionsRespectPin'
<1> SUFFICES ASSUME IInv, OptionsRespectPin, [Next]_vars PROVE OptionsRespectPin'
  OBVIOUS
<1>1. CASE Finalize
  <2> DEFINE Fixed(p, s) == {t \in Resolved(p) : t.opco # None /\ (s.class # "store" \/ t.class = "opco")}
  <2>1. SUFFICES ASSUME NEW s \in Ambiguous(plan'), Fixed(plan', s) # {}, NEW o \in s.options
                 PROVE  o.opco \in {t.opco : t \in Fixed(plan', s)} \union {None}
    BY DEF OptionsRespectPin
  <2>2. plan' \in SUBSET {Pin(plan, r) : r \in plan}
    BY <1>1 DEF Finalize
  <2>3. PICK r \in plan : s = Pin(plan, r)
    BY <2>2 DEF Ambiguous
  <2>4. r \in Slots /\ Sound(r) /\ r.status \in {"resolved", "ambiguous"}
    BY DEF IInv, TypeOK, Slots
  <2>5. r.status = "ambiguous" /\ s.class = r.class /\ s.options = Kept(plan, r)
    BY <2>3, <2>4, PinnedSlot DEF Ambiguous
  <2>6. PICK t \in Fixed(plan', s) : TRUE
    BY <2>1
  <2>7. t.opco \in Scope(plan, r)
    BY <2>2, <2>5, <2>6, PinFixesNothingNew DEF Scope
  <2>8. o.opco \in Scope(plan, r) \union {None}
    BY <2>1, <2>5, <2>7 DEF Kept
  <2>9. ASSUME NEW c \in Scope(plan, r)
        PROVE  \E f \in Fixed(plan, s) : f.opco = c
    BY <2>5 DEF Scope, Pinned, Named, Resolved
  <2>10. Fixed(plan, s) \subseteq Fixed(plan', s)
    BY <1>1, PinKeepsResolved
  <2> QED BY <2>8, <2>9, <2>10
<1>2. CASE at' # "user" \/ reply' \in {"problem", "too many"}
  BY <1>2 DEF OptionsRespectPin
<1>3. CASE UNCHANGED vars
  BY <1>3 DEF vars, OptionsRespectPin, Ambiguous, Resolved
<1>4. CASE Next /\ ~Finalize
  BY <1>2, <1>4 DEF Next, Ask, Answer, FollowUp, ResolverFails, Select, Extract, Match, TooMany, Matched
<1> QED BY <1>1, <1>3, <1>4

(* Whatever the order in which slots were opened and OpCos became fixed,   *)
(* the list shown holds no option of an OpCo the plan excludes             *)
(* (_apply_opco_pin).                                                      *)
THEOREM OptionsAreRespected == Spec => []OptionsRespectPin
<1>1. Init => OptionsRespectPin
  BY DEF Init, OptionsRespectPin
<1> QED BY <1>1, OptionsStep, Invariant, PTL DEF Spec
-----------------------------------------------------------------------------
(* A settled slot is still the plan's, and the same entity. *)
Stays(s) == \E t \in Resolved(plan') : t.id = s.id /\ t.class = s.class /\ t.name = s.name

LEMMA CarriedStays ==
  ASSUME IInv, NEW s \in Resolved(plan), Carried(s) \in plan'
  PROVE  Stays(s)
<1>1. s \in Slots /\ Sound(s) /\ s.status = "resolved"
  BY DEF IInv, TypeOK, Resolved
<1>2. /\ Carried(s).status = "resolved" /\ Carried(s).id = s.id
      /\ Carried(s).class = s.class /\ Carried(s).name = s.name
  BY <1>1, CarriedSlot
<1> QED BY <1>2 DEF Stays, Resolved

LEMMA SelectKeepsSettled ==
  ASSUME IInv, Select, NEW s \in Resolved(plan)
  PROVE  Stays(s)
<1> DEFINE carried == {Carried(t) : t \in plan}
           able == {t \in Ambiguous(carried) : CanTake(t, said)}
           slot == FirstAsked(able)
<1>1. s \in plan /\ s \in Slots /\ Sound(s) /\ s.status = "resolved"
  BY DEF IInv, TypeOK, Resolved
<1>2. Carried(s) \in carried /\ Carried(s).status = "resolved"
  BY <1>1, CarriedSlot
<1>3. able # {} => slot.status = "ambiguous"
  <2>1. /\ carried \in SUBSET Slots
        /\ \A t, u \in carried : t.id = u.id => t = u
        /\ \A t \in carried : Sound(t)
    BY CarriedPlan
  <2>2. said \in Numbers \union Texts
    BY DEF IInv, TypeOK, Select
  <2>3. able # {} => \E t \in Ambiguous(carried) : CanTake(t, said)
    OBVIOUS
  <2> HIDE DEF carried
  <2> QED BY <2>1, <2>2, <2>3, SelectedExists DEF Ambiguous
<1>4. \/ plan' = carried
      \/ able # {} /\ \E took : plan' = (carried \ {slot}) \union {took}
  BY DEF Select
<1>5. Carried(s) \in plan'
  <2> HIDE DEF carried, slot, able
  <2> QED BY <1>2, <1>3, <1>4
<1> QED BY <1>5, CarriedStays

LEMMA SettledStep ==
  ASSUME IInv, [Next]_vars, at # "user", NEW s \in Resolved(plan)
  PROVE  Stays(s)
<1>1. CASE Select
  BY <1>1, SelectKeepsSettled
<1>2. CASE Extract
  <2>1. Carried(s) \in plan'
    BY <1>2 DEF Extract, Resolved
  <2> QED BY <2>1, CarriedStays
<1>3. CASE Finalize
  BY <1>3, PinKeepsResolved DEF Stays
<1>4. CASE Match
  <2>1. plan \subseteq plan'
    BY <1>4 DEF Match
  <2> QED BY <2>1 DEF Stays, Resolved
<1>5. CASE plan' = plan
  BY <1>5 DEF Stays, Resolved
<1>6. CASE ResolverFails \/ TooMany \/ Matched \/ UNCHANGED vars
  BY <1>5, <1>6 DEF ResolverFails, TooMany, Matched, vars
<1> QED BY <1>1, <1>2, <1>3, <1>4, <1>6 DEF Next, Ask, Answer, FollowUp

(* No step of the resolver loses a resolved slot or makes it another       *)
(* entity: a reply is applied to an open slot, the payload gives back the  *)
(* label it took, and the pin drops only what was emptied.                 *)
THEOREM SettledSlotsStay == Spec => SettledStays
<1>1. IInv /\ [Next]_vars =>
        [at # "user" =>
           \A s \in Resolved(plan) :
             \E t \in Resolved(plan') : t.id = s.id /\ t.class = s.class /\ t.name = s.name]_vars
  BY SettledStep DEF Stays
<1> QED BY <1>1, Invariant, PTL DEF Spec, SettledStays
-----------------------------------------------------------------------------
(* Where a filter comes from                                               *)

(* Two stores may share a label, but not across OpCos: the payload's       *)
(* labels then bring a store back to the OpCo it had.                      *)
Labelled(o) == o.class = "store" => \A s \in Stores : s.name = o.name => s.opco = o.opco

LabelsOfOneOpCo == \A q \in Spans : \A o \in q.candidates : Labelled(o)

(* An open list holds, of each OpCo it has an option of, every candidate.  *)
DrawnFrom(slot, q) ==
  /\ q.phrase = slot.phrase /\ q.exact = slot.exact
  /\ \A o \in slot.options :
       /\ Labelled(o)
       /\ \E c \in q.candidates : c.rank = o.rank /\ c.opco = o.opco
       /\ \A c \in q.candidates :
            c.opco = o.opco => \E p \in slot.options : p.rank = c.rank /\ p.opco = c.opco

Justified(slot) ==
  \E q \in Spans :
    /\ q.phrase = slot.phrase
    /\ q.certain \/ (q.exact /\ Cardinality({o \in q.candidates : o.opco = slot.opco}) = 1)

Grounded(slot, ids) ==
  /\ slot.status = "resolved" => Labelled(slot) /\ (slot.id \in ids \/ Justified(slot))
  /\ slot.status = "ambiguous" => \E q \in Spans : DrawnFrom(slot, q)

AllGrounded == \A s \in plan : Grounded(s, picked)

LEMMA InternalKeepsOpCo ==
  ASSUME NEW o, Listed(o), Labelled(o), o.class = "store"
  PROVE  StoreNamed(o.name).opco = o.opco
  BY StoreNamedExists DEF Listed, Labelled

LEMMA InternalGrounded ==
  ASSUME NEW o \in Options, Listed(o), Labelled(o)
  PROVE  Internal(o).rank = o.rank /\ Internal(o).opco = o.opco /\ Labelled(Internal(o))
<1>1. CASE o.class = "store"
  <2>1. Internal(o) = [o EXCEPT !.value = StoreNamed(o.name).value, !.opco = o.opco]
    BY <1>1, InternalKeepsOpCo DEF Internal
  <2> QED BY <2>1 DEF Options, Labelled
<1>2. CASE o.class # "store"
  BY <1>2 DEF Internal
<1> QED BY <1>1, <1>2

LEMMA CarriedGrounded ==
  ASSUME NEW ids, NEW s \in Slots, Sound(s), Grounded(s, ids)
  PROVE  Grounded(Carried(s), ids)
<1>1. CASE s.class # "store"
  BY <1>1 DEF Carried
<1>2. CASE s.class = "store" /\ s.status = "resolved"
  <2>1. Listed(s) /\ Labelled(s)
    BY <1>2 DEF Sound, Grounded
  <2>2. Carried(s) = [s EXCEPT !.value = StoreNamed(s.name).value, !.opco = s.opco]
    BY <1>2, <2>1, InternalKeepsOpCo DEF Carried, Internal
  <2>3. /\ Carried(s).id = s.id /\ Carried(s).phrase = s.phrase /\ Carried(s).status = s.status
        /\ Carried(s).class = s.class /\ Carried(s).name = s.name /\ Carried(s).opco = s.opco
    BY <2>2 DEF Slots
  <2> QED BY <1>2, <2>3 DEF Grounded, Labelled, Justified
<1>3. CASE s.class = "store" /\ s.status = "ambiguous"
  <2>1. PICK q \in Spans : DrawnFrom(s, q)
    BY <1>3 DEF Grounded
  <2> DEFINE kept == {Internal(o) : o \in s.options}
  <2>2. Carried(s) = [s EXCEPT !.column = "store", !.options = kept]
    BY <1>3 DEF Carried
  <2>3. \A o \in s.options :
          /\ Internal(o).rank = o.rank /\ Internal(o).opco = o.opco /\ Labelled(Internal(o))
    BY <2>1, InternalGrounded DEF Slots, Sound, DrawnFrom
  <2>4. /\ Carried(s).phrase = s.phrase /\ Carried(s).exact = s.exact
        /\ Carried(s).status = s.status /\ Carried(s).options = kept
    <3> HIDE DEF kept
    <3> QED BY <2>2 DEF Slots
  <2>5. DrawnFrom(Carried(s), q)
    <3>1. ASSUME NEW o \in s.options
          PROVE  /\ \E c \in q.candidates : c.rank = Internal(o).rank /\ c.opco = Internal(o).opco
                 /\ \A c \in q.candidates :
                      c.opco = Internal(o).opco => \E p \in kept : p.rank = c.rank /\ p.opco = c.opco
      BY <2>1, <2>3 DEF DrawnFrom
    <3>2. \A o \in kept :
            /\ Labelled(o)
            /\ \E c \in q.candidates : c.rank = o.rank /\ c.opco = o.opco
            /\ \A c \in q.candidates :
                 c.opco = o.opco => \E p \in kept : p.rank = c.rank /\ p.opco = c.opco
      BY <2>3, <3>1
    <3> HIDE DEF kept
    <3> QED BY <2>1, <2>4, <3>2 DEF DrawnFrom
  <2> QED BY <1>3, <2>4, <2>5 DEF Grounded
<1> QED BY <1>1, <1>2, <1>3 DEF Slots

(* The one option that is left is the one candidate of its OpCo. *)
LEMMA PinnedGrounded ==
  ASSUME NEW p, NEW ids, NEW s \in Slots, Sound(s), Grounded(s, ids)
  PROVE  Grounded(Pin(p, s), ids)
<1> DEFINE kept == Kept(p, s)
<1>1. kept \in SUBSET s.options /\ s.options \subseteq Options
  BY DEF Kept, Slots
<1>2. CASE s.status = "resolved" \/ kept = s.options
  BY <1>2 DEF Pin
<1>3. CASE s.status = "ambiguous" /\ kept # s.options
  <2>1. PICK q \in Spans : DrawnFrom(s, q)
    BY <1>3 DEF Grounded
  <2>2. ASSUME NEW o \in kept
        PROVE  /\ Labelled(o)
               /\ \E c \in q.candidates : c.rank = o.rank /\ c.opco = o.opco
               /\ \A c \in q.candidates :
                    c.opco = o.opco => \E r \in kept : r.rank = c.rank /\ r.opco = c.opco
    BY <1>3, <2>1 DEF Kept, DrawnFrom
  <2>3. CASE ~(s.exact /\ Cardinality(kept) = 1)
    <3>1. Pin(p, s) = [s EXCEPT !.options = kept]
      BY <1>3, <2>3 DEF Pin
    <3> HIDE DEF kept
    <3>2. /\ Pin(p, s).phrase = s.phrase /\ Pin(p, s).exact = s.exact
          /\ Pin(p, s).status = s.status /\ Pin(p, s).options = kept
      BY <3>1 DEF Slots
    <3>3. DrawnFrom(Pin(p, s), q)
      BY <2>1, <2>2, <3>2 DEF DrawnFrom
    <3> QED BY <1>3, <3>2, <3>3 DEF Grounded
  <2>4. CASE s.exact /\ Cardinality(kept) = 1
    <3>1. IsFiniteSet(kept)
      BY <1>1, FS_Subset DEF Sound
    <3>2. PICK b : kept = {b}
      BY <2>4, <3>1, FS_Singleton
    <3>3. b \in Options /\ Labelled(b) /\ Listed(b)
      BY <1>1, <2>2, <3>2 DEF Sound
    <3>4. Best(kept) = b
      BY <3>2, <3>3, BestExists, RanksAreNumbers
    <3>5. Pin(p, s) = Adopted(s, b)
      BY <1>3, <2>4, <3>4 DEF Pin
    <3>6. /\ Pin(p, s).status = "resolved" /\ Pin(p, s).phrase = s.phrase
          /\ Pin(p, s).class = b.class /\ Pin(p, s).name = b.name /\ Pin(p, s).opco = b.opco
      BY <3>3, <3>5, AdoptedSlot
    <3>7. PICK c \in q.candidates : c.rank = b.rank /\ c.opco = b.opco
      BY <2>2, <3>2
    <3>8. ASSUME NEW d \in q.candidates, d.opco = b.opco PROVE d = c
      <4>1. d.rank = b.rank
        BY <2>2, <3>2, <3>8
      <4> QED BY <3>7, <4>1, SpanAssumption
    <3>9. {d \in q.candidates : d.opco = Pin(p, s).opco} = {c}
      BY <3>6, <3>7, <3>8
    <3>10. Cardinality({d \in q.candidates : d.opco = Pin(p, s).opco}) = 1
      BY <3>9, FS_Singleton
    <3>11. Justified(Pin(p, s))
      BY <2>1, <2>4, <3>6, <3>10 DEF DrawnFrom, Justified
    <3> QED BY <3>3, <3>6, <3>11 DEF Grounded, Labelled
  <2> QED BY <2>3, <2>4
<1> QED BY <1>2, <1>3 DEF Slots

LEMMA NewGrounded ==
  ASSUME LabelsOfOneOpCo, NEW q \in Spans, NEW id \in 1..MaxSlots, NEW ids
  PROVE  Grounded(Slot(id, q), ids)
<1> DEFINE best == Best(q.candidates)
           open == [id |-> id, phrase |-> q.phrase, exact |-> q.exact, status |-> "ambiguous",
                    class |-> best.class, column |-> Column(best.class), name |-> None,
                    value |-> None, opco |-> None, options |-> q.candidates]
<1>1. best \in q.candidates
  BY CandidatesAreOptions, BestExists DEF Ranked
<1>2. Labelled(best) /\ \A o \in q.candidates : Labelled(o)
  BY <1>1 DEF LabelsOfOneOpCo
<1>3. CASE q.certain
  <2>1. Slot(id, q) = Adopted(open, best)
    BY <1>3 DEF Slot
  <2> HIDE DEF best
  <2>2. /\ Slot(id, q).status = "resolved" /\ Slot(id, q).phrase = q.phrase
        /\ Slot(id, q).class = best.class /\ Slot(id, q).name = best.name
        /\ Slot(id, q).opco = best.opco
    BY <2>1 DEF Adopted
  <2>3. Justified(Slot(id, q))
    BY <1>3, <2>2 DEF Justified
  <2> QED BY <1>2, <2>2, <2>3 DEF Grounded, Labelled
<1>4. CASE ~q.certain
  <2>1. Slot(id, q) = open
    BY <1>4 DEF Slot
  <2>2. DrawnFrom(open, q)
    BY <1>2 DEF DrawnFrom
  <2> QED BY <2>1, <2>2 DEF Grounded
<1> QED BY <1>3, <1>4

LEMMA GroundedStep ==
  ASSUME LabelsOfOneOpCo, IInv, AllGrounded, [Next]_vars
  PROVE  AllGrounded'
<1>1. \A s \in plan : s \in Slots /\ Sound(s) /\ Grounded(s, picked) /\ Grounded(Carried(s), picked)
  BY CarriedGrounded DEF IInv, TypeOK, AllGrounded
<1>2. CASE Ask
  BY <1>2 DEF Ask, AllGrounded
<1>3. CASE Select
  <2> DEFINE carried == {Carried(s) : s \in plan}
             able == {s \in Ambiguous(carried) : CanTake(s, said)}
             slot == FirstAsked(able)
             o == Taken(slot, said)
  <2>1. \A s \in carried : Grounded(s, picked)
    BY <1>1
  <2>2. CASE able = {}
    <3>1. plan' = carried /\ picked' = picked
      BY <1>3, <2>2 DEF Select
    <3> HIDE DEF carried
    <3> QED BY <2>1, <3>1 DEF AllGrounded
  <2>3. CASE able # {}
    <3>1. /\ carried \in SUBSET Slots
          /\ \A s, t \in carried : s.id = t.id => s = t
          /\ \A s \in carried : Sound(s)
      BY CarriedPlan
    <3>2. said \in Numbers \union Texts
      BY <1>3 DEF IInv, TypeOK, Select
    <3>3. \E s \in Ambiguous(carried) : CanTake(s, said)
      BY <2>3
    <3>4. /\ plan' = (carried \ {slot}) \union {Adopted(slot, Internal(o))}
          /\ picked' = picked \union {slot.id}
      BY <1>3, <2>3 DEF Select
    <3>5. slot \in Ambiguous(carried) /\ o \in slot.options
      <4> HIDE DEF carried
      <4> QED BY <3>1, <3>2, <3>3, SelectedExists
    <3> HIDE DEF carried, able, slot, o
    <3>6. slot \in Slots /\ Sound(slot) /\ Grounded(slot, picked) /\ slot.status = "ambiguous"
      BY <2>1, <3>1, <3>5 DEF Ambiguous
    <3>7. o \in Options /\ Listed(o) /\ Labelled(o)
      BY <3>5, <3>6 DEF Slots, Sound, Grounded, DrawnFrom
    <3> DEFINE took == Adopted(slot, Internal(o))
    <3>8. /\ took.status = "resolved" /\ took.id = slot.id /\ took.class = Internal(o).class
          /\ took.name = Internal(o).name /\ took.opco = Internal(o).opco
      BY <3>6, <3>7, InternalOption, AdoptedSlot
    <3>9. Labelled(Internal(o))
      BY <3>7, InternalGrounded
    <3>10. Labelled(took)
      BY <3>8, <3>9 DEF Labelled
    <3>11. Grounded(took, picked')
      BY <3>4, <3>8, <3>10 DEF Grounded
    <3>12. \A s \in carried : Grounded(s, picked')
      BY <2>1, <3>4 DEF Grounded
    <3> QED BY <3>4, <3>11, <3>12 DEF AllGrounded
  <2> QED BY <2>2, <2>3
<1>4. CASE Extract
  BY <1>1, <1>4 DEF Extract, AllGrounded
<1>5. CASE Match
  <2>1. todo \in SUBSET Spans /\ todo # {} /\ made \in Nat /\ made + Cardinality(todo) <= MaxSlots
    BY <1>5 DEF Match, IInv, TypeOK, Room, Fits
  <2>2. Cardinality(todo) \in Nat /\ Cardinality(todo) # 0
    BY <2>1, FiniteQuestions, FS_EmptySet
  <2>3. NextSpan(todo) \in Spans /\ made + 1 \in 1..MaxSlots
    BY <2>1, <2>2, NextSpanExists, BoundsAssumption
  <2>4. Grounded(Slot(made + 1, NextSpan(todo)), picked)
    BY <2>3, NewGrounded
  <2>5. plan' \subseteq plan \union {Slot(made + 1, NextSpan(todo))} /\ picked' = picked
    BY <1>5 DEF Match
  <2> QED BY <1>1, <2>4, <2>5 DEF AllGrounded
<1>6. CASE Finalize
  <2>1. \A s \in plan : Grounded(Pin(plan, s), picked)
    BY <1>1, PinnedGrounded
  <2>2. plan' \subseteq {Pin(plan, s) : s \in plan} /\ picked' = picked
    BY <1>6 DEF Finalize
  <2> QED BY <2>1, <2>2 DEF AllGrounded
<1>7. CASE UNCHANGED <<plan, picked>>
  BY <1>1, <1>7 DEF AllGrounded
<1> QED BY <1>2, <1>3, <1>4, <1>5, <1>6, <1>7
        DEF Next, Answer, FollowUp, ResolverFails, TooMany, Matched, vars

(* Nothing ambiguous becomes a filter unasked: what was not chosen by the  *)
(* user was certain, or the one candidate of its OpCo - for a dictionary   *)
(* that labels no two stores of different OpCos alike.                     *)
THEOREM NothingIsGuessed ==
  ASSUME LabelsOfOneOpCo
  PROVE  Spec => []NoSilentGuess
<1>1. Init => AllGrounded
  BY DEF Init, AllGrounded
<1>2. IInv /\ AllGrounded /\ [Next]_vars => AllGrounded'
  BY GroundedStep
<1>3. AllGrounded => NoSilentGuess
  BY DEF AllGrounded, Grounded, Justified, NoSilentGuess, Resolved
<1> QED BY <1>1, <1>2, <1>3, Invariant, PTL DEF Spec
=============================================================================
