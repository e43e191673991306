--------------------------- MODULE PhraseMatch_proofs ---------------------------
(***************************************************************************)
(* Which words of a question the matcher reads as what, for any catalogue, *)
(* vocabulary, scores and questions.                                       *)
(*                                                                         *)
(* A name that match_exact has not taken by the end of its loop shares a   *)
(* word with one it has.  Which of the two is longer is known when the     *)
(* other is taken: until then the name is one of those to choose from, and *)
(* afterwards the span that rules it out stays, unless the brand of an     *)
(* OpCo swallows it whole.                                                 *)
(*                                                                         *)
(* What is offered for a span is known from what it was read from (Read):  *)
(* a name from all rows of its words, a guess from a part of the scored    *)
(* ones.  A list in the order of its keys has each member at the place     *)
(* that counts those up to it; a part of a list keeps that order.  What    *)
(* settling a span leaves out is then accounted for one row at a time.     *)
(***************************************************************************)
EXTENDS PhraseMatch, FunctionTheorems, FiniteSetTheorems, SequenceTheorems, WellFoundedInduction, TLAPS

Sits(s) == s.first \in DOMAIN question /\ s.last \in DOMAIN question /\ s.first <= s.last

(* No word is read twice. *)
Apart(set) == \A s, t \in set : s # t => Covers(s) \cap Covers(t) = {}

Asked ==
  /\ question \in Seq(STRING) /\ question \in Questions
  /\ stage \in {"exact", "guess", "arbitrate", "done"}
  /\ \A s \in exact \union guesses : Sits(s)

NothingGuessed == stage = "exact" => guesses = {} /\ open = {} /\ absorbed = {} /\ phrases = None

(* The longer name, or of two as long the one to the left, that keeps one  *)
(* from being read.                                                        *)
PassedOverFor(first, last, s) ==
  /\ Covers(s) \cap first .. last # {}
  /\ s.last - s.first > last - first \/ (s.last - s.first = last - first /\ s.first <= first)

Taken ==
  /\ Apart(exact)
  /\ \A first, last \in DOMAIN question :
       /\ first <= last /\ IsName(first, last) /\ first .. last \cap absorbed = {}
       /\ stage # "exact" \/ first .. last \cap Covered(exact) # {}
       => \E s \in exact : PassedOverFor(first, last, s)

(* What may be guessed at, and what the guesses are read from. *)
Guessed ==
  /\ Apart(guesses)
  /\ open \subseteq DOMAIN question /\ open \cap (Covered(exact) \union absorbed) = {}
  /\ \A i \in open :
       question[i] \notin Filler \union Schema /\ (phrases # None => question[i] \in phrases)
  /\ \A s \in guesses : Covers(s) \subseteq open
  /\ stage \in {"arbitrate", "done"} => \A s \in guesses, e \in exact :
       s.first = e.last + 1 \/ e.first = s.last + 1 => NameFamily(Best(s)) # NameFamily(Best(e))

IInv == Asked /\ NothingGuessed /\ Taken /\ Guessed
-----------------------------------------------------------------------------
(* The order of keys *)

(* The intervals below the members of T are finite sets, and of these one  *)
(* is least by inclusion.                                                  *)
LEMMA LeastNumber ==
  ASSUME NEW T \in SUBSET Nat, T # {}
  PROVE  \E m \in T : \A k \in T : m <= k
<1> DEFINE F == {0..m : m \in T}
<1>1. F \subseteq FiniteSubsetsOf(Nat) /\ F # {}
  <2>1. \A m \in T : 0..m \in SUBSET Nat /\ IsFiniteSet(0..m)
    BY FS_Interval
  <2> QED BY <2>1 DEF FiniteSubsetsOf
<1>2. PICK x \in F : \A y \in F : ~(<<y, x>> \in StrictSubsetOrdering(Nat))
  BY <1>1, FS_StrictSubsetOrderingWellFounded, WFMin
<1>3. PICK m \in T : x = 0..m
  BY DEF F
<1>4. \A k \in T : m <= k
  <2> SUFFICES ASSUME NEW k \in T, k < m PROVE FALSE
    OBVIOUS
  <2>1. 0..k \in F /\ 0..k \subseteq 0..m /\ m \in 0..m /\ m \notin 0..k
    OBVIOUS
  <2>2. <<0..k, 0..m>> \in StrictSubsetOrdering(Nat)
    BY <2>1 DEF StrictSubsetOrdering
  <2> QED BY <1>2, <1>3, <2>1, <2>2
<1> QED BY <1>4

(* Of two keys of one length the first that differs decides. *)
LEMMA OneComesFirst ==
  ASSUME NEW n \in Nat, NEW a \in [1..n -> Int], NEW b \in [1..n -> Int], a # b
  PROVE  Precedes(a, b) \/ Precedes(b, a)
<1> DEFINE T == {i \in 1..n : a[i] # b[i]}
<1>1. T \in SUBSET Nat /\ T # {}
  OBVIOUS
<1>2. PICK m \in T : \A k \in T : m <= k
  BY <1>1, LeastNumber
<1>3. \A j \in 1..m-1 : a[j] = b[j]
  BY <1>2
<1>4. a[m] < b[m] \/ b[m] < a[m]
  OBVIOUS
<1> QED BY <1>3, <1>4 DEF Precedes

LEMMA NoneBeforeItself ==
  ASSUME NEW n \in Nat, NEW a \in [1..n -> Int]
  PROVE  ~Precedes(a, a)
BY DEF Precedes

LEMMA FirstOfThree ==
  ASSUME NEW n \in Nat, NEW a \in [1..n -> Int], NEW b \in [1..n -> Int], NEW c \in [1..n -> Int],
         Precedes(a, b), Precedes(b, c)
  PROVE  Precedes(a, c)
<1>1. PICK i \in 1..n : a[i] < b[i] /\ \A j \in 1..i-1 : a[j] = b[j]
  BY DEF Precedes
<1>2. PICK k \in 1..n : b[k] < c[k] /\ \A j \in 1..k-1 : b[j] = c[j]
  BY DEF Precedes
<1>3. CASE i < k
  <2>1. a[i] < c[i] /\ \A j \in 1..i-1 : a[j] = c[j]
    BY <1>1, <1>2, <1>3
  <2> QED BY <2>1 DEF Precedes
<1>4. CASE k <= i
  <2>1. a[k] < c[k] /\ \A j \in 1..k-1 : a[j] = c[j]
    BY <1>1, <1>2, <1>4
  <2> QED BY <2>1 DEF Precedes
<1> QED BY <1>3, <1>4

Sortable(key) ==
  /\ IsFiniteSet(DOMAIN key)
  /\ \E n \in Nat : \A x \in DOMAIN key : key[x] \in [1..n -> Int]
  /\ \A x, y \in DOMAIN key : key[x] = key[y] => x = y

UpTo(key, x) == {y \in DOMAIN key : y = x \/ Precedes(key[y], key[x])}

(* Of two members the one that comes first has fewer up to it. *)
LEMMA FewerUpToTheFirst ==
  ASSUME NEW key, Sortable(key), NEW x \in DOMAIN key, NEW y \in DOMAIN key, Precedes(key[x], key[y])
  PROVE  /\ Cardinality(UpTo(key, x)) < Cardinality(UpTo(key, y))
         /\ x # y
<1>1. PICK n \in Nat : \A z \in DOMAIN key : key[z] \in [1..n -> Int]
  BY DEF Sortable
<1>2. x # y /\ ~Precedes(key[y], key[x])
  BY <1>1, NoneBeforeItself, FirstOfThree
<1>3. UpTo(key, x) \subseteq UpTo(key, y) /\ y \in UpTo(key, y) /\ y \notin UpTo(key, x)
  BY <1>1, <1>2, FirstOfThree DEF UpTo
<1>4. IsFiniteSet(UpTo(key, y))
  BY FS_Subset DEF Sortable, UpTo
<1>5. /\ Cardinality(UpTo(key, x)) \in Nat /\ Cardinality(UpTo(key, y)) \in Nat
      /\ Cardinality(UpTo(key, x)) <= Cardinality(UpTo(key, y))
      /\ Cardinality(UpTo(key, x)) # Cardinality(UpTo(key, y))
  <2>1. IsFiniteSet(UpTo(key, x))
    BY <1>3, <1>4, FS_Subset
  <2> QED BY <1>3, <1>4, <2>1, FS_Subset, FS_CardinalityType
<1> QED BY <1>2, <1>5

(* The members are counted from one to as many as there are. *)
LEMMA EveryPlaceIsTaken ==
  ASSUME NEW key, Sortable(key)
  PROVE  LET N == Cardinality(DOMAIN key)
         IN  /\ N \in Nat
             /\ \A x \in DOMAIN key : Cardinality(UpTo(key, x)) \in 1..N
             /\ \A x, y \in DOMAIN key : Cardinality(UpTo(key, x)) = Cardinality(UpTo(key, y)) => x = y
             /\ \A i \in 1..N : \E x \in DOMAIN key : Cardinality(UpTo(key, x)) = i
<1> DEFINE D == DOMAIN key
           N == Cardinality(D)
           f == [x \in D |-> Cardinality(UpTo(key, x))]
<1>1. N \in Nat /\ IsFiniteSet(D)
  BY FS_CardinalityType DEF Sortable
<1>2. ASSUME NEW x \in D PROVE Cardinality(UpTo(key, x)) \in 1..N
  <2>1. UpTo(key, x) \in SUBSET D /\ x \in UpTo(key, x)
    BY DEF UpTo
  <2>2. /\ IsFiniteSet(UpTo(key, x)) /\ Cardinality(UpTo(key, x)) \in Nat
        /\ Cardinality(UpTo(key, x)) <= N
    BY <1>1, <2>1, FS_Subset, FS_CardinalityType
  <2>3. Cardinality(UpTo(key, x)) # 0
    BY <2>1, <2>2, FS_EmptySet
  <2> QED BY <1>1, <2>2, <2>3
<1>3. ASSUME NEW x \in D, NEW y \in D, Cardinality(UpTo(key, x)) = Cardinality(UpTo(key, y))
      PROVE  x = y
  <2>1. ~Precedes(key[x], key[y]) /\ ~Precedes(key[y], key[x])
    <3>1. ASSUME Precedes(key[x], key[y]) PROVE FALSE
      <4>1. Cardinality(UpTo(key, x)) < Cardinality(UpTo(key, y))
        BY <3>1, FewerUpToTheFirst
      <4> QED BY <4>1, <1>2, <1>3
    <3>2. ASSUME Precedes(key[y], key[x]) PROVE FALSE
      <4>1. Cardinality(UpTo(key, y)) < Cardinality(UpTo(key, x))
        BY <3>2, FewerUpToTheFirst
      <4> QED BY <4>1, <1>2, <1>3
    <3> QED BY <3>1, <3>2
  <2> QED BY <2>1, OneComesFirst DEF Sortable
<1>4. f \in [D -> 1..N]
  BY <1>2
<1>5. f \in Injection(D, 1..N)
  BY <1>3, <1>4, Fun_IsInj
<1>6. IsFiniteSet(1..N) /\ Cardinality(1..N) = N
  <2> HIDE DEF N
  <2>1. /\ IsFiniteSet(1..N)
        /\ Cardinality(1..N) = IF 1 > N THEN 0 ELSE N - 1 + 1
    BY <1>1, FS_Interval
  <2> QED BY <1>1, <2>1
<1>7. f \in Surjection(D, 1..N)
  BY <1>5, <1>6, <1>1, FS_Injection
<1>8. \A i \in 1..N : \E x \in D : f[x] = i
  BY <1>7 DEF Surjection
<1> QED BY <1>1, <1>2, <1>3, <1>8

(* SortedBy lists every member once, and those with lesser keys before. *)
LEMMA Sorted ==
  ASSUME NEW key, Sortable(key)
  PROVE  LET list == SortedBy(key)
             N == Cardinality(DOMAIN key)
         IN  /\ N \in Nat /\ DOMAIN list = 1..N /\ list \in Seq(DOMAIN key) /\ Len(list) = N
             /\ \A i \in 1..N : list[i] \in DOMAIN key
             /\ \A x \in DOMAIN key : \E i \in 1..N : list[i] = x
             /\ \A i, j \in 1..N : i < j => Precedes(key[list[i]], key[list[j]]) /\ list[i] # list[j]
<1> DEFINE D == DOMAIN key
           N == Cardinality(D)
           list == SortedBy(key)
<1>1. /\ N \in Nat
      /\ \A x \in D : Cardinality(UpTo(key, x)) \in 1..N
      /\ \A x, y \in D : Cardinality(UpTo(key, x)) = Cardinality(UpTo(key, y)) => x = y
      /\ \A i \in 1..N : \E x \in D : Cardinality(UpTo(key, x)) = i
  BY EveryPlaceIsTaken
<1>2. list = [i \in 1..N |-> CHOOSE x \in D : Cardinality(UpTo(key, x)) = i]
  BY DEF SortedBy, UpTo
<1> HIDE DEF list, N
<1>3. DOMAIN list = 1..N /\ \A i \in 1..N : list[i] \in D /\ Cardinality(UpTo(key, list[i])) = i
  BY <1>1, <1>2
<1>4. list \in Seq(D) /\ Len(list) = N
  <2>1. list \in [1..N -> D]
    BY <1>2, <1>3
  <2> QED BY <1>1, <2>1
<1>5. \A x \in D : \E i \in 1..N : list[i] = x
  BY <1>1, <1>3
<1>6. ASSUME NEW i \in 1..N, NEW j \in 1..N, i < j
      PROVE  Precedes(key[list[i]], key[list[j]]) /\ list[i] # list[j]
  <2>1. list[i] \in D /\ list[j] \in D /\ list[i] # list[j] /\ key[list[i]] # key[list[j]]
    BY <1>1, <1>3, <1>6 DEF Sortable
  <2>2. Precedes(key[list[i]], key[list[j]]) \/ Precedes(key[list[j]], key[list[i]])
    BY <2>1, OneComesFirst DEF Sortable
  <2>3. ASSUME Precedes(key[list[j]], key[list[i]]) PROVE FALSE
    <3>1. Cardinality(UpTo(key, list[j])) < Cardinality(UpTo(key, list[i]))
      BY <2>1, <2>3, FewerUpToTheFirst
    <3> QED BY <1>1, <1>3, <1>6, <3>1
  <2> QED BY <2>1, <2>2, <2>3
<1> QED BY <1>1, <1>3, <1>4, <1>5, <1>6 DEF N, list
-----------------------------------------------------------------------------
(* Parts of a list *)

(* Which place of the list each place of its part comes from. *)
Picks(at, list, places) ==
  /\ at \in [1..Cardinality(places) -> places]
  /\ \A i \in 1..Cardinality(places) : Part(list, places)[i] = list[at[i]]
  /\ \A i, j \in 1..Cardinality(places) : i < j => at[i] < at[j]
  /\ \A p \in places : \E i \in 1..Cardinality(places) : at[i] = p

(* The least of the places is the first of the list, and so on. *)
LEMMA PartIs ==
  ASSUME NEW S, NEW list \in Seq(S), NEW places \in SUBSET (1..Len(list))
  PROVE  LET N == Cardinality(places)
             part == Part(list, places)
         IN  /\ N \in Nat /\ part \in Seq(S) /\ Len(part) = N /\ DOMAIN part = 1..N
             /\ \E at : Picks(at, list, places)
<1> DEFINE N == Cardinality(places)
           part == Part(list, places)
           key == [i \in places |-> <<i>>]
           at == SortedBy(key)
<1>1. Len(list) \in Nat /\ \A i \in places : i \in Int /\ list[i] \in S
  BY LenProperties, ElementOfSeq
<1>2. ASSUME NEW i \in places, NEW j \in places
      PROVE  Precedes(<<i>>, <<j>>) <=> i < j
  <2>1. DOMAIN <<i>> = {1} /\ <<i>>[1] = i /\ <<j>>[1] = j /\ 1 .. 1 - 1 = {}
    OBVIOUS
  <2> QED BY <2>1 DEF Precedes
<1>3. Sortable(key)
  <2>1. IsFiniteSet(places)
    <3>1. IsFiniteSet(1..Len(list))
      BY <1>1, FS_Interval
    <3> QED BY <3>1, FS_Subset
  <2>2. \A x \in places : key[x] \in [1..1 -> Int]
    BY <1>1
  <2>3. \A x, y \in places : key[x] = key[y] => x = y
    OBVIOUS
  <2> QED BY <2>1, <2>2, <2>3 DEF Sortable
<1>4. DOMAIN key = places /\ \A x \in places : key[x] = <<x>>
  OBVIOUS
<1> HIDE DEF key
<1>5. /\ N \in Nat /\ DOMAIN at = 1..N
      /\ \A i \in 1..N : at[i] \in places
      /\ \A x \in places : \E i \in 1..N : at[i] = x
      /\ \A i, j \in 1..N : i < j => Precedes(key[at[i]], key[at[j]])
  BY <1>3, <1>4, Sorted
<1>6. at = [n \in 1..N |-> CHOOSE i \in places : Cardinality({j \in places : j = i \/ Precedes(key[j], key[i])}) = n]
  BY <1>4 DEF SortedBy
<1>7. \A i \in places : {j \in places : j = i \/ Precedes(key[j], key[i])} = {j \in places : j <= i}
  <2>1. \A i, j \in places : Precedes(key[j], key[i]) <=> j < i
    BY <1>2, <1>4
  <2>2. \A i, j \in places : (j = i \/ Precedes(key[j], key[i])) <=> j <= i
    BY <1>1, <2>1
  <2> QED BY <2>2
<1>8. \A n \in 1..N : at[n] = CHOOSE i \in places : Cardinality({j \in places : j <= i}) = n
  BY <1>6, <1>7
<1>9. part = [n \in 1..N |-> list[CHOOSE i \in places : Cardinality({j \in places : j <= i}) = n]]
  BY DEF Part
<1> HIDE DEF N, part, at
<1>10. DOMAIN part = 1..N /\ \A n \in 1..N : part[n] = list[at[n]]
  BY <1>8, <1>9
<1>11. at \in [1..N -> places]
  <2>1. at \in Seq(places) /\ Len(at) = N
    BY <1>3, <1>4, Sorted DEF at, N
  <2> QED BY <2>1
<1>12. part \in Seq(S) /\ Len(part) = N
  <2>1. part \in [1..N -> S]
    BY <1>1, <1>5, <1>9, <1>10
  <2> QED BY <1>5, <2>1
<1>13. ASSUME NEW i \in 1..N, NEW j \in 1..N, i < j PROVE at[i] < at[j]
  <2>1. at[i] \in places /\ at[j] \in places /\ Precedes(<<at[i]>>, <<at[j]>>)
    BY <1>4, <1>5, <1>13
  <2> QED BY <1>2, <2>1
<1>14. Picks(at, list, places)
  BY <1>5, <1>10, <1>11, <1>13 DEF N, part, Picks
<1> QED BY <1>5, <1>10, <1>12, <1>14 DEF N, part

LEMMA PartSet ==
  ASSUME NEW S, NEW list \in Seq(S), NEW places \in SUBSET (1..Len(list))
  PROVE  ToSet(Part(list, places)) = {list[p] : p \in places}
<1>1. PICK at : Picks(at, list, places)
  BY PartIs
<1>2. DOMAIN Part(list, places) = 1..Cardinality(places)
  BY PartIs
<1> DEFINE part == Part(list, places)
           N == Cardinality(places)
<1>3. /\ DOMAIN part = 1..N /\ at \in [1..N -> places] /\ \A i \in 1..N : part[i] = list[at[i]]
      /\ \A p \in places : \E i \in 1..N : at[i] = p
  BY <1>1, <1>2 DEF Picks
<1> HIDE DEF part, N
<1>4. ToSet(part) = {list[p] : p \in places}
  <2>1. \A i \in 1..N : \E p \in places : part[i] = list[p]
    BY <1>3
  <2>2. \A p \in places : \E i \in 1..N : part[i] = list[p]
    BY <1>3
  <2>3. ToSet(part) = {part[i] : i \in 1..N}
    BY <1>3 DEF ToSet
  <2>4. ASSUME NEW x \in ToSet(part) PROVE x \in {list[p] : p \in places}
    BY <2>1, <2>3
  <2>5. ASSUME NEW x \in {list[p] : p \in places} PROVE x \in ToSet(part)
    BY <2>2, <2>3
  <2> QED BY <2>4, <2>5
<1> QED BY <1>4 DEF part

LEMMA PartFirst ==
  ASSUME NEW S, NEW list \in Seq(S), NEW places \in SUBSET (1..Len(list)),
         NEW m \in places, \A p \in places : m <= p
  PROVE  Part(list, places)[1] = list[m] /\ Len(Part(list, places)) >= 1 /\ Part(list, places) # <<>>
<1> DEFINE N == Cardinality(places)
<1>1. N \in Nat /\ Len(Part(list, places)) = N
  BY PartIs
<1>2. PICK at :
        /\ at \in [1..N -> places]
        /\ \A i \in 1..N : Part(list, places)[i] = list[at[i]]
        /\ \A i, j \in 1..N : i < j => at[i] < at[j]
        /\ \A p \in places : \E i \in 1..N : at[i] = p
  <2>1. PICK at : Picks(at, list, places)
    BY PartIs
  <2> QED BY <2>1 DEF Picks
<1> HIDE DEF N
<1>3. PICK i \in 1..N : at[i] = m
  BY <1>2
<1>4. \A p \in places : p \in Int
  BY LenProperties
<1>5. 1 \in 1..N /\ at[1] = m
  <2>1. 1 \in 1..N
    BY <1>1, <1>3
  <2>2. m <= at[1]
    BY <1>2, <2>1
  <2>3. i # 1 => at[1] < at[i]
    BY <1>1, <1>2, <1>3, <2>1
  <2>4. at[1] \in Int /\ at[i] = m /\ m \in Int
    BY <1>2, <1>3, <1>4, <2>1
  <2> QED BY <2>1, <2>2, <2>3, <2>4
<1> QED BY <1>1, <1>2, <1>5

LEMMA WholePart ==
  ASSUME NEW S, NEW list \in Seq(S), NEW places \in SUBSET (1..Len(list)),
         \A i \in DOMAIN list : i \in places
  PROVE  Part(list, places) = list
<1> DEFINE N == Len(list)
           part == Part(list, places)
<1>1. N \in Nat /\ places = 1..N
  BY LenProperties
<1>2. Cardinality(1..N) = N
  <2> HIDE DEF N
  <2>1. Cardinality(1..N) = IF 1 > N THEN 0 ELSE N - 1 + 1
    BY <1>1, FS_Interval
  <2> QED BY <1>1, <2>1
<1>3. PICK at :
        /\ at \in [1..N -> 1..N]
        /\ \A i \in 1..N : part[i] = list[at[i]]
        /\ \A i, j \in 1..N : i < j => at[i] < at[j]
        /\ \A p \in 1..N : \E i \in 1..N : at[i] = p
  <2>1. PICK at : Picks(at, list, places)
    BY PartIs
  <2>2. Cardinality(places) = N /\ places = 1..N
    BY <1>1, <1>2
  <2> HIDE DEF N, part
  <2>3. /\ at \in [1..N -> 1..N]
        /\ \A i \in 1..N : part[i] = list[at[i]]
        /\ \A i, j \in 1..N : i < j => at[i] < at[j]
        /\ \A p \in 1..N : \E i \in 1..N : at[i] = p
    BY <2>1, <2>2 DEF Picks, part
  <2> QED BY <2>3, Zenon
<1> HIDE DEF N
<1>4. \A i \in 1..N : at[i] = i
  <2> DEFINE T == {i \in 1..N : at[i] # i}
  <2> SUFFICES ASSUME T # {} PROVE FALSE
    OBVIOUS
  <2>1. PICK m \in T : \A k \in T : m <= k
    <3>1. T \in SUBSET Nat
      OBVIOUS
    <3> QED BY <3>1, LeastNumber
  <2>2. \A i \in 1..m-1 : at[i] = i
    BY <1>1, <2>1
  <2>3. at[m] \in 1..N /\ ~(at[m] < m)
    <3>1. ASSUME at[m] < m PROVE FALSE
      <4>1. at[m] \in 1..N /\ m \in 1..N
        BY <1>3
      <4>2. at[at[m]] = at[m]
        BY <2>2, <3>1, <4>1
      <4>3. at[at[m]] < at[m]
        BY <1>3, <3>1, <4>1
      <4> QED BY <4>1, <4>2, <4>3
    <3> QED BY <3>1, <1>3
  <2>4. PICK i \in 1..N : at[i] = m
    BY <1>3
  <2>5. i # m /\ ~(i < m) /\ at[m] > m
    BY <1>1, <2>1, <2>2, <2>3, <2>4
  <2>6. at[m] < at[i]
    BY <1>3, <2>5
  <2>7. m \in Int /\ at[m] \in Int
    BY <1>1, <2>3
  <2> QED BY <2>4, <2>5, <2>6, <2>7
<1>5. part \in Seq(S) /\ Len(part) = N
  <2>1. part \in Seq(S) /\ Len(part) = Cardinality(places)
    BY PartIs
  <2> QED BY <1>1, <1>2, <2>1
<1>6. \A i \in 1..N : part[i] = list[i]
  BY <1>3, <1>4
<1> HIDE DEF part
<1>7. part = list
  BY <1>1, <1>5, <1>6, SeqEqual DEF N
<1> QED BY <1>1, <1>7 DEF part, N

LEMMA AtMostIs ==
  ASSUME NEW S, NEW list \in Seq(S), NEW n \in Nat
  PROVE  LET cut == AtMost(n, list)
         IN  /\ cut \in Seq(S) /\ Len(cut) = IF n <= Len(list) THEN n ELSE Len(list)
             /\ \A i \in 1..Len(cut) : cut[i] = list[i]
             /\ (Len(list) <= n => cut = list)
<1> DEFINE m == IF n <= Len(list) THEN n ELSE Len(list)
<1>1. Len(list) \in Nat
  BY LenProperties
<1>2. Min({n, Len(list)}) = m
  <2>1. m \in {n, Len(list)} /\ \A k \in {n, Len(list)} : m <= k
    BY <1>1
  <2>2. \A k \in {n, Len(list)} : (\A l \in {n, Len(list)} : k <= l) => k = m
    BY <1>1
  <2> QED BY <2>1, <2>2 DEF Min
<1>3. AtMost(n, list) = SubSeq(list, 1, m) /\ m \in 0..Len(list)
  <2>1. m \in 0..Len(list)
    BY <1>1
  <2> QED BY <1>2, <2>1 DEF AtMost
<1> HIDE DEF m
<1>4. /\ SubSeq(list, 1, m) \in Seq(S) /\ Len(SubSeq(list, 1, m)) = m
      /\ \A i \in 1..m : SubSeq(list, 1, m)[i] = list[i]
  BY <1>1, <1>3
<1>5. m = Len(list) => SubSeq(list, 1, m) = list
  BY <1>1, <1>4, SeqEqual
<1> QED BY <1>1, <1>3, <1>4, <1>5 DEF m
-----------------------------------------------------------------------------
(* Candidates and their order *)

Classes == {"opco", "store", "enum"} \union Levels

(* A candidate is what its row says, with a score and how it was found. *)
Meant(c) ==
  /\ c.row \in DOMAIN Rows /\ c.score \in Nat
  /\ c = [Candidate(c.row) EXCEPT !.score = c.score, !.kind = c.kind]

AllMeant(set, kind) == \A c \in set : Meant(c) /\ c.kind = kind

Ordered(list) ==
  \A i, j \in DOMAIN list : i < j => list[i] # list[j] /\ Precedes(SortKey(list[i]), SortKey(list[j]))

LEMMA RowsAre ==
  ASSUME NEW i \in DOMAIN Rows
  PROVE  /\ i \in Nat /\ Rows[i].class \in Classes /\ Rows[i].value \in STRING /\ Rows[i].column \in STRING
         /\ Rows[i].opco \in STRING /\ Rows[i].path \in Seq(STRING) /\ Rows[i].label \in Nat
         /\ Rows[i].name \in Seq(STRING) /\ Rows[i].search \in Seq(STRING)
         /\ Rows[i].name # <<>> /\ Rows[i].search # <<>>
<1> DEFINE R == [class : {"opco", "store", "enum"} \union Levels, value : STRING, column : STRING,
                 opco : STRING, name : Seq(STRING), search : Seq(STRING),
                 path : Seq(STRING), label : Nat]
<1>1. Rows \in Seq(R)
  BY RowAssumption
<1>2. Rows[i] \in R /\ i \in Nat
  <2> HIDE DEF R
  <2>1. i \in 1..Len(Rows)
    BY <1>1, LenProperties
  <2> QED BY <1>1, <2>1, ElementOfSeq
<1>3. <<>> \notin {Rows[i].name, Rows[i].search}
  BY RowAssumption
<1> QED BY <1>2, <1>3 DEF Classes

LEMMA CandidateIs ==
  ASSUME NEW i, NEW n, NEW kind
  PROVE  [Candidate(i) EXCEPT !.score = n, !.kind = kind]
           = [class |-> Rows[i].class, value |-> Rows[i].value, column |-> Rows[i].column,
              opco |-> Rows[i].opco, path |-> Rows[i].path, label |-> Rows[i].label,
              row |-> i, score |-> n, kind |-> kind, others |-> {}]
<1> DEFINE r == Candidate(i)
<1>1. r = [class |-> Rows[i].class, value |-> Rows[i].value, column |-> Rows[i].column,
           opco |-> Rows[i].opco, path |-> Rows[i].path, label |-> Rows[i].label,
           row |-> i, score |-> 1000, kind |-> "exact", others |-> {}]
  BY DEF Candidate
<1> HIDE DEF r
<1> DEFINE t == [r EXCEPT !.score = n]
<1>2. t = [class |-> Rows[i].class, value |-> Rows[i].value, column |-> Rows[i].column,
           opco |-> Rows[i].opco, path |-> Rows[i].path, label |-> Rows[i].label,
           row |-> i, score |-> n, kind |-> "exact", others |-> {}]
  BY <1>1
<1> HIDE DEF t
<1>3. [t EXCEPT !.kind = kind]
        = [class |-> Rows[i].class, value |-> Rows[i].value, column |-> Rows[i].column,
           opco |-> Rows[i].opco, path |-> Rows[i].path, label |-> Rows[i].label,
           row |-> i, score |-> n, kind |-> kind, others |-> {}]
  BY <1>2
<1> QED BY <1>3 DEF r, t

LEMMA Fields ==
  ASSUME NEW c, Meant(c)
  PROVE  /\ c.class = Rows[c.row].class /\ c.value = Rows[c.row].value /\ c.column = Rows[c.row].column
         /\ c.opco = Rows[c.row].opco /\ c.path = Rows[c.row].path /\ c.label = Rows[c.row].label
         /\ c.others = {} /\ c.class \in Classes /\ c.label \in Nat /\ c.path \in Seq(STRING)
         /\ c.row \in Nat /\ c.score \in Nat
<1>1. c = [class |-> Rows[c.row].class, value |-> Rows[c.row].value, column |-> Rows[c.row].column,
           opco |-> Rows[c.row].opco, path |-> Rows[c.row].path, label |-> Rows[c.row].label,
           row |-> c.row, score |-> c.score, kind |-> c.kind, others |-> {}]
  BY CandidateIs, Zenon DEF Meant
<1>2. c.class = Rows[c.row].class /\ c.value = Rows[c.row].value /\ c.column = Rows[c.row].column
  BY <1>1
<1>3. c.opco = Rows[c.row].opco /\ c.path = Rows[c.row].path /\ c.label = Rows[c.row].label /\ c.others = {}
  BY <1>1
<1> QED BY <1>2, <1>3, RowsAre DEF Meant

LEMMA SameCandidate ==
  ASSUME NEW c, NEW d, Meant(c), Meant(d), c.row = d.row, c.score = d.score, c.kind = d.kind
  PROVE  c = d
<1>1. /\ c = [Candidate(c.row) EXCEPT !.score = c.score, !.kind = c.kind]
      /\ d = [Candidate(c.row) EXCEPT !.score = c.score, !.kind = c.kind]
  BY DEF Meant
<1> QED BY <1>1, Zenon

LEMMA LevelsAre ==
  ASSUME NEW c, c.class \in Classes
  PROVE  Level(c) \in 0..4 /\ (c.class \in Levels <=> Level(c) # 0)
BY DEF Level, Levels, Classes

LEMMA KeysAre ==
  ASSUME NEW c, Meant(c)
  PROVE  /\ SortKey(c) = <<-c.score, Level(c), c.label, Place(c)>>
         /\ -c.score \in Int /\ Level(c) \in Int /\ c.label \in Int /\ Place(c) \in Int
         /\ SortKey(c) \in [1..4 -> Int]
<1>1. -c.score \in Int /\ Level(c) \in Int /\ c.label \in Int /\ Place(c) \in Int
  BY Fields, LevelsAre DEF Place
<1> HIDE DEF Place, Level
<1>2. SortKey(c) = <<-c.score, Level(c), c.label, Place(c)>>
  BY DEF SortKey
<1>3. <<-c.score, Level(c), c.label, Place(c)>> \in Seq(Int) /\ Len(<<-c.score, Level(c), c.label, Place(c)>>) = 4
  BY <1>1
<1>4. SortKey(c) \in [1..4 -> Int]
  BY <1>2, <1>3, LenProperties
<1> QED BY <1>1, <1>2, <1>4

(* Best score first, then the broader category, then the label. *)
LEMMA OrderOfCandidates ==
  ASSUME NEW c, NEW d, Meant(c), Meant(d), Precedes(SortKey(c), SortKey(d))
  PROVE  /\ c.score >= d.score
         /\ c.score = d.score => Level(c) <= Level(d)
         /\ c.score = d.score /\ Level(c) = Level(d) => c.label <= d.label
<1> DEFINE a == SortKey(c)
           b == SortKey(d)
<1>1. /\ a \in [1..4 -> Int] /\ b \in [1..4 -> Int]
      /\ a[1] = -c.score /\ a[2] = Level(c) /\ a[3] = c.label
      /\ b[1] = -d.score /\ b[2] = Level(d) /\ b[3] = d.label
      /\ c.score \in Int /\ d.score \in Int
  <2>1. a \in [1..4 -> Int] /\ a[1] = -c.score /\ a[2] = Level(c) /\ a[3] = c.label /\ c.score \in Int
    BY KeysAre, Fields
  <2>2. b \in [1..4 -> Int] /\ b[1] = -d.score /\ b[2] = Level(d) /\ b[3] = d.label /\ d.score \in Int
    BY KeysAre, Fields, SMTT(30)
  <2> QED BY <2>1, <2>2
<1>2. PICK i \in DOMAIN a : a[i] < b[i] /\ \A j \in 1 .. i - 1 : a[j] = b[j]
  BY DEF Precedes
<1> HIDE DEF a, b
<1>3. i \in 1..4
  BY <1>1, <1>2
<1>4. \/ a[1] < b[1]
      \/ a[1] = b[1] /\ a[2] < b[2]
      \/ a[1] = b[1] /\ a[2] = b[2] /\ a[3] <= b[3]
  <2>1. CASE i = 1 BY <1>2, <2>1
  <2>2. CASE i = 2
    <3>1. 1 \in 1 .. i - 1 BY <2>2
    <3> QED BY <1>2, <2>2, <3>1
  <2>3. CASE i = 3
    <3>1. 1 \in 1 .. i - 1 /\ 2 \in 1 .. i - 1 BY <2>3
    <3> QED BY <1>1, <1>2, <2>3, <3>1
  <2>4. CASE i = 4
    <3>1. 1 \in 1 .. i - 1 /\ 2 \in 1 .. i - 1 /\ 3 \in 1 .. i - 1 BY <2>4
    <3> QED BY <1>1, <1>2, <2>4, <3>1
  <2> QED BY <1>3, <2>1, <2>2, <2>3, <2>4
<1>5. Level(c) \in Int /\ Level(d) \in Int /\ c.label \in Int /\ d.label \in Int
  BY KeysAre
<1> QED BY <1>1, <1>4, <1>5

LEMMA RankedIs ==
  ASSUME NEW set, IsFiniteSet(set), NEW kind, AllMeant(set, kind)
  PROVE  LET list == Ranked(set)
         IN  /\ list \in Seq(set) /\ ToSet(list) = set /\ Ordered(list)
             /\ (set # {} => list # <<>>)
<1> DEFINE key == [c \in set |-> SortKey(c)]
           list == SortedBy(key)
           N == Cardinality(DOMAIN key)
<1>1. DOMAIN key = set /\ \A c \in set : key[c] = SortKey(c)
  OBVIOUS
<1>2. ASSUME NEW c \in set, NEW d \in set, SortKey(c) = SortKey(d) PROVE c = d
  <2>1. Meant(c) /\ Meant(d) /\ c.kind = d.kind
    BY DEF AllMeant
  <2>2. -c.score = -d.score /\ Place(c) = Place(d)
    <3>1. SortKey(c)[1] = -c.score /\ SortKey(c)[4] = Place(c)
      BY <2>1, KeysAre
    <3>2. SortKey(d)[1] = -d.score /\ SortKey(d)[4] = Place(d)
      BY <2>1, KeysAre
    <3> QED BY <1>2, <3>1, <3>2
  <2>3. c.score = d.score /\ c.row = d.row
    BY <2>1, <2>2, Fields DEF Place
  <2> QED BY <2>1, <2>3, SameCandidate
<1>3. Sortable(key)
  <2>1. \A c \in set : SortKey(c) \in [1..4 -> Int]
    BY KeysAre DEF AllMeant
  <2> QED BY <1>1, <1>2, <2>1 DEF Sortable
<1>4. Ranked(set) = list
  BY DEF Ranked
<1> HIDE DEF key
<1>5. /\ N \in Nat /\ DOMAIN list = 1..N /\ list \in Seq(set) /\ Len(list) = N
      /\ \A i \in 1..N : list[i] \in set
      /\ \A c \in set : \E i \in 1..N : list[i] = c
      /\ \A i, j \in 1..N : i < j => Precedes(key[list[i]], key[list[j]]) /\ list[i] # list[j]
  BY <1>1, <1>3, Sorted
<1> HIDE DEF list, N
<1>6. ToSet(list) = set
  <2>1. ToSet(list) = {list[i] : i \in 1..N}
    BY <1>5 DEF ToSet
  <2>2. ASSUME NEW x PROVE x \in ToSet(list) <=> x \in set
    BY <1>5, <2>1
  <2> QED BY <2>2
<1>7. Ordered(list)
  BY <1>1, <1>5 DEF Ordered
<1>8. set # {} => list # <<>>
  BY <1>5
<1> QED BY <1>4, <1>5, <1>6, <1>7, <1>8

(* What is left of an ordered list is ordered. *)
LEMMA PartIsOrdered ==
  ASSUME NEW S, NEW list \in Seq(S), Ordered(list), NEW places \in SUBSET (1..Len(list))
  PROVE  Ordered(Part(list, places))
<1> DEFINE N == Cardinality(places)
<1>1. PICK at :
        /\ at \in [1..N -> places]
        /\ \A i \in 1..N : Part(list, places)[i] = list[at[i]]
        /\ \A i, j \in 1..N : i < j => at[i] < at[j]
        /\ \A p \in places : \E i \in 1..N : at[i] = p
  <2>1. PICK at : Picks(at, list, places)
    BY PartIs
  <2> QED BY <2>1 DEF Picks
<1>2. DOMAIN Part(list, places) = 1..N
  BY PartIs
<1> HIDE DEF N
<1>3. \A i \in 1..N : at[i] \in DOMAIN list
  BY <1>1, LenProperties
<1>4. Ordered(Part(list, places))
  BY <1>1, <1>2, <1>3 DEF Ordered
<1> QED BY <1>4

LEMMA AtMostIsOrdered ==
  ASSUME NEW S, NEW list \in Seq(S), Ordered(list), NEW n \in Nat
  PROVE  Ordered(AtMost(n, list))
<1> DEFINE cut == AtMost(n, list)
<1>1. /\ cut \in Seq(S) /\ Len(cut) <= Len(list) /\ \A i \in 1..Len(cut) : cut[i] = list[i]
      /\ Len(list) \in Nat
  BY AtMostIs, LenProperties
<1>2. DOMAIN cut = 1..Len(cut) /\ DOMAIN list = 1..Len(list) /\ Len(cut) \in Nat
  BY <1>1, LenProperties
<1> HIDE DEF cut
<1>3. Ordered(cut)
  BY <1>1, <1>2 DEF Ordered
<1> QED BY <1>3 DEF cut

LEMMA OneFamilyIs ==
  ASSUME NEW S, NEW list \in Seq(S), Ordered(list), list # <<>>
  PROVE  /\ OneFamily(list) \in Seq(S) /\ Ordered(OneFamily(list)) /\ OneFamily(list) # <<>>
         /\ OneFamily(list)[1] = list[1]
         /\ ToSet(OneFamily(list)) = {c \in ToSet(list) : Family(c.class) = Family(list[1].class)}
<1> DEFINE places == {i \in DOMAIN list : Family(list[i].class) = Family(list[1].class)}
<1>1. Len(list) \in Nat \ {0} /\ DOMAIN list = 1..Len(list)
  BY LenProperties, EmptySeq
<1>2. places \in SUBSET (1..Len(list)) /\ 1 \in places /\ \A p \in places : 1 <= p
  BY <1>1
<1>3. OneFamily(list) = Part(list, places)
  BY DEF OneFamily
<1>4. ToSet(list) = {list[i] : i \in DOMAIN list}
  BY DEF ToSet
<1>5. {list[i] : i \in places} = {c \in ToSet(list) : Family(c.class) = Family(list[1].class)}
  BY <1>4
<1> HIDE DEF places
<1>6. OneFamily(list) \in Seq(S) /\ Ordered(OneFamily(list))
  BY <1>2, <1>3, PartIs, PartIsOrdered
<1>7. OneFamily(list) # <<>> /\ OneFamily(list)[1] = list[1]
  BY <1>2, <1>3, PartFirst
<1>8. ToSet(OneFamily(list)) = {list[i] : i \in places}
  BY <1>2, <1>3, PartSet
<1> QED BY <1>5, <1>6, <1>7, <1>8
-----------------------------------------------------------------------------
(* The names of a value *)

IsWords(words) == words \in Seq(STRING) /\ words # <<>>

LEMMA EndingIs ==
  ASSUME NEW words \in Seq(STRING), NEW i \in 1..Len(words)
  PROVE  IsWords(SubSeq(words, i, Len(words)))
<1>1. Len(words) \in Nat
  BY LenProperties
<1>2. SubSeq(words, i, Len(words)) \in Seq(STRING) /\ Len(SubSeq(words, i, Len(words))) = Len(words) - i + 1
  BY <1>1
<1>3. Len(<<>>) = 0 /\ Len(words) - i + 1 # 0
  BY <1>1
<1> HIDE DEF IsWords
<1>4. SubSeq(words, i, Len(words)) # <<>>
  BY <1>2, <1>3
<1> QED BY <1>2, <1>4 DEF IsWords

LEMMA PhraseAliasIs ==
  ASSUME NEW words \in Seq(STRING), NEW alias \in PhraseAliases(words)
  PROVE  \E S : alias \in Seq(S) /\ alias # <<>>
<1>1. words # <<>> /\ (alias = words \/ alias = <<Joined(words)>>)
  BY DEF PhraseAliases
<1>2. CASE alias = words
  BY <1>1, <1>2
<1>3. CASE alias = <<Joined(words)>>
  <2> DEFINE text == Joined(words)
  <2> HIDE DEF text
  <2>1. <<text>> \in Seq({text}) /\ <<text>> # <<>>
    OBVIOUS
  <2> QED BY <1>3, <2>1 DEF text
<1> QED BY <1>1, <1>2, <1>3

LEMMA LocationIs ==
  ASSUME NEW words \in Seq(STRING)
  PROVE  Location(words) \in Seq(STRING)
<1> DEFINE places == {i \in DOMAIN words : words[i] \notin Banners}
<1>1. CASE places = {}
  BY <1>1 DEF Location
<1>2. CASE places # {}
  <2>1. places \in SUBSET Nat /\ DOMAIN words = 1..Len(words)
    BY LenProperties
  <2>2. \E i \in places : \A j \in places : i <= j
    BY <1>2, <2>1, LeastNumber
  <2> DEFINE i == CHOOSE i \in places : \A j \in places : i <= j
  <2>3. i \in places
    BY <2>2
  <2>4. Location(words) = SubSeq(words, i, Len(words))
    BY <1>2 DEF Location
  <2> HIDE DEF i
  <2> QED BY <2>1, <2>3, <2>4, EndingIs DEF IsWords
<1> QED BY <1>1, <1>2

LEMMA StoreAliasIs ==
  ASSUME NEW words \in Seq(STRING), NEW alias \in StoreAliases(words)
  PROVE  \E S : alias \in Seq(S) /\ alias # <<>>
<1> DEFINE location == Location(words)
           afterCode == IF location # words /\ Len(location) > 1 /\ Head(location) \in Codes
                        THEN {Tail(location)} ELSE {}
           endings == {SubSeq(words, i, Len(words)) : i \in 2 .. Len(words) - 1}
<1>1. PICK phrase \in {words, location} \union afterCode \union endings : alias \in PhraseAliases(phrase)
  BY DEF StoreAliases
<1>2. location \in Seq(STRING)
  BY LocationIs
<1>3. phrase \in Seq(STRING)
  <2>1. CASE phrase \in {words, location}
    BY <1>2, <2>1
  <2>2. CASE phrase \in afterCode
    <3> HIDE DEF location
    <3>1. phrase = Tail(location) /\ Len(location) > 1
      BY <2>2
    <3>2. location # <<>>
      BY <1>2, <3>1
    <3> QED BY <1>2, <3>1, <3>2
  <2>3. CASE phrase \in endings
    <3>1. PICK i \in 2 .. Len(words) - 1 : phrase = SubSeq(words, i, Len(words))
      BY <2>3
    <3>2. i \in 1..Len(words)
      BY LenProperties
    <3> QED BY <3>1, <3>2, EndingIs DEF IsWords
  <2> QED BY <1>1, <2>1, <2>2, <2>3
<1> QED BY <1>1, <1>3, PhraseAliasIs

LEMMA DivisionAliasIs ==
  ASSUME NEW words, NEW alias \in DivisionAliases(words)
  PROVE  \E S : alias \in Seq(S) /\ alias # <<>>
<1> DEFINE name == words[1]
           one == name \o "line"
           many == name \o "lines"
<1>1. alias \in {<<one>>, <<name, "line">>, <<many>>, <<name, "lines">>}
  BY DEF DivisionAliases
<1> HIDE DEF name, one, many
<1> DEFINE S == {one, many, name, "line", "lines"}
<1>2. /\ <<one>> \in Seq(S) /\ <<many>> \in Seq(S) /\ <<name, "line">> \in Seq(S) /\ <<name, "lines">> \in Seq(S)
      /\ <<one>> # <<>> /\ <<many>> # <<>> /\ <<name, "line">> # <<>> /\ <<name, "lines">> # <<>>
  OBVIOUS
<1> HIDE DEF S
<1> QED BY <1>1, <1>2

(* Every name of a value has words. *)
LEMMA AliasIs ==
  ASSUME NEW alias \in AllAliases
  PROVE  \E S : alias \in Seq(S) /\ alias # <<>>
<1>1. PICK i \in DOMAIN Rows : alias \in Aliases(Rows[i])
  BY DEF AllAliases, AliasesOf
<1> DEFINE row == Rows[i]
           names == {row.name, row.search}
<1>2. \A name \in names : name \in Seq(STRING) /\ name # <<>>
  BY RowsAre
<1>3. CASE row.class = "store"
  <2>1. PICK name \in names : alias \in StoreAliases(name)
    BY <1>1, <1>3 DEF Aliases
  <2> QED BY <1>2, <2>1, StoreAliasIs
<1>4. CASE row.class # "store"
  <2>1. alias \in names \/ alias \in DivisionAliases(row.name)
    BY <1>1, <1>4 DEF Aliases
  <2> QED BY <1>2, <2>1, DivisionAliasIs
<1> QED BY <1>3, <1>4
-----------------------------------------------------------------------------
(* The catalogue rows of a name *)

LEMMA IndexedAre ==
  ASSUME NEW alias, NEW c \in Indexed(alias)
  PROVE  /\ Meant(c) /\ c.kind = "exact" /\ c.score = 1000 /\ alias \in AliasesOf[c.row]
         /\ c = Candidate(c.row)
<1>1. PICK i \in DOMAIN Rows : c = Candidate(i) /\ alias \in AliasesOf[i]
  BY DEF Indexed
<1> DEFINE r == Candidate(i)
<1>2. r = [class |-> Rows[i].class, value |-> Rows[i].value, column |-> Rows[i].column,
           opco |-> Rows[i].opco, path |-> Rows[i].path, label |-> Rows[i].label,
           row |-> i, score |-> 1000, kind |-> "exact", others |-> {}]
  BY DEF Candidate
<1>3. r.row = i /\ r.score = 1000 /\ r.kind = "exact"
  BY <1>2
<1> HIDE DEF r
<1>4. r = [r EXCEPT !.score = r.score, !.kind = r.kind]
  <2> DEFINE t == [r EXCEPT !.score = r.score]
  <2>1. t = r
    BY <1>2
  <2> HIDE DEF t
  <2>2. [t EXCEPT !.kind = r.kind] = r
    BY <1>2, <2>1
  <2> QED BY <2>2 DEF t
<1>5. c = r /\ r = Candidate(r.row)
  BY <1>1, <1>3 DEF r
<1>6. Meant(r)
  <2>1. r = [Candidate(r.row) EXCEPT !.score = r.score, !.kind = r.kind]
    BY <1>4, <1>5
  <2> QED BY <1>3, <2>1 DEF Meant
<1> QED BY <1>1, <1>3, <1>5, <1>6, ZenonT(30)

(* A row is there, or one before it that filters the same. *)
LEMMA IndexedHas ==
  ASSUME NEW alias, NEW i \in DOMAIN Rows, alias \in AliasesOf[i]
  PROVE  \E c \in Indexed(alias) :
           c.class = Rows[i].class /\ c.value = Rows[i].value /\ c.column = Rows[i].column
<1> DEFINE T == {j \in DOMAIN Rows : alias \in AliasesOf[j] /\ Identity(Rows[j]) = Identity(Rows[i])}
<1>1. DOMAIN Rows \in SUBSET Nat
  BY RowsAre
<1>2. PICK m \in T : \A k \in T : m <= k
  <2>1. T \in SUBSET Nat /\ i \in T
    BY <1>1
  <2> QED BY <2>1, LeastNumber
<1>3. \A k \in 1 .. m - 1 : alias \in AliasesOf[k] => Identity(Rows[k]) # Identity(Rows[m])
  <2> SUFFICES ASSUME NEW k \in 1 .. m - 1, alias \in AliasesOf[k], Identity(Rows[k]) = Identity(Rows[m])
               PROVE  FALSE
    OBVIOUS
  <2>1. k \in DOMAIN Rows
    <3>1. Rows \in Seq([class : {"opco", "store", "enum"} \union Levels, value : STRING, column : STRING,
                        opco : STRING, name : Seq(STRING), search : Seq(STRING),
                        path : Seq(STRING), label : Nat])
      BY RowAssumption
    <3>2. DOMAIN Rows = 1..Len(Rows) /\ Len(Rows) \in Nat
      BY <3>1, LenProperties
    <3>3. m \in 1..Len(Rows)
      BY <3>2
    <3> QED BY <3>2, <3>3
  <2>2. k \in T /\ k < m /\ m \in Nat /\ k \in Nat
    BY <1>1, <2>1
  <2> QED BY <1>2, <2>2
<1>4. Candidate(m) \in Indexed(alias)
  BY <1>3 DEF Indexed
<1>5. /\ Candidate(m).class = Rows[m].class /\ Candidate(m).value = Rows[m].value
      /\ Candidate(m).column = Rows[m].column
  BY DEF Candidate
<1>6. Rows[m].class = Rows[i].class /\ Rows[m].value = Rows[i].value /\ Rows[m].column = Rows[i].column
  BY DEF Identity
<1> QED BY <1>4, <1>5, <1>6

MaxScore == 1000

(* Candidates of one kind and bounded score are finitely many. *)
LEMMA FinitelyMany ==
  ASSUME NEW set, NEW kind, AllMeant(set, kind), \A c \in set : c.score \in 0..MaxScore
  PROVE  IsFiniteSet(set)
<1> DEFINE T == (DOMAIN Rows) \X (0..MaxScore)
           f == [c \in set |-> <<c.row, c.score>>]
<1>1. IsFiniteSet(T)
  <2>1. Rows \in Seq([class : {"opco", "store", "enum"} \union Levels, value : STRING, column : STRING,
                      opco : STRING, name : Seq(STRING), search : Seq(STRING),
                      path : Seq(STRING), label : Nat])
    BY RowAssumption
  <2>2. DOMAIN Rows = 1..Len(Rows) /\ Len(Rows) \in Nat
    BY <2>1, LenProperties
  <2>3. IsFiniteSet(1..Len(Rows))
    BY <2>2, FS_Interval
  <2>4. IsFiniteSet(0..MaxScore)
    <3>1. \A n \in Nat : IsFiniteSet(0..n)
      BY FS_Interval
    <3>2. MaxScore \in Nat
      BY DEF MaxScore
    <3> QED BY <3>1, <3>2
  <2>5. IsFiniteSet(DOMAIN Rows)
    BY <2>2, <2>3
  <2> QED BY <2>4, <2>5, FS_Product
<1>2. f \in [set -> T]
  <2>1. \A c \in set : c.row \in DOMAIN Rows /\ c.score \in 0..MaxScore
    BY DEF AllMeant, Meant
  <2> QED BY <2>1
<1>3. ASSUME NEW c \in set, NEW d \in set, f[c] = f[d] PROVE c = d
  <2>1. Meant(c) /\ Meant(d) /\ c.kind = d.kind /\ c.row = d.row /\ c.score = d.score
    BY <1>3 DEF AllMeant
  <2> QED BY <2>1, SameCandidate
<1> HIDE DEF f, T
<1>4. f \in Injection(set, T)
  BY <1>2, <1>3, Fun_IsInj
<1> QED BY <1>1, <1>4, FS_Injection

LEMMA LookupIs ==
  ASSUME NEW words, LookupExact(words) # {}
  PROVE  /\ LookupExact(words) = Indexed(words) /\ IsFiniteSet(LookupExact(words))
         /\ AllMeant(LookupExact(words), "exact") /\ \A c \in LookupExact(words) : c.score = 1000
<1>1. LookupExact(words) = Indexed(words)
  BY DEF LookupExact, Exact
<1>2. AllMeant(Indexed(words), "exact") /\ \A c \in Indexed(words) : c.score = 1000
  BY IndexedAre DEF AllMeant
<1> QED BY <1>1, <1>2, FinitelyMany DEF MaxScore
-----------------------------------------------------------------------------
(* Sums *)

IsSum(sum, value, m) == sum = [n \in 0 .. m |-> IF n = 0 THEN 0 ELSE sum[n - 1] + value[n]]

(* The least number of terms that has no sum would have one: that of the   *)
(* terms before the last, and the last.                                    *)
LEMMA SumExists ==
  ASSUME NEW value, NEW N \in Nat
  PROVE  \E sum : IsSum(sum, value, N)
<1> DEFINE T == {m \in Nat : ~ \E sum : IsSum(sum, value, m)}
<1> SUFFICES ASSUME T # {} PROVE FALSE
  OBVIOUS
<1>1. PICK m \in T : \A k \in T : m <= k
  <2>1. T \in SUBSET Nat
    OBVIOUS
  <2> QED BY <2>1, LeastNumber
<1>2. m # 0
  <2> DEFINE zero == [n \in 0 .. 0 |-> 0]
  <2>1. zero = [n \in 0 .. 0 |-> IF n = 0 THEN 0 ELSE zero[n - 1] + value[n]]
    OBVIOUS
  <2>2. IsSum(zero, value, 0)
    BY <2>1, Zenon DEF IsSum
  <2> QED BY <2>2
<1>3. m - 1 \in Nat /\ m - 1 \notin T
  BY <1>1, <1>2
<1>4. PICK less : IsSum(less, value, m - 1)
  BY <1>3
<1> DEFINE sum == [n \in 0 .. m |-> IF n = m THEN less[m - 1] + value[m] ELSE less[n]]
<1>5. \A n \in 0 .. m - 1 : less[n] = IF n = 0 THEN 0 ELSE less[n - 1] + value[n]
  BY <1>4 DEF IsSum
<1>6. \A n \in 0 .. m : sum[n] = IF n = 0 THEN 0 ELSE sum[n - 1] + value[n]
  <2> SUFFICES ASSUME NEW n \in 0 .. m PROVE sum[n] = IF n = 0 THEN 0 ELSE sum[n - 1] + value[n]
    OBVIOUS
  <2>1. CASE n = 0
    BY <1>2, <1>3, <1>5, <2>1
  <2>2. CASE n # 0
    <3>1. n - 1 \in 0 .. m - 1 /\ n - 1 # m /\ sum[n - 1] = less[n - 1]
      BY <1>3, <2>2
    <3>2. CASE n = m
      BY <2>2, <3>1, <3>2
    <3>3. CASE n # m
      <4>1. n \in 0 .. m - 1 /\ sum[n] = less[n]
        BY <1>3, <3>3
      <4> QED BY <1>5, <2>2, <3>1, <4>1
    <3> QED BY <3>2, <3>3
  <2> QED BY <2>1, <2>2
<1>7. sum = [n \in 0 .. m |-> IF n = 0 THEN 0 ELSE sum[n - 1] + value[n]]
  <2> DEFINE other == [n \in 0 .. m |-> IF n = 0 THEN 0 ELSE sum[n - 1] + value[n]]
  <2>1. DOMAIN sum = 0 .. m /\ DOMAIN other = 0 .. m
    OBVIOUS
  <2>2. \A n \in 0 .. m : sum[n] = other[n]
    BY <1>6
  <2>3. sum = [n \in 0 .. m |-> sum[n]] /\ other = [n \in 0 .. m |-> other[n]]
    OBVIOUS
  <2> HIDE DEF sum, other
  <2>4. sum = other
    BY <2>2, <2>3
  <2> QED BY <2>4 DEF other
<1> HIDE DEF sum
<1>8. IsSum(sum, value, m)
  BY <1>7 DEF IsSum
<1> QED BY <1>8

Adds(sum, value) ==
  /\ sum \in [0 .. Len(value) -> Nat] /\ sum[0] = 0
  /\ \A n \in 1 .. Len(value) : sum[n] = sum[n - 1] + value[n]
  /\ Total(value) = sum[Len(value)]

LEMMA TotalIs ==
  ASSUME NEW value \in Seq(Nat)
  PROVE  \E sum : Adds(sum, value)
<1> DEFINE N == Len(value)
<1>1. N \in Nat /\ \A n \in 1 .. N : value[n] \in Nat
  BY LenProperties, ElementOfSeq
<1>2. PICK any : IsSum(any, value, N)
  BY <1>1, SumExists
<1>3. PICK sum : IsSum(sum, value, N) /\ Total(value) = sum[N]
  BY <1>2 DEF Total, IsSum
<1> HIDE DEF N
<1>4. DOMAIN sum = 0 .. N /\ \A n \in 0 .. N : sum[n] = IF n = 0 THEN 0 ELSE sum[n - 1] + value[n]
  BY <1>3 DEF IsSum
<1>5. \A n \in 0 .. N : sum[n] \in Nat
  <2> DEFINE T == {n \in 0 .. N : sum[n] \notin Nat}
  <2> SUFFICES ASSUME T # {} PROVE FALSE
    OBVIOUS
  <2>1. PICK m \in T : \A k \in T : m <= k
    <3>1. T \in SUBSET Nat
      OBVIOUS
    <3> QED BY <3>1, LeastNumber
  <2>2. m # 0 /\ m \in 0 .. N
    BY <1>1, <1>4
  <2>3. m - 1 \in 0 .. N /\ m - 1 \notin T /\ m \in 1 .. N
    BY <1>1, <2>1, <2>2
  <2>4. sum[m - 1] \in Nat /\ sum[m] = sum[m - 1] + value[m] /\ value[m] \in Nat
    BY <1>1, <1>4, <2>2, <2>3
  <2> QED BY <2>4
<1>6. sum \in [0 .. N -> Nat]
  <2>1. sum = [n \in 0 .. N |-> sum[n]]
    BY <1>3 DEF IsSum
  <2> QED BY <1>5, <2>1
<1>7. \A n \in 1 .. N : sum[n] = sum[n - 1] + value[n]
  BY <1>1, <1>4
<1>8. sum[0] = 0
  BY <1>1, <1>4
<1>9. Adds(sum, value)
  BY <1>3, <1>6, <1>7, <1>8 DEF Adds, N
<1> QED BY <1>9

(* What holds term by term holds of the sums. *)
LEMMA TotalGrows ==
  ASSUME NEW a \in Seq(Nat), NEW b \in Seq(Nat), Len(a) = Len(b), NEW k \in {1, 100},
         \A i \in 1 .. Len(a) : a[i] <= k * b[i]
  PROVE  Total(a) \in Nat /\ Total(b) \in Nat /\ Total(a) <= k * Total(b)
<1> DEFINE N == Len(a)
<1>1. PICK s : Adds(s, a)
  BY TotalIs
<1>2. PICK t : Adds(t, b)
  BY TotalIs
<1>3. N \in Nat /\ \A n \in 1 .. N : a[n] \in Nat /\ b[n] \in Nat /\ a[n] <= k * b[n]
  BY LenProperties, ElementOfSeq
<1>4. /\ s \in [0 .. N -> Nat] /\ t \in [0 .. N -> Nat] /\ s[0] = 0 /\ t[0] = 0
      /\ \A n \in 1 .. N : s[n] = s[n - 1] + a[n] /\ t[n] = t[n - 1] + b[n]
      /\ Total(a) = s[N] /\ Total(b) = t[N]
  BY <1>1, <1>2 DEF Adds
<1> HIDE DEF N
<1>5. \A n \in 0 .. N : s[n] <= k * t[n]
  <2> DEFINE Follows(n) == s[n] <= k * t[n]
             T == {n \in 0 .. N : ~Follows(n)}
  <2> SUFFICES ASSUME T # {} PROVE FALSE
    OBVIOUS
  <2> HIDE DEF Follows
  <2>1. PICK m \in T : \A l \in T : m <= l
    <3>1. T \in SUBSET Nat
      OBVIOUS
    <3> QED BY <3>1, LeastNumber
  <2>2. m # 0
    BY <1>4 DEF Follows
  <2>3. m - 1 \in 0 .. N /\ m - 1 \notin T /\ m \in 1 .. N
    BY <1>3, <2>1, <2>2
  <2>4. /\ s[m - 1] \in Nat /\ t[m - 1] \in Nat
        /\ s[m] = s[m - 1] + a[m] /\ t[m] = t[m - 1] + b[m]
        /\ a[m] \in Nat /\ b[m] \in Nat
    BY <1>3, <1>4, <2>3
  <2>5. ~Follows(m) /\ Follows(m - 1) /\ a[m] <= k * b[m]
    BY <1>3, <2>3
  <2>6. CASE k = 1
    <3>1. s[m - 1] <= t[m - 1] /\ a[m] <= b[m] /\ ~(s[m] <= t[m])
      BY <2>4, <2>5, <2>6 DEF Follows
    <3> QED BY <2>4, <3>1
  <2>7. CASE k = 100
    <3>1. s[m - 1] <= 100 * t[m - 1] /\ a[m] <= 100 * b[m] /\ ~(s[m] <= 100 * t[m])
      BY <2>4, <2>5, <2>7 DEF Follows
    <3> DEFINE x == s[m - 1]
               y == a[m]
               u == t[m - 1]
               v == b[m]
    <3>2. /\ x \in Nat /\ y \in Nat /\ u \in Nat /\ v \in Nat /\ x <= 100 * u /\ y <= 100 * v
          /\ s[m] = x + y /\ t[m] = u + v
      BY <2>4, <3>1
    <3> HIDE DEF x, y, u, v
    <3>3. x + y <= 100 * (u + v)
      BY <3>2
    <3> QED BY <3>1, <3>2, <3>3
  <2> QED BY <2>6, <2>7
<1>6. N \in 0 .. N
  BY <1>3
<1> QED BY <1>4, <1>5, <1>6

LEMMA TotalIsPositive ==
  ASSUME NEW a \in Seq(Nat), a # <<>>, \A i \in 1 .. Len(a) : a[i] >= 1
  PROVE  Total(a) \in Nat /\ Total(a) >= 1
<1> DEFINE N == Len(a)
<1>1. PICK s : Adds(s, a)
  BY TotalIs
<1>2. N \in Nat /\ N # 0 /\ a[N] \in Nat /\ a[N] >= 1
  <2>1. N \in Nat /\ N # 0
    BY LenProperties, EmptySeq
  <2>2. N \in 1 .. Len(a)
    BY <2>1
  <2> QED BY <2>1, <2>2, ElementOfSeq
<1>3. N - 1 \in 0 .. N /\ N \in 1 .. N
  BY <1>2
<1>4. s[N - 1] \in Nat /\ s[N] = s[N - 1] + a[N] /\ Total(a) = s[N]
  BY <1>1, <1>3 DEF Adds
<1> QED BY <1>2, <1>4
-----------------------------------------------------------------------------
(* Scores *)

(* Max of a bounded set of numbers is one of them. *)
LEMMA Greatest ==
  ASSUME NEW n \in Nat, NEW T \in SUBSET (0..n), T # {}
  PROVE  Max(T) \in T
<1> DEFINE Gaps == {n - k : k \in T}
<1> \A k \in T : k \in Int /\ n - k \in Nat
  OBVIOUS
<1>1. Gaps \in SUBSET Nat /\ Gaps # {}
  OBVIOUS
<1>2. PICK g \in Gaps : \A k \in Gaps : g <= k
  BY <1>1, LeastNumber
<1>3. PICK m \in T : g = n - m
  OBVIOUS
<1>4. \A k \in T : m >= k
  <2> SUFFICES ASSUME NEW k \in T PROVE m >= k
    OBVIOUS
  <2>1. n - m <= n - k
    BY <1>2, <1>3
  <2> QED BY <2>1
<1> QED BY <1>3, <1>4 DEF Max

AllWords == (UNION {ToSet(q) : q \in Questions}) \union (UNION {ToSet(a) : a \in AllAliases})

LEMMA WordsOfAliases ==
  ASSUME NEW alias \in AllAliases, NEW word \in ToSet(alias)
  PROVE  word \in AllWords
<1>1. word \in UNION {ToSet(a) : a \in AllAliases}
  OBVIOUS
<1> QED BY <1>1 DEF AllWords

LEMMA WordsOfQuestions ==
  ASSUME NEW q \in Questions, NEW word \in ToSet(q)
  PROVE  word \in AllWords
<1>1. word \in UNION {ToSet(p) : p \in Questions}
  OBVIOUS
<1> QED BY <1>1 DEF AllWords

LEMMA SimilarIs ==
  ASSUME NEW a \in AllWords, NEW b \in AllWords
  PROVE  Similar(a, b) \in 0..100
<1> DEFINE short == IF Len(a) <= Len(b) THEN a ELSE b
           long == IF Len(a) <= Len(b) THEN b ELSE a
           truncated == Len(short) >= 5 /\ 10 * Len(short) >= 7 * Len(long) /\ Begins(long, short)
           beginning == 75 + ((25 * Len(short)) \div Len(long))
           inCommon == IF Letter(a, 1) = Letter(b, 1) THEN Ratio(a, b) ELSE Ratio(a, b) \div 2
<1>1. Len(a) \in Nat /\ Len(b) \in Nat /\ Ratio(a, b) \in 0..100
  BY WordsAssumption DEF AllWords
<1>2. Similar(a, b) = CASE a = b -> 100 [] a # b /\ truncated -> beginning [] OTHER -> inCommon
  BY DEF Similar
<1>3. Len(short) \in Nat /\ Len(long) \in Nat /\ Len(short) <= Len(long)
  BY <1>1
<1> DEFINE m == Len(short)
           n == Len(long)
<1>4. m \in Nat /\ n \in Nat /\ m <= n
  BY <1>3
<1>5. beginning = 75 + ((25 * m) \div n) /\ (truncated => m >= 5)
  OBVIOUS
<1> HIDE DEF m, n, truncated, beginning
<1>6. truncated => beginning \in 0..100
  BY <1>4, <1>5
<1>7. inCommon \in 0..100
  <2> DEFINE ratio == Ratio(a, b)
  <2>1. inCommon \in {ratio, ratio \div 2} /\ ratio \in 0..100
    BY <1>1
  <2> HIDE DEF ratio, inCommon
  <2>2. ratio \div 2 \in 0..100
    BY <2>1
  <2> QED BY <2>1, <2>2
<1> HIDE DEF inCommon
<1> QED BY <1>2, <1>6, <1>7

LEMMA ClosestIs ==
  ASSUME NEW a \in AllWords, NEW words \in Seq(AllWords), words # <<>>
  PROVE  Closest(a, words) \in 0..100
<1> DEFINE T == {Similar(a, words[i]) : i \in DOMAIN words}
<1>1. 1 \in DOMAIN words /\ \A i \in DOMAIN words : words[i] \in AllWords
  <2>1. Len(words) \in Nat /\ Len(words) # 0 /\ DOMAIN words = 1..Len(words)
    BY LenProperties, EmptySeq
  <2> QED BY <2>1, ElementOfSeq
<1>2. T \in SUBSET (0..100) /\ T # {}
  BY <1>1, SimilarIs
<1> HIDE DEF T
<1>3. Max(T) \in T
  BY <1>2, Greatest
<1> QED BY <1>2, <1>3 DEF Closest, T

(* The weights of a window or name, and what of them counts. *)
LEMMA WeightsAre ==
  ASSUME NEW words \in Seq(AllWords), words # <<>>, NEW other \in Seq(AllWords), other # <<>>, NEW weak
  PROVE  /\ AllWeight(words, weak) \in Nat \ {0}
         /\ Earned(words, other, weak) \in Nat /\ Earned(words, other, weak) <= 100 * AllWeight(words, weak)
         /\ AccountedFor(other, words, weak) \in Nat /\ AccountedFor(other, words, weak) <= AllWeight(words, weak)
<1> DEFINE N == Len(words)
           w == [i \in DOMAIN words |-> Weight(words[i], weak)]
           e == [i \in DOMAIN words |-> Weight(words[i], weak) * Closest(words[i], other)]
           h == [i \in DOMAIN words |-> IF Closest(words[i], other) >= 80 THEN Weight(words[i], weak) ELSE 0]
<1>1. N \in Nat \ {0} /\ DOMAIN words = 1..N /\ \A i \in 1..N : words[i] \in AllWords
  BY LenProperties, EmptySeq, ElementOfSeq
<1>2. ASSUME NEW i \in 1..N
      PROVE  /\ w[i] \in Nat /\ e[i] \in Nat /\ h[i] \in Nat
             /\ w[i] >= 1 /\ e[i] <= 100 * w[i] /\ h[i] <= w[i]
  <2>1. Closest(words[i], other) \in 0..100
    BY <1>1, ClosestIs
  <2>2. Weight(words[i], weak) = 1 \/ Weight(words[i], weak) = 5
    BY DEF Weight
  <2>3. /\ w[i] = Weight(words[i], weak) /\ e[i] = Weight(words[i], weak) * Closest(words[i], other)
        /\ (h[i] = Weight(words[i], weak) \/ h[i] = 0)
    BY <1>1
  <2> DEFINE close == Closest(words[i], other)
             weight == Weight(words[i], weak)
  <2>4. close \in 0..100 /\ weight \in {1, 5} /\ w[i] = weight /\ e[i] = weight * close /\ h[i] \in {weight, 0}
    BY <2>1, <2>2, <2>3
  <2> HIDE DEF close, weight, w, e, h
  <2>5. CASE weight = 1
    BY <2>4, <2>5
  <2>6. CASE weight = 5
    BY <2>4, <2>6
  <2> QED BY <2>4, <2>5, <2>6
<1>3. DOMAIN w = 1..N /\ DOMAIN e = 1..N /\ DOMAIN h = 1..N
  BY <1>1
<1>4. w \in Seq(Nat) /\ e \in Seq(Nat) /\ h \in Seq(Nat) /\ Len(w) = N /\ Len(e) = N /\ Len(h) = N
  <2>1. /\ w = [i \in 1..N |-> w[i]] /\ e = [i \in 1..N |-> e[i]] /\ h = [i \in 1..N |-> h[i]]
    BY <1>1
  <2> HIDE DEF w, e, h, N
  <2>2. w \in [1..N -> Nat] /\ e \in [1..N -> Nat] /\ h \in [1..N -> Nat]
    BY <1>2, <2>1
  <2>3. N \in Nat
    BY <1>1
  <2>4. \A f \in [1..N -> Nat] : f \in Seq(Nat) /\ Len(f) = N
    BY <2>3
  <2> QED BY <2>2, <2>4
<1>5. /\ AllWeight(words, weak) = Total(w) /\ Earned(words, other, weak) = Total(e)
      /\ AccountedFor(other, words, weak) = Total(h)
  BY DEF AllWeight, Earned, AccountedFor
<1> HIDE DEF w, e, h, N
<1>6. Total(w) \in Nat /\ Total(w) >= 1
  <2>1. w # <<>>
    BY <1>1, <1>4, EmptySeq
  <2> QED BY <1>2, <1>4, <2>1, TotalIsPositive
<1>7. Total(e) \in Nat /\ Total(e) <= 100 * Total(w)
  BY <1>2, <1>4, TotalGrows
<1>8. Total(h) \in Nat /\ Total(h) <= Total(w)
  <2>1. \A i \in 1..Len(h) : h[i] <= 1 * w[i]
    BY <1>2, <1>4
  <2>2. Total(h) \in Nat /\ Total(h) <= 1 * Total(w)
    BY <1>4, <2>1, TotalGrows
  <2> QED BY <1>6, <2>2
<1> QED BY <1>5, <1>6, <1>7, <1>8

(* No name is worth more than one spelt as it is: phrase_score ends at 100. *)
LEMMA ScoreIs ==
  ASSUME NEW window \in Seq(AllWords), window # <<>>, NEW alias \in Seq(AllWords), alias # <<>>, NEW weak
  PROVE  Score(window, alias, weak) \in 0..MaxScore
<1> DEFINE W == AllWeight(window, weak)
           E == Earned(window, alias, weak)
           V == AllWeight(alias, weak)
           A == AccountedFor(window, alias, weak)
<1>1. W \in Nat \ {0} /\ E \in Nat /\ E <= 100 * W
  BY WeightsAre
<1>2. V \in Nat \ {0} /\ A \in Nat /\ A <= V
  BY WeightsAre
<1>3. Score(window, alias, weak) = IF ToSet(window) \subseteq weak THEN 0
                                   ELSE ((7 * E) \div W) + ((300 * A) \div V)
  BY DEF Score
<1> HIDE DEF W, E, V, A
<1>4. (7 * E) \div W \in 0..700
  BY <1>1
<1>5. (300 * A) \div V \in 0..300
  BY <1>2
<1> DEFINE precision == (7 * E) \div W
           recall == (300 * A) \div V
<1>6. precision \in 0..700 /\ recall \in 0..300
  BY <1>4, <1>5
<1>7. Score(window, alias, weak) = 0 \/ Score(window, alias, weak) = precision + recall
  BY <1>3
<1> HIDE DEF precision, recall
<1>8. precision + recall \in Nat /\ precision + recall <= 1000
  BY <1>6
<1>9. MaxScore \in Nat /\ precision + recall <= MaxScore /\ 0 <= MaxScore
  BY <1>8 DEF MaxScore
<1> QED BY <1>7, <1>8, <1>9
-----------------------------------------------------------------------------
(* The options of a guess *)

LEMMA ScoredAre ==
  ASSUME NEW window \in Seq(AllWords), window # <<>>
  PROVE  /\ AllMeant(Scored(window), "fuzzy") /\ \A c \in Scored(window) : c.score \in 0..MaxScore
         /\ IsFiniteSet(Scored(window))
<1>1. ASSUME NEW c \in Scored(window)
      PROVE  Meant(c) /\ c.kind = "fuzzy" /\ c.score \in 0..MaxScore
  <2>1. PICK alias \in Shortlist(window) : \E d \in Exact[alias] :
          c = [d EXCEPT !.score = Score(window, alias, Weak[d.class]), !.kind = "fuzzy"]
    BY DEF Scored
  <2>2. PICK d \in Exact[alias] : c = [d EXCEPT !.score = Score(window, alias, Weak[d.class]), !.kind = "fuzzy"]
    BY <2>1
  <2>3. alias \in AllAliases /\ d \in Indexed(alias)
    BY DEF Shortlist, Exact
  <2>4. alias \in Seq(AllWords) /\ alias # <<>>
    <3>1. PICK S : alias \in Seq(S) /\ alias # <<>>
      BY <2>3, AliasIs
    <3>2. Len(alias) \in Nat /\ DOMAIN alias = 1..Len(alias) /\ alias = [i \in 1..Len(alias) |-> alias[i]]
      BY <3>1, LenProperties
    <3>3. \A i \in 1..Len(alias) : alias[i] \in AllWords
      <4>1. \A i \in 1..Len(alias) : alias[i] \in ToSet(alias)
        BY <3>2 DEF ToSet
      <4> QED BY <2>3, <4>1, WordsOfAliases
    <3>4. alias \in [1..Len(alias) -> AllWords]
      BY <3>2, <3>3
    <3> QED BY <3>1, <3>2, <3>4
  <2> DEFINE n == Score(window, alias, Weak[d.class])
  <2>5. n \in 0..MaxScore
    BY <2>4, ScoreIs
  <2>6. d = Candidate(d.row) /\ d.row \in DOMAIN Rows
    <3>1. Meant(d) /\ d = Candidate(d.row)
      BY <2>3, IndexedAre
    <3> QED BY <3>1 DEF Meant
  <2>7. c = [d EXCEPT !.score = n, !.kind = "fuzzy"]
    BY <2>2
  <2> HIDE DEF n
  <2>8. c = [Candidate(d.row) EXCEPT !.score = n, !.kind = "fuzzy"]
    BY <2>6, <2>7, Zenon
  <2>9. c = [class |-> Rows[d.row].class, value |-> Rows[d.row].value, column |-> Rows[d.row].column,
             opco |-> Rows[d.row].opco, path |-> Rows[d.row].path, label |-> Rows[d.row].label,
             row |-> d.row, score |-> n, kind |-> "fuzzy", others |-> {}]
    BY <2>8, CandidateIs, Zenon
  <2>10. c.row = d.row /\ c.score = n /\ c.kind = "fuzzy"
    BY <2>9
  <2>11. c = [Candidate(c.row) EXCEPT !.score = c.score, !.kind = c.kind]
    BY <2>8, <2>10, Zenon
  <2>12. n \in Nat
    BY <2>5 DEF MaxScore
  <2> QED BY <2>5, <2>6, <2>10, <2>11, <2>12 DEF Meant
<1>2. AllMeant(Scored(window), "fuzzy")
  BY <1>1 DEF AllMeant
<1> QED BY <1>1, <1>2, FinitelyMany

(* What decides between candidates for one thing. *)
RankOfThing(c) == <<-c.score, Place(c)>>

LEMMA RankOfThingIs ==
  ASSUME NEW c, Meant(c)
  PROVE  RankOfThing(c) \in [1..2 -> Int] /\ RankOfThing(c)[1] = -c.score /\ RankOfThing(c)[2] = Place(c)
<1>1. -c.score \in Int /\ Place(c) \in Int
  BY KeysAre
<1> HIDE DEF Place
<1>2. <<-c.score, Place(c)>> \in Seq(Int) /\ Len(<<-c.score, Place(c)>>) = 2
  BY <1>1
<1> QED BY <1>2, LenProperties DEF RankOfThing

LEMMA BestOfEachIs ==
  ASSUME NEW set, IsFiniteSet(set), NEW kind, AllMeant(set, kind)
  PROVE  /\ BestOfEach(set) \subseteq set
         /\ \A c, d \in BestOfEach(set) : Thing(c) = Thing(d) => c = d
         /\ \A c \in set : \E b \in BestOfEach(set) : Thing(b) = Thing(c) /\ b.score >= c.score
<1>1. BestOfEach(set) = {c \in set : \A d \in set \ {c} :
                           Thing(c) = Thing(d) => Precedes(RankOfThing(c), RankOfThing(d))}
  BY DEF BestOfEach, Thing, RankOfThing
<1>2. \A c \in set : Meant(c) /\ RankOfThing(c) \in [1..2 -> Int]
  BY RankOfThingIs DEF AllMeant
<1>3. ASSUME NEW c \in BestOfEach(set), NEW d \in BestOfEach(set), Thing(c) = Thing(d), c # d
      PROVE  FALSE
  <2>1. c \in set /\ d \in set /\ Precedes(RankOfThing(c), RankOfThing(d))
    BY <1>1, <1>3
  <2>2. Precedes(RankOfThing(d), RankOfThing(c))
    BY <1>1, <1>3
  <2>3. Precedes(RankOfThing(c), RankOfThing(c))
    BY <1>2, <2>1, <2>2, FirstOfThree
  <2> QED BY <1>2, <2>1, <2>3, NoneBeforeItself
<1>4. ASSUME NEW c \in set PROVE \E b \in BestOfEach(set) : Thing(b) = Thing(c) /\ b.score >= c.score
  <2> DEFINE same == {d \in set : Thing(d) = Thing(c)}
             key == [d \in same |-> RankOfThing(d)]
             list == SortedBy(key)
  <2>1. IsFiniteSet(same)
    BY FS_Subset
  <2>2. ASSUME NEW d \in same, NEW e \in same, RankOfThing(d) = RankOfThing(e) PROVE d = e
    <3>1. Meant(d) /\ Meant(e) /\ d.kind = e.kind
      BY DEF AllMeant
    <3>2. -d.score = -e.score /\ Place(d) = Place(e)
      BY <2>2, <3>1, RankOfThingIs
    <3>3. d.score = e.score /\ d.row = e.row
      BY <3>1, <3>2, Fields DEF Place
    <3> QED BY <3>1, <3>3, SameCandidate
  <2>3. DOMAIN key = same /\ (\A d \in same : key[d] = RankOfThing(d)) /\ c \in same
    OBVIOUS
  <2>4. Sortable(key)
    <3>1. \A d \in same : RankOfThing(d) \in [1..2 -> Int]
      BY <1>2
    <3> HIDE DEF same, key
    <3>2. \E n \in Nat : \A d \in DOMAIN key : key[d] \in [1..n -> Int]
      <4>1. \A d \in DOMAIN key : key[d] \in [1..2 -> Int]
        BY <2>3, <3>1
      <4> QED BY <4>1
    <3>3. \A d, e \in DOMAIN key : key[d] = key[e] => d = e
      BY <2>2, <2>3
    <3>4. IsFiniteSet(DOMAIN key)
      BY <2>1, <2>3
    <3> QED BY <3>2, <3>3, <3>4 DEF Sortable
  <2> DEFINE N == Cardinality(DOMAIN key)
  <2>5. /\ N \in Nat /\ \A i \in 1..N : list[i] \in DOMAIN key
        /\ \A x \in DOMAIN key : \E i \in 1..N : list[i] = x
        /\ \A i, j \in 1..N : i < j => Precedes(key[list[i]], key[list[j]])
    BY <2>4, Sorted
  <2> HIDE DEF list, N, key
  <2>6. 1 \in 1..N /\ list[1] \in same
    BY <2>3, <2>5
  <2>7. ASSUME NEW d \in same, d # list[1] PROVE Precedes(RankOfThing(list[1]), RankOfThing(d))
    <3>1. PICK i \in 1..N : list[i] = d
      BY <2>3, <2>5
    <3>2. 1 < i
      BY <2>5, <2>7, <3>1
    <3> QED BY <2>3, <2>5, <2>6, <3>1, <3>2
  <2>8. list[1] \in BestOfEach(set) /\ Thing(list[1]) = Thing(c)
    <3>1. \A d \in set \ {list[1]} : Thing(list[1]) = Thing(d) => Precedes(RankOfThing(list[1]), RankOfThing(d))
      BY <2>6, <2>7
    <3> QED BY <1>1, <2>6, <3>1
  <2>9. list[1].score >= c.score
    <3> DEFINE b == list[1]
    <3> HIDE DEF b
    <3>1. b \in set /\ Meant(b) /\ Meant(c) /\ b.score \in Nat /\ c.score \in Nat
      BY <2>6, Fields DEF AllMeant, b
    <3>2. CASE b = c
      BY <3>1, <3>2 DEF b
    <3>3. CASE b # c
      <4>1. PICK i \in DOMAIN RankOfThing(b) :
              /\ RankOfThing(b)[i] < RankOfThing(c)[i]
              /\ \A j \in 1 .. i - 1 : RankOfThing(b)[j] = RankOfThing(c)[j]
        BY <2>3, <2>7, <3>3 DEF Precedes, b
      <4>2. i = 1 \/ (i = 2 /\ 1 \in 1 .. i - 1)
        BY <3>1, <4>1, RankOfThingIs
      <4>3. -b.score <= -c.score
        BY <3>1, <4>1, <4>2, RankOfThingIs
      <4> QED BY <3>1, <4>3 DEF b
    <3> QED BY <3>2, <3>3
  <2> QED BY <2>8, <2>9
<1> QED BY <1>1, <1>3, <1>4
(* What is a part of a part is a part. *)
LEMMA PrefixOfPrefix ==
  ASSUME NEW p \in Seq(STRING), NEW q \in Seq(STRING), NEW r \in Seq(STRING),
         Len(q) < Len(p), SubSeq(p, 1, Len(q)) = q, Len(r) < Len(q), SubSeq(q, 1, Len(r)) = r
  PROVE  Len(r) < Len(p) /\ SubSeq(p, 1, Len(r)) = r
<1>1. Len(p) \in Nat /\ Len(q) \in Nat /\ Len(r) \in Nat
  BY LenProperties
<1>2. \A i \in 1..Len(q) : p[i] = q[i]
  <2>1. \A i \in 1..Len(q) : SubSeq(p, 1, Len(q))[i] = p[i]
    BY <1>1
  <2> QED BY <2>1
<1>3. \A i \in 1..Len(r) : q[i] = r[i]
  <2>1. \A i \in 1..Len(r) : SubSeq(q, 1, Len(r))[i] = q[i]
    BY <1>1
  <2> QED BY <2>1
<1> DEFINE s == SubSeq(p, 1, Len(r))
<1>4. s \in Seq(STRING) /\ Len(s) = Len(r) /\ \A i \in 1..Len(r) : s[i] = p[i]
  BY <1>1
<1>5. \A i \in 1..Len(s) : s[i] = r[i]
  BY <1>1, <1>2, <1>3, <1>4
<1> HIDE DEF s
<1>6. s = r
  BY <1>4, <1>5, SeqEqual
<1> QED BY <1>1, <1>6 DEF s

LEMMA PartOfPart ==
  ASSUME NEW c, NEW d, NEW e, Meant(c), Meant(d), Meant(e), Extends(c, d), Extends(d, e)
  PROVE  Extends(c, e)
<1>1. /\ c.path \in Seq(STRING) /\ d.path \in Seq(STRING) /\ e.path \in Seq(STRING)
  BY Fields
<1>2. /\ Len(d.path) < Len(c.path) /\ SubSeq(c.path, 1, Len(d.path)) = d.path
      /\ Len(e.path) < Len(d.path) /\ SubSeq(d.path, 1, Len(e.path)) = e.path
      /\ c.opco = e.opco
  BY DEF Extends
<1>3. Len(e.path) < Len(c.path) /\ SubSeq(c.path, 1, Len(e.path)) = e.path
  BY <1>1, <1>2, PrefixOfPrefix
<1>4. Family(c.class) = "category" /\ Family(d.class) = "category" /\ Family(e.class) = "category"
  <2>1. {Family(c.class), Family(d.class)} = {"category"} /\ {Family(d.class), Family(e.class)} = {"category"}
    BY DEF Extends
  <2> QED BY <2>1
<1> QED BY <1>2, <1>3, <1>4 DEF Extends

LEMMA NotAPartOfItself ==
  ASSUME NEW c, Meant(c)
  PROVE  ~Extends(c, c)
<1>1. Len(c.path) \in Nat
  BY Fields, LenProperties
<1> QED BY <1>1 DEF Extends

(* Of what a part is a part of, in a list, something is left. *)
LEMMA Pruned ==
  ASSUME NEW S, NEW list \in Seq(S), Ordered(list), \A c \in S : Meant(c)
  PROVE  LET left == WithoutDescendants(list)
         IN  /\ left \in Seq(S) /\ Ordered(left) /\ ToSet(left) \subseteq ToSet(list)
             /\ \A c \in ToSet(left), d \in ToSet(list) : ~Extends(c, d)
             /\ \A c \in ToSet(list) : c \in ToSet(left) \/ \E d \in ToSet(left) : Extends(c, d)
<1> DEFINE places == {i \in DOMAIN list : \A d \in ToSet(list) : ~Extends(list[i], d)}
           left == WithoutDescendants(list)
<1>1. DOMAIN list = 1..Len(list) /\ Len(list) \in Nat /\ \A i \in DOMAIN list : list[i] \in S
  BY LenProperties, ElementOfSeq
<1>2. places \in SUBSET (1..Len(list)) /\ left = Part(list, places)
  BY <1>1 DEF WithoutDescendants
<1>3. ToSet(list) = {list[i] : i \in DOMAIN list}
  BY DEF ToSet
<1>4. ToSet(left) = {list[i] : i \in places}
  BY <1>2, PartSet
<1>5. left \in Seq(S) /\ Ordered(left)
  BY <1>2, PartIs, PartIsOrdered
<1> HIDE DEF left
<1>6. ToSet(left) = {c \in ToSet(list) : \A d \in ToSet(list) : ~Extends(c, d)}
  BY <1>3, <1>4
<1>7. \A c \in ToSet(list) : Meant(c) /\ Len(c.path) \in Nat
  <2>1. \A c \in ToSet(list) : Meant(c)
    BY <1>1, <1>3
  <2> QED BY <2>1, Fields, LenProperties
<1>8. ASSUME NEW c \in ToSet(list), c \notin ToSet(left)
      PROVE  \E d \in ToSet(left) : Extends(c, d)
  <2> DEFINE Wholes == {d \in ToSet(list) : Extends(c, d)}
             T == {Len(d.path) : d \in Wholes}
  <2>1. T \in SUBSET Nat /\ T # {}
    BY <1>6, <1>7, <1>8
  <2>2. PICK m \in T : \A k \in T : m <= k
    BY <2>1, LeastNumber
  <2>3. PICK d \in Wholes : m = Len(d.path)
    OBVIOUS
  <2>4. ASSUME NEW e \in ToSet(list), Extends(d, e) PROVE FALSE
    <3>1. Extends(c, e)
      BY <1>7, <2>4, PartOfPart
    <3>2. Len(e.path) < Len(d.path) /\ Len(e.path) \in T
      BY <2>4, <3>1 DEF Extends
    <3> QED BY <1>7, <2>2, <2>3, <3>2
  <2>5. d \in ToSet(left)
    BY <1>6, <2>4
  <2> QED BY <2>5
<1>9. /\ ToSet(left) \subseteq ToSet(list)
      /\ \A c \in ToSet(left), d \in ToSet(list) : ~Extends(c, d)
      /\ \A c \in ToSet(list) : c \in ToSet(left) \/ \E d \in ToSet(left) : Extends(c, d)
  BY <1>6, <1>8
<1> QED BY <1>5, <1>9 DEF left

(* The first of an ordered list has the best score. *)
LEMMA FirstIsBest ==
  ASSUME NEW S, NEW list \in Seq(S), Ordered(list), list # <<>>, \A c \in S : Meant(c)
  PROVE  list[1] \in ToSet(list) /\ \A c \in ToSet(list) : list[1].score >= c.score
<1>1. DOMAIN list = 1..Len(list) /\ Len(list) \in Nat \ {0} /\ \A i \in DOMAIN list : list[i] \in S
  BY LenProperties, ElementOfSeq, EmptySeq
<1>2. ToSet(list) = {list[i] : i \in DOMAIN list} /\ 1 \in DOMAIN list
  BY <1>1 DEF ToSet
<1>3. ASSUME NEW i \in DOMAIN list PROVE list[1].score >= list[i].score
  <2>1. Meant(list[1]) /\ Meant(list[i]) /\ list[i].score \in Nat
    BY <1>1, <1>2, Fields
  <2>2. CASE i = 1
    BY <2>1, <2>2
  <2>3. CASE i # 1
    <3>1. Precedes(SortKey(list[1]), SortKey(list[i]))
      BY <1>1, <1>2, <2>3 DEF Ordered
    <3> QED BY <2>1, <3>1, OrderOfCandidates
  <2> QED BY <2>2, <2>3
<1> QED BY <1>2, <1>3

LEMMA NearIs ==
  ASSUME NEW S, NEW list \in Seq(S), Ordered(list), list # <<>>, \A c \in S : Meant(c)
  PROVE  /\ Near(list) \in Seq(S) /\ Ordered(Near(list))
         /\ ToSet(Near(list)) = {c \in ToSet(list) : c.score >= list[1].score - OptionWindow}
<1> DEFINE places == {i \in DOMAIN list : list[i].score >= list[1].score - OptionWindow}
<1>1. places \in SUBSET (1..Len(list)) /\ Near(list) = Part(list, places)
  BY LenProperties DEF Near
<1>2. ToSet(list) = {list[i] : i \in DOMAIN list}
  BY DEF ToSet
<1>3. {list[i] : i \in places} = {c \in ToSet(list) : c.score >= list[1].score - OptionWindow}
  BY <1>2
<1> HIDE DEF places
<1>4. ToSet(Near(list)) = {list[i] : i \in places}
  BY <1>1, PartSet
<1> QED BY <1>1, <1>3, <1>4, PartIs, PartIsOrdered

(* A thing of two candidates is a part of the same. *)
LEMMA OneThing ==
  ASSUME NEW c, NEW d, NEW e, Meant(c), Meant(d), Thing(c) = Thing(d), Extends(c, e)
  PROVE  Extends(d, e)
<1>1. c.class = d.class /\ c.value = d.value
  BY DEF Thing
<1>2. c.class \in Levels
  <2>1. Family(c.class) = "category"
    BY DEF Extends
  <2>2. c.class \in Classes
    BY Fields
  <2> QED BY <2>1, <2>2 DEF Family, Classes, Levels
<1>3. c.opco = d.opco /\ c.path = d.path
  <2>1. c.row \in DOMAIN Rows /\ d.row \in DOMAIN Rows
    BY DEF Meant
  <2>2. /\ Rows[c.row].class \in Levels /\ Rows[c.row].class = Rows[d.row].class
        /\ Rows[c.row].value = Rows[d.row].value
    BY <1>1, <1>2, Fields
  <2>3. Rows[c.row].opco = Rows[d.row].opco /\ Rows[c.row].path = Rows[d.row].path
    BY <2>1, <2>2, LabelsAssumption
  <2> QED BY <2>3, Fields
<1> QED BY <1>1, <1>3 DEF Extends

AlternativesOf(window, family) ==
  LET kin == {c \in Scored(window) : Family(c.class) = family}
  IN  {c \in kin : \A d \in kin : c.score >= d.score - OptionWindow}

(* A list of alternatives that leaves out only parts of those it has. *)
StandsFor(full, window, family) ==
  /\ full \in Seq(Scored(window)) /\ Ordered(full)
  /\ ToSet(full) \subseteq AlternativesOf(window, family)
  /\ \A c, d \in ToSet(full) : c # d => Thing(c) # Thing(d)
  /\ \A c, d \in ToSet(full) : ~Extends(c, d)
  /\ \A c \in AlternativesOf(window, family) : \E d \in ToSet(full) :
       (Thing(c) = Thing(d) /\ d.score >= c.score) \/ Extends(c, d)

LEMMA OptionsAre ==
  ASSUME NEW window \in Seq(AllWords), window # <<>>, Options(window) # <<>>
  PROVE  \E full, family :
           /\ StandsFor(full, window, family) /\ full # <<>>
           /\ Options(window) = AtMost(MaxOptions, full)
<1> DEFINE set == BestOfEach(Scored(window))
           all == Ranked(set)
           ranked == OneFamily(all)
           near == Near(ranked)
           full == WithoutDescendants(near)
           family == Family(all[1].class)
<1>1. /\ AllMeant(Scored(window), "fuzzy") /\ IsFiniteSet(Scored(window))
      /\ set \subseteq Scored(window)
      /\ \A c, d \in set : Thing(c) = Thing(d) => c = d
      /\ \A c \in Scored(window) : \E b \in set : Thing(b) = Thing(c) /\ b.score >= c.score
  BY ScoredAre, BestOfEachIs
<1>2. /\ ranked # <<>>
      /\ Options(window) = AtMost(MaxOptions, full)
  BY DEF Options
<1> HIDE DEF set
<1>3. IsFiniteSet(set) /\ AllMeant(set, "fuzzy") /\ \A c \in set : Meant(c)
  BY <1>1, FS_Subset DEF AllMeant
<1>4. all \in Seq(set) /\ ToSet(all) = set /\ Ordered(all)
  BY <1>3, RankedIs
<1> HIDE DEF all
<1>5. all # <<>>
  <2> SUFFICES ASSUME all = <<>> PROVE FALSE
    OBVIOUS
  <2> DEFINE places == {i \in DOMAIN all : Family(all[i].class) = Family(all[1].class)}
  <2>1. ranked = Part(all, places)
    BY DEF OneFamily
  <2>2. places = {}
    OBVIOUS
  <2> HIDE DEF places
  <2>3. places \in SUBSET (1..Len(all)) /\ Cardinality(places) = 0
    BY <2>2, FS_EmptySet
  <2>4. ranked \in Seq(set) /\ Len(ranked) = 0
    BY <1>4, <2>1, <2>3, PartIs
  <2> HIDE DEF ranked
  <2> QED BY <1>2, <2>4, EmptySeq
<1>6. /\ ranked \in Seq(set) /\ Ordered(ranked) /\ ranked[1] = all[1]
      /\ ToSet(ranked) = {c \in set : Family(c.class) = family}
  BY <1>4, <1>5, OneFamilyIs
<1> HIDE DEF ranked
<1>7. ranked[1] \in ToSet(ranked) /\ \A c \in ToSet(ranked) : ranked[1].score >= c.score
  BY <1>2, <1>3, <1>6, FirstIsBest
<1>8. /\ near \in Seq(set) /\ Ordered(near)
      /\ ToSet(near) = {c \in ToSet(ranked) : c.score >= ranked[1].score - OptionWindow}
  BY <1>2, <1>3, <1>6, NearIs
<1> HIDE DEF near
<1>9. /\ full \in Seq(set) /\ Ordered(full) /\ ToSet(full) \subseteq ToSet(near)
      /\ \A c \in ToSet(full), d \in ToSet(near) : ~Extends(c, d)
      /\ \A c \in ToSet(near) : c \in ToSet(full) \/ \E d \in ToSet(full) : Extends(c, d)
  BY <1>3, <1>8, Pruned
<1> HIDE DEF full
<1> DEFINE kin == {c \in Scored(window) : Family(c.class) = family}
<1>10. \A c \in Scored(window) : Meant(c) /\ c.score \in Nat
  BY <1>1, Fields DEF AllMeant
<1>11. ASSUME NEW c \in kin
       PROVE  \E b \in ToSet(ranked) : Thing(b) = Thing(c) /\ b.score >= c.score
  <2>1. PICK b \in set : Thing(b) = Thing(c) /\ b.score >= c.score
    BY <1>1
  <2>2. b.class = c.class
    BY <2>1 DEF Thing
  <2> QED BY <1>6, <2>1, <2>2
<1>12. \A c \in kin : ranked[1].score >= c.score
  <2> SUFFICES ASSUME NEW c \in kin PROVE ranked[1].score >= c.score
    OBVIOUS
  <2>1. PICK b \in ToSet(ranked) : b.score >= c.score
    BY <1>11
  <2>2. ranked[1].score >= b.score /\ ranked[1] \in Scored(window) /\ b \in Scored(window) /\ c \in Scored(window)
    BY <1>1, <1>6, <1>7
  <2> QED BY <1>10, <2>1, <2>2
<1>13. ranked[1] \in kin /\ ToSet(ranked) \subseteq kin
  BY <1>1, <1>6, <1>7
<1>14. AlternativesOf(window, family) = {c \in kin : c.score >= ranked[1].score - OptionWindow}
  <2>1. AlternativesOf(window, family) = {c \in kin : \A d \in kin : c.score >= d.score - OptionWindow}
    BY DEF AlternativesOf
  <2>2. \A c \in kin : c.score \in Nat
    BY <1>10
  <2>3. OptionWindow \in Nat
    BY SettingsAssumption
  <2> HIDE DEF kin
  <2>4. ASSUME NEW c \in kin
        PROVE  (\A d \in kin : c.score >= d.score - OptionWindow) <=> c.score >= ranked[1].score - OptionWindow
    BY <1>12, <1>13, <2>2, <2>3
  <2> QED BY <2>1, <2>4
<1>15. ASSUME NEW c \in AlternativesOf(window, family)
       PROVE  \E d \in ToSet(full) : (Thing(c) = Thing(d) /\ d.score >= c.score) \/ Extends(c, d)
  <2>1. c \in kin /\ c.score >= ranked[1].score - OptionWindow
    BY <1>14
  <2>2. PICK b \in ToSet(ranked) : Thing(b) = Thing(c) /\ b.score >= c.score
    BY <1>11, <2>1
  <2>3. Meant(b) /\ Meant(c) /\ b.score \in Nat /\ c.score \in Nat /\ ranked[1].score \in Nat /\ OptionWindow \in Nat
    BY <1>10, <1>13, <2>1, SettingsAssumption
  <2>4. b \in ToSet(near)
    BY <1>8, <2>1, <2>2, <2>3
  <2>5. CASE b \in ToSet(full)
    BY <2>2, <2>5
  <2>6. CASE b \notin ToSet(full)
    <3>1. PICK d \in ToSet(full) : Extends(b, d)
      BY <1>9, <2>4, <2>6
    <3>2. Extends(c, d)
      BY <2>2, <2>3, <3>1, OneThing
    <3> QED BY <3>2
  <2> QED BY <2>5, <2>6
<1>16. ToSet(full) \subseteq AlternativesOf(window, family)
  BY <1>8, <1>9, <1>13, <1>14
<1>17. \A c, d \in ToSet(full) : c # d => Thing(c) # Thing(d)
  BY <1>1, <1>6, <1>8, <1>9
<1>18. full \in Seq(Scored(window))
  <2>1. Len(full) \in Nat /\ \A i \in 1..Len(full) : full[i] \in Scored(window)
    BY <1>1, <1>9, LenProperties, ElementOfSeq
  <2>2. full = [i \in 1..Len(full) |-> full[i]]
    BY <1>9, LenProperties
  <2>3. full \in [1..Len(full) -> Scored(window)]
    BY <2>1, <2>2
  <2> QED BY <2>1, <2>3
<1>19. StandsFor(full, window, family)
  BY <1>9, <1>15, <1>16, <1>17, <1>18 DEF StandsFor
<1>20. full # <<>>
  <2> SUFFICES ASSUME full = <<>> PROVE FALSE
    OBVIOUS
  <2>1. MaxOptions \in Nat
    BY SettingsAssumption
  <2>2. AtMost(MaxOptions, full) = full
    <3>1. Len(full) = 0
      OBVIOUS
    <3> QED BY <1>9, <2>1, <3>1, AtMostIs
  <2> QED BY <1>2, <2>2
<1> QED BY <1>2, <1>19, <1>20

-----------------------------------------------------------------------------
(* What is settled of a span *)

ColumnsIn(list, c) == {d.column : d \in {e \in ToSet(list) : Thing(e) = Thing(c)}}
Chosen(list, c) ==
  \A other \in ColumnsIn(list, c) \ {c.column} : Precedes(ColumnRank(c.column), ColumnRank(other))
ChosenPlaces(list) == {i \in DOMAIN list : list[i].class = "enum" => Chosen(list, list[i])}
WithOthers(list, c) ==
  IF c.class = "enum" THEN [c EXCEPT !.others = ColumnsIn(list, c) \ {c.column}] ELSE c

LEMMA CollapseIs ==
  ASSUME NEW list
  PROVE  LET kept == Part(list, ChosenPlaces(list))
         IN  CollapseColumns(list) = [i \in DOMAIN kept |-> WithOthers(list, kept[i])]
BY DEF CollapseColumns, ChosenPlaces, Chosen, ColumnsIn, WithOthers

Settling(list) == DedupedCandidates(WithoutDescendants(CollapseColumns(list)))

LEMMA NoOthersToKeep ==
  ASSUME NEW c, Meant(c)
  PROVE  [c EXCEPT !.others = {}] = c
<1>1. c = [class |-> Rows[c.row].class, value |-> Rows[c.row].value, column |-> Rows[c.row].column,
           opco |-> Rows[c.row].opco, path |-> Rows[c.row].path, label |-> Rows[c.row].label,
           row |-> c.row, score |-> c.score, kind |-> c.kind, others |-> {}]
  BY CandidateIs, Zenon DEF Meant
<1>2. ASSUME NEW r, NEW r1, NEW r2, NEW r3, NEW r4, NEW r5, NEW r6, NEW r7, NEW r8, NEW r9,
             r = [class |-> r1, value |-> r2, column |-> r3, opco |-> r4, path |-> r5, label |-> r6,
                  row |-> r7, score |-> r8, kind |-> r9, others |-> {}]
      PROVE  [r EXCEPT !.others = {}] = r
  BY <1>2
<1> QED BY <1>1, <1>2, Zenon

(* What the dimension of a candidate is read from can be set. *)
HasColumn(c) ==
  \A column : /\ [c EXCEPT !.column = column].column = column
              /\ [c EXCEPT !.column = column].class = c.class

LEMMA MeantHasColumn ==
  ASSUME NEW c, Meant(c)
  PROVE  HasColumn(c)
<1>1. c = [class |-> Rows[c.row].class, value |-> Rows[c.row].value, column |-> Rows[c.row].column,
           opco |-> Rows[c.row].opco, path |-> Rows[c.row].path, label |-> Rows[c.row].label,
           row |-> c.row, score |-> c.score, kind |-> c.kind, others |-> {}]
  BY CandidateIs, Zenon DEF Meant
<1>2. ASSUME NEW r, NEW r1, NEW r2, NEW r3, NEW r4, NEW r5, NEW r6, NEW r7, NEW r8, NEW r9,
             r = [class |-> r1, value |-> r2, column |-> r3, opco |-> r4, path |-> r5, label |-> r6,
                  row |-> r7, score |-> r8, kind |-> r9, others |-> {}]
      PROVE  HasColumn(r)
  BY <1>2 DEF HasColumn
<1> QED BY <1>1, <1>2, Zenon

(* The columns of what is not an enum value are left alone, and so are     *)
(* those of values that differ.                                            *)
LEMMA NothingToCollapse ==
  ASSUME NEW S, NEW list \in Seq(S), \A c \in S : Meant(c),
         \A i, j \in DOMAIN list : i # j => Thing(list[i]) # Thing(list[j]) \/ list[i].class # "enum"
  PROVE  CollapseColumns(list) = list
<1> DEFINE kept == Part(list, ChosenPlaces(list))
<1>1. DOMAIN list = 1..Len(list) /\ \A i \in DOMAIN list : list[i] \in S
  BY LenProperties, ElementOfSeq
<1>2. ASSUME NEW i \in DOMAIN list, list[i].class = "enum"
      PROVE  ColumnsIn(list, list[i]) \subseteq {list[i].column}
  <2> SUFFICES ASSUME NEW e \in ToSet(list), Thing(e) = Thing(list[i]) PROVE e.column = list[i].column
    BY DEF ColumnsIn
  <2>1. PICK j \in DOMAIN list : e = list[j]
    BY DEF ToSet
  <2>2. i = j
    BY <1>2, <2>1
  <2> QED BY <2>1, <2>2
<1>3. ChosenPlaces(list) \in SUBSET (1..Len(list)) /\ \A i \in DOMAIN list : i \in ChosenPlaces(list)
  BY <1>1, <1>2 DEF ChosenPlaces, Chosen
<1>4. kept = list
  BY <1>3, WholePart
<1>5. ASSUME NEW i \in DOMAIN list PROVE WithOthers(list, list[i]) = list[i]
  <2>1. CASE list[i].class = "enum"
    <3>1. ColumnsIn(list, list[i]) \ {list[i].column} = {}
      BY <1>2, <2>1
    <3>2. [list[i] EXCEPT !.others = {}] = list[i]
      BY <1>1, NoOthersToKeep
    <3> QED BY <2>1, <3>1, <3>2, Zenon DEF WithOthers
  <2>2. CASE list[i].class # "enum"
    BY <2>2 DEF WithOthers
  <2> QED BY <2>1, <2>2
<1>6. CollapseColumns(list) = [i \in DOMAIN list |-> WithOthers(list, list[i])]
  BY <1>4, CollapseIs, Zenon
<1>7. CollapseColumns(list) = [i \in DOMAIN list |-> list[i]]
  BY <1>5, <1>6
<1>8. list = [i \in DOMAIN list |-> list[i]]
  BY <1>1, LenProperties
<1> QED BY <1>7, <1>8

LEMMA NothingToPrune ==
  ASSUME NEW S, NEW list \in Seq(S), \A i, j \in DOMAIN list : ~Extends(list[i], list[j])
  PROVE  WithoutDescendants(list) = list
<1> DEFINE places == {i \in DOMAIN list : \A d \in ToSet(list) : ~Extends(list[i], d)}
<1>1. \A i \in DOMAIN list : i \in places
  BY DEF ToSet
<1>2. places \in SUBSET (1..Len(list))
  BY LenProperties
<1>3. WithoutDescendants(list) = Part(list, places)
  BY DEF WithoutDescendants
<1> HIDE DEF places
<1> QED BY <1>1, <1>2, <1>3, WholePart

LEMMA NothingToDedupe ==
  ASSUME NEW S, NEW list \in Seq(S), \A i, j \in DOMAIN list : i # j => Thing(list[i]) # Thing(list[j])
  PROVE  DedupedCandidates(list) = list
<1> DEFINE places == {i \in DOMAIN list : \A j \in 1 .. i - 1 : Thing(list[j]) # Thing(list[i])}
<1>1. DOMAIN list = 1..Len(list) /\ Len(list) \in Nat
  BY LenProperties
<1>2. \A i \in DOMAIN list : i \in places
  BY <1>1
<1>3. places \in SUBSET (1..Len(list)) /\ DedupedCandidates(list) = Part(list, places)
  BY <1>1 DEF DedupedCandidates
<1> HIDE DEF places
<1> QED BY <1>2, <1>3, WholePart

LEMMA DedupeKeepsTheFirst ==
  ASSUME NEW S, NEW list \in Seq(S), list # <<>>
  PROVE  LET left == DedupedCandidates(list)
         IN  left \in Seq(S) /\ left # <<>> /\ left[1] = list[1] /\ ToSet(left) \subseteq ToSet(list)
<1> DEFINE places == {i \in DOMAIN list : \A j \in 1 .. i - 1 : Thing(list[j]) # Thing(list[i])}
<1>1. DOMAIN list = 1..Len(list) /\ Len(list) \in Nat \ {0}
  BY LenProperties, EmptySeq
<1>2. places \in SUBSET (1..Len(list)) /\ DedupedCandidates(list) = Part(list, places)
  BY <1>1 DEF DedupedCandidates
<1>3. 1 \in places /\ \A p \in places : 1 <= p
  BY <1>1
<1> HIDE DEF places
<1>4. ToSet(Part(list, places)) = {list[p] : p \in places}
  BY <1>2, PartSet
<1>5. \A p \in places : list[p] \in ToSet(list)
  BY <1>1, <1>2 DEF ToSet
<1> QED BY <1>2, <1>3, <1>4, <1>5, PartIs, PartFirst

LEMMA GuessSettles ==
  ASSUME NEW S, NEW list \in Seq(S), \A c \in S : Meant(c), Ordered(list),
         \A c, d \in ToSet(list) : c # d => Thing(c) # Thing(d),
         \A c, d \in ToSet(list) : ~Extends(c, d)
  PROVE  Settling(list) = list
<1>1. DOMAIN list = 1..Len(list) /\ Len(list) \in Nat /\ \A i \in DOMAIN list : list[i] \in ToSet(list)
  BY LenProperties DEF ToSet
<1>2. ASSUME NEW i \in DOMAIN list, NEW j \in DOMAIN list, i # j PROVE Thing(list[i]) # Thing(list[j])
  <2>1. i < j \/ j < i
    BY <1>1, <1>2
  <2>2. list[i] # list[j]
    BY <2>1 DEF Ordered
  <2> QED BY <1>1, <2>2
<1>3. CollapseColumns(list) = list
  BY <1>2, NothingToCollapse
<1>4. WithoutDescendants(list) = list
  BY <1>1, NothingToPrune
<1>5. DedupedCandidates(list) = list
  BY <1>2, NothingToDedupe
<1> QED BY <1>3, <1>4, <1>5 DEF Settling

(* What is settled of the candidates of a name. *)
SettledName(final, list) ==
  /\ final # <<>> /\ \E T : final \in Seq(T)
  /\ \A c \in ToSet(final) : c.kind = "exact" /\ c.score = 1000
  /\ Thing(final[1]) = Thing(list[1]) /\ HasColumn(final[1])
  /\ list[1].class # "enum" => final[1] = list[1]
  /\ list[1].class = "enum" => {final[1].column} \union final[1].others = ColumnsIn(list, list[1])

AreNames(list, S) ==
  /\ list \in Seq(S) /\ list # <<>> /\ Ordered(list)
  /\ \A c \in S : Meant(c) /\ c.kind = "exact" /\ c.score = 1000
  /\ \A c \in ToSet(list) : Family(c.class) = Family(list[1].class)

(* The broadest category of a name comes first and stays. *)
LEMMA OtherNamesSettle ==
  ASSUME NEW S, NEW list, AreNames(list, S), list[1].class # "enum"
  PROVE  SettledName(Settling(list), list)
<1>1. /\ list \in Seq(S) /\ list # <<>> /\ Ordered(list)
      /\ \A c \in S : Meant(c) /\ c.kind = "exact" /\ c.score = 1000
      /\ \A c \in ToSet(list) : Family(c.class) = Family(list[1].class)
  BY DEF AreNames
<1>2. /\ DOMAIN list = 1..Len(list) /\ Len(list) \in Nat \ {0}
      /\ \A i \in DOMAIN list : list[i] \in S /\ list[i] \in ToSet(list)
  BY <1>1, LenProperties, EmptySeq, ElementOfSeq DEF ToSet
<1>3. \A i \in DOMAIN list : list[i].class # "enum"
  <2>1. list[1].class \in Classes
    BY <1>1, <1>2, Fields
  <2>2. Family(list[1].class) # "enum"
    BY <2>1 DEF Family, Classes, Levels
  <2>3. Family("enum") = "enum"
    BY DEF Family, Levels
  <2> QED BY <1>1, <1>2, <2>2, <2>3
<1>4. CollapseColumns(list) = list
  BY <1>1, <1>3, NothingToCollapse
<1>5. ASSUME NEW i \in DOMAIN list, Extends(list[1], list[i]) PROVE FALSE
  <2> DEFINE a == list[1]
             b == list[i]
  <2>1. Meant(a) /\ Meant(b) /\ a.score = 1000 /\ b.score = 1000 /\ Extends(a, b)
    BY <1>1, <1>2, <1>5
  <2>2. a = b \/ Precedes(SortKey(a), SortKey(b))
    BY <1>1, <1>2 DEF Ordered
  <2> HIDE DEF a, b
  <2>3. Level(a) <= Level(b)
    <3>1. Level(a) \in Int
      BY <2>1, KeysAre
    <3> QED BY <2>1, <2>2, <3>1, OrderOfCandidates
  <2>4. a.class \in Levels /\ b.class \in Levels
    <3>1. Family(a.class) = "category" /\ Family(b.class) = "category"
      <4>1. {Family(a.class), Family(b.class)} = {"category"}
        BY <2>1 DEF Extends
      <4> QED BY <4>1
    <3>2. a.class \in Classes /\ b.class \in Classes
      BY <2>1, Fields
    <3> QED BY <3>1, <3>2 DEF Family, Classes
  <2>5. Len(a.path) = Level(a) /\ Len(b.path) = Level(b)
    <3>1. \A c : Meant(c) => /\ c.row \in DOMAIN Rows
                             /\ c.class = Rows[c.row].class /\ c.path = Rows[c.row].path
      BY Fields, Zenon DEF Meant
    <3>2. \A c : Meant(c) => Level(c) = Level(Rows[c.row])
      BY <3>1 DEF Level
    <3>3. \A c : Meant(c) /\ c.class \in Levels => Len(c.path) = Level(c)
      BY <3>1, <3>2, LabelsAssumption
    <3> QED BY <2>1, <2>4, <3>3
  <2>6. Len(b.path) < Len(a.path)
    BY <2>1 DEF Extends
  <2>7. Level(a) \in Int /\ Level(b) \in Int
    BY <2>1, KeysAre
  <2> QED BY <2>3, <2>5, <2>6, <2>7
<1> DEFINE places == {i \in DOMAIN list : \A d \in ToSet(list) : ~Extends(list[i], d)}
           left == WithoutDescendants(list)
<1>6. places \in SUBSET (1..Len(list)) /\ left = Part(list, places)
  BY <1>2 DEF WithoutDescendants
<1>7. 1 \in places /\ \A p \in places : 1 <= p
  <2>1. \A d \in ToSet(list) : ~Extends(list[1], d)
    BY <1>5 DEF ToSet
  <2> QED BY <1>2, <2>1
<1> HIDE DEF places
<1>8. left \in Seq(S) /\ left # <<>> /\ left[1] = list[1]
  BY <1>1, <1>6, <1>7, PartIs, PartFirst
<1> HIDE DEF left
<1> DEFINE final == DedupedCandidates(left)
<1>9. final \in Seq(S) /\ final # <<>> /\ final[1] = list[1]
  BY <1>8, DedupeKeepsTheFirst
<1>10. Settling(list) = final
  BY <1>4 DEF Settling, left
<1> HIDE DEF final
<1>11. \A c \in ToSet(final) : c \in S
  BY <1>9, LenProperties, ElementOfSeq DEF ToSet
<1>12. \A c \in ToSet(final) : c.kind = "exact" /\ c.score = 1000
  BY <1>1, <1>11
<1>13. \E T : final \in Seq(T)
  BY <1>9
<1>14. HasColumn(final[1])
  BY <1>1, <1>2, <1>9, MeantHasColumn
<1>15. SettledName(final, list)
  BY <1>9, <1>12, <1>13, <1>14 DEF SettledName
<1> QED BY <1>10, <1>15

RowColumns == {Rows[i].column : i \in DOMAIN Rows}

LEMMA ColumnRankIs ==
  ASSUME NEW column \in RowColumns
  PROVE  ColumnRank(column) \in [1..3 -> Int] /\ ColumnRank(column)[3] = ColumnPlace(column)
<1> DEFINE used == Cardinality(ColumnWords(column) \cap (ToSet(question) \ Filler))
           all == Cardinality(ColumnWords(column))
<1>1. IsFiniteSet(ColumnWords(column)) /\ ColumnPlace(column) \in Int
  BY WordsAssumption DEF RowColumns
<1>2. IsFiniteSet(ColumnWords(column) \cap (ToSet(question) \ Filler))
  BY <1>1, FS_Subset
<1>3. used \in Nat /\ all \in Nat
  BY <1>1, <1>2, FS_CardinalityType
<1>4. ColumnRank(column) = <<-used, all, ColumnPlace(column)>>
  BY DEF ColumnRank
<1> HIDE DEF used, all
<1>5. <<-used, all, ColumnPlace(column)>> \in Seq(Int) /\ Len(<<-used, all, ColumnPlace(column)>>) = 3
  BY <1>1, <1>3
<1> QED BY <1>4, <1>5, LenProperties

(* One of the columns of a value ranks first. *)
LEMMA OneIsChosen ==
  ASSUME NEW S, NEW list \in Seq(S), \A c \in S : Meant(c), NEW c \in ToSet(list)
  PROVE  \E p \in DOMAIN list : Thing(list[p]) = Thing(c) /\ Chosen(list, list[p])
<1> DEFINE D == ColumnsIn(list, c)
           key == [column \in D |-> ColumnRank(column)]
<1>1. DOMAIN list = 1..Len(list) /\ Len(list) \in Nat /\ \A i \in DOMAIN list : list[i] \in S
  BY LenProperties, ElementOfSeq
<1>2. D \subseteq RowColumns
  <2> SUFFICES ASSUME NEW e \in ToSet(list) PROVE e.column \in RowColumns
    BY DEF ColumnsIn
  <2>1. Meant(e)
    BY <1>1 DEF ToSet
  <2>2. e.row \in DOMAIN Rows
    BY <2>1 DEF Meant
  <2>3. e.column = Rows[e.row].column
    BY <2>1, Fields
  <2> QED BY <2>2, <2>3 DEF RowColumns
<1>3. IsFiniteSet(D)
  <2>1. IsFiniteSet(1..Len(list))
    BY <1>1, FS_Interval
  <2> DEFINE f == [i \in 1..Len(list) |-> list[i].column]
             E == {list[i].column : i \in 1..Len(list)}
  <2>2. f \in Surjection(1..Len(list), E)
    BY DEF Surjection
  <2>3. IsFiniteSet(E)
    BY <2>1, <2>2, FS_Surjection
  <2>4. D \subseteq E
    BY <1>1 DEF ColumnsIn, ToSet
  <2> QED BY <2>3, <2>4, FS_Subset
<1>4. c.column \in D
  BY DEF ColumnsIn
<1>5. DOMAIN key = D /\ \A column \in D : key[column] = ColumnRank(column)
  OBVIOUS
<1>6. Sortable(key)
  <2>1. \A column \in D : key[column] \in [1..3 -> Int] /\ key[column][3] = ColumnPlace(column)
    BY <1>2, <1>5, ColumnRankIs
  <2>2. \A a, b \in D : ColumnPlace(a) = ColumnPlace(b) => a = b
    BY <1>2, WordsAssumption DEF RowColumns
  <2> HIDE DEF key, D
  <2>3. \E n \in Nat : \A x \in DOMAIN key : key[x] \in [1..n -> Int]
    <3>1. \A x \in DOMAIN key : key[x] \in [1..3 -> Int]
      BY <1>5, <2>1
    <3> QED BY <3>1
  <2>4. \A x, y \in DOMAIN key : key[x] = key[y] => x = y
    <3> SUFFICES ASSUME NEW x \in DOMAIN key, NEW y \in DOMAIN key, key[x] = key[y] PROVE x = y
      OBVIOUS
    <3>1. x \in D /\ y \in D /\ key[x][3] = ColumnPlace(x) /\ key[y][3] = ColumnPlace(y)
      BY <1>5, <2>1
    <3> QED BY <2>2, <3>1
  <2> QED BY <1>3, <1>5, <2>3, <2>4 DEF Sortable
<1> DEFINE order == SortedBy(key)
           N == Cardinality(DOMAIN key)
<1> HIDE DEF key
<1>7. /\ N \in Nat
      /\ \A i \in 1..N : order[i] \in D
      /\ \A x \in D : \E i \in 1..N : order[i] = x
      /\ \A i, j \in 1..N : i < j => Precedes(key[order[i]], key[order[j]]) /\ order[i] # order[j]
  BY <1>5, <1>6, Sorted
<1> HIDE DEF order, N
<1>8. 1 \in 1..N /\ order[1] \in D
  BY <1>4, <1>7
<1>9. \A other \in D \ {order[1]} : Precedes(ColumnRank(order[1]), ColumnRank(other))
  BY <1>5, <1>7, <1>8
<1>10. PICK p \in DOMAIN list : Thing(list[p]) = Thing(c) /\ list[p].column = order[1]
  BY <1>8 DEF ColumnsIn, ToSet
<1>11. ColumnsIn(list, list[p]) = D
  BY <1>10 DEF ColumnsIn
<1> QED BY <1>9, <1>10, <1>11 DEF Chosen

LEMMA OthersAre ==
  ASSUME NEW list, NEW c, Meant(c), c.class = "enum"
  PROVE  LET r == WithOthers(list, c)
         IN  /\ r.class = "enum" /\ r.value = c.value /\ r.column = c.column
             /\ r.score = c.score /\ r.kind = c.kind
             /\ r.others = ColumnsIn(list, c) \ {c.column} /\ HasColumn(r)
<1>1. c = [class |-> Rows[c.row].class, value |-> Rows[c.row].value, column |-> Rows[c.row].column,
           opco |-> Rows[c.row].opco, path |-> Rows[c.row].path, label |-> Rows[c.row].label,
           row |-> c.row, score |-> c.score, kind |-> c.kind, others |-> {}]
  BY CandidateIs, Zenon DEF Meant
<1>2. ASSUME NEW r, NEW r1, NEW r2, NEW r3, NEW r4, NEW r5, NEW r6, NEW r7, NEW r8, NEW r9, NEW X,
             r = [class |-> r1, value |-> r2, column |-> r3, opco |-> r4, path |-> r5, label |-> r6,
                  row |-> r7, score |-> r8, kind |-> r9, others |-> {}]
      PROVE  LET t == [r EXCEPT !.others = X]
             IN  /\ t.class = r.class /\ t.value = r.value /\ t.column = r.column
                 /\ t.score = r.score /\ t.kind = r.kind /\ t.others = X /\ HasColumn(t)
  <2> DEFINE t == [r EXCEPT !.others = X]
  <2>1. t = [class |-> r1, value |-> r2, column |-> r3, opco |-> r4, path |-> r5, label |-> r6,
             row |-> r7, score |-> r8, kind |-> r9, others |-> X]
    BY <1>2
  <2> HIDE DEF t
  <2>2. HasColumn(t)
    BY <2>1 DEF HasColumn
  <2> QED BY <1>2, <2>1, <2>2 DEF t
<1> DEFINE X == ColumnsIn(list, c) \ {c.column}
           t == [c EXCEPT !.others = X]
<1>3. WithOthers(list, c) = t
  BY DEF WithOthers
<1>4. /\ t.class = c.class /\ t.value = c.value /\ t.column = c.column
      /\ t.score = c.score /\ t.kind = c.kind /\ t.others = X /\ HasColumn(t)
  BY <1>1, <1>2, ZenonT(30)
<1> HIDE DEF t
<1> QED BY <1>3, <1>4

(* The first column of the value that has the first label is chosen, and   *)
(* keeps the others.                                                       *)
LEMMA EnumNamesSettle ==
  ASSUME NEW S, NEW list, AreNames(list, S), list[1].class = "enum"
  PROVE  SettledName(Settling(list), list)
<1>1. /\ list \in Seq(S) /\ list # <<>> /\ Ordered(list)
      /\ \A c \in S : Meant(c) /\ c.kind = "exact" /\ c.score = 1000
      /\ \A c \in ToSet(list) : Family(c.class) = Family(list[1].class)
  BY DEF AreNames
<1>2. /\ DOMAIN list = 1..Len(list) /\ Len(list) \in Nat \ {0} /\ 1 \in DOMAIN list
      /\ \A i \in DOMAIN list : list[i] \in S /\ list[i] \in ToSet(list)
  BY <1>1, LenProperties, EmptySeq, ElementOfSeq DEF ToSet
<1>3. ASSUME NEW i \in DOMAIN list
      PROVE  /\ list[i].class = "enum" /\ Meant(list[i]) /\ list[i].kind = "exact" /\ list[i].score = 1000
             /\ Level(list[i]) = 0 /\ list[i].label \in Nat
  <2>1. Meant(list[i]) /\ list[i].kind = "exact" /\ list[i].score = 1000
    BY <1>1, <1>2
  <2>2. list[i].class \in Classes /\ list[i].label \in Nat
    BY <2>1, Fields
  <2>3. Family(list[i].class) = "enum"
    BY <1>1, <1>2 DEF Family, Levels
  <2>4. list[i].class = "enum"
    BY <2>2, <2>3 DEF Family, Classes, Levels
  <2> QED BY <2>1, <2>2, <2>4 DEF Level
<1>4. ASSUME NEW i \in DOMAIN list, NEW j \in DOMAIN list, i < j PROVE list[i].label <= list[j].label
  <2>1. Precedes(SortKey(list[i]), SortKey(list[j]))
    BY <1>1, <1>4 DEF Ordered
  <2> QED BY <1>3, <2>1, OrderOfCandidates
<1>5. ASSUME NEW i \in DOMAIN list, NEW j \in DOMAIN list
      PROVE  list[i].label = list[j].label <=> Thing(list[i]) = Thing(list[j])
  <2>1. /\ list[i].row \in DOMAIN Rows /\ list[i].class = Rows[list[i].row].class
        /\ list[i].label = Rows[list[i].row].label /\ list[i].value = Rows[list[i].row].value
    <3>1. Meant(list[i])
      BY <1>3
    <3>2. list[i].row \in DOMAIN Rows
      BY <3>1 DEF Meant
    <3> QED BY <3>1, <3>2, Fields
  <2>2. /\ list[j].row \in DOMAIN Rows /\ list[j].class = Rows[list[j].row].class
        /\ list[j].label = Rows[list[j].row].label /\ list[j].value = Rows[list[j].row].value
    <3>1. Meant(list[j])
      BY <1>3
    <3>2. list[j].row \in DOMAIN Rows
      BY <3>1 DEF Meant
    <3> QED BY <3>1, <3>2, Fields
  <2>3. list[i].label = list[j].label <=> list[i].value = list[j].value
    BY <1>3, <2>1, <2>2, LabelsAssumption
  <2>4. list[i].class = list[j].class
    BY <1>3
  <2> HIDE DEF Thing
  <2>5. Thing(list[i]) = Thing(list[j]) <=> list[i].value = list[j].value
    BY <2>4 DEF Thing
  <2> QED BY <2>3, <2>5
<1>6. PICK p \in DOMAIN list : Thing(list[p]) = Thing(list[1]) /\ Chosen(list, list[p])
  BY <1>1, <1>2, OneIsChosen
<1> DEFINE places == ChosenPlaces(list)
           kept == Part(list, places)
<1>7. places \in SUBSET (1..Len(list)) /\ p \in places
  BY <1>2, <1>6 DEF ChosenPlaces
<1>8. PICK m \in places : \A k \in places : m <= k
  <2>1. places \in SUBSET Nat
    BY <1>7
  <2> QED BY <1>7, <2>1, LeastNumber
<1>9. m \in DOMAIN list /\ Chosen(list, list[m]) /\ m <= p
  <2>1. m \in DOMAIN list
    BY <1>2, <1>7
  <2> QED BY <1>3, <1>7, <1>8, <2>1 DEF ChosenPlaces
<1> HIDE DEF places
<1>10. kept \in Seq(S) /\ kept # <<>> /\ kept[1] = list[m] /\ ToSet(kept) = {list[k] : k \in places}
  <2>1. kept \in Seq(S)
    BY <1>1, <1>7, PartIs
  <2>2. kept # <<>> /\ kept[1] = list[m]
    BY <1>1, <1>7, <1>8, PartFirst
  <2>3. ToSet(kept) = {list[k] : k \in places}
    BY <1>1, <1>7, PartSet
  <2> QED BY <2>1, <2>2, <2>3
<1>11. Thing(list[m]) = Thing(list[1])
  <2>1. list[p].label = list[1].label
    BY <1>2, <1>5, <1>6
  <2>2. list[m].label <= list[p].label
    <3>1. m < p \/ m = p
      BY <1>2, <1>9
    <3> QED BY <1>3, <1>4, <1>9, <3>1
  <2>3. list[1].label <= list[m].label
    <3>1. 1 < m \/ m = 1
      BY <1>2, <1>9
    <3> QED BY <1>2, <1>3, <1>4, <1>9, <3>1
  <2>4. list[1].label \in Nat /\ list[m].label \in Nat /\ list[p].label \in Nat
    BY <1>2, <1>3, <1>9
  <2>5. list[m].label = list[1].label
    BY <2>1, <2>2, <2>3, <2>4
  <2> QED BY <1>2, <1>5, <1>9, <2>5
<1> DEFINE r == CollapseColumns(list)
           T == {WithOthers(list, kept[i]) : i \in DOMAIN kept}
<1>12. r = [i \in DOMAIN kept |-> WithOthers(list, kept[i])]
  BY CollapseIs DEF places
<1>13. DOMAIN kept = 1..Len(kept) /\ Len(kept) \in Nat \ {0}
  BY <1>10, LenProperties, EmptySeq
<1>14. ASSUME NEW i \in DOMAIN kept PROVE \E k \in DOMAIN list : kept[i] = list[k]
  <2>1. kept[i] \in ToSet(kept)
    BY DEF ToSet
  <2>2. PICK k \in places : kept[i] = list[k]
    BY <1>10, <2>1
  <2> QED BY <1>2, <1>7, <2>2
<1> HIDE DEF kept, r
<1>15. r \in Seq(T) /\ r # <<>> /\ DOMAIN r = DOMAIN kept
  <2>1. r \in [1..Len(kept) -> T]
    BY <1>12, <1>13
  <2>2. r \in Seq(T) /\ Len(r) = Len(kept)
    BY <1>13, <2>1
  <2> QED BY <1>12, <1>13, <2>2
<1>16. \A i \in DOMAIN r : r[i].class = "enum" /\ r[i].kind = "exact" /\ r[i].score = 1000
  BY <1>3, <1>12, <1>14, <1>15, OthersAre
<1> HIDE DEF T
<1>17. WithoutDescendants(r) = r
  <2>1. \A i, j \in DOMAIN r : ~Extends(r[i], r[j])
    <3> SUFFICES ASSUME NEW i \in DOMAIN r, NEW j \in DOMAIN r, Extends(r[i], r[j]) PROVE FALSE
      OBVIOUS
    <3>1. {Family(r[i].class), Family(r[j].class)} = {"category"}
      BY DEF Extends
    <3>2. Family(r[i].class) = "enum"
      BY <1>16 DEF Family, Levels
    <3> QED BY <3>1, <3>2
  <2> QED BY <1>15, <2>1, NothingToPrune
<1> DEFINE final == DedupedCandidates(r)
<1>18. final \in Seq(T) /\ final # <<>> /\ final[1] = r[1] /\ ToSet(final) \subseteq ToSet(r)
  BY <1>15, DedupeKeepsTheFirst
<1>19. Settling(list) = final
  BY <1>17 DEF Settling, r
<1> HIDE DEF final
<1>20. \A c \in ToSet(final) : c.kind = "exact" /\ c.score = 1000
  <2>1. \A c \in ToSet(r) : \E i \in DOMAIN r : c = r[i]
    BY DEF ToSet
  <2> QED BY <1>16, <1>18, <2>1
<1>21. final[1] = WithOthers(list, list[m])
  BY <1>10, <1>12, <1>13, <1>18
<1>22. /\ final[1].class = "enum" /\ final[1].value = list[m].value /\ final[1].column = list[m].column
       /\ final[1].others = ColumnsIn(list, list[m]) \ {list[m].column} /\ HasColumn(final[1])
  BY <1>3, <1>9, <1>21, OthersAre
<1>23. Thing(final[1]) = Thing(list[1])
  BY <1>3, <1>9, <1>11, <1>22 DEF Thing
<1>24. {final[1].column} \union final[1].others = ColumnsIn(list, list[1])
  <2>1. ColumnsIn(list, list[m]) = ColumnsIn(list, list[1])
    BY <1>11 DEF ColumnsIn
  <2>2. list[m].column \in ColumnsIn(list, list[m])
    BY <1>2, <1>9 DEF ColumnsIn
  <2> QED BY <1>22, <2>1, <2>2
<1>25. \E U : final \in Seq(U)
  BY <1>18
<1>26. SettledName(final, list)
  BY <1>18, <1>20, <1>22, <1>23, <1>24, <1>25 DEF SettledName
<1> QED BY <1>19, <1>26

LEMMA NamesSettle ==
  ASSUME NEW S, NEW list, AreNames(list, S)
  PROVE  SettledName(Settling(list), list)
BY OtherNamesSettle, EnumNamesSettle
-----------------------------------------------------------------------------
(* Which words are read *)

LEMMA Positions ==
  ASSUME Asked
  PROVE  Len(question) \in Nat /\ DOMAIN question = 1 .. Len(question)
BY DEF Asked

LEMMA SpanIs ==
  ASSUME NEW first, NEW last, NEW candidates
  PROVE  LET s == Span(first, last, candidates)
         IN  s.first = first /\ s.last = last /\ Covers(s) = first .. last
BY DEF Span, Covers

(* The words of a set of spans are read once if a span of other words joins it. *)
LEMMA JoinsApart ==
  ASSUME NEW set, Apart(set), NEW s, Covers(s) \cap Covered(set) = {}
  PROVE  Apart(set \union {s})
BY DEF Apart, Covered

LEMMA PartIsApart ==
  ASSUME NEW set, Apart(set), NEW part, part \subseteq set
  PROVE  Apart(part) /\ Covered(part) \subseteq Covered(set)
BY DEF Apart, Covered

(* Of two names that could be taken the longer one is, or the one to the   *)
(* left.                                                                   *)
LEMMA TheNextIsLongest ==
  ASSUME Asked, NEW w \in Names, IsNextName(w), NEW v \in Names, NEW s,
         s.first = w[1], s.last = w[2], Covers(s) \cap v[1] .. v[2] # {}
  PROVE  PassedOverFor(v[1], v[2], s)
<1>1. /\ w[1] \in Int /\ w[2] \in Int /\ v[1] \in Int /\ v[2] \in Int
      /\ w = <<w[1], w[2]>> /\ v = <<v[1], v[2]>>
  BY Positions DEF Names
<1>2. CASE v = w
  BY <1>1, <1>2 DEF PassedOverFor
<1>3. CASE v # w
  <2>1. Precedes(<<w[1] - w[2], w[1]>>, <<v[1] - v[2], v[1]>>)
    BY <1>3 DEF IsNextName, LongestFirst
  <2>2. w[1] - w[2] < v[1] - v[2] \/ (w[1] - w[2] = v[1] - v[2] /\ w[1] < v[1])
    <3> DEFINE a == <<w[1] - w[2], w[1]>>
               b == <<v[1] - v[2], v[1]>>
    <3>1. PICK i \in DOMAIN a : a[i] < b[i] /\ \A j \in 1 .. i - 1 : a[j] = b[j]
      BY <2>1 DEF Precedes
    <3>2. i = 1 \/ (i = 2 /\ 1 \in 1 .. i - 1)
      OBVIOUS
    <3> QED BY <3>1, <3>2
  <2>3. w[2] - w[1] > v[2] - v[1] \/ (w[2] - w[1] = v[2] - v[1] /\ w[1] <= v[1])
    BY <1>1, <2>2
  <2> QED BY <2>3 DEF PassedOverFor
<1> QED BY <1>2, <1>3

LEMMA TakeNameStep ==
  ASSUME IInv, TakeName
  PROVE  IInv'
<1>1. PICK w \in Names : IsNextName(w) /\
        exact' = exact \union {Span(w[1], w[2], OneFamily(Ranked(LookupExact(Words(w[1], w[2])))))}
  BY DEF TakeName
<1> DEFINE s == Span(w[1], w[2], OneFamily(Ranked(LookupExact(Words(w[1], w[2])))))
<1>2. s.first = w[1] /\ s.last = w[2] /\ Covers(s) = w[1] .. w[2]
  BY SpanIs
<1>3. exact' = exact \union {s}
  BY <1>1
<1> HIDE DEF s
<1>4. /\ w[1] \in DOMAIN question /\ w[2] \in DOMAIN question /\ w[1] <= w[2]
      /\ w[1] .. w[2] \cap Covered(exact) = {}
  BY DEF Names
<1>5. /\ stage = "exact" /\ guesses = {} /\ open = {} /\ absorbed = {} /\ phrases = None
      /\ UNCHANGED <<stage, question, phrases, absorbed, open, guesses>>
  BY DEF TakeName, IInv, NothingGuessed
<1>6. Asked'
  BY <1>2, <1>3, <1>4, <1>5 DEF IInv, Asked, Sits
<1>7. Apart(exact')
  BY <1>2, <1>3, <1>4, JoinsApart DEF IInv, Taken
<1>8. ASSUME NEW first \in DOMAIN question, NEW last \in DOMAIN question, first <= last,
             IsName(first, last), first .. last \cap Covered(exact') # {}
      PROVE  \E t \in exact' : PassedOverFor(first, last, t)
  <2>1. CASE first .. last \cap Covered(exact) # {}
    <3>1. \E t \in exact : PassedOverFor(first, last, t)
      BY <1>5, <1>8, <2>1 DEF IInv, Taken
    <3> QED BY <1>3, <3>1
  <2>2. CASE first .. last \cap Covered(exact) = {}
    <3>1. Covers(s) \cap first .. last # {}
      BY <1>3, <1>8, <2>2 DEF Covered
    <3> DEFINE v == <<first, last>>
    <3>2. v \in Names /\ v[1] = first /\ v[2] = last
      BY <1>8, <2>2 DEF Names
    <3>3. PassedOverFor(first, last, s)
      BY <1>1, <1>2, <3>1, <3>2, TheNextIsLongest DEF IInv
    <3> QED BY <1>3, <3>3
  <2> QED BY <2>1, <2>2
<1>9. \A first, last : IsName(first, last)' <=> IsName(first, last)
  BY <1>5 DEF IsName, Ordinary, Words
<1>10. Taken'
  <2>1. \A first, last, t : PassedOverFor(first, last, t)' <=> PassedOverFor(first, last, t)
    BY DEF PassedOverFor, Covers
  <2>2. Covered(exact)' = Covered(exact')
    BY DEF Covered, Covers
  <2>3. Apart(exact)' <=> Apart(exact')
    BY DEF Apart, Covers
  <2> QED BY <1>5, <1>7, <1>8, <1>9, <2>1, <2>2, <2>3 DEF Taken
<1>11. NothingGuessed' /\ Guessed'
  BY <1>5 DEF NothingGuessed, Guessed, Apart
<1> QED BY <1>6, <1>10, <1>11 DEF IInv

LEMMA EndExactStep ==
  ASSUME IInv, NEW named, EndExact(named)
  PROVE  IInv'
<1>1. /\ stage = "exact" /\ Names = {} /\ guesses = {} /\ absorbed = {}
      /\ stage' = "guess" /\ question' = question /\ guesses' = guesses /\ phrases' = named
      /\ absorbed' = BrandTail /\ exact' = {s \in exact : ~(Covers(s) \subseteq BrandTail)}
      /\ open' = Leftover(Covered(exact) \union BrandTail, named)
  BY DEF EndExact, IInv, NothingGuessed
<1>2. Asked' /\ NothingGuessed'
  BY <1>1 DEF IInv, Asked, NothingGuessed, Sits
<1>3. Apart(exact') /\ Covered(exact') \subseteq Covered(exact)
  BY <1>1, PartIsApart DEF IInv, Taken
<1>4. ASSUME NEW first \in DOMAIN question, NEW last \in DOMAIN question, first <= last,
             IsName(first, last), first .. last \cap absorbed' = {}
      PROVE  \E s \in exact' : PassedOverFor(first, last, s)
  <2>1. first .. last \cap Covered(exact) # {}
    <3> DEFINE v == <<first, last>>
    <3>1. v \in (DOMAIN question) \X (DOMAIN question) /\ v[1] = first /\ v[2] = last
      OBVIOUS
    <3> QED BY <1>1, <1>4, <3>1 DEF Names
  <2>2. PICK s \in exact : PassedOverFor(first, last, s)
    BY <1>1, <1>4, <2>1 DEF IInv, Taken
  <2>3. ~(Covers(s) \subseteq BrandTail)
    BY <1>1, <1>4, <2>2 DEF PassedOverFor
  <2> QED BY <1>1, <2>2, <2>3
<1>5. \A first, last : IsName(first, last)' <=> IsName(first, last)
  BY <1>1 DEF IsName, Ordinary, Words
<1>6. Taken'
  <2>1. \A first, last, t : PassedOverFor(first, last, t)' <=> PassedOverFor(first, last, t)
    BY DEF PassedOverFor, Covers
  <2>2. Apart(exact)' <=> Apart(exact')
    BY DEF Apart, Covers
  <2> QED BY <1>1, <1>3, <1>4, <1>5, <2>1, <2>2 DEF Taken
<1>7. Guessed'
  <2>1. Covered(exact)' = Covered(exact')
    BY DEF Covered, Covers
  <2>2. open' \subseteq DOMAIN question /\ open' \cap (Covered(exact) \union absorbed') = {}
    BY <1>1 DEF Leftover
  <2>3. \A i \in open' :
          question[i] \notin Filler \union Schema /\ (phrases' # None => question[i] \in phrases')
    BY <1>1 DEF Leftover
  <2> QED BY <1>1, <1>3, <2>1, <2>2, <2>3 DEF Guessed, Apart
<1> QED BY <1>2, <1>6, <1>7 DEF IInv

LEMMA TakeReadingStep ==
  ASSUME IInv, TakeReading
  PROVE  IInv'
<1>1. PICK s \in Unclaimed : guesses' = guesses \union {s}
  BY DEF TakeReading
<1>2. PICK w \in Windows : s = Span(w[1], w[2], Options(Words(w[1], w[2])))
  BY <1>1 DEF Unclaimed, Readings
<1>3. s.first = w[1] /\ s.last = w[2] /\ Covers(s) = w[1] .. w[2]
  BY <1>2, SpanIs
<1>4. w[1] \in DOMAIN question /\ w[2] \in DOMAIN question /\ w[1] <= w[2] /\ w[1] .. w[2] \subseteq open
  BY DEF Windows
<1>5. Covers(s) \cap Covered(guesses) = {}
  BY DEF Unclaimed
<1>6. stage = "guess" /\ UNCHANGED <<stage, question, exact, phrases, absorbed, open>>
  BY DEF TakeReading
<1>7. Asked' /\ NothingGuessed'
  BY <1>1, <1>3, <1>4, <1>6 DEF IInv, Asked, NothingGuessed, Sits
<1>8. Taken'
  <2>1. \A first, last : IsName(first, last)' <=> IsName(first, last)
    BY <1>6 DEF IsName, Ordinary, Words
  <2> QED BY <1>6, <2>1 DEF IInv, Taken, Covered, Covers, Apart, PassedOverFor
<1>9. Apart(guesses')
  BY <1>1, <1>5, JoinsApart DEF IInv, Guessed
<1>10. \A t \in guesses' : Covers(t) \subseteq open
  BY <1>1, <1>3, <1>4 DEF IInv, Guessed
<1>11. Guessed'
  BY <1>6, <1>9, <1>10 DEF IInv, Guessed, Covered, Covers, Apart
<1> QED BY <1>7, <1>8, <1>11 DEF IInv

LEMMA EndGuessStep ==
  ASSUME IInv, EndGuess
  PROVE  IInv'
<1>1. /\ stage = "guess" /\ stage' = "arbitrate" /\ guesses' = WithoutNameTails
      /\ UNCHANGED <<question, exact, phrases, absorbed, open>>
  BY DEF EndGuess
<1>2. guesses' \subseteq guesses
  BY <1>1 DEF WithoutNameTails
<1>3. Asked' /\ NothingGuessed'
  BY <1>1, <1>2 DEF IInv, Asked, NothingGuessed, Sits
<1>4. Taken'
  <2>1. \A first, last : IsName(first, last)' <=> IsName(first, last)
    BY <1>1 DEF IsName, Ordinary, Words
  <2> QED BY <1>1, <2>1 DEF IInv, Taken, Covered, Covers, Apart, PassedOverFor
<1>5. ASSUME NEW s \in guesses', NEW e \in exact, s.first = e.last + 1 \/ e.first = s.last + 1
      PROVE  NameFamily(Best(s)) # NameFamily(Best(e))
  <2>1. {s.first, s.last + 1} \cap {e.first, e.last + 1} # {}
    BY <1>5
  <2> QED BY <1>1, <2>1 DEF WithoutNameTails
<1>6. Apart(guesses')
  BY <1>2, PartIsApart DEF IInv, Guessed
<1>7. Guessed'
  BY <1>1, <1>2, <1>5, <1>6 DEF IInv, Guessed, Covered, Covers, Apart, NameFamily, Best
<1> QED BY <1>3, <1>4, <1>7 DEF IInv

(* The arbitration leaves the spans it arbitrates. *)
LEMMA RestStep ==
  ASSUME IInv, UNCHANGED <<question, exact, phrases, absorbed, open, guesses>>,
         stage' = stage \/ (stage = "arbitrate" /\ stage' = "done")
  PROVE  IInv'
<1>1. Asked' /\ NothingGuessed'
  BY DEF IInv, Asked, NothingGuessed, Sits
<1>2. \A first, last : IsName(first, last)' <=> IsName(first, last)
  BY DEF IsName, Ordinary, Words
<1>3. Taken'
  BY <1>2 DEF IInv, Taken, Covered, Covers, Apart, PassedOverFor
<1>4. Guessed'
  BY DEF IInv, Guessed, Covered, Covers, Apart, NameFamily, Best
<1> QED BY <1>1, <1>3, <1>4 DEF IInv

LEMMA Starts ==
  ASSUME Init
  PROVE  IInv
<1>1. question \in Seq(STRING) /\ question \in Questions
  BY SettingsAssumption DEF Init
<1>2. Covered({}) = {}
  BY DEF Covered
<1> QED BY <1>1, <1>2 DEF Init, IInv, Asked, NothingGuessed, Taken, Guessed, Apart
-----------------------------------------------------------------------------
(* What the spans were read from *)

Named(s) ==
  LET words == Words(s.first, s.last)
  IN  LookupExact(words) # {} /\ s.candidates = OneFamily(Ranked(LookupExact(words)))

GuessedAt(s) == s.candidates # <<>> /\ s.candidates = Options(Words(s.first, s.last))

(* The spans the arbitration leaves, before they are settled. *)
Kept == WithoutGlosses(DedupedSpans(ByPosition(exact) \o ByPosition(guesses)), bracketed)

Result == SortedBy([s \in {Settled(t) : t \in Kept} |-> <<Priority(Best(s).class), s.first>>])

Read ==
  /\ \A s \in exact : Named(s)
  /\ \A s \in guesses : GuessedAt(s)
  /\ absorbed \subseteq DOMAIN question
  /\ stage # "done" => spans = <<>> /\ bracketed = {}
  /\ stage = "done" => spans = Result /\ bracketed \in Brackets

(* A span is read the same way until the catalogue is asked again. *)
LEMMA ReadAgain ==
  ASSUME UNCHANGED <<question, backwards>>
  PROVE  \A s : Named(s)' = Named(s) /\ GuessedAt(s)' = GuessedAt(s)
<1>1. \A first, last : Words(first, last)' = Words(first, last)
  BY DEF Words
<1>2. \A c : Place(c)' = Place(c)
  BY DEF Place
<1>3. \A c : SortKey(c)' = SortKey(c)
  BY <1>2 DEF SortKey, Level
<1>4. ASSUME NEW set PROVE Ranked(set)' = Ranked(set)
  <2>1. [c \in set |-> SortKey(c)'] = [c \in set |-> SortKey(c)]
    BY <1>3
  <2> QED BY <2>1 DEF Ranked
<1>5. ASSUME NEW set PROVE BestOfEach(set)' = BestOfEach(set)
  BY <1>2 DEF BestOfEach
<1>6. ASSUME NEW window PROVE Options(window)' = Options(window)
  <2>1. Ranked(BestOfEach(Scored(window)))' = Ranked(BestOfEach(Scored(window)))
    BY <1>4, <1>5
  <2> QED BY <2>1 DEF Options
<1>7. ASSUME NEW s PROVE Named(s)' = Named(s) /\ GuessedAt(s)' = GuessedAt(s)
  <2>1. Words(s.first, s.last)' = Words(s.first, s.last)
    BY <1>1
  <2>2. Ranked(LookupExact(Words(s.first, s.last)))' = Ranked(LookupExact(Words(s.first, s.last)))
    BY <1>4, <2>1
  <2>3. Options(Words(s.first, s.last))' = Options(Words(s.first, s.last))
    BY <1>6, <2>1
  <2> QED BY <2>1, <2>2, <2>3 DEF Named, GuessedAt
<1> QED BY <1>7

LEMMA SettledAgain ==
  ASSUME UNCHANGED question
  PROVE  \A s : Settled(s)' = Settled(s)
<1>1. \A column : ColumnRank(column)' = ColumnRank(column)
  BY DEF ColumnRank
<1>2. ASSUME NEW list PROVE CollapseColumns(list)' = CollapseColumns(list)
  <2>1. \A c : Chosen(list, c)' = Chosen(list, c)
    BY <1>1 DEF Chosen
  <2>2. ChosenPlaces(list)' = ChosenPlaces(list)
    BY <2>1 DEF ChosenPlaces
  <2> DEFINE kept(places) == Part(list, places)
             collapsed(places) == [i \in DOMAIN kept(places) |-> WithOthers(list, kept(places)[i])]
  <2>3. CollapseColumns(list)' = collapsed(ChosenPlaces(list)')
    BY Zenon DEF CollapseColumns, ChosenPlaces, Chosen, ColumnsIn, WithOthers
  <2>4. CollapseColumns(list) = collapsed(ChosenPlaces(list))
    BY Zenon DEF CollapseColumns, ChosenPlaces, Chosen, ColumnsIn, WithOthers
  <2> HIDE DEF collapsed
  <2> QED BY <2>2, <2>3, <2>4
<1> QED BY <1>2 DEF Settled

LEMMA ReadStep ==
  ASSUME IInv, Read, [Next]_vars
  PROVE  Read'
<1>1. CASE TakeName
  <2>1. PICK w \in Names :
          exact' = exact \union {Span(w[1], w[2], OneFamily(Ranked(LookupExact(Words(w[1], w[2])))))}
    BY <1>1 DEF TakeName
  <2> DEFINE s == Span(w[1], w[2], OneFamily(Ranked(LookupExact(Words(w[1], w[2])))))
  <2>2. Named(s)
    <3>1. LookupExact(Words(w[1], w[2])) # {}
      BY DEF Names, IsName
    <3>2. /\ s.first = w[1] /\ s.last = w[2]
          /\ s.candidates = OneFamily(Ranked(LookupExact(Words(w[1], w[2]))))
      BY DEF Span
    <3> HIDE DEF s
    <3> QED BY <3>1, <3>2 DEF Named
  <2>3. exact' = exact \union {s}
    BY <2>1
  <2> HIDE DEF s
  <2>4. UNCHANGED <<stage, question, backwards, absorbed, guesses, bracketed, spans>> /\ stage = "exact"
    BY <1>1 DEF TakeName
  <2>5. \A t \in exact' : Named(t)'
    BY <2>2, <2>3, <2>4, ReadAgain DEF Read
  <2>6. \A t \in guesses' : GuessedAt(t)'
    BY <2>4, ReadAgain DEF Read
  <2> QED BY <2>4, <2>5, <2>6 DEF Read
<1>2. CASE \E named \in RouterSays : EndExact(named)
  <2>1. /\ UNCHANGED <<question, backwards, guesses, bracketed, spans>> /\ stage = "exact" /\ stage' = "guess"
        /\ exact' \subseteq exact /\ absorbed' = BrandTail
    BY <1>2 DEF EndExact
  <2>2. absorbed' \subseteq DOMAIN question'
    BY <2>1 DEF BrandTail
  <2>3. \A t \in exact' : Named(t)'
    BY <2>1, ReadAgain DEF Read
  <2>4. \A t \in guesses' : GuessedAt(t)'
    BY <2>1, ReadAgain DEF Read
  <2> QED BY <2>1, <2>2, <2>3, <2>4 DEF Read
<1>3. CASE TakeReading
  <2>1. PICK s \in Unclaimed : guesses' = guesses \union {s}
    BY <1>3 DEF TakeReading
  <2>2. PICK w \in Windows : s = Span(w[1], w[2], Options(Words(w[1], w[2])))
    BY <2>1 DEF Unclaimed, Readings
  <2>3. GuessedAt(s)
    <3>1. s.candidates # <<>>
      BY <2>1 DEF Unclaimed, Readings
    <3>2. s.first = w[1] /\ s.last = w[2] /\ s.candidates = Options(Words(w[1], w[2]))
      BY <2>2 DEF Span
    <3> QED BY <3>1, <3>2 DEF GuessedAt
  <2>4. UNCHANGED <<stage, question, backwards, absorbed, exact, bracketed, spans>> /\ stage = "guess"
    BY <1>3 DEF TakeReading
  <2>5. \A t \in exact' : Named(t)'
    BY <2>4, ReadAgain DEF Read
  <2>6. \A t \in guesses' : GuessedAt(t)'
    BY <2>1, <2>3, <2>4, ReadAgain DEF Read
  <2> QED BY <2>4, <2>5, <2>6 DEF Read
<1>4. CASE EndGuess
  <2>1. /\ UNCHANGED <<question, backwards, absorbed, exact, bracketed, spans>>
        /\ stage = "guess" /\ stage' = "arbitrate" /\ guesses' \subseteq guesses
    BY <1>4 DEF EndGuess, WithoutNameTails
  <2>2. \A t \in exact' : Named(t)'
    BY <2>1, ReadAgain DEF Read
  <2>3. \A t \in guesses' : GuessedAt(t)'
    BY <2>1, ReadAgain DEF Read
  <2> QED BY <2>1, <2>2, <2>3 DEF Read
<1>5. CASE \E brackets \in Brackets : Arbitrate(brackets)
  <2>1. PICK brackets \in Brackets : Arbitrate(brackets)
    BY <1>5
  <2>2. /\ UNCHANGED <<question, backwards, absorbed, exact, guesses>>
        /\ stage' = "done" /\ bracketed' = brackets
    BY <2>1 DEF Arbitrate
  <2>3. Kept' = WithoutGlosses(DedupedSpans(ByPosition(exact) \o ByPosition(guesses)), brackets)
    BY <2>2 DEF Kept
  <2>4. spans' = SortedBy([s \in {Settled(t) : t \in Kept'} |-> <<Priority(Best(s).class), s.first>>])
    BY <2>1, <2>3 DEF Arbitrate
  <2>5. {Settled(t)' : t \in Kept'} = {Settled(t) : t \in Kept'}
    <3>1. \A t : Settled(t)' = Settled(t)
      BY <2>2, SettledAgain
    <3> QED BY <3>1
  <2>6. spans' = Result'
    BY <2>4, <2>5 DEF Result
  <2>7. brackets \in Brackets'
    BY <2>2 DEF Brackets
  <2>8. \A t \in exact' : Named(t)'
    BY <2>2, ReadAgain DEF Read
  <2>9. \A t \in guesses' : GuessedAt(t)'
    BY <2>2, ReadAgain DEF Read
  <2> QED BY <2>2, <2>6, <2>7, <2>8, <2>9 DEF Read
<1>6. CASE UNCHANGED vars
  <2>1. UNCHANGED <<stage, question, backwards, absorbed, exact, guesses, bracketed, spans>>
    BY <1>6 DEF vars
  <2>2. \A t \in exact' : Named(t)'
    BY <2>1, ReadAgain DEF Read
  <2>3. \A t \in guesses' : GuessedAt(t)'
    BY <2>1, ReadAgain DEF Read
  <2>4. Brackets' = Brackets
    BY <2>1 DEF Brackets
  <2>5. Result' = Result
    <3>1. \A t : Settled(t)' = Settled(t)
      BY <2>1, SettledAgain
    <3>2. Kept' = Kept
      BY <2>1 DEF Kept
    <3>3. {Settled(t)' : t \in Kept'} = {Settled(t) : t \in Kept}
      BY <3>1, <3>2
    <3> QED BY <3>3 DEF Result
  <2> QED BY <2>1, <2>2, <2>3, <2>4, <2>5 DEF Read
<1> QED BY <1>1, <1>2, <1>3, <1>4, <1>5, <1>6 DEF Next
-----------------------------------------------------------------------------
(* What the spans are *)

LEMMA WindowIs ==
  ASSUME Asked, NEW s, Sits(s)
  PROVE  Words(s.first, s.last) \in Seq(AllWords) /\ Words(s.first, s.last) # <<>>
<1> DEFINE f == s.first
           l == s.last
<1>1. f \in 1..Len(question) /\ l \in 1..Len(question) /\ f <= l /\ Len(question) \in Nat
  BY Positions DEF Sits
<1>2. question \in Seq(AllWords)
  <2>1. DOMAIN question = 1..Len(question) /\ question = [i \in 1..Len(question) |-> question[i]]
    BY LenProperties DEF Asked
  <2>2. \A i \in 1..Len(question) : question[i] \in ToSet(question)
    BY <2>1 DEF ToSet
  <2>3. \A i \in 1..Len(question) : question[i] \in AllWords
    BY <2>2, WordsOfQuestions DEF Asked
  <2>4. question \in [1..Len(question) -> AllWords]
    BY <2>1, <2>3
  <2> QED BY <1>1, <2>4
<1> HIDE DEF f, l
<1>3. SubSeq(question, f, l) \in Seq(AllWords) /\ Len(SubSeq(question, f, l)) = l - f + 1
  <2>1. \A i \in f..l : question[i] \in AllWords
    BY <1>1, <1>2, ElementOfSeq
  <2>2. Len(SubSeq(question, f, l)) = IF f <= l THEN l - f + 1 ELSE 0
    BY <1>1, <1>2, SubSeqProperties
  <2>3. SubSeq(question, f, l) \in Seq(AllWords)
    BY <1>1, <1>2, <2>1, SubSeqProperties
  <2> QED BY <1>1, <2>2, <2>3
<1>4. SubSeq(question, f, l) # <<>>
  BY <1>1, <1>3, EmptySeq
<1> QED BY <1>3, <1>4 DEF f, l, Words

(* The candidates of a name are the rows that go by it, those of the first *)
(* one's kind.                                                             *)
LEMMA NameIs ==
  ASSUME NEW s, Named(s)
  PROVE  LET words == Words(s.first, s.last)
             list == s.candidates
         IN  /\ AreNames(list, Indexed(words))
             /\ ToSet(list) = {c \in Indexed(words) : Family(c.class) = Family(list[1].class)}
             /\ list[1] \in ToSet(list) /\ Meant(list[1])
<1> DEFINE words == Words(s.first, s.last)
           list == s.candidates
           set == LookupExact(words)
           ranked == Ranked(set)
<1>1. set # {} /\ list = OneFamily(ranked)
  BY DEF Named
<1>2. /\ set = Indexed(words) /\ IsFiniteSet(set) /\ AllMeant(set, "exact")
      /\ \A c \in set : c.score = 1000
  BY <1>1, LookupIs
<1> HIDE DEF set, words, list
<1>3. ranked \in Seq(set) /\ ToSet(ranked) = set /\ Ordered(ranked) /\ ranked # <<>>
  BY <1>1, <1>2, RankedIs
<1> HIDE DEF ranked
<1>4. /\ list \in Seq(set) /\ Ordered(list) /\ list # <<>> /\ list[1] = ranked[1]
      /\ ToSet(list) = {c \in ToSet(ranked) : Family(c.class) = Family(ranked[1].class)}
  BY <1>1, <1>3, OneFamilyIs
<1>5. ToSet(list) = {c \in set : Family(c.class) = Family(list[1].class)}
  BY <1>3, <1>4
<1>6. AreNames(list, set)
  BY <1>2, <1>4, <1>5 DEF AreNames, AllMeant
<1>7. list[1] \in ToSet(list)
  <2>1. Len(list) \in Nat \ {0} /\ DOMAIN list = 1..Len(list)
    BY <1>4, LenProperties, EmptySeq
  <2> QED BY <2>1 DEF ToSet
<1>8. Meant(list[1])
  BY <1>2, <1>5, <1>7 DEF AllMeant
<1> QED BY <1>2, <1>5, <1>6, <1>7, <1>8 DEF list, words

(* A guess is the beginning of a list of alternatives that leaves out only *)
(* parts of those it has.                                                  *)
GuessOf(s, full) ==
  /\ StandsFor(full, Words(s.first, s.last), Family(Best(s).class)) /\ full # <<>>
  /\ s.candidates = AtMost(MaxOptions, full)

LEMMA GuessIs ==
  ASSUME Asked, NEW s, Sits(s), GuessedAt(s)
  PROVE  /\ \E full : GuessOf(s, full)
         /\ AlternativesOf(Words(s.first, s.last), Family(Best(s).class)) = Alternatives(s)
<1> DEFINE words == Words(s.first, s.last)
<1>1. words \in Seq(AllWords) /\ words # <<>>
  BY WindowIs
<1>2. Options(words) # <<>> /\ s.candidates = Options(words)
  BY DEF GuessedAt
<1>3. PICK full, family :
        StandsFor(full, words, family) /\ full # <<>> /\ Options(words) = AtMost(MaxOptions, full)
  BY <1>1, <1>2, OptionsAre
<1> HIDE DEF words
<1>4. full \in Seq(Scored(words)) /\ ToSet(full) \subseteq AlternativesOf(words, family)
  BY <1>3 DEF StandsFor
<1>5. /\ Len(full) \in Nat \ {0} /\ DOMAIN full = 1..Len(full) /\ full[1] \in ToSet(full)
  <2>1. Len(full) \in Nat \ {0} /\ DOMAIN full = 1..Len(full)
    BY <1>3, <1>4, LenProperties, EmptySeq
  <2> QED BY <2>1 DEF ToSet
<1>6. AtMost(MaxOptions, full)[1] = full[1]
  <2> DEFINE cut == AtMost(MaxOptions, full)
  <2>1. MaxOptions \in Nat \ {0}
    BY SettingsAssumption
  <2>2. Len(cut) = (IF MaxOptions <= Len(full) THEN MaxOptions ELSE Len(full))
        /\ \A i \in 1..Len(cut) : cut[i] = full[i]
    BY <1>4, <2>1, AtMostIs
  <2> HIDE DEF cut
  <2>3. 1 \in 1..Len(cut)
    BY <1>5, <2>1, <2>2
  <2>4. cut[1] = full[1]
    BY <2>2, <2>3
  <2> QED BY <2>4 DEF cut
<1>7. Best(s) = full[1]
  BY <1>2, <1>3, <1>6 DEF Best
<1>8. Family(Best(s).class) = family
  BY <1>4, <1>5, <1>7 DEF AlternativesOf
<1>9. GuessOf(s, full)
  BY <1>2, <1>3, <1>8 DEF GuessOf, words
<1>10. AlternativesOf(Words(s.first, s.last), Family(Best(s).class)) = Alternatives(s)
  BY DEF AlternativesOf, Alternatives
<1> QED BY <1>9, <1>10

(* What is offered of a guess is in order, no two are one thing or a thing *)
(* and its part, and nothing is left to settle.                            *)
LEMMA OfferedAre ==
  ASSUME Asked, NEW s, Sits(s), GuessedAt(s), NEW full, GuessOf(s, full)
  PROVE  LET list == s.candidates
         IN  /\ list \in Seq(Scored(Words(s.first, s.last))) /\ list # <<>> /\ Ordered(list)
             /\ \A c \in Scored(Words(s.first, s.last)) : Meant(c) /\ c.kind = "fuzzy"
             /\ Len(list) = IF MaxOptions <= Len(full) THEN MaxOptions ELSE Len(full)
             /\ \A i \in 1..Len(list) : list[i] = full[i]
             /\ ToSet(list) \subseteq ToSet(full)
             /\ \A c, d \in ToSet(list) : c # d => Thing(c) # Thing(d)
             /\ \A c, d \in ToSet(list) : ~Extends(c, d)
             /\ Settling(list) = list
<1> DEFINE words == Words(s.first, s.last)
           list == s.candidates
           S == Scored(words)
<1>1. words \in Seq(AllWords) /\ words # <<>>
  BY WindowIs
<1>2. \A c \in S : Meant(c) /\ c.kind = "fuzzy"
  BY <1>1, ScoredAre DEF AllMeant
<1>3. /\ full \in Seq(S) /\ Ordered(full)
      /\ \A c, d \in ToSet(full) : c # d => Thing(c) # Thing(d)
      /\ \A c, d \in ToSet(full) : ~Extends(c, d)
      /\ list = AtMost(MaxOptions, full)
  BY DEF GuessOf, StandsFor
<1>4. list # <<>>
  BY DEF GuessedAt
<1> HIDE DEF list, S, words
<1>5. MaxOptions \in Nat
  BY SettingsAssumption
<1>6. /\ list \in Seq(S) /\ Len(list) = (IF MaxOptions <= Len(full) THEN MaxOptions ELSE Len(full))
      /\ \A i \in 1..Len(list) : list[i] = full[i]
  BY <1>3, <1>5, AtMostIs
<1>7. Ordered(list)
  BY <1>3, <1>5, AtMostIsOrdered
<1>8. ToSet(list) \subseteq ToSet(full)
  <2>1. DOMAIN list = 1..Len(list) /\ DOMAIN full = 1..Len(full) /\ Len(full) \in Nat /\ Len(list) <= Len(full)
    BY <1>3, <1>5, <1>6, LenProperties
  <2>2. \A i \in DOMAIN list : i \in DOMAIN full /\ list[i] = full[i]
    BY <1>5, <1>6, <2>1
  <2> QED BY <2>2 DEF ToSet
<1>9. /\ \A c, d \in ToSet(list) : c # d => Thing(c) # Thing(d)
      /\ \A c, d \in ToSet(list) : ~Extends(c, d)
  BY <1>3, <1>8
<1>10. Settling(list) = list
  BY <1>2, <1>6, <1>7, <1>9, GuessSettles
<1> QED BY <1>2, <1>4, <1>6, <1>7, <1>8, <1>9, <1>10 DEF list, S, words

LEMMA OrderedScores ==
  ASSUME NEW S, NEW list \in Seq(S), Ordered(list), \A c \in S : Meant(c)
  PROVE  \A i \in DOMAIN list, j \in DOMAIN list : i <= j => list[i].score >= list[j].score
<1>1. DOMAIN list = 1..Len(list) /\ Len(list) \in Nat /\ \A i \in DOMAIN list : list[i] \in S
  BY LenProperties, ElementOfSeq
<1> SUFFICES ASSUME NEW i \in DOMAIN list, NEW j \in DOMAIN list, i <= j
             PROVE  list[i].score >= list[j].score
  OBVIOUS
<1>2. Meant(list[i]) /\ Meant(list[j]) /\ list[j].score \in Nat
  BY <1>1, Fields
<1>3. CASE i = j
  BY <1>2, <1>3
<1>4. CASE i # j
  <2>1. Precedes(SortKey(list[i]), SortKey(list[j]))
    BY <1>1, <1>4 DEF Ordered
  <2> QED BY <1>2, <2>1, OrderOfCandidates
<1> QED BY <1>3, <1>4
-----------------------------------------------------------------------------
(* What the arbitration makes of them *)

LEMMA SettledIs ==
  ASSUME NEW s, NEW T, Settling(s.candidates) \in Seq(T), Settling(s.candidates) # <<>>
  PROVE  LET u == Settled(s)
             list == Settling(s.candidates)
         IN  /\ u.first = s.first /\ u.last = s.last /\ Covers(u) = Covers(s)
             /\ u.status \in {"resolved", "ambiguous"} /\ (u.status = "resolved" => Certain(list))
             /\ u.candidates \in Seq(T) /\ u.candidates # <<>>
             /\ DOMAIN u.candidates \subseteq DOMAIN list
             /\ \A i \in DOMAIN u.candidates : u.candidates[i] = list[i]
             /\ Best(u) = list[1]
<1> DEFINE list == Settling(s.candidates)
           offered == IF Certain(list) THEN list ELSE AtMost(MaxOptions, list)
           status == IF Certain(list) THEN "resolved" ELSE "ambiguous"
           u == Settled(s)
<1>1. u = [first |-> s.first, last |-> s.last, status |-> status, candidates |-> offered]
  BY DEF Settled, Settling
<1>2. status \in {"resolved", "ambiguous"} /\ (status = "resolved" => Certain(list))
  OBVIOUS
<1> HIDE DEF list, u
<1>3. list \in Seq(T) /\ Len(list) \in Nat \ {0} /\ DOMAIN list = 1..Len(list)
  BY LenProperties, EmptySeq DEF list
<1>4. MaxOptions \in Nat \ {0}
  BY SettingsAssumption
<1>5. offered \in Seq(T) /\ Len(offered) \in 1..Len(list) /\ \A i \in 1..Len(offered) : offered[i] = list[i]
  <2>1. CASE Certain(list)
    BY <1>3, <2>1
  <2>2. CASE ~Certain(list)
    <3> DEFINE cut == AtMost(MaxOptions, list)
    <3>1. /\ cut \in Seq(T) /\ Len(cut) = (IF MaxOptions <= Len(list) THEN MaxOptions ELSE Len(list))
          /\ \A i \in 1..Len(cut) : cut[i] = list[i]
      BY <1>3, <1>4, AtMostIs
    <3> HIDE DEF cut
    <3>2. cut \in Seq(T) /\ Len(cut) \in 1..Len(list) /\ \A i \in 1..Len(cut) : cut[i] = list[i]
      BY <1>3, <1>4, <3>1
    <3> QED BY <2>2, <3>2 DEF cut
  <2> QED BY <2>1, <2>2
<1> HIDE DEF offered, status
<1>6. DOMAIN offered = 1..Len(offered) /\ offered # <<>> /\ offered[1] = list[1]
  BY <1>3, <1>5, LenProperties, EmptySeq
<1>7. Covers(u) = Covers(s) /\ Best(u) = list[1]
  BY <1>1, <1>6 DEF Covers, Best
<1> QED BY <1>1, <1>2, <1>3, <1>5, <1>6, <1>7 DEF list, u

(* An exact name keeps its thing, and with an enum value its columns. *)
LEMMA NameSettles ==
  ASSUME Asked, NEW s, Sits(s), Named(s)
  PROVE  LET u == Settled(s)
         IN  /\ SpanOK(u) /\ Covers(u) = Covers(s) /\ u.first = s.first /\ u.last = s.last
             /\ u.status \in {"resolved", "ambiguous"}
             /\ Best(u).kind = "exact" /\ Thing(Best(u)) = Thing(Best(s)) /\ HasColumn(Best(u))
             /\ Best(s).class # "enum" => Best(u) = Best(s)
             /\ Best(s).class = "enum" =>
                  {Best(u).column} \union Best(u).others = ColumnsIn(s.candidates, Best(s))
<1> DEFINE u == Settled(s)
           list == s.candidates
           final == Settling(list)
<1>1. SettledName(final, list)
  BY NameIs, NamesSettle
<1>2. PICK T : final \in Seq(T)
  BY <1>1 DEF SettledName
<1> HIDE DEF final
<1>3. /\ final # <<>> /\ final \in Seq(T)
      /\ \A c \in ToSet(final) : c.kind = "exact" /\ c.score = 1000
      /\ Thing(final[1]) = Thing(list[1]) /\ HasColumn(final[1])
      /\ list[1].class # "enum" => final[1] = list[1]
      /\ list[1].class = "enum" => {final[1].column} \union final[1].others = ColumnsIn(list, list[1])
  BY <1>1, <1>2 DEF SettledName
<1>4. /\ u.first = s.first /\ u.last = s.last /\ Covers(u) = Covers(s)
      /\ u.status \in {"resolved", "ambiguous"}
      /\ u.candidates \in Seq(T) /\ u.candidates # <<>>
      /\ DOMAIN u.candidates \subseteq DOMAIN final
      /\ \A i \in DOMAIN u.candidates : u.candidates[i] = final[i]
      /\ Best(u) = final[1]
  BY <1>3, SettledIs DEF final
<1> HIDE DEF u
<1>5. Len(u.candidates) \in Nat \ {0} /\ DOMAIN u.candidates = 1..Len(u.candidates)
  BY <1>4, LenProperties, EmptySeq
<1>6. \A i \in DOMAIN u.candidates : u.candidates[i].kind = "exact" /\ u.candidates[i].score = 1000
  BY <1>3, <1>4 DEF ToSet
<1>7. \A i \in 1 .. Len(u.candidates) - 1 : u.candidates[i].score >= u.candidates[i + 1].score
  <2>1. \A i \in 1 .. Len(u.candidates) - 1 : i \in DOMAIN u.candidates /\ i + 1 \in DOMAIN u.candidates
    BY <1>5
  <2> QED BY <1>6, <2>1
<1>8. u.first \in DOMAIN question /\ u.last \in u.first .. Len(question)
  BY <1>4, Positions DEF Sits
<1>9. SpanOK(u)
  BY <1>4, <1>7, <1>8 DEF SpanOK
<1>10. Best(u).kind = "exact"
  BY <1>4, <1>5, <1>6 DEF Best
<1>11. Best(s) = list[1]
  BY DEF Best
<1> QED BY <1>3, <1>4, <1>9, <1>10, <1>11 DEF u

LEMMA GuessIsSettled ==
  ASSUME Asked, NEW s, Sits(s), GuessedAt(s)
  PROVE  LET u == Settled(s)
         IN  /\ SpanOK(u) /\ SpanOK(s) /\ Covers(u) = Covers(s) /\ u.first = s.first /\ u.last = s.last
             /\ u.status \in {"resolved", "ambiguous"} /\ (u.status = "resolved" => Certain(s.candidates))
             /\ Best(u) = Best(s) /\ Best(u).kind = "fuzzy" /\ Meant(Best(u))
<1> DEFINE u == Settled(s)
           list == s.candidates
           S == Scored(Words(s.first, s.last))
<1>1. PICK full : GuessOf(s, full)
  BY GuessIs
<1>2. /\ list \in Seq(S) /\ list # <<>> /\ Ordered(list) /\ Settling(list) = list
      /\ \A c \in S : Meant(c) /\ c.kind = "fuzzy"
  BY <1>1, OfferedAre
<1> HIDE DEF S
<1>3. /\ u.first = s.first /\ u.last = s.last /\ Covers(u) = Covers(s)
      /\ u.status \in {"resolved", "ambiguous"} /\ (u.status = "resolved" => Certain(list))
      /\ u.candidates \in Seq(S) /\ u.candidates # <<>>
      /\ DOMAIN u.candidates \subseteq DOMAIN list
      /\ \A i \in DOMAIN u.candidates : u.candidates[i] = list[i]
      /\ Best(u) = list[1]
  <2>1. Settling(s.candidates) \in Seq(S) /\ Settling(s.candidates) # <<>> /\ Settling(s.candidates) = list
    BY <1>2
  <2> HIDE DEF list
  <2> QED BY <2>1, SettledIs
<1> HIDE DEF u, list
<1>4. DOMAIN list = 1..Len(list) /\ Len(list) \in Nat \ {0} /\ list[1] \in S
  BY <1>2, LenProperties, EmptySeq, ElementOfSeq
<1>5. Len(u.candidates) \in Nat \ {0} /\ DOMAIN u.candidates = 1..Len(u.candidates)
  BY <1>3, LenProperties, EmptySeq
<1>6. \A i \in DOMAIN list, j \in DOMAIN list : i <= j => list[i].score >= list[j].score
  BY <1>2, OrderedScores
<1>7. \A i \in 1 .. Len(u.candidates) - 1 : u.candidates[i].score >= u.candidates[i + 1].score
  <2>1. \A i \in 1 .. Len(u.candidates) - 1 :
          i \in DOMAIN u.candidates /\ i + 1 \in DOMAIN u.candidates /\ i <= i + 1
    BY <1>5
  <2> QED BY <1>3, <1>6, <2>1
<1>8. \A i \in 1 .. Len(list) - 1 : list[i].score >= list[i + 1].score
  <2>1. \A i \in 1 .. Len(list) - 1 : i \in DOMAIN list /\ i + 1 \in DOMAIN list /\ i <= i + 1
    BY <1>4
  <2> QED BY <1>6, <2>1
<1>9. s.first \in DOMAIN question /\ s.last \in s.first .. Len(question)
  BY Positions DEF Sits
<1>10. SpanOK(u)
  BY <1>3, <1>7, <1>9 DEF SpanOK
<1>11. SpanOK(s)
  BY <1>2, <1>8, <1>9 DEF SpanOK, list
<1>12. Best(s) = list[1] /\ Meant(list[1]) /\ list[1].kind = "fuzzy"
  BY <1>2, <1>4 DEF Best, list
<1> QED BY <1>3, <1>10, <1>11, <1>12 DEF u, list

LEMMA NameIsOK ==
  ASSUME Asked, NEW s, Sits(s), Named(s)
  PROVE  SpanOK(s)
<1> DEFINE list == s.candidates
           S == Indexed(Words(s.first, s.last))
<1>1. /\ list \in Seq(S) /\ list # <<>> /\ Ordered(list) /\ \A c \in S : Meant(c)
  BY NameIs DEF AreNames
<1> HIDE DEF S, list
<1>2. DOMAIN list = 1..Len(list) /\ Len(list) \in Nat
  BY <1>1, LenProperties
<1>3. \A i \in DOMAIN list, j \in DOMAIN list : i <= j => list[i].score >= list[j].score
  BY <1>1, OrderedScores
<1>4. \A i \in 1 .. Len(list) - 1 : list[i].score >= list[i + 1].score
  <2>1. \A i \in 1 .. Len(list) - 1 : i \in DOMAIN list /\ i + 1 \in DOMAIN list /\ i <= i + 1
    BY <1>2
  <2> QED BY <1>3, <2>1
<1>5. s.first \in DOMAIN question /\ s.last \in s.first .. Len(question)
  BY Positions DEF Sits
<1> QED BY <1>1, <1>4, <1>5 DEF SpanOK, list

(* The dimension of a span is one of those its settled value stands for. *)
LEMMA DimensionStays ==
  ASSUME IInv, Read, NEW s \in exact \union guesses
  PROVE  Dimension(Best(s)) \in Dimensions(Best(Settled(s)))
<1> DEFINE b == Best(s)
           c == Best(Settled(s))
<1>1. Asked /\ Sits(s)
  BY DEF IInv, Asked
<1>2. HasColumn(c) /\ c.class = b.class /\ b.column \in {c.column} \union c.others
  <2>1. CASE s \in exact
    <3>1. Named(s)
      BY <2>1 DEF Read
    <3>2. /\ Thing(c) = Thing(b) /\ HasColumn(c)
          /\ b.class # "enum" => c = b
          /\ b.class = "enum" => {c.column} \union c.others = ColumnsIn(s.candidates, b)
      BY <1>1, <3>1, NameSettles
    <3>3. b \in ToSet(s.candidates)
      BY <3>1, NameIs DEF Best
    <3> HIDE DEF b, c
    <3>4. b.column \in ColumnsIn(s.candidates, b)
      BY <3>3 DEF ColumnsIn
    <3>5. c.class = b.class
      BY <3>2 DEF Thing
    <3> QED BY <3>2, <3>4, <3>5
  <2>2. CASE s \in guesses
    <3>1. c = b /\ Meant(c)
      BY <1>1, <2>2, GuessIsSettled DEF Read
    <3> HIDE DEF b, c
    <3> QED BY <3>1, MeantHasColumn
  <2> QED BY <2>1, <2>2
<1> HIDE DEF b, c
<1> DEFINE d == [c EXCEPT !.column = b.column]
<1>3. d.column = b.column /\ d.class = b.class
  BY <1>2 DEF HasColumn
<1>4. d \in {[c EXCEPT !.column = column] : column \in {c.column} \union c.others}
  BY <1>2
<1> HIDE DEF d
<1>5. Dimension(d) = Dimension(b)
  BY <1>3 DEF Dimension
<1>6. Dimension(d) \in Dimensions(c)
  <2>1. PICK column \in {c.column} \union c.others : d = [c EXCEPT !.column = column]
    BY <1>4
  <2> QED BY <2>1 DEF Dimensions
<1> QED BY <1>5, <1>6 DEF b, c

LEMMA ByPositionIs ==
  ASSUME Asked, NEW set, \A s \in set : Sits(s), Apart(set)
  PROVE  /\ IsFiniteSet(set) /\ ByPosition(set) \in Seq(set) /\ ToSet(ByPosition(set)) = set
         /\ \A s, t \in set : s.first = t.first => s = t
<1>1. Len(question) \in Nat /\ DOMAIN question = 1..Len(question)
  BY Positions
<1>2. ASSUME NEW s \in set, NEW t \in set, s.first = t.first PROVE s = t
  <2>1. /\ s.first \in Int /\ s.last \in Int /\ s.first <= s.last
        /\ t.first \in Int /\ t.last \in Int /\ t.first <= t.last
    BY <1>1 DEF Sits
  <2>2. s.first \in Covers(s) /\ s.first \in Covers(t)
    BY <1>2, <2>1 DEF Covers
  <2> QED BY <2>2 DEF Apart
<1>3. IsFiniteSet(set)
  <2> DEFINE f == [s \in set |-> s.first]
  <2>1. f \in [set -> 1..Len(question)]
    BY <1>1 DEF Sits
  <2>2. \A s \in set, t \in set : f[s] = f[t] => s = t
    BY <1>2
  <2> HIDE DEF f
  <2>3. f \in Injection(set, 1..Len(question))
    BY <2>1, <2>2, Fun_IsInj
  <2>4. IsFiniteSet(1..Len(question))
    BY <1>1, FS_Interval
  <2> QED BY <2>3, <2>4, FS_Injection
<1> DEFINE key == [s \in set |-> <<s.first>>]
           list == SortedBy(key)
           N == Cardinality(DOMAIN key)
<1>4. DOMAIN key = set /\ \A s \in set : key[s] = <<s.first>>
  OBVIOUS
<1> HIDE DEF key
<1>5. Sortable(key)
  <2>1. \A s \in set : key[s] \in [1..1 -> Int] /\ key[s][1] = s.first
    <3> SUFFICES ASSUME NEW s \in set PROVE key[s] \in [1..1 -> Int] /\ key[s][1] = s.first
      OBVIOUS
    <3> DEFINE n == s.first
    <3>1. n \in Int /\ key[s] = <<n>>
      BY <1>1, <1>4 DEF Sits
    <3> HIDE DEF n
    <3>2. <<n>> \in Seq(Int) /\ Len(<<n>>) = 1 /\ <<n>>[1] = n
      BY <3>1
    <3>3. <<n>> \in [1..1 -> Int]
      BY <3>2, LenProperties
    <3> QED BY <3>1, <3>2, <3>3 DEF n
  <2>2. \E n \in Nat : \A x \in DOMAIN key : key[x] \in [1..n -> Int]
    <3>1. \A x \in DOMAIN key : key[x] \in [1..1 -> Int]
      BY <1>4, <2>1
    <3> QED BY <3>1
  <2>3. \A x, y \in DOMAIN key : key[x] = key[y] => x = y
    <3> SUFFICES ASSUME NEW x \in DOMAIN key, NEW y \in DOMAIN key, key[x] = key[y] PROVE x = y
      OBVIOUS
    <3>1. x \in set /\ y \in set /\ key[x][1] = x.first /\ key[y][1] = y.first
      BY <1>4, <2>1
    <3> QED BY <1>2, <3>1
  <2> QED BY <1>3, <1>4, <2>2, <2>3 DEF Sortable
<1>6. /\ N \in Nat /\ DOMAIN list = 1..N /\ list \in Seq(set)
      /\ \A i \in 1..N : list[i] \in set
      /\ \A x \in set : \E i \in 1..N : list[i] = x
  BY <1>4, <1>5, Sorted
<1>7. ByPosition(set) = list
  BY DEF ByPosition, key
<1> HIDE DEF list, N
<1>8. ToSet(list) = set
  <2>1. ToSet(list) = {list[i] : i \in 1..N}
    BY <1>6 DEF ToSet
  <2>2. ASSUME NEW x PROVE x \in ToSet(list) <=> x \in set
    BY <1>6, <2>1
  <2> QED BY <2>2
<1> QED BY <1>2, <1>3, <1>6, <1>7, <1>8

Deduped == DedupedSpans(ByPosition(exact) \o ByPosition(guesses))

(* Of the spans of a thing one stays, and if one of them is a name so is   *)
(* the one that stays.                                                     *)
LEMMA DedupedAre ==
  ASSUME IInv
  PROVE  /\ Deduped \subseteq exact \union guesses
         /\ IsFiniteSet(exact \union guesses)
         /\ \A s \in exact : \E t \in exact \cap Deduped : Thing(Best(t)) = Thing(Best(s))
         /\ \A s, t \in exact \union guesses : s.first = t.first => s = t
<1> DEFINE e == ByPosition(exact)
           g == ByPosition(guesses)
           list == e \o g
           m == Len(e)
           n == Len(g)
<1>1. Asked /\ (\A s \in exact \union guesses : Sits(s)) /\ Apart(exact) /\ Apart(guesses)
  BY DEF IInv, Asked, Taken, Guessed
<1>2. /\ IsFiniteSet(exact) /\ e \in Seq(exact) /\ ToSet(e) = exact
      /\ IsFiniteSet(guesses) /\ g \in Seq(guesses) /\ ToSet(g) = guesses
  BY <1>1, ByPositionIs
<1>3. Apart(exact \union guesses)
  <2>1. Covered(exact) \cap Covered(guesses) = {}
    BY DEF IInv, Guessed, Covered
  <2> QED BY <1>1, <2>1 DEF Apart, Covered
<1>4. \A s, t \in exact \union guesses : s.first = t.first => s = t
  BY <1>1, <1>3, ByPositionIs
<1> HIDE DEF e, g
<1>5. /\ m \in Nat /\ n \in Nat /\ DOMAIN e = 1..m /\ DOMAIN g = 1..n
      /\ \A i \in 1..m : e[i] \in exact
      /\ \A i \in 1..n : g[i] \in guesses
  BY <1>2, LenProperties, ElementOfSeq
<1>6. /\ DOMAIN list = 1..m + n
      /\ \A i \in 1..m + n : list[i] = IF i <= m THEN e[i] ELSE g[i - m]
  <2>1. e \in Seq(exact \union guesses) /\ g \in Seq(exact \union guesses)
    <3>1. e = [i \in 1..m |-> e[i]] /\ g = [i \in 1..n |-> g[i]]
      BY <1>2, <1>5, LenProperties
    <3>2. e \in [1..m -> exact \union guesses] /\ g \in [1..n -> exact \union guesses]
      BY <1>5, <3>1
    <3> QED BY <1>5, <3>2
  <2>2. /\ Len(list) = m + n /\ list \in Seq(exact \union guesses)
        /\ \A i \in 1..m + n : list[i] = IF i <= m THEN e[i] ELSE g[i - m]
    BY <2>1, ConcatProperties
  <2> HIDE DEF list
  <2> QED BY <2>2, LenProperties
<1> HIDE DEF list, m, n
<1>7. \A i \in 1..m : i \in 1..m + n /\ list[i] = e[i]
  BY <1>5, <1>6
<1>8. \A i \in 1..m + n : list[i] \in exact \union guesses
  <2> SUFFICES ASSUME NEW i \in 1..m + n PROVE list[i] \in exact \union guesses
    OBVIOUS
  <2>1. i <= m => i \in 1..m
    BY <1>5
  <2>2. ~(i <= m) => i - m \in 1..n
    BY <1>5
  <2> QED BY <1>5, <1>6, <2>1, <2>2
<1>9. Deduped = {list[i] : i \in {j \in DOMAIN list :
                   \A k \in 1 .. j - 1 : Thing(Best(list[k])) # Thing(Best(list[j]))}}
  BY DEF Deduped, DedupedSpans, list, e, g
<1>10. Deduped \subseteq exact \union guesses
  BY <1>6, <1>8, <1>9
<1>11. ASSUME NEW s \in exact
       PROVE  \E t \in exact \cap Deduped : Thing(Best(t)) = Thing(Best(s))
  <2> DEFINE T == {j \in 1..m : Thing(Best(list[j])) = Thing(Best(s))}
  <2>1. PICK i \in 1..m : e[i] = s
    BY <1>2, <1>5 DEF ToSet
  <2>2. i \in T
    BY <1>7, <2>1
  <2>3. T \in SUBSET Nat
    BY <1>5
  <2>4. PICK k \in T : \A j \in T : k <= j
    BY <2>2, <2>3, LeastNumber
  <2>5. k \in 1..m /\ Thing(Best(list[k])) = Thing(Best(s))
    OBVIOUS
  <2>6. \A j \in 1 .. k - 1 : Thing(Best(list[j])) # Thing(Best(list[k]))
    <3> SUFFICES ASSUME NEW j \in 1 .. k - 1, Thing(Best(list[j])) = Thing(Best(list[k])) PROVE FALSE
      OBVIOUS
    <3>1. j \in 1..m /\ ~(k <= j)
      BY <1>5, <2>5
    <3>2. j \in T
      BY <2>5, <3>1
    <3> QED BY <2>4, <3>1, <3>2
  <2> HIDE DEF T
  <2>7. list[k] \in Deduped
    BY <1>6, <1>7, <1>9, <2>5, <2>6
  <2>8. list[k] \in exact
    BY <1>5, <1>7, <2>5
  <2> QED BY <2>5, <2>7, <2>8
<1>12. IsFiniteSet(exact \union guesses)
  BY <1>2, FS_Union
<1> QED BY <1>4, <1>10, <1>11, <1>12

LEMMA SettledClass ==
  ASSUME IInv, Read, NEW s \in exact \union guesses
  PROVE  /\ SpanOK(Settled(s)) /\ Settled(s).first = s.first /\ Covers(Settled(s)) = Covers(s)
         /\ Settled(s).status \in {"resolved", "ambiguous"}
         /\ Thing(Best(Settled(s))) = Thing(Best(s))
         /\ Priority(Best(Settled(s)).class) \in Int
<1> DEFINE b == Best(s)
           c == Best(Settled(s))
<1>1. Asked /\ Sits(s)
  BY DEF IInv, Asked
<1>2. /\ SpanOK(Settled(s)) /\ Settled(s).first = s.first /\ Covers(Settled(s)) = Covers(s)
      /\ Settled(s).status \in {"resolved", "ambiguous"}
      /\ Thing(c) = Thing(b) /\ Meant(b)
  <2>1. CASE s \in exact
    <3>1. Named(s)
      BY <2>1 DEF Read
    <3>2. Meant(b)
      BY <3>1, NameIs DEF Best
    <3> QED BY <1>1, <3>1, <3>2, NameSettles
  <2>2. CASE s \in guesses
    <3>1. GuessedAt(s)
      BY <2>2 DEF Read
    <3>2. c = b /\ Meant(c)
      BY <1>1, <3>1, GuessIsSettled
    <3>3. /\ SpanOK(Settled(s)) /\ Settled(s).first = s.first /\ Covers(Settled(s)) = Covers(s)
          /\ Settled(s).status \in {"resolved", "ambiguous"}
      BY <1>1, <3>1, GuessIsSettled
    <3> HIDE DEF b, c
    <3> QED BY <3>2, <3>3
  <2> QED BY <2>1, <2>2
<1> HIDE DEF b, c
<1>3. c.class \in Classes
  <2>1. b.class \in Classes
    BY <1>2, Fields
  <2> QED BY <1>2, <2>1 DEF Thing
<1>4. Priority(c.class) \in Int
  BY <1>3 DEF Priority, Classes, Levels
<1> QED BY <1>2, <1>4 DEF b, c

(* The result has what the arbitration leaves, settled, once. *)
LEMMA ResultIs ==
  ASSUME IInv, Read, stage = "done"
  PROVE  /\ spans \in Seq({Settled(s) : s \in Kept})
         /\ \A i \in DOMAIN spans : \E s \in Kept : spans[i] = Settled(s)
         /\ \A s \in Kept : \E i \in DOMAIN spans : spans[i] = Settled(s)
         /\ \A i, j \in DOMAIN spans : i # j => spans[i] # spans[j]
         /\ Kept \subseteq exact \union guesses
<1> DEFINE D == {Settled(s) : s \in Kept}
           key == [u \in D |-> <<Priority(Best(u).class), u.first>>]
           N == Cardinality(DOMAIN key)
<1>1. /\ Deduped \subseteq exact \union guesses /\ IsFiniteSet(exact \union guesses)
      /\ \A s, t \in exact \union guesses : s.first = t.first => s = t
  BY DedupedAre
<1>2. Kept \subseteq exact \union guesses
  BY <1>1 DEF Kept, WithoutGlosses, Deduped
<1>3. IsFiniteSet(D)
  <2>1. IsFiniteSet(Kept)
    BY <1>1, <1>2, FS_Subset
  <2> DEFINE f == [s \in Kept |-> Settled(s)]
  <2>2. f \in Surjection(Kept, D)
    BY DEF Surjection
  <2> QED BY <2>1, <2>2, FS_Surjection
<1>4. ASSUME NEW u \in D
      PROVE  \E s \in Kept : u = Settled(s) /\ u.first = s.first /\ u.first \in Int
                             /\ Priority(Best(u).class) \in Int
  <2>1. PICK s \in Kept : u = Settled(s)
    OBVIOUS
  <2>2. s \in exact \union guesses
    BY <1>2
  <2>3. Settled(s).first = s.first /\ Priority(Best(Settled(s)).class) \in Int
    BY <2>2, SettledClass
  <2>4. s.first \in Int
    <3>1. s.first \in DOMAIN question
      BY <2>2 DEF IInv, Asked, Sits
    <3> QED BY <3>1, Positions DEF IInv
  <2> QED BY <2>1, <2>3, <2>4
<1>5. DOMAIN key = D /\ \A u \in D : key[u] = <<Priority(Best(u).class), u.first>>
  OBVIOUS
<1> HIDE DEF key, D
<1>6. ASSUME NEW u \in D PROVE key[u] \in [1..2 -> Int] /\ key[u][2] = u.first
  <2> DEFINE p == Priority(Best(u).class)
             n == u.first
  <2>1. p \in Int /\ n \in Int /\ key[u] = <<p, n>>
    BY <1>4, <1>5
  <2> HIDE DEF p, n
  <2>2. <<p, n>> \in Seq(Int) /\ Len(<<p, n>>) = 2 /\ <<p, n>>[2] = n
    BY <2>1
  <2>3. <<p, n>> \in [1..2 -> Int]
    BY <2>2, LenProperties
  <2> QED BY <2>1, <2>2, <2>3 DEF n
<1>7. Sortable(key)
  <2>1. \E n \in Nat : \A x \in DOMAIN key : key[x] \in [1..n -> Int]
    <3>1. \A x \in DOMAIN key : key[x] \in [1..2 -> Int]
      BY <1>5, <1>6
    <3> QED BY <3>1
  <2>2. ASSUME NEW x \in DOMAIN key, NEW y \in DOMAIN key, key[x] = key[y] PROVE x = y
    <3>1. x \in D /\ y \in D /\ x.first = y.first
      BY <1>5, <1>6, <2>2
    <3>2. PICK s \in Kept : x = Settled(s) /\ x.first = s.first
      BY <1>4, <3>1
    <3>3. PICK t \in Kept : y = Settled(t) /\ y.first = t.first
      BY <1>4, <3>1
    <3>4. s = t
      BY <1>1, <1>2, <3>1, <3>2, <3>3
    <3> QED BY <3>2, <3>3, <3>4
  <2> QED BY <1>3, <1>5, <2>1, <2>2 DEF Sortable
<1>8. spans = SortedBy(key)
  BY DEF Read, Result, key, D
<1>9. /\ N \in Nat /\ DOMAIN spans = 1..N /\ spans \in Seq(D)
      /\ \A i \in 1..N : spans[i] \in D
      /\ \A u \in D : \E i \in 1..N : spans[i] = u
      /\ \A i, j \in 1..N : i < j => spans[i] # spans[j]
  <2> DEFINE list == SortedBy(key)
  <2>1. /\ N \in Nat /\ DOMAIN list = 1..N /\ list \in Seq(D)
        /\ \A i \in 1..N : list[i] \in D
        /\ \A u \in D : \E i \in 1..N : list[i] = u
        /\ \A i, j \in 1..N : i < j => list[i] # list[j]
    BY <1>5, <1>7, Sorted
  <2> HIDE DEF list, N
  <2>2. spans = list
    BY <1>8 DEF list
  <2> QED BY <2>1, <2>2
<1> HIDE DEF N
<1>10. \A i, j \in DOMAIN spans : i # j => spans[i] # spans[j]
  BY <1>9
<1>11. \A i \in DOMAIN spans : \E s \in Kept : spans[i] = Settled(s)
  BY <1>9 DEF D
<1>12. \A s \in Kept : \E i \in DOMAIN spans : spans[i] = Settled(s)
  BY <1>9 DEF D
<1> QED BY <1>2, <1>9, <1>10, <1>11, <1>12 DEF D
-----------------------------------------------------------------------------
(* The theorems *)

(* What is taken, and what the guesses are read from, at every turn of the *)
(* loops of match_exact and _best_reading_of_run.                          *)
THEOREM Inductive == Spec => []IInv
<1>1. IInv /\ [Next]_vars => IInv'
  <2> SUFFICES ASSUME IInv, [Next]_vars PROVE IInv'
    OBVIOUS
  <2>1. CASE \E brackets \in Brackets : Arbitrate(brackets)
    BY <2>1, RestStep DEF Arbitrate
  <2>2. CASE UNCHANGED vars
    BY <2>2, RestStep DEF vars
  <2> QED BY <2>1, <2>2, TakeNameStep, EndExactStep, TakeReadingStep, EndGuessStep DEF Next
<1> QED BY Starts, <1>1, PTL DEF Spec

(* No word of a question is read twice, by two exact names, by two guesses *)
(* or by a name and a guess: the promise of the matcher's preamble.        *)
THEOREM WordsAreReadOnce == Spec => []Apart(exact \union guesses)
<1>1. ASSUME IInv PROVE Apart(exact \union guesses)
  <2>1. Covered(exact) \cap Covered(guesses) = {}
    BY <1>1 DEF IInv, Guessed, Covered
  <2> QED BY <1>1, <2>1 DEF IInv, Taken, Guessed, Apart, Covered
<1> QED BY <1>1, Inductive, PTL

(* match_exact passes a name over only for a longer one, or one as long    *)
(* and to its left, or for an OpCo's brand, whatever names the catalogue   *)
(* has.                                                                    *)
THEOREM LongestIsTaken == Spec => []LongestNameWins
<1>1. ASSUME IInv PROVE LongestNameWins
  <2> SUFFICES ASSUME stage # "exact", NEW first \in DOMAIN question, NEW last \in first .. Len(question),
                      IsName(first, last), first .. last \cap absorbed = {}
               PROVE  \E s \in exact :
                        /\ Covers(s) \cap first .. last # {}
                        /\ \/ s.last - s.first > last - first
                           \/ s.last - s.first = last - first /\ s.first <= first
    BY DEF LongestNameWins
  <2>1. last \in DOMAIN question /\ first <= last
    BY <1>1, Positions DEF IInv
  <2>2. \E s \in exact : PassedOverFor(first, last, s)
    BY <1>1, <2>1 DEF IInv, Taken
  <2> QED BY <2>2 DEF PassedOverFor
<1> QED BY <1>1, Inductive, PTL

(* match_fuzzy guesses only at words that no name, brand, filler or schema *)
(* word has taken and that the router lets be guessed, and keeps no guess  *)
(* that goes on with an exact name.                                        *)
THEOREM LicensedGuesses == Spec => []GuessesAreLicensed
<1>1. ASSUME IInv PROVE GuessesAreLicensed
  <2> SUFFICES ASSUME NEW s \in guesses
               PROVE  /\ Covers(s) \cap (Covered(exact) \union absorbed) = {}
                      /\ \A i \in Covers(s) :
                           /\ question[i] \notin Filler \union Schema
                           /\ phrases # None => question[i] \in phrases
                      /\ stage \in {"arbitrate", "done"} => \A e \in exact :
                           s.first = e.last + 1 \/ e.first = s.last + 1 =>
                             NameFamily(Best(s)) # NameFamily(Best(e))
    BY DEF GuessesAreLicensed
  <2>1. Covers(s) \subseteq open
    BY <1>1 DEF IInv, Guessed
  <2> QED BY <1>1, <2>1 DEF IInv, Guessed
<1> QED BY <1>1, Inductive, PTL

(* Every name and guess is what the dictionary makes of its words, and the *)
(* result what _arbitrate, span_status and slot_priority make of them.     *)
THEOREM ReadAsWritten == Spec => []Read
<1>1. Init => Read
  BY DEF Init, Read
<1>2. IInv /\ Read /\ [Next]_vars => Read'
  BY ReadStep
<1>3. Spec => []IInv
  BY Inductive
<1> QED BY <1>1, <1>2, <1>3, PTL DEF Spec

(* The spans, in the loops and in the result, are stretches of the         *)
(* question with candidates in order of rank; no two of the result cover   *)
(* one word.                                                               *)
THEOREM TypeCorrect == Spec => []TypeOK
<1>1. ASSUME IInv, Read PROVE TypeOK
  <2>1. Asked /\ (\A s \in exact \union guesses : Sits(s)) /\ stage \in {"exact", "guess", "arbitrate", "done"}
    BY <1>1 DEF IInv, Asked
  <2>2. \A s \in exact \union guesses : SpanOK(s)
    <3>1. \A s \in exact : SpanOK(s)
      BY <1>1, <2>1, NameIsOK DEF Read
    <3>2. \A s \in guesses : SpanOK(s)
      BY <1>1, <2>1, GuessIsSettled DEF Read
    <3> QED BY <3>1, <3>2
  <2>3. absorbed \union open \union bracketed \subseteq DOMAIN question
    <3>1. absorbed \subseteq DOMAIN question /\ open \subseteq DOMAIN question
      BY <1>1 DEF IInv, Guessed, Read
    <3>2. bracketed \subseteq DOMAIN question
      <4>1. CASE stage # "done"
        BY <1>1, <4>1 DEF Read
      <4>2. CASE stage = "done"
        <5>1. PICK first \in DOMAIN question, last \in DOMAIN question : bracketed = first .. last
          BY <1>1, <4>2 DEF Read, Brackets
        <5> QED BY <2>1, <5>1, Positions
      <4> QED BY <4>1, <4>2
    <3> QED BY <3>1, <3>2
  <2>4. CASE stage # "done"
    <3>1. spans = <<>>
      BY <1>1, <2>4 DEF Read
    <3> QED BY <2>1, <2>2, <2>3, <3>1 DEF TypeOK
  <2>5. CASE stage = "done"
    <3>1. /\ \A i \in DOMAIN spans : \E s \in Kept : spans[i] = Settled(s)
          /\ \A i, j \in DOMAIN spans : i # j => spans[i] # spans[j]
          /\ Kept \subseteq exact \union guesses
      BY <1>1, <2>5, ResultIs
    <3>2. \A i \in DOMAIN spans : SpanOK(spans[i]) /\ spans[i].status \in {"resolved", "ambiguous"}
      BY <1>1, <3>1, SettledClass
    <3>3. Apart(exact \union guesses)
      <4>1. Covered(exact) \cap Covered(guesses) = {}
        BY <1>1 DEF IInv, Guessed, Covered
      <4> QED BY <1>1, <4>1 DEF IInv, Taken, Guessed, Apart, Covered
    <3>4. ASSUME NEW i \in DOMAIN spans, NEW j \in DOMAIN spans, i # j
          PROVE  Covers(spans[i]) \cap Covers(spans[j]) = {}
      <4>1. PICK s \in Kept : spans[i] = Settled(s)
        BY <3>1
      <4>2. PICK t \in Kept : spans[j] = Settled(t)
        BY <3>1
      <4>3. s # t
        BY <3>1, <3>4, <4>1, <4>2
      <4>4. Covers(spans[i]) = Covers(s)
        <5>1. Covers(Settled(s)) = Covers(s)
          BY <1>1, <3>1, SettledClass
        <5> QED BY <4>1, <5>1
      <4>5. Covers(spans[j]) = Covers(t)
        <5>1. Covers(Settled(t)) = Covers(t)
          BY <1>1, <3>1, SettledClass
        <5> QED BY <4>2, <5>1
      <4> QED BY <3>1, <3>3, <4>3, <4>4, <4>5 DEF Apart
    <3> QED BY <2>1, <2>2, <2>3, <3>2, <3>4 DEF TypeOK
  <2> QED BY <2>4, <2>5
<1> QED BY <1>1, Inductive, ReadAsWritten, PTL

(* dedupe_spans and drop_bracketed_glosses lose no name that                *)
(* match_exact took: its thing is in the result, or, from within brackets,  *)
(* the place, category or column it would have filtered is.                 *)
THEOREM NamesAreKept == Spec => []NoNameIsLost
<1>1. ASSUME IInv, Read PROVE NoNameIsLost
  <2> SUFFICES ASSUME stage = "done", NEW s \in exact
               PROVE  \/ \E i \in DOMAIN spans : Thing(Best(spans[i])) = Thing(Best(s))
                      \/ \E t \in exact :
                           /\ Gloss(s, t)
                           /\ \E i \in DOMAIN spans : Dimension(Best(t)) \in Dimensions(Best(spans[i]))
    BY DEF NoNameIsLost
  <2>1. /\ \A t \in Kept : \E i \in DOMAIN spans : spans[i] = Settled(t)
        /\ Kept \subseteq exact \union guesses
    BY <1>1, ResultIs
  <2>2. Deduped \subseteq exact \union guesses
    BY <1>1, DedupedAre
  <2>3. PICK t \in exact \cap Deduped : Thing(Best(t)) = Thing(Best(s))
    BY <1>1, DedupedAre
  <2>4. Kept = {u \in Deduped :
                  ~(Covers(u) \subseteq bracketed /\ Dimension(Best(u)) \in Outside(Deduped, bracketed))}
    BY DEF Kept, WithoutGlosses, Deduped
  <2>5. CASE t \in Kept
    <3>1. PICK i \in DOMAIN spans : spans[i] = Settled(t)
      BY <2>1, <2>5
    <3>2. Thing(Best(Settled(t))) = Thing(Best(t))
      BY <1>1, <2>3, SettledClass
    <3> QED BY <2>3, <3>1, <3>2
  <2>6. CASE t \notin Kept
    <3>1. Covers(t) \subseteq bracketed /\ Dimension(Best(t)) \in Outside(Deduped, bracketed)
      BY <2>3, <2>4, <2>6
    <3>2. PICK u \in Deduped : Covers(u) \cap bracketed = {} /\ Dimension(Best(u)) = Dimension(Best(t))
      BY <3>1 DEF Outside
    <3>3. Covers(u) # {}
      <4>1. Sits(u)
        BY <1>1, <2>2 DEF IInv, Asked
      <4>2. u.first \in Covers(u)
        BY <1>1, <4>1, Positions DEF IInv, Sits, Covers
      <4> QED BY <4>2
    <3>4. u \in Kept
      BY <2>4, <3>2, <3>3
    <3>5. PICK i \in DOMAIN spans : spans[i] = Settled(u)
      BY <2>1, <3>4
    <3>6. Dimension(Best(u)) \in Dimensions(Best(Settled(u)))
      BY <1>1, <2>2, DimensionStays
    <3>7. Gloss(s, t)
      BY <2>3, <3>1 DEF Gloss
    <3> QED BY <2>3, <3>2, <3>5, <3>6, <3>7
  <2> QED BY <2>5, <2>6
<1> QED BY <1>1, Inductive, ReadAsWritten, PTL

(* _score_window and without_redundant_descendants offer no thing twice,    *)
(* nor beside its part, and leave out no alternative that none of those     *)
(* offered is, or has as a part, unless the list is full.                   *)
THEOREM ChoicesAreOffered == Spec => []OptionsAreChoices
<1>1. ASSUME IInv, Read PROVE OptionsAreChoices
  <2> SUFFICES ASSUME NEW s \in guesses
               PROVE  LET offered == ToSet(s.candidates)
                      IN  /\ \A c, d \in offered : c # d => Thing(c) # Thing(d) /\ ~Extends(c, d)
                          /\ Len(s.candidates) < MaxOptions =>
                               \A c \in Alternatives(s) : \E d \in offered :
                                 Thing(c) = Thing(d) \/ Extends(c, d)
    BY DEF OptionsAreChoices
  <2> DEFINE list == s.candidates
  <2>1. Asked /\ Sits(s) /\ GuessedAt(s)
    BY <1>1 DEF IInv, Asked, Read
  <2>2. /\ \E full : GuessOf(s, full)
        /\ AlternativesOf(Words(s.first, s.last), Family(Best(s).class)) = Alternatives(s)
    BY <2>1, GuessIs
  <2>3. PICK full : GuessOf(s, full)
    BY <2>2
  <2>4. /\ \A c, d \in ToSet(list) : c # d => Thing(c) # Thing(d)
        /\ \A c, d \in ToSet(list) : ~Extends(c, d)
        /\ Len(list) = IF MaxOptions <= Len(full) THEN MaxOptions ELSE Len(full)
    BY <2>1, <2>3, OfferedAre
  <2>5. /\ full \in Seq(Scored(Words(s.first, s.last))) /\ list = AtMost(MaxOptions, full)
        /\ \A c \in Alternatives(s) : \E d \in ToSet(full) :
             (Thing(c) = Thing(d) /\ d.score >= c.score) \/ Extends(c, d)
    BY <2>2, <2>3 DEF GuessOf, StandsFor
  <2> HIDE DEF list
  <2>6. MaxOptions \in Nat
    BY SettingsAssumption
  <2>7. Len(list) < MaxOptions => list = full
    <3>1. Len(full) \in Nat
      BY <2>5, LenProperties
    <3>2. Len(list) < MaxOptions => Len(full) <= MaxOptions
      BY <2>4, <2>6, <3>1
    <3>3. Len(full) <= MaxOptions => AtMost(MaxOptions, full) = full
      BY <2>5, <2>6, AtMostIs
    <3> QED BY <2>5, <3>2, <3>3
  <2> QED BY <2>4, <2>5, <2>7 DEF list
<1> QED BY <1>1, Inductive, ReadAsWritten, PTL

(* span_status calls a guess resolved only if it reaches the confident      *)
(* score and no alternative, offered or not, comes within the margin,       *)
(* unless it is a part of another.                                          *)
THEOREM SilenceIsSafe == Spec => []SilentOnlyIfAlone
<1>1. ASSUME IInv, Read PROVE SilentOnlyIfAlone
  <2>1. CASE stage # "done"
    <3>1. spans = <<>>
      BY <1>1, <2>1 DEF Read
    <3> QED BY <3>1 DEF SilentOnlyIfAlone
  <2>2. CASE stage = "done"
    <3> SUFFICES ASSUME NEW i \in DOMAIN spans, spans[i].status = "resolved", Best(spans[i]).kind = "fuzzy"
                 PROVE  /\ Best(spans[i]).score >= ConfidentScore
                        /\ \A c \in Alternatives(spans[i]) :
                             \/ Thing(c) = Thing(Best(spans[i]))
                             \/ \E d \in Alternatives(spans[i]) : Extends(c, d)
                             \/ c.score + Margin < Best(spans[i]).score
      BY DEF SilentOnlyIfAlone
    <3>1. PICK s \in Kept : spans[i] = Settled(s)
      BY <1>1, <2>2, ResultIs
    <3>2. s \in exact \union guesses
      BY <1>1, <2>2, ResultIs
    <3>3. Asked /\ Sits(s)
      BY <1>1, <3>2 DEF IInv, Asked
    <3>4. s \in guesses
      <4>1. ASSUME s \in exact PROVE FALSE
        <5>1. Named(s)
          BY <1>1, <4>1 DEF Read
        <5>2. Best(Settled(s)).kind = "exact"
          BY <3>3, <5>1, NameSettles
        <5> QED BY <3>1, <5>2
      <4> QED BY <3>2, <4>1
    <3>5. GuessedAt(s)
      BY <1>1, <3>4 DEF Read
    <3> DEFINE list == s.candidates
               words == Words(s.first, s.last)
               best == Best(spans[i])
    <3>6. /\ spans[i].first = s.first /\ spans[i].last = s.last /\ best = Best(s) /\ Certain(list)
      <4>1. LET u == Settled(s)
            IN  /\ u.first = s.first /\ u.last = s.last /\ Best(u) = Best(s)
                /\ u.status = "resolved" => Certain(s.candidates)
        BY <3>3, <3>5, GuessIsSettled
      <4> QED BY <3>1, <4>1
    <3>7. /\ \E full : GuessOf(s, full)
          /\ AlternativesOf(words, Family(Best(s).class)) = Alternatives(s)
      BY <3>3, <3>5, GuessIs
    <3>8. PICK full : GuessOf(s, full)
      BY <3>7
    <3>9. /\ list \in Seq(Scored(words)) /\ list # <<>>
          /\ \A c \in Scored(words) : Meant(c) /\ c.kind = "fuzzy"
          /\ Len(list) = IF MaxOptions <= Len(full) THEN MaxOptions ELSE Len(full)
          /\ \A k \in 1..Len(list) : list[k] = full[k]
      BY <3>3, <3>5, <3>8, OfferedAre
    <3>10. /\ full \in Seq(Scored(words)) /\ full # <<>> /\ Ordered(full)
           /\ ToSet(full) \subseteq Alternatives(s)
           /\ \A c \in Alternatives(s) : \E d \in ToSet(full) :
                (Thing(c) = Thing(d) /\ d.score >= c.score) \/ Extends(c, d)
      BY <3>7, <3>8 DEF GuessOf, StandsFor
    <3>11. Alternatives(spans[i]) = Alternatives(s)
      BY <3>6 DEF Alternatives
    <3>12. best = list[1]
      BY <3>6 DEF Best
    <3>13. /\ Len(list) > 1 => list[1].score - list[2].score > Margin
           /\ list[1].kind = "exact" \/ list[1].score >= ConfidentScore
      BY <3>6 DEF Certain
    <3> HIDE DEF list, words, best
    <3>14. /\ MaxOptions \in Nat \ {0, 1} /\ Margin \in Nat
           /\ Len(full) \in Nat \ {0} /\ DOMAIN full = 1..Len(full)
           /\ \A k \in DOMAIN full : full[k] \in Scored(words)
      BY <3>10, SettingsAssumption, LenProperties, EmptySeq, ElementOfSeq
    <3>15. 1 \in 1..Len(list) /\ list[1] = full[1]
      <4>1. 1 \in 1..Len(list)
        BY <3>9, <3>14
      <4> QED BY <3>9, <4>1
    <3>16. best.score >= ConfidentScore
      <4>1. list[1] \in Scored(words)
        BY <3>14, <3>15
      <4>2. list[1].kind = "fuzzy"
        BY <3>9, <4>1
      <4> QED BY <3>12, <3>13, <4>2
    <3>17. ASSUME NEW c \in Alternatives(s)
           PROVE  \/ Thing(c) = Thing(best)
                  \/ \E d \in Alternatives(s) : Extends(c, d)
                  \/ c.score + Margin < best.score
      <4>1. PICK d \in ToSet(full) : (Thing(c) = Thing(d) /\ d.score >= c.score) \/ Extends(c, d)
        BY <3>10
      <4>2. CASE Extends(c, d)
        BY <3>10, <4>2
      <4>3. CASE Thing(c) = Thing(d) /\ d.score >= c.score
        <5>1. PICK k \in DOMAIN full : d = full[k]
          BY DEF ToSet
        <5>2. CASE k = 1
          BY <3>12, <3>15, <4>3, <5>1, <5>2
        <5>3. CASE k # 1
          <6>1. k >= 2 /\ 2 \in DOMAIN full /\ Len(full) >= 2
            BY <3>14, <5>3
          <6>2. Len(list) > 1 /\ 2 \in 1..Len(list)
            BY <3>9, <3>14, <6>1
          <6>3. list[2] = full[2]
            BY <3>9, <6>2
          <6>4. full[2].score >= full[k].score
            BY <3>9, <3>10, <6>1, OrderedScores
          <6>5. list[1].score - full[2].score > Margin
            BY <3>13, <6>2, <6>3
          <6>6. /\ full[2].score \in Nat /\ full[k].score \in Nat /\ list[1].score \in Nat
            <7>1. Meant(full[2]) /\ Meant(full[k]) /\ Meant(full[1])
              BY <3>9, <3>14, <6>1
            <7> QED BY <3>15, <7>1, Fields
          <6>7. c.score \in Nat
            <7>1. c \in Scored(words)
              BY DEF Alternatives, words
            <7> QED BY <3>9, <7>1, Fields
          <6>8. c.score <= full[k].score
            BY <4>3, <5>1, <6>6, <6>7
          <6>9. c.score + Margin < list[1].score
            BY <3>14, <6>4, <6>5, <6>6, <6>7, <6>8, SMTT(30)
          <6> QED BY <3>12, <6>9
        <5> QED BY <5>2, <5>3
      <4> QED BY <4>1, <4>2, <4>3
    <3> QED BY <3>11, <3>16, <3>17 DEF best
  <2> QED BY <2>1, <2>2
<1> QED BY <1>1, Inductive, ReadAsWritten, PTL

(* collapse_enum_columns and dedupe_candidates hand an exact enum value on  *)
(* with every column that has it under the name given.                      *)
THEOREM NoColumnIsLost == Spec => []ColumnsAreKept
<1>1. ASSUME IInv, Read PROVE ColumnsAreKept
  <2>1. CASE stage # "done"
    <3>1. spans = <<>>
      BY <1>1, <2>1 DEF Read
    <3> QED BY <3>1 DEF ColumnsAreKept
  <2>2. CASE stage = "done"
    <3> SUFFICES ASSUME NEW i \in DOMAIN spans, Best(spans[i]).kind = "exact", Best(spans[i]).class = "enum"
                 PROVE  {Best(spans[i]).column} \union Best(spans[i]).others
                          = Columns(spans[i], {r \in DOMAIN Rows :
                                Words(spans[i].first, spans[i].last) \in AliasesOf[r]})
      BY DEF ColumnsAreKept, Carries
    <3>1. PICK s \in Kept : spans[i] = Settled(s)
      BY <1>1, <2>2, ResultIs
    <3>2. s \in exact \union guesses
      BY <1>1, <2>2, ResultIs
    <3>3. Asked /\ Sits(s)
      BY <1>1, <3>2 DEF IInv, Asked
    <3>4. s \in exact
      <4>1. ASSUME s \in guesses PROVE FALSE
        <5>1. GuessedAt(s)
          BY <1>1, <4>1 DEF Read
        <5>2. Best(Settled(s)).kind = "fuzzy"
          BY <3>3, <5>1, GuessIsSettled
        <5> QED BY <3>1, <5>2
      <4> QED BY <3>2, <4>1
    <3>5. Named(s)
      BY <1>1, <3>4 DEF Read
    <3> DEFINE u == spans[i]
               b == Best(s)
               list == s.candidates
               words == Words(s.first, s.last)
               named == {r \in DOMAIN Rows : words \in AliasesOf[r]}
    <3>6. /\ u.first = s.first /\ u.last = s.last /\ Thing(Best(u)) = Thing(b)
          /\ b.class = "enum" => {Best(u).column} \union Best(u).others = ColumnsIn(list, b)
      <4>1. LET v == Settled(s)
            IN  /\ v.first = s.first /\ v.last = s.last /\ Thing(Best(v)) = Thing(b)
                /\ b.class = "enum" => {Best(v).column} \union Best(v).others = ColumnsIn(list, b)
        BY <3>3, <3>5, NameSettles
      <4> QED BY <3>1, <4>1
    <3>7. b.class = "enum" /\ Best(u).value = b.value
      BY <3>6 DEF Thing
    <3>8. ToSet(list) = {c \in Indexed(words) : Family(c.class) = Family(b.class)}
      BY <3>5, NameIs DEF Best
    <3>9. Words(u.first, u.last) = words
      BY <3>6
    <3> HIDE DEF words, b, list, u
    <3>10. Columns(u, named) = {Rows[r].column : r \in {q \in named :
                                  Rows[q].class = "enum" /\ Rows[q].value = b.value}}
      BY <3>7 DEF Columns
    <3>11. ASSUME NEW column \in ColumnsIn(list, b) PROVE column \in Columns(u, named)
      <4>1. PICK c \in ToSet(list) : Thing(c) = Thing(b) /\ c.column = column
        BY DEF ColumnsIn
      <4>2. Meant(c) /\ words \in AliasesOf[c.row]
        BY <3>8, IndexedAre
      <4>3. c.row \in DOMAIN Rows
        BY <4>2 DEF Meant
      <4>4. Rows[c.row].class = "enum" /\ Rows[c.row].value = b.value /\ Rows[c.row].column = column
        <5>1. c.class = "enum" /\ c.value = b.value
          BY <3>7, <4>1 DEF Thing
        <5> QED BY <4>1, <4>2, <5>1, Fields
      <4> QED BY <3>10, <4>2, <4>3, <4>4
    <3>12. ASSUME NEW column \in Columns(u, named) PROVE column \in ColumnsIn(list, b)
      <4>1. PICK r \in named : Rows[r].class = "enum" /\ Rows[r].value = b.value /\ Rows[r].column = column
        BY <3>10
      <4>2. PICK c \in Indexed(words) : c.class = "enum" /\ c.value = b.value /\ c.column = column
        BY <4>1, IndexedHas
      <4>3. c \in ToSet(list) /\ Thing(c) = Thing(b)
        BY <3>7, <3>8, <4>2 DEF Thing
      <4> QED BY <4>2, <4>3 DEF ColumnsIn
    <3>13. ColumnsIn(list, b) = Columns(u, named)
      BY <3>11, <3>12
    <3> QED BY <3>6, <3>7, <3>9, <3>13 DEF u
  <2> QED BY <2>1, <2>2
<1> QED BY <1>1, Inductive, ReadAsWritten, PTL
=============================================================================
