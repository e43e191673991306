------------------------- MODULE ReferenceData_proofs -------------------------
(***************************************************************************)
(* What the loaders promise the service, for any seed files, roster and    *)
(* columns that the assumptions of ReferenceData admit.                    *)
(*                                                                         *)
(* A key is the number of paths before its own in an order that is strict  *)
(* and total, so it depends on the set of a catalogue's paths and on       *)
(* nothing else of the file, and no two paths share one.  What the tables, *)
(* the dictionaries and a plan hold are keys of some catalogue each; if    *)
(* theirs have the same paths the keys are the same.                       *)
(***************************************************************************)
EXTENDS ReferenceData, Functions, FiniteSetTheorems, SequenceTheorems, WellFoundedInduction, TLAPS

Catalogues == {Files[v].catalogue : v \in DOMAIN Files}
Glossaries == {Files[v].glossary : v \in DOMAIN Files}

(* The names are of the run that wrote the categories and the stores, with *)
(* the values of whatever glossary that run found.                         *)
Loaded ==
  /\ db = [categories |-> db.categories, stores |-> db.stores, lookup |-> db.lookup, glossary |-> db.glossary]
  /\ db.categories = {} \/ \E c \in Catalogues : db.categories = BuildCategoryNodes(c)
  /\ \A s \in db.stores : s.opco \in DOMAIN OpcoMeta
  /\ \/ db.lookup = {}
     \/ \E loaded \in Glossaries \union {{}}, file \in Glossaries :
          db.lookup = BuildLookupRows(db.categories, db.stores, ReadEnumValues(loaded, file))
  /\ db.glossary = {} \/ (db.glossary \in Glossaries /\ GlossaryIsValid(db.glossary))

(* What the service keeps has the keys of some catalogue, if not of the    *)
(* one that is loaded.                                                     *)
FromACatalogue(rows) ==
  Categories(rows) = {} \/ \E c \in Catalogues : Categories(rows) = CategoryRows(BuildCategoryNodes(c))
Remembered ==
  /\ DOMAIN dictionary = Served
  /\ \A role \in Served : dictionary[role] # None => FromACatalogue(dictionary[role])

Settled ==
  plan # None => \E c \in Catalogues :
    plan.among = PathsOf(c) /\ plan.path \in PathsOf(c) /\ plan.key = KeyOf(c, plan.path)

IInv == version \in DOMAIN Files /\ Loaded /\ Remembered /\ Settled

Levels == [1..4 -> DOMAIN Place \union {""}]
Records == [opco : DOMAIN Place, levels : Levels]
Names == Seq(DOMAIN Place)
-----------------------------------------------------------------------------
(* A nonempty set of numbers has a least. *)
LEMMA LeastNumber ==
  ASSUME NEW T \in SUBSET Nat, T # {}
  PROVE  \E m \in T : \A k \in T : m <= k
<1> DEFINE F == {0..m : m \in T}
<1>1. F \subseteq FiniteSubsetsOf(Nat) /\ F # {}
  <2>1. \A m \in T : 0..m \in SUBSET Nat /\ IsFiniteSet(0..m)
    BY FS_Interval
  <2> QED BY <2>1 DEF FiniteSubsetsOf
<1>2. PICK x \in F : \A y \in F : ~(<<y, x>> \in StrictSubsetOrdering(Nat))
  BY <1>1, FS_StrictSubsetOrderingWellFounded, WFMin
<1>3. PICK m \in T : x = 0..m
  BY DEF F
<1>4. \A k \in T : m <= k
  <2> SUFFICES ASSUME NEW k \in T, k < m PROVE FALSE
    OBVIOUS
  <2>1. 0..k \in F /\ 0..k \subseteq 0..m /\ m \in 0..m /\ m \notin 0..k
    OBVIOUS
  <2>2. <<0..k, 0..m>> \in StrictSubsetOrdering(Nat)
    BY <2>1 DEF StrictSubsetOrdering
  <2> QED BY <1>2, <1>3, <2>1, <2>2
<1> QED BY <1>4
-----------------------------------------------------------------------------
(* The paths of a catalogue *)

Blank(record, i) == record.levels[i] = ""

(* A branch ends at its first blank. *)
LEMMA DepthOf ==
  ASSUME NEW record \in Records
  PROVE  Depth(record) \in 0..4 /\ \A i \in 1..Depth(record) : ~Blank(record, i)
<1> DEFINE Ends(d) == (\A i \in 1..d : ~Blank(record, i)) /\ (d < 4 => Blank(record, d + 1))
<1>1. \E d \in 0..4 : Ends(d)
  <2>1. CASE Blank(record, 1)
    BY <2>1
  <2>2. CASE ~Blank(record, 1) /\ Blank(record, 2)
    <3>1. Ends(1)
      BY <2>2
    <3> QED BY <3>1
  <2>3. CASE ~Blank(record, 1) /\ ~Blank(record, 2) /\ Blank(record, 3)
    <3>1. \A i \in 1..2 : i = 1 \/ i = 2
      OBVIOUS
    <3>2. Ends(2)
      BY <2>3, <3>1
    <3> QED BY <3>2
  <2>4. CASE ~Blank(record, 1) /\ ~Blank(record, 2) /\ ~Blank(record, 3) /\ Blank(record, 4)
    <3>1. \A i \in 1..3 : i = 1 \/ i = 2 \/ i = 3
      OBVIOUS
    <3>2. Ends(3)
      BY <2>4, <3>1
    <3> QED BY <3>2
  <2>5. CASE ~Blank(record, 1) /\ ~Blank(record, 2) /\ ~Blank(record, 3) /\ ~Blank(record, 4)
    <3>1. \A i \in 1..4 : i = 1 \/ i = 2 \/ i = 3 \/ i = 4
      OBVIOUS
    <3>2. Ends(4)
      BY <2>5, <3>1
    <3> QED BY <3>2
  <2> QED BY <2>1, <2>2, <2>3, <2>4, <2>5
<1>2. Depth(record) = CHOOSE d \in 0..4 : Ends(d)
  BY DEF Depth, Blank
<1> HIDE DEF Ends
<1>3. Depth(record) \in 0..4 /\ Ends(Depth(record))
  BY <1>1, <1>2
<1> QED BY <1>3 DEF Ends

LEMMA PathIs ==
  ASSUME NEW record \in Records, NEW d \in 1..Depth(record)
  PROVE  LET p == Path(record, d)
         IN  /\ p \in Names /\ Len(p) = d + 1
             /\ \A k \in 1..d : SubSeq(p, 1, k + 1) = Path(record, k)
<1>1. Depth(record) \in 0..4
  BY DepthOf
<1>2. d \in 1..4
  BY <1>1
<1> DEFINE levels == record.levels
           Cut(k) == SubSeq(levels, 1, k)
<1>3. ASSUME NEW k \in 1..d
      PROVE  /\ Cut(k) \in Names /\ Len(Cut(k)) = k /\ k \in Nat
             /\ \A i \in 1..k : Cut(k)[i] = levels[i]
  <2>1. k \in 1..4
    BY <1>2
  <2>2. ASSUME NEW i \in 1..k PROVE levels[i] \in DOMAIN Place
    <3>1. i \in 1..4 /\ i \in 1..Depth(record)
      BY <1>1, <2>1
    <3>2. levels[i] \in DOMAIN Place \union {""}
      BY <3>1 DEF Records, Levels
    <3>3. levels[i] # ""
      BY <3>1, DepthOf DEF Blank
    <3> QED BY <3>2, <3>3
  <2> HIDE DEF levels
  <2>3. /\ Cut(k) \in Seq(DOMAIN Place)
        /\ Len(Cut(k)) = IF 1 <= k THEN k - 1 + 1 ELSE 0
        /\ \A i \in 1..(k - 1 + 1) : Cut(k)[i] = levels[1 + i - 1]
    BY <2>1, <2>2, SubSeqProperties
  <2> HIDE DEF Cut
  <2> QED BY <2>1, <2>3 DEF Names
<1>4. ASSUME NEW k \in 1..d
      PROVE  /\ Path(record, k) \in Names /\ Len(Path(record, k)) = k + 1
             /\ Path(record, k)[1] = record.opco
             /\ \A i \in 1..k : Path(record, k)[i + 1] = levels[i]
  <2>1. /\ Cut(k) \in Names /\ Len(Cut(k)) = k /\ k \in Nat
        /\ \A i \in 1..k : Cut(k)[i] = levels[i]
    BY <1>3
  <2>2. record.opco \in DOMAIN Place
    BY DEF Records
  <2>3. Path(record, k) = <<record.opco>> \o Cut(k)
    BY DEF Path
  <2> HIDE DEF Cut
  <2>4. <<record.opco>> \in Names /\ Len(<<record.opco>>) = 1
    BY <2>2 DEF Names
  <2> QED BY <2>1, <2>2, <2>3, <2>4 DEF Names
<1>5. ASSUME NEW k \in 1..d
      PROVE  SubSeq(Path(record, d), 1, k + 1) = Path(record, k)
  <2> DEFINE p == Path(record, d)
             q == Path(record, k)
             c == SubSeq(p, 1, k + 1)
  <2>1. /\ p \in Names /\ Len(p) = d + 1 /\ p[1] = record.opco
        /\ \A i \in 1..d : p[i + 1] = levels[i]
    BY <1>4
  <2>2. /\ q \in Names /\ Len(q) = k + 1 /\ q[1] = record.opco
        /\ \A i \in 1..k : q[i + 1] = levels[i]
    BY <1>4
  <2> HIDE DEF p, q
  <2>3. c \in Names /\ Len(c) = k + 1 /\ \A i \in 1..(k + 1) : c[i] = p[i]
    BY <1>2, <2>1 DEF Names
  <2>4. \A i \in 1..(k + 1) : c[i] = q[i]
    <3> SUFFICES ASSUME NEW i \in 1..(k + 1) PROVE c[i] = q[i]
      OBVIOUS
    <3>1. CASE i = 1
      BY <2>1, <2>2, <2>3, <3>1
    <3>2. CASE i # 1
      <4>1. i - 1 \in 1..k /\ i = (i - 1) + 1
        BY <1>2, <3>2
      <4>2. PICK j \in 1..k : i = j + 1
        BY <4>1
      <4>3. j \in 1..d
        BY <1>2
      <4>4. p[j + 1] = levels[j] /\ q[j + 1] = levels[j]
        BY <2>1, <2>2, <4>3
      <4> QED BY <2>3, <4>2, <4>4
    <3> QED BY <3>1, <3>2
  <2>5. c = q
    BY <2>2, <2>3, <2>4, SeqEqual DEF Names
  <2> QED BY <2>5 DEF p, q
<1> QED BY <1>4, <1>5

LEMMA PathsOfIs ==
  ASSUME NEW catalogue \in Seq(Records), NEW p \in PathsOf(catalogue)
  PROVE  /\ p \in Names /\ Len(p) \in 2..5
         /\ \A k \in 2..Len(p) : SubSeq(p, 1, k) \in PathsOf(catalogue)
<1>1. PICK i \in DOMAIN catalogue : \E d \in 1..Depth(catalogue[i]) : p = Path(catalogue[i], d)
  BY DEF PathsOf
<1>2. PICK d \in 1..Depth(catalogue[i]) : p = Path(catalogue[i], d)
  BY <1>1
<1>3. catalogue[i] \in Records
  OBVIOUS
<1>4. Depth(catalogue[i]) \in 0..4
  BY <1>3, DepthOf
<1>5. /\ p \in Names /\ Len(p) = d + 1
      /\ \A k \in 1..d : SubSeq(p, 1, k + 1) = Path(catalogue[i], k)
  BY <1>2, <1>3, PathIs
<1>6. ASSUME NEW k \in 2..Len(p) PROVE SubSeq(p, 1, k) \in PathsOf(catalogue)
  <2>1. k - 1 \in 1..d /\ k - 1 \in 1..Depth(catalogue[i]) /\ (k - 1) + 1 = k
    BY <1>4, <1>5
  <2>2. SubSeq(p, 1, (k - 1) + 1) = Path(catalogue[i], k - 1)
    BY <1>5, <2>1
  <2>3. SubSeq(p, 1, k) = Path(catalogue[i], k - 1)
    BY <2>1, <2>2
  <2> QED BY <2>1, <2>3 DEF PathsOf
<1> QED BY <1>4, <1>5, <1>6

LEMMA PathsAreFinite ==
  ASSUME NEW catalogue \in Seq(Records)
  PROVE  IsFiniteSet(PathsOf(catalogue))
<1> DEFINE places == (DOMAIN catalogue) \X (1..4)
           Of == [x \in places |-> Path(catalogue[x[1]], x[2])]
           all == {Of[x] : x \in places}
<1>1. IsFiniteSet(places)
  <2>1. IsFiniteSet(DOMAIN catalogue)
    <3>1. DOMAIN catalogue = 1..Len(catalogue) /\ Len(catalogue) \in Nat
      OBVIOUS
    <3> QED BY <3>1, FS_Interval
  <2>2. 1 \in Int /\ 4 \in Int
    OBVIOUS
  <2>3. IsFiniteSet(1..4)
    BY <2>2, FS_Interval
  <2> QED BY <2>1, <2>3, FS_Product
<1>2. Of \in Surjection(places, all)
  BY DEF Surjection
<1>3. IsFiniteSet(all)
  BY <1>1, <1>2, FS_Surjection
<1>4. PathsOf(catalogue) \subseteq all
  <2> SUFFICES ASSUME NEW p \in PathsOf(catalogue) PROVE p \in all
    OBVIOUS
  <2>1. PICK i \in DOMAIN catalogue : \E d \in 1..Depth(catalogue[i]) : p = Path(catalogue[i], d)
    BY DEF PathsOf
  <2>2. PICK d \in 1..Depth(catalogue[i]) : p = Path(catalogue[i], d)
    BY <2>1
  <2>3. d \in 1..4
    <3> Depth(catalogue[i]) \in 0..4
      BY DepthOf
    <3> QED OBVIOUS
  <2>4. <<i, d>> \in places
    BY <2>3
  <2>5. Of[<<i, d>>] = p
    BY <2>2, <2>4
  <2> HIDE DEF Of, places
  <2> QED BY <2>4, <2>5
<1> QED BY <1>3, <1>4, FS_Subset
-----------------------------------------------------------------------------
(* The order of the paths is strict and total *)

LEMMA PlacesAreNumbers ==
  ASSUME NEW p \in Names, NEW i \in DOMAIN p
  PROVE  p[i] \in DOMAIN Place /\ Place[p[i]] \in Int
BY PlaceAssumption DEF Names

LEMMA NoPathPrecedesItself ==
  ASSUME NEW p \in Names, Len(p) >= 1
  PROVE  ~Precedes(p, p)
<1>1. 1 \in DOMAIN p /\ DOMAIN p = 1..Len(p) /\ Len(p) \in Nat
  BY DEF Names
<1>2. \A i \in DOMAIN p : Place[p[i]] \in Int
  BY PlacesAreNumbers
<1> QED BY <1>1, <1>2 DEF Precedes

(* The place where the names of two paths of one length first differ. *)
FirstDiffer(p, q, i) ==
  i \in DOMAIN p /\ p[i] # q[i] /\ (\A j \in 1..(i - 1) : p[j] = q[j])

LEMMA PathsDiffer ==
  ASSUME NEW p \in Names, NEW q \in Names, Len(p) = Len(q), p # q
  PROVE  \E i \in DOMAIN p : FirstDiffer(p, q, i)
<1> DEFINE T == {i \in 1..Len(p) : p[i] # q[i]}
<1>1. Len(p) \in Nat /\ DOMAIN p = 1..Len(p)
  BY DEF Names
<1>2. T # {}
  BY SeqEqual DEF Names
<1>3. T \in SUBSET Nat
  BY <1>1
<1>4. PICK i \in T : \A k \in T : i <= k
  BY <1>2, <1>3, LeastNumber
<1>5. \A j \in 1..(i - 1) : j \in 1..Len(p) /\ ~(i <= j)
  BY <1>1, <1>4
<1>6. \A j \in 1..(i - 1) : p[j] = q[j]
  BY <1>4, <1>5
<1> QED BY <1>1, <1>4, <1>6 DEF FirstDiffer

LEMMA OnePrecedes ==
  ASSUME NEW p \in Names, NEW q \in Names, Len(p) >= 1, Len(q) >= 1, p # q
  PROVE  Precedes(p, q) \/ Precedes(q, p)
<1>1. /\ Len(p) \in Nat /\ DOMAIN p = 1..Len(p) /\ 1 \in DOMAIN p
      /\ Len(q) \in Nat /\ DOMAIN q = 1..Len(q) /\ 1 \in DOMAIN q
  BY DEF Names
<1>2. /\ \A i \in DOMAIN p : p[i] \in DOMAIN Place /\ Place[p[i]] \in Int
      /\ \A i \in DOMAIN q : q[i] \in DOMAIN Place /\ Place[q[i]] \in Int
  BY PlacesAreNumbers
<1>3. CASE p[1] # q[1]
  <2>1. Place[p[1]] # Place[q[1]] /\ Place[p[1]] \in Int /\ Place[q[1]] \in Int
    BY <1>1, <1>2, <1>3, PlaceAssumption
  <2> QED BY <2>1 DEF Precedes
<1>4. CASE p[1] = q[1] /\ Len(p) # Len(q)
  <2>0. Len(p) \in Nat /\ Len(q) \in Nat /\ Len(p) # Len(q)
    BY <1>1, <1>4
  <2>1. Len(p) < Len(q) \/ Len(q) < Len(p)
    BY <2>0
  <2> QED BY <1>4, <2>1 DEF Precedes
<1>5. CASE p[1] = q[1] /\ Len(p) = Len(q)
  <2>1. PICK i \in DOMAIN p : FirstDiffer(p, q, i)
    BY <1>5, PathsDiffer
  <2>2. /\ i \in DOMAIN p /\ i \in DOMAIN q /\ p[i] # q[i]
        /\ \A j \in 1..(i - 1) : p[j] = q[j] /\ q[j] = p[j]
    BY <1>1, <1>5, <2>1 DEF FirstDiffer
  <2>3. Place[p[i]] < Place[q[i]] \/ Place[q[i]] < Place[p[i]]
    <3>1. Place[p[i]] # Place[q[i]] /\ Place[p[i]] \in Int /\ Place[q[i]] \in Int
      BY <1>2, <2>2, PlaceAssumption
    <3> QED BY <3>1
  <2> QED BY <1>5, <2>2, <2>3 DEF Precedes
<1> QED BY <1>3, <1>4, <1>5

Differs(p, q) == \E i \in DOMAIN p : Place[p[i]] < Place[q[i]] /\ (\A j \in 1..(i - 1) : p[j] = q[j])

LEMMA DiffersIsTransitive ==
  ASSUME NEW p \in Names, NEW q \in Names, NEW r \in Names,
         Len(p) = Len(q), Len(q) = Len(r), Differs(p, q), Differs(q, r)
  PROVE  Differs(p, r)
<1>1. DOMAIN p = 1..Len(p) /\ DOMAIN q = DOMAIN p /\ DOMAIN r = DOMAIN p /\ Len(p) \in Nat
  BY DEF Names
<1>2. \A i \in DOMAIN p : Place[p[i]] \in Int /\ Place[q[i]] \in Int /\ Place[r[i]] \in Int
  BY <1>1, PlacesAreNumbers
<1>3. PICK i \in DOMAIN p : Place[p[i]] < Place[q[i]] /\ (\A j \in 1..(i - 1) : p[j] = q[j])
  BY DEF Differs
<1>4. PICK k \in DOMAIN p : Place[q[k]] < Place[r[k]] /\ (\A j \in 1..(k - 1) : q[j] = r[j])
  BY <1>1 DEF Differs
<1>5. i \in Nat /\ k \in Nat /\ i >= 1 /\ k >= 1
  BY <1>1
<1>6. CASE i < k
  <2>1. i \in 1..(k - 1) /\ \A j \in 1..(i - 1) : j \in 1..(k - 1)
    BY <1>5, <1>6
  <2>2. Place[p[i]] < Place[r[i]] /\ \A j \in 1..(i - 1) : p[j] = r[j]
    BY <1>3, <1>4, <2>1
  <2> QED BY <2>2 DEF Differs
<1>7. CASE k < i
  <2>1. k \in 1..(i - 1) /\ \A j \in 1..(k - 1) : j \in 1..(i - 1)
    BY <1>5, <1>7
  <2>2. Place[p[k]] < Place[r[k]] /\ \A j \in 1..(k - 1) : p[j] = r[j]
    BY <1>3, <1>4, <2>1
  <2> QED BY <2>2 DEF Differs
<1>8. CASE i = k
  <2>1. Place[p[i]] < Place[r[i]]
    BY <1>2, <1>3, <1>4, <1>8
  <2>2. \A j \in 1..(i - 1) : p[j] = r[j]
    BY <1>3, <1>4, <1>8
  <2> QED BY <2>1, <2>2 DEF Differs
<1> QED BY <1>5, <1>6, <1>7, <1>8

LEMMA PrecedesIsTransitive ==
  ASSUME NEW p \in Names, NEW q \in Names, NEW r \in Names,
         Len(p) >= 1, Len(q) >= 1, Len(r) >= 1, Precedes(p, q), Precedes(q, r)
  PROVE  Precedes(p, r)
<1> DEFINE Start(x) == Place[x[1]]
<1>1. \A x, y : Precedes(x, y) <=>
        \/ Start(x) < Start(y)
        \/ x[1] = y[1] /\ Len(x) < Len(y)
        \/ x[1] = y[1] /\ Len(x) = Len(y) /\ Differs(x, y)
  BY DEF Precedes, Differs
<1>2. Start(p) \in Int /\ Start(q) \in Int /\ Start(r) \in Int
  <2> 1 \in DOMAIN p /\ 1 \in DOMAIN q /\ 1 \in DOMAIN r
    BY DEF Names
  <2> QED BY PlacesAreNumbers
<1>3. Len(p) \in Nat /\ Len(q) \in Nat /\ Len(r) \in Nat
  BY DEF Names
<1>4. \A x, y : x[1] = y[1] => Start(x) = Start(y)
  OBVIOUS
<1> HIDE DEF Start
<1>5. CASE Start(p) < Start(q) \/ Start(q) < Start(r)
  <2>1. Start(p) < Start(q) \/ Start(p) = Start(q)
    BY <1>1, <1>4
  <2>2. Start(q) < Start(r) \/ Start(q) = Start(r)
    BY <1>1, <1>4
  <2>3. Start(p) < Start(r)
    BY <1>2, <1>5, <2>1, <2>2
  <2> QED BY <1>1, <2>3
<1>6. CASE ~(Start(p) < Start(q)) /\ ~(Start(q) < Start(r))
  <2>a. \/ Start(p) < Start(q)
        \/ p[1] = q[1] /\ Len(p) < Len(q)
        \/ p[1] = q[1] /\ Len(p) = Len(q) /\ Differs(p, q)
    BY <1>1
  <2>b. \/ Start(q) < Start(r)
        \/ q[1] = r[1] /\ Len(q) < Len(r)
        \/ q[1] = r[1] /\ Len(q) = Len(r) /\ Differs(q, r)
    BY <1>1
  <2>1. p[1] = q[1] /\ (Len(p) < Len(q) \/ (Len(p) = Len(q) /\ Differs(p, q)))
    BY <2>a, <1>6
  <2>2. q[1] = r[1] /\ (Len(q) < Len(r) \/ (Len(q) = Len(r) /\ Differs(q, r)))
    BY <2>b, <1>6
  <2>3. CASE Len(p) < Len(q) \/ Len(q) < Len(r)
    <3>1. Len(p) < Len(q) \/ Len(p) = Len(q)
      BY <2>1
    <3>2. Len(q) < Len(r) \/ Len(q) = Len(r)
      BY <2>2
    <3>3. Len(p) < Len(r)
      BY <1>3, <2>3, <3>1, <3>2
    <3> QED BY <1>1, <2>1, <2>2, <3>3
  <2>4. CASE ~(Len(p) < Len(q)) /\ ~(Len(q) < Len(r))
    <3>1. Len(p) = Len(q) /\ Len(q) = Len(r) /\ Differs(p, q) /\ Differs(q, r)
      BY <2>1, <2>2, <2>4
    <3>2. Differs(p, r)
      BY <3>1, DiffersIsTransitive
    <3> QED BY <1>1, <2>1, <2>2, <3>1, <3>2
  <2> QED BY <2>3, <2>4
<1> QED BY <1>5, <1>6

(* No two categories of a catalogue share a key. *)
LEMMA KeysDiffer ==
  ASSUME NEW catalogue \in Seq(Records), NEW p \in PathsOf(catalogue), NEW q \in PathsOf(catalogue),
         KeyOf(catalogue, p) = KeyOf(catalogue, q)
  PROVE  p = q
<1> DEFINE Below(r) == {x \in PathsOf(catalogue) : Precedes(x, r)}
<1>1. ASSUME NEW x \in PathsOf(catalogue) PROVE x \in Names /\ Len(x) >= 1
  <2>1. x \in Names /\ Len(x) \in 2..5
    BY PathsOfIs
  <2> QED BY <2>1
<1>2. \A r : IsFiniteSet(Below(r)) /\ Cardinality(Below(r)) \in Nat
  BY PathsAreFinite, FS_Subset, FS_CardinalityType
<1>3. Cardinality(Below(p)) = Cardinality(Below(q))
  <2>1. KeyOf(catalogue, p) = 1000 + Cardinality(Below(p)) /\ KeyOf(catalogue, q) = 1000 + Cardinality(Below(q))
    BY DEF KeyOf, CategoryKeyBase
  <2>2. Cardinality(Below(p)) \in Nat /\ Cardinality(Below(q)) \in Nat
    BY <1>2
  <2>3. \A m, n \in Nat : 1000 + m = 1000 + n => m = n
    OBVIOUS
  <2>4. 1000 + Cardinality(Below(p)) = 1000 + Cardinality(Below(q))
    <3>1. KeyOf(catalogue, p) = KeyOf(catalogue, q)
      OBVIOUS
    <3> HIDE DEF Below
    <3>2. KeyOf(catalogue, q) = 1000 + Cardinality(Below(p))
      BY <2>1, <3>1
    <3>3. KeyOf(catalogue, q) = 1000 + Cardinality(Below(q))
      BY <2>1
    <3> QED BY <3>2, <3>3
  <2> QED BY <2>2, <2>3, <2>4
<1>4. ASSUME NEW r \in PathsOf(catalogue), NEW t \in PathsOf(catalogue), Precedes(r, t),
             Cardinality(Below(r)) = Cardinality(Below(t))
      PROVE  FALSE
  <2>1. Below(r) \subseteq Below(t)
    BY <1>1, <1>4, PrecedesIsTransitive
  <2>2. Below(r) = Below(t)
    BY <1>2, <1>4, <2>1, FS_Subset
  <2>3. r \in Below(t)
    BY <1>4
  <2> QED BY <1>1, <2>2, <2>3, NoPathPrecedesItself
<1>5. ~Precedes(p, q) /\ ~Precedes(q, p)
  BY <1>3, <1>4
<1> QED BY <1>1, <1>5, OnePrecedes
-----------------------------------------------------------------------------
(* The inductive invariant *)

LEMMA FilesAre ==
  ASSUME NEW v \in DOMAIN Files
  PROVE  /\ Files[v].catalogue \in Catalogues /\ Files[v].glossary \in Glossaries
         /\ Files[v].catalogue \in Seq(Records)
BY FilesAssumption DEF Catalogues, Glossaries, Records, Levels

LEMMA CataloguesAre ==
  ASSUME NEW c \in Catalogues
  PROVE  c \in Seq(Records)
BY FilesAre DEF Catalogues

LEMMA StoresAreOfTheRoster ==
  ASSUME NEW v \in DOMAIN Files, Loadable(Files[v]), NEW s \in StoresOf(Files[v].stores)
  PROVE  s.opco \in DOMAIN OpcoMeta
<1>1. PICK i \in DOMAIN Files[v].stores : s = Files[v].stores[i]
  BY DEF StoresOf
<1>2. Files[v].stores[i].opco \in OpcosOf(Files[v])
  BY DEF OpcosOf
<1> QED BY <1>1, <1>2 DEF Loadable

(* The other classes of names are not categories. *)
LEMMA CategoriesOfLookup ==
  ASSUME NEW nodes, NEW stores, NEW values
  PROVE  Categories(BuildLookupRows(nodes, stores, values)) = CategoryRows(nodes)
<1>1. \A r \in CategoryRows(nodes) : r.class = "category"
  BY DEF CategoryRows, LookupRow
<1>2. ASSUME NEW r \in OpcoRows PROVE r.class = "opco"
  <2>1. PICK label, code : r = LookupRow("opco", "opco_code", label, code, <<>>, None)
    BY DEF OpcoRows
  <2> QED BY <2>1 DEF LookupRow
<1>3. ASSUME NEW r \in StoreRows(stores) PROVE r.class = "store"
  <2>1. PICK s : r = LookupRow("store", "store_name", s.name, s.opco, <<>>, s.id)
    BY DEF StoreRows
  <2> QED BY <2>1 DEF LookupRow
<1>4. ASSUME NEW r \in StoreTypeRows(stores) PROVE r.class = "enum"
  <2>1. PICK s : r = LookupRow("enum", "store_type", s.type, s.opco, <<>>, None)
    BY DEF StoreTypeRows
  <2> QED BY <2>1 DEF LookupRow
<1>5. \A e : LookupRow("enum", e.column, e.value, "", <<>>, None).class # "category"
  BY DEF LookupRow
<1> QED BY <1>1, <1>2, <1>3, <1>4, <1>5 DEF Categories, BuildLookupRows

LEMMA InitInv == Init => IInv
<1> SUFFICES ASSUME Init PROVE IInv
  OBVIOUS
<1>1. version \in DOMAIN Files /\ db = Empty /\ dictionary = [r \in Served |-> None] /\ plan = None
  BY DEF Init
<1>2. Loaded
  BY <1>1 DEF Loaded, Empty
<1> QED BY <1>1, <1>2 DEF IInv, Remembered, Settled

LEMMA NextInv == IInv /\ [Next]_vars => IInv'
<1> SUFFICES ASSUME IInv, [Next]_vars PROVE IInv'
  OBVIOUS
<1> USE DEF IInv
<1>1. ASSUME UNCHANGED <<version, db>> PROVE Loaded'
  BY <1>1 DEF Loaded
<1>2. CASE EditSeeds
  BY <1>2 DEF EditSeeds, Loaded, Remembered, Settled
<1>3. CASE Deploy \/ LoaderFails \/ UNCHANGED vars
  BY <1>3 DEF Deploy, LoaderFails, vars, Loaded, Remembered, Settled
<1>4. CASE LoadReferenceData
  <2> DEFINE nodes == BuildCategoryNodes(seed.catalogue)
             stores == StoresOf(seed.stores)
             values == ReadEnumValues(db.glossary, seed.glossary)
  <2>1. /\ Loadable(seed) /\ UNCHANGED <<version, dictionary, plan>>
        /\ db' = [db EXCEPT !.categories = nodes, !.stores = stores,
                            !.lookup = BuildLookupRows(nodes, stores, values)]
    BY <1>4 DEF LoadReferenceData
  <2>2. seed.catalogue \in Catalogues /\ seed.glossary \in Glossaries /\ db.glossary \in Glossaries \union {{}}
    BY FilesAre DEF seed, Loaded
  <2>3. \A s \in stores : s.opco \in DOMAIN OpcoMeta
    BY <2>1, StoresAreOfTheRoster DEF seed
  <2> HIDE DEF nodes, stores, values
  <2>4. db' = [categories |-> nodes, stores |-> stores,
               lookup |-> BuildLookupRows(nodes, stores, values), glossary |-> db.glossary]
    BY <2>1 DEF Loaded
  <2>5. /\ db'.categories = nodes /\ db'.stores = stores /\ db'.glossary = db.glossary
        /\ db'.lookup = BuildLookupRows(nodes, stores, values)
    BY <2>4
  <2>6. \E c \in Catalogues : db'.categories = BuildCategoryNodes(c)
    BY <2>2, <2>5 DEF nodes
  <2>7. \E loaded \in Glossaries \union {{}}, file \in Glossaries :
          db'.lookup = BuildLookupRows(db'.categories, db'.stores, ReadEnumValues(loaded, file))
    BY <2>2, <2>5 DEF values
  <2>8. Loaded'
    BY <2>3, <2>4, <2>5, <2>6, <2>7 DEF Loaded
  <2> QED BY <2>1, <2>8 DEF Remembered, Settled
<1>5. CASE LoadGlossary
  <2>1. /\ GlossaryIsValid(seed.glossary) /\ UNCHANGED <<version, dictionary, plan>>
        /\ db' = [db EXCEPT !.glossary = seed.glossary]
    BY <1>5 DEF LoadGlossary
  <2>2. seed.glossary \in Glossaries
    BY FilesAre DEF seed
  <2>3. db' = [categories |-> db.categories, stores |-> db.stores, lookup |-> db.lookup,
               glossary |-> seed.glossary]
    BY <2>1 DEF Loaded
  <2>4. /\ db'.categories = db.categories /\ db'.stores = db.stores /\ db'.lookup = db.lookup
        /\ db'.glossary = seed.glossary
    BY <2>3
  <2>5. Loaded'
    BY <2>1, <2>2, <2>3, <2>4 DEF Loaded
  <2> QED BY <2>1, <2>5 DEF Remembered, Settled
<1>6. CASE Restart
  BY <1>6 DEF Restart, Loaded, Remembered, Settled
<1>7. ASSUME NEW role \in Served, GetDictionary(role) PROVE IInv'
  <2>1. /\ dictionary' = [dictionary EXCEPT ![role] = db.lookup] /\ UNCHANGED <<version, db, plan>>
    BY <1>7 DEF GetDictionary
  <2>2. FromACatalogue(db.lookup)
    <3>1. CASE db.lookup = {}
      BY <3>1 DEF FromACatalogue, Categories
    <3>2. CASE db.lookup # {}
      <4>1. PICK values : db.lookup = BuildLookupRows(db.categories, db.stores, values)
        BY <3>2 DEF Loaded
      <4>2. Categories(db.lookup) = CategoryRows(db.categories)
        BY <4>1, CategoriesOfLookup
      <4>3. CASE db.categories = {}
        BY <4>2, <4>3 DEF FromACatalogue, CategoryRows
      <4>4. CASE \E c \in Catalogues : db.categories = BuildCategoryNodes(c)
        BY <4>2, <4>4 DEF FromACatalogue
      <4> QED BY <4>3, <4>4 DEF Loaded
    <3> QED BY <3>1, <3>2
  <2>3. Remembered'
    BY <2>1, <2>2 DEF Remembered, FromACatalogue
  <2> QED BY <1>1, <2>1, <2>3 DEF Settled
<1>8. ASSUME NEW role \in Served, Settle(role) PROVE IInv'
  <2> DEFINE known == Categories(dictionary[role])
  <2>1. dictionary[role] # None /\ UNCHANGED <<version, db, dictionary>>
    BY <1>8 DEF Settle
  <2>2. PICK r \in known : plan' = [path |-> r.path, key |-> r.key, among |-> {q.path : q \in known}]
    BY <1>8 DEF Settle
  <2>3. PICK c \in Catalogues : known = CategoryRows(BuildCategoryNodes(c))
    BY <2>1, <2>2 DEF Remembered, FromACatalogue
  <2>4. \A q \in known : q.path \in PathsOf(c) /\ q.key = KeyOf(c, q.path)
    BY <2>3 DEF CategoryRows, LookupRow, BuildCategoryNodes, Node
  <2>5. \A p \in PathsOf(c) : \E q \in known : q.path = p
    <3> SUFFICES ASSUME NEW p \in PathsOf(c) PROVE \E q \in known : q.path = p
      OBVIOUS
    <3> DEFINE n == Node(c, p)
               q == LookupRow("category", LevelColumns[Len(n.path) - 1], n.path[Len(n.path)],
                              n.path[1], n.path, n.key)
    <3>1. q \in known
      BY <2>3 DEF CategoryRows, BuildCategoryNodes
    <3>2. q.path = p
      BY DEF LookupRow, Node
    <3> QED BY <3>1, <3>2
  <2> HIDE DEF known
  <2>6. {q.path : q \in known} = PathsOf(c)
    BY <2>4, <2>5
  <2>7. Settled'
    BY <2>2, <2>4, <2>6 DEF Settled
  <2> QED BY <1>1, <2>1, <2>7 DEF Remembered
<1> QED BY <1>2, <1>3, <1>4, <1>5, <1>6, <1>7, <1>8 DEF Next

(* The tables are of one run each, and what the service remembers of them  *)
(* has the keys of a catalogue.                                            *)
THEOREM Inductive == Spec => []IInv
BY InitInv, NextInv, PTL DEF Spec
-----------------------------------------------------------------------------
(* What the keys mean *)

(* A category's ancestors carry the keys that they have themselves.        *)
LEMMA AncestorsOf ==
  ASSUME NEW c \in Seq(Records), NEW p \in PathsOf(c), NEW m \in PathsOf(c)
  PROVE  LET n == Node(c, m)
         IN  /\ DOMAIN n.keys = 1..(Len(m) - 1)
             /\ Len(p) - 1 \in DOMAIN n.keys /\ SubSeq(m, 1, Len(p)) = p
                => n.keys[Len(p) - 1] = KeyOf(c, p)
             /\ \A d \in DOMAIN n.keys :
                  n.keys[d] = KeyOf(c, p) => d + 1 = Len(p) /\ d + 1 <= Len(m) /\ SubSeq(m, 1, d + 1) = p
<1> DEFINE n == Node(c, m)
<1>1. /\ DOMAIN n.keys = 1..(Len(m) - 1)
      /\ \A d \in 1..(Len(m) - 1) : n.keys[d] = KeyOf(c, SubSeq(m, 1, d + 1))
  BY DEF Node
<1>2. Len(p) \in 2..5 /\ p \in Names
  BY PathsOfIs
<1>3. Len(m) \in 2..5 /\ m \in Names
  BY PathsOfIs
<1> HIDE DEF n
<1>4. ASSUME Len(p) - 1 \in 1..(Len(m) - 1), SubSeq(m, 1, Len(p)) = p
      PROVE  n.keys[Len(p) - 1] = KeyOf(c, p)
  <2>1. Len(p) - 1 + 1 = Len(p)
    BY <1>2
  <2> QED BY <1>1, <1>4, <2>1
<1>5. ASSUME NEW d \in 1..(Len(m) - 1), n.keys[d] = KeyOf(c, p)
      PROVE  d + 1 = Len(p) /\ d + 1 <= Len(m) /\ SubSeq(m, 1, d + 1) = p
  <2>1. d + 1 \in 2..Len(m)
    BY <1>3
  <2>2. SubSeq(m, 1, d + 1) \in PathsOf(c)
    BY <2>1, PathsOfIs
  <2>3. SubSeq(m, 1, d + 1) = p
    BY <1>1, <1>5, <2>2, KeysDiffer
  <2>4. Len(SubSeq(m, 1, d + 1)) = d + 1
    BY <1>3, <2>1 DEF Names
  <2> QED BY <1>3, <2>1, <2>3, <2>4
<1> QED BY <1>1, <1>4, <1>5 DEF n

(* A plan's key is its category's and no other's as long as the catalogue  *)
(* has the same categories, whatever order their records come in.          *)
LEMMA KeysStay == IInv => KeysKeepTheirMeaning
<1> SUFFICES ASSUME IInv, plan # None, {n.path : n \in db.categories} = plan.among
             PROVE  \E n \in db.categories :
                      /\ n.path = plan.path /\ n.key = plan.key /\ n.keys[Len(n.path) - 1] = plan.key
                      /\ \A m \in db.categories : (n.key \in {m.keys[d] : d \in DOMAIN m.keys}) <=>
                           (Len(m.path) >= Len(n.path) /\ SubSeq(m.path, 1, Len(n.path)) = n.path)
  BY DEF KeysKeepTheirMeaning
<1>1. PICK was \in Catalogues :
        plan.among = PathsOf(was) /\ plan.path \in PathsOf(was) /\ plan.key = KeyOf(was, plan.path)
  BY DEF IInv, Settled
<1> DEFINE p == plan.path
<1>2. PICK c \in Catalogues : db.categories = BuildCategoryNodes(c)
  <2>1. db.categories # {}
    BY <1>1
  <2> QED BY <2>1 DEF IInv, Loaded
<1>3. \A q : Node(c, q).path = q /\ Node(c, q).key = KeyOf(c, q)
  BY DEF Node
<1>4. db.categories = {Node(c, q) : q \in PathsOf(c)}
  BY <1>2 DEF BuildCategoryNodes
<1>5. PathsOf(c) = PathsOf(was)
  <2>1. {n.path : n \in db.categories} = PathsOf(c)
    BY <1>3, <1>4
  <2> QED BY <1>1, <2>1
<1>6. p \in PathsOf(c) /\ plan.key = KeyOf(c, p)
  BY <1>1, <1>5 DEF KeyOf
<1>7. c \in Seq(Records)
  BY CataloguesAre
<1>8. p \in Names /\ Len(p) \in 2..5
  BY <1>6, <1>7, PathsOfIs
<1> DEFINE n == Node(c, p)
<1>9. n \in db.categories /\ n.path = p /\ n.key = plan.key
  BY <1>3, <1>4, <1>6
<1> HIDE DEF n, p
<1>10. n.keys[Len(p) - 1] = plan.key
  <2>1. DOMAIN n.keys = 1..(Len(p) - 1)
    BY <1>6, <1>7, AncestorsOf DEF n
  <2>2. Len(p) - 1 \in DOMAIN n.keys
    <3>1. Len(p) \in 2..5
      BY <1>8
    <3>2. Len(p) - 1 \in 1..(Len(p) - 1)
      BY <3>1
    <3> QED BY <2>1, <3>2
  <2>3. SubSeq(p, 1, Len(p)) = p
    BY <1>8, SubSeqFull DEF Names
  <2>4. n.keys[Len(p) - 1] = KeyOf(c, p)
    BY <1>6, <1>7, <2>2, <2>3, AncestorsOf DEF n
  <2> QED BY <1>6, <2>4
<1>11. ASSUME NEW m \in db.categories
       PROVE  (n.key \in {m.keys[d] : d \in DOMAIN m.keys}) <=>
                (Len(m.path) >= Len(p) /\ SubSeq(m.path, 1, Len(p)) = p)
  <2>1. PICK q \in PathsOf(c) : m = Node(c, q)
    BY <1>4
  <2>2. q \in Names /\ Len(q) \in 2..5 /\ m.path = q
    BY <1>3, <1>7, <2>1, PathsOfIs
  <2>3. /\ DOMAIN m.keys = 1..(Len(q) - 1)
        /\ Len(p) - 1 \in DOMAIN m.keys /\ SubSeq(q, 1, Len(p)) = p => m.keys[Len(p) - 1] = KeyOf(c, p)
        /\ \A d \in DOMAIN m.keys :
             m.keys[d] = KeyOf(c, p) => d + 1 = Len(p) /\ d + 1 <= Len(q) /\ SubSeq(q, 1, d + 1) = p
    BY <1>6, <1>7, <2>1, AncestorsOf
  <2>4. ASSUME n.key \in {m.keys[d] : d \in DOMAIN m.keys}
        PROVE  Len(q) >= Len(p) /\ SubSeq(q, 1, Len(p)) = p
    <3>1. PICK d \in DOMAIN m.keys : m.keys[d] = KeyOf(c, p)
      BY <1>6, <1>9, <2>4
    <3>2. d + 1 = Len(p) /\ d + 1 <= Len(q) /\ SubSeq(q, 1, d + 1) = p
      BY <2>3, <3>1
    <3>3. Len(q) >= Len(p)
      BY <1>8, <2>2, <3>2
    <3> QED BY <3>2, <3>3
  <2>5. ASSUME Len(q) >= Len(p), SubSeq(q, 1, Len(p)) = p
        PROVE  n.key \in {m.keys[d] : d \in DOMAIN m.keys}
    <3>1. Len(p) - 1 \in 1..(Len(q) - 1)
      BY <1>8, <2>2, <2>5
    <3>2. Len(p) - 1 \in DOMAIN m.keys
      BY <2>3, <3>1
    <3>3. m.keys[Len(p) - 1] = KeyOf(c, p)
      BY <2>3, <2>5, <3>2
    <3> QED BY <1>6, <1>9, <3>2, <3>3
  <2> QED BY <2>2, <2>4, <2>5
<1> QED BY <1>9, <1>10, <1>11 DEF p

(* A key that waits in a plan or in a stale dictionary stays valid across  *)
(* reloads: build_category_nodes numbers what the catalogue names, not the *)
(* order of its records.                                                   *)
THEOREM KeysAreStable == Spec => []KeysKeepTheirMeaning
BY Inductive, KeysStay, PTL
-----------------------------------------------------------------------------
(* No value goes by an entity's name *)

LEMMA NamesAreKept == IInv => NoValueShadowsAName
<1> DEFINE rows == CategoryRows(db.categories) \union OpcoRows \union StoreRows(db.stores)
                     \union StoreTypeRows(db.stores)
<1> SUFFICES ASSUME IInv, NEW e \in db.lookup, e.class = "enum", e.opco = ""
             PROVE  /\ e.name \notin NotWords /\ e.column \notin KeyColumns
                    /\ e.name \notin {n.path[Len(n.path)] : n \in db.categories}
                    /\ e.name \notin {s.name : s \in db.stores} \union {s.type : s \in db.stores}
  BY DEF NoValueShadowsAName
<1>1. PICK values : db.lookup = BuildLookupRows(db.categories, db.stores, values)
  BY DEF IInv, Loaded
<1>2. e \notin rows
  <2>1. ASSUME e \in CategoryRows(db.categories) PROVE FALSE
    <3>1. PICK n : e = LookupRow("category", LevelColumns[Len(n.path) - 1], n.path[Len(n.path)],
                                 n.path[1], n.path, n.key)
      BY <2>1 DEF CategoryRows
    <3> QED BY <3>1 DEF LookupRow
  <2>2. ASSUME e \in OpcoRows PROVE FALSE
    <3>1. PICK label, code : e = LookupRow("opco", "opco_code", label, code, <<>>, None)
      BY <2>2 DEF OpcoRows
    <3> QED BY <3>1 DEF LookupRow
  <2>3. ASSUME e \in StoreRows(db.stores) PROVE FALSE
    <3>1. PICK s : e = LookupRow("store", "store_name", s.name, s.opco, <<>>, s.id)
      BY <2>3 DEF StoreRows
    <3> QED BY <3>1 DEF LookupRow
  <2>4. ASSUME e \in StoreTypeRows(db.stores) PROVE FALSE
    <3>1. PICK s \in db.stores : e = LookupRow("enum", "store_type", s.type, s.opco, <<>>, None)
      BY <2>4 DEF StoreTypeRows
    <3>2. s.opco = ""
      BY <3>1 DEF LookupRow
    <3> QED BY <3>2, WordsAssumption DEF IInv, Loaded
  <2> QED BY <2>1, <2>2, <2>3, <2>4
<1>3. PICK d \in values : /\ IsVocabulary(d, EntityNames(rows))
                          /\ e = LookupRow("enum", d.column, d.value, "", <<>>, None)
  BY <1>1, <1>2 DEF BuildLookupRows
<1>4. /\ e.name = d.value /\ e.column = d.column /\ d.column \notin KeyColumns
      /\ d.value \notin NotWords /\ d.value \notin EntityNames(rows)
  BY <1>3 DEF LookupRow, IsVocabulary
<1>5. \A r \in rows : r.name # e.name
  BY <1>4 DEF EntityNames
<1> HIDE DEF rows
<1>6. ASSUME NEW n \in db.categories PROVE e.name # n.path[Len(n.path)]
  <2> DEFINE r == LookupRow("category", LevelColumns[Len(n.path) - 1], n.path[Len(n.path)],
                            n.path[1], n.path, n.key)
  <2>1. r \in rows
    BY DEF rows, CategoryRows
  <2>2. r.name = n.path[Len(n.path)]
    BY DEF LookupRow
  <2> QED BY <1>5, <2>1, <2>2
<1>7. ASSUME NEW s \in db.stores PROVE e.name # s.name
  <2> DEFINE r == LookupRow("store", "store_name", s.name, s.opco, <<>>, s.id)
  <2>1. CASE s.name = ""
    BY <1>4, <2>1, WordsAssumption
  <2>2. CASE s.name # ""
    <3>1. r \in rows
      BY <2>2 DEF rows, StoreRows
    <3>2. r.name = s.name
      BY DEF LookupRow
    <3> QED BY <1>5, <3>1, <3>2
  <2> QED BY <2>1, <2>2
<1>8. ASSUME NEW s \in db.stores PROVE e.name # s.type
  <2> DEFINE r == LookupRow("enum", "store_type", s.type, s.opco, <<>>, None)
  <2>1. CASE s.type = ""
    BY <1>4, <2>1, WordsAssumption
  <2>2. CASE s.type # ""
    <3>1. r \in rows
      BY <2>2 DEF rows, StoreTypeRows
    <3>2. r.name = s.type
      BY DEF LookupRow
    <3> QED BY <1>5, <3>1, <3>2
  <2> QED BY <2>1, <2>2
<1> QED BY <1>4, <1>6, <1>7, <1>8

(* Whatever was loaded in whatever order, no value of the glossary goes by *)
(* the name of a category, a store or a store's format, nor is it a number *)
(* or a key (build_lookup_rows).                                           *)
THEOREM ValuesAreNoNames == Spec => []NoValueShadowsAName
BY Inductive, NamesAreKept, PTL
-----------------------------------------------------------------------------
(* What the service files under a view is what the view has *)

(* A documented row is of a column that its table has, and an executive is *)
(* kept from it if it is money.                                            *)
AreOfTheTables(rows) ==
  \A r \in rows :
    /\ r.table \notin Views
    /\ r.table \in DOMAIN BaseColumns => r.column \in BaseColumns[r.table]
    /\ r.role = "HOD" <=> r.column \in MoneyColumns(r.table)

LEMMA LoadedRowsAre ==
  ASSUME NEW rows \in Glossaries, GlossaryIsValid(rows)
  PROVE  AreOfTheTables(rows)
<1>1. PICK v \in DOMAIN Files : rows = Files[v].glossary
  BY DEF Glossaries
<1>2. ASSUME NEW r \in rows
      PROVE  /\ r.table \notin Views
             /\ r.table \in DOMAIN BaseColumns => r.column \in BaseColumns[r.table]
             /\ r.money <=> r.column \in MoneyColumns(r.table)
             /\ r.role = "HOD" => r.money
  BY <1>1, FilesAssumption
<1>3. \A r \in rows : r.money => r.role = "HOD"
  BY DEF GlossaryIsValid
<1> QED BY <1>2, <1>3 DEF AreOfTheTables

LEMMA ViewsAre ==
  /\ Views = {"v_sales_daily", "v_sales_summary_daily", "v_sales_store_monthly", "v_sales_sku_monthly",
              "v_customer_opco_monthly", "v_customer_traits_monthly", "v_customer_category_monthly"}
  /\ Aggregated = {"v_sales_store_monthly"}
  /\ PersonaViews["v_sales_store_monthly"] = "fact_sales_daily"
BY DEF Views, PersonaViews, Aggregated, AggregateViews

LEMMA BasesHaveColumns ==
  ASSUME NEW v \in Views
  PROVE  PersonaViews[v] \in Bases /\ PersonaViews[v] \in DOMAIN BaseColumns
BY ColumnsAssumption DEF Bases

(* The role a computed column is given: none only if its source is not     *)
(* money.                                                                  *)
IsGiven(role, view, source) ==
  role \in {"", "EXEC", "HOD"} /\ (role = "" => source \notin MoneyColumns(PersonaViews[view]))
IsRow(r, view, alias, role) == r.table = view /\ r.column = alias /\ (r.role = "HOD" <=> role = "HOD")

(* A computed column is for whom its source is, unless it is said to be    *)
(* money.                                                                  *)
LEMMA DerivedIs ==
  ASSUME NEW rows, AreOfTheTables(rows), NEW view, NEW alias, NEW source, NEW role, IsGiven(role, view, source)
  PROVE  IsRow(Derived(rows, view, alias, source, role), view, alias, role)
<1> DEFINE from == Documented(rows, PersonaViews[view], source)
           of == CHOOSE r \in from : TRUE
           given == CASE role # "" -> role
                      [] role = "" /\ from # {} -> of.role
                      [] OTHER -> "EXEC"
           given_values == IF from # {} THEN of.values ELSE {}
           r == Derived(rows, view, alias, source, role)
<1>1. r = [table |-> view, column |-> alias, role |-> given, values |-> given_values]
  BY DEF Derived
<1>2. from # {} => of \in from
  OBVIOUS
<1>3. ASSUME from # {}, role = "" PROVE of.role # "HOD"
  <2>1. of \in rows /\ of.table = PersonaViews[view] /\ of.column = source
    BY <1>2, <1>3 DEF Documented
  <2> QED BY <1>3, <2>1 DEF AreOfTheTables, IsGiven
<1> HIDE DEF from, of
<1>4. given = "HOD" <=> role = "HOD"
  BY <1>3
<1> HIDE DEF given, given_values, r
<1>5. r.table = view /\ r.column = alias /\ r.role = given
  BY <1>1
<1> QED BY <1>4, <1>5 DEF r, IsRow

(* The columns a view computes, with whether they are money. *)
Computes(view) ==
  IF view \in Aggregated
  THEN {<<"month_start_date", FALSE>>, <<"member_transaction_count", FALSE>>, <<"member_sales_amount", TRUE>>,
        <<"category_sales_rank", TRUE>>, <<"is_top_100", TRUE>>}
  ELSE {<<s.alias, s.money>> : s \in MemberSplits(PersonaViews[view])}

LEMMA SplitsAre ==
  ASSUME NEW base, NEW s \in MemberSplits(base)
  PROVE  s.money \in BOOLEAN /\ (~s.money => s.source \notin MoneyColumns(base))
<1>1. base \in {"fact_sales_daily", "agg_sales_daily", "agg_sales_sku_monthly"}
  BY DEF MemberSplits
<1>2. s.money \in BOOLEAN /\ (~s.money => s.source \in {"transaction_count", "quantity"})
  <2> DEFINE Split(of, as, money) == [source |-> of, alias |-> as, money |-> money]
             three == {Split("transaction_count", "member_transaction_count", FALSE),
                       Split("quantity", "member_quantity", FALSE),
                       Split("gross_sales_amount", "member_sales_amount", TRUE)}
  <2>1. MemberSplits(base) \subseteq three
    BY <1>1 DEF MemberSplits
  <2>2. s = Split("transaction_count", "member_transaction_count", FALSE)
        \/ s = Split("quantity", "member_quantity", FALSE)
        \/ s = Split("gross_sales_amount", "member_sales_amount", TRUE)
    BY <2>1
  <2>3. ASSUME NEW of, NEW as, NEW money, s = Split(of, as, money) PROVE s.source = of /\ s.money = money
    BY <2>3
  <2>4. CASE s = Split("transaction_count", "member_transaction_count", FALSE)
    BY <2>3, <2>4
  <2>5. CASE s = Split("quantity", "member_quantity", FALSE)
    BY <2>3, <2>5
  <2>6. CASE s = Split("gross_sales_amount", "member_sales_amount", TRUE)
    BY <2>3, <2>6
  <2> QED BY <2>2, <2>4, <2>5, <2>6
<1>3. "transaction_count" \notin MoneyColumns(base) /\ "quantity" \notin MoneyColumns(base)
  BY <1>1 DEF MoneyColumns
<1> QED BY <1>2, <1>3

LEMMA ComputedIs ==
  ASSUME NEW rows, AreOfTheTables(rows), NEW v \in Views
  PROVE  /\ \A r \in DerivedColumns(rows, v) :
              r.table = v /\ \E x \in Computes(v) : r.column = x[1] /\ (r.role = "HOD" <=> x[2])
         /\ \A x \in Computes(v) :
              \E r \in DerivedColumns(rows, v) : r.column = x[1] /\ (r.role = "HOD" <=> x[2])
<1>1. CASE v \notin Aggregated
  <2> DEFINE splits == MemberSplits(PersonaViews[v])
             Row(s) == Derived(rows, v, s.alias, s.source, IF s.money THEN "HOD" ELSE "")
  <2>1. DerivedColumns(rows, v) = {Row(s) : s \in splits}
    BY <1>1 DEF DerivedColumns
  <2>2. ASSUME NEW s \in splits
        PROVE  Row(s).table = v /\ Row(s).column = s.alias /\ (Row(s).role = "HOD" <=> s.money)
    <3> DEFINE role == IF s.money THEN "HOD" ELSE ""
    <3>1. s.money \in BOOLEAN /\ (~s.money => s.source \notin MoneyColumns(PersonaViews[v]))
      BY SplitsAre
    <3>2. IsGiven(role, v, s.source) /\ (role = "HOD" <=> s.money)
      BY <3>1 DEF IsGiven
    <3> HIDE DEF role
    <3>3. IsRow(Derived(rows, v, s.alias, s.source, role), v, s.alias, role)
      BY <3>2, DerivedIs
    <3> QED BY <3>2, <3>3 DEF role, IsRow
  <2>3. Computes(v) = {<<s.alias, s.money>> : s \in splits}
    BY <1>1 DEF Computes
  <2> HIDE DEF splits, Row
  <2>4. ASSUME NEW r \in DerivedColumns(rows, v)
        PROVE  r.table = v /\ \E x \in Computes(v) : r.column = x[1] /\ (r.role = "HOD" <=> x[2])
    <3>1. PICK s \in splits : r = Row(s)
      BY <2>1
    <3>2. <<s.alias, s.money>> \in Computes(v)
      BY <2>3
    <3> QED BY <2>2, <3>1, <3>2
  <2>5. ASSUME NEW x \in Computes(v)
        PROVE  \E r \in DerivedColumns(rows, v) : r.column = x[1] /\ (r.role = "HOD" <=> x[2])
    <3>1. PICK s \in splits : x = <<s.alias, s.money>>
      BY <2>3
    <3>2. Row(s) \in DerivedColumns(rows, v)
      BY <2>1
    <3> QED BY <2>2, <3>1, <3>2
  <2> QED BY <2>4, <2>5
<1>2. CASE v \in Aggregated
  <2>0. v = "v_sales_store_monthly" /\ PersonaViews[v] = "fact_sales_daily"
    BY <1>2, ViewsAre
  <2> DEFINE Row(alias, source, role) == Derived(rows, v, alias, source, role)
             month == Row("month_start_date", "calendar_date", "")
             count == Row("member_transaction_count", "transaction_count", "")
             sales == Row("member_sales_amount", "sales_amount", "HOD")
             rank == Row("category_sales_rank", "", "HOD")
             top == Row("is_top_100", "", "HOD")
  <2>1. DerivedColumns(rows, v) = {month, count, sales, rank, top}
    <3> DEFINE spec == AggregateViews[v]
               money == spec.money \union MoneyColumns(v)
               own == Computed \intersect (spec.grain \union spec.measures \union spec.money)
    <3>1. spec = AggregateViews["v_sales_store_monthly"]
      BY <2>0
    <3>2. own = {"month_start_date", "member_transaction_count", "member_sales_amount"}
      BY <3>1 DEF AggregateViews, Computed
    <3>3. spec.windows = {"category_sales_rank", "is_top_100"}
      BY <3>1 DEF AggregateViews
    <3>4. /\ "month_start_date" \notin money /\ "member_transaction_count" \notin money
          /\ "member_sales_amount" \in money /\ "category_sales_rank" \in money /\ "is_top_100" \in money
      BY <2>0, <3>1 DEF AggregateViews, MoneyColumns
    <3>5. /\ SourceOf("month_start_date") = "calendar_date"
          /\ SourceOf("member_transaction_count") = "transaction_count"
          /\ SourceOf("member_sales_amount") = "sales_amount"
      BY DEF SourceOf
    <3>6. DerivedColumns(rows, v) =
            {Row(a, SourceOf(a), IF a \in money THEN "HOD" ELSE "") : a \in own}
              \union {Row(a, "", IF a \in money THEN "HOD" ELSE "EXEC") : a \in spec.windows}
      BY <1>2 DEF DerivedColumns
    <3> HIDE DEF Row, own, money, spec
    <3>7. {Row(a, SourceOf(a), IF a \in money THEN "HOD" ELSE "") : a \in own}
            = {Row("month_start_date", "calendar_date", ""),
               Row("member_transaction_count", "transaction_count", ""),
               Row("member_sales_amount", "sales_amount", "HOD")}
      BY <3>2, <3>4, <3>5
    <3>8. {Row(a, "", IF a \in money THEN "HOD" ELSE "EXEC") : a \in spec.windows}
            = {Row("category_sales_rank", "", "HOD"), Row("is_top_100", "", "HOD")}
      BY <3>3, <3>4
    <3> QED BY <3>6, <3>7, <3>8
  <2>2. /\ IsGiven("", v, "calendar_date") /\ IsGiven("", v, "transaction_count")
        /\ IsGiven("HOD", v, "sales_amount") /\ IsGiven("HOD", v, "")
    BY <2>0 DEF MoneyColumns, IsGiven
  <2>3. month.table = v /\ month.column = "month_start_date" /\ month.role # "HOD"
    <3>1. IsRow(month, v, "month_start_date", "")
      BY <2>2, DerivedIs
    <3> QED BY <3>1 DEF IsRow
  <2>4. count.table = v /\ count.column = "member_transaction_count" /\ count.role # "HOD"
    <3>1. IsRow(count, v, "member_transaction_count", "")
      BY <2>2, DerivedIs
    <3> QED BY <3>1 DEF IsRow
  <2>5. sales.table = v /\ sales.column = "member_sales_amount" /\ sales.role = "HOD"
    <3>1. IsRow(sales, v, "member_sales_amount", "HOD")
      BY <2>2, DerivedIs
    <3> QED BY <3>1 DEF IsRow
  <2>6. rank.table = v /\ rank.column = "category_sales_rank" /\ rank.role = "HOD"
    <3>1. IsRow(rank, v, "category_sales_rank", "HOD")
      BY <2>2, DerivedIs
    <3> QED BY <3>1 DEF IsRow
  <2>7. top.table = v /\ top.column = "is_top_100" /\ top.role = "HOD"
    <3>1. IsRow(top, v, "is_top_100", "HOD")
      BY <2>2, DerivedIs
    <3> QED BY <3>1 DEF IsRow
  <2>8. Computes(v) = {<<"month_start_date", FALSE>>, <<"member_transaction_count", FALSE>>,
                       <<"member_sales_amount", TRUE>>, <<"category_sales_rank", TRUE>>, <<"is_top_100", TRUE>>}
    BY <1>2 DEF Computes
  <2> HIDE DEF month, count, sales, rank, top
  <2> QED BY <2>1, <2>3, <2>4, <2>5, <2>6, <2>7, <2>8
<1> QED BY <1>1, <1>2

(* The rows of a view are those of its base table that it projects, and    *)
(* those of what it computes.                                              *)
LEMMA RowsOfAView ==
  ASSUME NEW rows, AreOfTheTables(rows), NEW v \in Views
  PROVE  /\ \A r \in Ingested(rows) : r.table = v =>
              \/ r \in DerivedColumns(rows, v)
              \/ \E q \in rows : /\ q.table = PersonaViews[v] /\ Projects(v, q.column)
                                 /\ r.column = q.column /\ r.role = q.role
         /\ \A r \in DerivedColumns(rows, v) : r \in Ingested(rows) /\ r.table = v
         /\ \A q \in rows : q.table = PersonaViews[v] /\ Projects(v, q.column) =>
              \E r \in Ingested(rows) : r.table = v /\ r.column = q.column /\ r.role = q.role
<1> DEFINE Filed(w, q) == [table |-> w, column |-> q.column, role |-> q.role, values |-> q.values]
           under(w) == FiledUnder(rows, w)
           computed == UNION {DerivedColumns(rows, w) : w \in Views}
<1>1. \A r : r \in RowsByView(rows) <=>
        (\E w \in Views \union Dimensions : r \in under(w)) \/ r \in computed
  BY DEF RowsByView
<1>2. \A w, q : Filed(w, q).table = w /\ Filed(w, q).column = q.column /\ Filed(w, q).role = q.role
  OBVIOUS
<1>3. \A w : \A r \in under(w) : \E q \in rows :
        r = Filed(w, q) /\ w \in ViewsOf(q.table) /\ Projects(w, q.column)
  BY DEF FiledUnder
<1>4. \A w : \A q \in rows : w \in ViewsOf(q.table) /\ Projects(w, q.column) => Filed(w, q) \in under(w)
  BY DEF FiledUnder
<1> HIDE DEF Filed, under
<1>5. ASSUME NEW q \in rows PROVE v \in ViewsOf(q.table) <=> q.table = PersonaViews[v]
  <2>1. q.table \notin Views
    BY DEF AreOfTheTables
  <2>2. CASE q.table \in Bases
    BY <2>2 DEF ViewsOf
  <2>3. CASE q.table \notin Bases
    <3>1. ViewsOf(q.table) = {q.table}
      BY <2>3 DEF ViewsOf
    <3> QED BY <2>1, <2>3, <3>1, BasesHaveColumns
  <2> QED BY <2>2, <2>3
<1>6. ASSUME NEW w \in Views, NEW r \in DerivedColumns(rows, w) PROVE r.table = w
  BY ComputedIs
<1>7. ASSUME NEW r \in Ingested(rows), r.table = v
      PROVE  \/ r \in DerivedColumns(rows, v)
             \/ \E q \in rows : /\ q.table = PersonaViews[v] /\ Projects(v, q.column)
                                /\ r.column = q.column /\ r.role = q.role
  <2>1. r \in RowsByView(rows)
    BY DEF Ingested
  <2>2. CASE r \in computed
    <3>1. PICK w \in Views : r \in DerivedColumns(rows, w)
      BY <2>2
    <3> QED BY <1>6, <1>7, <3>1
  <2>3. CASE r \notin computed
    <3>1. PICK w \in Views \union Dimensions : r \in under(w)
      BY <1>1, <2>1, <2>3
    <3>2. PICK q \in rows : r = Filed(w, q) /\ w \in ViewsOf(q.table) /\ Projects(w, q.column)
      BY <1>3, <3>1
    <3>3. w = v /\ r.column = q.column /\ r.role = q.role
      BY <1>2, <1>7, <3>2
    <3> QED BY <1>5, <3>2, <3>3
  <2> QED BY <2>2, <2>3
<1>8. ASSUME NEW r \in DerivedColumns(rows, v) PROVE r \in Ingested(rows) /\ r.table = v
  <2>1. r \in RowsByView(rows)
    BY <1>1
  <2> QED BY <1>6, <2>1 DEF Ingested
<1>9. ASSUME NEW q \in rows, q.table = PersonaViews[v], Projects(v, q.column)
      PROVE  \E r \in Ingested(rows) : r.table = v /\ r.column = q.column /\ r.role = q.role
  <2>1. Filed(v, q) \in under(v)
    BY <1>4, <1>5, <1>9
  <2>2. Filed(v, q) \in RowsByView(rows)
    BY <1>1, <2>1
  <2>3. Filed(v, q) \in Ingested(rows)
    BY <1>2, <2>2 DEF Ingested
  <2> QED BY <1>2, <2>3
<1> QED BY <1>7, <1>8, <1>9

(* What an executive may see of what everyone may. *)
MaySee(role, column, base) == role = "HOD" \/ column \notin MoneyColumns(base)
IsComputed(v, role, column) == \E x \in Computes(v) : column = x[1] /\ (role = "HOD" \/ ~x[2])

IsOpen(r, role) == role = "HOD" \/ r.role # "HOD"

LEMMA ShownOfAView ==
  ASSUME NEW rows, AreOfTheTables(rows), NEW v \in Views, NEW role \in Roles, NEW column
  PROVE  LET base == PersonaViews[v]
             documented == {r.column : r \in {q \in rows : q.table = base}}
             fits == column \in documented /\ Projects(v, column) /\ MaySee(role, column, base)
         IN  (\E r \in Ingested(rows) : r.table = v /\ r.column = column /\ IsOpen(r, role)) <=>
               (fits \/ IsComputed(v, role, column))
<1> DEFINE base == PersonaViews[v]
           documented == {r.column : r \in {q \in rows : q.table = base}}
           fits == column \in documented /\ Projects(v, column) /\ MaySee(role, column, base)
<1>2. column \in documented <=> \E q \in rows : q.table = base /\ q.column = column
  OBVIOUS
<1>3. \A q \in rows : q.table = base => (q.role = "HOD" <=> q.column \in MoneyColumns(base))
  BY DEF AreOfTheTables
<1>4. /\ \A r \in DerivedColumns(rows, v) : \E x \in Computes(v) : r.column = x[1] /\ (r.role = "HOD" <=> x[2])
      /\ \A x \in Computes(v) : \E r \in DerivedColumns(rows, v) : r.column = x[1] /\ (r.role = "HOD" <=> x[2])
  BY ComputedIs
<1>5. /\ \A r \in Ingested(rows) : r.table = v =>
           \/ r \in DerivedColumns(rows, v)
           \/ \E q \in rows : q.table = base /\ Projects(v, q.column) /\ r.column = q.column /\ r.role = q.role
      /\ \A r \in DerivedColumns(rows, v) : r \in Ingested(rows) /\ r.table = v
      /\ \A q \in rows : q.table = base /\ Projects(v, q.column) =>
           \E r \in Ingested(rows) : r.table = v /\ r.column = q.column /\ r.role = q.role
  BY RowsOfAView
<1> HIDE DEF base, documented
<1>6. ASSUME NEW r \in Ingested(rows), r.table = v, r.column = column, IsOpen(r, role)
      PROVE  fits \/ IsComputed(v, role, column)
  <2>1. CASE r \in DerivedColumns(rows, v)
    <3>1. PICK x \in Computes(v) : r.column = x[1] /\ (r.role = "HOD" <=> x[2])
      BY <1>4, <2>1
    <3> QED BY <1>6, <3>1 DEF IsComputed, IsOpen
  <2>2. CASE \E q \in rows : q.table = base /\ Projects(v, q.column) /\ r.column = q.column /\ r.role = q.role
    <3>1. PICK q \in rows : q.table = base /\ Projects(v, q.column) /\ r.column = q.column /\ r.role = q.role
      BY <2>2
    <3>2. column \in documented /\ Projects(v, column)
      BY <1>2, <1>6, <3>1
    <3>3. MaySee(role, column, base)
      BY <1>3, <1>6, <3>1 DEF MaySee, IsOpen
    <3> QED BY <3>2, <3>3
  <2> QED BY <1>5, <1>6, <2>1, <2>2
<1>7. ASSUME fits \/ IsComputed(v, role, column)
      PROVE  \E r \in Ingested(rows) : r.table = v /\ r.column = column /\ IsOpen(r, role)
  <2>1. CASE fits
    <3>1. PICK q \in rows : q.table = base /\ q.column = column
      BY <1>2, <2>1
    <3>2. PICK r \in Ingested(rows) : r.table = v /\ r.column = q.column /\ r.role = q.role
      BY <1>5, <2>1, <3>1
    <3>3. IsOpen(r, role)
      BY <1>3, <2>1, <3>1, <3>2 DEF MaySee, IsOpen
    <3> QED BY <3>1, <3>2, <3>3
  <2>2. CASE IsComputed(v, role, column)
    <3>1. PICK x \in Computes(v) : column = x[1] /\ (role = "HOD" \/ ~x[2])
      BY <2>2 DEF IsComputed
    <3>2. PICK r \in DerivedColumns(rows, v) : r.column = x[1] /\ (r.role = "HOD" <=> x[2])
      BY <1>4
    <3>3. r \in Ingested(rows) /\ r.table = v
      BY <1>5
    <3> QED BY <3>1, <3>2, <3>3 DEF IsOpen
  <2> QED BY <1>7, <2>1, <2>2
<1> QED BY <1>6, <1>7 DEF base, documented

(* The persona view of a role has the columns of its base table that it    *)
(* projects and that the role may see, and what it computes for the role.  *)
LEMMA ColumnsOfAPersonaView ==
  ASSUME NEW v \in Views, NEW role \in Roles, NEW column
  PROVE  LET base == PersonaViews[v]
         IN  column \in ViewColumns(v, role) <=>
               \/ column \in BaseColumns[base] /\ Projects(v, column) /\ MaySee(role, column, base)
               \/ IsComputed(v, role, column)
<1> DEFINE base == PersonaViews[v]
<1>1. role = "HOD" \/ role # "HOD"
  OBVIOUS
<1>2. CASE v \notin Aggregated
  <2> DEFINE splits == MemberSplits(base)
  <2>1. ViewColumns(v, role) = ProjectionBody(base, role) /\ Projects(v, column)
    BY <1>2 DEF ViewColumns, Projects
  <2>2. \A s \in splits : s.source \in BaseColumns[base]
    BY BasesHaveColumns, SourcesAssumption
  <2>3. column \in ProjectionBody(base, role) <=>
          \/ column \in BaseColumns[base] /\ MaySee(role, column, base)
          \/ \E s \in splits : column = s.alias /\ (role = "HOD" \/ ~s.money)
    BY <2>2 DEF ProjectionBody, MaySee
  <2>4. Computes(v) = {<<s.alias, s.money>> : s \in splits}
    BY <1>2 DEF Computes
  <2> HIDE DEF splits, base
  <2>5. IsComputed(v, role, column) <=> \E s \in splits : column = s.alias /\ (role = "HOD" \/ ~s.money)
    <3>1. ASSUME IsComputed(v, role, column)
          PROVE  \E s \in splits : column = s.alias /\ (role = "HOD" \/ ~s.money)
      <4>1. PICK x \in Computes(v) : column = x[1] /\ (role = "HOD" \/ ~x[2])
        BY <3>1 DEF IsComputed
      <4>2. PICK s \in splits : x = <<s.alias, s.money>>
        BY <2>4
      <4>3. x[1] = s.alias /\ x[2] = s.money
        BY <4>2
      <4> QED BY <4>1, <4>3
    <3>2. ASSUME NEW s \in splits, column = s.alias, role = "HOD" \/ ~s.money
          PROVE  IsComputed(v, role, column)
      <4> DEFINE x == <<s.alias, s.money>>
      <4>1. x \in Computes(v) /\ x[1] = s.alias /\ x[2] = s.money
        BY <2>4
      <4> HIDE DEF x
      <4> QED BY <3>2, <4>1 DEF IsComputed
    <3> QED BY <3>1, <3>2
  <2> QED BY <2>1, <2>3, <2>5 DEF base
<1>3. CASE v \in Aggregated
  <2>0. v = "v_sales_store_monthly" /\ base = "fact_sales_daily"
    BY <1>3, ViewsAre
  <2> DEFINE spec == AggregateViews[v]
             money == {"gross_sales_amount", "gmv_amount", "member_sales_amount"}
             windows == {"category_sales_rank", "is_top_100"}
             measures == {"transaction_count", "quantity", "member_transaction_count"}
             grain == {"month_start_date", "opco_code", "store_id", "category_key", "category_l1_key",
                       "category_l2_key", "category_l3_key", "category_l4_key", "customer_type"}
  <2>1. spec.grain = grain /\ spec.measures = measures /\ spec.money = money /\ spec.windows = windows
    <3>1. spec = AggregateViews["v_sales_store_monthly"]
      BY <2>0
    <3> QED BY <3>1 DEF AggregateViews
  <2> HIDE DEF spec
  <2>2. (grain \union measures \union money) \ Computed \subseteq BaseColumns[base]
        /\ windows \intersect BaseColumns[base] = {}
    BY <1>3, <2>1, SourcesAssumption DEF spec
  <2>3. column \in ViewColumns(v, role) <=>
          column \in grain \union measures \/ (role = "HOD" /\ column \in money \union windows)
    BY <1>3, <2>1 DEF ViewColumns, AggregateBody, spec
  <2>4. Projects(v, column) <=> column \in grain \union measures \union money \union windows
    BY <1>3, <2>1 DEF Projects, Emitted, spec
  <2>5. IsComputed(v, role, column) <=>
          \/ column \in {"month_start_date", "member_transaction_count"}
          \/ role = "HOD" /\ column \in {"member_sales_amount"} \union windows
    <3> DEFINE P(x) == column = x[1] /\ (role = "HOD" \/ ~x[2])
               month == <<"month_start_date", FALSE>>
               count == <<"member_transaction_count", FALSE>>
               sales == <<"member_sales_amount", TRUE>>
               rank == <<"category_sales_rank", TRUE>>
               top == <<"is_top_100", TRUE>>
    <3>1. Computes(v) = {month, count, sales, rank, top}
      BY <1>3 DEF Computes
    <3>2. P(month) <=> column = "month_start_date"
      OBVIOUS
    <3>3. P(count) <=> column = "member_transaction_count"
      OBVIOUS
    <3>4. P(sales) <=> role = "HOD" /\ column = "member_sales_amount"
      OBVIOUS
    <3>5. P(rank) <=> role = "HOD" /\ column = "category_sales_rank"
      OBVIOUS
    <3>6. P(top) <=> role = "HOD" /\ column = "is_top_100"
      OBVIOUS
    <3>7. IsComputed(v, role, column) <=> \E x \in Computes(v) : P(x)
      BY DEF IsComputed
    <3> HIDE DEF P, month, count, sales, rank, top
    <3>8. IsComputed(v, role, column) <=> P(month) \/ P(count) \/ P(sales) \/ P(rank) \/ P(top)
      BY <3>1, <3>7
    <3> QED BY <3>2, <3>3, <3>4, <3>5, <3>6, <3>8
  <2>6. MaySee(role, column, base) <=> role = "HOD" \/ column \notin MoneyColumns(base)
    BY DEF MaySee
  <2>7. MoneyColumns(base) =
          {"gross_sales_amount", "net_sales_amount", "discount_amount", "gmv_amount", "member_sales_amount"}
    BY <2>0 DEF MoneyColumns
  <2>8. Computed = {"month_start_date", "member_transaction_count", "member_sales_amount"}
    BY DEF Computed
  <2> HIDE DEF base
  <2>9. ASSUME column \in grain \union measures
        PROVE  \/ column \in {"month_start_date", "member_transaction_count"}
               \/ column \in BaseColumns[base] /\ column \notin MoneyColumns(base)
    BY <2>2, <2>7, <2>8, <2>9
  <2>10. ASSUME column \in money \union windows
         PROVE  \/ column \in {"member_sales_amount"} \union windows
                \/ column \in BaseColumns[base]
    BY <2>2, <2>8, <2>10
  <2>11. ASSUME column \in money \union windows, column \in BaseColumns[base]
         PROVE  column \in MoneyColumns(base)
    BY <2>2, <2>7, <2>11
  <2>12. {"month_start_date", "member_transaction_count"} \subseteq grain \union measures
         /\ "member_sales_amount" \in money
    OBVIOUS
  <2> HIDE DEF grain, measures, money, windows
  <2> QED BY <2>3, <2>4, <2>5, <2>6, <2>9, <2>10, <2>11, <2>12 DEF base
<1> QED BY <1>2, <1>3

(* What the planner is told and the validator checks by is what the        *)
(* database has.                                                           *)
LEMMA GlossaryFits == IInv => GlossaryFitsTheViews
<1> DEFINE rows == db.glossary
           Shown(v, role) == ColumnsOfView(VisibleRows(Ingested(rows), role), v)
           documented(v) == {r.column : r \in {q \in rows : q.table = PersonaViews[v]}}
<1> SUFFICES ASSUME IInv, rows # {}, NEW v \in Views
             PROVE  /\ ColumnsOfView(Ingested(rows), v) \subseteq ViewColumns(v, "HOD")
                    /\ InFull(rows, v) => ColumnsOfView(Ingested(rows), v) = ViewColumns(v, "HOD")
                    /\ \A role \in Roles :
                         /\ Shown(v, role) \subseteq ViewColumns(v, role)
                         /\ InFull(rows, v) => Shown(v, role) = ViewColumns(v, role) \ Hidden
  BY DEF GlossaryFitsTheViews
<1>1. AreOfTheTables(rows)
  BY LoadedRowsAre DEF IInv, Loaded
<1>2. documented(v) \subseteq BaseColumns[PersonaViews[v]]
  BY <1>1, BasesHaveColumns DEF AreOfTheTables
<1>3. InFull(rows, v) => documented(v) = BaseColumns[PersonaViews[v]]
  <2>1. InFull(rows, v) <=> BaseColumns[PersonaViews[v]] = documented(v)
    BY DEF InFull
  <2> QED BY <2>1
<1> DEFINE Fits(column, role) == column \in documented(v) /\ Projects(v, column)
                                   /\ MaySee(role, column, PersonaViews[v])
           Has(column, role) == \E r \in Ingested(rows) : r.table = v /\ r.column = column /\ IsOpen(r, role)
<1>4. \A column : \A role \in Roles : Has(column, role) <=> Fits(column, role) \/ IsComputed(v, role, column)
  BY <1>1, ShownOfAView
<1>5. \A column : \A role \in Roles : column \in ViewColumns(v, role) <=>
        \/ column \in BaseColumns[PersonaViews[v]] /\ Projects(v, column)
             /\ MaySee(role, column, PersonaViews[v])
        \/ IsComputed(v, role, column)
  BY ColumnsOfAPersonaView
<1>6. \A column : column \in ColumnsOfView(Ingested(rows), v) <=> Has(column, "HOD")
  BY DEF ColumnsOfView, IsOpen
<1>7. \A column : \A role \in Roles : column \in Shown(v, role) <=> column \notin Hidden /\ Has(column, role)
  BY DEF ColumnsOfView, VisibleRows, IsOpen
<1> HIDE DEF Has, Shown, documented, rows
<1>8. ASSUME NEW column, NEW role \in Roles, Has(column, role) PROVE column \in ViewColumns(v, role)
  BY <1>2, <1>4, <1>5, <1>8
<1>9. ASSUME InFull(rows, v), NEW column, NEW role \in Roles, column \in ViewColumns(v, role)
      PROVE  Has(column, role)
  BY <1>3, <1>4, <1>5, <1>9
<1>10. "HOD" \in Roles
  BY DEF Roles
<1> QED BY <1>6, <1>7, <1>8, <1>9, <1>10

(* Every view a loaded glossary documents has, for a role, the columns     *)
(* that the role's persona view has (_rows_by_view, visible_rows,          *)
(* persona_view_sql).                                                      *)
THEOREM GlossaryAndViewsAgree == Spec => []GlossaryFitsTheViews
BY Inductive, GlossaryFits, PTL
=============================================================================
