-------------------------- MODULE SqlExecution_proofs --------------------------
(***************************************************************************)
(* What becomes of a generated statement: the properties of SqlChecks, for *)
(* every statement of its shape, every glossary and every content of the   *)
(* tables, and those of SessionScope, for every number of statements a     *)
(* turn may try.                                                           *)
(*                                                                         *)
(* A statement that runs obeys every rule and one that is sent back        *)
(* disobeys one (CheckIInv); what the rules achieve is then shown of the   *)
(* tree.  Of the session only SET LOCAL and RESET ROLE are ever used, so   *)
(* what would survive a commit is the login role throughout (Clean); the   *)
(* rest follows the scope from where it is entered to where it ends.       *)
(***************************************************************************)
EXTENDS SessionScope, SqlChecks, FiniteSetTheorems, WellFoundedInduction, TLAPS

-----------------------------------------------------------------------------
(* Numbers *)

(* The intervals below the members of T are finite sets, and of these one  *)
(* is least by inclusion.                                                  *)
LEMMA LeastNumber ==
  ASSUME NEW T \in SUBSET Nat, T # {}
  PROVE  \E m \in T : \A k \in T : m <= k
<1> DEFINE F == {0..m : m \in T}
<1>1. F \subseteq FiniteSubsetsOf(Nat) /\ F # {}
  <2>1. \A m \in T : 0..m \in SUBSET Nat /\ IsFiniteSet(0..m)
    BY FS_Interval
  <2> QED BY <2>1 DEF FiniteSubsetsOf
<1>2. PICK x \in F : \A y \in F : ~(<<y, x>> \in StrictSubsetOrdering(Nat))
  BY <1>1, FS_StrictSubsetOrderingWellFounded, WFMin
<1>3. PICK m \in T : x = 0..m
  BY DEF F
<1>4. \A k \in T : m <= k
  <2> SUFFICES ASSUME NEW k \in T, k < m PROVE FALSE
    OBVIOUS
  <2>1. 0..k \in F /\ 0..k \subseteq 0..m /\ m \in 0..m /\ m \notin 0..k
    OBVIOUS
  <2>2. <<0..k, 0..m>> \in StrictSubsetOrdering(Nat)
    BY <2>1 DEF StrictSubsetOrdering
  <2> QED BY <1>2, <1>3, <2>1, <2>2
<1> QED BY <1>4

(* Max of a bounded set of numbers is its greatest element. *)
LEMMA Greatest ==
  ASSUME NEW n \in Nat, NEW T \in SUBSET (0..n), T # {}
  PROVE  Max(T) \in T /\ \A k \in T : k <= Max(T)
<1> DEFINE Gaps == {n - k : k \in T}
<1> \A k \in T : k \in Int /\ n - k \in Nat
  OBVIOUS
<1>1. Gaps \in SUBSET Nat /\ Gaps # {}
  OBVIOUS
<1>2. PICK g \in Gaps : \A k \in Gaps : g <= k
  BY <1>1, LeastNumber
<1>3. PICK m \in T : g = n - m
  OBVIOUS
<1>4. \A k \in T : m >= k
  <2> SUFFICES ASSUME NEW k \in T PROVE m >= k
    OBVIOUS
  <2>1. n - m <= n - k
    BY <1>2, <1>3
  <2> QED BY <2>1
<1>5. Max(T) \in T /\ \A k \in T : Max(T) >= k
  BY <1>3, <1>4 DEF Max
<1> QED BY <1>5
-----------------------------------------------------------------------------
(* The rules in their order *)

LastRule == 13
RuleNumbers == 1..LastRule

LEMMA RulesCounted == Len(Rules) = LastRule /\ DOMAIN Rules = RuleNumbers
  BY DEF Rules, LastRule, RuleNumbers

Obeyed(n) == \A k \in RuleNumbers : k < n => Obeys(Rules[k])

CheckIInv ==
  /\ CheckTypeOK
  /\ verdict = "runs" => \A k \in RuleNumbers : Obeys(Rules[k])
  /\ verdict # "runs" => Obeyed(rule)
  /\ verdict \in {"asked", "refused"} => ~Obeys(Rules[rule])

LEMMA CheckInitInductive == CheckInit => CheckIInv
  BY RulesCounted DEF CheckInit, CheckIInv, CheckTypeOK, Obeyed, LastRule, RuleNumbers

(* A statement goes on to the next rule only when it obeys this one, and   *)
(* stops at one that it does not: of the tree nothing changes.             *)
LEMMA CheckStepInductive == CheckIInv /\ [CheckNext]_checkVars => CheckIInv'
<1> SUFFICES ASSUME CheckIInv, [CheckNext]_checkVars PROVE CheckIInv'
  OBVIOUS
<1>1. statement' = statement
  BY DEF CheckNext, checkVars, AskForPeriod, Refuse, Pass
<1>2. \A r : Obeys(r)' = Obeys(r)
  BY <1>1 DEF Obeys, PeriodGuard, HasPeriodInWhere, TextOK, UnionOrderOK, IdentityOK, Derived,
     AggregationOK, StoreNameOK, CategoryNameOK, TablesOK, AliasesOK, PeriodOK, Bounding, ColumnsExist,
     Known, CustomerGrainOK, ShapeOK, Referenced, Selects, Outermost, BoundTable, Binder
<1>3. CASE Pass /\ rule = LastRule
  <2>1. \A k \in RuleNumbers : Obeys(Rules[k])
    <3> SUFFICES ASSUME NEW k \in RuleNumbers PROVE Obeys(Rules[k])
      OBVIOUS
    <3>1. k < rule \/ k = rule
      BY <1>3 DEF RuleNumbers, LastRule
    <3> QED BY <1>3, <3>1 DEF Pass, CheckIInv, Obeyed
  <2>2. rule' = rule /\ verdict' = "runs"
    BY <1>3, RulesCounted DEF Pass, After
  <2> QED BY <1>1, <1>2, <2>1, <2>2 DEF CheckIInv, CheckTypeOK, Obeyed
<1>4. CASE Pass /\ rule # LastRule
  <2>1. rule \in RuleNumbers /\ rule' = rule + 1 /\ rule' \in RuleNumbers /\ verdict' = "checking"
    BY <1>4, RulesCounted DEF Pass, After, CheckIInv, CheckTypeOK, RuleNumbers, LastRule
  <2>2. \A k \in RuleNumbers : k < rule' => k < rule \/ k = rule
    BY <2>1 DEF RuleNumbers
  <2>3. \A k \in RuleNumbers : k < rule' => Obeys(Rules[k])
    BY <1>4, <2>2 DEF Pass, CheckIInv, Obeyed
  <2>4. CheckTypeOK'
    BY <1>1, <2>1, RulesCounted DEF CheckIInv, CheckTypeOK
  <2> QED BY <1>2, <2>1, <2>3, <2>4 DEF CheckIInv, Obeyed
<1>5. CASE AskForPeriod \/ Refuse \/ UNCHANGED checkVars
  <2>1. rule' = rule /\ (verdict' = verdict \/ (~Obeys(Rules[rule]) /\ verdict' \in {"asked", "refused"}))
    <3>1. CASE AskForPeriod
      BY <3>1 DEF AskForPeriod
    <3>2. CASE Refuse
      BY <3>2 DEF Refuse
    <3>3. CASE UNCHANGED checkVars
      BY <3>3 DEF checkVars
    <3> QED BY <1>5, <3>1, <3>2, <3>3
  <2>2. verdict' # "runs" => verdict # "runs"
    BY <1>5 DEF AskForPeriod, Refuse, checkVars
  <2> QED BY <1>1, <1>2, <2>1, <2>2 DEF CheckIInv, CheckTypeOK, Obeyed
<1> QED BY <1>3, <1>4, <1>5 DEF CheckNext

THEOREM CheckInductive == CheckSpec => []CheckIInv
  BY CheckInitInductive, CheckStepInductive, PTL DEF CheckSpec

LEMMA EachRule ==
  ASSUME \A k \in RuleNumbers : Obeys(Rules[k])
  PROVE  PeriodGuard /\ IdentityOK /\ TablesOK /\ ColumnsExist /\ CustomerGrainOK
<1>1. \A k \in {1, 4, 8, 11, 12} : Obeys(Rules[k])
  BY DEF RuleNumbers, LastRule
<1>2. /\ Rules[1] = "period_guard" /\ Rules[4] = "identity" /\ Rules[8] = "tables"
      /\ Rules[11] = "columns" /\ Rules[12] = "grain"
  BY DEF Rules
<1>3. Obeys("period_guard") /\ Obeys("identity") /\ Obeys("tables") /\ Obeys("columns") /\ Obeys("grain")
  BY <1>1, <1>2
<1> QED BY <1>3 DEF Obeys

-----------------------------------------------------------------------------
(* The tree *)

LEMMA Trees ==
  ASSUME statement \in Statements
  PROVE  /\ \A s \in Outermost : s \in SelectsOver(Tables \union CteSources)
         /\ \A s \in Outermost : \A c \in Ctes(s) : c \in SelectsOver(Tables)
         /\ \A s \in Selects : s \in SelectsOver(Tables \union CteSources)
<1>1. statement.branches \in Seq(SelectsOver(Tables \union CteSources))
  BY DEF Statements
<1>2. \A s \in Outermost : s \in SelectsOver(Tables \union CteSources)
  BY <1>1 DEF Outermost, ToSet
<1>3. ASSUME NEW s \in Outermost, NEW c \in Ctes(s) PROVE c \in SelectsOver(Tables)
  <2>1. PICK i \in DOMAIN s.from : s.from[i].table = "" /\ c = s.from[i].cte[1]
    BY DEF Ctes
  <2>2. s.from[i] \in Tables \union CteSources
    BY <1>2 DEF SelectsOver
  <2>3. s.from[i] \in CteSources
    BY <2>1, <2>2 DEF Tables
  <2> QED BY <2>1, <2>3 DEF CteSources
<1>4. SelectsOver(Tables) \subseteq SelectsOver(Tables \union CteSources)
  <2>1. Seq(Tables) \subseteq Seq(Tables \union CteSources)
    OBVIOUS
  <2> QED BY <2>1 DEF SelectsOver
<1> QED BY <1>2, <1>3, <1>4 DEF Selects

(* What a select is made of. *)
LEMMA Parts ==
  ASSUME statement \in Statements, NEW s \in Selects
  PROVE  /\ Len(s.from) \in Nat /\ DOMAIN s.from = 1..Len(s.from)
         /\ \A i \in DOMAIN s.from : s.from[i] \in Tables \union CteSources
         /\ \A e \in ToSet(s.items) : e \in Expressions
         /\ s.group \subseteq Expressions /\ s.where \subseteq Predicates
<1>1. s \in SelectsOver(Tables \union CteSources)
  BY Trees
<1>2. s.from \in Seq(Tables \union CteSources) /\ s.items \in Seq(Expressions)
  BY <1>1 DEF SelectsOver
<1>3. s.group \subseteq Expressions /\ s.where \subseteq Predicates
  BY <1>1 DEF SelectsOver
<1> QED BY <1>2, <1>3 DEF ToSet

(* The selects over tables alone have no CTE: two levels are all there is. *)
LEMMA TwoLevels ==
  ASSUME statement \in Statements, NEW s \in Outermost, NEW c \in Ctes(s)
  PROVE  Ctes(c) = {} /\ c \in Selects /\ \A i \in DOMAIN c.from : c.from[i].table # ""
<1>1. c \in SelectsOver(Tables)
  BY Trees
<1>2. c.from \in Seq(Tables)
  BY <1>1 DEF SelectsOver
<1>3. \A i \in DOMAIN c.from : c.from[i] \in Tables
  BY <1>2
<1>4. \A i \in DOMAIN c.from : c.from[i].table # ""
  BY <1>3 DEF Tables
<1>5. c \in Selects
  BY DEF Selects
<1> QED BY <1>4, <1>5 DEF Ctes

LEMMA BindingIsThere ==
  ASSUME statement \in Statements, NEW s \in Selects, NEW alias, Binding(s, alias) # {}
  PROVE  Max(Binding(s, alias)) \in Binding(s, alias)
<1>1. Len(s.from) \in Nat /\ DOMAIN s.from = 1..Len(s.from)
  BY Parts
<1>2. Binding(s, alias) \subseteq DOMAIN s.from
  BY DEF Binding
<1>3. 1..Len(s.from) \subseteq 0..Len(s.from)
  BY <1>1
<1> QED BY <1>1, <1>2, <1>3, Greatest

(* An alias is bound to a table that bears it somewhere. *)
LEMMA BoundSomewhere ==
  ASSUME statement \in Statements, NEW alias, NEW s \in Selects, Binding(s, alias) # {}
  PROVE  \E t \in Selects : \E j \in Binding(t, alias) : BoundTable(alias) = t.from[j].table
<1> DEFINE t == Binder(alias)
<1>1. t \in Selects /\ Binding(t, alias) # {}
  <2>1. CASE \E b \in Outermost : \E c \in Ctes(b) : Binding(c, alias) # {}
    <3>1. \E c \in UNION {Ctes(b) : b \in Outermost} : Binding(c, alias) # {}
      BY <2>1
    <3>2. t = CHOOSE c \in UNION {Ctes(b) : b \in Outermost} : Binding(c, alias) # {}
      BY <2>1 DEF Binder
    <3>3. t \in UNION {Ctes(b) : b \in Outermost} /\ Binding(t, alias) # {}
      BY <3>1, <3>2
    <3> QED BY <3>3 DEF Selects
  <2>2. CASE ~\E b \in Outermost : \E c \in Ctes(b) : Binding(c, alias) # {}
    <3> DEFINE B == {b \in DOMAIN statement.branches : Binding(statement.branches[b], alias) # {}}
    <3>1. t = statement.branches[Max(B)]
      BY <2>2 DEF Binder
    <3>2. s \in Outermost
      BY <2>2 DEF Selects
    <3>3. B # {}
      BY <3>2 DEF Outermost, ToSet
    <3>4. Len(statement.branches) \in Nat /\ DOMAIN statement.branches = 1..Len(statement.branches)
      BY DEF Statements
    <3>5. B \in SUBSET (0..Len(statement.branches))
      BY <3>4
    <3>6. Max(B) \in B
      BY <3>3, <3>4, <3>5, Greatest
    <3> QED BY <3>1, <3>6 DEF Selects, Outermost, ToSet
  <2> QED BY <2>1, <2>2
<1>2. BoundTable(alias) = t.from[Max(Binding(t, alias))].table
  BY DEF BoundTable
<1>3. Max(Binding(t, alias)) \in Binding(t, alias)
  BY <1>1, BindingIsThere
<1> QED BY <1>1, <1>2, <1>3

(* If aliases stand for one table, each is bound to that. *)
LEMMA BoundToItsTable ==
  ASSUME statement \in Statements, AliasesApart,
         NEW s \in Selects, NEW i \in DOMAIN s.from, s.from[i].table # ""
  PROVE  BoundTable(s.from[i].alias) = s.from[i].table
<1>1. i \in Binding(s, s.from[i].alias)
  BY DEF Binding
<1>2. PICK t \in Selects : \E j \in Binding(t, s.from[i].alias) :
        BoundTable(s.from[i].alias) = t.from[j].table
  BY <1>1, BoundSomewhere
<1>3. PICK j \in Binding(t, s.from[i].alias) : BoundTable(s.from[i].alias) = t.from[j].table
  BY <1>2
<1>4. j \in DOMAIN t.from /\ t.from[j].alias = s.from[i].alias
  BY DEF Binding
<1>5. CASE <<s, i>> = <<t, j>>
  BY <1>3, <1>5
<1>6. CASE <<s, i>> # <<t, j>>
  BY <1>3, <1>4, <1>6 DEF AliasesApart
<1> QED BY <1>5, <1>6

(* A CTE's alias is bound to nothing, nor is what is no alias. *)
LEMMA BoundToNothing ==
  ASSUME NEW alias, \A s \in Selects : Binding(s, alias) = {}
  PROVE  BoundTable(alias) = ""
  BY DEF BoundTable

-----------------------------------------------------------------------------
(* What the rules achieve together *)

LEMMA TablesReferenced ==
  ASSUME NEW s \in Selects, NEW i \in DOMAIN s.from, s.from[i].table # ""
  PROVE  s.from[i].table \in Referenced
<1>1. s.from[i].table \in TablesIn(s)
  BY DEF TablesIn
<1> QED BY <1>1 DEF Referenced

(* Each column is looked up in the table its alias is bound to, and that   *)
(* is the one that stands there.                                           *)
LEMMA ColumnsChecked ==
  ASSUME statement \in Statements, ColumnsExist, AliasesApart,
         NEW s \in Selects, NEW c \in ColumnsIn(s), NEW i \in DOMAIN s.from,
         s.from[i].alias = c.of, s.from[i].table # "", ColumnsOf(s.from[i].table) # {}
  PROVE  c.name \in ColumnsOf(s.from[i].table)
<1>1. BoundTable(c.of) = s.from[i].table
  BY BoundToItsTable
<1>2. Known # {}
  BY TablesReferenced DEF Known
<1>3. ColumnsOf(BoundTable(c.of)) = {} \/ c.name \in ColumnsOf(BoundTable(c.of))
  BY <1>2 DEF ColumnsExist
<1> QED BY <1>1, <1>3

LEMMA ColumnsSafe == CheckIInv => ColumnsAreOfTheirTable
<1> SUFFICES ASSUME CheckIInv, verdict = "runs", AliasesApart,
                    NEW s \in Selects, NEW c \in ColumnsIn(s), NEW i \in DOMAIN s.from,
                    s.from[i].alias = c.of, s.from[i].table # "", ColumnsOf(s.from[i].table) # {}
             PROVE  Resolves(s, c)
  BY DEF ColumnsAreOfTheirTable
<1>1. statement \in Statements /\ ColumnsExist
  BY StatementsAssumption, EachRule DEF CheckIInv, CheckTypeOK
<1>2. c.name \in ColumnsOf(s.from[i].table)
  BY <1>1, ColumnsChecked
<1> QED BY <1>2 DEF Resolves, SourceColumns

(* Without a CTE the guard's text is the WHERE: what it finds there is a   *)
(* period column, of a table its select reads, and so the one of a view.   *)
LEMMA ScansSafe == CheckIInv => AScanIsBounded
<1> SUFFICES ASSUME CheckIInv, verdict = "runs", AliasesApart, Listed,
                    Referenced \intersect AllowedViews # {},
                    \A s \in Outermost :
                      Ctes(s) = {} /\ \A c \in WhereColumns(s) : \E i \in DOMAIN s.from : s.from[i].alias = c.of
             PROVE  \E s \in Selects : \E i \in DOMAIN s.from :
                      s.from[i].table \in AllowedViews /\ BoundedIn(s, s.from[i])
  BY DEF AScanIsBounded
<1>1. statement \in Statements /\ PeriodGuard /\ TablesOK /\ ColumnsExist
  BY StatementsAssumption, EachRule DEF CheckIInv, CheckTypeOK
<1>2. PICK s \in Outermost : \E c \in GuardedText(s) : c.name \in PeriodColumns
  BY <1>1 DEF PeriodGuard, HasPeriodInWhere
<1>3. PICK c \in GuardedText(s) : c.name \in PeriodColumns
  BY <1>2
<1>4. c \in WhereColumns(s) /\ s \in Selects
  <2>1. Ctes(s) = {}
    OBVIOUS
  <2>2. UNION {WhereColumns(t) : t \in Ctes(s)} = {}
    BY <2>1
  <2>3. ~\E t \in Ctes(s) : t.where # {} /\ t.group = {}
    BY <2>1
  <2> QED BY <2>2, <2>3 DEF GuardedText, Selects
<1>5. PICK i \in DOMAIN s.from : s.from[i].alias = c.of
  BY <1>4
<1>6. s.from[i].table # ""
  BY <1>4 DEF Ctes
<1>7. s.from[i].table \in Referenced /\ ColumnsOf(s.from[i].table) # {}
  BY <1>4, <1>6, TablesReferenced DEF Listed
<1>8. c.name \in ColumnsOf(s.from[i].table)
  BY <1>1, <1>4, <1>5, <1>6, <1>7, ColumnsChecked DEF ColumnsIn
<1>9. s.from[i].table \in AllowedViews /\ c.name = PeriodColumn[s.from[i].table]
  BY <1>1, <1>3, <1>7, <1>8, ColumnsAssumption DEF TablesOK
<1>10. PICK p \in s.where : c = Column(p)
  BY <1>4 DEF WhereColumns
<1>11. p.of = s.from[i].alias /\ p.name = PeriodColumn[s.from[i].table]
  BY <1>5, <1>9, <1>10 DEF Column
<1> QED BY <1>4, <1>9, <1>11 DEF BoundedIn

-----------------------------------------------------------------------------
(* What is right obeys every rule *)

LEMMA RightViewsAreBounded ==
  ASSUME Right, NEW v \in Referenced \intersect AllowedViews
  PROVE  \E s \in Selects : \E c \in WhereColumns(s) : c.name = PeriodColumn[v]
<1>1. PICK s \in Selects : v \in TablesIn(s)
  BY DEF Referenced
<1>2. PICK i \in DOMAIN s.from : s.from[i].table = v
  BY <1>1 DEF TablesIn
<1>3. BoundedIn(s, s.from[i])
  BY DEF Right
<1>4. PICK p \in s.where : p.name = PeriodColumn[v]
  BY <1>2, <1>3 DEF BoundedIn
<1>5. Column(p) \in WhereColumns(s) /\ Column(p).name = PeriodColumn[v]
  BY <1>4 DEF WhereColumns, Column
<1> QED BY <1>5

(* The text of a WHERE is read in a CTE as in the select around it. *)
LEMMA RightHasAPeriod == ASSUME Right PROVE PeriodGuard /\ PeriodOK
<1>1. PeriodGuard
  <2> SUFFICES ASSUME NEW v \in Referenced \intersect AllowedViews PROVE HasPeriodInWhere
    BY DEF PeriodGuard
  <2>1. PICK s \in Selects : \E c \in WhereColumns(s) : c.name = PeriodColumn[v]
    BY RightViewsAreBounded
  <2>2. PICK c \in WhereColumns(s) : c.name = PeriodColumn[v]
    BY <2>1
  <2>3. c.name \in PeriodColumns
    BY <2>2 DEF PeriodColumns
  <2>4. PICK o \in Outermost : s = o \/ s \in Ctes(o)
    BY DEF Selects
  <2>5. c \in WhereColumns(o) \/ c \in UNION {WhereColumns(t) : t \in Ctes(o)}
    BY <2>4
  <2>6. c \in GuardedText(o)
    BY <2>5 DEF GuardedText
  <2> QED BY <2>3, <2>6 DEF HasPeriodInWhere
<1>2. PeriodOK
  <2> DEFINE Expected == {PeriodColumn[v] : v \in Referenced \intersect AllowedViews}
  <2> SUFFICES ASSUME NEW v \in Referenced \intersect AllowedViews PROVE Expected \intersect Bounding # {}
    BY DEF PeriodOK
  <2>1. PICK s \in Selects : \E c \in WhereColumns(s) : c.name = PeriodColumn[v]
    BY RightViewsAreBounded
  <2>2. PICK c \in WhereColumns(s) : c.name = PeriodColumn[v]
    BY <2>1
  <2>3. c.name \in {d.name : d \in WhereColumns(s) \union OnColumns(s)}
    BY <2>2
  <2>4. c.name \in Bounding
    BY <2>3 DEF Bounding
  <2> QED BY <2>2, <2>4
<1> QED BY <1>1, <1>2

LEMMA ColumnOf == \A e : Column(e).of = e.of /\ Column(e).name = e.name
  BY DEF Column

(* An expression of a select reads its column there. *)
LEMMA ItemsAreRead ==
  ASSUME NEW s, NEW e \in ToSet(s.items), e.name # "*"
  PROVE  Column(e) \in ColumnsIn(s)
  BY DEF ColumnsIn, ItemColumns
LEMMA GroupsAreRead ==
  ASSUME NEW s, NEW e \in s.group
  PROVE  Column(e) \in ColumnsIn(s)
  BY DEF ColumnsIn, GroupColumns

(* The rule goes by names, and so, with IdentityByName, by identities. *)
LEMMA RightReturnsNoIdentity ==
  ASSUME statement \in Statements, Right, IdentityByName
  PROVE  IdentityOK
<1>1. ASSUME NEW s \in Selects, NEW e \in ToSet(s.items), e.name \in Identity
      PROVE  ~InsideDisallowedAggregate(e)
  <2>1. e \in Expressions /\ e.name # "*"
    BY <1>1, Parts DEF Identity
  <2>2. IsIdentity(s, Column(e))
    BY <1>1, <2>1, ItemsAreRead, ColumnOf DEF IdentityByName
  <2>3. e.fn \notin {"sum", "max", "count"}
    BY <2>1, <2>2 DEF Right, ToSet
  <2>4. e.fn \in Functions
    BY <2>1 DEF Expressions
  <2> QED BY <2>3, <2>4 DEF Functions, InsideDisallowedAggregate
<1>2. ASSUME NEW s \in Outermost, NEW e \in ToSet(s.items) \union s.group,
             Returns(e, Identity \union Derived)
      PROVE  FALSE
  <2>1. s \in Selects
    BY DEF Selects
  <2>2. e.name \in Identity \union Derived /\ e.fn \in {"column", "sum", "max"}
    BY <1>2 DEF Returns
  <2>3. e \in Expressions
    BY <2>1, Parts
  <2>4. e.name # "*"
    BY <2>2, <2>3 DEF Expressions
  <2>5. Column(e) \in ColumnsIn(s)
    BY <2>4, ItemsAreRead, GroupsAreRead
  <2>6. IsIdentity(s, Column(e))
    BY <2>1, <2>2, <2>5, ColumnOf DEF IdentityByName
  <2> QED BY <2>2, <2>6 DEF Right
<1> QED BY <1>1, <1>2 DEF IdentityOK

(* A column of a table is looked up there; a column of a CTE nowhere,      *)
(* since no table bears its alias.                                         *)
LEMMA RightColumnsExist ==
  ASSUME statement \in Statements, Right, AliasesApart
  PROVE  ColumnsExist
<1>1. ASSUME NEW s \in Selects, NEW c \in ColumnsIn(s)
      PROVE  ColumnsOf(BoundTable(c.of)) = {} \/ c.name \in ColumnsOf(BoundTable(c.of))
  <2>1. Resolves(s, c)
    BY DEF Right
  <2>2. PICK i \in DOMAIN s.from : s.from[i].alias = c.of /\ c.name \in SourceColumns(s.from[i])
    BY <2>1 DEF Resolves
  <2>3. CASE s.from[i].table # ""
    BY <2>2, <2>3, BoundToItsTable DEF SourceColumns
  <2>4. CASE s.from[i].table = ""
    <3>1. ASSUME NEW t \in Selects, NEW j \in Binding(t, c.of) PROVE FALSE
      <4>1. j \in DOMAIN t.from /\ t.from[j].table # "" /\ t.from[j].alias = s.from[i].alias
        BY <2>2 DEF Binding
      <4>2. <<s, i>> # <<t, j>>
        BY <2>4, <4>1
      <4> QED BY <2>4, <4>1, <4>2 DEF AliasesApart
    <3>2. BoundTable(c.of) = ""
      BY <3>1, BoundToNothing
    <3> QED BY <3>2, ColumnsAssumption
  <2> QED BY <2>3, <2>4
<1>2. ASSUME NEW c \in statement.order PROVE ColumnsOf(BoundTable(c.of)) = {}
  <2>1. c.of = ""
    BY DEF Right
  <2>2. ASSUME NEW t \in Selects, NEW j \in Binding(t, "") PROVE FALSE
    <3>1. t.from[j] \in Tables \union CteSources /\ t.from[j].alias = ""
      BY Parts DEF Binding
    <3> QED BY <3>1 DEF Tables, CteSources, Aliases
  <2>3. BoundTable("") = ""
    BY <2>2, BoundToNothing
  <2> QED BY <2>1, <2>3, ColumnsAssumption
<1> QED BY <1>1, <1>2 DEF ColumnsExist

(* Where a table's customers are read, its month is held.                  *)
LEMMA CustomersAreMonthly ==
  ASSUME Right, NEW s \in Selects, NEW i \in DOMAIN s.from, s.from[i].table # "",
         Identity \intersect ColumnsOf(s.from[i].table) # {}
  PROVE  \E p \in s.where : p.name = "month_start_date"
<1>1. s.from[i].table \in AllowedViews \union JoinableDimensions
  BY TablesReferenced DEF Right
<1>2. s.from[i].table \in CustomerViews
  BY <1>1, ColumnsAssumption
<1>3. s.from[i].table \in AllowedViews /\ PeriodColumn[s.from[i].table] = "month_start_date"
  BY <1>2 DEF CustomerViews, AllowedViews, Traits, PeriodColumn, DailyViews
<1>4. BoundedIn(s, s.from[i])
  BY DEF Right
<1> QED BY <1>3, <1>4 DEF BoundedIn

LEMMA CountedCustomersAreMonthly ==
  ASSUME statement \in Statements, Right, IdentityByName,
         NEW s \in Selects, NEW e \in ToSet(s.items), e.name = "customer_key"
  PROVE  \E t \in Selects : \E p \in t.where : p.name = "month_start_date"
<1>1. IsIdentity(s, Column(e))
  BY ItemsAreRead, ColumnOf DEF IdentityByName, Identity
<1>2. PICK i \in DOMAIN s.from : "customer_key" \in IdentityOf(s.from[i])
  BY <1>1, ColumnOf DEF IsIdentity
<1>3. CASE s.from[i].table # ""
  <2>1. Identity \intersect ColumnsOf(s.from[i].table) # {}
    BY <1>2, <1>3 DEF IdentityOf, SourceColumns
  <2> QED BY <1>3, <2>1, CustomersAreMonthly
<1>4. CASE s.from[i].table = ""
  <2> DEFINE c == s.from[i].cte[1]
  <2>1. PICK x \in ToSet(c.items) : x.name \in Identity
    BY <1>2, <1>4 DEF IdentityOf, Returns
  <2>2. c \in Ctes(s)
    BY <1>4 DEF Ctes
  <2>3. s \in Outermost
    <3> SUFFICES ASSUME NEW o \in Outermost, s \in Ctes(o) PROVE FALSE
      BY DEF Selects
    <3> QED BY <2>2, TwoLevels
  <2>4. c \in Selects /\ \A j \in DOMAIN c.from : c.from[j].table # ""
    BY <2>2, <2>3, TwoLevels
  <2>5. Column(x) \in ColumnsIn(c)
    BY <2>1, ItemsAreRead DEF Identity
  <2>6. PICK j \in DOMAIN c.from : x.name \in SourceColumns(c.from[j])
    BY <2>4, <2>5, ColumnOf DEF Right, Resolves
  <2>7. Identity \intersect ColumnsOf(c.from[j].table) # {}
    BY <2>1, <2>4, <2>6 DEF SourceColumns
  <2> QED BY <2>4, <2>7, CustomersAreMonthly
<1> QED BY <1>3, <1>4

(* The shape guard wants whole months of days and customers: only >= and < *)
(* on the months escape it.                                                *)
LEMMA RightShape ==
  ASSUME statement \in Statements, Right, IdentityByName, ~MonthsByRange
  PROVE  ShapeOK
<1> SUFFICES ASSUME NEW s \in Selects, NEW e \in ToSet(s.items),
                    e.fn = "count_distinct" /\ e.name = "customer_key",
                    \E t \in Selects :
                      \/ \E p \in t.where : p.name = "calendar_date"
                      \/ \E pair \in t.on : pair[1].name = "calendar_date"
             PROVE  \E t \in Selects : \E p \in t.where : p.name = "month_start_date" /\ p.op \in {"eq", "between"}
  BY DEF ShapeOK
<1>1. \E t \in Selects : \E p \in t.where : p.name = "month_start_date"
  BY CountedCustomersAreMonthly
<1>2. PICK t \in Selects : \E p \in t.where : p.name = "month_start_date" /\ p.op # "range"
  BY <1>1 DEF MonthsByRange
<1>3. PICK p \in t.where : p.name = "month_start_date" /\ p.op # "range"
  BY <1>2
<1>4. p \in Predicates
  BY Parts
<1> QED BY <1>3, <1>4 DEF Predicates

LEMMA RightObeys ==
  ASSUME statement \in Statements, Right, AliasesApart, IdentityByName, ~MonthsByRange,
         NEW k \in RuleNumbers
  PROVE  Obeys(Rules[k])
<1>1. TextOK /\ UnionOrderOK
  BY DEF Right, TextOK, RefusedTexts, UnionOrderOK
<1>2. AggregationOK /\ CustomerGrainOK
  <2>1. AggregationOK
    BY DEF Right, AggregationOK, ToSet
  <2>2. ASSUME NEW s \in Selects, TablesIn(s) \intersect CustomerGrainViews # {},
               NEW e \in ToSet(s.items), e.fn = "count"
        PROVE  FALSE
    BY <2>2 DEF Right, ToSet, TablesIn
  <2> QED BY <2>1, <2>2 DEF CustomerGrainOK
<1>3. StoreNameOK /\ CategoryNameOK
  BY DEF Right, StoreNameOK, CategoryNameOK
<1>4. TablesOK /\ AliasesOK
  BY DEF Right, TablesOK, AliasesOK
<1>5. PeriodGuard /\ PeriodOK /\ IdentityOK /\ ColumnsExist /\ ShapeOK
  BY RightHasAPeriod, RightReturnsNoIdentity, RightColumnsExist, RightShape
<1>6. Rules[k] \in {"period_guard", "text", "union_order", "identity", "aggregation", "store_name",
                    "category_name", "tables", "aliases", "period", "columns", "grain", "shape"}
  BY DEF Rules, RuleNumbers, LastRule
<1> QED BY <1>1, <1>2, <1>3, <1>4, <1>5, <1>6 DEF Obeys

LEMMA RightSafe == CheckIInv => RightStatementsPass
<1> SUFFICES ASSUME CheckIInv, Right, AliasesApart, IdentityByName, ~MonthsByRange,
                    verdict \in {"asked", "refused"}
             PROVE  FALSE
  BY DEF RightStatementsPass
<1>1. statement \in Statements /\ rule \in RuleNumbers
  BY StatementsAssumption, RulesCounted DEF CheckIInv, CheckTypeOK
<1>2. Obeys(Rules[rule])
  BY <1>1, RightObeys
<1> QED BY <1>2 DEF CheckIInv

-----------------------------------------------------------------------------
(* Counting customers *)

Apart(s) == \A i, j \in DOMAIN s.from : s.from[i].alias = s.from[j].alias => i = j

(* Where aliases are apart a qualifier names one source. *)
LEMMA ValOf ==
  ASSUME NEW s, Apart(s), NEW i \in DOMAIN s.from, NEW f, NEW c, c.of = s.from[i].alias
  PROVE  Val(s, f, c) = f[i].value[c.name]
<1>1. (CHOOSE j \in DOMAIN s.from : s.from[j].alias = c.of) = i
  BY DEF Apart
<1> QED BY <1>1 DEF Val

(* A row of traits that runs at one month is its customer's only one.      *)
LEMMA TraitsRow ==
  ASSUME NEW s, Apart(s), NEW i \in DOMAIN s.from, s.from[i].table = Traits,
         OneMonth(s, s.from[i].alias), NEW f, NEW g, Keeps(s, f), Keeps(s, g),
         f[i] \in TableRows(Traits), g[i] \in TableRows(Traits),
         f[i].value["customer_key"] = g[i].value["customer_key"]
  PROVE  f[i] = g[i]
<1>1. PICK p \in s.where : p.of = s.from[i].alias /\ p.name = "month_start_date" /\ p.op = "eq"
  BY DEF OneMonth
<1>2. Val(s, f, p) = 1 /\ Val(s, g, p) = 1
  BY <1>1 DEF Keeps
<1>3. f[i].value["month_start_date"] = g[i].value["month_start_date"]
  BY <1>1, <1>2, ValOf
<1>4. PICK r \in Rows(Traits) : f[i] = [id |-> r, value |-> r]
  BY DEF TableRows
<1>5. PICK q \in Rows(Traits) : g[i] = [id |-> q, value |-> q]
  BY DEF TableRows
<1>6. r["customer_key"] = q["customer_key"] /\ r["month_start_date"] = q["month_start_date"]
  BY <1>3, <1>4, <1>5
<1>7. r = q
  BY <1>6, RowsAssumption
<1> QED BY <1>4, <1>5, <1>7

(* All plain columns of a collapsed CTE are one, the customer: it fixes    *)
(* what a row shows and what rows it is apart from.                        *)
OneKey(c, k) ==
  /\ \A i \in Plain(c) : Column(c.items[i]) = k
  /\ ~c.distinct => c.group # {} /\ GroupColumns(c) = {k}

(* An output name is one item's, and no identity is aggregated. *)
Outputs(c) ==
  /\ \A i, j \in DOMAIN c.items : c.items[i].as = c.items[j].as => i = j
  /\ \A i \in DOMAIN c.items : c.items[i].name \in Identity => c.items[i].fn \notin {"sum", "max"}

LEMMA CollapsedOnOne ==
  ASSUME NEW c, c.group # {} => \A i \in Plain(c) : Column(c.items[i]) \in GroupColumns(c),
         \/ OnlyKey(c.group)
         \/ c.distinct /\ OnlyKey(ToSet(c.items))
  PROVE  \E k : OneKey(c, k)
<1>1. CASE OnlyKey(c.group)
  <2>1. PICK x : c.group = {x}
    BY <1>1 DEF OnlyKey
  <2>2. GroupColumns(c) = {Column(x)}
    BY <2>1 DEF GroupColumns
  <2> QED BY <2>1, <2>2 DEF OneKey
<1>2. CASE c.distinct /\ OnlyKey(ToSet(c.items))
  <2>1. PICK x : ToSet(c.items) = {x}
    BY <1>2 DEF OnlyKey
  <2>2. \A i \in Plain(c) : c.items[i] = x
    BY <2>1 DEF Plain, ToSet
  <2> QED BY <1>2, <2>2 DEF OneKey
<1> QED BY <1>1, <1>2

LEMMA SameRow ==
  ASSUME NEW c, NEW k, OneKey(c, k), c.distinct \in BOOLEAN,
         NEW f, NEW g, Val(c, f, k) = Val(c, g, k)
  PROVE  CteValue(c, f) = CteValue(c, g) /\ CteKey(c, f) = CteKey(c, g)
<1>1. ASSUME NEW name, \E i \in Plain(c) : c.items[i].as = name
      PROVE  Column(c.items[CHOOSE i \in Plain(c) : c.items[i].as = name]) = k
  BY <1>1 DEF OneKey
<1>2. CteValue(c, f) = CteValue(c, g)
  BY <1>1 DEF CteValue
<1>3. CASE c.distinct
  BY <1>2, <1>3 DEF CteKey
<1>4. CASE ~c.distinct
  <2>1. {<<d, Val(c, f, d)>> : d \in GroupColumns(c)} = {<<d, Val(c, g, d)>> : d \in GroupColumns(c)}
    BY <1>4 DEF OneKey
  <2> QED BY <1>2, <1>4, <2>1 DEF CteKey, OneKey
<1> QED BY <1>3, <1>4

(* The names a CTE gives the customer show it. *)
LEMMA ShownCustomer ==
  ASSUME NEW c, NEW k, OneKey(c, k), Outputs(c),
         NEW i \in DOMAIN c.items, Returns(c.items[i], Identity), NEW f
  PROVE  CteValue(c, f)[c.items[i].as] = Val(c, f, k)
<1>1. i \in Plain(c)
  BY DEF Returns, Plain, Outputs
<1>2. (CHOOSE j \in Plain(c) : c.items[j].as = c.items[i].as) = i
  BY <1>1 DEF Plain, Outputs
<1> QED BY <1>1, <1>2 DEF CteValue, OneKey

(* What a counting select is known to be when the statement runs. *)
Counting(s) ==
  /\ statement \in Statements /\ s \in Selects
  /\ IdentityOK /\ TablesOK /\ CustomerGrainOK /\ Executable
  /\ \E e \in ToSet(s.items) : e.fn = "count"
  /\ JoinedOnCustomers(s)
  /\ \A i \in DOMAIN s.from :
       Collapsed(s.from[i]) /\ (s.from[i].table = Traits => OneMonth(s, s.from[i].alias))

(* A table it reads is traits: of the tables with customers the rule       *)
(* refuses the others.                                                     *)
LEMMA CountedTable ==
  ASSUME NEW s, Counting(s), NEW i \in DOMAIN s.from, s.from[i].table # ""
  PROVE  s.from[i].table = Traits /\ IdentityOf(s.from[i]) \subseteq {"customer_key"}
<1>1. IdentityOf(s.from[i]) \subseteq Identity \intersect ColumnsOf(s.from[i].table)
  BY DEF IdentityOf, SourceColumns
<1>2. IdentityOf(s.from[i]) # {}
  BY DEF Counting, JoinedOnCustomers
<1>3. s.from[i].table \in AllowedViews \union JoinableDimensions
  BY TablesReferenced DEF Counting, TablesOK
<1>4. s.from[i].table \in CustomerViews
  BY <1>1, <1>2, <1>3, ColumnsAssumption
<1>5. s.from[i].table \notin CustomerGrainViews
  BY DEF Counting, CustomerGrainOK, TablesIn
<1> QED BY <1>1, <1>4, <1>5 DEF CustomerViews, CustomerGrainViews, Identity

LEMMA CountedCte ==
  ASSUME NEW s, Counting(s), NEW i \in DOMAIN s.from, s.from[i].table = ""
  PROVE  LET c == s.from[i].cte[1]
         IN  Outputs(c) /\ c.distinct \in BOOLEAN /\ \E k : OneKey(c, k)
<1> DEFINE c == s.from[i].cte[1]
<1>1. statement \in Statements /\ s \in Selects /\ c \in Ctes(s)
  BY DEF Ctes, Counting
<1>2. s \in Outermost
  <2> SUFFICES ASSUME NEW o \in Outermost, s \in Ctes(o) PROVE FALSE
    BY <1>1 DEF Selects
  <2> QED BY <1>1, TwoLevels
<1>3. c \in Selects /\ c \in SelectsOver(Tables)
  BY <1>1, <1>2, TwoLevels, Trees
<1>4. c.distinct \in BOOLEAN
  BY <1>3 DEF SelectsOver
<1>5. Outputs(c)
  <2>1. \A k, l \in DOMAIN c.items : c.items[k].as = c.items[l].as => k = l
    BY <1>1 DEF Counting, Executable
  <2>2. ASSUME NEW k \in DOMAIN c.items, c.items[k].name \in Identity
        PROVE  c.items[k].fn \notin {"sum", "max"}
    <3>1. c.items[k] \in ToSet(c.items)
      BY DEF ToSet
    <3> QED BY <1>3, <2>2, <3>1 DEF Counting, IdentityOK, InsideDisallowedAggregate
  <2> QED BY <2>1, <2>2 DEF Outputs
<1>6. c.group # {} => \A k \in Plain(c) : Column(c.items[k]) \in GroupColumns(c)
  BY <1>3 DEF Counting, Executable
<1>7. OnlyKey(c.group) \/ (c.distinct /\ OnlyKey(ToSet(c.items)))
  BY DEF Counting, Collapsed
<1> QED BY <1>4, <1>5, <1>6, <1>7, CollapsedOnOne

LEMMA CombinationsAreFunctions ==
  ASSUME NEW s, NEW f \in Combinations(s, RowsOf(s))
  PROVE  Keeps(s, f) /\ f = [j \in DOMAIN s.from |-> f[j]]
  BY DEF Combinations

LEMMA RowsKept ==
  ASSUME NEW s, NEW f \in Combinations(s, RowsOf(s)), NEW i \in DOMAIN s.from
  PROVE  /\ s.from[i].table # "" => f[i] \in TableRows(s.from[i].table)
         /\ s.from[i].table = "" => f[i] \in CteRows(s.from[i].cte[1])
<1>1. f[i] \in RowsOf(s)[i]
  BY DEF Combinations
<1> QED BY <1>1 DEF RowsOf

LEMMA CountingApart == ASSUME NEW s, Counting(s) PROVE Apart(s)
  BY DEF Counting, Executable, Apart

(* A row of a source shows one customer, who fixes the row. *)
LEMMA CustomerFixesTheRow ==
  ASSUME NEW s, Counting(s), NEW i \in DOMAIN s.from,
         NEW f \in Combinations(s, RowsOf(s)), NEW g \in Combinations(s, RowsOf(s)),
         NEW m \in IdentityOf(s.from[i]), NEW n \in IdentityOf(s.from[i])
  PROVE  f[i].value[m] = f[i].value[n] /\ (f[i].value[m] = g[i].value[n] => f[i] = g[i])
<1>1. CASE s.from[i].table = ""
  <2> DEFINE c == s.from[i].cte[1]
  <2>1. Outputs(c) /\ c.distinct \in BOOLEAN
    BY <1>1, CountedCte
  <2>2. PICK k : OneKey(c, k)
    BY <1>1, CountedCte
  <2>3. f[i] \in CteRows(c) /\ g[i] \in CteRows(c)
    BY <1>1, RowsKept
  <2>4. PICK u : f[i] = [id |-> CteKey(c, u), value |-> CteValue(c, u)]
    BY <2>3 DEF CteRows
  <2>5. PICK v : g[i] = [id |-> CteKey(c, v), value |-> CteValue(c, v)]
    BY <2>3 DEF CteRows
  <2>6. ASSUME NEW name \in IdentityOf(s.from[i]), NEW h PROVE CteValue(c, h)[name] = Val(c, h, k)
    <3>1. PICK e \in ToSet(c.items) : e.as = name /\ Returns(e, Identity)
      BY <1>1 DEF IdentityOf
    <3>2. PICK j \in DOMAIN c.items : e = c.items[j]
      BY DEF ToSet
    <3> QED BY <2>1, <2>2, <3>1, <3>2, ShownCustomer
  <2>7. f[i].value[m] = Val(c, u, k) /\ f[i].value[n] = Val(c, u, k) /\ g[i].value[n] = Val(c, v, k)
    BY <2>4, <2>5, <2>6
  <2> HIDE DEF c
  <2>8. ASSUME Val(c, u, k) = Val(c, v, k) PROVE f[i] = g[i]
    <3>1. CteValue(c, u) = CteValue(c, v) /\ CteKey(c, u) = CteKey(c, v)
      BY <2>1, <2>2, <2>8, SameRow
    <3> QED BY <2>4, <2>5, <3>1
  <2> QED BY <2>7, <2>8
<1>2. CASE s.from[i].table # ""
  <2>1. s.from[i].table = Traits /\ m = "customer_key" /\ n = "customer_key"
    BY <1>2, CountedTable
  <2>2. f[i] \in TableRows(Traits) /\ g[i] \in TableRows(Traits) /\ Keeps(s, f) /\ Keeps(s, g)
    BY <1>2, <2>1, RowsKept, CombinationsAreFunctions
  <2>3. OneMonth(s, s.from[i].alias)
    BY <2>1 DEF Counting
  <2> QED BY <2>1, <2>2, <2>3, CountingApart, TraitsRow
<1> QED BY <1>1, <1>2

(* The join makes the customers of all sources one. *)
LEMMA OneCustomer ==
  ASSUME NEW s, Counting(s), NEW f \in Combinations(s, RowsOf(s)),
         NEW i \in DOMAIN s.from, NEW j \in DOMAIN s.from,
         NEW m \in IdentityOf(s.from[i]), NEW n \in IdentityOf(s.from[j])
  PROVE  f[i].value[m] = f[j].value[n]
<1>1. CASE i = j
  BY <1>1, CustomerFixesTheRow
<1>2. CASE i # j
  <2>1. PICK pair \in s.on : /\ {pair[1].of, pair[2].of} = {s.from[i].alias, s.from[j].alias}
                             /\ IsIdentity(s, pair[1]) /\ IsIdentity(s, pair[2])
    BY <1>2 DEF Counting, JoinedOnCustomers
  <2>2. Val(s, f, pair[1]) = Val(s, f, pair[2])
    BY CombinationsAreFunctions DEF Keeps
  <2>3. \A k \in DOMAIN s.from : \A c :
          c.of = s.from[k].alias /\ IsIdentity(s, c) => c.name \in IdentityOf(s.from[k])
    BY CountingApart DEF IsIdentity, Apart
  <2>4. ASSUME NEW k \in DOMAIN s.from, NEW l \in DOMAIN s.from,
               pair[1].of = s.from[k].alias, pair[2].of = s.from[l].alias,
               NEW o \in IdentityOf(s.from[k]), NEW p \in IdentityOf(s.from[l])
        PROVE  f[k].value[o] = f[l].value[p]
    <3>1. pair[1].name \in IdentityOf(s.from[k]) /\ pair[2].name \in IdentityOf(s.from[l])
      BY <2>1, <2>3, <2>4
    <3>2. f[k].value[pair[1].name] = f[l].value[pair[2].name]
      BY <2>2, <2>4, CountingApart, ValOf
    <3>3. f[k].value[o] = f[k].value[pair[1].name] /\ f[l].value[p] = f[l].value[pair[2].name]
      BY <3>1, CustomerFixesTheRow
    <3> QED BY <3>2, <3>3
  <2>5. CASE pair[1].of = s.from[i].alias /\ pair[2].of = s.from[j].alias
    BY <2>4, <2>5
  <2>6. CASE pair[1].of = s.from[j].alias /\ pair[2].of = s.from[i].alias
    BY <2>4, <2>6
  <2> QED BY <2>1, <2>5, <2>6
<1> QED BY <1>1, <1>2

LEMMA CountsSafe == CheckIInv => CustomersAreCountedOnce
<1> SUFFICES ASSUME CheckIInv, verdict = "runs", Executable, NEW s \in Selects,
                    \E e \in ToSet(s.items) : e.fn = "count", JoinedOnCustomers(s),
                    \A i \in DOMAIN s.from :
                      Collapsed(s.from[i]) /\ (s.from[i].table = Traits => OneMonth(s, s.from[i].alias)),
                    NEW f \in Combinations(s, RowsOf(s)), NEW g \in Combinations(s, RowsOf(s)),
                    f # g, Customers(s, f) = Customers(s, g)
             PROVE  FALSE
  BY DEF CustomersAreCountedOnce
<1>1. Counting(s)
  <2>1. statement \in Statements /\ IdentityOK /\ TablesOK /\ CustomerGrainOK
    BY StatementsAssumption, EachRule DEF CheckIInv, CheckTypeOK
  <2> QED BY <2>1 DEF Counting
<1>2. PICK i \in DOMAIN s.from : f[i] # g[i]
  BY CombinationsAreFunctions
<1>3. PICK m : m \in IdentityOf(s.from[i])
  BY <1>1 DEF Counting, JoinedOnCustomers
<1>4. f[i].value[m] \in {f[i].value[name] : name \in IdentityOf(s.from[i])}
  BY <1>3
<1>5. f[i].value[m] \in Customers(s, f)
  BY <1>4 DEF Customers
<1>6. PICK j \in DOMAIN s.from : f[i].value[m] \in {g[j].value[name] : name \in IdentityOf(s.from[j])}
  <2>1. f[i].value[m] \in Customers(s, g)
    BY <1>5
  <2> HIDE DEF Customers
  <2>2. Customers(s, g) = UNION {{g[k].value[name] : name \in IdentityOf(s.from[k])} : k \in DOMAIN s.from}
    BY Zenon DEF Customers
  <2> QED BY <2>1, <2>2
<1>7. PICK n \in IdentityOf(s.from[j]) : f[i].value[m] = g[j].value[n]
  BY <1>6
<1>8. g[i].value[m] = g[j].value[n]
  BY <1>1, <1>3, OneCustomer
<1>9. f[i] = g[i]
  BY <1>1, <1>3, <1>7, <1>8, CustomerFixesTheRow
<1> QED BY <1>2, <1>9

-----------------------------------------------------------------------------
(* validate_sql: a right statement costs no retry. *)
THEOREM RightPass == CheckSpec => []RightStatementsPass
  BY RightSafe, CheckInductive, PTL

(* _validate_columns_exist: no column but what its table has reaches the   *)
(* database.                                                               *)
THEOREM ColumnsTheirs == CheckSpec => []ColumnsAreOfTheirTable
  BY ColumnsSafe, CheckInductive, PTL

(* _validate_customer_grain: a count that runs is one of customers.        *)
THEOREM CustomersCountedOnce == CheckSpec => []CustomersAreCountedOnce
  BY CountsSafe, CheckInductive, PTL

(* sql_has_period_filter, _validate_period_filter, _validate_columns_exist *)
(* together: a scan that runs holds a view to a period.                    *)
THEOREM ScansBounded == CheckSpec => []AScanIsBounded
  BY ScansSafe, CheckInductive, PTL
-----------------------------------------------------------------------------
(* The session it runs in *)

(* Nothing that outlives the transaction is ever set. *)
Clean ==
  /\ session = Login /\ pending = Login
  /\ tx = "none" => current = Login

(* The scope is assembled statement by statement in one transaction. *)
RoleSet(l) == [Login EXCEPT !.role = PersonaRole(l)]
LevelSet(l) == [role |-> PersonaRole(l), level |-> l, path |-> "default"]

Entering ==
  /\ at \in {"idle", "reset"} => tx = "none"
  /\ at \in {"role", "guc", "path"} => tx = "open"
  /\ at = "role" => current = Login
  /\ at = "guc" => current = RoleSet(level)
  /\ at = "path" => current = LevelSet(level)
  /\ at # "idle" => level \in Levels

Marked(l) == <<Login, ScopeOf(l)>>

(* It is in force until the resolver or the connection fails, and the      *)
(* savepoint remembers it.                                                 *)
InForce ==
  /\ RetriesStayScoped
  /\ at \in {"assert", "limit", "savepoint", "execute", "release", "unwind"} => stage = "sql"
  /\ at \in {"execute", "release", "unwind"} => mark = Marked(level)
  /\ at \in {"execute", "release"} /\ tx # "lost" => tx = "open" /\ current = ScopeOf(level)
  /\ at = "unwind" => tx \in {"aborted", "lost"}
  /\ at = "body" => tx # "aborted"

IInv == TypeOK /\ Clean /\ Entering /\ InForce
-----------------------------------------------------------------------------
(* The settings *)

LEMMA ScopesAreSettings ==
  /\ Login \in Settings
  /\ \A l \in Levels : PersonaRole(l) \in Roles /\ PersonaSchema(l) \in Paths /\ ScopeOf(l) \in Settings
  BY DEF Login, Settings, Levels, PersonaRole, PersonaSchema, Roles, Paths, ScopeOf

(* One setting at a time keeps settings settings. *)
LEMMA SettingChanged ==
  ASSUME NEW s \in Settings
  PROVE  /\ \A r \in Roles : [s EXCEPT !.role = r] \in Settings
         /\ \A l \in Levels : [s EXCEPT !.level = l] \in Settings
         /\ \A p \in Paths : [s EXCEPT !.path = p] \in Settings
  BY DEF Settings

(* RESET ROLE leaves the login role pending. *)
LEMMA LoginReset == [Login EXCEPT !.role = "login"] = Login
  BY DEF Login

LEMMA RoleReset ==
  ASSUME TypeOK, Clean, ResetRole
  PROVE  /\ session' = Login /\ pending' = Login
         /\ current' = [current EXCEPT !.role = "login"] /\ current' \in Settings
  BY LoginReset, SettingChanged DEF TypeOK, Clean, ResetRole, Roles

(* Ending the transaction brings the login role back. *)
LEMMA EndedIsFresh ==
  ASSUME Clean, Ended
  PROVE  session' = Login /\ pending' = Login /\ current' = Login /\ tx' = "none"
  BY DEF Clean, Ended, Replaced, RolledBack

(* The statements of the entry build the scope. *)
LEMMA ScopeAssembled ==
  ASSUME NEW l \in Levels
  PROVE  /\ [RoleSet(l) EXCEPT !.level = l] = LevelSet(l)
         /\ [LevelSet(l) EXCEPT !.path = PersonaSchema(l)] = ScopeOf(l)
         /\ RoleSet(l) \in Settings /\ LevelSet(l) \in Settings
<1>1. ScopeOf(l) = [role |-> PersonaRole(l), level |-> l, path |-> PersonaSchema(l)]
  BY DEF ScopeOf, PersonaRole, PersonaSchema
<1>2. RoleSet(l) = [role |-> PersonaRole(l), level |-> None, path |-> "default"]
  BY DEF RoleSet, Login
<1>3. [RoleSet(l) EXCEPT !.level = l] = LevelSet(l)
  BY <1>2 DEF LevelSet
<1>4. [LevelSet(l) EXCEPT !.path = PersonaSchema(l)] = ScopeOf(l)
  BY <1>1 DEF LevelSet
<1>5. RoleSet(l) \in Settings /\ LevelSet(l) \in Settings
  BY <1>2, ScopesAreSettings DEF LevelSet, Settings, Paths
<1> QED BY <1>3, <1>4, <1>5

(* The savepoint remembers the scope, and rolling back to it restores it. *)
LEMMA MarkIsScope ==
  ASSUME NEW l \in Levels
  PROVE  /\ Marked(l) \in Settings \X Settings
         /\ Marked(l) = <<Login, ScopeOf(l)>>
         /\ Marked(l)[1] = Login /\ Marked(l)[2] = ScopeOf(l)
  BY ScopesAreSettings DEF Marked
-----------------------------------------------------------------------------
LEMMA InitInductive == Init => IInv
  BY ScopesAreSettings, ScopeAssumption
  DEF Init, Fresh, IInv, TypeOK, Clean, Entering, InForce, RetriesStayScoped, Places, InScope

(* A failing statement of the entry leaves the scope's try block unentered. *)
LEMMA EntryFails ==
  ASSUME IInv, NEW from \in {"reset", "role", "guc", "path"}, at = from,
         Lost \/ (from = "role" /\ Refused), Go("close"), outcome' = "failed",
         UNCHANGED <<mark, level, stage, runs, last, audit>>
  PROVE  IInv'
  BY DEF IInv, Lost, Refused, Usable, Go, conf, TypeOK, Clean, Entering, InForce,
         RetriesStayScoped, Places, InScope

(* The entry of the scope. *)
LEMMA EnterStep ==
  ASSUME IInv, (\E l \in Levels : Checkout(l)) \/ EnterScope
  PROVE  IInv'
<1> USE DEF IInv
<1>1. CASE \E l \in Levels : Checkout(l)
  <2>1. TypeOK'
    <3>1. mark' = mark
      BY <1>1 DEF Checkout, Go, conf
    <3>2. mark' \in Settings \X Settings
      BY <3>1 DEF TypeOK
    <3>3. runs' \in 0..MaxRuns
      <4>1. runs' = 0 /\ MaxRuns \in Nat
        BY <1>1, ScopeAssumption DEF Checkout
      <4> QED BY <4>1
    <3> QED BY <1>1, <3>2, <3>3 DEF Checkout, Go, conf, TypeOK, Places
  <2>2. Clean'
    BY <1>1, ScopeAssumption DEF Checkout, Go, conf, TypeOK, Clean, Entering, InForce
  <2>3. Entering'
    BY <1>1, ScopeAssumption DEF Checkout, Go, conf, TypeOK, Clean, Entering, InForce
  <2>4. InForce'
    BY <1>1, ScopeAssumption DEF Checkout, Go, conf, TypeOK, Clean, Entering, InForce, RetriesStayScoped
  <2> QED BY <2>1, <2>2, <2>3, <2>4 DEF IInv
<1>2. ASSUME NEW from \in {"reset", "role", "guc", "path"}, at = from, tx' = "open",
             NEW next \in {"role", "guc", "path", "body"}, Go(next), UNCHANGED <<mark, request>>,
             session' = Login, pending' = Login, current' \in Settings,
             next = "role" => current' = Login,
             next = "guc" => current' = RoleSet(level),
             next = "path" => current' = LevelSet(level),
             next = "body" => current' = ScopeOf(level)
      PROVE  IInv'
  <2>1. TypeOK'
    BY <1>2 DEF Go, request, TypeOK, Clean, Entering, InForce, InScope, Places
  <2>2. Clean'
    BY <1>2 DEF Go, request, TypeOK, Clean, Entering, InForce, InScope
  <2>3. Entering'
    BY <1>2 DEF Go, request, TypeOK, Clean, Entering, InForce, InScope
  <2>4. InForce'
    BY <1>2 DEF Go, request, TypeOK, Clean, Entering, InForce, InScope, RetriesStayScoped
  <2> QED BY <2>1, <2>2, <2>3, <2>4 DEF IInv
<1>3. CASE Enter("reset", ResetRole, "role")
  <2>1. CASE Executed(ResetRole) /\ Go("role") /\ UNCHANGED <<mark, request>>
    <3>1. ResetRole /\ tx' = "open" /\ at = "reset" /\ current = Login
      BY <1>3, <2>1 DEF Enter, Executed, Clean, Entering
    <3>2. session' = Login /\ pending' = Login /\ current' = Login /\ current' \in Settings
      BY <3>1, RoleReset, LoginReset
    <3> QED BY <1>2, <2>1, <3>1, <3>2
  <2> QED BY <1>3, <2>1, EntryFails DEF Enter
<1>4. CASE Enter("role", SetLocal("role", PersonaRole(level)), "guc")
  <2>1. CASE Executed(SetLocal("role", PersonaRole(level))) /\ Go("guc") /\ UNCHANGED <<mark, request>>
    <3>1. /\ SetLocal("role", PersonaRole(level)) /\ tx' = "open" /\ at = "role"
          /\ level \in Levels /\ current = Login
      BY <1>4, <2>1 DEF Enter, Executed, Entering
    <3>2. current' = RoleSet(level) /\ current' \in Settings
      BY <3>1, ScopeAssembled DEF SetLocal, RoleSet
    <3>3. session' = Login /\ pending' = Login
      BY <3>1 DEF SetLocal, Clean
    <3> QED BY <1>2, <2>1, <3>1, <3>2, <3>3
  <2> QED BY <1>4, <2>1, EntryFails DEF Enter
<1>5. CASE Enter("guc", SetLocal("level", level), "path")
  <2>1. CASE Executed(SetLocal("level", level)) /\ Go("path") /\ UNCHANGED <<mark, request>>
    <3>1. /\ SetLocal("level", level) /\ tx' = "open" /\ at = "guc"
          /\ level \in Levels /\ current = RoleSet(level)
      BY <1>5, <2>1 DEF Enter, Executed, Entering
    <3>2. /\ current' = LevelSet(level)
          /\ current' \in Settings
      BY <3>1, ScopeAssembled, SettingChanged DEF SetLocal
    <3>3. session' = Login /\ pending' = Login
      BY <3>1 DEF SetLocal, Clean
    <3> QED BY <1>2, <2>1, <3>1, <3>2, <3>3
  <2> QED BY <1>5, <2>1, EntryFails DEF Enter
<1>6. CASE Enter("path", SetLocal("path", PersonaSchema(level)), "body")
  <2>1. CASE Executed(SetLocal("path", PersonaSchema(level))) /\ Go("body")
             /\ UNCHANGED <<mark, request>>
    <3>1. /\ SetLocal("path", PersonaSchema(level)) /\ tx' = "open" /\ at = "path"
          /\ level \in Levels
          /\ current = LevelSet(level)
      BY <1>6, <2>1 DEF Enter, Executed, Entering
    <3>2. current' = ScopeOf(level) /\ current' \in Settings
      BY <3>1, ScopeAssembled, ScopesAreSettings DEF SetLocal
    <3>3. session' = Login /\ pending' = Login
      BY <3>1 DEF SetLocal, Clean
    <3> QED BY <1>2, <2>1, <3>1, <3>2, <3>3
  <2> QED BY <1>6, <2>1, EntryFails DEF Enter
<1> QED BY <1>1, <1>3, <1>4, <1>5, <1>6 DEF EnterScope

RequestOK ==
  /\ stage \in {"lookup", "sql", "clarify"} /\ runs \in 0..MaxRuns
  /\ last \in {"none", "rows", "error", "timeout", "cut off"}
  /\ outcome \in {"pending", "answered", "failed", "cancelled"}
  /\ audit \in {"none", "written", "failed"}
States == {"none", "open", "aborted", "lost"}

(* The settings a connection may have after a step, and where they are put. *)
Held == session = Login /\ pending = Login /\ current \in Settings /\ (tx = "none" => current = Login)

LEMMA TypedRequest == ASSUME IInv PROVE RequestOK /\ tx \in States /\ mark \in Settings \X Settings
  BY DEF IInv, TypeOK, RequestOK, States

LEMMA SameRequest == ASSUME IInv, UNCHANGED request PROVE RequestOK' /\ level' = level
  BY TypedRequest DEF request, RequestOK

LEMMA SameSettings ==
  ASSUME IInv, UNCHANGED conf, tx' = "none" => tx = "none"
  PROVE  Held'
  BY DEF IInv, TypeOK, Clean, conf, Held

(* Past the entry, what is left to show of a step is the scope. *)
LEMMA PastEntry ==
  ASSUME IInv, at # "idle", level' = level, RequestOK', mark' \in Settings \X Settings,
         at' \in Places \ {"reset", "role", "guc", "path"}, tx' \in States, Held',
         at' = "idle" => tx' = "none", InForce'
  PROVE  IInv'
<1>1. level \in Levels
  BY DEF IInv, Entering
<1>2. session' \in Settings /\ pending' \in Settings
  BY ScopesAreSettings DEF Held
<1>3. TypeOK'
  BY <1>1, <1>2 DEF TypeOK, RequestOK, States, Held
<1>4. Clean'
  BY DEF Clean, Held
<1>5. Entering'
  BY <1>1 DEF Entering
<1> QED BY <1>3, <1>4, <1>5 DEF IInv

(* Outside the scope nothing is in force. *)
LEMMA OutOfScope ==
  ASSUME IInv, at # "idle", level' = level, RequestOK', mark' = mark,
         at' \in Places \ (InScope \union {"reset", "role", "guc", "path"}), tx' \in States, Held',
         at' = "idle" => tx' = "none"
  PROVE  IInv'
<1>1. InForce'
  BY DEF InForce, RetriesStayScoped, InScope
<1>2. mark' \in Settings \X Settings
  BY TypedRequest
<1> QED BY <1>1, <1>2, PastEntry

(* A statement is refused, or its connection is lost or unusable. *)
LEMMA NoEffect ==
  ASSUME IInv, Refused \/ Lost
  PROVE  UNCHANGED conf /\ tx' \in {"aborted", "lost"} /\ Held'
<1>1. UNCHANGED conf /\ tx' \in {"aborted", "lost"}
  BY DEF Refused, Lost
<1> QED BY <1>1, SameSettings

LEMMA Taken ==
  ASSUME IInv, Executed(UNCHANGED conf)
  PROVE  Usable /\ UNCHANGED conf /\ tx' = "open" /\ Held'
<1>1. Usable /\ UNCHANGED conf /\ tx' = "open"
  BY DEF Executed
<1> QED BY <1>1, SameSettings

LEMMA EndedIsHeld ==
  ASSUME IInv, Ended
  PROVE  tx' = "none" /\ Held'
<1>1. session' = Login /\ pending' = Login /\ current' = Login /\ tx' = "none"
  BY EndedIsFresh DEF IInv
<1> QED BY <1>1, ScopesAreSettings DEF Held

LEMMA RoleResetIsHeld ==
  ASSUME IInv, Executed(ResetRole)
  PROVE  tx' = "open" /\ Held'
<1>1. session' = Login /\ pending' = Login /\ current' \in Settings /\ tx' = "open"
  BY RoleReset DEF IInv, Executed
<1> QED BY <1>1 DEF Held

(* Inside the scope, before a statement has failed, it is in force. *)
LEMMA ScopeInForce ==
  ASSUME IInv, at \in {"body", "assert", "limit", "savepoint"}, stage # "clarify", Usable
  PROVE  tx = "open" /\ current = ScopeOf(level) /\ level \in Levels
  BY DEF IInv, InForce, RetriesStayScoped, Entering, Usable

(* A payload goes back to the graph with a scope, or without a connection. *)
LEMMA PayloadStep ==
  ASSUME IInv, at \in {"assert", "limit", "savepoint", "release"}, NEW l \in {"rows", "error"}, Payload(l),
         UNCHANGED <<conf, mark>>,
         \/ tx' = "open" /\ current = ScopeOf(level)
         \/ Lost
  PROVE  IInv'
<1>1. at' = "body" /\ last' = l /\ level' = level /\ UNCHANGED <<stage, runs, outcome, audit>>
  BY DEF Payload, Go
<1>2. RequestOK'
  BY <1>1, TypedRequest DEF RequestOK
<1>3. tx # "aborted"
  <2>1. stage = "sql" /\ tx \in States
    BY TypedRequest DEF IInv, InForce
  <2> QED BY <2>1 DEF IInv, InForce, RetriesStayScoped
<1>4. tx' \in {"open", "lost"} /\ (tx' = "open" => current' = ScopeOf(level))
  BY <1>3 DEF Lost, conf
<1>5. InForce'
  BY <1>1, <1>4 DEF InForce, RetriesStayScoped
<1>6. Held'
  BY <1>4, SameSettings
<1>7. mark' \in Settings \X Settings /\ at' \in Places \ {"reset", "role", "guc", "path"} /\ tx' \in States
  BY <1>1, <1>4, TypedRequest DEF Places, InScope, States
<1> QED BY <1>1, <1>2, <1>5, <1>6, <1>7, PastEntry

(* Entity resolution and run_sql. *)
LEMMA RunStep ==
  ASSUME IInv,
         \/ Resolve \/ Recover \/ RunSql \/ AssertScopeActive \/ LimitStatement
         \/ Savepoint \/ Execute \/ Release \/ Unwind
  PROVE  IInv'
<1> DEFINE Later == Places \ {"reset", "role", "guc", "path"}
<1>0. /\ {"body", "recover", "assert", "limit", "savepoint", "execute", "release", "unwind"} \subseteq Later
      /\ States = {"none", "open", "aborted", "lost"}
  BY DEF Places, InScope, States
<1>a. UNCHANGED mark => mark' \in Settings \X Settings
  BY TypedRequest
<1> HIDE DEF Later
<1>1. CASE Resolve
  <2>1. at = "body" /\ stage = "lookup" /\ level' = level /\ UNCHANGED <<mark, runs, last, outcome, audit>>
    BY <1>1 DEF Resolve
  <2>2. CASE Go("body") /\ stage' = "sql" /\ (UNCHANGED <<conf, tx>> \/ Executed(UNCHANGED conf))
    <3>1. RequestOK'
      BY <2>1, <2>2, TypedRequest DEF RequestOK
    <3>2. Held' /\ tx' \in States /\ UNCHANGED conf /\ (tx' = tx \/ (Usable /\ tx' = "open"))
      <4>1. CASE UNCHANGED <<conf, tx>>
        BY <4>1, SameSettings, TypedRequest
      <4>2. CASE Executed(UNCHANGED conf)
        BY <4>2, Taken, <1>0
      <4> QED BY <2>2, <4>1, <4>2
    <3>3. tx' # "lost" => tx' = "open" /\ current' = ScopeOf(level)
      BY <2>1, <3>2 DEF IInv, InForce, RetriesStayScoped, Usable, conf
    <3>4. InForce'
      BY <2>1, <2>2, <3>3 DEF InForce, RetriesStayScoped, Go
    <3> QED BY <1>0, <1>a, <2>1, <2>2, <3>1, <3>2, <3>4, PastEntry DEF Go, Later
  <2>3. CASE (Refused \/ Lost) /\ Go("recover") /\ UNCHANGED stage
    <3>1. RequestOK'
      BY <2>1, <2>3, TypedRequest DEF RequestOK
    <3>2. Held' /\ tx' \in States
      BY <2>3, NoEffect, <1>0
    <3>3. InForce'
      BY <2>3 DEF InForce, RetriesStayScoped, Go
    <3> QED BY <1>0, <1>a, <2>1, <2>3, <3>1, <3>2, <3>3, PastEntry DEF Go, Later
  <2> QED BY <1>1, <2>2, <2>3 DEF Resolve
<1>2. CASE Recover
  <2>1. /\ at = "recover" /\ at' = "body" /\ stage' = "clarify" /\ level' = level
        /\ UNCHANGED <<mark, runs, last, outcome, audit>>
    BY <1>2 DEF Recover, Go
  <2>2. RequestOK'
    BY <2>1, TypedRequest DEF RequestOK
  <2>3. tx' = "none" /\ Held'
    BY <1>2, EndedIsHeld DEF Recover
  <2>4. InForce'
    BY <2>1, <2>3 DEF InForce, RetriesStayScoped
  <2> QED BY <1>0, <1>a, <2>1, <2>2, <2>3, <2>4, PastEntry DEF Later
<1>3. CASE RunSql
  <2>1. /\ at = "body" /\ stage = "sql" /\ at' = "assert" /\ level' = level
        /\ UNCHANGED <<conf, mark, tx, stage, last, outcome, audit>>
    BY <1>3 DEF RunSql, Go
  <2>2. runs' \in 0..MaxRuns
    <3>1. runs' = runs + 1 /\ runs < MaxRuns /\ runs \in 0..MaxRuns /\ MaxRuns \in Nat
      BY <1>3, ScopeAssumption, TypedRequest DEF RunSql, RequestOK
    <3> QED BY ONLY <3>1
  <2>3. RequestOK'
    BY <2>1, <2>2, TypedRequest DEF RequestOK
  <2>4. Held' /\ tx' \in States
    BY <2>1, SameSettings, TypedRequest
  <2>5. InForce'
    BY <2>1 DEF IInv, InForce, RetriesStayScoped, conf
  <2> QED BY <1>0, <1>a, <2>1, <2>3, <2>4, <2>5, PastEntry DEF Later
<1>4. CASE AssertScopeActive
  <2>1. at = "assert" /\ UNCHANGED mark /\ stage = "sql"
    BY <1>4 DEF AssertScopeActive, IInv, InForce
  <2>2. CASE Lost /\ Payload("error")
    BY <2>1, <2>2, NoEffect, PayloadStep
  <2>3. CASE Executed(UNCHANGED conf) /\ Payload("error")
    BY <2>1, <2>3, Taken, ScopeInForce, PayloadStep
  <2>4. CASE Executed(UNCHANGED conf) /\ Continue("limit")
    <3>1. current = ScopeOf(level) /\ UNCHANGED conf /\ tx' = "open" /\ Held'
      BY <2>1, <2>4, Taken, ScopeInForce
    <3>2. RequestOK' /\ level' = level /\ at' = "limit" /\ stage' = "sql"
      BY <2>1, <2>4, SameRequest DEF Continue, Go, request
    <3>3. InForce'
      BY <3>1, <3>2 DEF InForce, RetriesStayScoped, conf
    <3> QED BY <1>0, <1>a, <2>1, <3>1, <3>2, <3>3, PastEntry DEF Later
  <2> QED BY <1>4, <2>2, <2>3, <2>4 DEF AssertScopeActive
<1>5. CASE LimitStatement
  <2>1. at = "limit" /\ UNCHANGED mark /\ stage = "sql"
    BY <1>5 DEF LimitStatement, IInv, InForce
  <2>2. CASE Lost /\ Payload("error")
    BY <2>1, <2>2, NoEffect, PayloadStep
  <2>3. CASE Executed(UNCHANGED conf) /\ Continue("savepoint")
    <3>1. current = ScopeOf(level) /\ UNCHANGED conf /\ tx' = "open" /\ Held'
      BY <2>1, <2>3, Taken, ScopeInForce
    <3>2. RequestOK' /\ level' = level /\ at' = "savepoint" /\ stage' = "sql"
      BY <2>1, <2>3, SameRequest DEF Continue, Go, request
    <3>3. InForce'
      BY <3>1, <3>2 DEF InForce, RetriesStayScoped, conf
    <3> QED BY <1>0, <1>a, <2>1, <3>1, <3>2, <3>3, PastEntry DEF Later
  <2> QED BY <1>5, <2>2, <2>3 DEF LimitStatement
<1>6. CASE Savepoint
  <2>1. at = "savepoint" /\ stage = "sql"
    BY <1>6 DEF Savepoint, IInv, InForce
  <2>2. CASE Lost /\ Payload("error") /\ UNCHANGED mark
    BY <2>1, <2>2, NoEffect, PayloadStep
  <2>3. CASE Executed(UNCHANGED conf) /\ mark' = <<pending, current>> /\ Continue("execute")
    <3>1. current = ScopeOf(level) /\ level \in Levels /\ UNCHANGED conf /\ tx' = "open" /\ Held'
      BY <2>1, <2>3, Taken, ScopeInForce
    <3>2. RequestOK' /\ level' = level /\ at' = "execute" /\ stage' = "sql"
      BY <2>1, <2>3, SameRequest DEF Continue, Go, request
    <3>3. mark' = Marked(level) /\ mark' \in Settings \X Settings
      BY <2>3, <3>1, MarkIsScope DEF IInv, Clean
    <3>4. InForce'
      BY <3>1, <3>2, <3>3 DEF InForce, RetriesStayScoped, conf, Marked
    <3> QED BY <1>0, <2>1, <3>1, <3>2, <3>3, <3>4, PastEntry DEF Later
  <2> QED BY <1>6, <2>2, <2>3 DEF Savepoint
<1>7. CASE Execute
  <2>1. at = "execute" /\ UNCHANGED mark /\ stage = "sql" /\ mark = Marked(level)
    BY <1>7 DEF Execute, IInv, InForce
  <2>2. CASE Executed(UNCHANGED conf) /\ Continue("release")
    <3>1. current = ScopeOf(level) /\ UNCHANGED conf /\ tx' = "open" /\ Held'
      BY <2>1, <2>2, Taken DEF IInv, InForce, Usable
    <3>2. RequestOK' /\ level' = level /\ at' = "release" /\ stage' = "sql"
      BY <2>1, <2>2, SameRequest DEF Continue, Go, request
    <3>3. InForce'
      BY <2>1, <3>1, <3>2 DEF InForce, RetriesStayScoped, conf, Marked
    <3> QED BY <1>0, <1>a, <2>1, <3>1, <3>2, <3>3, PastEntry DEF Later
  <2>3. CASE /\ Refused \/ Lost
             /\ last' \in {"error", "timeout", "cut off"}
             /\ Go("unwind") /\ UNCHANGED <<level, stage, runs, outcome, audit>>
    <3>1. UNCHANGED conf /\ tx' \in {"aborted", "lost"} /\ Held'
      BY <2>3, NoEffect
    <3>2. RequestOK' /\ level' = level /\ at' = "unwind" /\ stage' = "sql"
      BY <2>1, <2>3, TypedRequest DEF RequestOK, Go
    <3>3. InForce'
      BY <2>1, <3>1, <3>2 DEF InForce, RetriesStayScoped, Marked
    <3> QED BY <1>0, <1>a, <2>1, <3>1, <3>2, <3>3, PastEntry DEF Later
  <2> QED BY <1>7, <2>2, <2>3 DEF Execute
<1>8. CASE Release
  <2>1. at = "release" /\ UNCHANGED mark /\ stage = "sql"
    BY <1>8 DEF Release, IInv, InForce
  <2>2. CASE Executed(UNCHANGED conf) /\ Payload("rows")
    <3>1. current = ScopeOf(level) /\ UNCHANGED conf /\ tx' = "open"
      BY <2>1, <2>2, Taken DEF IInv, InForce, Usable
    <3> QED BY <2>1, <2>2, <3>1, PayloadStep
  <2>3. CASE Lost /\ Payload("error")
    BY <2>1, <2>3, NoEffect, PayloadStep
  <2> QED BY <1>8, <2>2, <2>3 DEF Release
<1>9. CASE Unwind
  <2>1. at = "unwind" /\ stage = "sql" /\ mark = Marked(level) /\ level \in Levels /\ UNCHANGED mark
    BY <1>9 DEF Unwind, IInv, InForce, Entering
  <2>2. RequestOK' /\ level' = level /\ at' = "body" /\ stage' = "sql"
    BY <1>9, <2>1, SameRequest DEF Unwind, Continue, Go, request
  <2>3. CASE tx = "lost"
    <3>1. Held' /\ tx' = "lost"
      BY <1>9, <2>3, SameSettings DEF Unwind
    <3>2. InForce'
      BY <2>2, <3>1 DEF InForce, RetriesStayScoped
    <3> QED BY <1>0, <1>a, <2>1, <2>2, <3>1, <3>2, PastEntry DEF Later
  <2>4. CASE tx # "lost"
    <3>1. tx' = "open" /\ session' = session /\ pending' = Login /\ current' = ScopeOf(level)
      BY <1>9, <2>1, <2>4, MarkIsScope DEF Unwind
    <3>2. Held'
      BY <2>1, <3>1, ScopesAreSettings DEF Held, IInv, Clean
    <3>3. InForce'
      BY <2>2, <3>1 DEF InForce, RetriesStayScoped
    <3> QED BY <1>0, <1>a, <2>1, <2>2, <3>1, <3>2, <3>3, PastEntry DEF Later
  <2> QED BY <2>3, <2>4
<1> QED BY <1>1, <1>2, <1>3, <1>4, <1>5, <1>6, <1>7, <1>8, <1>9

(* The end of the scope, the audit row and the return to the pool. *)
LEMMA LeaveStep ==
  ASSUME IInv,
         \/ Answer \/ Interrupt \/ LeaveScope \/ HangUp
         \/ EnterSystemScope \/ Insert \/ Commit \/ InterruptAudit \/ LeaveSystemScope \/ Close
  PROVE  IInv'
<1> DEFINE Outside == Places \ (InScope \union {"reset", "role", "guc", "path"})
<1>0. /\ Outside = {"idle", "rollback", "release role", "audit", "loader", "insert", "commit",
                    "audit rollback", "audit reset", "close"}
      /\ States = {"none", "open", "aborted", "lost"}
  BY DEF Places, InScope, States
<1> HIDE DEF Outside
<1>b. ASSUME NEW o \in {"answered", "failed", "cancelled"}, End(o) PROVE RequestOK' /\ level' = level
  BY <1>b, TypedRequest DEF End, RequestOK
<1>d. ASSUME NEW next, NotWritten(next) PROVE RequestOK' /\ level' = level /\ at' = next
  BY <1>d, TypedRequest DEF NotWritten, RequestOK, Go
<1>c. ASSUME NEW next, Continue(next) PROVE RequestOK' /\ level' = level /\ at' = next
  BY <1>c, SameRequest DEF Continue, Go
(* A step outside the scope that its connection or its settings survive. *)
<1>o. ASSUME at # "idle", level' = level, RequestOK', UNCHANGED mark,
             at' \in Outside \ {"idle"}, Held', tx' \in States
      PROVE  IInv'
  BY <1>o, OutOfScope DEF Outside
<1>1. CASE Answer
  <2>1. at = "body" /\ at' = "rollback" /\ UNCHANGED mark
    BY <1>1 DEF Answer, Go
  <2>2. Held' /\ tx' \in States
    BY <1>1, SameSettings, TypedRequest DEF Answer
  <2>3. RequestOK' /\ level' = level
    BY <1>1, <1>b DEF Answer
  <2> QED BY <1>0, <1>o, <2>1, <2>2, <2>3
<1>2. CASE Interrupt
  <2>1. at # "idle" /\ at' = "rollback" /\ UNCHANGED mark
    BY <1>2 DEF Interrupt, InScope, Go
  <2>2. Held' /\ tx' \in States
    <3>1. CASE Lost
      BY <3>1, NoEffect, <1>0
    <3>2. CASE UNCHANGED <<tx, conf>>
      BY <3>2, SameSettings, TypedRequest
    <3> QED BY <1>2, <3>1, <3>2 DEF Interrupt
  <2>3. RequestOK' /\ level' = level
    <3>1. PICK o \in {"failed", "cancelled"} : End(o)
      BY <1>2 DEF Interrupt
    <3> QED BY <3>1, <1>b
  <2> QED BY <1>0, <1>o, <2>1, <2>2, <2>3
<1>3. ASSUME NEW from \in {"rollback", "audit rollback"}, NEW next \in {"release role", "audit reset"},
             SafeRollback(from, next)
      PROVE  IInv'
  <2>1. at = from /\ UNCHANGED mark /\ RequestOK' /\ level' = level /\ at' = next
    BY <1>3, <1>c DEF SafeRollback
  <2>2. Held' /\ tx' \in States
    BY <1>3, <1>0, EndedIsHeld, NoEffect DEF SafeRollback
  <2> QED BY <1>0, <1>o, <2>1, <2>2
<1>4. ASSUME NEW from \in {"release role", "audit reset"}, NEW next \in {"audit", "close"},
             SafeResetRole(from, next)
      PROVE  IInv'
  <2>1. at = from /\ UNCHANGED mark /\ RequestOK' /\ level' = level /\ at' = next
    BY <1>4, <1>c DEF SafeResetRole
  <2>2. Held' /\ tx' \in States
    BY <1>4, <1>0, RoleResetIsHeld, NoEffect DEF SafeResetRole
  <2> QED BY <1>0, <1>o, <2>1, <2>2
<1>5. CASE LeaveScope
  BY <1>3, <1>4, <1>5 DEF LeaveScope
<1>6. CASE HangUp
  <2>1. at # "idle" /\ at' = "close" /\ UNCHANGED mark /\ RequestOK' /\ level' = level
    BY <1>6, <1>b DEF HangUp, Go
  <2>2. Held' /\ tx' \in States
    BY <1>6, <1>0, NoEffect DEF HangUp
  <2> QED BY <1>0, <1>o, <2>1, <2>2
<1>7. CASE EnterSystemScope
  <2>1. at \in {"audit", "loader"} /\ UNCHANGED mark
    BY <1>7 DEF EnterSystemScope
  <2>2. CASE Executed(ResetRole) /\ Continue("loader")
    <3>1. Held' /\ tx' \in States
      BY <2>2, RoleResetIsHeld, <1>0
    <3>2. RequestOK' /\ level' = level /\ at' = "loader"
      BY <2>2, <1>c
    <3> QED BY <1>0, <1>o, <2>1, <3>1, <3>2
  <2>3. CASE Executed(SetLocal("role", "ci_loader")) /\ Continue("insert")
    <3>1. SetLocal("role", "ci_loader") /\ tx' = "open"
      BY <2>3 DEF Executed
    <3>2. session' = Login /\ pending' = Login /\ current' = [current EXCEPT !["role"] = "ci_loader"]
      BY <3>1 DEF SetLocal, IInv, Clean
    <3>3. current \in Settings /\ "ci_loader" \in Roles
      BY DEF IInv, TypeOK, Roles
    <3>4. current' \in Settings
      BY <3>2, <3>3, SettingChanged
    <3>5. Held' /\ tx' \in States
      BY <3>1, <3>2, <3>4, <1>0 DEF Held
    <3>6. RequestOK' /\ level' = level /\ at' = "insert"
      BY <2>3, <1>c
    <3> QED BY <1>0, <1>o, <2>1, <3>5, <3>6
  <2>4. CASE (Refused \/ Lost) /\ NotWritten("close")
    <3>1. Held' /\ tx' \in States
      BY <2>4, NoEffect, <1>0
    <3>2. RequestOK' /\ level' = level /\ at' = "close"
      BY <2>4, <1>d
    <3> QED BY <1>0, <1>o, <2>1, <3>1, <3>2
  <2> QED BY <1>7, <2>2, <2>3, <2>4 DEF EnterSystemScope
<1>8. CASE Insert
  <2>1. at = "insert" /\ UNCHANGED mark
    BY <1>8 DEF Insert
  <2>2. CASE Executed(UNCHANGED conf) /\ Continue("commit")
    <3>1. Held' /\ tx' \in States
      BY <2>2, Taken, <1>0
    <3>2. RequestOK' /\ level' = level /\ at' = "commit"
      BY <2>2, <1>c
    <3> QED BY <1>0, <1>o, <2>1, <3>1, <3>2
  <2>3. CASE (Refused \/ Lost) /\ NotWritten("audit rollback")
    <3>1. Held' /\ tx' \in States
      BY <2>3, NoEffect, <1>0
    <3>2. RequestOK' /\ level' = level /\ at' = "audit rollback"
      BY <2>3, <1>d
    <3> QED BY <1>0, <1>o, <2>1, <3>1, <3>2
  <2> QED BY <1>8, <2>2, <2>3 DEF Insert
<1>9. CASE Commit
  <2>1. at = "commit" /\ UNCHANGED mark
    BY <1>9 DEF Commit
  <2>2. CASE /\ tx' = "none" /\ Committed
             /\ Go("audit rollback") /\ audit' = "written"
             /\ UNCHANGED <<level, stage, runs, last, outcome>>
    <3>1. session' = Login /\ pending' = Login /\ current' = Login
      BY <2>2 DEF Committed, IInv, Clean
    <3>2. Held' /\ tx' \in States
      BY <2>2, <3>1, <1>0, ScopesAreSettings DEF Held
    <3>3. RequestOK' /\ level' = level /\ at' = "audit rollback"
      BY <2>2, TypedRequest DEF RequestOK, Go
    <3> QED BY <1>0, <1>o, <2>1, <3>2, <3>3
  <2>3. CASE Lost /\ NotWritten("audit rollback")
    <3>1. Held' /\ tx' \in States
      BY <2>3, NoEffect, <1>0
    <3>2. RequestOK' /\ level' = level /\ at' = "audit rollback"
      BY <2>3, <1>d
    <3> QED BY <1>0, <1>o, <2>1, <3>1, <3>2
  <2> QED BY <1>9, <2>2, <2>3 DEF Commit
<1>10. CASE InterruptAudit
  <2>1. at # "idle" /\ at' = "audit rollback" /\ UNCHANGED mark /\ RequestOK' /\ level' = level
    BY <1>10, <1>b DEF InterruptAudit, Go
  <2>2. Held' /\ tx' \in States
    BY <1>10, <1>0, NoEffect DEF InterruptAudit
  <2> QED BY <1>0, <1>o, <2>1, <2>2
<1>11. CASE LeaveSystemScope
  BY <1>3, <1>4, <1>11 DEF LeaveSystemScope
<1>12. CASE Close
  <2>1. at = "close" /\ UNCHANGED mark /\ RequestOK' /\ level' = level /\ at' = "idle"
    BY <1>12, <1>c DEF Close
  <2>2. Held' /\ tx' = "none"
    BY <1>12, EndedIsHeld DEF Close
  <2> QED BY <1>0, <2>1, <2>2, OutOfScope DEF Outside
<1> QED BY <1>1, <1>2, <1>5, <1>6, <1>7, <1>8, <1>9, <1>10, <1>11, <1>12

LEMMA StepInductive == IInv /\ [Next]_vars => IInv'
<1> SUFFICES ASSUME IInv, [Next]_vars PROVE IInv'
  OBVIOUS
<1>1. CASE UNCHANGED vars
  <2>1. TypeOK'
    <3>1. mark' = mark
      BY <1>1 DEF vars, conf, request
    <3>2. mark' \in Settings \X Settings
      BY <3>1 DEF TypeOK, IInv
    <3>3. runs' \in 0..MaxRuns
      BY <1>1, ScopeAssumption DEF vars, conf, request, TypeOK, IInv
    <3>4. /\ UNCHANGED <<at, level, session, pending, current, tx>>
          /\ UNCHANGED <<stage, last, outcome, audit>>
      BY <1>1 DEF vars, conf, request
    <3> QED BY <3>2, <3>3, <3>4 DEF TypeOK, IInv
  <2>2. Clean'
    BY <1>1 DEF vars, conf, request, IInv, TypeOK, Clean, Entering, InForce
  <2>3. Entering'
    BY <1>1 DEF vars, conf, request, IInv, TypeOK, Clean, Entering, InForce
  <2>4. InForce'
    BY <1>1 DEF vars, conf, request, IInv, TypeOK, Clean, Entering, InForce, RetriesStayScoped
  <2> QED BY <2>1, <2>2, <2>3, <2>4 DEF IInv
<1> QED BY <1>1, EnterStep, RunStep, LeaveStep DEF Next

(* Every reachable state satisfies the strengthened invariant. *)
THEOREM ScopeInductive == Spec => []IInv
  BY InitInductive, StepInductive, PTL DEF Spec

(* run_sql: a generated statement runs as the caller's persona.            *)
THEOREM SqlAsCaller == Spec => []SqlRunsAsCaller
<1>1. IInv => SqlRunsAsCaller
  BY DEF IInv, InForce, SqlRunsAsCaller, Usable
<1> QED BY <1>1, ScopeInductive, PTL

(* run_sql's savepoint: a failed statement leaves the retry its scope.     *)
THEOREM RetriesScoped == Spec => []RetriesStayScoped
<1>1. IInv => RetriesStayScoped
  BY DEF IInv, InForce
<1> QED BY <1>1, ScopeInductive, PTL

(* run_sql, resolve_lookup_entities: the graph never goes on with an       *)
(* aborted transaction.                                                    *)
THEOREM NotAborted == Spec => []NeverAbortedBetweenStatements
<1>1. IInv => NeverAbortedBetweenStatements
  BY DEF IInv, InForce, NeverAbortedBetweenStatements
<1> QED BY <1>1, ScopeInductive, PTL

(* session_scope.py: nothing leaks into the connection's next checkout.    *)
THEOREM ConnectionsReturnClean == Spec => []PoolClean
<1>1. IInv => PoolClean
  BY DEF IInv, Clean, Entering, PoolClean, Fresh
<1> QED BY <1>1, ScopeInductive, PTL
=============================================================================
