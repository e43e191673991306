------------------------------ MODULE SqlChecks ------------------------------
(***************************************************************************)
(* What a generated statement goes through before it runs: the period      *)
(* guard of make_plan (graph/helpers/sql_guards.py), the rules of          *)
(* agents/sql_validator_agent.py in the order validate_sql applies them,   *)
(* and the shape guard (service/query_shape_guard.py).                     *)
(*                                                                         *)
(* A statement is a tree of two levels: a union of selects over tables, or *)
(* one select over tables and at most one CTE, a select over tables.       *)
(* "flag" stands for an expression that tests its column and returns       *)
(* something else: CASE WHEN c IS NULL THEN 'no' ELSE 'yes' END.           *)
(***************************************************************************)
EXTENDS Integers, FiniteSets, Sequences, SequencesExt

CONSTANTS
  Submitted,          \* the statements the planner comes up with
  ColumnsOf(_),       \* the columns the glossary lists for a table
  Rows(_)             \* a content of the tables, for what a statement answers

VARIABLES
  statement,
  rule,       \* the rule it has come to
  verdict     \* "checking", "asked", "refused" or "runs"

checkVars == <<statement, rule, verdict>>
-----------------------------------------------------------------------------
(* table_registry.py *)

DailyViews == {"v_sales_summary_daily", "v_sales_daily"}
SalesViews == DailyViews \union {"v_sales_store_monthly", "v_sales_sku_monthly"}
Traits == "v_customer_traits_monthly"
CustomerViews == {"v_customer_opco_monthly", Traits, "v_customer_category_monthly"}
AllowedViews == SalesViews \union CustomerViews
JoinableDimensions == {"dim_opco", "dim_store", "dim_product_category", "dim_product"}
PeriodColumn == [v \in AllowedViews |-> IF v \in DailyViews THEN "calendar_date" ELSE "month_start_date"]
PeriodColumns == {PeriodColumn[v] : v \in AllowedViews}
CustomerGrainViews == {"v_customer_opco_monthly", "v_customer_category_monthly"}
Identity == {"customer_key"}
NeverAggregate == {"customer_count", "category_sales_rank"}
-----------------------------------------------------------------------------
(* The tree *)

Functions == {"column", "sum", "max", "count", "count_distinct", "flag"}
Columns == [of : STRING, name : STRING]   \* of: its qualifier, "" without one
Expressions ==
  {e \in [fn : Functions, of : STRING, name : STRING, as : STRING] : e.name = "*" => e.fn = "count"}
Predicates == [of : STRING, name : STRING, op : {"eq", "between", "range"}]   \* range: >= and <
SelectsOver(sources) ==
  [from : Seq(sources), on : SUBSET (Columns \X Columns), where : SUBSET Predicates,
   items : Seq(Expressions), group : SUBSET Expressions, distinct : BOOLEAN]
Aliases == STRING \ {""}
Tables == [table : STRING \ {""}, cte : {<<>>}, alias : Aliases]
CteSources == [table : {""}, cte : [{1} -> SelectsOver(Tables)], alias : Aliases]
(* A select, or a union of two: of a longer one, which nests to the left,  *)
(* _outermost_selects sees the last branch alone.                          *)
Statements ==
  {s \in [text : STRING, branches : Seq(SelectsOver(Tables \union CteSources)), order : SUBSET Columns] :
     Len(s.branches) \in {1, 2}}

ASSUME StatementsAssumption == Submitted \subseteq Statements

(* The glossary has the columns of tables only, of the period columns of a *)
(* view the one it is filtered by, and customers in the customer views.    *)
ASSUME ColumnsAssumption ==
  /\ ColumnsOf("") = {}
  /\ \A t \in AllowedViews \union JoinableDimensions :
       /\ \A c \in PeriodColumns \intersect ColumnsOf(t) : t \in AllowedViews /\ c = PeriodColumn[t]
       /\ Identity \intersect ColumnsOf(t) # {} => t \in CustomerViews

(* Traits have a row for a customer in a month. *)
ASSUME RowsAssumption ==
  \A r, q \in Rows(Traits) :
    r["customer_key"] = q["customer_key"] /\ r["month_start_date"] = q["month_start_date"] => r = q

Ctes(s) == {s.from[i].cte[1] : i \in {j \in DOMAIN s.from : s.from[j].table = ""}}
Outermost == ToSet(statement.branches)
Selects == Outermost \union UNION {Ctes(s) : s \in Outermost}

TablesIn(s) == {s.from[i].table : i \in DOMAIN s.from} \ {""}
Referenced == UNION {TablesIn(s) : s \in Selects}

(* _alias_bindings: one map for the whole statement, filled breadth first, *)
(* the CTE after the selects of the union.  The last table of an alias     *)
(* wins; a CTE binds nothing.                                              *)
Binding(s, alias) == {i \in DOMAIN s.from : s.from[i].table # "" /\ s.from[i].alias = alias}
Binder(alias) ==
  LET binds(s) == Binding(s, alias) # {}
  IN  IF \E s \in Outermost : \E c \in Ctes(s) : binds(c)
      THEN CHOOSE c \in UNION {Ctes(s) : s \in Outermost} : binds(c)
      ELSE statement.branches[Max({b \in DOMAIN statement.branches : binds(statement.branches[b])})]
BoundTable(alias) ==
  IF \A s \in Selects : Binding(s, alias) = {} THEN ""
  ELSE LET s == Binder(alias) IN s.from[Max(Binding(s, alias))].table

Column(e) == [of |-> e.of, name |-> e.name]
ItemColumns(s) == {Column(e) : e \in {x \in ToSet(s.items) : x.name # "*"}}
GroupColumns(s) == {Column(e) : e \in s.group}
OnColumns(s) == UNION {{pair[1], pair[2]} : pair \in s.on}
WhereColumns(s) == {Column(p) : p \in s.where}
ColumnsIn(s) == ItemColumns(s) \union GroupColumns(s) \union OnColumns(s) \union WhereColumns(s)
-----------------------------------------------------------------------------
(* The period guard of make_plan *)

(* The text from a WHERE to the next GROUP BY, ORDER BY, LIMIT or UNION:   *)
(* of a CTE without a GROUP BY it runs on into the select that follows.    *)
GuardedText(s) ==
  WhereColumns(s) \union UNION {WhereColumns(c) : c \in Ctes(s)} \union
  (IF \E c \in Ctes(s) : c.where # {} /\ c.group = {}
   THEN ItemColumns(s) \union OnColumns(s) ELSE {})

(* A bug: the validator's own period rule is taken to be enough. *)
LeftToTheValidator == TRUE

HasPeriodInWhere ==
  \E s \in Outermost : \E c \in GuardedText(s) : c.name \in PeriodColumns
PeriodGuard == Referenced \intersect AllowedViews # {} => HasPeriodInWhere
-----------------------------------------------------------------------------
(* The rules of the validator *)

(* What is refused for its text, before the tree below is looked at: "star" *)
(* is a bare one, "session" touches the settings the roles depend on.       *)
RefusedTexts ==
  {"empty", "several", "not a select", "mutating", "session", "not parsed", "star"}
TextOK == statement.text \notin RefusedTexts

UnionOrderOK ==
  Len(statement.branches) > 1 => \A c \in statement.order : c.of = ""

(* _returns_identity: a test or a count of it is not the identity. *)
Returns(e, names) == e.name \in names /\ e.fn \in {"column", "sum", "max"}

(* The names an identity goes by. *)
Derived ==
  UNION {{e.as : e \in {x \in ToSet(s.items) : Returns(x, Identity)}} : s \in Selects}

(* A bug: the identity may not be projected at any level. *)
IdentityNowhere ==
  \A s \in Selects : \A e \in ToSet(s.items) \union s.group : ~Returns(e, Identity \union Derived)

InsideDisallowedAggregate(e) == e.fn \notin {"column", "count_distinct", "flag"}

(* No aggregate but COUNT(DISTINCT) touches the identity, and no outermost *)
(* projection or grouping returns it.                                      *)
IdentityOK ==
  /\ \A s \in Selects : \A e \in ToSet(s.items) :
       e.name \in Identity => ~InsideDisallowedAggregate(e)
  /\ \A s \in Outermost : \A e \in ToSet(s.items) \union s.group :
       ~Returns(e, Identity \union Derived)

AggregationOK ==
  \A s \in Selects : \A e \in ToSet(s.items) : e.fn = "sum" => e.name \notin NeverAggregate

StoreNameOK == \A s \in Selects : \A p \in s.where : p.name # "store_name"
CategoryNameOK == \A s \in Selects : \A p \in s.where : p.name # "category_name"

TablesOK == Referenced # {} /\ Referenced \subseteq AllowedViews \union JoinableDimensions

ReservedAliases == {"do"}   \* one of the words PostgreSQL does not take as an alias
AliasesOK == \A s \in Selects : \A i \in DOMAIN s.from : s.from[i].alias \notin ReservedAliases

(* A predicate, a join equality or a function of the column, selected or   *)
(* grouped by.                                                             *)
Bounding ==
  UNION {{c.name : c \in WhereColumns(s) \union OnColumns(s)}
         \union {e.name : e \in {x \in ToSet(s.items) \union s.group : x.fn # "column"}} : s \in Selects}
PeriodOK ==
  LET expected == {PeriodColumn[v] : v \in Referenced \intersect AllowedViews}
  IN  expected = {} \/ expected \intersect Bounding # {}

Known == UNION {ColumnsOf(t) : t \in Referenced}

(* A bug: a column of any table of the statement will do. *)
ColumnsExistSomewhere ==
  \A s \in Selects : \A c \in ColumnsIn(s) : BoundTable(c.of) # "" => c.name \in Known

(* Each qualified column is looked up in the table its alias is bound to. *)
ColumnsExist ==
  Known = {} \/
  \A c \in (UNION {ColumnsIn(s) : s \in Selects}) \union statement.order :
    \/ ColumnsOf(BoundTable(c.of)) = {}
    \/ c.name \in ColumnsOf(BoundTable(c.of))

(* A bug: only the first table of a join is looked at. *)
GrainOfTheFirstTable ==
  \A s \in Selects :
    s.from[1].table \in CustomerGrainViews => \A e \in ToSet(s.items) : e.fn # "count"

(* No count without DISTINCT in a select over a view that repeats a customer. *)
CustomerGrainOK ==
  \A s \in Selects :
    TablesIn(s) \intersect CustomerGrainViews # {} =>
      \A e \in ToSet(s.items) : e.fn # "count"

(* validate_query_shape: a count of customers needs whole months if the    *)
(* statement filters days.                                                 *)
ShapeOK ==
  LET counted == \E s \in Selects : \E e \in ToSet(s.items) :
                   e.fn = "count_distinct" /\ e.name = "customer_key"
      compared(name, ops) == \E s \in Selects :
        \/ \E p \in s.where : p.name = name /\ p.op \in ops
        \/ \E pair \in s.on : pair[1].name = name
  IN  counted /\ compared("calendar_date", {"eq", "between", "range"})
        => compared("month_start_date", {"eq", "between"})
-----------------------------------------------------------------------------
Rules == <<"period_guard", "text", "union_order", "identity", "aggregation", "store_name",
           "category_name", "tables", "aliases", "period", "columns", "grain", "shape">>

Obeys(r) ==
  CASE r = "period_guard" -> PeriodGuard
    [] r = "text" -> TextOK
    [] r = "union_order" -> UnionOrderOK
    [] r = "identity" -> IdentityOK
    [] r = "aggregation" -> AggregationOK
    [] r = "store_name" -> StoreNameOK
    [] r = "category_name" -> CategoryNameOK
    [] r = "tables" -> TablesOK
    [] r = "aliases" -> AliasesOK
    [] r = "period" -> PeriodOK
    [] r = "columns" -> ColumnsExist
    [] r = "grain" -> CustomerGrainOK
    [] r = "shape" -> ShapeOK

After(r) == IF r = Len(Rules) THEN r ELSE r + 1

CheckInit == statement \in Submitted /\ rule = 1 /\ verdict = "checking"

(* make_plan asks for a period instead of planning the statement. *)
AskForPeriod ==
  /\ verdict = "checking" /\ Rules[rule] = "period_guard" /\ ~Obeys(Rules[rule])
  /\ verdict' = "asked"
  /\ UNCHANGED <<statement, rule>>

(* The first rule that fails sends the statement back to the planner. *)
Refuse ==
  /\ verdict = "checking" /\ Rules[rule] # "period_guard" /\ ~Obeys(Rules[rule])
  /\ verdict' = "refused"
  /\ UNCHANGED <<statement, rule>>

Pass ==
  /\ verdict = "checking" /\ Obeys(Rules[rule])
  /\ rule' = After(rule)
  /\ verdict' = IF rule = Len(Rules) THEN "runs" ELSE "checking"
  /\ UNCHANGED statement

CheckNext == AskForPeriod \/ Refuse \/ Pass

CheckSpec == CheckInit /\ [][CheckNext]_checkVars
-----------------------------------------------------------------------------
(* What a statement means: names are resolved where they stand, and a      *)
(* select answers with the rows its sources combine to.                    *)

SourceColumns(source) ==
  IF source.table # "" THEN ColumnsOf(source.table)
  ELSE {source.cte[1].items[i].as : i \in DOMAIN source.cte[1].items}
Resolves(s, c) ==
  \E i \in DOMAIN s.from : s.from[i].alias = c.of /\ c.name \in SourceColumns(s.from[i])

(* Identity by where a column comes from, not by what it is called.        *)
IdentityOf(source) ==
  {name \in SourceColumns(source) :
     IF source.table # "" THEN name \in Identity
     ELSE \E e \in ToSet(source.cte[1].items) : e.as = name /\ Returns(e, Identity)}
IsIdentity(s, c) ==
  \E i \in DOMAIN s.from : s.from[i].alias = c.of /\ c.name \in IdentityOf(s.from[i])

(* The value of a qualified column in a combination f of source rows. *)
Val(s, f, c) == f[CHOOSE i \in DOMAIN s.from : s.from[i].alias = c.of].value[c.name]

Keeps(s, f) ==
  /\ \A pair \in s.on : Val(s, f, pair[1]) = Val(s, f, pair[2])
  /\ \A p \in s.where : p.op = "eq" => Val(s, f, p) = 1

Combinations(s, rows) ==
  {f \in [DOMAIN s.from -> UNION {rows[i] : i \in DOMAIN s.from}] :
     (\A i \in DOMAIN s.from : f[i] \in rows[i]) /\ Keeps(s, f)}

TableRows(table) == {[id |-> r, value |-> r] : r \in Rows(table)}

(* A CTE has a row for each group, or for each combination; aggregates are *)
(* not looked into.                                                        *)
Plain(s) == {i \in DOMAIN s.items : s.items[i].fn = "column"}
CteValue(s, f) ==
  [name \in {s.items[i].as : i \in DOMAIN s.items} |->
     IF \E i \in Plain(s) : s.items[i].as = name
     THEN Val(s, f, Column(s.items[CHOOSE i \in Plain(s) : s.items[i].as = name])) ELSE 0]
CteKey(s, f) ==
  CASE s.distinct -> CteValue(s, f)
    [] ~s.distinct /\ s.group # {} -> {<<c, Val(s, f, c)>> : c \in GroupColumns(s)}
    [] ~s.distinct /\ s.group = {} -> f
CteRows(s) ==
  {[id |-> CteKey(s, f), value |-> CteValue(s, f)] :
     f \in Combinations(s, [i \in DOMAIN s.from |-> TableRows(s.from[i].table)])}

RowsOf(s) ==
  [i \in DOMAIN s.from |->
     IF s.from[i].table # "" THEN TableRows(s.from[i].table) ELSE CteRows(s.from[i].cte[1])]

(* The customers of a combination: one, if all sources are joined on them. *)
Customers(s, f) == UNION {{f[i].value[name] : name \in IdentityOf(s.from[i])} : i \in DOMAIN s.from}

JoinedOnCustomers(s) ==
  /\ \A i \in DOMAIN s.from : IdentityOf(s.from[i]) # {}
  /\ \A i, j \in DOMAIN s.from : i # j => \E pair \in s.on :
       {pair[1].of, pair[2].of} = {s.from[i].alias, s.from[j].alias}
       /\ IsIdentity(s, pair[1]) /\ IsIdentity(s, pair[2])

OnlyKey(set) == \E e \in set : set = {e} /\ e.name = "customer_key"

(* The collapse-then-count pattern: a CTE with one row for a customer. *)
Collapsed(source) ==
  \/ source.table # ""
  \/ OnlyKey(source.cte[1].group)
  \/ source.cte[1].distinct /\ OnlyKey(ToSet(source.cte[1].items))

OneMonth(s, alias) == \E p \in s.where : p.of = alias /\ p.name = "month_start_date" /\ p.op = "eq"

(* An alias stands for one table wherever it is used. *)
AliasesApart ==
  \A s, t \in Selects : \A i \in DOMAIN s.from : \A j \in DOMAIN t.from :
    <<s, i>> # <<t, j>> /\ s.from[i].alias = t.from[j].alias =>
      s.from[i].table = t.from[j].table /\ s.from[i].table # ""

BoundedIn(s, source) ==
  source.table \in AllowedViews =>
    \E p \in s.where : p.of = source.alias /\ p.name = PeriodColumn[source.table]

(* What the database itself sees to: names mean something where they       *)
(* stand, and one thing, and what is grouped is selected by its group.     *)
Executable ==
  \A s \in Selects :
    /\ \A c \in ColumnsIn(s) : Resolves(s, c)
    /\ \A i, j \in DOMAIN s.from : s.from[i].alias = s.from[j].alias => i = j
    /\ \A c \in Ctes(s) : \A i, j \in DOMAIN c.items : c.items[i].as = c.items[j].as => i = j
    /\ s.group # {} => \A i \in Plain(s) : Column(s.items[i]) \in GroupColumns(s)

(* The names identities go by are the names of nothing else. *)
IdentityByName ==
  \A s \in Selects : \A c \in ColumnsIn(s) : c.name \in Identity \union Derived => IsIdentity(s, c)

(* The glossary has the columns of the statement's tables. *)
Listed == \A t \in Referenced : ColumnsOf(t) # {}

(* A statement that is right: it is over tables there are, its names mean  *)
(* something where they stand, every view it reads is held to a period     *)
(* there, it returns no identity, and it adds up and counts only what can  *)
(* be added up and counted.                                                *)
Right ==
  /\ statement.text = "select"
  /\ Referenced # {} /\ Referenced \subseteq AllowedViews \union JoinableDimensions
  /\ statement.order = {} \/ \A c \in statement.order : c.of = ""
  /\ \A s \in Selects :
       /\ \A c \in ColumnsIn(s) : Resolves(s, c)
       /\ \A i \in DOMAIN s.from : BoundedIn(s, s.from[i]) /\ s.from[i].alias \notin ReservedAliases
       /\ \A p \in s.where : p.name \notin {"store_name", "category_name"}
       /\ \A i \in DOMAIN s.items :
            LET e == s.items[i]
            IN  /\ e.fn = "sum" => e.name \notin NeverAggregate
                /\ e.fn \in {"sum", "max", "count"} => e.name = "*" \/ ~IsIdentity(s, Column(e))
                /\ e.fn = "count" => \A j \in DOMAIN s.from :
                     s.from[j].table \notin CustomerGrainViews /\ Collapsed(s.from[j])
  /\ \A s \in Outermost : \A e \in ToSet(s.items) \union s.group :
       e.fn \in {"column", "max", "sum"} => ~IsIdentity(s, Column(e))

(* Days and months of one statement, the months by >= and < alone. *)
MonthsByRange ==
  /\ \E s \in Selects :
       \/ \E p \in s.where : p.name = "calendar_date"
       \/ \E pair \in s.on : pair[1].name = "calendar_date"
  /\ \E s \in Selects : \E p \in s.where : p.name = "month_start_date"
  /\ \A s \in Selects : \A p \in s.where : p.name = "month_start_date" => p.op = "range"

CheckTypeOK ==
  /\ statement \in Submitted
  /\ rule \in DOMAIN Rules
  /\ verdict \in {"checking", "asked", "refused", "runs"}

(* No statement that is right is sent back: not for a set of customers     *)
(* joined and counted away, not for a column a CTE computes, not for an    *)
(* alias, so the retries are spent on statements that are wrong            *)
(* (validate_sql, fact_time_period_guard_question, validate_query_shape).  *)
(* Excepted are an alias that stands for two things, see                   *)
(* ComputedColumnsAreSkipped, a name that an identity has in one place and *)
(* something else in another, since the rule goes by names, and months     *)
(* bounded by >= and < next to days, which the shape guard's pattern does  *)
(* not see.                                                                *)
RightStatementsPass ==
  Right /\ AliasesApart /\ IdentityByName /\ ~MonthsByRange => verdict \notin {"asked", "refused"}

(* A statement that runs names no column its table does not have, as long  *)
(* as an alias stands for one table whose columns the glossary has: the    *)
(* database has nothing left to say of the columns of tables               *)
(* (_alias_bindings, _validate_columns_exist).                             *)
ColumnsAreOfTheirTable ==
  verdict = "runs" /\ AliasesApart =>
    \A s \in Selects : \A c \in ColumnsIn(s) : \A i \in DOMAIN s.from :
      s.from[i].alias = c.of /\ s.from[i].table # "" /\ ColumnsOf(s.from[i].table) # {} => Resolves(s, c)

(* What a statement that runs counts without DISTINCT, it counts each      *)
(* customer once, if its sources are joined on the customer, the CTEs were *)
(* collapsed to customers and traits are read at one month                 *)
(* (_validate_customer_grain, CUSTOMER_GRAIN_VIEWS).                       *)
CustomersAreCountedOnce ==
  verdict = "runs" /\ Executable => \A s \in Selects :
    /\ \E e \in ToSet(s.items) : e.fn = "count"
    /\ JoinedOnCustomers(s)
    /\ \A i \in DOMAIN s.from :
         Collapsed(s.from[i]) /\ (s.from[i].table = Traits => OneMonth(s, s.from[i].alias))
    => \A f, g \in Combinations(s, RowsOf(s)) : f # g => Customers(s, f) # Customers(s, g)

(* A statement without a CTE that runs over views holds one of them to a   *)
(* period in a WHERE: no rule sees to this alone, since the validator is   *)
(* content with a join on the month or with MAX of it, the guard of        *)
(* make_plan with any period column in a WHERE, and that it is one of a    *)
(* view is left to the columns.  Excepted are an alias that stands for two *)
(* tables and a qualifier that stands for none                             *)
(* (sql_has_period_filter, _validate_period_filter).                       *)
AScanIsBounded ==
  /\ verdict = "runs" /\ AliasesApart /\ Listed
  /\ Referenced \intersect AllowedViews # {}
  /\ \A s \in Outermost :
       Ctes(s) = {} /\ \A c \in WhereColumns(s) : \E i \in DOMAIN s.from : s.from[i].alias = c.of
  => \E s \in Selects : \E i \in DOMAIN s.from :
       s.from[i].table \in AllowedViews /\ BoundedIn(s, s.from[i])

(* "Columns qualified by a CTE alias are skipped -- they are computed by   *)
(* the query, so no table in the glossary has them": the docstring of      *)
(* _validate_columns_exist.  What it refuses has a column that means       *)
(* nothing where it stands.                                                *)
ComputedColumnsAreSkipped ==
  verdict = "refused" /\ Rules[rule] = "columns" =>
    \E s \in Selects : \E c \in ColumnsIn(s) : ~Resolves(s, c)
=============================================================================
