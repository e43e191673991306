------------------------------- MODULE Glossary -------------------------------
(***************************************************************************)
(* What app/service/glossary_service.py makes of the governed glossary,    *)
(* and the persona views of app/db/v3_ddl.py that it must agree with.  The *)
(* glossary documents the columns of base tables; the planner and the      *)
(* validator know views.  A base table feeds several views, one of them    *)
(* aggregates it, and views have columns of their own.                     *)
(***************************************************************************)
EXTENDS Integers, FiniteSets, Sequences

CONSTANTS
  BaseColumns,    \* information_schema: the columns of each base table
  Dimensions      \* JOINABLE_DIMENSIONS: tables the planner may join as they are

Roles == {"EXEC", "HOD"}

PersonaViews ==
  [v_sales_daily |-> "fact_sales_daily",
   v_sales_summary_daily |-> "agg_sales_daily",
   v_sales_store_monthly |-> "fact_sales_daily",
   v_sales_sku_monthly |-> "agg_sales_sku_monthly",
   v_customer_opco_monthly |-> "fact_customer_opco_monthly",
   v_customer_traits_monthly |-> "fact_customer_traits_monthly",
   v_customer_category_monthly |-> "bridge_customer_category_monthly"]
Views == DOMAIN PersonaViews
Bases == {PersonaViews[v] : v \in Views}

ASSUME ColumnsAssumption == BaseColumns \in [Bases \union Dimensions -> SUBSET STRING]

(* What an executive does not get, by base table or by aggregating view. *)
MoneyColumns(name) ==
  CASE name = "fact_sales_daily" ->
         {"gross_sales_amount", "net_sales_amount", "discount_amount", "gmv_amount", "member_sales_amount"}
    [] name = "agg_sales_daily" ->
         {"gross_sales_amount", "net_sales_amount", "gmv_amount", "member_sales_amount"}
    [] name = "v_sales_store_monthly" ->
         {"gross_sales_amount", "gmv_amount", "member_sales_amount", "category_sales_rank", "is_top_100"}
    [] name = "agg_sales_sku_monthly" -> {"gross_sales_amount", "member_sales_amount"}
    [] name = "fact_customer_opco_monthly" -> {"total_revenue", "total_gmv"}
    [] name = "bridge_customer_category_monthly" -> {"gross_sales_amount"}
    [] OTHER -> {}

(* The view that aggregates its base table, by the aliases it emits. *)
AggregateViews ==
  [v_sales_store_monthly |->
     [grain |-> {"month_start_date", "opco_code", "store_id", "category_key", "category_l1_key",
                 "category_l2_key", "category_l3_key", "category_l4_key", "customer_type"},
      measures |-> {"transaction_count", "quantity", "member_transaction_count"},
      money |-> {"gross_sales_amount", "gmv_amount", "member_sales_amount"},
      windows |-> {"category_sales_rank", "is_top_100"}]]
Aggregated == DOMAIN AggregateViews

(* Columns a projection view generates, with the one each is computed from. *)
MemberSplits(base) ==
  LET Split(of, as, money) == [source |-> of, alias |-> as, money |-> money]
      transactions == Split("transaction_count", "member_transaction_count", FALSE)
      quantity == Split("quantity", "member_quantity", FALSE)
      sales == Split("gross_sales_amount", "member_sales_amount", TRUE)
  IN CASE base \in {"fact_sales_daily", "agg_sales_daily"} -> {transactions, quantity, sales}
       [] base = "agg_sales_sku_monthly" -> {transactions, sales}
       [] OTHER -> {}

(* What a view is computed from is in its base table, as the schema of     *)
(* models/schemas/v3_core.py has it; ranks exist only in the view.         *)
Computed == {"month_start_date", "member_transaction_count", "member_sales_amount"}
ASSUME SourcesAssumption ==
  /\ \A base \in Bases : \A s \in MemberSplits(base) : s.source \in BaseColumns[base]
  /\ \A v \in Aggregated :
       LET spec == AggregateViews[v]
           columns == BaseColumns[PersonaViews[v]]
       IN /\ (spec.grain \union spec.measures \union spec.money) \ Computed \subseteq columns
          /\ spec.windows \intersect columns = {}
-----------------------------------------------------------------------------
(* The views a migration builds for a role *)

ProjectionBody(base, role) ==
  LET kept == {c \in BaseColumns[base] : role = "HOD" \/ c \notin MoneyColumns(base)}
      splits == {s \in MemberSplits(base) : s.source \in BaseColumns[base] /\ (role = "HOD" \/ ~s.money)}
  IN kept \union {s.alias : s \in splits}

AggregateBody(view, role) ==
  LET spec == AggregateViews[view]
  IN spec.grain \union spec.measures
       \union (IF role = "HOD" THEN spec.money \union spec.windows ELSE {})

ViewColumns(view, role) ==
  IF view \in Aggregated THEN AggregateBody(view, role) ELSE ProjectionBody(PersonaViews[view], role)
-----------------------------------------------------------------------------
(* What the service files under each view *)

(* A row documents a column of a table: the role that may see it, whether  *)
(* it is money (metric_class) and the values it may hold.                  *)
Documented(rows, table, column) == {r \in rows : r.table = table /\ r.column = column}

(* A bug: the inverse of PersonaViews as a function, one view per table.   *)
OneViewOf(table) ==
  IF table \in Bases THEN {CHOOSE v \in Views : PersonaViews[v] = table} ELSE {table}

ViewsOf(table) ==
  IF table \in Bases THEN {v \in Views : PersonaViews[v] = table} ELSE {table}

Emitted(view) ==
  LET spec == AggregateViews[view] IN spec.grain \union spec.measures \union spec.money \union spec.windows
Projects(view, column) == view \in Aggregated => column \in Emitted(view)

(* The column a generated one takes its values and its role from: what is  *)
(* left of an aggregate's alias, which need not be a column.               *)
SourceOf(alias) ==
  CASE alias = "month_start_date" -> "calendar_date"
    [] alias = "member_transaction_count" -> "transaction_count"
    [] alias = "member_sales_amount" -> "sales_amount"

(* A derived column restates its role only where that is HOD, or where it  *)
(* has no source ("").                                                     *)
Derived(rows, view, alias, source, role) ==
  LET from == Documented(rows, PersonaViews[view], source)
      of == CHOOSE r \in from : TRUE
  IN [table |-> view, column |-> alias,
      role |-> CASE role # "" -> role
                 [] role = "" /\ from # {} -> of.role
                 [] OTHER -> "EXEC",
      values |-> IF from # {} THEN of.values ELSE {}]

DerivedColumns(rows, view) ==
  IF view \notin Aggregated
  THEN {Derived(rows, view, s.alias, s.source, IF s.money THEN "HOD" ELSE "") :
          s \in MemberSplits(PersonaViews[view])}
  ELSE LET spec == AggregateViews[view]
           money == spec.money \union MoneyColumns(view)
           own == Computed \intersect (spec.grain \union spec.measures \union spec.money)
       IN {Derived(rows, view, a, SourceOf(a), IF a \in money THEN "HOD" ELSE "") : a \in own}
            \union {Derived(rows, view, a, "", IF a \in money THEN "HOD" ELSE "EXEC") : a \in spec.windows}

FiledUnder(rows, view) ==
  {[table |-> view, column |-> r.column, role |-> r.role, values |-> r.values] :
     r \in {q \in rows : view \in ViewsOf(q.table) /\ Projects(view, q.column)}}

RowsByView(rows) ==
  UNION ({FiledUnder(rows, v) : v \in Views \union Dimensions} \union {DerivedColumns(rows, v) : v \in Views})

Hidden == {"updated_at", "created_at"}

(* Metadata tables and bases nothing is built on are not ingested. *)
Ingested(rows) == {r \in RowsByView(rows) : r.table \in Views \union Dimensions}

ColumnsOfView(ingested, view) == {r.column : r \in {q \in ingested : q.table = view}}

(* The rows a caller may be shown. *)
VisibleRows(ingested, role) ==
  {r \in ingested : r.column \notin Hidden /\ (role = "HOD" \/ r.role # "HOD")}
=============================================================================
