----------------------------- MODULE MCSqlChecks -----------------------------
(***************************************************************************)
(* Statements of the shapes the planner's instructions ask for and the     *)
(* validator's comments report: a question of one view, a join of two, a   *)
(* CTE joined or counted, a union; with right and wrong columns, periods,  *)
(* aggregates and aliases.  The rows have a customer of two OpCos and two  *)
(* months and one of a single row.                                         *)
(***************************************************************************)
EXTENDS SqlChecks

Activity == "v_customer_opco_monthly"
Sales == "v_sales_summary_daily"

MCColumnsOf(table) ==
  CASE table = Activity -> {"customer_key", "month_start_date", "opco_code", "revenue"}
    [] table = Traits -> {"customer_key", "month_start_date", "tier"}
    [] table = Sales -> {"calendar_date", "opco_code", "customer_count", "revenue"}
    [] table = "dim_opco" -> {"opco_code", "opco_name"}
    [] table = "dim_store" -> {"opco_code", "store_name"}
    [] table = "dim_product_category" -> {"opco_code", "category_name"}
    [] OTHER -> {}

ActivityRow(c, month, opco) ==
  [customer_key |-> c, month_start_date |-> month, opco_code |-> opco, revenue |-> 1]
MCRows(table) ==
  CASE table = Activity ->
         {ActivityRow(1, 1, 1), ActivityRow(1, 1, 2), ActivityRow(1, 2, 1), ActivityRow(2, 1, 1)}
    [] table = Traits ->
         {[customer_key |-> r[1], month_start_date |-> r[2], tier |-> 1] :
            r \in {<<1, 1>>, <<1, 2>>, <<2, 1>>}}
    [] table = Sales -> {[calendar_date |-> 1, opco_code |-> o, customer_count |-> 1, revenue |-> 1] : o \in {1, 2}}
    [] OTHER -> {[opco_code |-> o, opco_name |-> o, store_name |-> o, category_name |-> o] : o \in {1, 2}}

Period(table) == IF table = Sales THEN "calendar_date" ELSE "month_start_date"
Col(of, name) == [of |-> of, name |-> name]
E(fn, of, name, as) == [fn |-> fn, of |-> of, name |-> name, as |-> as]
Pred(of, name, op) == {[of |-> of, name |-> name, op |-> op]}
Table(table, alias) == [table |-> table, cte |-> <<>>, alias |-> alias]
Cte(select, alias) == [table |-> "", cte |-> <<select>>, alias |-> alias]
Select(from, on, where, items) ==
  [from |-> from, on |-> on, where |-> where, items |-> items, group |-> {}, distinct |-> FALSE]
Statement(branches) == [text |-> "select", branches |-> branches, order |-> {}]

Filters(table, alias) ==
  {{}, Pred(alias, "opco_code", "eq")}
  \union {Pred(alias, Period(table), op) : op \in {"eq", "between", "range"}}

Items(alias) ==
  {<<E("count", "", "*", "n")>>, <<E("count_distinct", alias, "customer_key", "n")>>,
   <<E("column", alias, "customer_key", "k")>>, <<E("sum", alias, "revenue", "total")>>,
   <<E("sum", alias, "customer_count", "total")>>, <<E("column", alias, "tier", "tier")>>,
   <<E("max", alias, "month_start_date", "latest")>>, <<E("column", alias, "month_start_date", "month_start_date")>>}

Simple ==
  UNION {{Select(<<Table(t, "c")>>, {}, w, i) : w \in Filters(t, "c"), i \in Items("c")} :
         t \in {Activity, Traits, Sales, "dim_opco", "copilot_access_log"}}

(* Grouped by a function of the period, as of a column. *)
Grouped ==
  UNION {{[Select(<<Table(t, "c")>>, {}, w, <<E("sum", "c", "revenue", "total")>>) EXCEPT
             !.group = {E(fn, "c", Period(t), "period")}] :
            w \in Filters(t, "c"), fn \in {"column", "flag"}} : t \in {Activity, Traits, Sales}}

Joins ==
  UNION {{Select(<<Table(t, "c"), Table(u, "d")>>, on, w, i) :
            w \in Filters(t, "c") \union Filters(u, "d")
                  \union {v \union Pred("d", Period(u), "eq") : v \in Filters(t, "c")}
                  \union {v \union Pred("c", n, "eq") : v \in Filters(t, "c"), n \in {"store_name"}},
            i \in Items("c") \union {<<E("flag", "d", "customer_key", "member")>>},
            on \in {{<<Col("c", "customer_key"), Col("d", "customer_key")>>},
                    {<<Col("c", "customer_key"), Col("d", "customer_key")>>,
                     <<Col("c", "month_start_date"), Col("d", "month_start_date")>>},
                    {<<Col("c", "opco_code"), Col("d", "opco_code")>>}}} :
         t \in {Activity, Traits, Sales}, u \in {Activity, Traits, "dim_opco"}}

Named ==
  {Select(<<Table(Sales, "c"), Table(d, alias)>>, {<<Col("c", "opco_code"), Col(alias, "opco_code")>>},
          Pred("c", "calendar_date", "between") \union Pred(alias, "opco_code", "eq") \union w,
          <<E("sum", "c", "revenue", "total"), E("column", alias, name, "name")>>) :
     d \in {"dim_store", "dim_product_category"}, alias \in {"d", "do"}, name \in {"store_name", "category_name"},
     w \in {{}} \union {Pred(a, n, "eq") : a \in {"d", "do"}, n \in {"store_name", "category_name"}}}

Inner(alias) ==
  UNION {{[Select(<<Table(t, alias)>>, {}, w, shape.items) EXCEPT
             !.group = shape.group, !.distinct = shape.distinct] :
            w \in Filters(t, alias),
            shape \in {[items |-> <<E("column", alias, "customer_key", "k")>>, group |-> g, distinct |-> d] :
                         g \in {{}, {E("column", alias, "customer_key", "k")}}, d \in BOOLEAN}
                      \union
                      {[items |-> <<E("column", alias, "customer_key", "customer_key"),
                                    E("sum", alias, "revenue", "spend")>>,
                        group |-> {E("column", alias, "customer_key", "k")}, distinct |-> FALSE],
                       [items |-> <<E("column", alias, Period(t), Period(t)), E("column", alias, "revenue", "spend")>>,
                        group |-> {}, distinct |-> FALSE]}} :
         t \in {Activity, Traits, Sales}}

OuterItems(alias) ==
  {<<E("count", "", "*", "n")>>, <<E("sum", alias, "spend", "spend")>>, <<E("column", alias, "k", "k")>>,
   <<E("max", alias, "calendar_date", "latest")>>, <<E("flag", alias, "k", "member")>>,
   <<E("count_distinct", alias, "customer_key", "n")>>}

WithCte ==
  UNION {{Select(<<Cte(c, a)>>, {}, {}, i) : i \in OuterItems(a), c \in Inner("c")} : a \in {"b", "c"}}
  \union
  UNION {{Select(<<Table(t, "c"), Cte(c, "b")>>, {<<Col("c", "customer_key"), Col("b", key)>>}, w, i) :
            i \in OuterItems("b") \union {<<E("sum", "c", "revenue", "total")>>,
                                          <<E("count_distinct", "c", "customer_key", "n")>>},
            key \in {"k", "customer_key"}, c \in Inner("a") \union Inner("c"),
            w \in {Pred("c", Period(t), "eq")}} : t \in {Activity, Traits}}

Branches ==
  UNION {{Select(<<Table(t, a)>>, {}, w, <<E("sum", a, "revenue", "total")>>) :
            t \in {Activity, Sales}, w \in {{}} \union {Pred(a, Period(u), "between") : u \in {Activity, Sales}}} :
         a \in {"c", "d"}}
Unions ==
  {[text |-> "select", branches |-> <<s, t>>, order |-> o] :
     s \in Branches, t \in Branches, o \in {{}, {Col("", "total")}, {Col("c", "total")}}}

MCSubmitted ==
  {Statement(<<s>>) : s \in Simple \union Grouped \union Joins \union Named \union WithCte} \union Unions
  \union {[Statement(<<s>>) EXCEPT !.text = t] :
            s \in {Select(<<Table(Sales, "c")>>, {}, Pred("c", "calendar_date", "eq"), <<E("sum", "c", "revenue", "total")>>)},
            t \in RefusedTexts}
=============================================================================
