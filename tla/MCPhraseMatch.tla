---------------------------- MODULE MCPhraseMatch ----------------------------
(***************************************************************************)
(* A catalogue with the names the matcher's comments are about: an OpCo    *)
(* whose brand name goes on with "card", which is also a value of two      *)
(* columns; two branches of different banners at one place, a third at     *)
(* another; a place that is a region and the end of branch names; a        *)
(* division and a group of one name, and a node of another OpCo of that    *)
(* name; a category called TOP; a banner that is a store_type; a      *)
(* tier and a segment of one label, and another segment; misspelt words.   *)
(***************************************************************************)
EXTENDS PhraseMatch

Row(class, value, column, opco, name, path, label) ==
  [class |-> class, value |-> value, column |-> column, opco |-> opco,
   name |-> name, search |-> name, path |-> path, label |-> label]

MCRows ==
  <<Row("opco", "CREDIT", "opco_code", "CREDIT", <<"north", "credit">>, <<>>, 10),
    Row("opco", "MART", "opco_code", "MART", <<"north", "mart">>, <<>>, 11),
    Row("enum", "Card", "payment_type", "", <<"card">>, <<>>, 3),
    Row("enum", "Card", "primary_payment_type", "", <<"card">>, <<>>, 3),
    Row("enum", "Elite", "value_segment", "", <<"elite">>, <<>>, 4),
    [Row("enum", "Elite", "member_tier", "", <<"elite">>, <<>>, 4) EXCEPT !.search = <<"elite", "tier">>],
    Row("enum", "South", "store_location", "", <<"south">>, <<>>, 13),
    Row("enum", "Mall", "store_type", "", <<"mall">>, <<>>, 8),
    Row("store", "101", "store_id", "MART", <<"mart", "veldra", "south">>, <<>>, 9),
    Row("store", "102", "store_id", "NORTH", <<"mall", "s5", "veldra", "south">>, <<>>, 7),
    Row("store", "103", "store_id", "NORTH", <<"mall", "rowan", "south">>, <<>>, 6),
    Row("category_l1", "11", "category_l1_key", "MART", <<"food">>, <<"food">>, 5),
    Row("category_l2", "12", "category_l2_key", "MART", <<"food">>, <<"food", "food">>, 6),
    Row("category_l3", "13", "category_l3_key", "NORTH", <<"food">>, <<"hard", "home", "food">>, 7),
    Row("category_l4", "14", "category_l4_key", "NORTH", <<"top">>, <<"soft", "men", "wear", "top">>, 14),
    Row("enum", "Mass", "value_segment", "", <<"mass">>, <<>>, 12)>>

MCFiller == {"in", "top", "and"}
MCSchema == {"tier"}
MCBanners == {"mart", "mall"}
MCCodes == {"s5"}

Ratios ==
  {<<"credit", "elit", 60>>, <<"credit", "elite", 55>>, <<"card", "credit", 60>>, <<"card", "mart", 50>>,
   <<"north", "south", 60>>, <<"veldr", "veldra", 91>>, <<"veldra", "veldrasouth", 71>>,
   <<"veldr", "veldrasouth", 62>>, <<"elit", "elite", 89>>, <<"rowan", "rowansouth", 67>>,
   <<"food", "foods", 89>>, <<"food", "foodline", 67>>, <<"foods", "foodline", 62>>,
   <<"food", "foodlines", 62>>, <<"foods", "foodlines", 71>>, <<"south", "veldrasouth", 62>>,
   <<"south", "rowansouth", 67>>, <<"mall", "mart", 50>>}
MCRatio(a, b) ==
  IF \E r \in Ratios : {r[1], r[2]} = {a, b}
  THEN (CHOOSE r \in Ratios : {r[1], r[2]} = {a, b})[3] ELSE 40

MCColumnWords(column) ==
  CASE column = "payment_type" -> {"payment", "type"}
    [] column = "primary_payment_type" -> {"primary", "payment", "type"}
    [] column = "value_segment" -> {"value", "segment"}
    [] column = "member_tier" -> {"member", "tier"}
    [] OTHER -> {}
Alphabetical ==
  <<"category_l1_key", "category_l2_key", "category_l3_key", "category_l4_key", "member_tier", "opco_code",
    "payment_type", "primary_payment_type", "store_id", "store_location", "store_type", "value_segment">>
MCColumnPlace(column) ==
  CHOOSE n \in DOMAIN Alphabetical : Alphabetical[n] = column

MCTails == {"card"}
MCPlaces == {"store_id", "store_location"}

Vocabulary ==
  {"north", "credit", "card", "mall", "veldra", "veldr", "south", "rowan", "food", "foods", "top",
   "elite", "elit", "tier", "in"}
MCQuestions ==
  UNION {[1 .. n -> Vocabulary] : n \in 1 .. 2}
  \union [1 .. 3 -> Vocabulary \ {"in", "foods"}]
  \union {<<first, "in", second>> : first, second \in Vocabulary}
  \union {<<"veldra", "in", "south", "mall">>, <<"mart", "veldra", "south", "rowan">>,
          <<"north", "credit", "card", "card">>, <<"veldr", "south", "in", "rowan">>,
          <<"food", "in", "rowan", "south", "in", "veldr">>,
          <<"north", "mart", "veldr", "south", "foods">>, <<"north", "mart", "veldra", "south">>, <<"south", "in", "veldra", "south", "in", "south">>,
          <<"tier", "elite", "mass">>}
=============================================================================
