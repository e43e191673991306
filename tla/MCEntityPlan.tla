---------------------------- MODULE MCEntityPlan ----------------------------
(***************************************************************************)
(* Names from the repository's data and comments: the branches called      *)
(* "veldra selbycross", one with a digit in its name; a category at        *)
(* different levels of two OpCos; a guess; an OpCo, named and guessed at;  *)
(* two stores of one name (3007 and 3013), two of one number (1104).       *)
(***************************************************************************)
EXTENDS EntityPlan

CONSTANTS NORTHCO, MART, yes

Option(rank, class, name, value, opco) ==
  [rank |-> rank, class |-> class, name |-> name, value |-> value, opco |-> opco]

Veldra ==
  {Option(1, "store", "NORTHCO MART VELDRA SELBYCROSS", 101, MART),
   Option(2, "store", "VELDRA SELBYCROSS", 102, NORTHCO),
   Option(3, "store", "YENMART S25 VELDRA SELBYCROSS", 103, NORTHCO)}
Elmervale ==
  {Option(1, "store", "FRESHMART ELMERVALE FARROWMERE", 3007, NORTHCO),
   Option(2, "store", "FRESHMART ELMERVALE FARROWMERE", 3013, NORTHCO)}
Grocery ==
  {Option(1, "category_l1", "Grocery", 11, MART),
   Option(2, "category_l2", "FOOD > GROCERY", 12, NORTHCO)}
Fashion ==
  {Option(1, "category_l2", "HARD > HOME FASHION", 13, NORTHCO),
   Option(2, "category_l4", "FASHION ACCESSORIES", 14, MART)}
Vantryton == {Option(1, "store", "GLEDEHOLT VANTRYTON E-COMMERCE", 1104, NORTHCO)}
Avenue == {Option(1, "store", "NORTHCO MART FIRST AVENUE", 1104, MART)}
Mart == {Option(1, "opco", "NorthCo Mart", 1, MART)}
Veld == {Option(1, "opco", "NorthCo", 2, NORTHCO), Option(2, "opco", "NorthCo Mart", 1, MART)}

Span(phrase, exact, certain, candidates) ==
  [phrase |-> phrase, exact |-> exact, certain |-> certain, candidates |-> candidates]

MCSpans ==
  {Span(1, TRUE, FALSE, Grocery), Span(2, TRUE, FALSE, Veldra), Span(3, FALSE, FALSE, Fashion),
   Span(4, TRUE, TRUE, Mart), Span(5, TRUE, FALSE, Elmervale), Span(6, FALSE, FALSE, Veld),
   Span(7, TRUE, TRUE, Vantryton), Span(8, TRUE, TRUE, Avenue)}

Branches == Veldra \union Elmervale \union Vantryton \union Avenue

MCStores ==
  {[name |-> o.name, value |-> o.value, opco |-> o.opco, order |-> o.value] :
     o \in Branches}

MCSays ==
  [name \in {o.name : o \in Branches \union Grocery \union Fashion \union Veld} |->
     IF name = "YENMART S25 VELDRA SELBYCROSS" THEN {2} ELSE {}]
=============================================================================
