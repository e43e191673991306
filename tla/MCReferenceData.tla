--------------------------- MODULE MCReferenceData ---------------------------
(***************************************************************************)
(* Seed files for ReferenceData: a catalogue, the same in another order    *)
(* and with records repeated, one with a category more, one with an OpCo   *)
(* the roster lacks; a glossary, one with a new value, one of few columns  *)
(* and one with money for everyone.  Values carry the names of categories, *)
(* of a store's format and of numbers.  The columns are those of the sales *)
(* tables and the bridge, and some of the other tables'.                   *)
(***************************************************************************)
EXTENDS ReferenceData

MCDimensions == {"dim_opco", "dim_store", "dim_product_category", "dim_product"}

MCBaseColumns ==
  [fact_sales_daily |->
     {"calendar_date", "daypart", "daypart_seq", "opco_code", "store_id", "category_key",
      "category_l1_key", "category_l2_key", "category_l3_key", "category_l4_key",
      "customer_type", "payment_type", "transaction_count", "line_item_count", "quantity",
      "customer_count", "gross_sales_amount", "net_sales_amount", "discount_amount",
      "gmv_amount", "updated_at"},
   agg_sales_daily |->
     {"calendar_date", "daypart", "daypart_seq", "opco_code", "category_l1_key",
      "category_l2_key", "customer_type", "transaction_count", "quantity",
      "customer_count", "gross_sales_amount", "net_sales_amount", "gmv_amount"},
   agg_sales_sku_monthly |->
     {"month_start_date", "opco_code", "sku_key", "brand_name", "store_id", "category_key",
      "category_l1_key", "category_l2_key", "category_l3_key", "category_l4_key",
      "customer_type", "transaction_count", "quantity", "gross_sales_amount"},
   bridge_customer_category_monthly |->
     {"customer_key", "month_start_date", "opco_code", "category_key", "category_level",
      "category_l1_key", "category_l2_key", "category_l3_key", "category_l4_key",
      "store_id", "transaction_count", "quantity", "gross_sales_amount"},
   fact_customer_opco_monthly |->
     {"customer_key", "month_start_date", "opco_code", "preferred_store_type",
      "transaction_count", "quantity", "total_revenue", "total_gmv"},
   fact_customer_traits_monthly |->
     {"customer_key", "month_start_date", "lifecycle_stage", "family_segment",
      "active_opco_codes"},
   dim_opco |->
     {"opco_code", "opco_name", "is_active"},
   dim_store |->
     {"store_id", "opco_code", "store_name", "store_type"},
   dim_product_category |->
     {"category_key", "opco_code", "category_level", "category_name"},
   dim_product |->
     {"sku_key", "opco_code", "sku_name", "category_key"}]

MCPlace ==
  [NEWCO |-> 1, NORTHCO |-> 2, NORTHCO_MART |-> 3, apparel |-> 4, babies |-> 5, food |-> 6,
   hard |-> 7, kids |-> 8, others |-> 9, soft |-> 10, strollers |-> 11]

MCOpcoMeta ==
  [NORTHCO |-> [name |-> "NorthCo", type |-> "OPERATING", domain |-> "RETAIL"],
   NORTHCO_MART |-> [name |-> "NorthCo Mart", type |-> "OPERATING", domain |-> "RETAIL"],
   N360 |-> [name |-> "N360", type |-> "GROUP", domain |-> "RETAIL"]]
MCOpcoLabels == [NORTHCO |-> {"northco"}, NORTHCO_MART |-> {"northco mart"}, N360 |-> {"n360"}]
MCNotWords == {"", "3", "12"}
-----------------------------------------------------------------------------
Record(opco, one, two, three, four) == [opco |-> opco, levels |-> <<one, two, three, four>>]
Catalogue ==
  <<Record("NORTHCO", "soft", "kids", "babies", "strollers"),
    Record("NORTHCO", "soft", "kids", "babies", "others"),
    Record("NORTHCO_MART", "hard", "", "", ""),
    Record("NORTHCO", "food", "others", "", "")>>
Shuffled == <<Catalogue[3], Catalogue[4], Catalogue[2], Catalogue[1], Catalogue[2]>>
Extended == Catalogue \o <<Record("NORTHCO", "apparel", "kids", "", "")>>
Foreign == Catalogue \o <<Record("NEWCO", "hard", "", "", "")>>

Store(opco, id, name, type) == [opco |-> opco, id |-> id, name |-> name, type |-> type]
Stores ==
  <<Store("NORTHCO", 1104, "gledeholt", "shop"), Store("NORTHCO_MART", 1104, "first avenue", "northco mart"),
    Store("NORTHCO", 1104, "gledeholt annex", "")>>

ValuesOf(column) ==
  CASE column = "lifecycle_stage" -> {"new", "churned"}
    [] column = "family_segment" -> {"kids", "elite"}
    [] column = "preferred_store_type" -> {"northco mart", "wellness"}
    [] column = "store_type" -> {"shop"}
    [] column = "daypart_seq" -> {"3", "first"}
    [] column = "opco_code" -> {"northco"}
    [] column = "daypart" -> {"12", "morning"}
    [] OTHER -> {}
Documents(table, columns, Values(_)) ==
  {[table |-> table, column |-> c, role |-> IF c \in MoneyColumns(table) THEN "HOD" ELSE "EXEC",
    money |-> c \in MoneyColumns(table), values |-> Values(c)] : c \in columns}
Internal == Documents("copilot_glossary", {"metric_class"}, LAMBDA c : {"dimension"})

Full == Internal \union UNION {Documents(t, MCBaseColumns[t], ValuesOf) : t \in DOMAIN MCBaseColumns}
Renamed == Internal \union UNION {Documents(t, MCBaseColumns[t],
             LAMBDA c : IF c = "lifecycle_stage" THEN {"loyal", "churned"} ELSE ValuesOf(c)) :
               t \in DOMAIN MCBaseColumns}
Few == Documents("fact_sales_daily", {"calendar_date", "daypart", "opco_code", "net_sales_amount"}, ValuesOf)
         \union Documents("fact_customer_traits_monthly", {"customer_key", "lifecycle_stage"}, ValuesOf)
Loose == {[r EXCEPT !.role = "EXEC"] : r \in Full}

Contents(catalogue, glossary) == [catalogue |-> catalogue, stores |-> Stores, glossary |-> glossary]
MCFiles ==
  [first |-> Contents(Catalogue, Full), shuffled |-> Contents(Shuffled, Few),
   extended |-> Contents(Extended, Renamed), faulty |-> Contents(Foreign, Loose)]
=============================================================================
