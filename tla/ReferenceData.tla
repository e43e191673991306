---------------------------- MODULE ReferenceData ----------------------------
(***************************************************************************)
(* The seed files, the loaders that write them to the database (app/       *)
(* scripts/load_reference_data.py and load_glossary.py, run one after the  *)
(* other by docker-compose.yml or one of them by hand), and the service    *)
(* process, which reads a dictionary of names once per role and keeps it,  *)
(* while plans with the keys it gave wait in conversations.                *)
(*                                                                         *)
(* A name is a string, normalized; the loaders' own process ends with      *)
(* them, so the caches main() clears are not the service's.                *)
(***************************************************************************)
EXTENDS Glossary

CONSTANTS
  Files,         \* the contents the seed files may have, by version
  Served,        \* the roles whose callers the service has: a bound
  Place,         \* the alphabetical place of each name
  OpcoMeta,      \* OPCO_META: code -> [name, type, domain]
  OpcoLabels,    \* the labels of an OpCo, normalized
  NotWords,      \* values that are numbers or shorter than three letters
  MaxEdits,      \* how often the files change: a bound
  None

(* A value that is blank is shorter than three letters, and no code of the *)
(* roster is blank.                                                        *)
ASSUME WordsAssumption == "" \in NotWords /\ "" \notin DOMAIN OpcoMeta

(* No two names have one place.                                            *)
ASSUME PlaceAssumption ==
  \A a, b \in DOMAIN Place : Place[a] \in Int /\ (Place[a] = Place[b] => a = b)

(* A record of the catalogue has an OpCo and four levels, any of them      *)
(* blank.  A row of the glossary documents a column that a table has, and  *)
(* what is money or kept from executives is what MoneyColumns names.       *)
ASSUME FilesAssumption ==
  \A v \in DOMAIN Files :
    /\ Files[v].catalogue \in Seq([opco : DOMAIN Place, levels : [1..4 -> DOMAIN Place \union {""}]])
    /\ \A r \in Files[v].glossary :
         /\ r.table \notin Views
         /\ r.table \in DOMAIN BaseColumns => r.column \in BaseColumns[r.table]
         /\ r.money <=> r.column \in MoneyColumns(r.table)
         /\ r.role = "HOD" => r.money

CategoryKeyBase == 1000
LevelColumns == <<"product_line", "product_division", "product_group", "product_category">>

VARIABLES
  version,       \* of the files the loaders read
  edits,
  db,            \* what the database holds
  chain,         \* the loader docker compose runs next, or "idle"
  dictionary,    \* _cache: per role, the lookup rows read, or None
  plan           \* a category a conversation has settled, or None

vars == <<version, edits, db, chain, dictionary, plan>>

seed == Files[version]
-----------------------------------------------------------------------------
(* The category tree *)

(* A record names a category by its OpCo and up to four levels; a branch   *)
(* ends at its first blank.                                                *)
Depth(record) ==
  CHOOSE d \in 0..4 : (\A i \in 1..d : record.levels[i] # "") /\ (d < 4 => record.levels[d + 1] = "")
Path(record, d) == <<record.opco>> \o SubSeq(record.levels, 1, d)

PathsOf(catalogue) ==
  UNION {{Path(catalogue[i], d) : d \in 1..Depth(catalogue[i])} : i \in DOMAIN catalogue}

(* By OpCo, then level, then the names of the path.                        *)
Precedes(p, q) ==
  \/ Place[p[1]] < Place[q[1]]
  \/ p[1] = q[1] /\ Len(p) < Len(q)
  \/ /\ p[1] = q[1] /\ Len(p) = Len(q)
     /\ \E i \in DOMAIN p : Place[p[i]] < Place[q[i]] /\ (\A j \in 1..(i - 1) : p[j] = q[j])

(* A bug: the keys number the paths as the file first names them.          *)
KeyInFileOrder(catalogue, p) ==
  LET First(q) == CHOOSE i \in DOMAIN catalogue :
                    /\ \E d \in 1..Depth(catalogue[i]) : Path(catalogue[i], d) = q
                    /\ \A j \in 1..(i - 1) :
                         ~\E d \in 1..Depth(catalogue[j]) : Path(catalogue[j], d) = q
  IN CategoryKeyBase + Cardinality({q \in PathsOf(catalogue) :
       First(q) < First(p) \/ (First(q) = First(p) /\ Len(q) < Len(p))})

KeyOf(catalogue, p) == CategoryKeyBase + Cardinality({q \in PathsOf(catalogue) : Precedes(q, p)})

Parent(p) == SubSeq(p, 1, Len(p) - 1)
IsLeaf(catalogue, p) == ~\E q \in PathsOf(catalogue) : Len(q) > 2 /\ Parent(q) = p

(* A row of dim_product_category; keys[d] is its ancestor at level d.      *)
Node(catalogue, p) ==
  [path |-> p, key |-> KeyOf(catalogue, p), leaf |-> IsLeaf(catalogue, p),
   keys |-> [d \in 1..(Len(p) - 1) |-> KeyOf(catalogue, SubSeq(p, 1, d + 1))]]

BuildCategoryNodes(catalogue) == {Node(catalogue, p) : p \in PathsOf(catalogue)}
-----------------------------------------------------------------------------
(* The names a question may use *)

(* Of two stores of an OpCo with one number the first is kept.             *)
StoresOf(stores) ==
  {stores[i] : i \in {j \in DOMAIN stores :
     ~\E k \in 1..(j - 1) : stores[k].opco = stores[j].opco /\ stores[k].id = stores[j].id}}

LookupRow(class, column, name, opco, path, key) ==
  [class |-> class, column |-> column, name |-> name, opco |-> opco, path |-> path, key |-> key]

CategoryRows(nodes) ==
  {LookupRow("category", LevelColumns[Len(n.path) - 1], n.path[Len(n.path)],
             n.path[1], n.path, n.key) : n \in nodes}

(* The third element of the roster, which now holds a business domain,     *)
(* still decides what is skipped as the group entity.                      *)
OpcoRows ==
  UNION {{LookupRow("opco", "opco_code", label, code, <<>>, None) : label \in OpcoLabels[code]} :
           code \in {c \in DOMAIN OpcoMeta : OpcoMeta[c].domain = ""}}

StoreRows(stores) ==
  {LookupRow("store", "store_name", s.name, s.opco, <<>>, s.id) : s \in {t \in stores : t.name # ""}}

StoreTypeRows(stores) ==
  {LookupRow("enum", "store_type", s.type, s.opco, <<>>, None) :
     s \in {t \in stores : t.type # ""}}

AnswerableTables == Bases \union Dimensions \union {"dim_product"}

(* Columns whose values are identifiers or counts, by their own names or   *)
(* by how these end: those of the columns with documented values.          *)
KeyColumns == {"opco_code", "opco_name", "opco_codes", "primary_opco_code", "daypart_seq", "category_level",
               "active_months_6m", "active_months_12m", "purchase_months_12m"}

(* The documented values: of the loaded glossary, or of the file while     *)
(* nothing is loaded.                                                      *)
ReadEnumValues(loaded, file) ==
  LET rows == IF loaded # {} THEN loaded ELSE file
  IN UNION {{[column |-> r.column, value |-> v] : v \in r.values} :
              r \in {t \in rows : t.table \in AnswerableTables}}

(* A bug: the names were collected before the stores were added.           *)
CategoryNames(rows) == {r.name : r \in {q \in rows : q.class = "category"}}

EntityNames(rows) == {r.name : r \in rows}

IsVocabulary(e, taken) == e.column \notin KeyColumns /\ e.value \notin NotWords /\ e.value \notin taken

BuildLookupRows(nodes, stores, values) ==
  LET rows == CategoryRows(nodes) \union OpcoRows \union StoreRows(stores) \union StoreTypeRows(stores)
  IN rows \union {LookupRow("enum", e.column, e.value, "", <<>>, None) :
                    e \in {d \in values : IsVocabulary(d, EntityNames(rows))}}
-----------------------------------------------------------------------------
(* The loaders *)

Empty == [categories |-> {}, stores |-> {}, lookup |-> {}, glossary |-> {}]

Init ==
  /\ version \in DOMAIN Files
  /\ edits = 0
  /\ db = Empty
  /\ chain = "idle"
  /\ dictionary = [r \in Served |-> None]
  /\ plan = None

(* New files come with a deployment or between two of them. *)
EditSeeds ==
  /\ chain = "idle" /\ edits < MaxEdits
  /\ version' \in DOMAIN Files \ {version}
  /\ edits' = edits + 1
  /\ UNCHANGED <<db, chain, dictionary, plan>>

Deploy ==
  /\ chain = "idle"
  /\ chain' = "load_reference_data"
  /\ UNCHANGED <<version, edits, db, dictionary, plan>>

(* An OpCo the roster does not have gives a row of five values for four    *)
(* places, and nothing is loaded.                                          *)
OpcosOf(s) ==
  {s.catalogue[i].opco : i \in DOMAIN s.catalogue} \union {s.stores[i].opco : i \in DOMAIN s.stores}
    \union {"N360"}
Loadable(s) == OpcosOf(s) \subseteq DOMAIN OpcoMeta

(* A loader docker compose starts, or one started by hand.  The next of a  *)
(* chain runs only if this one succeeded.                                  *)
Runs(loader) == chain \in {loader, "idle"}
Then(next) == chain' = IF chain = "idle" THEN "idle" ELSE next

LoadReferenceData ==
  /\ Runs("load_reference_data") /\ Loadable(seed)
  /\ LET nodes == BuildCategoryNodes(seed.catalogue)
         stores == StoresOf(seed.stores)
         values == ReadEnumValues(db.glossary, seed.glossary)
     IN db' = [db EXCEPT !.categories = nodes, !.stores = stores,
                         !.lookup = BuildLookupRows(nodes, stores, values)]
  /\ Then("load_glossary")
  /\ UNCHANGED <<version, edits, dictionary, plan>>

(* Of two rows of a column the first counts; the files here have one.      *)
GlossaryIsValid(rows) == \A r \in rows : r.money => r.role = "HOD"

LoadGlossary ==
  /\ Runs("load_glossary") /\ GlossaryIsValid(seed.glossary)
  /\ db' = [db EXCEPT !.glossary = seed.glossary]
  /\ Then("idle")
  /\ UNCHANGED <<version, edits, dictionary, plan>>

(* A loader that raises rolls its transaction back and ends the chain. *)
LoaderFails ==
  /\ chain # "idle"
  /\ chain' = "idle"
  /\ UNCHANGED <<version, edits, db, dictionary, plan>>
-----------------------------------------------------------------------------
(* The service *)

GetDictionary(role) ==
  /\ dictionary[role] = None
  /\ dictionary' = [dictionary EXCEPT ![role] = db.lookup]
  /\ UNCHANGED <<version, edits, db, chain, plan>>

Categories(rows) == {r \in rows : r.class = "category"}

(* A question names a category; its key goes into the conversation's plan. *)
(* `among` records what the dictionary knew, for the property below.       *)
Settle(role) ==
  /\ dictionary[role] # None
  /\ \E r \in Categories(dictionary[role]) :
       plan' = [path |-> r.path, key |-> r.key, among |-> {q.path : q \in Categories(dictionary[role])}]
  /\ UNCHANGED <<version, edits, db, chain, dictionary>>

(* The caches end with the process, the conversations do not. *)
Restart ==
  /\ dictionary' = [r \in Served |-> None]
  /\ UNCHANGED <<version, edits, db, chain, plan>>

Next ==
  \/ EditSeeds \/ Deploy \/ LoadReferenceData \/ LoadGlossary \/ LoaderFails \/ Restart
  \/ \E role \in Served : GetDictionary(role) \/ Settle(role)

Spec == Init /\ [][Next]_vars
-----------------------------------------------------------------------------
(* The loader's docstring: a reload produces identical keys every run, so  *)
(* a key that waits in a plan or in a stale dictionary stays valid.  As    *)
(* long as the catalogue has the same categories, in whatever order and    *)
(* however often its file names them, a plan's key is its category's and   *)
(* carries the same ancestors (build_category_nodes, get_dictionary).      *)
KeysKeepTheirMeaning ==
  plan # None /\ {n.path : n \in db.categories} = plan.among =>
    \E n \in db.categories :
      /\ n.path = plan.path /\ n.key = plan.key /\ n.keys[Len(n.path) - 1] = plan.key
      /\ \A m \in db.categories : (n.key \in {m.keys[d] : d \in DOMAIN m.keys}) <=>
           (Len(m.path) >= Len(n.path) /\ SubSeq(m.path, 1, Len(n.path)) = n.path)

(* "An enum must not shadow a real entity name", nor be a key or a count:  *)
(* whatever glossary and stores were loaded in whatever order, no value    *)
(* goes by the name of a category, a store or a store's format, and none   *)
(* is a number (build_lookup_rows, read_enum_values).                      *)
NoValueShadowsAName ==
  \A e \in db.lookup : e.class = "enum" /\ e.opco = "" =>
    /\ e.name \notin NotWords /\ e.column \notin KeyColumns
    /\ e.name \notin {n.path[Len(n.path)] : n \in db.categories}
    /\ e.name \notin {s.name : s \in db.stores} \union {s.type : s \in db.stores}

(* What the planner is told and the validator checks by is what the        *)
(* database has: every view a loaded glossary documents in full has the    *)
(* columns its migration builds, and what a role may be shown of it is     *)
(* what its own persona view projects (_rows_by_view, visible_rows,        *)
(* persona_view_sql).                                                      *)
InFull(rows, view) == BaseColumns[PersonaViews[view]] = {r.column : r \in {q \in rows : q.table = PersonaViews[view]}}
GlossaryFitsTheViews ==
  LET ingested == Ingested(db.glossary)
      Shown(view, role) == ColumnsOfView(VisibleRows(ingested, role), view)
  IN db.glossary # {} => \A v \in Views :
       /\ ColumnsOfView(ingested, v) \subseteq ViewColumns(v, "HOD")
       /\ InFull(db.glossary, v) => ColumnsOfView(ingested, v) = ViewColumns(v, "HOD")
       /\ \A role \in Roles :
            /\ Shown(v, role) \subseteq ViewColumns(v, role)
            /\ InFull(db.glossary, v) => Shown(v, role) = ViewColumns(v, role) \ Hidden

(* "The dictionary must hold the COMPLETE schema vocabulary" (build_lookup_ *)
(* rows): after a deployment every documented value can be named.          *)
DeployedVocabularyIsComplete ==
  [][chain = "load_glossary" /\ db'.glossary = seed.glossary /\ chain' = "idle" =>
       \A e \in ReadEnumValues(seed.glossary, {}) :
         e.column \notin KeyColumns /\ e.value \notin NotWords =>
           e.value \in {r.name : r \in db.lookup}]_vars
=============================================================================
