--------------------------- MODULE EntityDictionary ---------------------------
(***************************************************************************)
(* What the in-memory dictionary of app/service/entity_resolution knows:   *)
(* the names a lookup value goes by, the values a name may mean, the words *)
(* that tell no two values of a class apart, and the shortlist of names a  *)
(* misspelt word can be compared with.                                     *)
(*                                                                         *)
(* A name is a sequence of words; a word is a string, since the aliases    *)
(* join words and the index reads their beginnings.                        *)
(***************************************************************************)
EXTENDS Integers, FiniteSets, Sequences, SequencesExt

CONSTANTS
  Rows,      \* the rows of copilot_lookup_value: a sequence, in some order
  Banners,   \* STORE_ALIAS_STOPWORDS
  Codes,     \* words with a digit in them
  Filler,    \* FALLBACK_STOPWORDS, and the numbers
  Schema     \* question_vocabulary(): words of column and metric names

Levels == {"category_l1", "category_l2", "category_l3", "category_l4"}
Family(class) == IF class \in Levels THEN "category" ELSE class

(* A row: its class, the value and column it filters, its OpCo, its name   *)
(* (normalized_value) and the one it is searched by, and for display the   *)
(* path of its category and the alphabetical place of its label.           *)
ASSUME RowAssumption ==
  /\ Rows \in Seq([class : {"opco", "store", "enum"} \union Levels, value : STRING, column : STRING,
                   opco : STRING, name : Seq(STRING), search : Seq(STRING),
                   path : Seq(STRING), label : Nat])
  /\ \A i \in DOMAIN Rows : <<>> \notin {Rows[i].name, Rows[i].search}
-----------------------------------------------------------------------------
(* The names of a value *)

HasMeaningfulWord(words) ==
  \E i \in DOMAIN words : words[i] \notin Banners /\ Len(words[i]) >= 3

Joined(words) == FoldLeft(LAMBDA text, word : text \o word, "", words)

(* A branch name, and the same written as one word. *)
PhraseAliases(words) ==
  IF words = <<>> \/ ~HasMeaningfulWord(words) THEN {}
  ELSE {words} \union
       (IF Len(words) > 1 /\ Len(Joined(words)) >= 6 THEN {<<Joined(words)>>} ELSE {})

(* The place a branch is named for: its name without the leading banners. *)
Location(words) ==
  LET places == {i \in DOMAIN words : words[i] \notin Banners}
  IN  IF places = {} THEN <<>>
      ELSE SubSeq(words, CHOOSE i \in places : \A j \in places : i <= j, Len(words))

StoreAliases(words) ==
  LET location == Location(words)
      afterCode == IF location # words /\ Len(location) > 1 /\ Head(location) \in Codes
                   THEN {Tail(location)} ELSE {}
      endings == {SubSeq(words, i, Len(words)) : i \in 2 .. Len(words) - 1}
  IN  UNION {PhraseAliases(alias) : alias \in {words, location} \union afterCode \union endings}

(* "hardline" for the division HARD. *)
DivisionAliases(words) ==
  IF Len(words) # 1 \/ Len(words[1]) < 3 \/ words[1] \in Codes THEN {}
  ELSE LET name == words[1]
       IN  {<<name \o "line">>, <<name, "line">>, <<name \o "lines">>, <<name, "lines">>}

Aliases(row) ==
  LET names == {row.name, row.search}
  IN  CASE row.class = "store" -> UNION {StoreAliases(name) : name \in names}
        [] row.class = "category_l1" -> names \union DivisionAliases(row.name)
        [] OTHER -> names

AliasesOf == [i \in DOMAIN Rows |-> Aliases(Rows[i])]
AllAliases == UNION {AliasesOf[i] : i \in DOMAIN Rows}
-----------------------------------------------------------------------------
(* The values a name may mean *)

(* What tells two values apart: the same enum value of two columns is two. *)
Identity(row) == <<row.class, row.value, row.column>>

Candidate(i) ==
  [class |-> Rows[i].class, value |-> Rows[i].value, column |-> Rows[i].column,
   opco |-> Rows[i].opco, path |-> Rows[i].path, label |-> Rows[i].label,
   row |-> i, score |-> 1000, kind |-> "exact", others |-> {}]

(* One candidate for each identity: the row the catalogue returned first. *)
Indexed(alias) ==
  {Candidate(i) : i \in {j \in DOMAIN Rows :
     /\ alias \in AliasesOf[j]
     /\ \A k \in 1 .. j - 1 : alias \in AliasesOf[k] => Identity(Rows[k]) # Identity(Rows[j])}}

(* EntityDictionary.exact *)
Exact == [alias \in AllAliases |-> Indexed(alias)]
LookupExact(words) == IF words \in AllAliases THEN Exact[words] ELSE {}

(* A word carries no information if a fifth of the values of its class, and *)
(* two at least, have it; measured from three values on.                    *)
WeakByMeasure(class) ==
  LET values == {i \in DOMAIN Rows : Rows[i].class = class}
      docs(word) == {i \in values : word \in ToSet(Rows[i].name)}
      words == UNION {ToSet(Rows[i].name) : i \in values}
  IN  IF Cardinality(values) < 3 THEN {}
      ELSE {word \in words : LET n == Cardinality(docs(word))
                             IN  n >= 2 /\ 5 * n >= Cardinality(values)}

Weak == [class \in {"opco", "store", "enum"} \union Levels |->
  WeakByMeasure(class) \union (CASE class = "store" -> Banners
                                 [] class = "category_l1" -> {"line", "lines"}
                                 [] OTHER -> {})]
-----------------------------------------------------------------------------
(* The index of word beginnings *)

(* prefix_keys: the first three letters as they stand and sorted, so that  *)
(* two words have a key in common iff these are the same letters.          *)
Letter(word, i) == SubSeq(word, i, i)
ShareKey(word, other) ==
  /\ Len(word) >= 3 /\ Len(other) >= 3
  /\ \E p \in Permutations(1 .. 3) : \A i \in 1 .. 3 : Letter(word, i) = Letter(other, p[i])

Shortlist(window) ==
  {alias \in AllAliases :
     \E i \in DOMAIN window, j \in DOMAIN alias :
       window[i] \notin Filler /\ ShareKey(window[i], alias[j])}
=============================================================================
