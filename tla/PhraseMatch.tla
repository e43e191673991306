------------------------------ MODULE PhraseMatch ------------------------------
(***************************************************************************)
(* How the names in a question are found: app/service/entity_resolution/   *)
(* matcher.py, in the order EntityResolver.resolve (service.py) calls it.  *)
(* Exact names are taken longest first; what is left over, and the router  *)
(* says names something, is guessed at; the spans of both are then         *)
(* arbitrated into the list the slots of EntityPlan are made from.         *)
(*                                                                         *)
(* Scores are tenths of a point, 1000 at most.                             *)
(***************************************************************************)
EXTENDS EntityDictionary

CONSTANTS
  Questions,          \* the questions asked: sequences of words
  Ratio(_, _),        \* difflib's similarity of two words, in percent
  ColumnWords(_),     \* the words of a column's name
  ColumnPlace(_),     \* the alphabetical place of a column
  Tails,              \* OPCO_BRAND_TAIL
  Places,             \* _LOCATION_COLUMNS
  SuggestScore,       \* settings.lookup_suggest_score
  ConfidentScore,     \* settings.lookup_confident_score
  Margin,             \* settings.lookup_ambiguity_margin
  OptionWindow,       \* settings.lookup_option_window
  MaxOptions,         \* max_options_per_span()
  MaxSpanTokens,      \* MAX_SPAN_TOKENS
  MaxFuzzyTokens,     \* MAX_FUZZY_WINDOW_TOKENS
  None                \* the router gave no answer

(* max_options_per_span also allows an option list of one, which leaves    *)
(* span_status no runner-up to compare with: the model is of the           *)
(* deployments that show a choice.                                         *)
ASSUME SettingsAssumption ==
  /\ Questions \subseteq Seq(STRING)
  /\ MaxOptions \in Nat \ {0, 1} /\ MaxSpanTokens \in Nat \ {0} /\ MaxFuzzyTokens \in Nat \ {0}
  /\ Margin \in Nat /\ OptionWindow \in Nat /\ ConfidentScore \in Nat /\ SuggestScore \in 0 .. ConfidentScore

(* Words have a length and two of them a similarity; a column has a finite *)
(* number of words, and no two have one place.                             *)
ASSUME WordsAssumption ==
  LET words == (UNION {ToSet(q) : q \in Questions}) \union (UNION {ToSet(a) : a \in AllAliases})
      columns == {Rows[i].column : i \in DOMAIN Rows}
  IN  /\ \A a, b \in words : Len(a) \in Nat /\ Ratio(a, b) \in 0 .. 100
      /\ \A c, d \in columns :
           /\ IsFiniteSet(ColumnWords(c))
           /\ ColumnPlace(c) \in Int /\ (ColumnPlace(c) = ColumnPlace(d) => c = d)

Level(c) == CASE c.class = "category_l1" -> 1 [] c.class = "category_l2" -> 2
              [] c.class = "category_l3" -> 3 [] c.class = "category_l4" -> 4 [] OTHER -> 0

(* The path of a category has a name for each level down to its own, its   *)
(* key stands for one node, and the label of an enum value is the value    *)
(* (build_lookup_rows).                                                    *)
ASSUME LabelsAssumption ==
  \A i, j \in DOMAIN Rows :
    /\ Rows[i].class \in Levels => Len(Rows[i].path) = Level(Rows[i])
    /\ Rows[i].class \in Levels /\ Rows[i].class = Rows[j].class /\ Rows[i].value = Rows[j].value =>
         Rows[i].opco = Rows[j].opco /\ Rows[i].path = Rows[j].path
    /\ Rows[i].class = "enum" /\ Rows[j].class = "enum" =>
         (Rows[i].label = Rows[j].label <=> Rows[i].value = Rows[j].value)

VARIABLES
  stage,      \* "exact", "guess", "arbitrate" or "done"
  question,   \* the words of the question
  backwards,  \* the catalogue query, which has no ORDER BY, returned the rows in the other order
  phrases,    \* the words the router says name something, or None
  exact,      \* spans of exact names
  absorbed,   \* positions of product-line nouns that belong to an OpCo's name
  open,       \* positions that may be guessed at
  guesses,    \* the readings kept
  bracketed,  \* positions that stand in brackets
  spans       \* the result

vars == <<stage, question, backwards, phrases, exact, absorbed, open, guesses, bracketed, spans>>
-----------------------------------------------------------------------------
(* Spans and the order of their candidates *)

Place(c) == IF backwards THEN -c.row ELSE c.row

(* Whether the first tuple of two of one length comes first. *)
Precedes(key, other) ==
  \E i \in DOMAIN key : key[i] < other[i] /\ \A j \in 1 .. i - 1 : key[j] = other[j]

(* The members of the domain of key, in the order of what it makes of them. *)
SortedBy(key) ==
  [n \in 1 .. Cardinality(DOMAIN key) |->
     CHOOSE x \in DOMAIN key :
       Cardinality({y \in DOMAIN key : y = x \/ Precedes(key[y], key[x])}) = n]

(* What stands at some places of a list, in the order it has there. *)
Part(list, places) ==
  [n \in 1 .. Cardinality(places) |->
     list[CHOOSE i \in places : Cardinality({j \in places : j <= i}) = n]]

(* _candidate_sort_key, and the order the rows came in for what it leaves  *)
(* equal.                                                                  *)
SortKey(c) == <<-c.score, Level(c), c.label, Place(c)>>
Ranked(candidates) == SortedBy([c \in candidates |-> SortKey(c)])

OneFamily(ranked) ==
  Part(ranked, {i \in DOMAIN ranked : Family(ranked[i].class) = Family(ranked[1].class)})

Span(first, last, candidates) == [first |-> first, last |-> last, candidates |-> candidates]
Best(span) == span.candidates[1]
Covers(span) == span.first .. span.last
Covered(set) == UNION {Covers(s) : s \in set}
Words(first, last) == SubSeq(question, first, last)
-----------------------------------------------------------------------------
(* The exact names *)

(* A lone word the question was always going to contain is not a name. *)
Ordinary(words) == Len(words) = 1 /\ Head(words) \in Filler \union Schema

IsName(first, last) ==
  /\ last - first < MaxSpanTokens
  /\ ~Ordinary(Words(first, last))
  /\ LookupExact(Words(first, last)) # {}

Names ==
  {w \in (DOMAIN question) \X (DOMAIN question) :
     w[1] <= w[2] /\ IsName(w[1], w[2]) /\ w[1] .. w[2] \cap Covered(exact) = {}}

(* A bug: leftmost first. *)
LeftmostFirst(w) == <<w[1], w[1] - w[2]>>

(* Longest first, then leftmost. *)
LongestFirst(w) == <<w[1] - w[2], w[1]>>

IsNextName(w) == \A v \in Names \ {w} : Precedes(LongestFirst(w), LongestFirst(v))

(* One turn of match_exact's loop that finds a name. *)
TakeName ==
  /\ stage = "exact"
  /\ \E w \in Names :
       /\ IsNextName(w)
       /\ exact' = exact \union
            {Span(w[1], w[2], OneFamily(Ranked(LookupExact(Words(w[1], w[2])))))}
  /\ UNCHANGED <<stage, question, backwards, phrases, absorbed, open, guesses, bracketed, spans>>

(* "NorthCo Credit Card" is one name: _absorb_opco_brand_tails. *)
BrandTail ==
  {i \in DOMAIN question : \E s \in exact :
     /\ Best(s).class = "opco"
     /\ s.last < i
     /\ \A j \in s.last + 1 .. i : question[j] \in Tails}

(* A bug: a schema word is only kept from being guessed at on its own. *)
LeftoverOrBesideIt(taken, named) ==
  {i \in DOMAIN question \ taken :
     /\ question[i] \notin Filler
     /\ question[i] \in Schema => {i - 1, i + 1} \cap DOMAIN question # {}
     /\ named # None => question[i] \in named}

(* leftover_runs and restrict_runs.  Runs are the stretches of these       *)
(* positions; a word is in an allowed phrase wherever it stands.           *)
Leftover(taken, named) ==
  {i \in DOMAIN question \ taken :
     /\ question[i] \notin Filler \union Schema
     /\ named # None => question[i] \in named}

(* The end of match_exact, and what the router says of the rest. *)
EndExact(named) ==
  /\ stage = "exact" /\ Names = {}
  /\ absorbed' = BrandTail
  /\ exact' = {s \in exact : ~(Covers(s) \subseteq BrandTail)}
  /\ open' = Leftover(Covered(exact) \union BrandTail, named)
  /\ phrases' = named
  /\ stage' = "guess"
  /\ UNCHANGED <<question, backwards, guesses, bracketed, spans>>
-----------------------------------------------------------------------------
(* The score of a guess *)

Begins(long, short) == SubSeq(long, 1, Len(short)) = short

(* _token_similarity, in percent: a beginning of the word counts for more  *)
(* than what the two have in common elsewhere.                             *)
Similar(a, b) ==
  LET short == IF Len(a) <= Len(b) THEN a ELSE b
      long == IF Len(a) <= Len(b) THEN b ELSE a
      truncated == Len(short) >= 5 /\ 10 * Len(short) >= 7 * Len(long) /\ Begins(long, short)
  IN  CASE a = b -> 100
        [] a # b /\ truncated -> 75 + ((25 * Len(short)) \div Len(long))
        [] OTHER -> IF Letter(a, 1) = Letter(b, 1) THEN Ratio(a, b) ELSE Ratio(a, b) \div 2

Closest(word, words) == Max({Similar(word, words[i]) : i \in DOMAIN words})

(* A weak word weighs a fifth of another. *)
Weight(word, weak) == IF word \in weak THEN 1 ELSE 5
Total(value) ==
  LET sum[n \in 0 .. Len(value)] == IF n = 0 THEN 0 ELSE sum[n - 1] + value[n]
  IN  sum[Len(value)]
AllWeight(words, weak) == Total([i \in DOMAIN words |-> Weight(words[i], weak)])

(* The sums _precision and _recall divide by AllWeight. *)
Earned(window, alias, weak) ==
  Total([i \in DOMAIN window |-> Weight(window[i], weak) * Closest(window[i], alias)])
AccountedFor(window, alias, weak) ==
  Total([i \in DOMAIN alias |->
           IF Closest(alias[i], window) >= 80 THEN Weight(alias[i], weak) ELSE 0])

(* phrase_score: seven parts precision, three parts recall. *)
Score(window, alias, weak) ==
  IF ToSet(window) \subseteq weak THEN 0
  ELSE ((7 * Earned(window, alias, weak)) \div AllWeight(window, weak))
       + ((300 * AccountedFor(window, alias, weak)) \div AllWeight(alias, weak))

(* A single word is evidence for a name if it is nearly one of its words, *)
(* or accounts for half of it.                                            *)
Anchored(window, alias, weak) ==
  \/ Len(window) > 1
  \/ Closest(window[1], alias) >= 90
  \/ 2 * AccountedFor(window, alias, weak) >= AllWeight(alias, weak)

Floor(class) == IF class = "enum" THEN ConfidentScore ELSE SuggestScore

(* What the aliases near a window are worth, one candidate per score. *)
Scored(window) ==
  UNION {{[c EXCEPT !.score = Score(window, alias, Weak[c.class]), !.kind = "fuzzy"] :
            c \in {d \in Exact[alias] :
                     /\ d.class # "opco"
                     /\ Anchored(window, alias, Weak[d.class])
                     /\ Score(window, alias, Weak[d.class]) >= Floor(d.class)}} :
         alias \in Shortlist(window)}

(* best_by_identity: for each class and value the best score, and of one   *)
(* score what came first.                                                  *)
BestOfEach(candidates) ==
  {c \in candidates : \A d \in candidates \ {c} :
     <<c.class, c.value>> = <<d.class, d.value>> => Precedes(<<-c.score, Place(c)>>, <<-d.score, Place(d)>>)}

(* without_redundant_descendants *)
Extends(c, d) ==
  /\ {Family(c.class), Family(d.class)} = {"category"}
  /\ c.opco = d.opco /\ Len(d.path) < Len(c.path) /\ SubSeq(c.path, 1, Len(d.path)) = d.path
WithoutDescendants(ranked) ==
  Part(ranked, {i \in DOMAIN ranked : \A d \in ToSet(ranked) : ~Extends(ranked[i], d)})

AtMost(n, list) == SubSeq(list, 1, Min({n, Len(list)}))
Near(ranked) ==
  Part(ranked, {i \in DOMAIN ranked : ranked[i].score >= ranked[1].score - OptionWindow})

(* A bug: capped first, pruned second. *)
OptionsPrunedLast(window) ==
  LET ranked == OneFamily(Ranked(BestOfEach(Scored(window))))
  IN  IF ranked = <<>> THEN <<>> ELSE WithoutDescendants(AtMost(MaxOptions, Near(ranked)))

(* _score_window: pruned first, capped second. *)
Options(window) ==
  LET ranked == OneFamily(Ranked(BestOfEach(Scored(window))))
  IN  IF ranked = <<>> THEN <<>> ELSE AtMost(MaxOptions, WithoutDescendants(Near(ranked)))
-----------------------------------------------------------------------------
(* The guesses *)

Windows ==
  {w \in (DOMAIN question) \X (DOMAIN question) :
     /\ w[1] <= w[2] /\ w[2] - w[1] < MaxFuzzyTokens
     /\ w[1] .. w[2] \subseteq open
     /\ w[1] = w[2] => Len(question[w[1]]) >= 4}

(* The readings of a run that say something. *)
Readings ==
  {s \in {Span(w[1], w[2], Options(Words(w[1], w[2]))) : w \in Windows} : s.candidates # <<>>}

(* Best score first, then the longest, then the leftmost. *)
ReadingKey(s) == <<-Best(s).score, s.first - s.last, s.first>>

Unclaimed == {s \in Readings : Covers(s) \cap Covered(guesses) = {}}

IsBestReading(s) == \A t \in Unclaimed \ {s} : Precedes(ReadingKey(s), ReadingKey(t))

(* One turn of _best_reading_of_run's loop that keeps a reading. *)
TakeReading ==
  /\ stage = "guess"
  /\ \E s \in Unclaimed : IsBestReading(s) /\ guesses' = guesses \union {s}
  /\ UNCHANGED <<stage, question, backwards, phrases, exact, absorbed, open, bracketed, spans>>

(* A store_type beside a branch name is naming the same shop. *)
NameFamily(c) == IF c.column = "store_type" THEN "store" ELSE Family(c.class)

(* _drop_name_tails: a guess that touches an exact name of its kind goes   *)
(* on with that name.                                                      *)
WithoutNameTails ==
  {s \in guesses : ~\E e \in exact :
     /\ NameFamily(Best(s)) = NameFamily(Best(e))
     /\ {s.first, s.last + 1} \cap {e.first, e.last + 1} # {}}

EndGuess ==
  /\ stage = "guess" /\ Unclaimed = {}
  /\ guesses' = WithoutNameTails
  /\ stage' = "arbitrate"
  /\ UNCHANGED <<question, backwards, phrases, exact, absorbed, open, bracketed, spans>>
-----------------------------------------------------------------------------
(* The arbitration of the spans *)

Thing(c) == <<c.class, c.value>>
ByPosition(set) == SortedBy([s \in set |-> <<s.first>>])

(* dedupe_spans: of two spans that name one thing the first in the list    *)
(* stays, and exact spans come before guesses.                             *)
DedupedSpans(list) ==
  {list[i] : i \in {j \in DOMAIN list :
     \A k \in 1 .. j - 1 : Thing(Best(list[k])) # Thing(Best(list[j]))}}

Dimension(c) ==
  CASE c.column \in Places -> "location"
    [] c.column \notin Places /\ c.class \in Levels -> "category"
    [] OTHER -> c.column

Outside(set, brackets) ==
  {Dimension(Best(s)) : s \in {t \in set : Covers(t) \cap brackets = {}}}

(* A bug: whatever is in brackets is a gloss. *)
WithoutBracketed(set, brackets) == {s \in set : ~(Covers(s) \subseteq brackets)}

(* drop_bracketed_glosses *)
WithoutGlosses(set, brackets) ==
  {s \in set : ~(Covers(s) \subseteq brackets /\ Dimension(Best(s)) \in Outside(set, brackets))}

(* _column_rank: the column whose words the question uses most, then the   *)
(* plainer one.                                                            *)
ColumnRank(column) ==
  <<-Cardinality(ColumnWords(column) \cap (ToSet(question) \ Filler)),
    Cardinality(ColumnWords(column)), ColumnPlace(column)>>

(* A bug: one candidate for a value, whichever column came first. *)
FirstColumn(list) == list

(* collapse_enum_columns: one candidate for the columns of a value, which  *)
(* keeps the others.                                                       *)
CollapseColumns(list) ==
  LET ColumnsOf(c) == {d.column : d \in {e \in ToSet(list) : Thing(e) = Thing(c)}}
      First(c) == \A other \in ColumnsOf(c) \ {c.column} : Precedes(ColumnRank(c.column), ColumnRank(other))
      enum(c) == c.class = "enum"
      kept == Part(list, {i \in DOMAIN list : enum(list[i]) => First(list[i])})
  IN  [i \in DOMAIN kept |->
         IF enum(kept[i]) THEN [kept[i] EXCEPT !.others = ColumnsOf(kept[i]) \ {kept[i].column}] ELSE kept[i]]

(* span_status, once dedupe_candidates has left one candidate for a thing. *)
DedupedCandidates(list) ==
  Part(list, {i \in DOMAIN list : \A j \in 1 .. i - 1 : Thing(list[j]) # Thing(list[i])})

(* A bug: the runner-up is not looked at. *)
CertainOfTheBest(list) == list[1].kind = "exact" \/ list[1].score >= ConfidentScore

Certain(list) ==
  /\ Len(list) > 1 => list[1].score - list[2].score > Margin
  /\ list[1].kind = "exact" \/ list[1].score >= ConfidentScore

Settled(s) ==
  LET list == DedupedCandidates(WithoutDescendants(CollapseColumns(s.candidates)))
  IN  [first |-> s.first, last |-> s.last,
       status |-> IF Certain(list) THEN "resolved" ELSE "ambiguous",
       candidates |-> IF Certain(list) THEN list ELSE AtMost(MaxOptions, list)]

Priority(class) ==
  CASE class = "opco" -> 0 [] class = "store" -> 1 [] class \in Levels -> 2 [] class = "enum" -> 3

(* The rest of resolve, up to the slots. *)
Arbitrate(brackets) ==
  /\ stage = "arbitrate"
  /\ bracketed' = brackets
  /\ LET deduped == DedupedSpans(ByPosition(exact) \o ByPosition(guesses))
         settled == {Settled(s) : s \in WithoutGlosses(deduped, brackets)}
     IN  spans' = SortedBy([s \in settled |-> <<Priority(Best(s).class), s.first>>])
  /\ stage' = "done"
  /\ UNCHANGED <<question, backwards, phrases, exact, absorbed, open, guesses>>
-----------------------------------------------------------------------------
Init ==
  /\ stage = "exact" /\ question \in Questions /\ backwards \in BOOLEAN
  /\ phrases = None /\ exact = {} /\ absorbed = {} /\ open = {} /\ guesses = {}
  /\ bracketed = {} /\ spans = <<>>

(* What the router can say: nothing, or which of the words left over name  *)
(* something.                                                              *)
RouterSays ==
  {None} \union SUBSET {question[i] : i \in Leftover(Covered(exact) \union BrandTail, None)}

Brackets == {first .. last : first, last \in DOMAIN question}

Next ==
  \/ TakeName
  \/ \E named \in RouterSays : EndExact(named)
  \/ TakeReading
  \/ EndGuess
  \/ \E brackets \in Brackets : Arbitrate(brackets)

Spec == Init /\ [][Next]_vars
-----------------------------------------------------------------------------
(* Properties *)

(* Spans are stretches of the question with candidates in order of rank.   *)
SpanOK(s) ==
  /\ s.first \in DOMAIN question /\ s.last \in s.first .. Len(question)
  /\ s.candidates # <<>>
  /\ \A i \in 1 .. Len(s.candidates) - 1 : s.candidates[i].score >= s.candidates[i + 1].score

(* The type invariant.  No two spans of the result cover one word, as the  *)
(* matcher's preamble promises.                                            *)
TypeOK ==
  /\ stage \in {"exact", "guess", "arbitrate", "done"}
  /\ \A s \in exact \union guesses : SpanOK(s)
  /\ absorbed \union open \union bracketed \subseteq DOMAIN question
  /\ \A i \in DOMAIN spans : SpanOK(spans[i]) /\ spans[i].status \in {"resolved", "ambiguous"}
  /\ \A i, j \in DOMAIN spans : i # j => Covers(spans[i]) \cap Covers(spans[j]) = {}

(* A span of the exact names that speaks of the same thing and that the    *)
(* brackets can have taken out.                                            *)
Gloss(s, t) == Thing(Best(t)) = Thing(Best(s)) /\ Covers(t) \subseteq bracketed

Dimensions(c) == {Dimension([c EXCEPT !.column = column]) : column \in {c.column} \union c.others}

(* No exact name of the question vanishes: whatever the router says and    *)
(* the guesses are, it is in the result, unless it stands in brackets and  *)
(* the result has another place or category, or another value that its     *)
(* column has too                                                          *)
(* (match_exact, dedupe_spans, drop_bracketed_glosses).                    *)
NoNameIsLost ==
  stage = "done" => \A s \in exact :
    \/ \E i \in DOMAIN spans : Thing(Best(spans[i])) = Thing(Best(s))
    \/ \E t \in exact : /\ Gloss(s, t)
                         /\ \E i \in DOMAIN spans : Dimension(Best(t)) \in Dimensions(Best(spans[i]))

(* "It is whether the bracketed span answers a question the sentence       *)
(* outside has already answered": the docstring of drop_bracketed_glosses. *)
(* A name is dropped only for one that filters the same column, place or   *)
(* category.                                                               *)
GlossesAreAnswered ==
  stage = "done" => \A s \in exact :
    \/ \E i \in DOMAIN spans : Thing(Best(spans[i])) = Thing(Best(s))
    \/ \E t \in exact : /\ Gloss(s, t)
                         /\ \E i \in DOMAIN spans : Dimension(Best(t)) = Dimension(Best(spans[i]))

(* A name is passed over only for one that shares a word with it and is    *)
(* longer, or as long and to its left, or for the brand an OpCo's name     *)
(* goes on with: a branch is never read as the shorter name inside its own *)
(* (match_exact, _absorb_opco_brand_tails).                                *)
LongestNameWins ==
  stage # "exact" => \A first \in DOMAIN question : \A last \in first .. Len(question) :
    IsName(first, last) /\ first .. last \cap absorbed = {} =>
      \E s \in exact :
        /\ Covers(s) \cap first .. last # {}
        /\ \/ s.last - s.first > last - first
           \/ s.last - s.first = last - first /\ s.first <= first

(* A guess is made only from words that no exact name has used, that are   *)
(* not filler nor name a column or metric, and that the router, if it had  *)
(* an opinion, says name something; and it touches no exact name of its    *)
(* kind (leftover_runs, restrict_runs, _drop_name_tails).                  *)
GuessesAreLicensed ==
  \A s \in guesses :
    /\ Covers(s) \cap (Covered(exact) \union absorbed) = {}
    /\ \A i \in Covers(s) :
         /\ question[i] \notin Filler \union Schema
         /\ phrases # None => question[i] \in phrases
    /\ stage \in {"arbitrate", "done"} => \A e \in exact :
         s.first = e.last + 1 \/ e.first = s.last + 1 => NameFamily(Best(s)) # NameFamily(Best(e))

(* The values of a guess's kind that its words could mean, as near as the  *)
(* option window asks.                                                     *)
Alternatives(s) ==
  LET kin == {c \in Scored(Words(s.first, s.last)) : Family(c.class) = Family(Best(s).class)}
  IN  {c \in kin : \A d \in kin : c.score >= d.score - OptionWindow}

(* The options of a guess are a choice: no two of them are one thing or a  *)
(* thing and its part, and an alternative is missing only where it is one  *)
(* of them, a part of one, or the list is full of real alternatives        *)
(* (_score_window, without_redundant_descendants).                         *)
OptionsAreChoices ==
  stage = "arbitrate" => \A s \in guesses :
    LET offered == ToSet(s.candidates)
    IN  /\ \A c, d \in offered : c # d => Thing(c) # Thing(d) /\ ~Extends(c, d)
        /\ Len(s.candidates) < MaxOptions =>
             \A c \in Alternatives(s) : \E d \in offered : Thing(c) = Thing(d) \/ Extends(c, d)

(* A guess filters the SQL without a question only if it is nearly spelt   *)
(* right and beats every alternative by the margin, parts of another one   *)
(* excepted: even those that the option list left out (span_status).       *)
SilentOnlyIfAlone ==
  \A i \in DOMAIN spans : spans[i].status = "resolved" /\ Best(spans[i]).kind = "fuzzy" =>
    /\ Best(spans[i]).score >= ConfidentScore
    /\ \A c \in Alternatives(spans[i]) :
         \/ Thing(c) = Thing(Best(spans[i]))
         \/ \E d \in Alternatives(spans[i]) : Extends(c, d)
         \/ c.score + Margin < Best(spans[i]).score

Columns(s, rows) ==
  {Rows[r].column : r \in {q \in rows : Rows[q].class = "enum" /\ Rows[q].value = Best(s).value}}
Carries(s, columns) == Best(s).class = "enum" => {Best(s).column} \union Best(s).others = columns

(* An exact value that several columns hold under the name given reaches   *)
(* the planner with every one of them: the column chosen and the others it *)
(* keeps (collapse_enum_columns, dedupe_candidates).                       *)
ColumnsAreKept ==
  \A i \in DOMAIN spans :
    LET s == spans[i]
        named == {r \in DOMAIN Rows : Words(s.first, s.last) \in AliasesOf[r]}
    IN  Best(s).kind = "exact" => Carries(s, Columns(s, named))

(* "So the choice is made explicitly and the alternatives are kept": the   *)
(* docstring of collapse_enum_columns, which goes on to say that the       *)
(* planner is given all the columns of the value; of a guess as of a name. *)
AlternativesAreKept ==
  \A i \in DOMAIN spans :
    Best(spans[i]).kind = "fuzzy" => Carries(spans[i], Columns(spans[i], DOMAIN Rows))
=============================================================================
