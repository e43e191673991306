# Verification of the conversational copilot

TLA+ modules, TLC runs and TLAPS proofs about the service in `src/app/`: a FastAPI
endpoint that answers questions about retail data by driving a LangGraph state
machine over language models and a read-only PostgreSQL schema.

`PROJECT.json` maps every definition to the lines it models and lists the runs,
the seeded bugs each property finds, the hazards and the theorems.

## 1. The system

A request (`POST /ask`, `POST /ask/stream`) is one *turn* of a thread.
`CustomerIntelligenceCopilot.run` enters the caller's database scope and invokes the
compiled graph on the thread's checkpoint under `asyncio.wait_for(api_timeout)`;
`stream` runs the same thing in a task and forwards what it writes. The graph calls
the language-model agents, the entity resolver, the validators and `run_sql`, and
its last node appends the reply to the history that the next turn reads.

| Component | State it keeps | Operations | What makes it correct | Module |
|---|---|---|---|---|
| Turn graph (`graph/`) | the checkpointed `CopilotState` of a thread | 19 nodes, 7 conditional edges, `run()` around them | nothing leaks from one turn to the next; retries are bounded; only validated SQL runs; rows, statement and notices of a reply belong together | `CopilotTurn`, `TurnContract` |
| Ask stream (`copilot_service.stream`, `stream_context`, `analysis_agent`) | a bounded queue, the producer task, the generator | write, emit, forward, keepalive, terminal frames, hang-up | no piece lost or reordered; one ending; no turn running for a client that has gone | `AskStream` |
| Database session (`session_scope`, `sql_executor`, `access_log_service`, the pool) | role, level, `search_path`, transaction and savepoint of a pooled connection | scope entry and exit, `run_sql`, audit row | generated SQL runs only as its caller; a connection goes back clean | `SessionScope` |
| Entity resolution (`service/entity_resolution/service.py`) | the lookup plan, carried in the assistant payload | extract, budget, ask, select, pin, finalize | nothing ambiguous becomes a filter unasked; what is settled stays; what is offered can be combined | `EntityPlan` |
| Conversation (`clarification_policy`, `conversation_turn_agent`, `load_context`) | the history and its open clarification window | classify a reply, merge it, keep or abandon the window | an answered clarification restores the question it belongs to; an abandoned one leaves the history | `Conversation`; its outcomes in `CopilotTurn` |
| Access policy and metrics | the metric catalogue | `withheld_for`, denial, substitution | no money for a role that may not see it, and the notice says what happened | in `CopilotTurn` |
| SQL validation (`sql_guards`, `sql_validator_agent`, `query_shape_guard`) | none | a period guard, eleven rules, a shape guard | right statements pass; what passes names real columns, counts customers once and scans a bounded period | `SqlChecks`; that nothing runs unchecked in `CopilotTurn` |
| Entity dictionary and matcher | a cache per role level | build, look up, score, arbitrate | the longest name wins and none is lost; a guess is licensed, and silent only if alone | `EntityDictionary`, `PhraseMatch`; the cache in `ReferenceData` |
| LLM gateway (`llm_service`) | prompt cache, provider threads, a queue per stream | complete, structured output, stream | pieces in order, an error never taken for the end, nothing hangs, one cached prompt at a time | `LlmGateway` |
| Checkpoints (`db/checkpoint.py`) | a connection pool, a state per thread | get, put per superstep | a turn resumes from the last complete checkpoint; a waiting turn ends | in `CopilotTurn`, `Conversation` |
| Glossary and table registry | the ingested glossary | file rows under views, search | planner and validator are told of the columns the persona views have | `Glossary`, `SqlChecks` |
| Loaders (`load_reference_data`, `load_glossary`) | the reference tables | build categories and lookup rows, replace them | category keys survive a reload; no documented value takes an entity's name | `ReferenceData` |
| Usage, tracing | counters, spans, `last_sql` | record | - | `last_sql` in `CopilotTurn` |
| Charts, time and text helpers, mock data, evaluation | none | formatting; run by hand | quality of text | not modelled |

How they meet, and where it is hard:

* **State that outlives its turn.** The checkpoint is written after every node, so a
  turn that times out, fails or is cancelled leaves its half-made state to the next
  one; `reset_turn_state` must forget exactly what belongs to a turn.
* **Two retries in one loop.** Failed validation and failed execution share
  `retry_count` and one cycle of the graph.
* **A plan that travels.** The lookup plan leaves through the payload, loses the
  keys of its stores, comes back a turn later and is applied to a reply that may be
  a number, a label or something else.
* **Tasks.** Producer task, generator and client run concurrently, meet in a bounded
  queue and may each end first.
* **Transactions.** `SET LOCAL` ends with its transaction, three timeouts race on a
  statement, and every path must leave the pooled connection as it was found.
* **Notices.** Which policy notices a reply carries is decided in five places.
* **A history that is read back.** The original question of a clarification is found by
  scanning messages for what does not look like a reply, in a history that is trimmed,
  may hold an abandoned chain and is written by every turn of the thread.
* **Threads.** A provider's blocking stream is read by a thread that outlives its
  caller; blocking calls share one prompt cache under one lock.
* **Names.** Exact names, guesses, brackets and the columns of a value are arbitrated in
  an order in which each pass takes words from the next.
* **Two descriptions of the schema.** The glossary service and the migrations derive
  the columns of the same views separately; what is loaded may be older than either.

The hazards of `PROJECT.json` name these at their lines, with the properties that
would catch each going wrong.

## 2. Modules

Modules and what builds on what:

    TurnContract      what a conversation promises its caller
      ^ implemented by
    CopilotTurn       the graph, turn after turn      <- CopilotTurn_proofs
    AskStream         one streamed turn               <- AskStream_proofs
    SessionScope      one pooled connection           <- SqlExecution_proofs
    EntityPlan        the lookup plan of a thread     <- MCEntityPlan, EntityPlan_proofs
    Conversation      the history of a thread         <- MCConversation, Conversation_proofs
    LlmGateway        calls to the provider           <- LlmGateway_proofs
    EntityDictionary  the names that are known
      ^ extended by
    PhraseMatch       the names in a question         <- MCPhraseMatch, PhraseMatch_proofs
    SqlChecks         a statement before it runs      <- MCSqlChecks, SqlExecution_proofs
    Glossary          the columns the views have
      ^ extended by
    ReferenceData     files, loaders, caches          <- MCReferenceData, ReferenceData_proofs

The modules meet at what one hands to the other. `PhraseMatch`'s spans are
`EntityPlan`'s input: `SpanAssumption` says what is used of them. `SqlChecks` decides
what is one Boolean of a statement in `CopilotTurn`, `EntityPlan` what is an outcome of
its resolver node, `Conversation` what is an outcome of its first two. `ReferenceData`
loads what `EntityDictionary` indexes.

In every module an operator introduced by "A bug:" is a seeded mistake, the mutated
form of the definition after it; it takes no part in the specification.

### CopilotTurn

One action is one node of `build_copilot_graph` with the conditional edge that leaves
it: LangGraph evaluates the edge on the state the node wrote, in the same superstep.
`node` is the node about to run, the other variables are the fields of `CopilotState`
that decide anything, under their own names where TLA+ allows. An error text is the
Boolean that it is set. The language models are free choices over what the code
accepts from them (`Plans` is `_normalize_plan`'s range, a route is an
`IntentDecision`'s), and each agent's fallback is one of the outcomes. The question
is what the code tells apart of it: what it asks of money (`asked`: nothing, a measure
with a volume twin, revenue only) and which statements the validators accept.
`Fail` and `Cancel` end a turn at any node: with the error result, which reports the
tracker's last statement, or with nothing. History entries are assistant payloads; the
history limit counts turns, two messages each.

Left out: `sql_attempts`, timings, token counts and matches (written, never read by
a decision), wording, charts.

### TurnContract

Open a turn, run at most `Budget` statements and none after one that succeeded, close
with one reply whose type fits what was run and whose notices fit the type. The
mapping in `CopilotTurn` reads `open`, `tries`, `good` and `told` off the graph's
state.

### AskStream

`task` is the producer (`produce`), `queue` the `asyncio.Queue`, `at` the place in the
generator, `frames` what was yielded. `Write` waits for room as `writer()` does;
`Closed` is the `put_nowait` under `suppress`, which writes the sentinel only if there
is room. `RunReturns`, `RunRaises` and `RunCancelled` are the three exits of
`produce`. Pieces of the answer are numbers, so that loss and order can be seen; the
answer sent whole is number 0. `Disconnect` is the client's, `Close` and `Closing` the
generator's `finally`.

### SessionScope

One connection serves request after request. `session`, `pending` and `current` are
what PostgreSQL keeps of the settings on rollback, on commit and now; `mark` is what
the savepoint returns to; `tx` is the session's transaction. An action is one awaited
statement, which takes effect, is refused (the transaction aborts) or loses its
connection; `Interrupt`, `InterruptAudit` and `HangUp` are exceptions and
cancellations in between. The rules of PostgreSQL and SQLAlchemy are external
definitions, taken from how the code relies on them.

### EntityPlan

A question is a set of spans, a span a phrase with ranked candidates: the matcher's
result (`PhraseMatch`), here any that satisfies `SpanAssumption`. `Extract`, `Match` (one span), `TooMany`,
`Matched`, `Select` and `Finalize` are the parts of `resolve()`, `ResolverFails` the
node's handler. `Carried` is what becomes of a slot on its way through the payload and
`_restore_internal_store_values`: a store is found again by its label. `Ask`,
`FollowUp` and `Answer` are the three things `load_context` makes of a message.
`picked` and `settled` are history variables and decide nothing.

### Conversation

A turn of the thread is `Post` (the request arrives and queues for a connection of the
checkpoint pool), `Connect` or `GiveUp` (`PoolTimeout`), `Read` (LangGraph reads the
checkpoint once), `ResetTurnState`, `LoadContext`, any number of `Checkpoint`s and
`SaveTurn`; `Fail` is a timeout, an exception or a hang-up at any of these. `saved` is
the checkpointed history, `work` a turn's own; every superstep writes the latter over
the former, which is how two turns of one thread meet. A message is what
`clarification_policy`'s patterns see of it: its form, which word lists it hits, its
length, whether it asks or names a column. `WindowStart`, `OriginalQuestion` and
`FollowupOf` are the scans of the history; `Decisions` is what the code accepts of the
conversation agent's answer. A period is inherited as the filters are.
`chain`, `dropped`, `cut` and `overlapped` are history variables.

### LlmGateway

A caller makes one call after the other: `generate_text`, `generate_json` or
`stream_text`. `Lookup`, `Lock`, `Check` and `Create` are `_get_or_create_cache` with its
double-checked lock; `Generate`, `Evict` and `Inline` the attempt with the cached block,
the eviction when that fails and the inline fallback; `Parse` the second attempt of
structured output. `Expire` is the provider forgetting a cached content. `ReadPiece`
and `ReadEnd` are the thread of `_stream_sync_iterator`, `Receive` its caller's loop.
`Cancel` takes the caller away: the thread runs on.

### EntityDictionary and PhraseMatch

`Exact` is the index `EntityDictionary.build` makes of the lookup rows, with the aliases
of a store and a division (`StoreAliases`, `DivisionAliases`), `Weak` the words that
tell no two values of a class apart, `Shortlist` the prefix index. In `PhraseMatch`,
`TakeName` is one turn of `match_exact`'s loop and `EndExact` what follows it, up to what
the router lets be guessed; `TakeReading` and `EndGuess` are `match_fuzzy`, `Arbitrate`
the rest of `resolve()` up to the slots: duplicates, bracketed glosses, the columns of a
value, `span_status`. The catalogue query has no `ORDER BY`: `backwards` lets its rows
come in the other order. `SortedBy` and `Part` say of a sorted or filtered list which
member has which place: the one with so many before it. Scores are tenths of a point,
truncated where the code rounds; `difflib`'s ratio is a table of constants; option lists
have room for two at least.

### SqlChecks

A statement is a tree of two levels, a select over tables or over tables and a CTE, or a
union of two. `Rules` are the checks in the order in which the code applies them, each
an operator; `AskForPeriod` and `Refuse` are its two ways to stop. What the
code decides by alias maps and by text is modelled so (`Binder` and `BoundTable` are one map
for the whole statement, `GuardedText` runs on as the pattern does). Against it stands
what a statement means: `Resolves` looks a name up where it stands, `Combinations`
evaluates a select over the content of its tables, and `Executable` is what the database
refuses by itself. `Statements` is the type of the trees, the statements, the glossary
and the rows are parameters. The WHERE is a conjunction of `=`, `BETWEEN` and `>=`; CTEs
do not nest.

### Glossary and ReferenceData

`Glossary` has both derivations of a view's columns: `ViewColumns` from `v3_ddl.py`,
which the migrations run, and `RowsByView` from `glossary_service.py`, which the planner
and the validator read. `ReferenceData` adds time: the seed files change (`EditSeeds`),
a deployment runs the two loaders one after the other (`Deploy`,
`LoadReferenceData`, `LoadGlossary`, `LoaderFails`), either may be run by hand, the
service caches a dictionary per role (`GetDictionary`) until it restarts, and a
conversation keeps a key (`Settle`). A file documents each column once, `KeyColumns`
lists the identifiers of the seed glossary, and products, which name
resolution does not use, are left out.

## 3. Runs

Passing runs:

| Run | What it asks | Bounds |
|---|---|---|
| `turn_graph` | the graph's safety, the refinement of `TurnContract` and that every turn ends, each turn ended by a reply, an error or a cancellation at any node | 2 statements, 1 retry, 3 turns, history of 2; 1.9 million states |
| `ask_stream` | order, endings and hang-ups of the stream, with liveness | queue of 2, 2 statuses, 3 pieces |
| `session_scope` | scope, retries and cleanliness of the connection | both levels, 3 statements a turn, any number of requests |
| `entity_plan` | what becomes of a plan over any number of clarifications | 8 phrases, up to 3 slots a plan, limit of 2 columns |
| `conversation` | what the history keeps, and what a reply is taken to belong to, with failing and overlapping turns | 3 turns, history limit 5, pool of 2, 4 messages; 743,000 states |
| `llm_gateway` | the prompt cache under concurrent calls, the stream, that nothing hangs | 2 callers, 3 calls, 2 cached contents, 2 pieces; both providers; 268,000 states |
| `phrase_match` | what a question's names become | every question of up to 2 of 15 words, most of 3 and some longer ones, 15 catalogue rows in both orders, every answer of the router, every pair of brackets; 191,000 states |
| `sql_checks` | what the rules let through and what they stop | some 12,000 statements; 120,000 states |
| `reference_data` | keys, names and columns over reloads and restarts | 4 versions of the files, 2 edits, one served role; 14,600 states |

The bounds are the smallest at which the interesting cases happen. Two statements tell
the statement shown from the one run; one retry is enough for a failed validation or a
failed execution to be followed by a success or by the end of the budget (two in one
turn, and any other budget, are covered by the proofs); three turns let a turn follow
one that followed a failure, and a history of two is trimmed by the third. A
queue of two fills while more is written, and three pieces overtake it. Three
statements are the configured `1 + max_sql_retries`. The phrases of `MCEntityPlan` are
taken from the repository's data and comments: branches of one name in two OpCos, one
with a digit; two stores with the same label and two with the same number; a category at
different levels; a guess; an OpCo, named and guessed at. Three slots are an ambiguous
store, an ambiguous category and the OpCo that pins both.

Three turns are a question, a reply and what comes after; a limit of five, which is odd,
cuts the first turn in half when the third is saved; of three turns a pool of two makes
one wait. The four messages are a full question, two words that may be a question or a
reply, a number, and a column's name. Two callers race for the lock, and a third call finds what they
left; a second cached content exists only after an eviction. `MCPhraseMatch` has, for
each comment of `matcher.py` that reports an ambiguity, the rows that make it: an OpCo
whose brand goes on with a product word, two branches of one place, a region that ends
branch names, a division and a group of one name, a value of two columns. `MCSqlChecks`
has the shapes that the planner's instructions ask for and the validator's comments
report, right and wrong; its rows have a customer with two OpCos and two months and one
with a single row, which is what double counting needs. `MCReferenceData`'s files are a catalogue, the same in
another order with records repeated, one with a category more and one with an OpCo the
roster lacks; its glossaries one in full, one of few columns, one with a new value
and one with money for everyone.

Deadlock is not checked where things end: in `turn_graph` (the thread after `MaxTurns`),
the stream's runs (the response), `conversation` and `llm_gateway` (all turns, all
calls), `phrase_match` and `sql_checks` (a question, a statement).

Each module but `ReferenceData` states its type; a run checks that of `CopilotTurn`, and the
theorems prove all of them, alone (`PhraseMatch!TypeOK`) or within the inductive
invariant.

Violation runs, each of one statement of the repository that the code does not keep:

| Run | Statement | What happens |
|---|---|---|
| `stream_ends` | the producer closes the queue on every exit path (`copilot_service.py:349`, `tests/test_stream.py:183`) | with the queue full at that moment `put_nowait` raises inside `suppress`, no sentinel is written and the response sends keepalives for ever |
| `every_name` | "store_id is unique only WITHIN an OpCo" (`alembic/versions/20260727_02_v3_dimensions.py:78`) | the resolver identifies a store by its number alone: of two stores numbered 1104, both named, one is dropped |
| `deployed_vocabulary` | "the dictionary must hold the COMPLETE schema vocabulary" (`load_reference_data.py:539`) | `read_enum_values` reads the glossary that is in the database, and compose (`docker-compose.yml:76-77`) and `SETUP.md:310` load the new one after: the values of a changed glossary cannot be named until the next load |

`StreamEnds` fails only for want of a place in the queue: with a queue that cannot fill
(`Capacity` 5 for one status and two pieces) TLC finds it true.

Eight more disagreements of this kind are stated as definitions that no run checks; TLC
finds each violated when it is added to the module's configuration:

| Definition | Statement | What happens |
|---|---|---|
| `SessionScope!TimeoutKeepsScope` | after a timeout "the caller's scope survive[s] so a retry can run" (`sql_executor.py:199`) | a statement cancelled by `wait_for` costs its connection, and with it the transaction and the scope |
| `EntityPlan!NumberPicksFromList` | "A bare ordinal picks from the presented list" (`service.py:616`) | a label that contains the digit is taken first |
| `EntityPlan!AskedOnce` | the merge of replies "prevents loops"; what was asked about "is carried forward" (`clarification_policy.py:681`, `intent_nodes.py:29`) | after choosing another than the best option, answering the period asks the same phrase again |
| `EntityPlan!FailedLookupIsAbandoned` | after a terminal lookup failure the user does not continue by answering it (`clarification_policy.py:212`) | its detector looks for words the resolver no longer says |
| `CopilotTurn!ReuseKeepsNotice` | every policy that changed what came back is in `policies` (`README.md:113`) | a reused answer has none |
| `PhraseMatch!AlternativesAreKept` | "the choice is made explicitly and the alternatives are kept" (`collapse_enum_columns`) | true of exact names only: a misspelt value that two columns hold has lost one of them before (`matcher.py:618`), the one that the catalogue returned second |
| `PhraseMatch!GlossesAreAnswered` | a bracketed span is dropped if it "answers a question the sentence outside has already answered" (`matcher.py:936`) | the columns are compared (`service.py:171`) before one of a value's columns is chosen (`service.py:184`): of "tier elite (mass)", 'mass' goes because 'elite' has its column too, and 'elite' then filters the other |
| `SqlChecks!ComputedColumnsAreSkipped` | "columns qualified by a CTE alias are skipped" (`_validate_columns_exist`) | aliases are one map for the statement and a CTE binds none: a CTE under an alias that a table has elsewhere is checked against that table |

Further divergences met while modelling, which no run states: `execute_error` reports
a planned statement that never ran as the `sql` the README calls executed;
`out_of_scope_answer` reports a denial beside a substitution, which `planning_nodes.py:196`
says "cannot both be true"; the error of
a turn that fails while it streams is one more delta after half an answer, where
`copilot_ask_flow.md` speaks of a single one; a turn that fails leaves no row in the
access log, where it speaks of one row per request; adopting an option of another
category level can take a plan past `lookup_max_slots_per_question`; of two stores with
one label the first is filtered by, whichever was chosen.

In the conversation: two overlapping turns of one thread lose each other's history (the
later write stands); an original question that itself looks like a short reply, or a
long reply that does not, is taken for the other; a turn waits up to `psycopg_pool`'s own
timeout for a connection, which `api_timeout` does not cover.

In the matching and loading of names: an option that is part of a division also on the
list is left out though it scored better, and the option window is measured without it,
so that the best score of all may not be offered (`SilentOnlyIfAlone` excepts the parts);
`build_lookup_rows` skips an OpCo if the third
element of its roster entry is set (`load_reference_data.py:422`), which has since become a
business domain that all have, so no `opco` rows are loaded (`PhraseMatch`'s are those
the tests build); an OpCo that the roster lacks gives five values for four places and aborts
the load; `main()` imports a `clear_opco_attribute_index` that does not exist, swallows
the `ImportError` and clears no cache, which would be the loader's own process's at any
rate; category keys shift when a category is added, and a dictionary or a plan from
before means others by them until the service restarts (`SETUP.md:309`);
`visible_rows` and `hidden_money_columns` have no caller; the glossary's CSV fallback skips
the checks of `load_glossary`; the graph keeps the glossary it was built with
(`copilot_graph.py:26`) while the validator reads it afresh.

In the validation of SQL: the shape guard's month pattern knows `=` and `BETWEEN` but not
`>=` and `<`, so that a right statement which counts customers, filters days and gives its
months so is refused (`MonthsByRange` excepts it); an identity is told by its name, so
that a name which an identity has in one select and something else in another is refused
(`IdentityByName` excepts it); a count
over a CTE that is not collapsed to customers, `COUNT(*)` on traits over several
months, and a count over sources that are not joined on the customer, pass; in a union or with a CTE one bounded view lets another scan all history; a
join on the month, or `MAX` of it, satisfies the validator's period rule; the WHERE text
of a CTE without `GROUP BY` runs on into the outer select. `CustomersAreCountedOnce` and
`AScanIsBounded` state what the rules achieve for the other statements.

Every property of a passing run has a seeded bug in `PROJECT.json` that it finds.

### Fairness

`CopilotTurn!FairSpec` asks weak fairness of a turn's steps, `Node` or `Fail`: the
graph goes on or `api_timeout` ends it (`asyncio.wait_for` in `run`). `Cancel` and
`Ask` are the client's and need not happen.

`AskStream!ServedSpec` asks it of the generator, which the event loop schedules and
whose heartbeat wakes it, and of the unwinding of a cancelled task, into which asyncio
throws `CancelledError`. It asks nothing of the turn's own work or of the client, so
`HangUpEndsTheTurn` and `SentinelEndsTheResponse` hold for a turn that hangs.
`FairSpec` adds the turn, which `api_timeout` ends.

`Conversation!FairSpec` asks weak fairness of `Connect`, since the pool hands a free
connection to its first waiting client, and of `Fail` of each turn, since
`wait_for(api_timeout)` ends a turn that has its connection; `GiveUp` is not needed.

`LlmGateway!FairSpec` asks it of a call's steps and of the reading thread: threads and
event loop are scheduled, a request to the provider returns or raises, and a
provider's stream ends. For OpenAI `llm_timeout_seconds` says so (`llm_service.py:518`);
for Gemini the code sets no timeout (`llm_service.py:273`), and it is an assumption
about the SDK: `api_timeout` would end the turn, not the thread. It asks nothing of `Start`,
`Cancel` and `Expire`.

## 4. Proofs

TLAPS proves, for every value of the constants that satisfies their assumptions:

* **CopilotTurn_proofs.** From `TurnAssumption` (the budgets are naturals, the history
  holds a turn) and `NoneAssumption` (`None` is no statement, code, response or set of
  notices). None of the safety properties is inductive. That an answer shows the last
  run needs to be known at `analyze_result` and at `save_turn`, through which the
  reply passes; that only accepted SQL runs needs it at `execute_sql`; the budget needs
  `calls = retryCount` at each plan. So `IInv` says what holds *at each node*:
  `CleanStart` (before the plan nothing has happened), `RoundsCounted` (calls and runs
  against `retry_count`), `StatementsMatch` (what is validated, run, analysed and
  shown is one statement), `PoliciesSettled` (which notices and refusals are due) and
  `RepliesFit` (the result fits what the turn did, and the contract). Each conjunct has
  a lemma `...Step` with a step per node. From `Inductive` follow the nine invariants,
  `ReplanReachesPlanning`, and `ImplementsContract`: every step of the graph is a step
  of `TurnContract` or a stutter.
* **AskStream_proofs.** From `StreamAssumption` (a queue of at least one). `IInv`
  adds to the type what the queue looks like (`QueueShape`: the sentinel is last and
  only after the task has stopped), what a generator past its loop knows (`PastLoop`),
  that frames and queue together are the stream of pieces (`StreamKept`) and which
  endings were sent (`Endings`); `Unwinding` gives `NoWorkAfterClose`. So no piece is
  lost or reordered whatever the capacity.
* **SqlExecution_proofs**, of the statement and of the session it runs in. For
  `SqlChecks`, from `StatementsAssumption` (a statement is one of the trees, a select or a
  union of two),
  `ColumnsAssumption` (the glossary has the columns of the tables only; a view has the
  period column it is filtered by and no other, and customers are in the customer views
  alone: as `v3_ddl.py` and `data/v3_column_glossary.csv` have it) and `RowsAssumption`
  (traits have one row for a customer and a month). `CheckIInv` is short: a statement that
  runs obeys all rules, one that was sent back disobeys the rule it stopped at. The rest is
  what the rules achieve for *any* tree. `BoundSomewhere` and `BoundToItsTable` show that
  the one map of aliases finds a table for each alias, and its own where an alias stands
  for one; `ColumnsTheirs` follows, and with it `ScansBounded`: the guard has seen a period
  column, the tables are allowed, and the check of columns leaves that column to a view
  that is filtered by it. `RightPass` takes a rule at a time: `RightHasAPeriod`,
  `RightReturnsNoIdentity`, `RightColumnsExist`, and `RightShape`, which needs that a
  counted customer comes from a monthly view in the end, through whatever CTE.
  `CustomersCountedOnce` goes by rows: a source has one row for a customer (`OneKey`: what
  the CTE collapses on, or traits at one month), all sources of a combination show one
  customer (`OneCustomer`), so that the customer fixes the combination.
  For `SessionScope`, from `ScopeAssumption`: `IInv` has what a rollback returns to
  (`Clean`), the settings assembled so far at each place of the entry (`Entering`), and
  what is in force and marked inside the scope (`InForce`). So SQL runs as its caller
  and the connection goes back clean for every number of attempts and requests.
* **EntityPlan_proofs.** From `SpanAssumption`, `StoreAssumption` and
  `BoundsAssumption`. Everything the code takes with `min`, `[0]` or an index is a
  `CHOOSE`, so the lemmas first show that it exists: `LeastNumber` for the best option,
  the next span, the slot asked first and the store of a label, and `NthExists` (options
  without ties are counted by as many numbers as there are) for a numbered reply. Then
  one slot is followed through `CarriedSlot`, `AdoptedSlot`, `PinnedSlot` and `NewSlot`.
  `IInv` adds to the type that the slots are numbered within the list (`Numbered`), that
  the spans to come fit (`Room`) and what an option list keeps of the dictionary
  (`Sound`): no ties, and no OpCo among the options of an exact slot. That last fact is
  what makes `OptionsRespectPin` hold: a pinned slot fixes no further OpCo, so lists
  filtered earlier in the same pass need no second one. `NoSilentGuess` needs to know
  in addition that an open list holds every candidate of each OpCo it has an option of
  (`DrawnFrom`), and holds for dictionaries that satisfy `LabelsOfOneOpCo`, as the
  labels of `data/store_name.csv` do: otherwise a store could come back from the payload
  as another OpCo's.

* **LlmGateway_proofs.** From `GatewayAssumption` (bounds are naturals, `None` is no
  content and no caller). `OneCacheAtATime` counts: of the contents ever created all
  but the registry's have been evicted (`KeptOrEvicted`). That a creation keeps the
  count needs an empty registry where one is made, and that one caller at a time is
  there, which is what the second look under the lock is for (`Locked`).
  `StreamIsWhole` follows the queue of a stream: what the caller has is the beginning of
  what was read, the queue has the rest in order and, once the thread has ended, how
  (`StreamShape`); callers that have gone are excepted (`GoneStops`). This holds for any
  number of callers, calls and pieces.
* **Conversation_proofs.** From `ConversationAssumption`. Turns of one thread write over
  each other's history, so what is said of the checkpoint must hold of every copy a turn
  works on. `Sound` says it of one history: user and assistant messages in pairs, but for
  a pair cut by the limit; no item twice; a message continues the chain that the reply
  before it left open, or starts one; and once a chain is over nothing later belongs to
  it, neither a turn nor what a turn's lookup plan was made of. That trimming, abandoning
  a window and appending a turn keep it is most of the proof; the window's start is a
  maximum, which `LeastNumber` shows to exist. `Following` says where a running turn's
  chain comes from, `Beside` who has overlapped, `Staying` follows an answered turn and
  `Dropping` an abandoned chain through all copies, as long as the turn they depend on
  ran alone; `RecoversTheQuestion` needs no more than `Sound` of what `LoadContext` reads.
* **PhraseMatch_proofs.** From `SettingsAssumption`, `RowAssumption`, `WordsAssumption`
  (similarities are percentages, columns have places) and `LabelsAssumption` (a category
  has a name for each level, a key one node, an enum value its own label), for any
  catalogue, vocabulary, question and scores. `LongestNameWins` is about names that were
  *not* taken, and at the end the loop's reason is gone; `Taken` keeps it: a name whose
  words have been read in part has a span against it that is longer, or as long and
  further left. Spans are only removed when the brand of an OpCo swallows them, and then
  the words are absorbed. `Guessed` says the same for guesses: what they are read from,
  that it is apart from the exact names, is no filler or word of the schema and is what the
  router lets be guessed. `WordsAreReadOnce` is a corollary no run checks: exact and guessed
  spans of a question never share a word.

  The other properties are about lists of candidates. Lists are defined by the place of each
  member, so no induction over them is needed: `Sorted` says that a finite set with a total
  order of keys has every place taken once, `PartIs` that a filtered list keeps members and
  order, `ScoreIs` that every score is a natural number, whatever the weights of the words.
  `OptionsAre` then accounts for one scored row at a time: it is on the list, or its thing
  is, or a category it is part of, or it is beyond the window or the cap; `NamesSettle` and
  `GuessSettles` do so for what collapsing categories, choosing a column and removing
  duplicates make of a span. `Read` carries this through the passes: a name's
  candidates are the rows that go by it, ranked, a guess's the options of its words, and the
  result is what `Arbitrate` computes of both. From it follow `TypeCorrect`, `NamesAreKept`,
  `ChoicesAreOffered`, `SilenceIsSafe` and `NoColumnIsLost`.
* **ReferenceData_proofs.** From `PlaceAssumption` (categories are ordered by name: no two
  have one place), `WordsAssumption` (no blank names anything), `FilesAssumption` and those of
  `Glossary`. A key is the number of paths
  before its own; the order of paths is strict and total, so keys depend on the *set* of a
  catalogue's paths and no two paths share one, whatever the file's order and repetitions.
  `IInv` then says of what the tables, the dictionaries and a settled plan hold that each
  is of some catalogue: `KeysAreStable` follows. `ValuesAreNoNames` needs of the lookup
  rows that they were built in one run from the same categories and stores (`Loaded`),
  with the values of whichever glossary that run found. `GlossaryAndViewsAgree` compares
  the two derivations of a view's columns for any table schema that
  `ColumnsAssumption` and `SourcesAssumption` admit: both are the base table's columns,
  as far as the role sees and the view projects them, and the computed ones.
  `FilesAssumption` says of the seed files what the proof uses: four levels to a record, a
  glossary row for a column its table has, and money and executives' rows as
  `MoneyColumns` has them, as is so in `data/v3_column_glossary.csv`.

So every invariant and action property that a run checks is a theorem. Only model-checked
is liveness: `TurnEnds`, `HangUpEndsTheTurn`, `SentinelEndsTheResponse`, `WaitingEnds` and
`NothingHangs`, since the prover does not treat fairness or `ENABLED`.

## 5. Not modelled

* Functions of text whose results are inputs of the modules: which metric a question
  asks for, the scored search of the glossary and its aliases, `difflib`, the options a
  reply is searched for in (`extract_selected_lookup_option`; `EntityPlan!Says` stands
  for it), the advice in a validator's message.
* Prompts, wording, charts, currency and time formatting: no decision depends on them.
* The requests to the provider themselves, retries and token counts of the SDKs.
* When FastAPI closes a request's session while its cancelled task still unwinds: the
  framework's code, which the repository does not show.
* Partitions, grants and indexes of the migrations, which run once; the metric loader,
  which has the glossary loader's shape; mock data and evaluation scripts, run by hand.
* CTEs within CTEs, unions of more than two (of which the identity rule sees the last
  branch alone), functions in an ORDER BY, and conditions other than conjunctions in
  `SqlChecks`; option lists of one in `PhraseMatch`.

## 6. Plan

In this order, the most important behaviour first; all of it is done.

1. `TurnContract`, `CopilotTurn` and their proofs.
2. `AskStream` and its proofs.
3. `SessionScope` and its proofs.
4. `EntityPlan` and its proofs.
5. `Conversation`, with overlapping turns and the checkpoint pool.
6. `LlmGateway`.
7. `EntityDictionary` and `PhraseMatch`; `SqlChecks`.
8. `Glossary` and `ReferenceData`, with the dictionary's cache.
9. Proofs about these: `LlmGateway`, `Conversation`, `ReferenceData`, and `PhraseMatch` up to
   its guesses.
10. The option lists of `PhraseMatch`, and what the rules of `SqlChecks` achieve.

What could come next is in section 5.
