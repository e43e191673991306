------------------------------ MODULE CopilotTurn ------------------------------
(***************************************************************************)
(* The LangGraph state machine that serves one turn of a conversation      *)
(* (app/graph/copilot_graph.py and app/graph/nodes/), turn after turn on   *)
(* one checkpoint thread.  One action is one node of the graph together    *)
(* with the conditional edge that leaves it: LangGraph evaluates the edge  *)
(* on the state the node has just written, in the same superstep.          *)
(*                                                                         *)
(* The language models are nondeterministic choices over the outcomes the  *)
(* code accepts from them.  The checkpointed state survives a turn that is *)
(* cut short (a timeout, an exception, a client that goes away), so every  *)
(* turn starts on whatever the last one left behind.                       *)
(***************************************************************************)
EXTENDS Integers, Sequences

CONSTANTS
  Statements,    \* the SQL statements the planner can write, up to layout
  MaxRetries,    \* settings.max_sql_retries
  HistoryTurns,  \* turns that settings.chat_history_limit messages hold
  MaxTurns,      \* bound on the turns of the thread
  None           \* Python's None, and "no reply"

ASSUME TurnAssumption ==
  /\ MaxRetries \in Nat
  /\ HistoryTurns \in Nat \ {0}
  /\ MaxTurns \in Nat

VARIABLES
  node,             \* the node about to run, "idle" between turns
  turn,             \* turns started
  role,             \* principal.role_level, part of the thread's key
  asked,            \* what the turn's question asks of money (withheld_for)
  accepted,         \* statements both validators pass for this question
  history,          \* the assistant payloads kept in the checkpoint
  prev,             \* previous_assistant_payload
  followup,         \* clarification_followup
  route,
  lookupNeeds,      \* lookup_needs_clarification
  applied,          \* applied_policies
  outReason,        \* out_of_scope_reason is set
  outCode,          \* out_of_scope_code
  sql,
  planStatus,       \* plan_status
  cause,            \* unsupported_cause
  validationError,  \* validation_error is set
  executionError,   \* execution_error is set
  retryCount,       \* retry_count
  rows,             \* the statement whose rows rows_payload holds
  result,
  reply,            \* what run() returned for the turn
  calls,            \* history variable: planner calls of this turn
  executed          \* history variable: statements this turn ran

inputVars == <<role, asked, accepted>>
contextVars == <<history, prev, followup>>
lookupVars == <<route, lookupNeeds, applied, outReason, outCode>>
planVars == <<sql, planStatus, cause>>
runVars == <<validationError, executionError, retryCount, rows>>
ghostVars == <<calls, executed>>
vars == <<node, turn, inputVars, contextVars, lookupVars, planVars, runVars,
          result, reply, ghostVars>>
-----------------------------------------------------------------------------
(* Values *)

Types == {"analytics", "glossary", "smalltalk", "clarify", "unsupported",
          "out_of_scope", "error"}
Routes == {"answer_from_previous", "plan_sql", "glossary", "smalltalk", "clarify"}
Codes == {"customer_identity", "role_money_withheld"}
Effects == {"denied", "substituted"}
Nodes == {"idle", "reset_turn_state", "load_context", "classify_intent",
          "answer_from_previous", "glossary_answer", "smalltalk_answer",
          "resolve_lookup_entities", "clarify_from_lookup",
          "out_of_scope_answer", "make_plan", "unsupported_from_plan",
          "clarify_from_plan", "validate_sql", "execute_sql", "analyze_result",
          "retry_sql", "execute_error", "synthesize", "save_turn", "END"}

Policy == [code : Codes, effect : Effects]
Denial(code) == [code |-> code, effect |-> "denied"]
Substitution == [code |-> "role_money_withheld", effect |-> "substituted"]

(* A response: rows is the statement whose rows it carries, and policies   *)
(* is None while the terminal has left them to save_turn.                  *)
Response(type, statement, data, policies) ==
  [type |-> type, sql |-> statement, rows |-> data, policies |-> policies]
Responses == [type : Types, sql : Statements \union {None},
              rows : Statements \union {None},
              policies : (SUBSET Policy) \union {None}]

ASSUME NoneAssumption ==
  /\ None \notin Statements \union Codes \union Responses
  /\ \A p \in SUBSET Policy : p # None

(* A statement given to run_sql, and whether it returned rows. *)
Runs == [sql : Statements, ok : BOOLEAN]

(* The part of the history the limit keeps. *)
Recent(h) ==
  IF Len(h) > HistoryTurns THEN SubSeq(h, Len(h) - HistoryTurns + 1, Len(h)) ELSE h

LastOf(h) == IF h = <<>> THEN None ELSE h[Len(h)]
-----------------------------------------------------------------------------
Init ==
  /\ node = "idle" /\ turn = 0
  /\ role \in {"HOD", "EXEC"}
  /\ asked = "volume" /\ accepted = {}
  /\ history = <<>> /\ prev = None /\ followup = FALSE
  /\ route = None /\ lookupNeeds = FALSE /\ applied = {}
  /\ outReason = FALSE /\ outCode = None
  /\ sql = None /\ planStatus = None /\ cause = "not_answerable"
  /\ validationError = FALSE /\ executionError = FALSE /\ retryCount = 0
  /\ rows = None
  /\ result = None /\ reply = None
  /\ calls = 0 /\ executed = <<>>

(* run() invokes the graph on the thread with the request's query.  The    *)
(* question, and so what the validators accept for it, is the caller's.    *)
Ask ==
  /\ node = "idle" /\ turn < MaxTurns
  /\ node' = "reset_turn_state"
  /\ turn' = turn + 1
  /\ accepted' \in SUBSET Statements
  /\ asked' \in {"volume", "twin", "money"}
  /\ reply' = None
  /\ calls' = 0 /\ executed' = <<>>
  /\ UNCHANGED <<role, contextVars, lookupVars, planVars, runVars, result>>

(* A bug: the notices of the last turn survive the reset. *)
ClearLookupKeepingNotices ==
  /\ route' = None /\ lookupNeeds' = FALSE /\ UNCHANGED applied
  /\ outReason' = FALSE /\ outCode' = None

(* What reset_turn_state clears: routing and policies, then the plan and   *)
(* its run.                                                                *)
ClearLookup ==
  /\ route' = None /\ lookupNeeds' = FALSE /\ applied' = {}
  /\ outReason' = FALSE /\ outCode' = None

ClearRun ==
  /\ sql' = None /\ planStatus' = None /\ cause' = "not_answerable"
  /\ validationError' = FALSE /\ executionError' = FALSE /\ retryCount' = 0
  /\ rows' = None /\ result' = None

(* Clears every field that belongs to one turn, whatever the checkpoint    *)
(* restored: the previous turn may have been cut short anywhere.           *)
ResetTurnState ==
  /\ node = "reset_turn_state"
  /\ node' = "load_context"
  /\ prev' = None /\ followup' = FALSE
  /\ ClearLookup /\ ClearRun
  /\ UNCHANGED <<turn, inputVars, history, reply, ghostVars>>

(* n payloads precede the chain of clarifications that ends the history. *)
ChainStartsAfter(h, n) ==
  /\ n > 0 => h[n].type # "clarify"
  /\ \A i \in (n + 1)..Len(h) : h[i].type = "clarify"

(* Decides how the turn relates to the last one.  A pending clarification  *)
(* is answered (a follow-up), kept without being answered, or abandoned:   *)
(* abandoning removes its whole chain from the checkpointed history.       *)
LoadContext ==
  /\ node = "load_context"
  /\ node' = "classify_intent"
  /\ LET kept == Recent(history)
         last == LastOf(kept)
         pending == last # None /\ last.type = "clarify"
     IN \/ /\ history' = kept /\ prev' = last
           /\ followup' \in {FALSE, pending}
        \/ /\ pending
           /\ \E n \in 0..Len(kept) :
                /\ ChainStartsAfter(kept, n)
                /\ history' = SubSeq(kept, 1, n)
           /\ prev' = None /\ followup' = FALSE
  /\ UNCHANGED <<turn, inputVars, lookupVars, planVars, runVars, result, reply, ghostVars>>

(* The router is skipped for an answer to a clarification. *)
ClassifyIntent ==
  /\ node = "classify_intent"
  /\ route' \in IF followup THEN {"plan_sql"} ELSE Routes
  /\ node' = CASE route' = "answer_from_previous" -> "answer_from_previous"
               [] route' = "glossary" -> "glossary_answer"
               [] route' = "smalltalk" -> "smalltalk_answer"
               [] OTHER -> "resolve_lookup_entities"
  /\ UNCHANGED <<turn, inputVars, contextVars, lookupNeeds, applied, outReason, outCode,
                 planVars, runVars, result, reply, ghostVars>>

(* A reused answer shows the statement and rows of the previous payload. *)
Reused(payload) ==
  IF payload = None THEN Response("analytics", None, None, None)
  ELSE Response("analytics", payload.sql, payload.rows, None)

(* A bug: a follow-up that needs fresh data is classified again. *)
RouteAfterReuseAgain(chosen, done) ==
  IF chosen = "plan_sql" /\ done = None THEN "classify_intent" ELSE "save_turn"

RouteAfterReuse(chosen, done) ==
  IF chosen = "plan_sql" /\ done = None THEN "resolve_lookup_entities" ELSE "save_turn"

(* Reuses the previous payload or asks for a new plan. *)
AnswerFromPrevious ==
  /\ node = "answer_from_previous"
  /\ \/ /\ route' = "plan_sql"
        /\ UNCHANGED result
     \/ result' = Reused(prev) /\ UNCHANGED route
  /\ node' = RouteAfterReuse(route', result')
  /\ UNCHANGED <<turn, inputVars, contextVars, lookupNeeds, applied, outReason, outCode,
                 planVars, runVars, reply, ghostVars>>

(* With nothing in the glossary to explain, the fallback is a clarification. *)
GlossaryAnswer ==
  /\ node = "glossary_answer"
  /\ node' = "save_turn"
  /\ result' \in {Response("glossary", None, None, None),
                  Response("clarify", None, None, None)}
  /\ UNCHANGED <<turn, inputVars, contextVars, lookupVars, planVars, runVars, reply, ghostVars>>

SmalltalkAnswer ==
  /\ node = "smalltalk_answer"
  /\ node' = "save_turn"
  /\ result' = Response("smalltalk", None, None, None)
  /\ UNCHANGED <<turn, inputVars, contextVars, lookupVars, planVars, runVars, reply, ghostVars>>

(* A bug: the answer to a clarification skips the money check. *)
WithheldUnlessFollowup == IF role = "HOD" \/ followup THEN "volume" ELSE asked

(* What withheld_for finds: nothing for a caller who sees money, else the  *)
(* money measure the question asks for, with or without a volume twin.     *)
Withheld == IF role = "HOD" THEN "volume" ELSE asked

RouteAfterLookup(refused, needs) ==
  IF refused THEN "out_of_scope_answer"
  ELSE IF needs THEN "clarify_from_lookup" ELSE "make_plan"

(* The money check comes before the entities are resolved; a resolver that *)
(* fails blocks planning by asking for clarification.                      *)
ResolveLookupEntities ==
  /\ node = "resolve_lookup_entities"
  /\ \/ /\ Withheld = "money"
        /\ outReason' = TRUE /\ outCode' = "role_money_withheld"
        /\ lookupNeeds' = FALSE
        /\ UNCHANGED applied
     \/ /\ Withheld # "money"
        /\ applied' = IF Withheld = "twin" THEN applied \union {Substitution} ELSE applied
        /\ lookupNeeds' \in BOOLEAN
        /\ UNCHANGED <<outReason, outCode>>
  /\ node' = RouteAfterLookup(outReason', lookupNeeds')
  /\ UNCHANGED <<turn, inputVars, contextVars, route, planVars, runVars, result, reply,
                 ghostVars>>

ClarifyFromLookup ==
  /\ node = "clarify_from_lookup"
  /\ node' = "save_turn"
  /\ result' = Response("clarify", None, None, applied)
  /\ UNCHANGED <<turn, inputVars, contextVars, lookupVars, planVars, runVars, reply, ghostVars>>

(* A plan after _normalize_plan: a statement only when answerable, a cause *)
(* only when unsupported.  `dated` says the planner did not invent the     *)
(* period and the statement filters on one; `explained` that an            *)
(* unsupported plan says why.                                              *)
Plans ==
  [status : {"answerable"}, sql : Statements, cause : {"not_answerable"},
   dated : BOOLEAN, explained : {FALSE}]
  \union
  [status : {"needs_clarification"}, sql : {None}, cause : {"not_answerable"},
   dated : {TRUE}, explained : {FALSE}]
  \union
  [status : {"unsupported"}, sql : {None}, cause : {"not_answerable", "customer_identity"},
   dated : {TRUE}, explained : BOOLEAN]

(* A bug: an identity question ends as a plain unsupported one. *)
RouteAfterPlanPlain(status, why, statement) ==
  IF status = "unsupported" THEN "unsupported_from_plan"
  ELSE IF status = "needs_clarification" \/ statement = None
  THEN "clarify_from_plan" ELSE "validate_sql"

RouteAfterPlan(status, why, statement) ==
  IF status = "unsupported"
  THEN IF why = "customer_identity" THEN "out_of_scope_answer" ELSE "unsupported_from_plan"
  ELSE IF status = "needs_clarification" \/ statement = None
  THEN "clarify_from_plan" ELSE "validate_sql"

MakePlan ==
  /\ node = "make_plan"
  /\ calls' = calls + 1
  /\ \E plan \in Plans :
       /\ cause' = plan.cause
       /\ IF plan.dated
          THEN /\ sql' = plan.sql /\ planStatus' = plan.status
               /\ outReason' = (plan.cause = "customer_identity" /\ plan.explained)
               /\ outCode' = IF plan.cause = "customer_identity" THEN plan.cause ELSE None
          ELSE /\ sql' = None /\ planStatus' = "needs_clarification"
               /\ UNCHANGED <<outReason, outCode>>
  /\ validationError' = FALSE /\ executionError' = FALSE
  /\ node' = RouteAfterPlan(planStatus', cause', sql')
  /\ UNCHANGED <<turn, inputVars, contextVars, route, lookupNeeds, applied, retryCount,
                 rows, result, reply, executed>>

(* A plan refused as unanswerable substituted nothing. *)
UnsupportedFromPlan ==
  /\ node = "unsupported_from_plan"
  /\ node' = "save_turn"
  /\ result' = Response("unsupported", None, None,
                 {p \in applied : p.effect # "substituted"} \union
                 (IF cause = "customer_identity" THEN {Denial(cause)} ELSE {}))
  /\ UNCHANGED <<turn, inputVars, contextVars, lookupVars, planVars, runVars, reply, ghostVars>>

ClarifyFromPlan ==
  /\ node = "clarify_from_plan"
  /\ node' = "save_turn"
  /\ result' = Response("clarify", None, None, None)
  /\ UNCHANGED <<turn, inputVars, contextVars, lookupVars, planVars, runVars, reply, ghostVars>>

OutOfScopeAnswer ==
  /\ node = "out_of_scope_answer"
  /\ node' = "save_turn"
  /\ result' = Response("out_of_scope", None, None,
                 applied \union (IF outCode # None THEN {Denial(outCode)} ELSE {}))
  /\ UNCHANGED <<turn, inputVars, contextVars, lookupVars, planVars, runVars, reply, ghostVars>>

(* A bug: off by one in the retry budget. *)
RetryOrOnceMore(giveUp) == IF retryCount <= MaxRetries THEN "retry_sql" ELSE giveUp

RetryOr(giveUp) == IF retryCount < MaxRetries THEN "retry_sql" ELSE giveUp

(* A bug: the last attempt runs whatever the validators say. *)
RouteAfterValidateLastChance(failed) ==
  IF outReason THEN "out_of_scope_answer"
  ELSE IF ~failed \/ retryCount = MaxRetries THEN "execute_sql" ELSE RetryOr("execute_error")

RouteAfterValidate(failed) ==
  IF outReason THEN "out_of_scope_answer"
  ELSE IF ~failed THEN "execute_sql" ELSE RetryOr("execute_error")

ValidateSql ==
  /\ node = "validate_sql"
  /\ validationError' = (sql \notin accepted)
  /\ node' = RouteAfterValidate(validationError')
  /\ UNCHANGED <<turn, inputVars, contextVars, lookupVars, planVars, executionError,
                 retryCount, rows, result, reply, ghostVars>>

(* A bug: once the budget is spent, whatever rows there are get analysed. *)
RouteAfterExecuteAnyRows(failed) == IF failed THEN RetryOr("analyze_result") ELSE "analyze_result"

RouteAfterExecute(failed) ==
  IF failed THEN RetryOr("execute_error") ELSE "analyze_result"

(* run_sql returns the rows, or a payload that carries the error; an       *)
(* exception around it leaves rows_payload as it was.                      *)
ExecuteSql ==
  /\ node = "execute_sql"
  /\ \/ executionError' = FALSE /\ rows' = sql
     \/ executionError' = TRUE /\ rows' \in {None, rows}
  /\ executed' = Append(executed, [sql |-> sql, ok |-> ~executionError'])
  /\ node' = RouteAfterExecute(executionError')
  /\ UNCHANGED <<turn, inputVars, contextVars, lookupVars, planVars, validationError,
                 retryCount, result, reply, calls>>

RetrySql ==
  /\ node = "retry_sql"
  /\ node' = "make_plan"
  /\ retryCount' = retryCount + 1
  /\ UNCHANGED <<turn, inputVars, contextVars, lookupVars, planVars, validationError,
                 executionError, rows, result, reply, ghostVars>>

ExecuteError ==
  /\ node = "execute_error"
  /\ node' = "save_turn"
  /\ result' = Response("error", sql, None, applied)
  /\ UNCHANGED <<turn, inputVars, contextVars, lookupVars, planVars, runVars, reply, ghostVars>>

AnalyzeResult ==
  /\ node = "analyze_result"
  /\ node' = "synthesize"
  /\ UNCHANGED <<turn, inputVars, contextVars, lookupVars, planVars, runVars, result, reply,
                 ghostVars>>

Synthesize ==
  /\ node = "synthesize"
  /\ node' = "save_turn"
  /\ result' = Response("analytics", sql, rows, applied)
  /\ UNCHANGED <<turn, inputVars, contextVars, lookupVars, planVars, runVars, reply, ghostVars>>

(* A response whose terminal left the notices open gets those of the turn. *)
Completed(r) == IF r.policies = None THEN [r EXCEPT !.policies = applied] ELSE r

(* Completes the notices, appends the turn to the history and trims it.    *)
SaveTurn ==
  /\ node = "save_turn"
  /\ node' = "END"
  /\ result' = Completed(result)
  /\ history' = Recent(Append(history, result'))
  /\ UNCHANGED <<turn, inputVars, prev, followup, lookupVars, planVars, runVars, reply,
                 ghostVars>>

(* The graph has ended: run() closes the scope, logs and returns.          *)
Return ==
  /\ node = "END"
  /\ node' = "idle"
  /\ reply' = result
  /\ UNCHANGED <<turn, inputVars, contextVars, lookupVars, planVars, runVars, result,
                 ghostVars>>

(* The statement the usage tracker saw last. *)
TrackedSql == IF executed = <<>> THEN None ELSE executed[Len(executed)].sql

(* A timeout, or an exception no node catches, or one while the scope      *)
(* closes: the supersteps already checkpointed stay, and the caller gets   *)
(* run()'s own error.                                                      *)
Fail ==
  /\ node # "idle"
  /\ node' = "idle"
  /\ reply' = Response("error", TrackedSql, None, {})
  /\ UNCHANGED <<turn, inputVars, contextVars, lookupVars, planVars, runVars, result,
                 ghostVars>>

(* The client goes away: the run is cancelled and nobody gets a reply. *)
Cancel ==
  /\ node # "idle"
  /\ node' = "idle"
  /\ UNCHANGED <<turn, inputVars, contextVars, lookupVars, planVars, runVars, result, reply,
                 ghostVars>>

Node ==
  \/ ResetTurnState \/ LoadContext \/ ClassifyIntent \/ AnswerFromPrevious
  \/ GlossaryAnswer \/ SmalltalkAnswer \/ ResolveLookupEntities \/ ClarifyFromLookup
  \/ MakePlan \/ UnsupportedFromPlan \/ ClarifyFromPlan \/ OutOfScopeAnswer
  \/ ValidateSql \/ ExecuteSql \/ RetrySql \/ ExecuteError
  \/ AnalyzeResult \/ Synthesize \/ SaveTurn \/ Return

Next == Ask \/ Node \/ Fail \/ Cancel

Spec == Init /\ [][Next]_vars

(* A node finishes, or wait_for() around the graph ends the turn. *)
FairSpec == Spec /\ WF_vars(Node \/ Fail)
-----------------------------------------------------------------------------
(* Correctness *)

ThreadTypes ==
  /\ node \in Nodes /\ turn \in 0..MaxTurns
  /\ role \in {"HOD", "EXEC"} /\ asked \in {"volume", "twin", "money"}
  /\ accepted \in SUBSET Statements
  /\ history \in Seq(Responses) /\ prev \in Responses \union {None}
  /\ followup \in BOOLEAN

DecisionTypes ==
  /\ route \in Routes \union {None} /\ lookupNeeds \in BOOLEAN
  /\ applied \in SUBSET Policy
  /\ outReason \in BOOLEAN /\ outCode \in Codes \union {None}
  /\ sql \in Statements \union {None}
  /\ planStatus \in {"answerable", "needs_clarification", "unsupported", None}
  /\ cause \in {"not_answerable", "customer_identity"}

RunTypes ==
  /\ validationError \in BOOLEAN /\ executionError \in BOOLEAN
  /\ retryCount \in 0..MaxRetries
  /\ rows \in Statements \union {None}
  /\ result \in Responses \union {None} /\ reply \in Responses \union {None}
  /\ calls \in Nat
  /\ executed \in Seq(Runs)

TypeOK == ThreadTypes /\ DecisionTypes /\ RunTypes

(* However often the plan is retried, no statement reaches the database    *)
(* that the validators did not pass for this turn's question (validate_sql *)
(* and route_after_validate before execute_sql, on every round).           *)
OnlyCheckedSqlRuns == \A i \in DOMAIN executed : executed[i].sql \in accepted

(* Validation failures and execution failures share one budget: a turn     *)
(* plans at most 1 + max_sql_retries times, runs no more statements than   *)
(* it planned, and runs none after one that succeeded.                     *)
RetryBudget ==
  /\ Len(executed) <= calls /\ calls <= MaxRetries + 1
  /\ \A i \in 1..(Len(executed) - 1) : ~executed[i].ok

Backed(r) == r.rows # None => r.type = "analytics" /\ r.rows = r.sql

(* The rows an answer carries are those of the statement it shows, for a   *)
(* fresh answer and for one that reuses the previous payload, in the reply *)
(* and in all that later turns can read; no other response carries rows.   *)
RowsBelongToSql ==
  /\ \A i \in DOMAIN history : Backed(history[i])
  /\ \A r \in {prev, result, reply} \ {None} : Backed(r)

(* An answer computed this turn shows the last statement run, and that one *)
(* succeeded: rows left by a failed attempt never reach synthesize.        *)
AnswerIsTheLastRun ==
  reply # None /\ reply.type = "analytics" /\ executed # <<>> =>
    /\ executed[Len(executed)] = [sql |-> reply.sql, ok |-> TRUE]
    /\ reply.rows = reply.sql

(* What the caller was told is what the next turn reads as the previous    *)
(* answer: trimming the history drops the oldest turns, never this one.    *)
(* Only an error may be told without being remembered.                     *)
ReplyIsRemembered ==
  reply # None /\ reply.type # "error" => LastOf(history) = reply

(* An executive's question that only revenue answers is refused before any *)
(* statement is planned or run, also when it comes as a replanned follow-up *)
(* or as the answer to a clarification (resolve_lookup_entities).          *)
MoneyNeverPlanned == role = "EXEC" /\ asked = "money" => calls = 0 /\ executed = <<>>

(* An answer computed with a volume measure in place of revenue says so,   *)
(* after any number of retries, and no other answer claims it: a notice    *)
(* never outlives its turn.                                                *)
SubstitutionReported ==
  reply # None /\ reply.type = "analytics" /\ executed # <<>> =>
    (Substitution \in reply.policies <=> role = "EXEC" /\ asked = "twin")

(* The first plan of a turn is made without feedback, statement, rows or   *)
(* refusal of an earlier turn, however that turn ended (reset_turn_state). *)
FirstPlanStartsClean ==
  node = "make_plan" /\ calls = 0 =>
    /\ ~validationError /\ ~executionError /\ retryCount = 0
    /\ sql = None /\ rows = None /\ ~outReason /\ result = None

(* A follow-up that needs fresh data always goes on to planning: a result  *)
(* left in the checkpoint must not end the turn with the old answer        *)
(* (route_after_answer_from_previous reads both route and result).         *)
ReplanReachesPlanning ==
  [][AnswerFromPrevious /\ route' = "plan_sql" => node' = "resolve_lookup_entities"]_vars

(* Every turn comes to an end, however its plans and statements fail: the  *)
(* graph has no cycle that retryCount does not bound.                      *)
TurnEnds == node # "idle" ~> node = "idle"

(* What the caller can count on, see TurnContract. *)
Contract == INSTANCE TurnContract WITH
  Budget <- MaxRetries + 1,
  Nothing <- None,
  open <- node # "idle",
  tries <- Len(executed),
  good <- executed # <<>> /\ executed[Len(executed)].ok,
  told <- IF reply = None THEN None
          ELSE [type |-> reply.type, effects |-> {p.effect : p \in reply.policies}]

KeepsContract == Contract!Spec
-----------------------------------------------------------------------------
(* The inductive invariant: what holds at each node for the properties     *)
(* above to survive every step.  It is proved in CopilotTurn_proofs.       *)

Opening == {"load_context", "classify_intent", "answer_from_previous", "glossary_answer",
            "smalltalk_answer", "resolve_lookup_entities", "clarify_from_lookup"}
Planned == {"validate_sql", "execute_sql", "retry_sql", "analyze_result", "synthesize",
            "execute_error", "unsupported_from_plan", "clarify_from_plan"}
Unanswered == {"make_plan", "validate_sql", "execute_sql", "retry_sql",
               "unsupported_from_plan", "clarify_from_plan", "out_of_scope_answer"}

NoRowsYet == \A i \in DOMAIN executed : ~executed[i].ok
LastRun == [sql |-> sql, ok |-> TRUE]

(* Before a plan is made the turn has done nothing. *)
CleanStart ==
  /\ node = "reset_turn_state" => calls = 0 /\ executed = <<>>
  /\ node \in Opening =>
       /\ calls = 0 /\ executed = <<>>
       /\ ~validationError /\ ~executionError /\ retryCount = 0
       /\ sql = None /\ rows = None /\ result = None /\ ~outReason
  /\ node = "answer_from_previous" => route = "answer_from_previous"
  /\ FirstPlanStartsClean

(* Each round of the retry loop plans once and runs at most once. *)
RoundsCounted ==
  /\ calls <= MaxRetries + 1 /\ Len(executed) <= calls
  /\ node = "make_plan" => calls = retryCount
  /\ node \in {"validate_sql", "execute_sql", "retry_sql"} => calls = retryCount + 1
  /\ node = "retry_sql" => retryCount < MaxRetries
  /\ node \in {"validate_sql", "execute_sql"} => Len(executed) < calls
  /\ node \in Unanswered => NoRowsYet
  /\ \A i \in 1..(Len(executed) - 1) : ~executed[i].ok

(* What is run is what was validated, and what is told is what was run. *)
StatementsMatch ==
  /\ node \in {"validate_sql", "execute_sql"} => sql \in Statements
  /\ node = "execute_sql" => sql \in accepted
  /\ node \in {"analyze_result", "synthesize"} =>
       rows = sql /\ executed # <<>> /\ executed[Len(executed)] = LastRun
  /\ OnlyCheckedSqlRuns /\ RowsBelongToSql

(* What may be planned and which notices are due is settled on the way. *)
PoliciesSettled ==
  /\ applied \subseteq {Substitution}
  /\ node \in Opening \ {"clarify_from_lookup"} => applied = {}
  /\ node \in Planned \union {"make_plan"} =>
       (Substitution \in applied <=> role = "EXEC" /\ asked = "twin")
  /\ role = "EXEC" /\ asked = "money" =>
       node \notin Planned \union {"make_plan"} /\ calls = 0 /\ executed = <<>>
  /\ node = "out_of_scope_answer" => outCode # None
  /\ node = "unsupported_from_plan" => cause = "not_answerable"
  /\ node = "validate_sql" => ~outReason

(* A response fits what the turn did. *)
Told(r) ==
  /\ r.policies \in SUBSET Policy
  /\ Contract!FitsRun(r.type)
  /\ Contract!FitsNotices(r.type, {p.effect : p \in r.policies})
  /\ r.type = "analytics" /\ executed # <<>> =>
       /\ executed[Len(executed)] = [sql |-> r.sql, ok |-> TRUE]
       /\ r.rows = r.sql
       /\ Substitution \in r.policies <=> role = "EXEC" /\ asked = "twin"

RepliesFit ==
  /\ node = "save_turn" => result # None /\ Told(Completed(result))
  /\ node = "END" => result # None /\ Told(result) /\ LastOf(history) = result
  /\ node # "idle" => reply = None
  /\ reply # None => Told(reply)
  /\ ReplyIsRemembered

IInv == TypeOK /\ CleanStart /\ RoundsCounted /\ StatementsMatch /\ PoliciesSettled /\ RepliesFit
-----------------------------------------------------------------------------
(* What the documentation says and the graph does not do *)

(* The README reports in `policies` every policy that changed what came    *)
(* back; an answer that reuses substituted rows is still a substitution.   *)
ReuseKeepsNotice ==
  reply # None /\ reply.type = "analytics" /\ executed = <<>> /\ prev # None =>
    (Substitution \in prev.policies => Substitution \in reply.policies)
=============================================================================
