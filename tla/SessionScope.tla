------------------------------ MODULE SessionScope ------------------------------
(***************************************************************************)
(* The database session of a request: copilot_scope, the statements        *)
(* run_sql and the entity resolver execute inside it, write_access_log     *)
(* after it, and the pooled connection that the next request gets.         *)
(*                                                                         *)
(* One connection serves the requests one after the other.  PostgreSQL's   *)
(* rules for SET, SET LOCAL and savepoints, and SQLAlchemy's for a         *)
(* connection that is lost or whose statement is cancelled, are taken from *)
(* how the code relies on them; a statement may be refused by the server   *)
(* or lose its connection wherever it is awaited.                          *)
(***************************************************************************)
EXTENDS Naturals

CONSTANTS
  MaxRuns,  \* statements of a turn: 1 + max_sql_retries
  None

ASSUME ScopeAssumption ==
  /\ MaxRuns \in Nat
  /\ None \notin {"HOD", "EXEC"}

VARIABLES
  at,       \* where the request is; "idle": the connection is in the pool
  level,    \* the request's role_level
  session,  \* the connection's settings: what a rollback leaves,
  pending,  \* what a commit leaves,
  current,  \* and what is in force
  mark,     \* the pending and current settings when the savepoint was set
  tx,       \* the session's transaction
  stage,    \* "lookup", then "sql"; "clarify" once the resolver has failed
  runs,     \* statements attempted
  last,     \* how the last statement ended
  outcome,  \* how the request ended
  audit     \* its row of copilot_access_log

request == <<level, stage, runs, last, outcome, audit>>
conf == <<session, pending, current>>
vars == <<at, conf, mark, tx, request>>
-----------------------------------------------------------------------------
(* Roles and schemas *)

Levels == {"HOD", "EXEC"}
Roles == {"login", "ci_loader", "ci_copilot_hod", "ci_copilot_exec"}
Paths == {"default", "ci_hod", "ci_exec"}

PersonaRole(l) == CASE l = "HOD" -> "ci_copilot_hod" [] l = "EXEC" -> "ci_copilot_exec"

(* A bug: every caller's search_path is the fallback. *)
FallbackSchema(l) == IF l \in Levels THEN "ci_exec" ELSE "default"

PersonaSchema(l) == CASE l = "HOD" -> "ci_hod" [] l = "EXEC" -> "ci_exec"

Settings == [role : Roles, level : Levels \union {None}, path : Paths]
Login == [role |-> "login", level |-> None, path |-> "default"]
ScopeOf(l) ==
  [role |-> CASE l = "HOD" -> "ci_copilot_hod" [] l = "EXEC" -> "ci_copilot_exec",
   level |-> l,
   path |-> CASE l = "HOD" -> "ci_hod" [] l = "EXEC" -> "ci_exec"]
-----------------------------------------------------------------------------
(* PostgreSQL's settings.  SET survives a commit, SET LOCAL ends with the  *)
(* transaction, and a rollback undoes both.                                *)

Fresh == session = Login /\ pending = Login /\ current = Login

ResetRole ==
  /\ pending' = [pending EXCEPT !.role = "login"]
  /\ current' = [current EXCEPT !.role = "login"]
  /\ UNCHANGED session

(* A bug: SET without LOCAL. *)
SetForSession(f, v) ==
  /\ pending' = [pending EXCEPT ![f] = v]
  /\ current' = [current EXCEPT ![f] = v]
  /\ UNCHANGED session

SetLocal(f, v) == current' = [current EXCEPT ![f] = v] /\ UNCHANGED <<session, pending>>

Committed == session' = pending /\ current' = pending /\ UNCHANGED pending
RolledBack == pending' = session /\ current' = session /\ UNCHANGED session
Replaced == session' = Login /\ pending' = Login /\ current' = Login

Usable == tx \in {"none", "open"}

(* A statement: it takes effect, or it does not. *)
Executed(effect) == Usable /\ tx' = "open" /\ effect

Refused == Usable /\ tx' = "aborted" /\ UNCHANGED conf

(* The connection is lost, or the session waits for a rollback already. *)
Lost == IF tx = "aborted" THEN UNCHANGED <<tx, conf>> ELSE tx' = "lost" /\ UNCHANGED conf

(* Ending the transaction; a lost connection is replaced. *)
Ended == tx' = "none" /\ IF tx = "lost" THEN Replaced ELSE RolledBack

Go(next) == at' = next
-----------------------------------------------------------------------------
Init ==
  /\ at = "idle" /\ level = None /\ Fresh /\ mark = <<Login, Login>> /\ tx = "none"
  /\ stage = "lookup" /\ runs = 0 /\ last = "none" /\ outcome = "pending" /\ audit = "none"

(* A request gets the connection (get_db, resolve_principal). *)
Checkout(l) ==
  /\ at = "idle" /\ Go("reset")
  /\ level' = l
  /\ stage' = "lookup" /\ runs' = 0 /\ last' = "none" /\ outcome' = "pending" /\ audit' = "none"
  /\ UNCHANGED <<conf, mark, tx>>

(* One statement of the scope's entry.  A failure there raises before the  *)
(* try block: nothing is cleaned up.                                       *)
Enter(from, effect, next) ==
  /\ at = from
  /\ \/ Executed(effect) /\ Go(next) /\ UNCHANGED <<mark, request>>
     \/ /\ Lost \/ (from = "role" /\ Refused)
        /\ Go("close") /\ outcome' = "failed"
        /\ UNCHANGED <<mark, level, stage, runs, last, audit>>

(* copilot_scope: _set_role, _set_guc, search_path. *)
EnterScope ==
  \/ Enter("reset", ResetRole, "role")
  \/ Enter("role", SetLocal("role", PersonaRole(level)), "guc")
  \/ Enter("guc", SetLocal("level", level), "path")
  \/ Enter("path", SetLocal("path", PersonaSchema(level)), "body")
-----------------------------------------------------------------------------
(* Entity resolution: nothing to read (cached, or a route without it), or  *)
(* the reads succeed, or they fail.                                        *)
Resolve ==
  /\ at = "body" /\ stage = "lookup"
  /\ \/ Go("body") /\ stage' = "sql" /\ UNCHANGED <<conf, tx>>
     \/ Executed(UNCHANGED conf) /\ Go("body") /\ stage' = "sql"
     \/ (Refused \/ Lost) /\ Go("recover") /\ UNCHANGED stage
  /\ UNCHANGED <<mark, level, runs, last, outcome, audit>>

(* A bug: the handler leaves the session as it is. *)
RecoverWithoutRollback ==
  /\ at = "recover" /\ Go("body")
  /\ stage' = "clarify"
  /\ UNCHANGED <<conf, mark, tx, level, runs, last, outcome, audit>>

(* resolve_lookup_entities' handler: roll back and ask for clarification. *)
Recover ==
  /\ at = "recover" /\ Go("body")
  /\ stage' = "clarify"
  /\ Ended
  /\ UNCHANGED <<mark, level, runs, last, outcome, audit>>
-----------------------------------------------------------------------------
(* run_sql *)

Payload(l) == Go("body") /\ last' = l /\ UNCHANGED <<level, stage, runs, outcome, audit>>
Continue(next) == Go(next) /\ UNCHANGED request

(* Called once per attempt of the graph's retry loop. *)
RunSql ==
  /\ at = "body" /\ stage = "sql" /\ runs < MaxRuns
  /\ Go("assert") /\ runs' = runs + 1
  /\ UNCHANGED <<conf, mark, tx, level, stage, last, outcome, audit>>

ScopeIsActive ==
  /\ current.level \in Levels
  /\ current.role = PersonaRole(current.level)

AssertScopeActive ==
  /\ at = "assert"
  /\ \/ Executed(UNCHANGED conf) /\ IF ScopeIsActive THEN Continue("limit") ELSE Payload("error")
     \/ Lost /\ Payload("error")
  /\ UNCHANGED mark

(* SET LOCAL statement_timeout *)
LimitStatement ==
  /\ at = "limit"
  /\ \/ Executed(UNCHANGED conf) /\ Continue("savepoint")
     \/ Lost /\ Payload("error")
  /\ UNCHANGED mark

Savepoint ==
  /\ at = "savepoint"
  /\ \/ Executed(UNCHANGED conf) /\ mark' = <<pending, current>> /\ Continue("execute")
     \/ Lost /\ Payload("error") /\ UNCHANGED mark

(* The server refuses a statement or cuts it short, or wait_for cancels    *)
(* it, which costs the session its connection.                             *)
Execute ==
  /\ at = "execute"
  /\ \/ Executed(UNCHANGED conf) /\ Continue("release")
     \/ /\ (Refused /\ last' \in {"error", "timeout"}) \/ (Lost /\ last' \in {"error", "cut off"})
        /\ Go("unwind") /\ UNCHANGED <<level, stage, runs, outcome, audit>>
  /\ UNCHANGED mark

Release ==
  /\ at = "release"
  /\ \/ Executed(UNCHANGED conf) /\ Payload("rows")
     \/ Lost /\ Payload("error")
  /\ UNCHANGED mark

(* A bug: roll the whole transaction back. *)
UnwindEverything ==
  /\ at = "unwind" /\ Continue("body")
  /\ Ended
  /\ UNCHANGED mark

(* ROLLBACK TO SAVEPOINT; nothing is left to roll back on a lost           *)
(* connection.                                                             *)
Unwind ==
  /\ at = "unwind" /\ Continue("body")
  /\ IF tx = "lost"
     THEN UNCHANGED <<tx, conf>>
     ELSE tx' = "open" /\ pending' = mark[1] /\ current' = mark[2] /\ UNCHANGED session
  /\ UNCHANGED mark
-----------------------------------------------------------------------------
(* The end of the scope *)

End(o) == outcome' = o /\ UNCHANGED <<level, stage, runs, last, audit>>

(* The graph returns. *)
Answer ==
  /\ at = "body" /\ Go("rollback") /\ End("answered")
  /\ UNCHANGED <<conf, mark, tx>>

InScope == {"body", "recover", "assert", "limit", "savepoint", "execute", "release", "unwind"}

(* api_timeout or an exception in the graph, or the client's hang-up.      *)
(* Cancelling the task cancels the statement it awaits, if it awaits one.  *)
Interrupt ==
  /\ at \in InScope /\ Go("rollback")
  /\ \E o \in {"failed", "cancelled"} : End(o)
  /\ Lost \/ (at \in {"body", "recover"} /\ UNCHANGED <<tx, conf>>)
  /\ UNCHANGED mark

(* _safe_reset: roll back, then RESET ROLE, and let neither raise. *)
SafeRollback(from, next) ==
  /\ at = from /\ Continue(next)
  /\ Ended \/ Lost
  /\ UNCHANGED mark

SafeResetRole(from, next) ==
  /\ at = from /\ Continue(next)
  /\ Executed(ResetRole) \/ Lost
  /\ UNCHANGED mark

LeaveScope ==
  \/ SafeRollback("rollback", "release role")
  \/ SafeResetRole("release role", IF outcome = "answered" THEN "audit" ELSE "close")

(* A hang-up where no finally block is left to run. *)
HangUp ==
  /\ at \in {"reset", "role", "guc", "path", "rollback", "release role", "audit", "loader",
             "audit rollback", "audit reset"}
  /\ Go("close") /\ End("cancelled") /\ Lost
  /\ UNCHANGED mark
-----------------------------------------------------------------------------
(* write_access_log inside system_scope *)

NotWritten(next) == Go(next) /\ audit' = "failed" /\ UNCHANGED <<level, stage, runs, last, outcome>>

EnterSystemScope ==
  \/ /\ at = "audit"
     /\ \/ Executed(ResetRole) /\ Continue("loader")
        \/ Lost /\ NotWritten("close")
     /\ UNCHANGED mark
  \/ /\ at = "loader"
     /\ \/ Executed(SetLocal("role", "ci_loader")) /\ Continue("insert")
        \/ (Refused \/ Lost) /\ NotWritten("close")
     /\ UNCHANGED mark

Insert ==
  /\ at = "insert"
  /\ \/ Executed(UNCHANGED conf) /\ Continue("commit")
     \/ (Refused \/ Lost) /\ NotWritten("audit rollback")
  /\ UNCHANGED mark

Commit ==
  /\ at = "commit"
  /\ \/ /\ Usable /\ tx' = "none" /\ Committed
        /\ Go("audit rollback") /\ audit' = "written"
        /\ UNCHANGED <<level, stage, runs, last, outcome>>
     \/ Lost /\ NotWritten("audit rollback")
  /\ UNCHANGED mark

(* A hang-up here still runs system_scope's finally block. *)
InterruptAudit ==
  /\ at \in {"insert", "commit"} /\ Go("audit rollback")
  /\ End("cancelled") /\ Lost
  /\ UNCHANGED mark

LeaveSystemScope ==
  \/ SafeRollback("audit rollback", "audit reset")
  \/ SafeResetRole("audit reset", "close")

(* get_db closes the session: the pool rolls back and takes the connection *)
(* back, or discards it.                                                   *)
Close ==
  /\ at = "close" /\ Continue("idle")
  /\ Ended
  /\ UNCHANGED mark

Next ==
  \/ \E l \in Levels : Checkout(l)
  \/ EnterScope \/ Resolve \/ Recover
  \/ RunSql \/ AssertScopeActive \/ LimitStatement \/ Savepoint \/ Execute \/ Release \/ Unwind
  \/ Answer \/ Interrupt \/ LeaveScope \/ HangUp
  \/ EnterSystemScope \/ Insert \/ Commit \/ InterruptAudit \/ LeaveSystemScope
  \/ Close

Spec == Init /\ [][Next]_vars
-----------------------------------------------------------------------------
(* Correctness *)

Places ==
  InScope \union
  {"idle", "reset", "role", "guc", "path", "rollback", "release role", "audit", "loader", "insert",
   "commit", "audit rollback", "audit reset", "close"}

TypeOK ==
  /\ at \in Places /\ level \in Levels \union {None}
  /\ session \in Settings /\ pending \in Settings /\ current \in Settings
  /\ mark \in Settings \X Settings
  /\ tx \in {"none", "open", "aborted", "lost"}
  /\ stage \in {"lookup", "sql", "clarify"} /\ runs \in 0..MaxRuns
  /\ last \in {"none", "rows", "error", "timeout", "cut off"}
  /\ outcome \in {"pending", "answered", "failed", "cancelled"}
  /\ audit \in {"none", "written", "failed"}

(* A generated statement that reaches the server runs as the caller's own  *)
(* persona: role, role_level and search_path together (copilot_scope,      *)
(* assert_scope_active).                                                   *)
SqlRunsAsCaller == at = "execute" /\ Usable => current = ScopeOf(level)

(* A statement that failed, however often, leaves the next attempt the     *)
(* caller's scope, unless the connection itself is gone (run_sql's         *)
(* savepoint).                                                             *)
RetriesStayScoped ==
  at \in {"body", "assert", "limit", "savepoint"} /\ stage # "clarify" /\ tx # "lost" =>
    tx = "open" /\ current = ScopeOf(level)

(* The graph never goes on with an aborted transaction, in which every     *)
(* later statement would fail for a reason that is not its own.            *)
NeverAbortedBetweenStatements == at = "body" => tx # "aborted"

(* Whatever became of a request, the next one to get its connection finds  *)
(* the login role, no scope and no transaction.                            *)
PoolClean == at = "idle" => Fresh /\ tx = "none"
-----------------------------------------------------------------------------
(* What the documentation says and the code does not do *)

(* sql_executor.py on TimeoutError: "the outer transaction and the         *)
(* caller's scope survive so a retry can run".                             *)
TimeoutKeepsScope ==
  at = "body" /\ last \in {"timeout", "cut off"} => tx = "open" /\ current = ScopeOf(level)
=============================================================================
