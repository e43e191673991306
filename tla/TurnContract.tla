------------------------------ MODULE TurnContract ------------------------------
(***************************************************************************)
(* What one conversation promises its caller, whatever graph serves it: a  *)
(* turn is opened, runs at most Budget statements, stops running them as   *)
(* soon as one succeeds, and is closed with one reply whose type fits what *)
(* was run and whose policy notices fit its type.                          *)
(*                                                                         *)
(* The reply types are those of the response contract                      *)
(* (app/models/responses/copilot.py) and the rules about notices those of  *)
(* app/service/access_policy.py.  CopilotTurn implements this module.      *)
(***************************************************************************)
EXTENDS Naturals

CONSTANTS
  Budget,   \* statements a turn may run: the first attempt and its retries
  Nothing   \* no reply yet, or a caller that went away

VARIABLES
  open,     \* a turn is being served
  tries,    \* statements run by the current turn
  good,     \* the last of them returned rows
  told      \* the reply of the last closed turn: its type and notice effects

vars == <<open, tries, good, told>>

Refusals == {"unsupported", "out_of_scope"}

(* A statement's rows are only ever told as analytics; a turn that ran     *)
(* nothing may still be analytics, when it reuses the previous answer.     *)
FitsRun(type) ==
  /\ type = "analytics" => good \/ tries = 0
  /\ type \in {"clarify"} \union Refusals => ~good
  /\ type \in {"glossary", "smalltalk"} => tries = 0

(* A denial is the reply being a refusal of access, and a turn that says   *)
(* nothing could be answered does not claim to have substituted a measure. *)
FitsNotices(type, effects) ==
  /\ "denied" \in effects <=> type = "out_of_scope"
  /\ "substituted" \in effects =>
       type \notin {"unsupported", "glossary", "smalltalk"}

Init ==
  /\ open = FALSE
  /\ tries = 0
  /\ good = FALSE
  /\ told = Nothing

Open ==
  /\ ~open
  /\ open' = TRUE
  /\ tries' = 0
  /\ good' = FALSE
  /\ told' = Nothing

Try ==
  /\ open
  /\ ~good
  /\ tries < Budget
  /\ tries' = tries + 1
  /\ good' \in BOOLEAN
  /\ UNCHANGED <<open, told>>

Close ==
  /\ open
  /\ open' = FALSE
  /\ \/ told' = Nothing
     \/ /\ told'.type \in {"analytics", "glossary", "smalltalk", "clarify",
                           "unsupported", "out_of_scope", "error"}
        /\ FitsRun(told'.type)
        /\ FitsNotices(told'.type, told'.effects)
  /\ UNCHANGED <<tries, good>>

Next == Open \/ Try \/ Close

Spec == Init /\ [][Next]_vars
=============================================================================
