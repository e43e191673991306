--------------------------- MODULE CopilotTurn_proofs ---------------------------
(***************************************************************************)
(* Proofs that the turn graph keeps the safety properties of CopilotTurn,  *)
(* and implements TurnContract, for every set of statements, retry budget, *)
(* history limit and number of turns.                                      *)
(*                                                                         *)
(* IInv is proved inductive conjunct by conjunct: each conjunct has a      *)
(* lemma that every step keeps it, with one case per node of the graph.    *)
(***************************************************************************)
EXTENDS CopilotTurn, SequenceTheorems, TLAPS

USE TurnAssumption, NoneAssumption
    DEF NoneAssumption, TurnAssumption, TypeOK, inputVars, contextVars, lookupVars, planVars,
        runVars, ghostVars

(* Trimming keeps a history a sequence of what it held. *)
LEMMA RecentKeeps ==
  ASSUME NEW S, NEW h \in Seq(S)
  PROVE  /\ Recent(h) \in Seq(S)
         /\ \A i \in DOMAIN Recent(h) : \E j \in DOMAIN h : Recent(h)[i] = h[j]
  <1>1. CASE Len(h) > HistoryTurns
    BY <1>1, SubSeqProperties DEF Recent
  <1>2. CASE ~(Len(h) > HistoryTurns)
    BY <1>2 DEF Recent
  <1>. QED  BY <1>1, <1>2

(* Cutting the tail of a history keeps a sequence of what it held. *)
LEMMA PrefixKeeps ==
  ASSUME NEW S, NEW h \in Seq(S), NEW n \in 0..Len(h)
  PROVE  /\ SubSeq(h, 1, n) \in Seq(S)
         /\ \A i \in DOMAIN SubSeq(h, 1, n) : \E j \in DOMAIN h : SubSeq(h, 1, n)[i] = h[j]
  BY SubSeqProperties

(* The last element of a sequence is one of its elements. *)
LEMMA LastIsIn ==
  ASSUME NEW S, NEW s \in Seq(S), s # <<>>
  PROVE  Len(s) \in Nat /\ Len(s) \in DOMAIN s /\ s[Len(s)] \in S
  BY LenProperties, EmptySeq

(* A turn just appended survives the trimming as the last one. *)
LEMMA TurnIsLast ==
  ASSUME NEW S, NEW h \in Seq(S), NEW r \in S
  PROVE  LastOf(Recent(Append(h, r))) = r
  <1>. DEFINE g == Append(h, r)
  <1>1. g \in Seq(S) /\ g # <<>> /\ Len(g) \in Nat /\ Len(g) > 0 /\ g[Len(g)] = r
    BY AppendProperties, LenProperties, EmptySeq
  <1>2. CASE Len(g) > HistoryTurns
    <2>. DEFINE b == Len(g) - HistoryTurns + 1
    <2>1. b \in 1..Len(g) /\ Len(g) - b + 1 = HistoryTurns
      BY <1>1, <1>2
    <2>2. /\ SubSeq(g, b, Len(g)) \in Seq(S)
          /\ Len(SubSeq(g, b, Len(g))) = HistoryTurns
          /\ SubSeq(g, b, Len(g))[HistoryTurns] = g[b + HistoryTurns - 1]
      BY <1>1, <2>1, SubSeqProperties
    <2>3. b + HistoryTurns - 1 = Len(g)
      BY <1>1
    <2>4. SubSeq(g, b, Len(g)) # <<>>
      BY <2>2, EmptySeq
    <2>. QED  BY <1>1, <1>2, <2>2, <2>3, <2>4 DEF Recent, LastOf
  <1>3. CASE ~(Len(g) > HistoryTurns)
    BY <1>1, <1>3 DEF Recent, LastOf
  <1>. QED  BY <1>2, <1>3

(* Every node writes values of the right kind. *)
LEMMA TypeStep == IInv /\ [Next]_vars => TypeOK'
  <1>0. ASSUME TypeOK, UNCHANGED vars PROVE TypeOK'
    BY <1>0 DEF vars, ThreadTypes, DecisionTypes, RunTypes
  <1>1. ASSUME TypeOK, Ask PROVE TypeOK'
    BY <1>1 DEF Ask, ThreadTypes, DecisionTypes, RunTypes, Nodes
  <1>2. ASSUME TypeOK, ResetTurnState PROVE TypeOK'
    <2>1. ThreadTypes'
      BY <1>2 DEF ResetTurnState, ThreadTypes, Nodes
    <2>2. DecisionTypes'
      BY <1>2 DEF ResetTurnState, ClearLookup, ClearRun, DecisionTypes
    <2>3. calls' \in Nat /\ executed' \in Seq(Runs) /\ reply' \in Responses \union {None}
      BY <1>2 DEF ResetTurnState, RunTypes
    <2>4. validationError' \in BOOLEAN /\ executionError' \in BOOLEAN
      BY <1>2 DEF ResetTurnState, ClearRun
    <2>5. retryCount' \in 0..MaxRetries
      BY <1>2 DEF ResetTurnState, ClearRun
    <2>6. rows' \in Statements \union {None} /\ result' \in Responses \union {None}
      BY <1>2 DEF ResetTurnState, ClearRun
    <2>. QED  BY <2>1, <2>2, <2>3, <2>4, <2>5, <2>6 DEF RunTypes
  <1>3. ASSUME TypeOK, LoadContext PROVE TypeOK'
    <2>1. Recent(history) \in Seq(Responses)
      BY <1>3, RecentKeeps DEF ThreadTypes, DecisionTypes, RunTypes
    <2>2. LastOf(Recent(history)) \in Responses \union {None}
      BY <2>1 DEF LastOf
    <2>3. history' \in Seq(Responses)
      BY <1>3, <2>1, PrefixKeeps DEF LoadContext
    <2>4. prev' \in Responses \union {None} /\ followup' \in BOOLEAN
      BY <1>3, <2>2 DEF LoadContext
    <2>. QED  BY <1>3, <2>3, <2>4 DEF LoadContext, ThreadTypes, DecisionTypes, RunTypes, Nodes
  <1>4. ASSUME TypeOK, ClassifyIntent PROVE TypeOK'
    BY <1>4 DEF ClassifyIntent, ThreadTypes, DecisionTypes, RunTypes, Nodes, Routes
  <1>5. ASSUME TypeOK, AnswerFromPrevious PROVE TypeOK'
    <2>1. Reused(prev) \in Responses
      BY <1>5 DEF ThreadTypes, DecisionTypes, RunTypes, Reused, Response, Responses, Types
    <2>. QED  BY <1>5, <2>1
                 DEF AnswerFromPrevious, RouteAfterReuse, ThreadTypes, DecisionTypes,
                     RunTypes, Nodes, Routes
  <1>6. ASSUME TypeOK, GlossaryAnswer PROVE TypeOK'
    <2>1. result' \in Responses
      BY <1>6 DEF GlossaryAnswer, Response, Responses, Types
    <2>. QED  BY <1>6, <2>1 DEF GlossaryAnswer, ThreadTypes, DecisionTypes, RunTypes, Nodes
  <1>7. ASSUME TypeOK, SmalltalkAnswer PROVE TypeOK'
    <2>1. result' \in Responses
      BY <1>7 DEF SmalltalkAnswer, Response, Responses, Types
    <2>. QED  BY <1>7, <2>1 DEF SmalltalkAnswer, ThreadTypes, DecisionTypes, RunTypes, Nodes
  <1>8. ASSUME TypeOK, ResolveLookupEntities PROVE TypeOK'
    <2>1. applied' \in SUBSET Policy
      BY <1>8
         DEF ResolveLookupEntities, ThreadTypes, DecisionTypes, RunTypes, Substitution,
             Policy, Codes, Effects
    <2>2. node' \in Nodes /\ lookupNeeds' \in BOOLEAN /\ outReason' \in BOOLEAN
          /\ outCode' \in Codes \union {None}
      BY <1>8
         DEF ResolveLookupEntities, RouteAfterLookup, ThreadTypes, DecisionTypes, RunTypes,
             Nodes, Codes
    <2>. QED  BY <1>8, <2>1, <2>2
                 DEF ResolveLookupEntities, ThreadTypes, DecisionTypes, RunTypes
  <1>9. ASSUME TypeOK, ClarifyFromLookup PROVE TypeOK'
    <2>1. result' \in Responses
      BY <1>9
         DEF ClarifyFromLookup, Response, Responses, Types, ThreadTypes, DecisionTypes,
             RunTypes
    <2>. QED  BY <1>9, <2>1 DEF ClarifyFromLookup, ThreadTypes, DecisionTypes, RunTypes, Nodes
  <1>10. ASSUME TypeOK, MakePlan PROVE TypeOK'
    <2>1. node' \in Nodes
      BY <1>10 DEF MakePlan, RouteAfterPlan, Nodes
    <2>2. /\ sql' \in Statements \union {None}
          /\ planStatus' \in {"answerable", "needs_clarification", "unsupported", None}
          /\ cause' \in {"not_answerable", "customer_identity"}
      BY <1>10 DEF MakePlan, Plans
    <2>3. outReason' \in BOOLEAN /\ outCode' \in Codes \union {None}
      BY <1>10 DEF MakePlan, Plans, ThreadTypes, DecisionTypes, RunTypes, Codes
    <2>4. ThreadTypes'
      BY <1>10, <2>1 DEF MakePlan, ThreadTypes
    <2>5. DecisionTypes'
      BY <1>10, <2>2, <2>3 DEF MakePlan, DecisionTypes
    <2>6. RunTypes'
      <3>1. calls' \in Nat /\ executed' \in Seq(Runs)
        BY <1>10 DEF MakePlan, RunTypes
      <3>. QED  BY <1>10, <3>1 DEF MakePlan, RunTypes
    <2>. QED  BY <2>4, <2>5, <2>6
  <1>11. ASSUME TypeOK, UnsupportedFromPlan PROVE TypeOK'
    <2>1. result' \in Responses
      BY <1>11
         DEF UnsupportedFromPlan, Response, Responses, Types, ThreadTypes, DecisionTypes,
             RunTypes, Denial, Policy, Codes, Effects
    <2>. QED  BY <1>11, <2>1
                 DEF UnsupportedFromPlan, ThreadTypes, DecisionTypes, RunTypes, Nodes
  <1>12. ASSUME TypeOK, ClarifyFromPlan PROVE TypeOK'
    <2>1. result' \in Responses
      BY <1>12
         DEF ClarifyFromPlan, Response, Responses, Types, ThreadTypes, DecisionTypes, RunTypes
    <2>. QED  BY <1>12, <2>1 DEF ClarifyFromPlan, ThreadTypes, DecisionTypes, RunTypes, Nodes
  <1>13. ASSUME TypeOK, OutOfScopeAnswer PROVE TypeOK'
    <2>1. result' \in Responses
      BY <1>13
         DEF OutOfScopeAnswer, Response, Responses, Types, ThreadTypes, DecisionTypes,
             RunTypes, Denial, Policy, Codes, Effects
    <2>. QED  BY <1>13, <2>1 DEF OutOfScopeAnswer, ThreadTypes, DecisionTypes, RunTypes, Nodes
  <1>14. ASSUME TypeOK, ValidateSql PROVE TypeOK'
    BY <1>14
       DEF ValidateSql, RouteAfterValidate, RetryOr, ThreadTypes, DecisionTypes, RunTypes,
           Nodes
  <1>15. ASSUME TypeOK, StatementsMatch, ExecuteSql PROVE TypeOK'
    <2>1. [sql |-> sql, ok |-> ~executionError'] \in Runs
      BY <1>15 DEF ExecuteSql, StatementsMatch, Runs
    <2>2. executed' \in Seq(Runs)
      BY <1>15, <2>1, AppendProperties DEF ExecuteSql, ThreadTypes, DecisionTypes, RunTypes
    <2>3. ThreadTypes' /\ DecisionTypes'
      BY <1>15 DEF ExecuteSql, RouteAfterExecute, RetryOr, ThreadTypes, DecisionTypes, Nodes
    <2>4. RunTypes'
      BY <1>15, <2>2 DEF ExecuteSql, DecisionTypes, RunTypes
    <2>. QED  BY <2>3, <2>4
  <1>16. ASSUME TypeOK, RoundsCounted, RetrySql PROVE TypeOK'
    BY <1>16 DEF RetrySql, RoundsCounted, ThreadTypes, DecisionTypes, RunTypes, Nodes
  <1>17. ASSUME TypeOK, ExecuteError PROVE TypeOK'
    <2>1. result' \in Responses
      BY <1>17
         DEF ExecuteError, Response, Responses, Types, ThreadTypes, DecisionTypes, RunTypes
    <2>. QED  BY <1>17, <2>1 DEF ExecuteError, ThreadTypes, DecisionTypes, RunTypes, Nodes
  <1>18. ASSUME TypeOK, AnalyzeResult PROVE TypeOK'
    BY <1>18 DEF AnalyzeResult, ThreadTypes, DecisionTypes, RunTypes, Nodes
  <1>19. ASSUME TypeOK, Synthesize PROVE TypeOK'
    <2>1. result' \in Responses
      BY <1>19
         DEF Synthesize, Response, Responses, Types, ThreadTypes, DecisionTypes, RunTypes
    <2>. QED  BY <1>19, <2>1 DEF Synthesize, ThreadTypes, DecisionTypes, RunTypes, Nodes
  <1>20. ASSUME TypeOK, RepliesFit, SaveTurn PROVE TypeOK'
    <2>1. Completed(result) \in Responses
      BY <1>20
         DEF SaveTurn, RepliesFit, Completed, Responses, ThreadTypes, DecisionTypes, RunTypes
    <2>2. Append(history, Completed(result)) \in Seq(Responses)
      BY <1>20, <2>1, AppendProperties DEF ThreadTypes, DecisionTypes, RunTypes
    <2>3. history' \in Seq(Responses)
      BY <1>20, <2>2, RecentKeeps DEF SaveTurn
    <2>. QED  BY <1>20, <2>1, <2>3 DEF SaveTurn, ThreadTypes, DecisionTypes, RunTypes, Nodes
  <1>23. ASSUME TypeOK, Return PROVE TypeOK'
    BY <1>23 DEF Return, ThreadTypes, DecisionTypes, RunTypes, Nodes
  <1>21. ASSUME TypeOK, Fail PROVE TypeOK'
    <2>1. TrackedSql \in Statements \union {None}
      <3>1. executed # <<>> => executed[Len(executed)] \in Runs
        BY <1>21, LastIsIn DEF RunTypes
      <3>. QED  BY <3>1 DEF TrackedSql, Runs
    <2>2. reply' \in Responses
      BY <1>21, <2>1 DEF Fail, Response, Responses, Types
    <2>. QED  BY <1>21, <2>2 DEF Fail, ThreadTypes, DecisionTypes, RunTypes, Nodes
  <1>22. ASSUME TypeOK, Cancel PROVE TypeOK'
    BY <1>22 DEF Cancel, ThreadTypes, DecisionTypes, RunTypes, Nodes
  <1>. QED
    BY <1>0, <1>1, <1>2, <1>3, <1>4, <1>5, <1>6, <1>7, <1>8, <1>9, <1>10, <1>11, <1>12,
       <1>13, <1>14, <1>15, <1>16, <1>17, <1>18, <1>19, <1>20, <1>21, <1>22, <1>23
       DEF IInv, Next, Node

(* The nodes that build the response of the turn. *)
Terminal ==
  \/ GlossaryAnswer \/ SmalltalkAnswer \/ ClarifyFromLookup \/ UnsupportedFromPlan
  \/ ClarifyFromPlan \/ OutOfScopeAnswer \/ ExecuteError \/ Synthesize

(* The nodes that end a turn write the result and nothing else. *)
LEMMA TerminalStep ==
  ASSUME Terminal
  PROVE  /\ node' = "save_turn"
         /\ UNCHANGED <<turn, inputVars, contextVars, lookupVars, planVars, runVars, reply,
                        ghostVars>>
  BY DEF Terminal, GlossaryAnswer, SmalltalkAnswer, ClarifyFromLookup, UnsupportedFromPlan,
         ClarifyFromPlan, OutOfScopeAnswer, ExecuteError, Synthesize

(* Each way to end a turn builds a response that fits what the turn did. *)
LEMMA TerminalFits ==
  ASSUME TypeOK, CleanStart, RoundsCounted, StatementsMatch, PoliciesSettled, Terminal
  PROVE  result' # None /\ Told(Completed(result))'
  <1>1. /\ applied \subseteq {Substitution} /\ Substitution \in Policy
        /\ Substitution.effect = "substituted"
    BY DEF PoliciesSettled, Substitution, Policy, Codes, Effects
  <1>2. UNCHANGED <<role, asked, applied, executed>>
    BY TerminalStep
  <1>3. \A code \in Codes : Denial(code) \in Policy /\ Denial(code).effect = "denied"
    BY DEF Denial, Policy, Effects
  <1>4. executed # <<>> => Len(executed) \in DOMAIN executed
    BY LastIsIn DEF RunTypes
  <1>5. CASE GlossaryAnswer \/ SmalltalkAnswer
    <2>1. /\ result' # None /\ Completed(result)'.type \in {"glossary", "smalltalk", "clarify"}
          /\ Completed(result)'.policies = {} /\ executed = <<>>
      BY <1>5, <1>2
         DEF GlossaryAnswer, SmalltalkAnswer, Response, Responses, Types, Completed,
         CleanStart, PoliciesSettled, Opening
    <2>. QED  BY <1>2, <2>1
                 DEF Told, Contract!FitsRun, Contract!FitsNotices, Contract!Refusals
  <1>6. CASE ClarifyFromLookup \/ ClarifyFromPlan
    <2>1. /\ result' # None /\ Completed(result)'.type = "clarify"
          /\ Completed(result)'.policies = applied
      BY <1>6, <1>2
         DEF ClarifyFromLookup, ClarifyFromPlan, Response, Responses, Types, Completed,
         DecisionTypes
    <2>2. executed # <<>> => ~executed[Len(executed)].ok
      BY <1>6, <1>4
         DEF ClarifyFromLookup, ClarifyFromPlan, CleanStart, Opening, RoundsCounted,
         Unanswered, NoRowsYet
    <2>. QED  BY <1>1, <1>2, <2>1, <2>2
                 DEF Told, Contract!FitsRun, Contract!FitsNotices, Contract!Refusals
  <1>7. CASE UnsupportedFromPlan
    <2>1. /\ result' # None /\ Completed(result)'.type = "unsupported"
          /\ Completed(result)'.policies = {}
      <3>1. {p \in applied : p.effect # "substituted"} = {} /\ cause = "not_answerable"
        BY <1>1, <1>7 DEF UnsupportedFromPlan, PoliciesSettled
      <3>. QED  BY <1>7, <1>2, <3>1
                   DEF UnsupportedFromPlan, Response, Responses, Types, Completed
    <2>2. executed # <<>> => ~executed[Len(executed)].ok
      BY <1>7, <1>4 DEF UnsupportedFromPlan, RoundsCounted, Unanswered, NoRowsYet
    <2>. QED  BY <1>2, <2>1, <2>2
                 DEF Told, Contract!FitsRun, Contract!FitsNotices, Contract!Refusals
  <1>8. CASE OutOfScopeAnswer
    <2>1. outCode \in Codes
      BY <1>8 DEF OutOfScopeAnswer, PoliciesSettled, DecisionTypes
    <2>2. result' = Response("out_of_scope", None, None, applied \union {Denial(outCode)})
      BY <1>8, <2>1 DEF OutOfScopeAnswer
    <2>3. /\ result' # None /\ Completed(result)'.type = "out_of_scope"
          /\ Completed(result)'.policies = applied \union {Denial(outCode)}
      BY <1>1, <1>2, <1>3, <2>1, <2>2 DEF Response, Responses, Types, Completed
    <2>4. executed # <<>> => ~executed[Len(executed)].ok
      BY <1>8, <1>4 DEF OutOfScopeAnswer, RoundsCounted, Unanswered, NoRowsYet
    <2>. QED  BY <1>1, <1>2, <1>3, <2>1, <2>3, <2>4
              DEF Told, Contract!FitsRun, Contract!FitsNotices, Contract!Refusals
  <1>9. CASE ExecuteError
    <2>1. /\ result' # None /\ Completed(result)'.type = "error"
          /\ Completed(result)'.policies = applied
      BY <1>9, <1>2 DEF ExecuteError, Response, Responses, Types, Completed, DecisionTypes
    <2>. QED  BY <1>1, <1>2, <2>1
                 DEF Told, Contract!FitsRun, Contract!FitsNotices, Contract!Refusals
  <1>10. CASE Synthesize
    <2>1. /\ result' # None /\ Completed(result)'.type = "analytics"
          /\ Completed(result)'.policies = applied
          /\ Completed(result)'.sql = sql /\ Completed(result)'.rows = sql
      BY <1>10, <1>2
         DEF Synthesize, Response, Responses, Types, Completed, DecisionTypes, StatementsMatch
    <2>2. executed # <<>> /\ executed[Len(executed)] = [sql |-> sql, ok |-> TRUE]
      BY <1>10 DEF Synthesize, StatementsMatch, LastRun
    <2>3. Substitution \in applied <=> role = "EXEC" /\ asked = "twin"
      BY <1>10 DEF Synthesize, PoliciesSettled, Planned
    <2>. QED  BY <1>1, <1>2, <2>1, <2>2, <2>3
                 DEF Told, Contract!FitsRun, Contract!FitsNotices, Contract!Refusals
  <1>. QED  BY <1>5, <1>6, <1>7, <1>8, <1>9, <1>10 DEF Terminal

(* reset_turn_state clears what the last turn left, and nothing before the first
   plan writes the fields it cleared. *)
LEMMA CleanStartStep == IInv /\ [Next]_vars => CleanStart'
  <1>0. ASSUME TypeOK, RoundsCounted, CleanStart, UNCHANGED vars PROVE CleanStart'
    BY <1>0 DEF vars, CleanStart, RunTypes, FirstPlanStartsClean, Opening, RoundsCounted
  <1>1. ASSUME TypeOK, RoundsCounted, CleanStart, Ask PROVE CleanStart'
    BY <1>1 DEF Ask, CleanStart, RunTypes, FirstPlanStartsClean, Opening, RoundsCounted
  <1>2. ASSUME TypeOK, RoundsCounted, CleanStart, ResetTurnState PROVE CleanStart'
    BY <1>2
       DEF ResetTurnState, ClearLookup, ClearRun, CleanStart, RunTypes, FirstPlanStartsClean,
           Opening, RoundsCounted
  <1>3. ASSUME TypeOK, RoundsCounted, CleanStart, LoadContext PROVE CleanStart'
    BY <1>3
       DEF LoadContext, CleanStart, RunTypes, FirstPlanStartsClean, Opening, RoundsCounted
  <1>4. ASSUME TypeOK, RoundsCounted, CleanStart, ClassifyIntent PROVE CleanStart'
    BY <1>4
       DEF ClassifyIntent, CleanStart, RunTypes, FirstPlanStartsClean, Opening, RoundsCounted
  <1>5. ASSUME TypeOK, RoundsCounted, CleanStart, AnswerFromPrevious PROVE CleanStart'
    BY <1>5
       DEF AnswerFromPrevious, RouteAfterReuse, CleanStart, RunTypes, FirstPlanStartsClean,
           Opening, RoundsCounted
  <1>6. ASSUME TypeOK, RoundsCounted, CleanStart, ResolveLookupEntities PROVE CleanStart'
    BY <1>6
       DEF ResolveLookupEntities, RouteAfterLookup, CleanStart, RunTypes,
           FirstPlanStartsClean, Opening, RoundsCounted
  <1>7. ASSUME TypeOK, RoundsCounted, CleanStart, MakePlan PROVE CleanStart'
    BY <1>7
       DEF MakePlan, RouteAfterPlan, Plans, CleanStart, RunTypes, FirstPlanStartsClean,
           Opening, RoundsCounted
  <1>8. ASSUME TypeOK, RoundsCounted, CleanStart, ValidateSql PROVE CleanStart'
    BY <1>8
       DEF ValidateSql, RouteAfterValidate, RetryOr, CleanStart, RunTypes,
           FirstPlanStartsClean, Opening, RoundsCounted
  <1>9. ASSUME TypeOK, RoundsCounted, CleanStart, ExecuteSql PROVE CleanStart'
    BY <1>9
       DEF ExecuteSql, RouteAfterExecute, RetryOr, CleanStart, RunTypes, FirstPlanStartsClean,
           Opening, RoundsCounted
  <1>10. ASSUME TypeOK, RoundsCounted, CleanStart, RetrySql PROVE CleanStart'
    BY <1>10 DEF RetrySql, CleanStart, RunTypes, FirstPlanStartsClean, Opening, RoundsCounted
  <1>11. ASSUME TypeOK, RoundsCounted, CleanStart, AnalyzeResult PROVE CleanStart'
    BY <1>11
       DEF AnalyzeResult, CleanStart, RunTypes, FirstPlanStartsClean, Opening, RoundsCounted
  <1>12. ASSUME TypeOK, RoundsCounted, CleanStart, Terminal PROVE CleanStart'
    BY <1>12, TerminalStep
       DEF CleanStart, RunTypes, FirstPlanStartsClean, Opening, RoundsCounted
  <1>13. ASSUME TypeOK, RoundsCounted, CleanStart, SaveTurn PROVE CleanStart'
    BY <1>13 DEF SaveTurn, CleanStart, RunTypes, FirstPlanStartsClean, Opening, RoundsCounted
  <1>14. ASSUME TypeOK, RoundsCounted, CleanStart, Return PROVE CleanStart'
    BY <1>14 DEF Return, CleanStart, RunTypes, FirstPlanStartsClean, Opening, RoundsCounted
  <1>15. ASSUME TypeOK, RoundsCounted, CleanStart, Fail PROVE CleanStart'
    BY <1>15 DEF Fail, CleanStart, RunTypes, FirstPlanStartsClean, Opening, RoundsCounted
  <1>16. ASSUME TypeOK, RoundsCounted, CleanStart, Cancel PROVE CleanStart'
    BY <1>16 DEF Cancel, CleanStart, RunTypes, FirstPlanStartsClean, Opening, RoundsCounted
  <1>. QED
    BY <1>0, <1>1, <1>2, <1>3, <1>4, <1>5, <1>6, <1>7, <1>8, <1>9, <1>10, <1>11, <1>12, <1>13,
       <1>14, <1>15, <1>16
       DEF IInv, Next, Node, Terminal

(* Planner calls follow retry_count, and a round runs at most one statement, none
   after one that returned rows. *)
LEMMA RoundsCountedStep == IInv /\ [Next]_vars => RoundsCounted'
  <1>0. ASSUME TypeOK, CleanStart, RoundsCounted, UNCHANGED vars PROVE RoundsCounted'
    BY <1>0 DEF vars, RoundsCounted, RunTypes, CleanStart, Opening, Unanswered, NoRowsYet
  <1>1. ASSUME TypeOK, CleanStart, RoundsCounted, Ask PROVE RoundsCounted'
    BY <1>1 DEF Ask, RoundsCounted, RunTypes, CleanStart, Opening, Unanswered, NoRowsYet
  <1>2. ASSUME TypeOK, CleanStart, RoundsCounted, ResetTurnState PROVE RoundsCounted'
    BY <1>2
       DEF ResetTurnState, ClearLookup, ClearRun, RoundsCounted, RunTypes, CleanStart,
           Opening, Unanswered, NoRowsYet
  <1>3. ASSUME TypeOK, CleanStart, RoundsCounted, LoadContext PROVE RoundsCounted'
    BY <1>3
       DEF LoadContext, RoundsCounted, RunTypes, CleanStart, Opening, Unanswered, NoRowsYet
  <1>4. ASSUME TypeOK, CleanStart, RoundsCounted, ClassifyIntent PROVE RoundsCounted'
    BY <1>4
       DEF ClassifyIntent, RoundsCounted, RunTypes, CleanStart, Opening, Unanswered, NoRowsYet
  <1>5. ASSUME TypeOK, CleanStart, RoundsCounted, AnswerFromPrevious PROVE RoundsCounted'
    BY <1>5
       DEF AnswerFromPrevious, RouteAfterReuse, RoundsCounted, RunTypes, CleanStart, Opening,
           Unanswered, NoRowsYet
  <1>6. ASSUME TypeOK, CleanStart, RoundsCounted, ResolveLookupEntities PROVE RoundsCounted'
    BY <1>6
       DEF ResolveLookupEntities, RouteAfterLookup, RoundsCounted, RunTypes, CleanStart,
           Opening, Unanswered, NoRowsYet
  <1>7. ASSUME TypeOK, CleanStart, RoundsCounted, MakePlan PROVE RoundsCounted'
    BY <1>7
       DEF MakePlan, RouteAfterPlan, Plans, RoundsCounted, RunTypes, CleanStart, Opening,
           Unanswered, NoRowsYet
  <1>8. ASSUME TypeOK, CleanStart, RoundsCounted, ValidateSql PROVE RoundsCounted'
    BY <1>8
       DEF ValidateSql, RouteAfterValidate, RetryOr, RoundsCounted, RunTypes, CleanStart,
           Opening, Unanswered, NoRowsYet
  <1>9. ASSUME TypeOK, CleanStart, RoundsCounted, ExecuteSql PROVE RoundsCounted'
    <2>1. /\ Len(executed') = Len(executed) + 1 /\ Len(executed) \in Nat
          /\ \A i \in 1..Len(executed) : executed'[i] = executed[i]
          /\ executed'[Len(executed) + 1] = [sql |-> sql, ok |-> ~executionError']
      BY <1>9, AppendProperties DEF ExecuteSql, RunTypes
    <2>2. \A i \in 1..Len(executed) : ~executed'[i].ok
      BY <1>9, <2>1 DEF ExecuteSql, RoundsCounted, Unanswered, NoRowsYet, RunTypes
    <2>3. /\ calls' <= MaxRetries + 1 /\ Len(executed') <= calls'
          /\ node' = "retry_sql" => calls' = retryCount' + 1 /\ retryCount' < MaxRetries
          /\ node' \in {"retry_sql", "execute_error", "analyze_result"}
      BY <1>9, <2>1 DEF ExecuteSql, RouteAfterExecute, RetryOr, RoundsCounted, RunTypes
    <2>4. node' \in Unanswered => NoRowsYet'
      <3>1. executionError' # TRUE => node' = "analyze_result"
        BY <1>9 DEF ExecuteSql, RouteAfterExecute
      <3>2. DOMAIN executed' = 1..(Len(executed) + 1)
        BY <1>9, AppendProperties, LenProperties DEF ExecuteSql, RunTypes
      <3>3. ASSUME executionError' = TRUE PROVE NoRowsYet'
        <4>1. executed'[Len(executed) + 1] = [sql |-> sql, ok |-> FALSE]
          BY <2>1, <3>3
        <4>2. ~executed'[Len(executed) + 1].ok
          BY <4>1
        <4>. QED  BY <2>1, <2>2, <3>2, <4>2 DEF NoRowsYet
      <3>. QED  BY <3>1, <3>3 DEF Unanswered
    <2>5. \A i \in 1..(Len(executed') - 1) : ~executed'[i].ok
      BY <2>1, <2>2
    <2>. QED  BY <2>3, <2>4, <2>5 DEF RoundsCounted
  <1>10. ASSUME TypeOK, CleanStart, RoundsCounted, RetrySql PROVE RoundsCounted'
    BY <1>10 DEF RetrySql, RoundsCounted, RunTypes, CleanStart, Opening, Unanswered, NoRowsYet
  <1>11. ASSUME TypeOK, CleanStart, RoundsCounted, AnalyzeResult PROVE RoundsCounted'
    BY <1>11
       DEF AnalyzeResult, RoundsCounted, RunTypes, CleanStart, Opening, Unanswered, NoRowsYet
  <1>12. ASSUME TypeOK, CleanStart, RoundsCounted, Terminal PROVE RoundsCounted'
    BY <1>12, TerminalStep
       DEF RoundsCounted, RunTypes, CleanStart, Opening, Unanswered, NoRowsYet
  <1>13. ASSUME TypeOK, CleanStart, RoundsCounted, SaveTurn PROVE RoundsCounted'
    BY <1>13 DEF SaveTurn, RoundsCounted, RunTypes, CleanStart, Opening, Unanswered, NoRowsYet
  <1>14. ASSUME TypeOK, CleanStart, RoundsCounted, Return PROVE RoundsCounted'
    BY <1>14 DEF Return, RoundsCounted, RunTypes, CleanStart, Opening, Unanswered, NoRowsYet
  <1>15. ASSUME TypeOK, CleanStart, RoundsCounted, Fail PROVE RoundsCounted'
    BY <1>15 DEF Fail, RoundsCounted, RunTypes, CleanStart, Opening, Unanswered, NoRowsYet
  <1>16. ASSUME TypeOK, CleanStart, RoundsCounted, Cancel PROVE RoundsCounted'
    BY <1>16 DEF Cancel, RoundsCounted, RunTypes, CleanStart, Opening, Unanswered, NoRowsYet
  <1>. QED
    BY <1>0, <1>1, <1>2, <1>3, <1>4, <1>5, <1>6, <1>7, <1>8, <1>9, <1>10, <1>11, <1>12, <1>13,
       <1>14, <1>15, <1>16
       DEF IInv, Next, Node, Terminal

(* Statements are validated before they run, and rows travel with their statement. *)
LEMMA StatementsMatchStep == IInv /\ [Next]_vars => StatementsMatch'
  <1>0. ASSUME TypeOK, CleanStart, StatementsMatch, UNCHANGED vars PROVE StatementsMatch'
    BY <1>0 DEF vars, StatementsMatch, OnlyCheckedSqlRuns, RowsBelongToSql, LastRun
  <1>1. ASSUME TypeOK, CleanStart, StatementsMatch, Ask PROVE StatementsMatch'
    <2>1. /\ executed' = <<>> /\ node' = "reset_turn_state" /\ reply' = None
          /\ UNCHANGED <<history, prev, result>>
      BY <1>1 DEF Ask
    <2>. QED  BY <1>1, <2>1 DEF StatementsMatch, OnlyCheckedSqlRuns, RowsBelongToSql
  <1>2. ASSUME TypeOK, CleanStart, StatementsMatch, ResetTurnState PROVE StatementsMatch'
    BY <1>2
       DEF ResetTurnState, ClearLookup, ClearRun, StatementsMatch, OnlyCheckedSqlRuns,
           RowsBelongToSql, Backed, CleanStart, Opening, ThreadTypes, RunTypes
  <1>3. ASSUME TypeOK, CleanStart, StatementsMatch, LoadContext PROVE StatementsMatch'
    <2>1. \A i \in DOMAIN Recent(history) : Backed(Recent(history)[i])
      BY <1>3, RecentKeeps DEF StatementsMatch, RowsBelongToSql, ThreadTypes
    <2>2. Recent(history) \in Seq(Responses)
      BY <1>3, RecentKeeps DEF ThreadTypes
    <2>3. LastOf(Recent(history)) # None => Backed(LastOf(Recent(history)))
      BY <2>1, <2>2, LastIsIn DEF LastOf
    <2>4. \A i \in DOMAIN history' : Backed(history'[i])
      <3>1. \/ history' = Recent(history)
            \/ \E n \in 0..Len(Recent(history)) : history' = SubSeq(Recent(history), 1, n)
        BY <1>3 DEF LoadContext
      <3>2. ASSUME NEW n \in 0..Len(Recent(history))
            PROVE  \A i \in DOMAIN SubSeq(Recent(history), 1, n) :
                     Backed(SubSeq(Recent(history), 1, n)[i])
        <4>1. \A i \in DOMAIN SubSeq(Recent(history), 1, n) : \E j \in DOMAIN Recent(history) :
                SubSeq(Recent(history), 1, n)[i] = Recent(history)[j]
          BY <2>2, PrefixKeeps
        <4>. QED  BY <2>1, <4>1
      <3>. QED  BY <2>1, <3>1, <3>2
    <2>5. prev' # None => Backed(prev')
      BY <1>3, <2>3 DEF LoadContext
    <2>6. node' = "classify_intent" /\ UNCHANGED <<inputVars, executed, result, reply>>
      BY <1>3 DEF LoadContext
    <2>. QED  BY <1>3, <2>4, <2>5, <2>6
                 DEF StatementsMatch, OnlyCheckedSqlRuns, RowsBelongToSql
  <1>4. ASSUME TypeOK, CleanStart, StatementsMatch, ClassifyIntent PROVE StatementsMatch'
    BY <1>4
       DEF ClassifyIntent, StatementsMatch, OnlyCheckedSqlRuns, RowsBelongToSql, Backed,
           CleanStart, Opening, ThreadTypes, RunTypes
  <1>5. ASSUME TypeOK, CleanStart, StatementsMatch, AnswerFromPrevious PROVE StatementsMatch'
    <2>1. Backed(Reused(prev))
      BY <1>5 DEF StatementsMatch, RowsBelongToSql, Backed, Reused, Response
    <2>2. node' \in {"resolve_lookup_entities", "save_turn"}
          /\ UNCHANGED <<inputVars, history, prev, executed, reply>>
      BY <1>5 DEF AnswerFromPrevious, RouteAfterReuse
    <2>3. result' # None => Backed(result')
      BY <1>5, <2>1 DEF AnswerFromPrevious, StatementsMatch, RowsBelongToSql
    <2>. QED  BY <1>5, <2>2, <2>3 DEF StatementsMatch, OnlyCheckedSqlRuns, RowsBelongToSql
  <1>6. ASSUME TypeOK, CleanStart, StatementsMatch, ResolveLookupEntities
        PROVE  StatementsMatch'
    BY <1>6
       DEF ResolveLookupEntities, RouteAfterLookup, StatementsMatch, OnlyCheckedSqlRuns,
           RowsBelongToSql, Backed, CleanStart, Opening, ThreadTypes, RunTypes
  <1>7. ASSUME TypeOK, CleanStart, StatementsMatch, MakePlan PROVE StatementsMatch'
    <2>1. node' = "validate_sql" => sql' \in Statements
      BY <1>7 DEF MakePlan, RouteAfterPlan, Plans
    <2>2. node' \in {"validate_sql", "out_of_scope_answer", "unsupported_from_plan", "clarify_from_plan"}
          /\ UNCHANGED <<inputVars, history, prev, executed, result, reply>>
      BY <1>7 DEF MakePlan, RouteAfterPlan
    <2>. QED  BY <1>7, <2>1, <2>2 DEF StatementsMatch, OnlyCheckedSqlRuns, RowsBelongToSql
  <1>8. ASSUME TypeOK, CleanStart, StatementsMatch, ValidateSql PROVE StatementsMatch'
    BY <1>8
       DEF ValidateSql, RouteAfterValidate, RetryOr, StatementsMatch, OnlyCheckedSqlRuns,
           RowsBelongToSql, Backed, CleanStart, Opening, ThreadTypes, RunTypes
  <1>9. ASSUME TypeOK, CleanStart, StatementsMatch, ExecuteSql PROVE StatementsMatch'
    <2>1. /\ Len(executed') = Len(executed) + 1 /\ Len(executed) \in Nat
          /\ DOMAIN executed' = 1..(Len(executed) + 1)
          /\ \A i \in 1..Len(executed) : executed'[i] = executed[i]
          /\ executed'[Len(executed) + 1] = [sql |-> sql, ok |-> ~executionError']
      BY <1>9, AppendProperties, LenProperties DEF ExecuteSql, RunTypes
    <2>2. OnlyCheckedSqlRuns'
      <3>1. sql \in accepted /\ accepted' = accepted /\ DOMAIN executed = 1..Len(executed)
        BY <1>9, LenProperties DEF ExecuteSql, StatementsMatch, RunTypes
      <3>. QED  BY <1>9, <2>1, <3>1 DEF StatementsMatch, OnlyCheckedSqlRuns
    <2>3. RowsBelongToSql'
      BY <1>9 DEF ExecuteSql, StatementsMatch, RowsBelongToSql
    <2>4. node' \in {"analyze_result", "retry_sql", "execute_error"}
      BY <1>9 DEF ExecuteSql, RouteAfterExecute, RetryOr
    <2>5. ASSUME node' = "analyze_result"
          PROVE  rows' = sql' /\ executed' # <<>> /\ executed'[Len(executed')] = LastRun'
      <3>1. executionError' = FALSE /\ rows' = sql /\ sql' = sql
        BY <1>9, <2>5 DEF ExecuteSql, RouteAfterExecute, RetryOr
      <3>2. executed'[Len(executed) + 1] = [sql |-> sql, ok |-> TRUE]
        BY <2>1, <3>1
      <3>3. executed' # <<>>
        BY <2>1, EmptySeq
      <3>. QED  BY <2>1, <3>1, <3>2, <3>3 DEF LastRun
    <2>. QED  BY <2>2, <2>3, <2>4, <2>5 DEF StatementsMatch
  <1>10. ASSUME TypeOK, CleanStart, StatementsMatch, RetrySql PROVE StatementsMatch'
    BY <1>10
       DEF RetrySql, StatementsMatch, OnlyCheckedSqlRuns, RowsBelongToSql, Backed, CleanStart,
           Opening, ThreadTypes, RunTypes
  <1>11. ASSUME TypeOK, CleanStart, StatementsMatch, AnalyzeResult PROVE StatementsMatch'
    BY <1>11 DEF AnalyzeResult, StatementsMatch, OnlyCheckedSqlRuns, RowsBelongToSql, LastRun
  <1>12. ASSUME TypeOK, CleanStart, StatementsMatch, Terminal PROVE StatementsMatch'
    <2>1. Backed(result')
      BY <1>12
         DEF Terminal, GlossaryAnswer, SmalltalkAnswer, ClarifyFromLookup,
             UnsupportedFromPlan,
         ClarifyFromPlan, OutOfScopeAnswer, ExecuteError, Synthesize, Response, Backed, StatementsMatch
    <2>. QED  BY <1>12, <2>1, TerminalStep
                 DEF StatementsMatch, OnlyCheckedSqlRuns, RowsBelongToSql
  <1>13. ASSUME TypeOK, RepliesFit, StatementsMatch, SaveTurn PROVE StatementsMatch'
    <2>1. result # None /\ Completed(result) \in Responses
      BY <1>13 DEF SaveTurn, RepliesFit, Completed, Responses, RunTypes, DecisionTypes
    <2>2. Backed(Completed(result))
      <3>1. Backed(result)
        BY <1>13, <2>1 DEF StatementsMatch, RowsBelongToSql
      <3>. QED  BY <1>13, <2>1, <3>1 DEF Completed, Backed, Responses, RunTypes
    <2>3. /\ Append(history, Completed(result)) \in Seq(Responses)
          /\ \A i \in DOMAIN Append(history, Completed(result)) :
               Backed(Append(history, Completed(result))[i])
      BY <1>13, <2>1, <2>2, AppendProperties, LenProperties
         DEF StatementsMatch, RowsBelongToSql, ThreadTypes
    <2>4. \A i \in DOMAIN history' : Backed(history'[i])
      <3>1. history' = Recent(Append(history, Completed(result)))
        BY <1>13 DEF SaveTurn
      <3>2. \A i \in DOMAIN history' : \E j \in DOMAIN Append(history, Completed(result)) :
              history'[i] = Append(history, Completed(result))[j]
        BY <2>3, <3>1, RecentKeeps
      <3>. QED  BY <2>3, <3>2
    <2>5. /\ node' = "END" /\ result' = Completed(result)
          /\ UNCHANGED <<inputVars, prev, reply, executed>>
      BY <1>13 DEF SaveTurn
    <2>. QED  BY <1>13, <2>2, <2>4, <2>5
                 DEF StatementsMatch, OnlyCheckedSqlRuns, RowsBelongToSql
  <1>14. ASSUME TypeOK, CleanStart, StatementsMatch, Return PROVE StatementsMatch'
    BY <1>14
       DEF Return, StatementsMatch, OnlyCheckedSqlRuns, RowsBelongToSql, Backed, CleanStart,
           Opening, ThreadTypes, RunTypes
  <1>15. ASSUME TypeOK, CleanStart, StatementsMatch, Fail PROVE StatementsMatch'
    <2>1. node' = "idle" /\ UNCHANGED <<inputVars, history, prev, result, executed>>
      BY <1>15 DEF Fail
    <2>2. Backed(reply')
      BY <1>15 DEF Fail, Response, Backed
    <2>. QED  BY <1>15, <2>1, <2>2 DEF StatementsMatch, OnlyCheckedSqlRuns, RowsBelongToSql
  <1>16. ASSUME TypeOK, CleanStart, StatementsMatch, Cancel PROVE StatementsMatch'
    BY <1>16
       DEF Cancel, StatementsMatch, OnlyCheckedSqlRuns, RowsBelongToSql, Backed, CleanStart,
           Opening, ThreadTypes, RunTypes
  <1>. QED
    BY <1>0, <1>1, <1>2, <1>3, <1>4, <1>5, <1>6, <1>7, <1>8, <1>9, <1>10, <1>11, <1>12, <1>13,
       <1>14, <1>15, <1>16
       DEF IInv, Next, Node, Terminal

(* The money check settles what may be planned and which notices are due. *)
LEMMA PoliciesSettledStep == IInv /\ [Next]_vars => PoliciesSettled'
  <1>0. ASSUME TypeOK, CleanStart, PoliciesSettled, UNCHANGED vars PROVE PoliciesSettled'
    BY <1>0
       DEF vars, PoliciesSettled, DecisionTypes, ThreadTypes, CleanStart, Opening, Planned,
           Withheld, Substitution
  <1>1. ASSUME TypeOK, CleanStart, PoliciesSettled, Ask PROVE PoliciesSettled'
    BY <1>1
       DEF Ask, PoliciesSettled, DecisionTypes, ThreadTypes, CleanStart, Opening, Planned,
           Withheld, Substitution
  <1>2. ASSUME TypeOK, CleanStart, PoliciesSettled, ResetTurnState PROVE PoliciesSettled'
    BY <1>2
       DEF ResetTurnState, ClearLookup, ClearRun, PoliciesSettled, DecisionTypes, ThreadTypes,
           CleanStart, Opening, Planned, Withheld, Substitution
  <1>3. ASSUME TypeOK, CleanStart, PoliciesSettled, LoadContext PROVE PoliciesSettled'
    BY <1>3
       DEF LoadContext, PoliciesSettled, DecisionTypes, ThreadTypes, CleanStart, Opening,
           Planned, Withheld, Substitution
  <1>4. ASSUME TypeOK, CleanStart, PoliciesSettled, ClassifyIntent PROVE PoliciesSettled'
    BY <1>4
       DEF ClassifyIntent, PoliciesSettled, DecisionTypes, ThreadTypes, CleanStart, Opening,
           Planned, Withheld, Substitution
  <1>5. ASSUME TypeOK, CleanStart, PoliciesSettled, AnswerFromPrevious PROVE PoliciesSettled'
    BY <1>5
       DEF AnswerFromPrevious, RouteAfterReuse, PoliciesSettled, DecisionTypes, ThreadTypes,
           CleanStart, Opening, Planned, Withheld, Substitution
  <1>6. ASSUME TypeOK, CleanStart, PoliciesSettled, ResolveLookupEntities
        PROVE  PoliciesSettled'
    <2>1. CASE Withheld = "money"
      <3>1. /\ applied' = applied /\ applied = {} /\ node' = "out_of_scope_answer"
            /\ outCode' = "role_money_withheld" /\ UNCHANGED <<inputVars, ghostVars>>
        BY <1>6, <2>1 DEF ResolveLookupEntities, RouteAfterLookup, PoliciesSettled, Opening
      <3>2. calls = 0 /\ executed = <<>>
        BY <1>6 DEF ResolveLookupEntities, CleanStart, Opening
      <3>. QED  BY <3>1, <3>2 DEF PoliciesSettled, Opening, Planned, Codes
    <2>2. CASE Withheld = "twin"
      <3>1. applied' = {Substitution} /\ ~outReason' /\ node' \in {"clarify_from_lookup", "make_plan"}
            /\ UNCHANGED <<inputVars, ghostVars>> /\ calls = 0 /\ executed = <<>>
        BY <1>6, <2>2
           DEF ResolveLookupEntities, RouteAfterLookup, PoliciesSettled, CleanStart, Opening
      <3>2. role = "EXEC" /\ asked = "twin"
        BY <1>6, <2>2 DEF Withheld, ThreadTypes
      <3>. QED  BY <3>1, <3>2 DEF PoliciesSettled, Opening, Planned
    <2>3. CASE Withheld = "volume"
      <3>1. applied' = {} /\ ~outReason' /\ node' \in {"clarify_from_lookup", "make_plan"}
            /\ UNCHANGED <<inputVars, ghostVars>> /\ calls = 0 /\ executed = <<>>
        BY <1>6, <2>3
           DEF ResolveLookupEntities, RouteAfterLookup, PoliciesSettled, CleanStart, Opening
      <3>2. ~(role = "EXEC" /\ asked \in {"twin", "money"})
        BY <1>6, <2>3 DEF Withheld, ThreadTypes
      <3>. QED  BY <3>1, <3>2 DEF PoliciesSettled, Opening, Planned
    <2>. QED  BY <1>6, <2>1, <2>2, <2>3 DEF Withheld, ThreadTypes
  <1>7. ASSUME TypeOK, CleanStart, PoliciesSettled, MakePlan PROVE PoliciesSettled'
    <2>1. /\ UNCHANGED <<inputVars, applied, executed>>
          /\ node' \notin Opening /\ node = "make_plan"
      BY <1>7 DEF MakePlan, RouteAfterPlan, Opening
    <2>2. node' = "out_of_scope_answer" => outCode' # None
      BY <1>7 DEF MakePlan, RouteAfterPlan, Plans, Codes
    <2>3. node' = "validate_sql" => ~outReason'
      BY <1>7 DEF MakePlan, RouteAfterPlan, Plans, Codes
    <2>4. node' = "unsupported_from_plan" => cause' = "not_answerable"
      BY <1>7 DEF MakePlan, RouteAfterPlan, Plans
    <2>. QED  BY <1>7, <2>1, <2>2, <2>3, <2>4 DEF PoliciesSettled
  <1>8. ASSUME TypeOK, CleanStart, PoliciesSettled, ValidateSql PROVE PoliciesSettled'
    BY <1>8
       DEF ValidateSql, RouteAfterValidate, RetryOr, PoliciesSettled, DecisionTypes,
           ThreadTypes, CleanStart, Opening, Planned, Withheld, Substitution
  <1>9. ASSUME TypeOK, CleanStart, PoliciesSettled, ExecuteSql PROVE PoliciesSettled'
    BY <1>9
       DEF ExecuteSql, RouteAfterExecute, RetryOr, PoliciesSettled, DecisionTypes,
           ThreadTypes, CleanStart, Opening, Planned, Withheld, Substitution
  <1>10. ASSUME TypeOK, CleanStart, PoliciesSettled, RetrySql PROVE PoliciesSettled'
    BY <1>10
       DEF RetrySql, PoliciesSettled, DecisionTypes, ThreadTypes, CleanStart, Opening,
           Planned, Withheld, Substitution
  <1>11. ASSUME TypeOK, CleanStart, PoliciesSettled, AnalyzeResult PROVE PoliciesSettled'
    BY <1>11
       DEF AnalyzeResult, PoliciesSettled, DecisionTypes, ThreadTypes, CleanStart, Opening,
           Planned, Withheld, Substitution
  <1>12. ASSUME TypeOK, CleanStart, PoliciesSettled, Terminal PROVE PoliciesSettled'
    BY <1>12, TerminalStep
       DEF PoliciesSettled, DecisionTypes, ThreadTypes, CleanStart, Opening, Planned,
           Withheld, Substitution
  <1>13. ASSUME TypeOK, CleanStart, PoliciesSettled, SaveTurn PROVE PoliciesSettled'
    BY <1>13
       DEF SaveTurn, PoliciesSettled, DecisionTypes, ThreadTypes, CleanStart, Opening,
           Planned, Withheld, Substitution
  <1>14. ASSUME TypeOK, CleanStart, PoliciesSettled, Return PROVE PoliciesSettled'
    BY <1>14
       DEF Return, PoliciesSettled, DecisionTypes, ThreadTypes, CleanStart, Opening, Planned,
           Withheld, Substitution
  <1>15. ASSUME TypeOK, CleanStart, PoliciesSettled, Fail PROVE PoliciesSettled'
    BY <1>15
       DEF Fail, PoliciesSettled, DecisionTypes, ThreadTypes, CleanStart, Opening, Planned,
           Withheld, Substitution
  <1>16. ASSUME TypeOK, CleanStart, PoliciesSettled, Cancel PROVE PoliciesSettled'
    BY <1>16
       DEF Cancel, PoliciesSettled, DecisionTypes, ThreadTypes, CleanStart, Opening, Planned,
           Withheld, Substitution
  <1>. QED
    BY <1>0, <1>1, <1>2, <1>3, <1>4, <1>5, <1>6, <1>7, <1>8, <1>9, <1>10, <1>11, <1>12, <1>13,
       <1>14, <1>15, <1>16
       DEF IInv, Next, Node, Terminal

(* The pending result and the reply fit what the turn ran and substituted. *)
LEMMA RepliesFitStep == IInv /\ [Next]_vars => RepliesFit'
  <1>0. ASSUME TypeOK, CleanStart, RoundsCounted, StatementsMatch, PoliciesSettled, RepliesFit,
               UNCHANGED vars
        PROVE  RepliesFit'
    BY <1>0
       DEF vars, RepliesFit, ReplyIsRemembered, LastOf, Told, Contract!FitsRun,
           Contract!FitsNotices, Completed
  <1>1. ASSUME TypeOK, CleanStart, RoundsCounted, StatementsMatch, PoliciesSettled, RepliesFit, Ask
        PROVE  RepliesFit'
    BY <1>1 DEF Ask, RepliesFit, ReplyIsRemembered
  <1>2. ASSUME TypeOK, CleanStart, RoundsCounted, StatementsMatch, PoliciesSettled, RepliesFit,
               ResetTurnState
        PROVE  RepliesFit'
    BY <1>2 DEF ResetTurnState, ClearLookup, ClearRun, RepliesFit, ReplyIsRemembered
  <1>3. ASSUME TypeOK, CleanStart, RoundsCounted, StatementsMatch, PoliciesSettled, RepliesFit,
               LoadContext
        PROVE  RepliesFit'
    BY <1>3 DEF LoadContext, RepliesFit, ReplyIsRemembered
  <1>4. ASSUME TypeOK, CleanStart, RoundsCounted, StatementsMatch, PoliciesSettled, RepliesFit,
               ClassifyIntent
        PROVE  RepliesFit'
    BY <1>4 DEF ClassifyIntent, RepliesFit, ReplyIsRemembered
  <1>5. ASSUME TypeOK, CleanStart, RoundsCounted, StatementsMatch, PoliciesSettled, RepliesFit,
               AnswerFromPrevious
        PROVE  RepliesFit'
    <2>1. /\ node' \in {"resolve_lookup_entities", "save_turn"} /\ reply' = None
          /\ executed' = <<>> /\ applied' = {}
      BY <1>5
         DEF AnswerFromPrevious, RouteAfterReuse, RepliesFit, CleanStart, PoliciesSettled,
             Opening
    <2>2. node' = "save_turn" => result' = Reused(prev)
      BY <1>5 DEF AnswerFromPrevious, RouteAfterReuse, CleanStart, Opening
    <2>3. ASSUME node' = "save_turn" PROVE result' # None /\ Told(Completed(result))'
      <3>1. /\ result' \in Responses /\ Completed(result)'.type = "analytics"
            /\ Completed(result)'.policies = {}
        BY <1>5, <2>1, <2>2, <2>3
           DEF Reused, Response, Responses, Types, Completed, RunTypes, ThreadTypes
      <3>. QED  BY <2>1, <3>1
                   DEF Told, Contract!FitsRun, Contract!FitsNotices, Contract!Refusals
    <2>. QED  BY <2>1, <2>3 DEF RepliesFit, ReplyIsRemembered
  <1>6. ASSUME TypeOK, CleanStart, RoundsCounted, StatementsMatch, PoliciesSettled, RepliesFit,
               ResolveLookupEntities
        PROVE  RepliesFit'
    BY <1>6 DEF ResolveLookupEntities, RouteAfterLookup, RepliesFit, ReplyIsRemembered
  <1>7. ASSUME TypeOK, CleanStart, RoundsCounted, StatementsMatch, PoliciesSettled, RepliesFit,
               MakePlan
        PROVE  RepliesFit'
    BY <1>7 DEF MakePlan, RouteAfterPlan, Plans, RepliesFit, ReplyIsRemembered
  <1>8. ASSUME TypeOK, CleanStart, RoundsCounted, StatementsMatch, PoliciesSettled, RepliesFit,
               ValidateSql
        PROVE  RepliesFit'
    BY <1>8 DEF ValidateSql, RouteAfterValidate, RetryOr, RepliesFit, ReplyIsRemembered
  <1>9. ASSUME TypeOK, CleanStart, RoundsCounted, StatementsMatch, PoliciesSettled, RepliesFit,
               ExecuteSql
        PROVE  RepliesFit'
    BY <1>9 DEF ExecuteSql, RouteAfterExecute, RetryOr, RepliesFit, ReplyIsRemembered
  <1>10. ASSUME TypeOK, CleanStart, RoundsCounted, StatementsMatch, PoliciesSettled, RepliesFit,
                RetrySql
         PROVE  RepliesFit'
    BY <1>10 DEF RetrySql, RepliesFit, ReplyIsRemembered
  <1>11. ASSUME TypeOK, CleanStart, RoundsCounted, StatementsMatch, PoliciesSettled, RepliesFit,
                AnalyzeResult
         PROVE  RepliesFit'
    BY <1>11 DEF AnalyzeResult, RepliesFit, ReplyIsRemembered
  <1>12. ASSUME TypeOK, CleanStart, RoundsCounted, StatementsMatch, PoliciesSettled, RepliesFit,
                Terminal
         PROVE  RepliesFit'
    <2>1. result' # None /\ Told(Completed(result))'
      BY <1>12, TerminalFits
    <2>2. node # "idle" /\ node' = "save_turn" /\ reply' = reply
      BY <1>12, TerminalStep DEF Terminal, GlossaryAnswer, SmalltalkAnswer, ClarifyFromLookup,
         UnsupportedFromPlan, ClarifyFromPlan, OutOfScopeAnswer, ExecuteError, Synthesize
    <2>. QED  BY <1>12, <2>1, <2>2 DEF RepliesFit, ReplyIsRemembered
  <1>13. ASSUME TypeOK, CleanStart, RoundsCounted, StatementsMatch, PoliciesSettled, RepliesFit,
                SaveTurn
         PROVE  RepliesFit'
    <2>1. /\ result # None /\ Told(Completed(result)) /\ Completed(result) \in Responses
          /\ reply = None
      BY <1>13 DEF SaveTurn, RepliesFit, Completed, Responses, RunTypes, DecisionTypes
    <2>2. /\ node' = "END" /\ result' = Completed(result)
          /\ history' = Recent(Append(history, Completed(result)))
          /\ UNCHANGED <<role, asked, executed, reply>>
      BY <1>13 DEF SaveTurn
    <2>3. result' # None /\ Told(result)'
      BY <2>1, <2>2 DEF Told, Contract!FitsRun, Contract!FitsNotices
    <2>4. LastOf(history') = result'
      BY <1>13, <2>1, <2>2, TurnIsLast DEF ThreadTypes
    <2>. QED  BY <2>1, <2>2, <2>3, <2>4 DEF RepliesFit, ReplyIsRemembered, LastOf
  <1>14. ASSUME TypeOK, CleanStart, RoundsCounted, StatementsMatch, PoliciesSettled, RepliesFit,
                Return
         PROVE  RepliesFit'
    <2>1. /\ node' = "idle" /\ reply' = result /\ result' = result
          /\ UNCHANGED <<role, asked, history, executed>>
      BY <1>14 DEF Return
    <2>2. Told(reply)' /\ LastOf(history') = reply'
      BY <1>14, <2>1
         DEF Return, RepliesFit, Told, Contract!FitsRun, Contract!FitsNotices, LastOf
    <2>. QED  BY <2>1, <2>2 DEF RepliesFit, ReplyIsRemembered, LastOf
  <1>15. ASSUME TypeOK, CleanStart, RoundsCounted, StatementsMatch, PoliciesSettled, RepliesFit, Fail
         PROVE  RepliesFit'
    <2>1. /\ node' = "idle" /\ reply'.type = "error" /\ reply'.policies = {}
      BY <1>15 DEF Fail, Response
    <2>2. Told(reply)'
      BY <2>1 DEF Told, Contract!FitsRun, Contract!FitsNotices, Contract!Refusals
    <2>. QED  BY <2>1, <2>2 DEF RepliesFit, ReplyIsRemembered
  <1>16. ASSUME TypeOK, CleanStart, RoundsCounted, StatementsMatch, PoliciesSettled, RepliesFit,
                Cancel
         PROVE  RepliesFit'
    BY <1>16 DEF Cancel, RepliesFit, ReplyIsRemembered
  <1>. QED
    BY <1>0, <1>1, <1>2, <1>3, <1>4, <1>5, <1>6, <1>7, <1>8, <1>9, <1>10, <1>11, <1>12, <1>13,
       <1>14, <1>15, <1>16
       DEF IInv, Next, Node, Terminal

(* A thread with no checkpoint satisfies the invariant. *)
LEMMA InitFits == Init => IInv
  <1>. SUFFICES ASSUME Init PROVE IInv
    OBVIOUS
  <1>1. ThreadTypes
    <2>1. node \in Nodes /\ followup \in BOOLEAN
      BY DEF Init, Nodes
    <2>4. turn \in 0..MaxTurns
      BY DEF Init
    <2>2. history \in Seq(Responses) /\ prev \in Responses \union {None}
      BY EmptySeq DEF Init
    <2>3. role \in {"HOD", "EXEC"} /\ asked \in {"volume", "twin", "money"}
          /\ accepted \in SUBSET Statements
      BY DEF Init
    <2>. QED  BY <2>1, <2>2, <2>3, <2>4 DEF ThreadTypes
  <1>2. DecisionTypes
    <2>1. route \in Routes \union {None} /\ lookupNeeds \in BOOLEAN /\ applied \in SUBSET Policy
      BY DEF Init
    <2>2. outReason \in BOOLEAN /\ outCode \in Codes \union {None}
      BY DEF Init
    <2>3. /\ sql \in Statements \union {None}
          /\ planStatus \in {"answerable", "needs_clarification", "unsupported", None}
          /\ cause \in {"not_answerable", "customer_identity"}
      BY DEF Init
    <2>. QED  BY <2>1, <2>2, <2>3 DEF DecisionTypes
  <1>3. RunTypes
    <2>1. validationError \in BOOLEAN /\ executionError \in BOOLEAN
      BY DEF Init
    <2>2. retryCount \in 0..MaxRetries /\ calls \in Nat
      BY DEF Init
    <2>3. /\ rows \in Statements \union {None} /\ result \in Responses \union {None}
          /\ reply \in Responses \union {None}
      BY DEF Init
    <2>4. executed \in Seq(Runs)
      BY EmptySeq DEF Init
    <2>. QED  BY <2>1, <2>2, <2>3, <2>4 DEF RunTypes
  <1>4. /\ node = "idle" /\ role \in {"HOD", "EXEC"} /\ asked = "volume" /\ applied = {}
        /\ calls = 0 /\ executed = <<>> /\ history = <<>>
        /\ prev = None /\ result = None /\ reply = None
    BY DEF Init
  <1>5. CleanStart
    BY <1>4 DEF CleanStart, FirstPlanStartsClean, Opening
  <1>6. RoundsCounted
    BY <1>4, EmptySeq DEF RoundsCounted, Unanswered
  <1>7. StatementsMatch
    BY <1>4, EmptySeq DEF StatementsMatch, OnlyCheckedSqlRuns, RowsBelongToSql
  <1>8. PoliciesSettled
    BY <1>4 DEF PoliciesSettled, Opening, Planned
  <1>9. RepliesFit
    BY <1>4 DEF RepliesFit, ReplyIsRemembered
  <1>. QED  BY <1>1, <1>2, <1>3, <1>5, <1>6, <1>7, <1>8, <1>9 DEF IInv

(* The strengthened invariant holds in every reachable state: however turns are cut
   short, retried, refused or reused. *)
THEOREM Inductive == Spec => []IInv
  <1>1. IInv /\ [Next]_vars => IInv'
    BY TypeStep, CleanStartStep, RoundsCountedStep, StatementsMatchStep, PoliciesSettledStep,
       RepliesFitStep DEF IInv
  <1>. QED  BY InitFits, <1>1, PTL DEF Spec

(* Every state field keeps its type. *)
THEOREM TypeCorrect == Spec => []TypeOK
  <1>1. IInv => TypeOK
    BY DEF IInv
  <1>. QED  BY Inductive, <1>1, PTL

(* No statement reaches run_sql that the validators did not pass for this question. *)
THEOREM CheckedSqlOnly == Spec => []OnlyCheckedSqlRuns
  <1>1. IInv => OnlyCheckedSqlRuns
    BY DEF IInv, StatementsMatch
  <1>. QED  BY Inductive, <1>1, PTL

(* A turn plans at most 1 + max_sql_retries times and stops running statements at
   the first that succeeds. *)
THEOREM BudgetKept == Spec => []RetryBudget
  <1>1. IInv => RetryBudget
    BY DEF IInv, RoundsCounted, RetryBudget
  <1>. QED  BY Inductive, <1>1, PTL

(* Whatever carries rows shows the statement they came from, also when reused. *)
THEOREM RowsMatchSql == Spec => []RowsBelongToSql
  <1>1. IInv => RowsBelongToSql
    BY DEF IInv, StatementsMatch
  <1>. QED  BY Inductive, <1>1, PTL

(* A computed answer shows the last statement run, and that one succeeded. *)
THEOREM AnswersShowTheLastRun == Spec => []AnswerIsTheLastRun
  <1>1. IInv => AnswerIsTheLastRun
    BY DEF IInv, RepliesFit, Told, AnswerIsTheLastRun
  <1>. QED  BY Inductive, <1>1, PTL

(* What run() returned is the last payload of the history, unless it is an error. *)
THEOREM RepliesRemembered == Spec => []ReplyIsRemembered
  <1>1. IInv => ReplyIsRemembered
    BY DEF IInv, RepliesFit
  <1>. QED  BY Inductive, <1>1, PTL

(* An executive's revenue-only question is neither planned nor run, on any path. *)
THEOREM MoneyWithheld == Spec => []MoneyNeverPlanned
  <1>1. IInv => MoneyNeverPlanned
    BY DEF IInv, PoliciesSettled, MoneyNeverPlanned
  <1>. QED  BY Inductive, <1>1, PTL

(* A computed answer carries the substitution notice exactly when the caller's
   question had its revenue measure replaced. *)
THEOREM NoticesTruthful == Spec => []SubstitutionReported
  <1>1. IInv => SubstitutionReported
    BY DEF IInv, RepliesFit, Told, SubstitutionReported
  <1>. QED  BY Inductive, <1>1, PTL

(* The first plan of a turn sees nothing of an earlier turn. *)
THEOREM PlansStartClean == Spec => []FirstPlanStartsClean
  <1>1. IInv => FirstPlanStartsClean
    BY DEF IInv, CleanStart
  <1>. QED  BY Inductive, <1>1, PTL

(* A follow-up that needs fresh data goes on to planning. *)
THEOREM ReplansGoOn == Spec => ReplanReachesPlanning
  <1>1. IInv /\ [Next]_vars =>
          [AnswerFromPrevious /\ route' = "plan_sql" => node' = "resolve_lookup_entities"]_vars
    BY DEF IInv, CleanStart, Opening, AnswerFromPrevious, RouteAfterReuse, Reused
  <1>. QED  BY Inductive, <1>1, PTL DEF Spec, ReplanReachesPlanning

(* Only execute_sql runs a statement and only run() itself replies; every other node
   hands over to a node. *)
LEMMA OthersRunNothing ==
  ASSUME IInv, Node, ~ExecuteSql, ~Return
  PROVE  UNCHANGED <<executed, reply>> /\ node # "idle" /\ node' # "idle"
  BY DEF Node, ResetTurnState, LoadContext, ClassifyIntent, AnswerFromPrevious,
         GlossaryAnswer,
     SmalltalkAnswer, ResolveLookupEntities, ClarifyFromLookup, MakePlan, UnsupportedFromPlan,
     ClarifyFromPlan, OutOfScopeAnswer, ValidateSql, RetrySql, ExecuteError, AnalyzeResult,
     Synthesize, SaveTurn, RouteAfterReuse, RouteAfterLookup, RouteAfterPlan, RouteAfterValidate, RetryOr

(* Every step of the graph is a step of the contract, or changes nothing it sees. *)
LEMMA ContractStep == IInv /\ IInv' /\ [Next]_vars => [Contract!Next]_Contract!vars
  <1>1. ASSUME UNCHANGED <<node, executed, reply>> PROVE UNCHANGED Contract!vars
    BY <1>1 DEF Contract!vars
  <1>2. ASSUME IInv, Ask PROVE Contract!Open
    <2>1. /\ node = "idle" /\ node' = "reset_turn_state" /\ executed' = <<>> /\ reply' = None
      BY <1>2 DEF Ask
    <2>. QED  BY <2>1, EmptySeq DEF Contract!Open
  <1>3. ASSUME IInv, ExecuteSql PROVE Contract!Try
    <2>1. /\ executed \in Seq(Runs) /\ sql \in Statements /\ executionError' \in BOOLEAN
          /\ executed' = Append(executed, [sql |-> sql, ok |-> ~executionError'])
      BY <1>3 DEF IInv, RunTypes, StatementsMatch, ExecuteSql
    <2>2. /\ Len(executed) \in Nat /\ Len(executed') = Len(executed) + 1
          /\ executed'[Len(executed')] = [sql |-> sql, ok |-> ~executionError']
      BY <2>1, AppendProperties, LenProperties
    <2>3. executed # <<>> => ~executed[Len(executed)].ok
      BY <1>3, <2>1, LastIsIn DEF IInv, RoundsCounted, Unanswered, NoRowsYet, ExecuteSql
    <2>4. Len(executed) < MaxRetries + 1
      BY <1>3, <2>2 DEF IInv, RoundsCounted, ExecuteSql, RunTypes
    <2>5. node # "idle" /\ node' # "idle" /\ UNCHANGED reply
      BY <1>3 DEF ExecuteSql, RouteAfterExecute, RetryOr
    <2>6. executed'[Len(executed')].ok \in BOOLEAN
      <3>1. CASE executionError' = TRUE
        BY <2>2, <3>1
      <3>2. CASE executionError' = FALSE
        BY <2>2, <3>2
      <3>. QED  BY <2>1, <3>1, <3>2
    <2>. QED  BY <2>2, <2>3, <2>4, <2>5, <2>6 DEF Contract!Try
  <1>4. ASSUME IInv, IInv', Return \/ Fail \/ Cancel PROVE Contract!Close
    <2>1. node # "idle" /\ node' = "idle" /\ UNCHANGED executed
      BY <1>4 DEF Return, Fail, Cancel
    <2>2. reply' # None => /\ reply'.type \in Types
                           /\ Contract!FitsRun(reply'.type)
                           /\ Contract!FitsNotices(reply'.type, {p.effect : p \in reply'.policies})
      <3>1. reply' # None => Told(reply)' /\ reply' \in Responses
        BY <1>4 DEF IInv, RepliesFit, RunTypes
      <3>. QED  BY <2>1, <3>1 DEF Told, Contract!FitsRun, Contract!FitsNotices, Responses
    <2>3. CASE reply' = None
      BY <2>1, <2>3 DEF Contract!Close
    <2>4. CASE reply' # None
      BY <2>1, <2>2, <2>4 DEF Contract!Close, Types
    <2>. QED  BY <2>3, <2>4
  <1>5. ASSUME IInv, Node, ~ExecuteSql, ~Return PROVE UNCHANGED Contract!vars
    <2>1. UNCHANGED <<executed, reply>> /\ node # "idle" /\ node' # "idle"
      BY <1>5, OthersRunNothing
    <2>. QED  BY <2>1 DEF Contract!vars
  <1>6. ASSUME IInv, UNCHANGED vars PROVE UNCHANGED Contract!vars
    BY <1>1, <1>6 DEF vars
  <1>. QED  BY <1>2, <1>3, <1>4, <1>5, <1>6 DEF Next, Contract!Next

(* The graph implements the caller's contract: every behaviour of CopilotTurn is one
   of TurnContract under the refinement mapping. *)
THEOREM ImplementsContract == Spec => KeepsContract
  <1>1. Init => Contract!Init
    BY EmptySeq DEF Init, Contract!Init
  <1>. QED  BY <1>1, Inductive, ContractStep, PTL DEF Spec, KeepsContract, Contract!Spec
=============================================================================
