----------------------- MODULE DQSessionRecords_proofs -----------------------
(***************************************************************************)
(* What a session leaves behind, proved for every number of overlapping    *)
(* requests and under every fault and crash: the rows of dq_workflow_state *)
(* and what was run or scheduled for it.  With one request at a time, and  *)
(* inserts that do not fail, the newest row and the audit log show the     *)
(* decisions in force.                                                     *)
(***************************************************************************)
EXTENDS DQSession_proofs

-----------------------------------------------------------------------------
(* Rows of dq_workflow_state                                               *)

\* What a row shows is among the grants.
Shows(row, grants) ==
    /\ \A c \in Checkpoints : row.approval[c] = "approved" => c \in grants
    /\ row.stage = "complete" => 2 \in grants

\* A row may be inserted long after it was built, so the ones in flight count
\* as well.
RowsInv == Shows(stateRow, granted) /\ \A t \in Tasks : Shows(local[t].row, granted)

\* The row _persist_state builds in a step.
RowBuilt == [stage |-> stage', approval |-> approval', version |-> ruleSet'.version]

\* In a step of handler t no other one's row changes, and its own is kept,
\* given up or built; nothing but its own is inserted.
RowMoves(t) ==
    /\ \A u \in Tasks \ {t} : local'[u].row = local[u].row
    /\ local'[t].row \in {local[t].row, NoRow, RowBuilt}
    /\ stateRow' \in {stateRow, local[t].row}

\* The ways to go on.
LEMMA RowKept ==
    ASSUME TypeOK, NEW t \in Tasks, NEW at, NEW l, l.row \in {local[t].row, NoRow},
           Suspend(t, at, l), stateRow' \in {stateRow, local[t].row}
    PROVE  RowMoves(t)
BY DEF TypeOK, Suspend, RowMoves

\* ... given up, the handler having returned ...
LEMMA RowGivenUp ==
    ASSUME TypeOK, NEW t \in Tasks, Return(t), stateRow' \in {stateRow, local[t].row}
    PROVE  RowMoves(t)
BY DEF TypeOK, Return, Suspend, NoLocal, RowMoves

\* ... or built, the handler being about to insert it.
LEMMA RowPersisted ==
    ASSUME TypeOK, NEW t \in Tasks, NEW at, NEW l \in LocalType,
           Persist(t, at, l), stateRow' \in {stateRow, local[t].row}
    PROVE  RowMoves(t)
<1>1. [l EXCEPT !.row = RowBuilt].row = RowBuilt
  BY DEF LocalType
<1> QED BY <1>1 DEF TypeOK, Persist, Suspend, RowMoves, RowBuilt

\* Any of these steps keeps what the rows show granted.
LEMMA RowsKept ==
    ASSUME TypeOK, RowsInv, GateInv', granted \subseteq granted', NEW t \in Tasks, RowMoves(t)
    PROVE  RowsInv'
<1>1. \A row : Shows(row, granted) => Shows(row, granted')
  BY DEF Shows
<1>2. Shows(NoRow, granted')
  BY DEF Shows, NoRow
<1>3. Shows(RowBuilt, granted')
  BY DEF Shows, RowBuilt, GateInv, CompleteNeedsSignOff
<1>4. \A u \in Tasks : Shows(local'[u].row, granted')
  BY <1>1, <1>2, <1>3 DEF RowMoves, RowsInv
<1>5. Shows(stateRow', granted')
  BY <1>1 DEF RowMoves, RowsInv
<1> QED BY <1>4, <1>5 DEF RowsInv

\* POST /discovery/start and POST /rules/generate.
LEMMA GenerationRows ==
    ASSUME TypeOK, NEW t \in Tasks,
           \/ StartDiscovery(t) \/ WorkflowStarted(t) \/ DiscoveryPersisted(t)
           \/ MetadataDiscovered(t) \/ SessionRegistered(t)
           \/ \E business \in BOOLEAN : GenerateTechnical(t, business)
           \/ TechnicalPersisted(t) \/ GenerateBusiness(t)
           \/ BusinessRulesInferred(t) \/ BusinessRulesFailed(t) \/ BusinessPersisted(t)
    PROVE  RowMoves(t)
<1> USE NoLocalType
<1>a. NoLocal.row = NoRow
  BY DEF NoLocal
<1>b. ASSUME EnterBusiness(t), stateRow' \in {stateRow, local[t].row} PROVE RowMoves(t)
  <2> DEFINE l == [NoLocal EXCEPT !.version = ruleSet.version, !.tables = metadata]
  <2>1. l.row = NoRow
    BY DEF NoLocal
  <2>2. CASE Suspend(t, "business_llm", l)
    <3> HIDE DEF l
    <3> QED BY <1>b, <2>1, <2>2, RowKept
  <2>3. CASE Return(t) \/ Persist(t, "business_insert", NoLocal)
    BY <1>b, <2>3, RowGivenUp, RowPersisted
  <2> QED BY <1>b, <2>2, <2>3 DEF EnterBusiness
<1>1. CASE StartDiscovery(t) \/ WorkflowStarted(t) \/ MetadataDiscovered(t)
  BY <1>1, RowPersisted DEF StartDiscovery, WorkflowStarted, MetadataDiscovered, RowInserted, tables
<1>2. CASE DiscoveryPersisted(t)
  BY <1>2, <1>a, RowKept DEF DiscoveryPersisted, RowInserted
<1>3. CASE SessionRegistered(t) \/ BusinessPersisted(t)
  BY <1>3, RowGivenUp DEF SessionRegistered, BusinessPersisted, RowInserted
<1>4. CASE \E business \in BOOLEAN : GenerateTechnical(t, business)
  <2>1. PICK business \in BOOLEAN : GenerateTechnical(t, business)
    BY <1>4
  <2>2. [NoLocal EXCEPT !.business = business] \in LocalType
    BY DEF LocalType
  <2> QED BY <2>1, <2>2, RowPersisted DEF GenerateTechnical, tables
<1>5. CASE TechnicalPersisted(t)
  BY <1>5, <1>b, RowGivenUp DEF TechnicalPersisted, RowInserted
<1>6. CASE GenerateBusiness(t)
  BY <1>6, <1>b DEF GenerateBusiness, tables
<1>7. CASE BusinessRulesInferred(t)
  <2>1. PICK table \in local[t].tables :
          LET left == local[t].tables \ {table}
          IN \/ Persist(t, "business_insert", NoLocal)
             \/ Suspend(t, "business_llm", [local[t] EXCEPT !.tables = left])
    BY <1>7 DEF BusinessRulesInferred
  <2> DEFINE l == [local[t] EXCEPT !.tables = local[t].tables \ {table}]
  <2>2. l.row = local[t].row /\ UNCHANGED stateRow
    BY <1>7, LocalOf DEF BusinessRulesInferred, LocalType, tables
  <2>3. Persist(t, "business_insert", NoLocal) \/ Suspend(t, "business_llm", l)
    BY <2>1
  <2> HIDE DEF l
  <2> QED BY <2>2, <2>3, RowKept, RowPersisted
<1>8. CASE BusinessRulesFailed(t)
  BY <1>8, RowPersisted DEF BusinessRulesFailed, tables
<1> QED BY <1>1, <1>2, <1>3, <1>4, <1>5, <1>6, <1>7, <1>8

\* SQL generation, of its own or behind an approval.
LEMMA StartSQLRows ==
    ASSUME TypeOK, NEW t \in Tasks, NEW l, l \in {NoLocal, [NoLocal EXCEPT !.approving = TRUE]},
           StartSQLGeneration(t, l), UNCHANGED stateRow
    PROVE  RowMoves(t)
<1> DEFINE snapshot == Active(AllRules(ruleSet))
           now == [l EXCEPT !.snapshot = snapshot,
                            !.claude = snapshot \ (Supported \cup CustomRules)]
<1>1. now.row = NoRow
  BY DEF NoLocal
<1>2. Suspend(t, "rules_insert", now) \/ Suspend(t, "sql_claude", now)
  BY DEF StartSQLGeneration, StoreRules
<1> HIDE DEF now
<1> QED BY <1>1, <1>2, RowKept

\* The generation of SQL goes on in one of these ways.
LEMMA SQLRows ==
    ASSUME TypeOK, NEW t \in Tasks,
           \/ RequestSQL(t) \/ SQLInferred(t) \/ RulesInserted(t) \/ ProcedureAnswered(t)
           \/ SQLPersisted(t)
    PROVE  RowMoves(t) \/ UNCHANGED <<local, stateRow>>
<1> USE LocalOf
<1>1. CASE RequestSQL(t)
  BY <1>1, StartSQLRows DEF RequestSQL, tables
<1>2. CASE SQLInferred(t)
  <2>1. PICK r \in local[t].claude :
          LET now == [local[t] EXCEPT !.claude = @ \ {r}]
          IN Suspend(t, "rules_insert", now) \/ Suspend(t, "sql_claude", now)
    BY <1>2 DEF SQLInferred, StoreRules
  <2> DEFINE now == [local[t] EXCEPT !.claude = @ \ {r}]
  <2>2. now.row = local[t].row /\ UNCHANGED stateRow
    BY <1>2 DEF SQLInferred, LocalType, tables
  <2>3. Suspend(t, "rules_insert", now) \/ Suspend(t, "sql_claude", now)
    BY <2>1
  <2> HIDE DEF now
  <2> QED BY <2>2, <2>3, RowKept
<1>3. CASE RulesInserted(t)
  <2> DEFINE l == [WorkDone(t) EXCEPT !.built = Deployable(local[t].snapshot)]
  <2>1. l.row = NoRow /\ UNCHANGED stateRow
    BY <1>3 DEF RulesInserted, WorkDone, NoLocal, tables
  <2>2. Persist(t, "sql_insert", WorkDone(t)) \/ Suspend(t, "sql_ddl", l)
    BY <1>3 DEF RulesInserted
  <2> HIDE DEF l
  <2> QED BY <2>1, <2>2, RowKept, RowPersisted
<1>4. CASE ProcedureAnswered(t)
  BY <1>4, RowPersisted DEF ProcedureAnswered, tables
<1>5. CASE SQLPersisted(t)
  BY <1>5, RowPersisted, RowGivenUp DEF SQLPersisted, RowInserted
<1> QED BY <1>1, <1>2, <1>3, <1>4, <1>5

\* Decisions and what follows them.
LEMMA DecisionRows ==
    ASSUME TypeOK, NEW t \in Tasks,
           \/ SubmitDecision(t) \/ ApprovalRecorded(t) \/ ApproveRules(t) \/ RefuseRules(t)
           \/ SignOff(t) \/ RefuseSignOff(t) \/ ReportsCreated(t) \/ ReportPersisted(t)
           \/ DecisionPersisted(t) \/ DagDeployed(t)
    PROVE  RowMoves(t)
<1> USE LocalOf
<1>a. NoLocal.row = NoRow
  BY DEF NoLocal
<1>b. [NoLocal EXCEPT !.approving = TRUE] \in LocalType
  BY NoLocalType DEF LocalType
<1>1. CASE SubmitDecision(t)
  <2>1. PICK c \in Checkpoints, d \in Decisions :
          Suspend(t, "approval_insert",
                  [NoLocal EXCEPT !.checkpoint = c, !.decision = d, !.stamp = clock'])
    BY <1>1 DEF SubmitDecision
  <2> DEFINE l == [NoLocal EXCEPT !.checkpoint = c, !.decision = d, !.stamp = clock']
  <2>2. l.row = NoRow /\ UNCHANGED stateRow /\ Suspend(t, "approval_insert", l)
    BY <1>1, <2>1 DEF SubmitDecision, NoLocal
  <2> HIDE DEF l
  <2> QED BY <2>2, RowKept
<1>2. CASE ApprovalRecorded(t)
  <2> DEFINE l == [local[t] EXCEPT !.stamp = clock']
  <2>1. l.row = local[t].row /\ UNCHANGED stateRow /\ Suspend(t, "audit_insert", l)
    BY <1>2 DEF ApprovalRecorded, LocalType
  <2> HIDE DEF l
  <2> QED BY <2>1, RowKept
<1>3. CASE ApproveRules(t)
  BY <1>3, <1>b, StartSQLRows, RowPersisted DEF ApproveRules
<1>4. CASE RefuseRules(t) \/ RefuseSignOff(t)
  BY <1>4, RowPersisted, RowGivenUp DEF RefuseRules, RefuseSignOff
<1>5. CASE SignOff(t)
  BY <1>5, <1>a, RowKept DEF SignOff
<1>6. CASE ReportsCreated(t) \/ ReportPersisted(t)
  BY <1>6, RowPersisted DEF ReportsCreated, ReportPersisted, RowInserted, tables
<1>7. CASE DecisionPersisted(t)
  BY <1>7, <1>a, RowKept, RowGivenUp DEF DecisionPersisted, RowInserted
<1>8. CASE DagDeployed(t)
  BY <1>8, RowGivenUp DEF DagDeployed, tables
<1> QED BY <1>1, <1>2, <1>3, <1>4, <1>5, <1>6, <1>7, <1>8

\* Executions.
LEMMA ExecutionRows ==
    ASSUME TypeOK, NEW t \in Tasks, Execute(t) \/ ExecutionReady(t) \/ ExecutionDone(t)
    PROVE  RowMoves(t)
<1>1. CASE Execute(t)
  <2> DEFINE l == [NoLocal EXCEPT !.snapshot = AllRules(ruleSet), !.useProcedure = spName]
  <2>1. l.row = NoRow /\ UNCHANGED stateRow /\ Suspend(t, "execute_setup", l)
    BY <1>1 DEF Execute, NoLocal, tables
  <2> HIDE DEF l
  <2> QED BY <2>1, RowKept
<1>2. CASE ExecutionReady(t)
  <2> DEFINE l == [local[t] EXCEPT !.snapshot = Active(@) \cap hasSQL]
  <2>1. l.row = local[t].row /\ UNCHANGED stateRow
    BY <1>2, LocalOf DEF ExecutionReady, LocalType, tables
  <2>2. Suspend(t, "execute_run", l) \/ Return(t)
    BY <1>2 DEF ExecutionReady
  <2> HIDE DEF l
  <2> QED BY <2>1, <2>2, RowKept, RowGivenUp
<1>3. CASE ExecutionDone(t)
  BY <1>3, RowGivenUp DEF ExecutionDone, tables
<1> QED BY <1>1, <1>2, <1>3

\* No step makes a row show more than was granted.
LEMMA RowsStep ==
    ASSUME TypeOK, GateInv, RowsInv, [Next]_vars
    PROVE  RowsInv'
<1>1. GateInv' /\ granted \subseteq granted'
  BY GateStep DEF Gates!Next, Gates!vars, Gates!Grant, Gates!Deploy, Gates!Finish
<1>2. CASE UNCHANGED <<local, stateRow>>
  BY <1>1, <1>2 DEF RowsInv, Shows
<1>3. CASE Crash
  <2>1. \A u \in Tasks : local'[u].row = NoRow
    BY <1>3 DEF Crash, NoLocal
  <2>2. stateRow' = stateRow \/ \E u \in Tasks : stateRow' = local[u].row
    BY <1>3 DEF Crash, At
  <2>3. Shows(NoRow, granted')
    BY DEF Shows, NoRow
  <2>4. Shows(stateRow', granted')
    BY <1>1, <2>2 DEF RowsInv, Shows
  <2> QED BY <2>1, <2>3, <2>4 DEF RowsInv
<1>4. ASSUME NEW t \in Tasks, Arrive(t) PROVE RowMoves(t) \/ UNCHANGED <<local, stateRow>>
  BY <1>4, GenerationRows, SQLRows, DecisionRows, ExecutionRows
     DEF Arrive, AddCustomRule, SetActive, Refused, vars, tables
<1>5. ASSUME NEW t \in Tasks, Resume(t) PROVE RowMoves(t) \/ UNCHANGED <<local, stateRow>>
  BY <1>5, GenerationRows, SQLRows, DecisionRows, ExecutionRows DEF Resume
<1>6. CASE UNCHANGED vars
  BY <1>2, <1>6 DEF vars, tables
<1>7. CASE DDLLands
  BY <1>2, <1>7 DEF DDLLands, tables
<1> QED BY <1>1, <1>2, <1>3, <1>4, <1>5, <1>6, <1>7, RowsKept DEF Next

\* agents/orchestrator _persist_state: however late and in whatever order its
\* rows are inserted, and whatever crashes meanwhile, dq_workflow_state shows no
\* approval and no completion that was not granted.
THEOREM RowsTruthful == Spec => []RowsNeverAhead
<1>1. Init => RowsInv
  BY DEF Init, RowsInv, Shows, NoLocal, NoRow
<1>2. RowsInv => RowsNeverAhead
  BY DEF RowsInv, Shows, RowsNeverAhead
<1> QED BY <1>1, <1>2, RowsStep, TypeCorrect, GateInvariant, PTL DEF Spec

-----------------------------------------------------------------------------
(* What is run and scheduled                                               *)

\* A handler at a suspension point that has passed no gate.
Harmless(at, l) ==
    /\ ~l.approving /\ ~l.useProcedure
    /\ at # "composer"
    /\ at = "execute_run" => l.snapshot \subseteq CustomRules

AllHarmless == \A t \in Tasks : Harmless(pc[t], local[t])

\* Before checkpoint 1 only custom rules have SQL, nothing else has run, and no
\* handler is on its way to anything else.
AutoInv ==
    1 \notin granted =>
        /\ hasSQL \subseteq CustomRules
        /\ ~dag
        /\ executed \subseteq CustomRules
        /\ AllHarmless

\* Going on to a point that is no gate.
LEMMA HarmlessSuspended ==
    ASSUME TypeOK, AllHarmless, NEW t \in Tasks, NEW at, NEW l, Suspend(t, at, l),
           ~l.approving, ~l.useProcedure, at # "composer",
           at = "execute_run" => l.snapshot \subseteq CustomRules
    PROVE  AllHarmless'
BY DEF TypeOK, Suspend, AllHarmless, Harmless

\* Returning passes no gate ...
LEMMA HarmlessReturn ==
    ASSUME TypeOK, AllHarmless, NEW t \in Tasks, Return(t)
    PROVE  AllHarmless'
BY DEF TypeOK, Return, Suspend, NoLocal, AllHarmless, Harmless

\* ... and neither does persisting, unless to approve or to execute.
LEMMA HarmlessPersisted ==
    ASSUME TypeOK, AllHarmless, NEW t \in Tasks, NEW at \in InsertPoints, NEW l \in LocalType,
           Persist(t, at, l), ~l.approving, ~l.useProcedure
    PROVE  AllHarmless'
<1>1. /\ ~[l EXCEPT !.row = RowBuilt].approving
      /\ ~[l EXCEPT !.row = RowBuilt].useProcedure
  BY DEF LocalType
<1>2. at # "composer" /\ at # "execute_run"
  BY DEF InsertPoints
<1> QED BY <1>1, <1>2 DEF TypeOK, Persist, Suspend, AllHarmless, Harmless, RowBuilt

\* The requests that pass no gate, while checkpoint 1 is not granted.
LEMMA HarmlessStep ==
    ASSUME TypeOK, GateInv, AllHarmless, 1 \notin granted, NEW t \in Tasks,
           \/ StartDiscovery(t) \/ WorkflowStarted(t) \/ DiscoveryPersisted(t)
           \/ MetadataDiscovered(t) \/ SessionRegistered(t)
           \/ \E business \in BOOLEAN : GenerateTechnical(t, business)
           \/ TechnicalPersisted(t) \/ GenerateBusiness(t)
           \/ BusinessRulesInferred(t) \/ BusinessRulesFailed(t) \/ BusinessPersisted(t)
           \/ SQLPersisted(t) \/ SubmitDecision(t) \/ ApprovalRecorded(t) \/ RefuseRules(t)
           \/ SignOff(t) \/ RefuseSignOff(t) \/ ReportsCreated(t) \/ ReportPersisted(t)
           \/ DecisionPersisted(t)
    PROVE  AllHarmless' /\ UNCHANGED <<hasSQL, dag, executed>>
<1> USE DEF session, rules, warehouse
<1>a. /\ NoLocal \in LocalType /\ ~NoLocal.approving /\ ~NoLocal.useProcedure
      /\ WorkDone(t) \in LocalType /\ ~WorkDone(t).approving /\ ~WorkDone(t).useProcedure
      /\ ~local[t].approving /\ ~local[t].useProcedure
  BY NoLocalType, LocalOf DEF NoLocal, WorkDone, AllHarmless, Harmless
<1>b. ASSUME EnterBusiness(t) PROVE AllHarmless' /\ UNCHANGED <<hasSQL, dag, executed>>
  <2> DEFINE l == [NoLocal EXCEPT !.version = ruleSet.version, !.tables = metadata]
  <2>1. ~l.approving /\ ~l.useProcedure
    BY DEF NoLocal
  <2>2. CASE Suspend(t, "business_llm", l)
    <3> HIDE DEF l
    <3> QED BY <1>b, <2>1, <2>2, HarmlessSuspended DEF EnterBusiness
  <2>3. CASE Return(t) \/ Persist(t, "business_insert", NoLocal)
    BY <1>a, <1>b, <2>3, HarmlessReturn, HarmlessPersisted DEF EnterBusiness, InsertPoints
  <2> QED BY <1>b, <2>2, <2>3 DEF EnterBusiness
<1>1. CASE StartDiscovery(t) \/ WorkflowStarted(t) \/ MetadataDiscovered(t)
  BY <1>1, <1>a, HarmlessPersisted DEF StartDiscovery, WorkflowStarted, MetadataDiscovered, InsertPoints
<1>2. CASE DiscoveryPersisted(t) \/ SignOff(t)
  BY <1>2, <1>a, HarmlessSuspended DEF DiscoveryPersisted, SignOff
<1>3. CASE SessionRegistered(t) \/ BusinessPersisted(t)
  BY <1>3, HarmlessReturn DEF SessionRegistered, BusinessPersisted
<1>4. CASE \E business \in BOOLEAN : GenerateTechnical(t, business)
  <2>1. PICK business \in BOOLEAN : GenerateTechnical(t, business)
    BY <1>4
  <2> DEFINE l == [NoLocal EXCEPT !.business = business]
  <2>2. l \in LocalType /\ ~l.approving /\ ~l.useProcedure
    BY <1>a DEF LocalType, NoLocal
  <2>3. Persist(t, "technical_insert", l) /\ UNCHANGED <<hasSQL, dag, executed>>
    BY <2>1 DEF GenerateTechnical
  <2> HIDE DEF l
  <2> QED BY <2>2, <2>3, HarmlessPersisted DEF InsertPoints
<1>5. CASE TechnicalPersisted(t)
  BY <1>5, <1>b, HarmlessReturn DEF TechnicalPersisted
<1>6. CASE GenerateBusiness(t)
  BY <1>6, <1>b DEF GenerateBusiness
<1>7. CASE BusinessRulesInferred(t)
  <2>1. PICK table \in local[t].tables :
          LET left == local[t].tables \ {table}
          IN \/ Persist(t, "business_insert", NoLocal)
             \/ Suspend(t, "business_llm", [local[t] EXCEPT !.tables = left])
    BY <1>7 DEF BusinessRulesInferred
  <2> DEFINE l == [local[t] EXCEPT !.tables = local[t].tables \ {table}]
  <2>2. ~l.approving /\ ~l.useProcedure /\ UNCHANGED <<hasSQL, dag, executed>>
    BY <1>7, <1>a, LocalOf DEF BusinessRulesInferred, LocalType
  <2>3. Persist(t, "business_insert", NoLocal) \/ Suspend(t, "business_llm", l)
    BY <2>1
  <2> HIDE DEF l
  <2> QED BY <1>a, <2>2, <2>3, HarmlessSuspended, HarmlessPersisted DEF InsertPoints
<1>8. CASE BusinessRulesFailed(t)
  BY <1>8, <1>a, HarmlessPersisted DEF BusinessRulesFailed, InsertPoints
<1>9. CASE SQLPersisted(t) \/ DecisionPersisted(t)
  BY <1>9, <1>a, HarmlessReturn DEF SQLPersisted, DecisionPersisted
<1>10. CASE SubmitDecision(t)
  <2>1. PICK c \in Checkpoints, d \in Decisions :
          Suspend(t, "approval_insert",
                  [NoLocal EXCEPT !.checkpoint = c, !.decision = d, !.stamp = clock'])
    BY <1>10 DEF SubmitDecision
  <2> DEFINE l == [NoLocal EXCEPT !.checkpoint = c, !.decision = d, !.stamp = clock']
  <2>2. ~l.approving /\ ~l.useProcedure /\ Suspend(t, "approval_insert", l)
    BY <2>1 DEF NoLocal
  <2> HIDE DEF l
  <2> QED BY <1>10, <2>2, HarmlessSuspended DEF SubmitDecision
<1>11. CASE ApprovalRecorded(t)
  <2> DEFINE l == [local[t] EXCEPT !.stamp = clock']
  <2>1. ~l.approving /\ ~l.useProcedure /\ Suspend(t, "audit_insert", l)
    BY <1>11, <1>a, LocalOf DEF ApprovalRecorded, LocalType
  <2> HIDE DEF l
  <2> QED BY <1>11, <2>1, HarmlessSuspended DEF ApprovalRecorded
<1>12. CASE RefuseRules(t) \/ RefuseSignOff(t)
  BY <1>12, <1>a, HarmlessReturn, HarmlessPersisted DEF RefuseRules, RefuseSignOff, InsertPoints
<1>13. CASE ReportsCreated(t) \/ ReportPersisted(t)
  BY <1>13, <1>a, HarmlessPersisted DEF ReportsCreated, ReportPersisted, InsertPoints
<1> QED BY <1>1, <1>2, <1>3, <1>4, <1>5, <1>6, <1>7, <1>8, <1>9, <1>10, <1>11, <1>12, <1>13

\* Executions, while checkpoint 1 is not granted: without a procedure they run
\* the rules with SQL, which are custom ones.
LEMMA RunsHarmless ==
    ASSUME AllHarmless, NEW t \in Tasks, pc[t] = "execute_run", NEW ran \in Runs(t)
    PROVE  ran \subseteq CustomRules
<1>1. ~local[t].useProcedure /\ local[t].snapshot \subseteq CustomRules
  BY DEF AllHarmless, Harmless
<1> QED BY <1>1 DEF Runs

\* Before checkpoint 1 is granted an execution runs custom rules only.
LEMMA ExecutionHarmless ==
    ASSUME TypeOK, GateInv, AutoInv, 1 \notin granted, NEW t \in Tasks,
           Execute(t) \/ ExecutionReady(t) \/ ExecutionDone(t)
    PROVE  AllHarmless' /\ UNCHANGED <<hasSQL, dag>> /\ executed' \subseteq CustomRules
<1> USE DEF session, rules, warehouse
<1>a. AllHarmless /\ hasSQL \subseteq CustomRules /\ executed \subseteq CustomRules
  BY DEF AutoInv
<1>1. CASE Execute(t)
  <2> DEFINE l == [NoLocal EXCEPT !.snapshot = AllRules(ruleSet), !.useProcedure = spName]
  <2>1. ~spName
    BY DEF GateInv, NamedProcedureExists, ProcedureNeedsApproval
  <2>2. ~l.approving /\ ~l.useProcedure /\ Suspend(t, "execute_setup", l)
    BY <1>1, <2>1 DEF Execute, NoLocal
  <2> HIDE DEF l
  <2> QED BY <1>1, <1>a, <2>2, HarmlessSuspended DEF Execute
<1>2. CASE ExecutionReady(t)
  <2> DEFINE l == [local[t] EXCEPT !.snapshot = Active(@) \cap hasSQL]
  <2>1. ~l.approving /\ ~l.useProcedure /\ l.snapshot \subseteq CustomRules
    BY <1>a, LocalOf DEF LocalType, AllHarmless, Harmless
  <2>2. Suspend(t, "execute_run", l) \/ Return(t)
    BY <1>2 DEF ExecutionReady
  <2> HIDE DEF l
  <2> QED BY <1>2, <1>a, <2>1, <2>2, HarmlessSuspended, HarmlessReturn DEF ExecutionReady
<1>3. CASE ExecutionDone(t)
  BY <1>3, <1>a, HarmlessReturn, RunsHarmless DEF ExecutionDone
<1> QED BY <1>1, <1>2, <1>3

\* No step passes a gate before checkpoint 1 is granted.
LEMMA AutoStep ==
    ASSUME TypeOK, GateInv, AutoInv, [Next]_vars
    PROVE  AutoInv'
<1> SUFFICES ASSUME 1 \notin granted'
             PROVE  /\ hasSQL' \subseteq CustomRules /\ ~dag'
                    /\ executed' \subseteq CustomRules /\ AllHarmless'
  BY DEF AutoInv
<1>1. granted \subseteq granted'
  BY GateStep DEF Gates!Next, Gates!vars, Gates!Grant, Gates!Deploy, Gates!Finish
<1>2. /\ 1 \notin granted /\ AllHarmless
      /\ hasSQL \subseteq CustomRules /\ ~dag /\ executed \subseteq CustomRules
  BY <1>1 DEF AutoInv
<1>3. CASE UNCHANGED vars
  BY <1>2, <1>3 DEF vars, session, rules, warehouse, AllHarmless
<1>4. CASE Crash
  <2>1. AllHarmless'
    BY <1>4 DEF Crash, AllHarmless, Harmless, NoLocal
  <2>2. ~dag' /\ UNCHANGED hasSQL
    BY <1>2, <1>4 DEF Crash, At, AllHarmless, Harmless, rules
  <2>3. executed' = executed
        \/ \E u \in Tasks : pc[u] = "execute_run" /\ \E ran \in Runs(u) : executed' = executed \cup ran
    BY <1>4 DEF Crash, At
  <2> QED BY <1>2, <2>1, <2>2, <2>3, RunsHarmless
<1>6. CASE DDLLands
  BY <1>2, <1>6 DEF DDLLands, session, rules, AllHarmless
<1>5. ASSUME NEW t \in Tasks, Arrive(t) \/ Resume(t)
      PROVE  /\ hasSQL' \subseteq CustomRules /\ ~dag'
             /\ executed' \subseteq CustomRules /\ AllHarmless'
  <2>1. CASE AddCustomRule(t) \/ SetActive(t)
    <3>1. UNCHANGED <<pc, local, dag, executed>>
      BY <2>1 DEF AddCustomRule, SetActive, warehouse
    <3>2. hasSQL' \subseteq CustomRules
      BY <1>2, <2>1 DEF AddCustomRule, SetActive, Fresh
    <3>3. AllHarmless'
      BY <1>2, <3>1 DEF AllHarmless, Harmless
    <3> QED BY <1>2, <3>1, <3>2, <3>3
  <2>2. CASE RequestSQL(t) \/ ApproveRules(t) \/ DagDeployed(t) \/ SQLInferred(t)
             \/ RulesInserted(t) \/ ProcedureAnswered(t)
    BY <1>2, <2>2
       DEF RequestSQL, MayGenerateSQL, ApproveRules, DagDeployed, SQLInferred, RulesInserted,
           ProcedureAnswered, GateInv, Checkpoints, Deploying, AllHarmless, Harmless
  <2>3. CASE Execute(t) \/ ExecutionReady(t) \/ ExecutionDone(t)
    BY <1>2, <2>3, ExecutionHarmless
  <2>4. CASE Refused(t)
    BY <1>3, <2>4 DEF Refused
  <2> QED BY <1>2, <1>5, <2>1, <2>2, <2>3, <2>4, HarmlessStep DEF Arrive, Resume
<1> QED BY <1>3, <1>4, <1>5, <1>6 DEF Next

\* ADR-005, "before automated execution": whatever requests overlap and
\* whatever fails or crashes, before checkpoint 1 is approved no DAG is deployed
\* and only SQL runs that a client wrote into a custom rule.
THEOREM AutomationGated == Spec => []AutomationNeedsApproval
<1>1. Init => AutoInv
  BY DEF Init, AutoInv, AllHarmless, Harmless, NoLocal
<1>2. AutoInv => AutomationNeedsApproval
  BY DEF AutoInv, AutomationNeedsApproval
<1> QED BY <1>1, <1>2, AutoStep, TypeCorrect, GateInvariant, PTL DEF Spec
-----------------------------------------------------------------------------
(* One request at a time: the newest row of dq_workflow_state               *)

\* The row shows the decisions and the rule set version in force.
Current(row) == row.approval = approval /\ row.version = ruleSet.version

\* Where a handler has nothing left to record.
Settled == {"idle", "composer", "execute_setup", "execute_run", "approval_insert",
            "audit_insert"}

\* What _persist_state has in flight is still so when it is inserted, and where
\* nothing is in flight it was inserted.
Recorded(t) ==
    /\ pc[t] \in InsertPoints => Current(local[t].row)
    /\ phase = "open" /\ pc[t] \in Settled => Current(stateRow)

DurableInv == \A t \in Tasks : Recorded(t)

\* The row is built in this step ...
LEMMA RecordedPersisted ==
    ASSUME TypeOK, NEW t \in Tasks, NEW at \in InsertPoints, NEW l \in LocalType,
           Persist(t, at, l)
    PROVE  Recorded(t)'
<1>1. pc'[t] = at /\ local'[t] = [l EXCEPT !.row = RowBuilt]
  BY DEF TypeOK, Persist, Suspend, RowBuilt
<1>2. local'[t].row = RowBuilt
  BY <1>1 DEF LocalType
<1>3. at \notin Settled
  BY DEF InsertPoints, Settled
<1> QED BY <1>1, <1>2, <1>3 DEF Recorded, Current, RowBuilt

\* ... or will be built by a later one ...
LEMMA RecordedLater ==
    ASSUME TypeOK, NEW t \in Tasks, NEW at, NEW l, at \notin InsertPoints \cup Settled,
           Suspend(t, at, l)
    PROVE  Recorded(t)'
BY DEF TypeOK, Suspend, Recorded

\* ... or was inserted.
LEMMA RecordedBefore ==
    ASSUME TypeOK, NEW t \in Tasks, NEW at \in Settled, NEW l, Suspend(t, at, l),
           UNCHANGED <<approval, ruleSet>>, phase' = "open" => Current(stateRow')
    PROVE  Recorded(t)'
<1>1. pc'[t] = at
  BY DEF TypeOK, Suspend
<1>2. at \notin InsertPoints
  BY DEF InsertPoints, Settled
<1> QED BY <1>1, <1>2 DEF Recorded, Current

\* Without failures an insert leaves the row its handler carries.
LEMMA InsertedCurrent ==
    ASSUME "insert" \notin Faults, NEW t \in Tasks, Recorded(t), pc[t] \in InsertPoints,
           RowInserted(t)
    PROVE  Current(stateRow')
BY DEF RowInserted, Recorded, Current

\* The business stage is entered with a current row.
LEMMA EnterBusinessRecorded ==
    ASSUME TypeOK, NEW t \in Tasks, EnterBusiness(t), phase = "open" => Current(stateRow')
    PROVE  Recorded(t)'
<1> DEFINE l == [NoLocal EXCEPT !.version = ruleSet.version, !.tables = metadata]
<1>1. /\ UNCHANGED <<phase, approval, ruleSet>>
      /\ Return(t) \/ Persist(t, "business_insert", NoLocal) \/ Suspend(t, "business_llm", l)
  BY DEF EnterBusiness
<1> HIDE DEF l
<1>2. CASE Return(t)
  BY <1>1, <1>2, RecordedBefore DEF Return, Settled
<1>3. CASE Persist(t, "business_insert", NoLocal)
  BY <1>3, NoLocalType, RecordedPersisted DEF InsertPoints
<1>4. CASE Suspend(t, "business_llm", l)
  BY <1>4, RecordedLater DEF InsertPoints, Settled
<1> QED BY <1>1, <1>2, <1>3, <1>4

\* POST /discovery/start and POST /rules/generate.
LEMMA GenerationRecorded ==
    ASSUME TypeOK, "insert" \notin Faults, NEW t \in Tasks, Recorded(t),
           \/ StartDiscovery(t) \/ WorkflowStarted(t) \/ DiscoveryPersisted(t)
           \/ MetadataDiscovered(t) \/ SessionRegistered(t)
           \/ \E business \in BOOLEAN : GenerateTechnical(t, business)
           \/ TechnicalPersisted(t) \/ GenerateBusiness(t)
           \/ BusinessRulesInferred(t) \/ BusinessRulesFailed(t) \/ BusinessPersisted(t)
    PROVE  Recorded(t)'
<1> USE NoLocalType
<1>1. CASE \/ StartDiscovery(t) \/ WorkflowStarted(t) \/ MetadataDiscovered(t)
           \/ BusinessRulesFailed(t)
  BY <1>1, RecordedPersisted
     DEF StartDiscovery, WorkflowStarted, MetadataDiscovered, BusinessRulesFailed, InsertPoints
<1>2. CASE DiscoveryPersisted(t)
  BY <1>2, RecordedLater DEF DiscoveryPersisted, InsertPoints, Settled
<1>3. CASE SessionRegistered(t) \/ BusinessPersisted(t)
  <2>1. Current(stateRow') /\ Return(t) /\ UNCHANGED <<approval, ruleSet>>
    BY <1>3, InsertedCurrent DEF SessionRegistered, BusinessPersisted, InsertPoints, session
  <2> QED BY <2>1, RecordedBefore DEF Return, Settled
<1>4. CASE \E business \in BOOLEAN : GenerateTechnical(t, business)
  <2>1. PICK business \in BOOLEAN : GenerateTechnical(t, business)
    BY <1>4
  <2> DEFINE l == [NoLocal EXCEPT !.business = business]
  <2>2. l \in LocalType /\ Persist(t, "technical_insert", l)
    BY <2>1 DEF LocalType, GenerateTechnical
  <2> HIDE DEF l
  <2> QED BY <2>2, RecordedPersisted DEF InsertPoints
<1>5. CASE TechnicalPersisted(t)
  <2>1. Current(stateRow')
    BY <1>5, InsertedCurrent DEF TechnicalPersisted, InsertPoints
  <2>2. EnterBusiness(t) \/ (Return(t) /\ UNCHANGED <<approval, ruleSet>>)
    BY <1>5 DEF TechnicalPersisted, session
  <2> QED BY <2>1, <2>2, EnterBusinessRecorded, RecordedBefore DEF Return, Settled
<1>6. CASE GenerateBusiness(t)
  <2>1. Current(stateRow) /\ UNCHANGED stateRow /\ EnterBusiness(t)
    BY <1>6 DEF GenerateBusiness, Request, Busy, tables, Recorded, Settled
  <2> QED BY <2>1, EnterBusinessRecorded
<1>7. CASE BusinessRulesInferred(t)
  <2>1. PICK table \in local[t].tables :
          LET left == local[t].tables \ {table}
          IN \/ Persist(t, "business_insert", NoLocal)
             \/ Suspend(t, "business_llm", [local[t] EXCEPT !.tables = left])
    BY <1>7 DEF BusinessRulesInferred
  <2> DEFINE l == [local[t] EXCEPT !.tables = local[t].tables \ {table}]
  <2>2. Persist(t, "business_insert", NoLocal) \/ Suspend(t, "business_llm", l)
    BY <2>1
  <2> HIDE DEF l
  <2>3. CASE Persist(t, "business_insert", NoLocal)
    BY <2>3, RecordedPersisted DEF InsertPoints
  <2>4. CASE Suspend(t, "business_llm", l)
    BY <2>4, RecordedLater DEF InsertPoints, Settled
  <2> QED BY <2>2, <2>3, <2>4
<1> QED BY <1>1, <1>2, <1>3, <1>4, <1>5, <1>6, <1>7

\* SQL generation records its result in the end.
LEMMA StartSQLRecorded ==
    ASSUME TypeOK, NEW t \in Tasks, NEW l, StartSQLGeneration(t, l)
    PROVE  Recorded(t)'
<1> DEFINE snapshot == Active(AllRules(ruleSet))
           now == [l EXCEPT !.snapshot = snapshot,
                            !.claude = snapshot \ (Supported \cup CustomRules)]
<1>1. Suspend(t, "rules_insert", now) \/ Suspend(t, "sql_claude", now)
  BY DEF StartSQLGeneration, StoreRules
<1> HIDE DEF now
<1> QED BY <1>1, RecordedLater DEF InsertPoints, Settled

\* Generating SQL loses no recorded decision.
LEMMA SQLRecorded ==
    ASSUME TypeOK, "insert" \notin Faults, NEW t \in Tasks, Recorded(t),
           \/ RequestSQL(t) \/ SQLInferred(t) \/ RulesInserted(t) \/ ProcedureAnswered(t)
           \/ SQLPersisted(t)
    PROVE  Recorded(t)'
<1> USE LocalOf
<1>1. CASE RequestSQL(t)
  <2>1. CASE UNCHANGED <<ruleSet, pc, local>>
    BY <1>1, <2>1 DEF RequestSQL, Recorded, Current, tables
  <2> QED BY <1>1, <2>1, StartSQLRecorded DEF RequestSQL
<1>2. CASE SQLInferred(t)
  <2>1. PICK r \in local[t].claude :
          LET now == [local[t] EXCEPT !.claude = @ \ {r}]
          IN Suspend(t, "rules_insert", now) \/ Suspend(t, "sql_claude", now)
    BY <1>2 DEF SQLInferred, StoreRules
  <2> DEFINE now == [local[t] EXCEPT !.claude = @ \ {r}]
  <2>2. Suspend(t, "rules_insert", now) \/ Suspend(t, "sql_claude", now)
    BY <2>1
  <2> HIDE DEF now
  <2> QED BY <2>2, RecordedLater DEF InsertPoints, Settled
<1>3. CASE RulesInserted(t)
  <2> DEFINE l == [WorkDone(t) EXCEPT !.built = Deployable(local[t].snapshot)]
  <2>1. Persist(t, "sql_insert", WorkDone(t)) \/ Suspend(t, "sql_ddl", l)
    BY <1>3 DEF RulesInserted
  <2> HIDE DEF l
  <2>2. CASE Persist(t, "sql_insert", WorkDone(t))
    BY <2>2, RecordedPersisted DEF InsertPoints
  <2>3. CASE Suspend(t, "sql_ddl", l)
    BY <2>3, RecordedLater DEF InsertPoints, Settled
  <2> QED BY <2>1, <2>2, <2>3
<1>4. CASE ProcedureAnswered(t)
  BY <1>4, RecordedPersisted DEF ProcedureAnswered, InsertPoints
<1>5. CASE SQLPersisted(t)
  <2>1. Current(stateRow') /\ UNCHANGED <<approval, ruleSet>>
    BY <1>5, InsertedCurrent DEF SQLPersisted, InsertPoints, session
  <2>2. CASE Persist(t, "decision_insert", WorkDone(t))
    BY <2>2, RecordedPersisted DEF InsertPoints
  <2>3. CASE Return(t)
    BY <2>1, <2>3, RecordedBefore DEF Return, Settled
  <2> QED BY <1>5, <2>2, <2>3 DEF SQLPersisted
<1> QED BY <1>1, <1>2, <1>3, <1>4, <1>5

\* A decision takes effect in the step that builds its row, or starts what will.
LEMMA DecisionRecorded ==
    ASSUME TypeOK, "insert" \notin Faults, "bad_mods" \notin Faults,
           NEW t \in Tasks, Recorded(t),
           \/ SubmitDecision(t) \/ ApprovalRecorded(t) \/ ApproveRules(t) \/ RefuseRules(t)
           \/ SignOff(t) \/ RefuseSignOff(t) \/ ReportsCreated(t) \/ ReportPersisted(t)
           \/ DecisionPersisted(t) \/ DagDeployed(t)
    PROVE  Recorded(t)'
<1> USE LocalOf
<1>1. CASE SubmitDecision(t)
  <2>1. PICK l : Suspend(t, "approval_insert", l)
    BY <1>1 DEF SubmitDecision
  <2>2. (phase' = "open" => Current(stateRow')) /\ UNCHANGED <<approval, ruleSet>>
    BY <1>1 DEF SubmitDecision, Request, Busy, session, Recorded, Settled
  <2> QED BY <2>1, <2>2, RecordedBefore DEF Settled
<1>2. CASE ApprovalRecorded(t)
  <2>1. PICK l : Suspend(t, "audit_insert", l)
    BY <1>2 DEF ApprovalRecorded
  <2>2. (phase' = "open" => Current(stateRow')) /\ UNCHANGED <<approval, ruleSet>>
    BY <1>2 DEF ApprovalRecorded, session, Recorded, Settled
  <2> QED BY <2>1, <2>2, RecordedBefore DEF Settled
<1>3. CASE ApproveRules(t)
  <2> DEFINE now == [NoLocal EXCEPT !.approving = TRUE]
  <2>1. now \in LocalType
    BY NoLocalType DEF LocalType
  <2>2. StartSQLGeneration(t, now) \/ Persist(t, "decision_insert", now)
    BY <1>3 DEF ApproveRules
  <2> HIDE DEF now
  <2> QED BY <2>1, <2>2, StartSQLRecorded, RecordedPersisted DEF InsertPoints
<1>4. CASE RefuseRules(t) \/ RefuseSignOff(t)
  BY <1>4, RecordedPersisted DEF RefuseRules, RefuseSignOff, InsertPoints
<1>5. CASE SignOff(t)
  BY <1>5, RecordedLater DEF SignOff, InsertPoints, Settled
<1>6. CASE ReportsCreated(t) \/ ReportPersisted(t)
  BY <1>6, RecordedPersisted DEF ReportsCreated, ReportPersisted, InsertPoints
<1>7. CASE DecisionPersisted(t)
  <2>1. Current(stateRow') /\ UNCHANGED <<approval, ruleSet>>
    BY <1>7, InsertedCurrent DEF DecisionPersisted, InsertPoints, session
  <2> QED BY <1>7, <2>1, RecordedBefore DEF DecisionPersisted, Return, Settled
<1>8. CASE DagDeployed(t)
  <2>1. (phase' = "open" => Current(stateRow')) /\ UNCHANGED <<approval, ruleSet>>
    BY <1>8 DEF DagDeployed, session, tables, Recorded, Settled
  <2> QED BY <1>8, <2>1, RecordedBefore DEF DagDeployed, Return, Settled
<1> QED BY <1>1, <1>2, <1>3, <1>4, <1>5, <1>6, <1>7, <1>8

\* Executions record nothing of the session.
LEMMA ExecutionRecorded ==
    ASSUME TypeOK, NEW t \in Tasks, Recorded(t),
           Execute(t) \/ ExecutionReady(t) \/ ExecutionDone(t)
    PROVE  Recorded(t)'
<1>1. (phase' = "open" => Current(stateRow')) /\ UNCHANGED <<approval, ruleSet>>
  BY DEF Execute, ExecutionReady, ExecutionDone, Request, Busy, session, tables, Recorded, Settled
<1>2. PICK at \in Settled : \E l : Suspend(t, at, l)
  BY DEF Execute, ExecutionReady, ExecutionDone, Return, Settled
<1>3. PICK l : Suspend(t, at, l)
  BY <1>2
<1> QED BY <1>1, <1>3, RecordedBefore

\* Every step keeps DurableInv.
LEMMA DurableStep ==
    ASSUME OneAtATime, "insert" \notin Faults, "bad_mods" \notin Faults,
           TypeOK, DurableInv, [Next]_vars
    PROVE  DurableInv'
<1>1. CASE UNCHANGED vars
  BY <1>1 DEF vars, session, tables, DurableInv, Recorded, Current
<1>2. CASE Crash
  <2>1. phase' = "lost" /\ \A t \in Tasks : pc'[t] = "idle"
    BY <1>2 DEF Crash
  <2> QED BY <2>1 DEF DurableInv, Recorded, InsertPoints
<1>4. CASE DDLLands
  BY <1>4 DEF DDLLands, session, tables, DurableInv, Recorded, Current
<1>3. ASSUME NEW t \in Tasks, Arrive(t) \/ Resume(t) PROVE DurableInv'
  <2>1. CASE Refused(t)
    BY <1>1, <2>1 DEF Refused
  <2>2. CASE AddCustomRule(t) \/ SetActive(t)
    <3>1. ruleSet'.version = ruleSet.version /\ UNCHANGED <<phase, approval, pc, local, stateRow>>
      BY <2>2 DEF AddCustomRule, SetActive, tables, TypeOK
    <3> QED BY <3>1 DEF DurableInv, Recorded, Current
  <2>3. Recorded(t)
    BY DEF DurableInv
  <2>4. ASSUME Recorded(t)' PROVE DurableInv'
    BY <2>4, Alone DEF DurableInv
  <2> QED BY <1>3, <2>1, <2>2, <2>3, <2>4, GenerationRecorded, SQLRecorded, DecisionRecorded,
             ExecutionRecorded
          DEF Arrive, Resume
<1> QED BY <1>1, <1>2, <1>3, <1>4 DEF Next

\* Who waits for every answer finds, between two requests, the decisions and the
\* rule set version in force in the newest row of dq_workflow_state; provided no
\* insert fails, and no modification is malformed.
THEOREM DecisionsRecorded ==
    ASSUME OneAtATime, "insert" \notin Faults, "bad_mods" \notin Faults
    PROVE  Spec => []DecisionsDurable
<1>1. Init => DurableInv
  BY DEF Init, DurableInv, Recorded, InsertPoints
<1>2. TypeOK /\ DurableInv /\ [Next]_vars => DurableInv'
  BY DurableStep
<1>3. DurableInv => DecisionsDurable
  BY DEF DurableInv, DecisionsDurable, Recorded, Current, Quiet, Busy, OneAtATime, Settled
<1> QED BY <1>1, <1>2, <1>3, TypeCorrect, PTL DEF Spec
-----------------------------------------------------------------------------
(* One request at a time: the newest decisions of the audit log            *)

\* The decision in force on a checkpoint is its newest one in the log.
Agrees(c) == audit[c].status = approval[c] /\ audit[c].at <= clock

\* A decision has a later timestamp than all that is in the log.  Until it takes
\* effect its checkpoint is the only one whose log may be ahead.
Audits(t) ==
    /\ pc[t] # "audit_insert" => \A c \in Checkpoints : Agrees(c)
    /\ pc[t] = "approval_insert" =>
         local[t].stamp = clock /\ \A c \in Checkpoints : audit[c].at < clock
    /\ pc[t] = "audit_insert" =>
         /\ local[t].stamp = clock /\ audit[local[t].checkpoint].at < clock
         /\ \A c \in Checkpoints \ {local[t].checkpoint} : Agrees(c)

AuditInv == \A t \in Tasks : IF phase = "lost" THEN pc[t] = "idle" ELSE Audits(t)

\* Most steps have nothing to do with decisions.
LEMMA NotAuditing ==
    ASSUME TypeOK, NEW t \in Tasks,
           \/ StartDiscovery(t) \/ WorkflowStarted(t) \/ DiscoveryPersisted(t)
           \/ MetadataDiscovered(t) \/ SessionRegistered(t)
           \/ \E business \in BOOLEAN : GenerateTechnical(t, business)
           \/ TechnicalPersisted(t) \/ GenerateBusiness(t)
           \/ BusinessRulesInferred(t) \/ BusinessRulesFailed(t) \/ BusinessPersisted(t)
           \/ AddCustomRule(t) \/ SetActive(t)
           \/ RequestSQL(t) \/ SQLInferred(t) \/ RulesInserted(t) \/ ProcedureAnswered(t)
           \/ SQLPersisted(t) \/ ReportsCreated(t) \/ ReportPersisted(t)
           \/ DecisionPersisted(t) \/ DagDeployed(t)
           \/ Execute(t) \/ ExecutionReady(t) \/ ExecutionDone(t)
    PROVE  /\ UNCHANGED <<approval, audit, clock>>
           /\ pc[t] # "audit_insert" /\ pc'[t] \notin {"approval_insert", "audit_insert"}
           /\ phase = "lost" => pc[t] # "idle"
           /\ phase' = "lost" => phase = "lost"
<1>p. pc \in [Tasks -> SuspensionPoints]
  BY DEF TypeOK
<1> USE <1>p DEF session, tables, Suspend, Persist, Return, Request, Busy
<1>0. ASSUME EnterBusiness(t)
      PROVE  /\ UNCHANGED <<approval, phase>>
             /\ pc'[t] \notin {"approval_insert", "audit_insert"}
  BY <1>0 DEF EnterBusiness
<1>1. CASE \/ StartDiscovery(t) \/ WorkflowStarted(t) \/ DiscoveryPersisted(t)
           \/ MetadataDiscovered(t) \/ SessionRegistered(t)
  BY <1>1 DEF StartDiscovery, WorkflowStarted, DiscoveryPersisted, MetadataDiscovered,
              SessionRegistered
<1>2. CASE \E business \in BOOLEAN : GenerateTechnical(t, business)
  BY <1>2 DEF GenerateTechnical
<1>3. CASE TechnicalPersisted(t) \/ GenerateBusiness(t)
  BY <1>0, <1>3 DEF TechnicalPersisted, GenerateBusiness
<1>4. CASE BusinessRulesInferred(t) \/ BusinessRulesFailed(t) \/ BusinessPersisted(t)
  BY <1>4 DEF BusinessRulesInferred, BusinessRulesFailed, BusinessPersisted
<1>5. CASE AddCustomRule(t) \/ SetActive(t)
  BY <1>5 DEF AddCustomRule, SetActive
<1>6. CASE RequestSQL(t) \/ SQLInferred(t)
  BY <1>6 DEF RequestSQL, SQLInferred, StartSQLGeneration, StoreRules
<1>7. CASE RulesInserted(t) \/ ProcedureAnswered(t) \/ SQLPersisted(t)
  BY <1>7 DEF RulesInserted, ProcedureAnswered, SQLPersisted
<1>8. CASE ReportsCreated(t) \/ ReportPersisted(t) \/ DecisionPersisted(t) \/ DagDeployed(t)
  BY <1>8 DEF ReportsCreated, ReportPersisted, DecisionPersisted, DagDeployed
<1>9. CASE Execute(t) \/ ExecutionReady(t) \/ ExecutionDone(t)
  BY <1>9 DEF Execute, ExecutionReady, ExecutionDone
<1> QED BY <1>1, <1>2, <1>3, <1>4, <1>5, <1>6, <1>7, <1>8, <1>9

\* POST /approvals/submit draws a new timestamp.
LEMMA SubmissionAudited ==
    ASSUME TypeOK, NEW t \in Tasks, Audits(t), SubmitDecision(t)
    PROVE  Audits(t)'
<1>1. PICK c \in Checkpoints, d \in Decisions :
        Suspend(t, "approval_insert",
                [NoLocal EXCEPT !.checkpoint = c, !.decision = d, !.stamp = clock'])
  BY DEF SubmitDecision
<1> DEFINE l == [NoLocal EXCEPT !.checkpoint = c, !.decision = d, !.stamp = clock']
<1>2. l.stamp = clock' /\ Suspend(t, "approval_insert", l)
  BY <1>1 DEF NoLocal
<1> HIDE DEF l
<1>3. pc'[t] = "approval_insert" /\ local'[t].stamp = clock'
  BY <1>2 DEF Suspend, TypeOK
<1>4. clock' = clock + 1 /\ UNCHANGED <<audit, approval>>
  BY DEF SubmitDecision, session
<1>5. \A x \in Checkpoints : Agrees(x)
  BY DEF SubmitDecision, Request, Busy, Audits
<1>6. clock \in Nat /\ \A x \in Checkpoints : audit[x].at \in Nat
  BY DEF TypeOK
<1>7. \A x \in Checkpoints : Agrees(x)' /\ audit'[x].at < clock'
  BY <1>4, <1>5, <1>6 DEF Agrees
<1> QED BY <1>3, <1>7 DEF Audits

\* The log with the row of a decision: the newest row of its checkpoint.
LEMMA RowAudited ==
    ASSUME TypeOK, "insert" \notin Faults, NEW t \in Tasks, AuditRowInserted(t),
           audit[local[t].checkpoint].at < local[t].stamp
    PROVE  /\ audit'[local[t].checkpoint] = [at |-> local[t].stamp, status |-> local[t].decision]
           /\ \A c \in Checkpoints \ {local[t].checkpoint} : audit'[c] = audit[c]
BY LocalOf DEF AuditRowInserted, WithAuditRow, TypeOK, LocalType

\* The first of its two rows has the timestamp that was drawn ...
LEMMA RecordAudited ==
    ASSUME TypeOK, "insert" \notin Faults, NEW t \in Tasks, Audits(t), ApprovalRecorded(t)
    PROVE  Audits(t)'
<1> DEFINE l == [local[t] EXCEPT !.stamp = clock']
<1>a. local[t] \in LocalType
  BY LocalOf
<1>1. l.stamp = clock' /\ l.checkpoint = local[t].checkpoint /\ Suspend(t, "audit_insert", l)
  BY <1>a DEF ApprovalRecorded, LocalType
<1> HIDE DEF l
<1>2. /\ pc'[t] = "audit_insert" /\ local'[t].stamp = clock'
      /\ local'[t].checkpoint = local[t].checkpoint
  BY <1>1 DEF Suspend, TypeOK
<1>3. /\ local[t].stamp = clock /\ \A c \in Checkpoints : audit[c].at < clock /\ Agrees(c)
      /\ clock' = clock + 1 /\ UNCHANGED approval
  BY DEF Audits, ApprovalRecorded, session
<1>4. local[t].checkpoint \in Checkpoints
  BY <1>a DEF LocalType
<1>5. /\ audit'[local[t].checkpoint] = [at |-> clock, status |-> local[t].decision]
      /\ \A c \in Checkpoints \ {local[t].checkpoint} : audit'[c] = audit[c]
  BY <1>3, <1>4, RowAudited DEF ApprovalRecorded
<1>6. clock \in Nat /\ \A c \in Checkpoints : audit[c].at \in Nat
  BY DEF TypeOK
<1>7. audit'[local[t].checkpoint].at < clock'
  BY <1>3, <1>5, <1>6
<1>8. \A c \in Checkpoints \ {local[t].checkpoint} : Agrees(c)'
  BY <1>3, <1>5, <1>6 DEF Agrees
<1> QED BY <1>2, <1>7, <1>8 DEF Audits

\* ... and with the second one the decision takes effect.
LEMMA EffectAudited ==
    ASSUME TypeOK, "insert" \notin Faults, NEW t \in Tasks, Audits(t),
           NEW c \in Checkpoints, NEW D, Audited(t, c, D), UNCHANGED clock,
           pc'[t] \notin {"approval_insert", "audit_insert"}
    PROVE  Audits(t)'
<1>1. /\ local[t].checkpoint = c /\ approval' = [approval EXCEPT ![c] = local[t].decision]
      /\ AuditRowInserted(t)
      /\ local[t].stamp = clock /\ audit[c].at < clock
      /\ \A x \in Checkpoints \ {c} : Agrees(x)
  BY DEF Audited, Audits
<1>2. /\ audit'[c] = [at |-> clock, status |-> local[t].decision]
      /\ \A x \in Checkpoints \ {c} : audit'[x] = audit[x]
  BY <1>1, RowAudited
<1>3. approval'[c] = local[t].decision /\ \A x \in Checkpoints \ {c} : approval'[x] = approval[x]
  BY <1>1 DEF TypeOK
<1>4. clock \in Nat
  BY DEF TypeOK
<1>5. Agrees(c)' /\ \A x \in Checkpoints \ {c} : Agrees(x)'
  BY <1>1, <1>2, <1>3, <1>4 DEF Agrees
<1> QED BY <1>5 DEF Audits

\* All the steps of a decision.
LEMMA DecisionAudited ==
    ASSUME TypeOK, "insert" \notin Faults, NEW t \in Tasks, Audits(t),
           \/ SubmitDecision(t) \/ ApprovalRecorded(t) \/ ApproveRules(t) \/ RefuseRules(t)
           \/ SignOff(t) \/ RefuseSignOff(t)
    PROVE  Audits(t)'
<1>p. pc \in [Tasks -> SuspensionPoints]
  BY DEF TypeOK
<1> USE <1>p DEF Checkpoints
<1>1. CASE ApproveRules(t)
  <2>1. Audited(t, 1, {"approved"}) /\ UNCHANGED clock
    BY <1>1 DEF ApproveRules
  <2>2. pc'[t] \notin {"approval_insert", "audit_insert"}
    BY <1>1 DEF ApproveRules, StartSQLGeneration, StoreRules, Suspend, Persist
  <2> QED BY <2>1, <2>2, EffectAudited
<1>2. CASE RefuseRules(t)
  <2>1. Audited(t, 1, {"rejected", "modified"}) /\ UNCHANGED clock
    BY <1>2 DEF RefuseRules
  <2>2. pc'[t] \notin {"approval_insert", "audit_insert"}
    BY <1>2 DEF RefuseRules, Suspend, Persist, Return
  <2> QED BY <2>1, <2>2, EffectAudited
<1>3. CASE SignOff(t)
  <2>1. Audited(t, 2, {"approved"}) /\ UNCHANGED clock
    BY <1>3 DEF SignOff
  <2>2. pc'[t] \notin {"approval_insert", "audit_insert"}
    BY <1>3 DEF SignOff, Suspend
  <2> QED BY <2>1, <2>2, EffectAudited
<1>4. CASE RefuseSignOff(t)
  <2>1. Audited(t, 2, {"rejected", "modified"}) /\ UNCHANGED clock
    BY <1>4 DEF RefuseSignOff
  <2>2. pc'[t] \notin {"approval_insert", "audit_insert"}
    BY <1>4 DEF RefuseSignOff, Suspend, Persist
  <2> QED BY <2>1, <2>2, EffectAudited
<1> QED BY <1>1, <1>2, <1>3, <1>4, SubmissionAudited, RecordAudited

\* Every step keeps AuditInv.
LEMMA AuditStep ==
    ASSUME OneAtATime, "insert" \notin Faults, TypeOK, AuditInv, [Next]_vars
    PROVE  AuditInv'
<1>1. CASE UNCHANGED vars
  BY <1>1 DEF vars, session, tables, AuditInv, Audits, Agrees
<1>2. CASE Crash
  BY <1>2 DEF Crash, AuditInv
<1>4. CASE DDLLands
  BY <1>4 DEF DDLLands, session, tables, AuditInv, Audits, Agrees
<1>3. ASSUME NEW t \in Tasks, Arrive(t) \/ Resume(t) PROVE AuditInv'
  <2>1. CASE Refused(t)
    BY <1>1, <2>1 DEF Refused
  <2>2. CASE \/ SubmitDecision(t) \/ ApprovalRecorded(t) \/ ApproveRules(t) \/ RefuseRules(t)
             \/ SignOff(t) \/ RefuseSignOff(t)
    <3>1. UNCHANGED phase
      BY <2>2 DEF SubmitDecision, ApprovalRecorded, ApproveRules, RefuseRules, SignOff,
                  RefuseSignOff, session
    <3>2. phase # "lost"
      BY <2>2 DEF SubmitDecision, ApprovalRecorded, ApproveRules, RefuseRules, SignOff,
                  RefuseSignOff, Audited, Request, AuditInv
    <3>3. Audits(t)'
      BY <2>2, <3>2, DecisionAudited DEF AuditInv
    <3> QED BY <3>1, <3>2, <3>3, Alone DEF AuditInv
  <2>3. ASSUME UNCHANGED <<approval, audit, clock>>, pc[t] # "audit_insert",
               pc'[t] \notin {"approval_insert", "audit_insert"},
               phase = "lost" => pc[t] # "idle", phase' = "lost" => phase = "lost"
        PROVE  AuditInv'
    <3>1. phase # "lost" /\ phase' # "lost" /\ Audits(t)
      BY <2>3 DEF AuditInv
    <3>2. Audits(t)'
      BY <2>3, <3>1 DEF Audits, Agrees
    <3> QED BY <3>1, <3>2, Alone DEF AuditInv
  <2> QED BY <1>3, <2>1, <2>2, <2>3, NotAuditing DEF Arrive, Resume
<1> QED BY <1>1, <1>2, <1>3, <1>4 DEF Next

\* Who waits for every answer finds, between two requests, the decision in force
\* on each checkpoint as its newest one in the audit log; provided no insert fails.
THEOREM AuditLogAgrees ==
    ASSUME OneAtATime, "insert" \notin Faults
    PROVE  Spec => []AuditAgrees
<1>1. Init => AuditInv
  BY DEF Init, AuditInv, Audits, Agrees
<1>2. TypeOK /\ AuditInv /\ [Next]_vars => AuditInv'
  BY AuditStep
<1>3. AuditInv => AuditAgrees
  BY DEF AuditInv, AuditAgrees, Audits, Agrees, Quiet, Busy, OneAtATime
<1> QED BY <1>1, <1>2, <1>3, TypeCorrect, PTL DEF Spec
=============================================================================
