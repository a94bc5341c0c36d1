---------------------------- MODULE Console_proofs ----------------------------
(***************************************************************************)
(* People who use nothing but consoles run and schedule nothing, and sign  *)
(* no data off, before its rules were approved: however many consoles      *)
(* there are, however stale what they show is, and whether or not they     *)
(* wait for answers.  Rules are replaced only by who gave up an answer.    *)
(***************************************************************************)
EXTENDS Console, DQSessionRecords_proofs

-----------------------------------------------------------------------------
(* The inductive invariant                                                 *)

\* A decision on checkpoint c is being audited by t.
Deciding(t, c) == pc[t] \in {"approval_insert", "audit_insert"} /\ local[t].checkpoint = c

\* A form of checkpoint 2 is shown, or was sent, only after checkpoint 1 was
\* granted: by then its approval may have been taken back, the grant was not.
OrderInv ==
    /\ \A b \in Consoles : 1 \in seen[b] => 1 \in granted
    /\ \A t \in Tasks : Deciding(t, 2) => 1 \in granted
    /\ SignOffInOrder

\* What the session's own theorems say of each of its steps.
SessionInv == TypeOK /\ GateInv

\* A handler that does not start or go on with a decision on checkpoint 2, and
\* a page that is not looked at again, keep the order.
LEMMA OrderKept ==
    ASSUME SessionInv, OrderInv, NEW t \in Tasks, NEW at, Moved(t, at),
           at \notin {"approval_insert", "audit_insert"},
           granted \subseteq granted', 2 \in granted' => 1 \in granted',
           UNCHANGED seen
    PROVE  OrderInv'
<1>1. \A u \in Tasks : u # t => pc'[u] = pc[u] /\ local'[u] = local[u]
  BY DEF Moved, TypeOK, SessionInv
<1>2. pc'[t] = at
  BY DEF Moved, TypeOK, SessionInv
<1> QED BY <1>1, <1>2 DEF OrderInv, Deciding, SignOffInOrder

\* The same for steps that grant nothing.
LEMMA OrderUndecided ==
    ASSUME SessionInv, OrderInv, NEW t \in Tasks, NEW at, Moved(t, at),
           at \notin {"approval_insert", "audit_insert"}, UNCHANGED <<granted, seen>>
    PROVE  OrderInv'
BY OrderKept DEF OrderInv, SignOffInOrder

\* Steps of no handler.
LEMMA OrderStays ==
    ASSUME OrderInv, UNCHANGED <<pc, local, granted>>,
           \A b \in Consoles : 1 \in seen'[b] => 1 \in granted
    PROVE  OrderInv'
BY DEF OrderInv, Deciding, SignOffInOrder

-----------------------------------------------------------------------------
(* What the server does                                                    *)

\* A handler that goes on keeps the order of the checkpoints.
LEMMA ResumeOrder ==
    ASSUME SessionInv, OrderInv, NEW t \in Tasks, Resume(t), UNCHANGED seen
    PROVE  OrderInv'
<1> USE DEF session, rules, warehouse, history
<1> DEFINE Away == {"idle", "start_insert", "discovery_insert", "discovery", "register_insert",
                    "technical_insert", "business_llm", "business_insert", "decision_insert",
                    "composer", "reporting", "report_insert", "sql_claude", "rules_insert",
                    "sql_ddl", "sql_insert", "execute_setup", "execute_run"}
<1>t. TypeOK
  BY DEF SessionInv
<1>a. \A at \in Away : at \notin {"approval_insert", "audit_insert"}
  OBVIOUS
<1>1. ASSUME UNCHANGED granted, \E at \in Away : Moved(t, at)
      PROVE  OrderInv'
  BY <1>a, <1>1, OrderUndecided
<1>2. CASE \/ WorkflowStarted(t) \/ DiscoveryPersisted(t) \/ MetadataDiscovered(t)
           \/ SessionRegistered(t) \/ BusinessRulesInferred(t) \/ BusinessRulesFailed(t)
           \/ BusinessPersisted(t)
  BY <1>t, <1>1, <1>2, Moves
     DEF WorkflowStarted, DiscoveryPersisted, MetadataDiscovered, SessionRegistered,
         BusinessRulesInferred, BusinessRulesFailed, BusinessPersisted
<1>3. CASE TechnicalPersisted(t)
  BY <1>t, <1>1, <1>3, Moves DEF TechnicalPersisted, EnterBusiness
<1>4. CASE SQLInferred(t) \/ RulesInserted(t) \/ ProcedureAnswered(t) \/ SQLPersisted(t)
  BY <1>t, <1>1, <1>4, Moves
     DEF SQLInferred, StoreRules, RulesInserted, ProcedureAnswered, SQLPersisted
<1>5. CASE RefuseRules(t) \/ RefuseSignOff(t)
  BY <1>t, <1>1, <1>5, Moves DEF RefuseRules, RefuseSignOff
<1>6. CASE \/ ReportsCreated(t) \/ ReportPersisted(t) \/ DecisionPersisted(t) \/ DagDeployed(t)
           \/ ExecutionReady(t) \/ ExecutionDone(t)
  BY <1>t, <1>1, <1>6, Moves
     DEF ReportsCreated, ReportPersisted, DecisionPersisted, DagDeployed, ExecutionReady,
         ExecutionDone
<1>7. CASE ApproveRules(t)
  <2>1. granted' = granted \cup {1}
    BY <1>7 DEF ApproveRules
  <2>2. \E at \in {"sql_claude", "rules_insert", "decision_insert"} : Moved(t, at)
    BY <1>t, <1>7, Moves DEF ApproveRules, StartSQLGeneration, StoreRules
  <2> QED BY <2>1, <2>2, OrderKept
<1>8. CASE SignOff(t)
  <2>1. granted' = granted \cup {2} /\ Moved(t, "reporting")
    BY <1>t, <1>8, Moves DEF SignOff
  <2>2. 1 \in granted
    BY <1>8 DEF SignOff, Audited, OrderInv, Deciding
  <2> QED BY <2>1, <2>2, OrderKept
<1>9. CASE ApprovalRecorded(t)
  <2>1. \A u \in Tasks : u # t => pc'[u] = pc[u] /\ local'[u] = local[u]
    BY <1>t, <1>9 DEF ApprovalRecorded, Suspend, TypeOK
  <2>2. local[t] \in LocalType /\ local'[t] = [local[t] EXCEPT !.stamp = clock']
    BY <1>t, <1>9, LocalOf DEF ApprovalRecorded, Suspend, TypeOK
  <2>3. local'[t].checkpoint = local[t].checkpoint
    BY <2>2 DEF LocalType
  <2>4. UNCHANGED granted
    BY <1>9 DEF ApprovalRecorded
  <2>5. pc[t] = "approval_insert"
    BY <1>9 DEF ApprovalRecorded
  <2> QED BY <2>1, <2>3, <2>4, <2>5 DEF OrderInv, Deciding, SignOffInOrder
<1> QED BY <1>2, <1>3, <1>4, <1>5, <1>6, <1>7, <1>8, <1>9 DEF Resume

\* A crash of the server keeps it, and so does a deployment that lands late.
LEMMA CrashOrder ==
    ASSUME OrderInv, Crash \/ DDLLands, UNCHANGED seen
    PROVE  OrderInv'
BY DEF Crash, DDLLands, history, OrderInv, Deciding, SignOffInOrder

-----------------------------------------------------------------------------
(* What the consoles do                                                    *)

\* Every request of a console is one of the session's.
LEMMA ConsoleSession ==
    ASSUME SessionInv, NEW b \in Consoles, NEW t \in Tasks, Uses(b, t)
    PROVE  SessionInv'
<1>1. CASE StartDiscovery(t)
  BY <1>1, DiscoveryType, PlainStep DEF SessionInv
<1>2. CASE \E business \in BOOLEAN : GenerateTechnical(t, business)
  BY <1>2, GenerateType, PlainStep DEF SessionInv
<1>3. CASE GenerateBusiness(t)
  BY <1>3, GenerateType, EnterBusinessStep DEF SessionInv, GenerateBusiness
<1>4. CASE AddCustomRule(t) \/ SetActive(t)
  <2>1. TypeOK'
    BY <1>4, RuleEditType DEF SessionInv
  <2>2. GateInv'
    BY <1>4 DEF SessionInv, AddCustomRule, SetActive, warehouse, history, GateInv,
                ProcedureNeedsApproval, CompleteNeedsSignOff, NamedProcedureExists
  <2> QED BY <2>1, <2>2 DEF SessionInv
<1>5. CASE SubmitDecision(t)
  BY <1>5, DecisionType, PlainStep DEF SessionInv
<1>6. CASE RequestSQL(t)
  BY <1>6, SQLType, SQLStep DEF SessionInv
<1>7. CASE Execute(t)
  BY <1>7, ExecutionType, PlainStep DEF SessionInv
<1> QED BY <1>1, <1>2, <1>3, <1>4, <1>5, <1>6, <1>7
        DEF Uses, Discover, Generate, Curate, SubmitRules, Rebuild, ExecuteRules, SubmitSignOff

\* Only the form of checkpoint 2 sends a decision on it, and it is shown where
\* checkpoint 1 was seen approved.
LEMMA ConsoleOrder ==
    ASSUME SessionInv, OrderInv, NEW b \in Consoles, NEW t \in Tasks, Uses(b, t)
    PROVE  OrderInv'
<1> USE DEF session, rules, warehouse, history
<1>t. TypeOK
  BY DEF SessionInv
<1>s. UNCHANGED seen
  BY DEF Uses, Discover, Generate, Curate, SubmitRules, Rebuild, ExecuteRules, SubmitSignOff, Ask
<1>1. CASE Discover(b, t)
  BY <1>t, <1>s, <1>1, Moves, OrderUndecided DEF Discover, StartDiscovery
<1>2. CASE Generate(b, t)
  <2>1. UNCHANGED granted
    BY <1>2 DEF Generate, GenerateTechnical, GenerateBusiness, EnterBusiness
  <2>2. \E at \in {"technical_insert", "idle", "business_insert", "business_llm"} : Moved(t, at)
    BY <1>t, <1>2, Moves DEF Generate, GenerateTechnical, GenerateBusiness, EnterBusiness
  <2> QED BY <1>s, <2>1, <2>2, OrderUndecided
<1>3. CASE Curate(b, t)
  BY <1>s, <1>3, OrderStays DEF Curate, AddCustomRule, SetActive, OrderInv
<1>4. CASE Rebuild(b, t)
  <2>1. UNCHANGED granted
    BY <1>4 DEF Rebuild, RequestSQL
  <2>2. CASE UNCHANGED <<pc, local>>
    BY <1>s, <2>1, <2>2, OrderStays DEF OrderInv
  <2>3. CASE StartSQLGeneration(t, NoLocal)
    <3>1. \E at \in {"sql_claude", "rules_insert"} : Moved(t, at)
      BY <1>t, <2>3, Moves DEF StartSQLGeneration, StoreRules
    <3> QED BY <1>s, <2>1, <3>1, OrderUndecided
  <2> QED BY <1>4, <2>2, <2>3 DEF Rebuild, RequestSQL
<1>5. CASE ExecuteRules(b, t)
  BY <1>t, <1>s, <1>5, Moves, OrderUndecided DEF ExecuteRules, Execute
<1>6. CASE SubmitRules(b, t) \/ SubmitSignOff(b, t)
  <2>1. UNCHANGED granted /\ Moved(t, "approval_insert")
    BY <1>t, <1>6, Moves DEF SubmitRules, SubmitSignOff, SubmitDecision
  <2>2. \A u \in Tasks : u # t => pc'[u] = pc[u] /\ local'[u] = local[u]
    BY <1>t, <2>1 DEF Moved, TypeOK
  <2>3. local'[t].checkpoint = 1 \/ 1 \in granted
    BY <1>6 DEF SubmitRules, SubmitSignOff, OrderInv
  <2> QED BY <1>s, <2>1, <2>2, <2>3 DEF OrderInv, Deciding, SignOffInOrder
<1> QED BY <1>1, <1>2, <1>3, <1>4, <1>5, <1>6 DEF Uses

\* A page shows what is approved, and that was granted.
LEMMA LookOrder ==
    ASSUME SessionInv, OrderInv, NEW b \in Consoles, Look(b)
    PROVE  OrderInv' /\ UNCHANGED vars
<1>1. UNCHANGED <<pc, local, granted>>
  BY DEF Look, vars, history
<1>2. \A c \in Consoles : 1 \in seen'[c] => 1 \in granted
  BY DEF Look, OrderInv, SessionInv, GateInv, Checkpoints
<1> QED BY <1>1, <1>2, OrderStays DEF Look

-----------------------------------------------------------------------------
(* The theorem                                                             *)

\* Every step of the consoles and of the server keeps it.
LEMMA ConsoleStep ==
    ASSUME SessionInv, OrderInv, [ConsoleNext]_allVars
    PROVE  SessionInv' /\ OrderInv'
<1>1. ASSUME UNCHANGED vars PROVE SessionInv'
  BY <1>1, StutterType DEF SessionInv, vars, session, rules, warehouse, history, GateInv,
                           ProcedureNeedsApproval, CompleteNeedsSignOff, NamedProcedureExists
<1>2. ASSUME UNCHANGED <<vars, seen>> PROVE OrderInv'
  BY <1>2, OrderStays DEF vars, history, OrderInv
<1>3. CASE UNCHANGED allVars
  BY <1>1, <1>2, <1>3 DEF allVars, browser
<1>4. CASE Server
  <2>1. UNCHANGED seen
    BY <1>4 DEF Server, browser
  <2>2. CASE Crash
    BY <2>1, <2>2, CrashType, CrashStep, CrashOrder DEF SessionInv
  <2>4. CASE DDLLands
    BY <2>1, <2>4, LandingType, LandingStep, CrashOrder DEF SessionInv
  <2>3. ASSUME NEW t \in Tasks, Resume(t) PROVE SessionInv' /\ OrderInv'
    <3>1. TypeOK'
      BY <2>3, DiscoveryType, GenerateType, SQLType, DecisionType, ExecutionType
         DEF SessionInv, Resume
    <3>2. GateInv'
      BY <2>3, GateStep DEF SessionInv, Next
    <3> QED BY <2>1, <2>3, <3>1, <3>2, ResumeOrder DEF SessionInv
  <2> QED BY <1>4, <2>2, <2>3, <2>4 DEF Server
<1>5. ASSUME NEW b \in Consoles, Look(b) PROVE SessionInv' /\ OrderInv'
  BY <1>1, <1>5, LookOrder
<1>6. ASSUME NEW b \in Consoles, Answered(b) \/ GivesUp(b) PROVE SessionInv' /\ OrderInv'
  BY <1>1, <1>2, <1>6 DEF Answered, GivesUp
<1>7. ASSUME NEW b \in Consoles, NEW t \in Tasks, Uses(b, t) PROVE SessionInv' /\ OrderInv'
  BY <1>7, ConsoleSession, ConsoleOrder
<1> QED BY <1>3, <1>4, <1>5, <1>6, <1>7 DEF ConsoleNext

\* Every state that consoles reach satisfies both invariants.
LEMMA ConsoleInvariant == ConsoleSpec => []SessionInv /\ []OrderInv
<1>1. ConsoleInit => SessionInv /\ OrderInv
  <2>1. ConsoleInit => TypeOK
    BY InitType DEF ConsoleInit
  <2>2. ConsoleInit => GateInv
    BY GateInit DEF ConsoleInit
  <2>3. ConsoleInit => OrderInv
    BY DEF ConsoleInit, Init, OrderInv, Deciding, SignOffInOrder
  <2> QED BY <2>1, <2>2, <2>3 DEF SessionInv
<1>2. SessionInv /\ OrderInv /\ [ConsoleNext]_allVars => SessionInv' /\ OrderInv'
  BY ConsoleStep
<1> QED BY <1>1, <1>2, PTL DEF ConsoleSpec

\* Through consoles, no sign-off precedes the approval of the rules: with any
\* number of consoles and requests, stale pages, lost answers and a crash.
THEOREM ConsolesSignOffInOrder == ConsoleSpec => []SignOffInOrder
<1>1. OrderInv => SignOffInOrder
  BY DEF OrderInv
<1> QED BY <1>1, ConsoleInvariant, PTL

-----------------------------------------------------------------------------
(* What is run and scheduled                                               *)

Executing == {"execute_setup", "execute_run"}

\* Before checkpoint 1 nothing has run, nothing is running, and no handler has
\* passed a gate.
StillInv ==
    1 \notin granted => executed = {} /\ ~dag /\ AllHarmless /\ \A t \in Tasks : pc[t] \notin Executing

\* Only executions lead to where statements run.
LEMMA ElsewhereStep ==
    ASSUME TypeOK, GateInv, 1 \notin granted, NEW t \in Tasks,
           \/ StartDiscovery(t) \/ WorkflowStarted(t) \/ DiscoveryPersisted(t)
           \/ MetadataDiscovered(t) \/ SessionRegistered(t)
           \/ \E business \in BOOLEAN : GenerateTechnical(t, business)
           \/ TechnicalPersisted(t) \/ GenerateBusiness(t)
           \/ BusinessRulesInferred(t) \/ BusinessRulesFailed(t) \/ BusinessPersisted(t)
           \/ SQLPersisted(t) \/ SubmitDecision(t) \/ ApprovalRecorded(t) \/ RefuseRules(t)
           \/ SignOff(t) \/ RefuseSignOff(t) \/ ReportsCreated(t) \/ ReportPersisted(t)
           \/ DecisionPersisted(t)
    PROVE  \E at : at \notin Executing /\ Moved(t, at)
<1>1. CASE \/ StartDiscovery(t) \/ WorkflowStarted(t) \/ DiscoveryPersisted(t)
           \/ MetadataDiscovered(t) \/ SessionRegistered(t)
  BY <1>1, Moves
     DEF StartDiscovery, WorkflowStarted, DiscoveryPersisted, MetadataDiscovered,
         SessionRegistered, Executing
<1>2. CASE \/ \E business \in BOOLEAN : GenerateTechnical(t, business)
           \/ TechnicalPersisted(t) \/ GenerateBusiness(t)
  BY <1>2, Moves DEF GenerateTechnical, TechnicalPersisted, GenerateBusiness, EnterBusiness, Executing
<1>3. CASE \/ BusinessRulesInferred(t) \/ BusinessRulesFailed(t) \/ BusinessPersisted(t)
           \/ SQLPersisted(t)
  BY <1>3, Moves
     DEF BusinessRulesInferred, BusinessRulesFailed, BusinessPersisted, SQLPersisted, Executing
<1>4. CASE \/ SubmitDecision(t) \/ ApprovalRecorded(t) \/ RefuseRules(t)
           \/ SignOff(t) \/ RefuseSignOff(t)
  BY <1>4, Moves
     DEF SubmitDecision, ApprovalRecorded, RefuseRules, SignOff, RefuseSignOff, Executing
<1>5. CASE ReportsCreated(t) \/ ReportPersisted(t) \/ DecisionPersisted(t)
  BY <1>5, Moves DEF ReportsCreated, ReportPersisted, DecisionPersisted, Executing
<1> QED BY <1>1, <1>2, <1>3, <1>4, <1>5

\* A handler that neither executes nor decides leaves a refused session still.
LEMMA ElsewhereStill ==
    ASSUME TypeOK, StillInv, NEW t \in Tasks, NEW at, at \notin Executing, Moved(t, at),
           1 \notin granted, AllHarmless', UNCHANGED <<dag, executed>>
    PROVE  StillInv'
<1>1. pc'[t] = at /\ \A u \in Tasks : u # t => pc'[u] = pc[u]
  BY DEF Moved, TypeOK
<1> QED BY <1>1 DEF StillInv

\* Steps towards a deployment: checkpoint 1 was granted, or is now.
LEMMA DeployingStill ==
    ASSUME TypeOK, GateInv, StillInv, 1 \notin granted, NEW t \in Tasks,
           \/ RequestSQL(t) \/ ApproveRules(t) \/ DagDeployed(t) \/ SQLInferred(t)
           \/ RulesInserted(t) \/ ProcedureAnswered(t) \/ ExecutionReady(t) \/ ExecutionDone(t)
    PROVE  1 \in granted'
BY DEF RequestSQL, MayGenerateSQL, ApproveRules, DagDeployed, SQLInferred, RulesInserted,
       ProcedureAnswered, ExecutionReady, ExecutionDone, GateInv, Checkpoints, Deploying,
       StillInv, AllHarmless, Harmless, Executing

\* Whatever the server does leaves a refused session still.
LEMMA ServerStill ==
    ASSUME TypeOK, GateInv, StillInv, Crash \/ DDLLands \/ \E t \in Tasks : Resume(t)
    PROVE  StillInv'
<1> SUFFICES ASSUME 1 \notin granted' PROVE StillInv'
  BY DEF StillInv
<1>1. 1 \notin granted
  BY GateStep DEF Next, Gates!Next, Gates!vars, Gates!Grant, Gates!Deploy, Gates!Finish
<1>2. executed = {} /\ ~dag /\ AllHarmless /\ \A t \in Tasks : pc[t] \notin Executing
  BY <1>1 DEF StillInv
<1>3. CASE Crash
  <2>1. AllHarmless' /\ \A t \in Tasks : pc'[t] \notin Executing
    BY <1>3 DEF Crash, AllHarmless, Harmless, NoLocal, Executing
  <2>2. ~dag'
    BY <1>2, <1>3 DEF Crash, At, AllHarmless, Harmless
  <2>3. executed' = {}
    BY <1>2, <1>3 DEF Crash, At, Executing
  <2> QED BY <2>1, <2>2, <2>3 DEF StillInv
<1>4. ASSUME NEW t \in Tasks, Resume(t) PROVE StillInv'
  BY <1>1, <1>2, <1>4, HarmlessStep, ElsewhereStep, ElsewhereStill, DeployingStill DEF Resume
<1>5. CASE DDLLands
  BY <1>2, <1>5 DEF DDLLands, session, rules, AllHarmless, StillInv
<1> QED BY <1>3, <1>4, <1>5

\* A page offers executions and rebuilds where it saw checkpoint 1 approved.
LEMMA ConsoleStill ==
    ASSUME SessionInv, OrderInv, StillInv, NEW b \in Consoles, NEW t \in Tasks, Uses(b, t)
    PROVE  StillInv'
<1>1. TypeOK /\ GateInv
  BY DEF SessionInv
<1>2. CASE 1 \notin granted
  <2>1. AllHarmless
    BY <1>2 DEF StillInv
  <2>2. CASE Discover(b, t) \/ Generate(b, t) \/ SubmitRules(b, t) \/ SubmitSignOff(b, t)
    <3>1. \/ StartDiscovery(t) \/ GenerateBusiness(t) \/ SubmitDecision(t)
          \/ \E business \in BOOLEAN : GenerateTechnical(t, business)
      BY <2>2 DEF Discover, Generate, SubmitRules, SubmitSignOff
    <3> QED BY <1>1, <1>2, <2>1, <3>1, HarmlessStep, ElsewhereStep, ElsewhereStill
  <2>3. CASE Curate(b, t)
    BY <2>3 DEF Curate, AddCustomRule, SetActive, warehouse, history, StillInv, AllHarmless
  <2>4. CASE Rebuild(b, t) \/ ExecuteRules(b, t)
    BY <1>2, <2>4 DEF Rebuild, ExecuteRules, OrderInv
  <2> QED BY <2>2, <2>3, <2>4 DEF Uses
<1>3. CASE 1 \in granted
  <2>1. UNCHANGED granted
    BY DEF Uses, Discover, Generate, Curate, SubmitRules, Rebuild, ExecuteRules, SubmitSignOff,
           StartDiscovery, GenerateTechnical, GenerateBusiness, EnterBusiness, AddCustomRule,
           SetActive, SubmitDecision, RequestSQL, Execute, history
  <2> QED BY <1>3, <2>1 DEF StillInv
<1> QED BY <1>2, <1>3

\* Every step of the consoles and of the server leaves it still.
LEMMA StillStep ==
    ASSUME SessionInv, OrderInv, StillInv, [ConsoleNext]_allVars
    PROVE  StillInv'
<1>1. ASSUME UNCHANGED vars PROVE StillInv'
  BY <1>1 DEF vars, session, rules, warehouse, history, StillInv, AllHarmless
<1>2. CASE Server
  BY <1>2, ServerStill DEF Server, SessionInv
<1>3. ASSUME NEW b \in Consoles, Look(b) \/ Answered(b) \/ GivesUp(b) PROVE StillInv'
  BY <1>1, <1>3 DEF Look, Answered, GivesUp
<1> QED BY <1>1, <1>2, <1>3, ConsoleStill DEF ConsoleNext, allVars

\* Through consoles, nothing runs and no DAG is deployed before the rules were
\* approved, custom rules included.
THEOREM ConsolesRunApproved == ConsoleSpec => []NothingRunsUnapproved
<1>1. ConsoleInit => StillInv
  BY DEF ConsoleInit, Init, StillInv, AllHarmless, Harmless, NoLocal, Executing
<1>2. SessionInv /\ OrderInv /\ StillInv /\ [ConsoleNext]_allVars => StillInv'
  BY StillStep
<1>3. StillInv => NothingRunsUnapproved
  BY DEF StillInv, NothingRunsUnapproved
<1> QED BY <1>1, <1>2, <1>3, ConsoleInvariant, PTL DEF ConsoleSpec
-----------------------------------------------------------------------------
(* Types, and who replaces a rule set                                      *)

\* Every step of the consoles keeps their types.
LEMMA ConsoleTypeStep ==
    ASSUME ConsoleTypeOK, [ConsoleNext]_allVars
    PROVE  ConsoleTypeOK'
<1> USE DEF browser
<1>1. CASE UNCHANGED browser
  BY <1>1 DEF ConsoleTypeOK
<1>2. ASSUME NEW b \in Consoles, Look(b) PROVE ConsoleTypeOK'
  BY <1>2 DEF ConsoleTypeOK, Look
<1>3. ASSUME NEW b \in Consoles, Answered(b) \/ GivesUp(b) PROVE ConsoleTypeOK'
  <2>1. After(b) \in Flows /\ Before(b) \in Flows
    BY DEF ConsoleTypeOK, After, Before, Flows
  <2>2. flow' \in [Consoles -> Flows]
    BY <1>3, <2>1 DEF ConsoleTypeOK, Answered, GivesUp, Stay
  <2>3. /\ told' \in BOOLEAN /\ hasty' \in BOOLEAN
        /\ asked' \in [Consoles -> SUBSET Tasks] /\ UNCHANGED <<loaded, seen>>
    BY <1>3 DEF ConsoleTypeOK, Answered, GivesUp
  <2> QED BY <2>2, <2>3 DEF ConsoleTypeOK
<1>4. ASSUME NEW b \in Consoles, NEW t \in Tasks, Uses(b, t) PROVE ConsoleTypeOK'
  <2>1. CASE Curate(b, t)
    BY <2>1 DEF Curate, ConsoleTypeOK
  <2>2. ASSUME Ask(b, t), UNCHANGED flow \/ \E at \in Flows : Stay(b, at)
        PROVE  ConsoleTypeOK'
    BY <2>2 DEF Ask, Stay, ConsoleTypeOK
  <2> QED BY <1>4, <2>1, <2>2
          DEF Uses, Discover, Generate, SubmitRules, Rebuild, ExecuteRules, SubmitSignOff, Flows
<1> QED BY <1>1, <1>2, <1>3, <1>4 DEF ConsoleNext, Server, allVars

\* Consoles never show, wait for or remember anything that is not there.
THEOREM ConsolesTypeCorrect == ConsoleSpec => []ConsoleTypeOK
<1>1. ConsoleInit => ConsoleTypeOK
  BY DEF ConsoleInit, ConsoleTypeOK, Flows
<1>2. ConsoleTypeOK /\ [ConsoleNext]_allVars => ConsoleTypeOK'
  BY ConsoleTypeStep
<1> QED BY <1>1, <1>2, PTL DEF ConsoleSpec

\* The session's only console that discovered it is the only one that step 2 is
\* offered to; until an answer is given up, it is offered for no second set.
NoAnswerInv ==
    /\ phase = "none" => versions = 0 /\ \A b \in Consoles : flow[b] = "none"
    /\ hasty \/
       /\ versions \in {0, 1}
       /\ \A a, b \in Consoles : flow[a] # "none" /\ flow[b] # "none" => a = b
       /\ \A b \in Consoles : flow[b] \in {"discovering", "discovered"} => versions = 0

\* The handlers draw no versions of their own.
LEMMA ServerDraws ==
    ASSUME Crash \/ DDLLands \/ \E t \in Tasks : Resume(t)
    PROVE  UNCHANGED versions /\ (phase' = "none" => phase = "none")
<1> USE DEF session, rules
<1>0. ASSUME NEW t \in Tasks, EnterBusiness(t) PROVE UNCHANGED <<versions, phase>>
  BY <1>0 DEF EnterBusiness
<1>1. CASE Crash
  BY <1>1 DEF Crash
<1>2. ASSUME NEW t \in Tasks, Resume(t)
      PROVE  UNCHANGED versions /\ (phase' = "none" => phase = "none")
  BY <1>0, <1>2
     DEF Resume, WorkflowStarted, DiscoveryPersisted, MetadataDiscovered, SessionRegistered,
         TechnicalPersisted, BusinessRulesInferred, BusinessRulesFailed, BusinessPersisted,
         SQLInferred, RulesInserted, ProcedureAnswered, SQLPersisted, ApprovalRecorded,
         ApproveRules, RefuseRules, SignOff, RefuseSignOff, ReportsCreated, ReportPersisted,
         DecisionPersisted, DagDeployed, ExecutionReady, ExecutionDone
<1>3. CASE DDLLands
  BY <1>3 DEF DDLLands
<1> QED BY <1>1, <1>2, <1>3

\* A console that does not touch the workflow of its New Workflow page.
LEMMA NoAnswerKept ==
    ASSUME NoAnswerInv, UNCHANGED <<versions, flow>>, hasty => hasty',
           phase' = "none" => phase = "none"
    PROVE  NoAnswerInv'
BY DEF NoAnswerInv

\* The New Workflow page: one console discovers the session, and generates once.
LEMMA WorkflowNoAnswer ==
    ASSUME ConsoleTypeOK, NoAnswerInv, NEW b \in Consoles, NEW t \in Tasks,
           Discover(b, t) \/ Generate(b, t)
    PROVE  NoAnswerInv'
<1>1. CASE Discover(b, t)
  <2>1. phase = "none" /\ phase' # "none" /\ UNCHANGED <<versions, hasty>>
    BY <1>1 DEF Discover, StartDiscovery, Ask, rules
  <2>2. flow' = [flow EXCEPT ![b] = "discovering"]
    BY <1>1 DEF Discover, Stay
  <2>3. \A a \in Consoles : flow[a] = "none" /\ (a # b => flow'[a] = "none")
    BY <2>1, <2>2 DEF NoAnswerInv, ConsoleTypeOK
  <2> QED BY <2>1, <2>3 DEF NoAnswerInv
<1>2. CASE Generate(b, t)
  <2>1. phase # "none" /\ UNCHANGED phase /\ versions' \in {versions, versions + 1} /\ UNCHANGED hasty
    BY <1>2 DEF Generate, GenerateTechnical, GenerateBusiness, EnterBusiness, Request, Ask, rules
  <2>2. flow[b] = "discovered" /\ flow' = [flow EXCEPT ![b] = "generating"]
    BY <1>2 DEF Generate, Stay
  <2>3. CASE hasty
    BY <2>1, <2>3 DEF NoAnswerInv
  <2>4. CASE ~hasty
    <3>1. versions = 0 /\ \A a \in Consoles \ {b} : flow[a] = "none"
      BY <2>2, <2>4 DEF NoAnswerInv
    <3>2. flow'[b] = "generating" /\ \A a \in Consoles \ {b} : flow'[a] = "none"
      BY <2>2, <3>1 DEF ConsoleTypeOK
    <3> QED BY <2>1, <3>1, <3>2 DEF NoAnswerInv
  <2> QED BY <2>3, <2>4
<1> QED BY <1>1, <1>2

\* An answer, or none.
LEMMA AnswerNoAnswer ==
    ASSUME ConsoleTypeOK, NoAnswerInv, NEW b \in Consoles, Answered(b) \/ GivesUp(b)
    PROVE  NoAnswerInv'
<1>0. UNCHANGED <<phase, versions>>
  BY DEF Answered, GivesUp, vars, session, rules
<1>1. /\ After(b) \in Flows /\ Before(b) \in Flows
      /\ flow[b] = "none" => After(b) = "none" /\ Before(b) = "none"
      /\ After(b) = "none" => flow[b] = "none"
      /\ After(b) \in {"discovering", "discovered"} => flow[b] \in {"discovering", "discovered"}
  BY DEF After, Before, ConsoleTypeOK, Flows
<1>2. CASE Answered(b)
  <2>1. flow' = [flow EXCEPT ![b] = After(b)] /\ UNCHANGED hasty
    BY <1>2 DEF Answered, Stay
  <2>2. flow'[b] = After(b) /\ \A a \in Consoles \ {b} : flow'[a] = flow[a]
    BY <2>1 DEF ConsoleTypeOK
  <2>3. \A a \in Consoles :
          /\ flow'[a] = "none" <=> flow[a] = "none"
          /\ flow'[a] \in {"discovering", "discovered"} => flow[a] \in {"discovering", "discovered"}
    BY <1>1, <2>2
  <2> QED BY <1>0, <2>1, <2>3 DEF NoAnswerInv
<1>3. CASE GivesUp(b)
  <2>1. flow' = [flow EXCEPT ![b] = Before(b)] /\ hasty'
    BY <1>3 DEF GivesUp, Stay
  <2>2. \A a \in Consoles : flow[a] = "none" => flow'[a] = "none"
    BY <1>1, <2>1 DEF ConsoleTypeOK
  <2> QED BY <1>0, <2>1, <2>2 DEF NoAnswerInv
<1> QED BY <1>2, <1>3

\* Every step keeps NoAnswerInv.
LEMMA NoAnswerStep ==
    ASSUME ConsoleTypeOK, NoAnswerInv, [ConsoleNext]_allVars
    PROVE  NoAnswerInv'
<1>1. CASE UNCHANGED allVars
  BY <1>1, NoAnswerKept DEF allVars, vars, session, rules, browser
<1>2. CASE Server
  BY <1>2, ServerDraws, NoAnswerKept DEF Server, browser
<1>3. ASSUME NEW b \in Consoles, Look(b) PROVE NoAnswerInv'
  BY <1>3, NoAnswerKept DEF Look, vars, session, rules
<1>4. ASSUME NEW b \in Consoles, NEW t \in Tasks, Uses(b, t) PROVE NoAnswerInv'
  <2>1. CASE Curate(b, t)
    BY <2>1, NoAnswerKept DEF Curate, AddCustomRule, SetActive
  <2>2. CASE SubmitRules(b, t) \/ SubmitSignOff(b, t) \/ Rebuild(b, t) \/ ExecuteRules(b, t)
    <3>1. UNCHANGED <<flow, hasty>> /\ (SubmitDecision(t) \/ RequestSQL(t) \/ Execute(t))
      BY <2>2 DEF SubmitRules, SubmitSignOff, Rebuild, ExecuteRules, Ask
    <3>2. UNCHANGED <<versions, phase>>
      BY <3>1 DEF SubmitDecision, RequestSQL, Execute, session, rules
    <3> QED BY <3>1, <3>2, NoAnswerKept
  <2> QED BY <1>4, <2>1, <2>2, WorkflowNoAnswer DEF Uses
<1> QED BY <1>1, <1>2, <1>3, <1>4, AnswerNoAnswer DEF ConsoleNext

\* ui/app.py, New Workflow: who waits for the answers never replaces a rule set,
\* whose approval the new one would inherit, whatever the other consoles do.
THEOREM ReplacementsAreRetries == ConsoleSpec => []ReplacedAfterNoAnswer
<1>1. ConsoleInit => NoAnswerInv
  BY DEF ConsoleInit, Init, NoAnswerInv
<1>2. ConsoleTypeOK /\ NoAnswerInv /\ [ConsoleNext]_allVars => NoAnswerInv'
  BY NoAnswerStep
<1>3. NoAnswerInv => ReplacedAfterNoAnswer
  BY DEF NoAnswerInv, ReplacedAfterNoAnswer
<1> QED BY <1>1, <1>2, <1>3, ConsolesTypeCorrect, PTL DEF ConsoleSpec
=============================================================================
