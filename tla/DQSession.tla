------------------------------ MODULE DQSession ------------------------------
(***************************************************************************)
(* One data-quality session as the REST API drives it: the WorkflowState   *)
(* object kept in the _sessions dictionary, the request handlers that      *)
(* mutate it, and what those handlers leave behind in BigQuery (the audit  *)
(* log, the dq_workflow_state rows, the consolidated stored procedure).    *)
(*                                                                         *)
(* All handlers are coroutines of one asyncio event loop and share the     *)
(* state object by reference.  The atomic steps of this module are the     *)
(* pieces of a handler between two real suspension points (a BigQuery, a   *)
(* Claude or a Composer call); everything a handler does between two such  *)
(* calls is one action.  Each element of Tasks is a slot for one in-flight *)
(* request; a configuration with one task is a deployment whose clients    *)
(* wait for every answer before they send the next request.                *)
(***************************************************************************)
EXTENDS Integers, FiniteSets

CONSTANTS
    Tasks,          \* slots for concurrently running requests
    GeneratedRules, \* identities of rules the technical and business agents create
    CustomRules,    \* identities of rules created by POST /rules/add-custom
    Supported,      \* the rules DQSQLGenerator.render_rule can render
    Tables,         \* tables of the session
    MaxVersions,    \* bound: rule set versions created in the session
    MaxTicks,       \* bound: no decision is submitted at or after this clock value
    Requests,       \* the kinds of request the clients of a configuration send
    Faults          \* the faults that happen in it

Rules == GeneratedRules \cup CustomRules

FaultKinds == {"insert",    \* a streaming insert fails; the callers swallow it
               "discovery", \* the metadata agent raises
               "generate",  \* a rule agent raises
               "claude",    \* Claude returns no SQL for a rule
               "ddl",       \* CREATE OR REPLACE PROCEDURE is refused
               "lost_ddl",  \* it is applied but its answer is lost
               "late_ddl",  \* it is applied after its client has given up
               "bad_mods",  \* a rule modification has a malformed value
               "composer",  \* the DAG cannot be deployed
               "execute",   \* the engine's setup, or the CALL, raises
               "crash"}     \* the API process dies

RequestKinds == {"generate", "custom", "update", "approve", "sql", "execute"}

ASSUME SessionAssumption ==
    /\ GeneratedRules \cap CustomRules = {}
    /\ Supported \subseteq Rules
    /\ MaxVersions \in Nat
    /\ MaxTicks \in Nat
    /\ Requests \subseteq RequestKinds
    /\ Faults \subseteq FaultKinds

VARIABLES
    phase,       \* of the session: not created, in discovery, registered, lost
    stage,       \* WorkflowState.current_stage
    approval,    \* approval_1_status and approval_2_status
    metadata,    \* the tables WorkflowState.metadata describes
    ruleSet,     \* the three lists of DQRuleSet and its version
    inactive,    \* rules whose is_active is False
    hasSQL,      \* rules whose generated_sql is set
    ruleVersion, \* rule_set_version_id stamped on a rule; 0 before it exists
    spName,      \* consolidated_sp_name is set
    completed,   \* completed_at is set
    versions,    \* rule set versions drawn so far
    clock,       \* logical time of the audit entries
    pc,          \* where each request is suspended
    local,       \* the local variables of each request
    procedure,   \* BigQuery: the rules of the deployed procedure
    late,        \* BigQuery: procedures of deployments given up, still to come
    audit,       \* BigQuery: the newest audit row of each checkpoint
    stateRow,    \* BigQuery: the last dq_workflow_state row inserted
    dag,         \* Composer: a DAG for this session was deployed and triggered
    executed,    \* rules whose SQL BigQuery ran for this session
    granted      \* history: checkpoints that were APPROVED at some time

rules == <<inactive, hasSQL, ruleVersion, versions>>
session == <<phase, stage, approval, metadata, ruleSet, spName, completed,
             rules>>
tables == <<audit, clock, stateRow>>
warehouse == <<procedure, late, dag, executed>>
history == granted
vars == <<session, pc, local, tables, warehouse, history>>

Stages == {"init", "metadata_discovery", "technical_rules", "business_rules",
           "sql_generation", "reporting", "complete"}
Decisions == {"approved", "rejected", "modified"}
Statuses == Decisions \cup {"pending"}
Checkpoints == {1, 2}

\* No procedure was deployed, and no row was inserted.
NoProcedure == {}
NoRow == [stage |-> "init", approval |-> [c \in Checkpoints |-> "pending"],
          version |-> -1]

EmptyRuleSet == [version |-> 0, technical |-> {}, business |-> {}, rules |-> {}]
HasRuleSet == ruleSet.version # 0

\* DQRuleSet.all_rules
AllRules(rs) == rs.technical \cup rs.business \cup rs.rules
Active(S) == S \ inactive

\* Rule identities not handed out yet.
Fresh(S) == {r \in S : ruleVersion[r] = 0}
\* Mutants: the version is one too high; it is the one of the replaced set.
StampNext(new, v) == [r \in Rules |-> IF r \in new THEN v + 1 ELSE ruleVersion[r]]
StampReplaced(new, v) ==
    [r \in Rules |-> IF r \in new THEN ruleSet.version ELSE ruleVersion[r]]

Stamp(new, v) == [r \in Rules |-> IF r \in new THEN v ELSE ruleVersion[r]]

NoLocal == [decision |-> "pending", checkpoint |-> 1, business |-> FALSE,
            version |-> 0, tables |-> {}, snapshot |-> {}, claude |-> {},
            built |-> {}, approving |-> FALSE, useProcedure |-> FALSE,
            stamp |-> 0, row |-> NoRow]

RowType == [stage : Stages, approval : [Checkpoints -> Statuses],
            version : -1 .. MaxVersions]
LocalType ==
    [decision : Statuses, checkpoint : Checkpoints, business : BOOLEAN,
     version : 0 .. MaxVersions, tables : SUBSET Tables,
     snapshot : SUBSET Rules, claude : SUBSET Rules, built : SUBSET Rules,
     approving : BOOLEAN, useProcedure : BOOLEAN, stamp : Nat, row : RowType]

\* The suspension points of the handlers, "idle" when the slot is free.
SuspensionPoints ==
    {"idle", "start_insert", "discovery_insert", "discovery", "register_insert",
     "technical_insert", "business_llm", "business_insert",
     "approval_insert", "audit_insert", "decision_insert", "composer",
     "reporting", "report_insert",
     "sql_claude", "rules_insert", "sql_ddl", "sql_insert",
     "execute_setup", "execute_run"}

TypeOK ==
    /\ phase \in {"none", "discovering", "open", "lost"}
    /\ stage \in Stages
    /\ approval \in [Checkpoints -> Statuses]
    /\ metadata \subseteq Tables
    /\ ruleSet \in [version : 0 .. MaxVersions, technical : SUBSET Rules,
                    business : SUBSET Rules, rules : SUBSET Rules]
    /\ inactive \subseteq Rules
    /\ hasSQL \subseteq Rules
    /\ ruleVersion \in [Rules -> 0 .. MaxVersions]
    /\ spName \in BOOLEAN
    /\ completed \in BOOLEAN
    /\ versions \in 0 .. MaxVersions
    /\ clock \in Nat
    /\ pc \in [Tasks -> SuspensionPoints]
    /\ local \in [Tasks -> LocalType]
    /\ procedure \subseteq Rules
    /\ late \subseteq SUBSET Rules
    /\ audit \in [Checkpoints -> [at : Nat, status : Statuses]]
    /\ stateRow \in RowType
    /\ dag \in BOOLEAN
    /\ executed \subseteq Rules
    /\ granted \subseteq Checkpoints

-----------------------------------------------------------------------------
(* The event loop: a handler suspends, resumes, returns.                   *)

Busy(t) == pc[t] # "idle"

\* t goes on from the suspension point at; its locals become l.
Suspend(t, at, l) ==
    /\ pc' = [pc EXCEPT ![t] = at]
    /\ local' = [local EXCEPT ![t] = l]

\* The handler answers its client.
Return(t) == Suspend(t, "idle", NoLocal)

\* Mutant: the row is built before the decision is assigned.
PersistBeforeDeciding(t, at, l) ==
    Suspend(t, at, [l EXCEPT !.row = [stage |-> stage', approval |-> approval,
                                      version |-> ruleSet'.version]])

\* OrchestratorAgent._persist_state: the row is built before the insert is
\* awaited, so it shows the state at this step and is inserted at a later one.
Persist(t, at, l) ==
    Suspend(t, at, [l EXCEPT !.row = [stage |-> stage', approval |-> approval',
                                      version |-> ruleSet'.version]])

\* ... and the answer of that insert; its failure is logged and forgotten.
RowInserted(t) ==
    \/ stateRow' = local[t].row
    \/ "insert" \in Faults /\ UNCHANGED stateRow

\* The locals that still matter once the work of a handler is done.
WorkDone(t) == [NoLocal EXCEPT !.approving = local[t].approving]

\* A request that finds its session registered, in a free slot.
Request(t) == phase = "open" /\ ~Busy(t)

-----------------------------------------------------------------------------
(* POST /discovery/start                                                   *)

StartDiscovery(t) ==
    /\ phase = "none" /\ ~Busy(t)
    /\ phase' = "discovering"
    /\ UNCHANGED <<stage, approval, metadata, ruleSet, spName, completed, rules>>
    /\ UNCHANGED <<tables, warehouse, history>>
    /\ Persist(t, "start_insert", NoLocal)

WorkflowStarted(t) ==
    /\ pc[t] = "start_insert"
    /\ RowInserted(t)
    /\ stage' = "metadata_discovery"
    /\ UNCHANGED <<phase, approval, metadata, ruleSet, spName, completed, rules>>
    /\ UNCHANGED <<audit, clock, warehouse, history>>
    /\ Persist(t, "discovery_insert", NoLocal)

DiscoveryPersisted(t) ==
    /\ pc[t] = "discovery_insert"
    /\ RowInserted(t)
    /\ Suspend(t, "discovery", NoLocal)
    /\ UNCHANGED <<session, audit, clock, warehouse, history>>

\* One table whose profiling raises aborts the whole discovery: metadata is
\* assigned for all tables or for none.
MetadataDiscovered(t) ==
    /\ pc[t] = "discovery"
    /\ \/ metadata' = Tables
       \/ "discovery" \in Faults /\ UNCHANGED metadata
    /\ UNCHANGED <<phase, stage, approval, ruleSet, spName, completed, rules>>
    /\ UNCHANGED <<tables, warehouse, history>>
    /\ Persist(t, "register_insert", NoLocal)

\* Only now does the session enter _sessions.
SessionRegistered(t) ==
    /\ pc[t] = "register_insert"
    /\ RowInserted(t)
    /\ phase' = "open"
    /\ Return(t)
    /\ UNCHANGED <<stage, approval, metadata, ruleSet, spName, completed, rules>>
    /\ UNCHANGED <<audit, clock, warehouse, history>>

-----------------------------------------------------------------------------
(* POST /rules/generate                                                    *)

\* run_stage_business_rules up to its first Claude call.
EnterBusiness(t) ==
    /\ stage' = "business_rules"
    /\ UNCHANGED <<phase, approval, metadata, ruleSet, spName, completed, rules>>
    /\ UNCHANGED <<warehouse, history>>
    /\ \/ /\ ~HasRuleSet \* an error is recorded, the state is not persisted
          /\ Return(t)
       \/ /\ HasRuleSet /\ metadata = {}
          /\ Persist(t, "business_insert", NoLocal)
       \/ /\ HasRuleSet /\ metadata # {}
          /\ Suspend(t, "business_llm",
                     [NoLocal EXCEPT !.version = ruleSet.version,
                                     !.tables = metadata])

\* run_stage_technical_rules: a new rule set replaces the old one.  The
\* approval of the old one is not taken back.
GenerateTechnical(t, business) ==
    /\ Request(t)
    /\ versions < MaxVersions
    /\ stage' = "technical_rules"
    /\ versions' = versions + 1
    /\ \/ \E new \in SUBSET Fresh(GeneratedRules) :
             /\ ruleSet' = [EmptyRuleSet EXCEPT !.version = versions', !.technical = new]
             /\ ruleVersion' = Stamp(new, versions')
       \/ "generate" \in Faults /\ UNCHANGED <<ruleSet, ruleVersion>>
    /\ UNCHANGED <<phase, approval, metadata, spName, completed, inactive, hasSQL>>
    /\ UNCHANGED <<tables, warehouse, history>>
    /\ Persist(t, "technical_insert", [NoLocal EXCEPT !.business = business])

\* The technical stage is persisted; the business stage follows if asked for.
TechnicalPersisted(t) ==
    /\ pc[t] = "technical_insert"
    /\ RowInserted(t)
    /\ UNCHANGED <<audit, clock>>
    /\ \/ local[t].business /\ EnterBusiness(t)
       \/ ~local[t].business /\ Return(t) /\ UNCHANGED <<session, warehouse, history>>

GenerateBusiness(t) ==
    /\ Request(t)
    /\ EnterBusiness(t)
    /\ UNCHANGED tables

\* Claude's rules for one table.  They carry the version captured before the
\* first call and are appended to whatever rule set is current now.
BusinessRulesInferred(t) ==
    /\ pc[t] = "business_llm"
    /\ UNCHANGED <<phase, stage, approval, metadata, spName, completed>>
    /\ UNCHANGED <<inactive, hasSQL, versions, tables, warehouse, history>>
    /\ \E table \in local[t].tables, new \in SUBSET Fresh(GeneratedRules) :
         LET left == local[t].tables \ {table} IN
         /\ ruleSet' = [ruleSet EXCEPT !.business = @ \cup new]
         /\ ruleVersion' = Stamp(new, local[t].version)
         /\ \/ left = {} /\ Persist(t, "business_insert", NoLocal)
            \/ left # {} /\ Suspend(t, "business_llm", [local[t] EXCEPT !.tables = left])

\* A rule Claude returned cannot be parsed: the loop over the tables ends.
BusinessRulesFailed(t) ==
    /\ pc[t] = "business_llm"
    /\ "generate" \in Faults
    /\ UNCHANGED <<session, tables, warehouse, history>>
    /\ Persist(t, "business_insert", NoLocal)

BusinessPersisted(t) ==
    /\ pc[t] = "business_insert"
    /\ RowInserted(t)
    /\ Return(t)
    /\ UNCHANGED <<session, audit, clock, warehouse, history>>

-----------------------------------------------------------------------------
(* The rule endpoints that do not suspend                                  *)

\* POST /rules/add-custom
AddCustomRule(t) ==
    /\ Request(t) /\ HasRuleSet
    /\ \E r \in Fresh(CustomRules) :
         /\ ruleSet' = [ruleSet EXCEPT !.business = @ \cup {r}]
         /\ ruleVersion' = Stamp({r}, ruleSet.version)
         /\ hasSQL' = hasSQL \cup {r}
    /\ UNCHANGED <<phase, stage, approval, metadata, spName, completed>>
    /\ UNCHANGED <<inactive, versions, pc, local, tables, warehouse, history>>

\* PUT /rules/{rule_id} and DELETE /rules/{rule_id}
SetActive(t) ==
    /\ Request(t)
    /\ \E r \in AllRules(ruleSet) : inactive' \in {inactive \cup {r}, inactive \ {r}}
    /\ UNCHANGED <<phase, stage, approval, metadata, ruleSet, spName, completed>>
    /\ UNCHANGED <<hasSQL, ruleVersion, versions, pc, local, tables, warehouse, history>>

-----------------------------------------------------------------------------
(* run_stage_sql_generation: POST /sql/generate, POST /sql/rebuild-sp, and *)
(* the tail of an approved checkpoint 1                                    *)

\* Mutants: the other two lists are not cleared; rules without SQL are dropped.
StoreRulesKeepingLists(t, l) ==
    /\ ruleSet' = [ruleSet EXCEPT !.rules = l.snapshot]
    /\ Suspend(t, "rules_insert", l)
StoreRulesWithSQL(t, l) ==
    /\ ruleSet' = [ruleSet EXCEPT !.technical = {}, !.business = {},
                                  !.rules = l.snapshot \cap hasSQL']
    /\ Suspend(t, "rules_insert", l)

\* The rules of the snapshot become the rule set: rules added to it since the
\* snapshot was taken are dropped.
StoreRules(t, l) ==
    /\ ruleSet' = [ruleSet EXCEPT !.technical = {}, !.business = {},
                                  !.rules = l.snapshot]
    /\ Suspend(t, "rules_insert", l)

\* Of a snapshot, what the generator writes; custom rules keep the SQL they
\* came with, and Claude is asked for the rest.
Rendered(S) == S \cap (Supported \ CustomRules)

\* Up to the first Claude call.  Rules are rendered in list order, so any of
\* them may precede the first one Claude is asked for.
StartSQLGeneration(t, l) ==
    LET snapshot == Active(AllRules(ruleSet))
        claude == snapshot \ (Supported \cup CustomRules)
        now == [l EXCEPT !.snapshot = snapshot, !.claude = claude]
    IN /\ stage' = "sql_generation"
       /\ \/ /\ claude = {}
             /\ hasSQL' = hasSQL \cup Rendered(snapshot)
             /\ StoreRules(t, now)
          \/ /\ claude # {}
             /\ \E done \in SUBSET Rendered(snapshot) : hasSQL' = hasSQL \cup done
             /\ Suspend(t, "sql_claude", now)
             /\ UNCHANGED ruleSet

\* Mutant: any decision on checkpoint 1 will do.
MayGenerateOnceDecided == approval[1] # "pending"

\* Both the router and the stage refuse unless checkpoint 1 is approved.
MayGenerateSQL == approval[1] = "approved"

RequestSQL(t) ==
    /\ Request(t)
    /\ MayGenerateSQL
    /\ \/ HasRuleSet /\ StartSQLGeneration(t, NoLocal)
       \/ ~HasRuleSet /\ stage' = "sql_generation" /\ UNCHANGED <<ruleSet, hasSQL, pc, local>>
    /\ UNCHANGED <<phase, approval, metadata, spName, completed>>
    /\ UNCHANGED <<inactive, ruleVersion, versions, tables, warehouse, history>>

SQLInferred(t) ==
    /\ pc[t] = "sql_claude"
    /\ \E r \in local[t].claude :
         LET now == [local[t] EXCEPT !.claude = @ \ {r}] IN
         \E answer \in SUBSET {r}, done \in SUBSET Rendered(now.snapshot) :
           /\ answer = {} => "claude" \in Faults
           /\ hasSQL' = hasSQL \cup answer \cup done
           /\ \/ /\ now.claude = {} /\ done = Rendered(now.snapshot)
                 /\ StoreRules(t, now)
              \/ /\ now.claude # {}
                 /\ Suspend(t, "sql_claude", now)
                 /\ UNCHANGED ruleSet
    /\ UNCHANGED <<phase, stage, approval, metadata, spName, completed>>
    /\ UNCHANGED <<inactive, ruleVersion, versions, tables, warehouse, history>>

\* The rules a procedure built from the rules S contains.
Deployable(S) == Active(S) \cap Supported

\* Mutant: the name is returned although there was nothing to deploy.
RulesInsertedNaming(t) ==
    LET content == Deployable(local[t].snapshot) IN
    /\ pc[t] = "rules_insert"
    /\ spName' = TRUE
    /\ UNCHANGED <<phase, stage, approval, metadata, ruleSet, completed, rules>>
    /\ UNCHANGED <<tables, warehouse, history>>
    /\ \/ content = {} /\ Persist(t, "sql_insert", WorkDone(t))
       \/ content # {} /\ Suspend(t, "sql_ddl", [WorkDone(t) EXCEPT !.built = content])

\* The rule rows are inserted; the procedure is built from the same rules, by
\* their is_active flags of now.  With no eligible rule the old one stays.
RulesInserted(t) ==
    LET content == Deployable(local[t].snapshot) IN
    /\ pc[t] = "rules_insert"
    /\ UNCHANGED <<session, tables, warehouse, history>>
    /\ \/ content = {} /\ Persist(t, "sql_insert", WorkDone(t))
       \/ content # {} /\ Suspend(t, "sql_ddl", [WorkDone(t) EXCEPT !.built = content])

\* Mutant: the old procedure is dropped before the new one is created.
ProcedureDropped(t) ==
    /\ pc[t] = "sql_ddl"
    /\ \/ procedure' = local[t].built /\ spName' = TRUE
       \/ "ddl" \in Faults /\ procedure' = NoProcedure /\ UNCHANGED spName
    /\ UNCHANGED <<phase, stage, approval, metadata, ruleSet, completed, rules>>
    /\ UNCHANGED <<tables, late, dag, executed, history>>
    /\ Persist(t, "sql_insert", WorkDone(t))

\* The deployment is answered, or execute_ddl gives up after 300 seconds; then
\* BigQuery may still be at work (equal deployments under way count once).
ProcedureAnswered(t) ==
    /\ pc[t] = "sql_ddl"
    /\ \/ procedure' = local[t].built /\ spName' = TRUE /\ UNCHANGED late
       \/ "lost_ddl" \in Faults /\ procedure' = local[t].built /\ UNCHANGED <<late, spName>>
       \/ "late_ddl" \in Faults /\ late' = late \cup {local[t].built}
                                 /\ UNCHANGED <<procedure, spName>>
       \/ "ddl" \in Faults /\ UNCHANGED <<procedure, late, spName>>
    /\ UNCHANGED <<phase, stage, approval, metadata, ruleSet, completed, rules>>
    /\ UNCHANGED <<tables, dag, executed, history>>
    /\ Persist(t, "sql_insert", WorkDone(t))

SQLPersisted(t) ==
    /\ pc[t] = "sql_insert"
    /\ RowInserted(t)
    /\ UNCHANGED <<session, audit, clock, warehouse, history>>
    /\ \/ local[t].approving /\ Persist(t, "decision_insert", WorkDone(t))
       \/ ~local[t].approving /\ Return(t)

-----------------------------------------------------------------------------
(* POST /approvals/submit                                                  *)

SubmitDecision(t) ==
    /\ Request(t)
    /\ clock < MaxTicks
    /\ clock' = clock + 1
    /\ \E c \in Checkpoints, d \in Decisions :
         Suspend(t, "approval_insert",
                 [NoLocal EXCEPT !.checkpoint = c, !.decision = d, !.stamp = clock'])
    /\ UNCHANGED <<session, audit, stateRow, warehouse, history>>

\* Mutant: the rows are sorted in ascending order.
WithOldestAuditRow(t) ==
    LET c == local[t].checkpoint IN
    IF audit[c].at = 0
    THEN [audit EXCEPT ![c] = [at |-> local[t].stamp, status |-> local[t].decision]]
    ELSE audit

\* The audit log with the row t has in flight.  get_approval_status reads the
\* row with the greatest timestamp of a checkpoint.
WithAuditRow(t) ==
    LET c == local[t].checkpoint IN
    IF audit[c].at < local[t].stamp
    THEN [audit EXCEPT ![c] = [at |-> local[t].stamp, status |-> local[t].decision]]
    ELSE audit

AuditRowInserted(t) ==
    \/ audit' = WithAuditRow(t)
    \/ "insert" \in Faults /\ UNCHANGED audit

\* A decision is audited twice: the ApprovalRecord, then an AuditLogEntry.
ApprovalRecorded(t) ==
    /\ pc[t] = "approval_insert"
    /\ AuditRowInserted(t)
    /\ clock' = clock + 1
    /\ Suspend(t, "audit_insert", [local[t] EXCEPT !.stamp = clock'])
    /\ UNCHANGED <<session, stateRow, warehouse, history>>

\* Mutant: every decision is stored as an approval.
AuditedAsApproved(t, c, decisions) ==
    /\ pc[t] = "audit_insert"
    /\ local[t].checkpoint = c
    /\ local[t].decision \in decisions
    /\ AuditRowInserted(t)
    /\ approval' = [approval EXCEPT ![c] = "approved"]

\* Only after both inserts does a decision on checkpoint c take effect.
Audited(t, c, decisions) ==
    /\ pc[t] = "audit_insert"
    /\ local[t].checkpoint = c
    /\ local[t].decision \in decisions
    /\ AuditRowInserted(t)
    /\ approval' = [approval EXCEPT ![c] = local[t].decision]

\* process_approval_1 with APPROVED runs straight into the SQL generation.
ApproveRules(t) ==
    LET now == [NoLocal EXCEPT !.approving = TRUE] IN
    /\ Audited(t, 1, {"approved"})
    /\ granted' = granted \cup {1}
    /\ UNCHANGED <<phase, metadata, spName, completed, inactive, ruleVersion, versions>>
    /\ UNCHANGED <<clock, stateRow, warehouse>>
    /\ \/ HasRuleSet /\ StartSQLGeneration(t, now)
       \/ /\ ~HasRuleSet
          /\ UNCHANGED <<stage, ruleSet, hasSQL>>
          /\ Persist(t, "decision_insert", now)

\* process_approval_1 with REJECTED, or MODIFIED.  apply_rule_modifications
\* sets is_active of any rules and keeps the active ones; a malformed value
\* raises after the status was set and some rules were changed.
RefuseRules(t) ==
    /\ Audited(t, 1, {"rejected", "modified"})
    /\ UNCHANGED <<phase, stage, metadata, spName, completed>>
    /\ UNCHANGED <<hasSQL, ruleVersion, versions, clock, stateRow, warehouse, history>>
    /\ \/ /\ UNCHANGED <<ruleSet, inactive>>
          /\ Persist(t, "decision_insert", WorkDone(t))
       \/ /\ local[t].decision = "modified" /\ HasRuleSet
          /\ \E off \in SUBSET AllRules(ruleSet) :
               /\ inactive' = (inactive \ AllRules(ruleSet)) \cup off
               /\ \/ /\ ruleSet' = [ruleSet EXCEPT !.technical = {}, !.business = {},
                                                   !.rules = AllRules(ruleSet) \ off]
                     /\ Persist(t, "decision_insert", WorkDone(t))
                  \/ "bad_mods" \in Faults /\ UNCHANGED ruleSet /\ Return(t)

\* process_approval_2 with APPROVED.  It looks neither at the stage nor at
\* checkpoint 1.
SignOff(t) ==
    /\ Audited(t, 2, {"approved"})
    /\ granted' = granted \cup {2}
    /\ stage' = "reporting"
    /\ Suspend(t, "reporting", NoLocal)
    /\ UNCHANGED <<phase, metadata, ruleSet, spName, completed, rules>>
    /\ UNCHANGED <<clock, stateRow, warehouse>>

RefuseSignOff(t) ==
    /\ Audited(t, 2, {"rejected", "modified"})
    /\ UNCHANGED <<phase, stage, metadata, ruleSet, spName, completed, rules>>
    /\ UNCHANGED <<clock, stateRow, warehouse, history>>
    /\ Persist(t, "decision_insert", WorkDone(t))

\* run_stage_reporting completes the session whether the views were created
\* or not.
ReportsCreated(t) ==
    /\ pc[t] = "reporting"
    /\ stage' = "complete"
    /\ completed' = TRUE
    /\ UNCHANGED <<phase, approval, metadata, ruleSet, spName, rules>>
    /\ UNCHANGED <<tables, warehouse, history>>
    /\ Persist(t, "report_insert", WorkDone(t))

ReportPersisted(t) ==
    /\ pc[t] = "report_insert"
    /\ RowInserted(t)
    /\ UNCHANGED <<session, audit, clock, warehouse, history>>
    /\ Persist(t, "decision_insert", WorkDone(t))

DecisionPersisted(t) ==
    /\ pc[t] = "decision_insert"
    /\ RowInserted(t)
    /\ UNCHANGED <<session, audit, clock, warehouse, history>>
    /\ \/ local[t].approving /\ Suspend(t, "composer", NoLocal)
       \/ ~local[t].approving /\ Return(t)

\* Mutant: a failed deployment is tried again, without end.
DagDeployedRetried(t) ==
    /\ pc[t] = "composer"
    /\ UNCHANGED <<session, tables, procedure, late, executed, history>>
    /\ \/ dag' = TRUE /\ Return(t)
       \/ /\ "composer" \in Faults /\ UNCHANGED dag
          /\ Persist(t, "decision_insert", [NoLocal EXCEPT !.approving = TRUE])

\* deploy_and_trigger: the DAG calls consolidated_sp_name, or the name the
\* procedure would have had.  A failure is reported in the answer only.
DagDeployed(t) ==
    /\ pc[t] = "composer"
    /\ \/ dag' = TRUE
       \/ "composer" \in Faults /\ UNCHANGED dag
    /\ Return(t)
    /\ UNCHANGED <<session, tables, procedure, late, executed, history>>

-----------------------------------------------------------------------------
(* POST /sql/execute.  It asks for a rule set, not for an approval.        *)

Execute(t) ==
    /\ Request(t) /\ HasRuleSet
    /\ Suspend(t, "execute_setup",
               [NoLocal EXCEPT !.snapshot = AllRules(ruleSet), !.useProcedure = spName])
    /\ UNCHANGED <<session, tables, warehouse, history>>

\* Mutant: rules without SQL are not skipped.
ExecutionReadyUnfiltered(t) ==
    /\ pc[t] = "execute_setup"
    /\ \/ Suspend(t, "execute_run", [local[t] EXCEPT !.snapshot = Active(@)])
       \/ "execute" \in Faults /\ Return(t)
    /\ UNCHANGED <<session, tables, warehouse, history>>

\* ensure_dq_infrastructure has answered: the rules to run are selected.
ExecutionReady(t) ==
    /\ pc[t] = "execute_setup"
    /\ \/ Suspend(t, "execute_run", [local[t] EXCEPT !.snapshot = Active(@) \cap hasSQL])
       \/ "execute" \in Faults /\ Return(t)
    /\ UNCHANGED <<session, tables, warehouse, history>>

\* What BigQuery may have run when the execution of t ends: one CALL is all
\* or nothing, separate statements fail separately.
Runs(t) ==
    LET toRun == IF local[t].useProcedure THEN procedure ELSE local[t].snapshot
    IN {toRun} \cup (IF "execute" \notin Faults THEN {}
                     ELSE IF local[t].useProcedure THEN {{}} ELSE SUBSET toRun)

ExecutionDone(t) ==
    /\ pc[t] = "execute_run"
    /\ \E ran \in Runs(t) : executed' = executed \cup ran
    /\ Return(t)
    /\ UNCHANGED <<session, tables, procedure, late, dag, history>>

-----------------------------------------------------------------------------
(* The server                                                              *)

\* A request that changes nothing: 404 for an unknown session, or one without
\* a rule set; 400 when SQL is asked for without an approval.
Refused(t) ==
    /\ ~Busy(t)
    /\ phase # "open" \/ ~HasRuleSet \/ ~MayGenerateSQL
    /\ UNCHANGED vars

InsertPoints == {"start_insert", "discovery_insert", "register_insert",
                 "technical_insert", "business_insert", "sql_insert",
                 "decision_insert", "report_insert"}

At(points) == {t \in Tasks : pc[t] \in points}

\* The process dies and _sessions with it: lifespan creates tables and views
\* on the next start and reads no session back.  A BigQuery or Composer call
\* in flight may still be carried out.
Crash ==
    /\ "crash" \in Faults
    /\ phase \in {"discovering", "open"}
    /\ phase' = "lost"
    /\ pc' = [t \in Tasks |-> "idle"]
    /\ local' = [t \in Tasks |-> NoLocal]
    /\ procedure' \in {procedure} \cup {local[t].built : t \in At({"sql_ddl"})}
    /\ stateRow' \in {stateRow} \cup {local[t].row : t \in At(InsertPoints)}
    /\ audit' \in {audit} \cup {WithAuditRow(t) : t \in At({"approval_insert", "audit_insert"})}
    /\ dag' \in {dag, dag \/ At({"composer"}) # {}}
    /\ executed' \in {executed} \cup
                     UNION {{executed \cup ran : ran \in Runs(t)} : t \in At({"execute_run"})}
    /\ UNCHANGED <<stage, approval, metadata, ruleSet, spName, completed, rules>>
    /\ UNCHANGED <<late, clock, history>>

\* BigQuery carries out a deployment whose handler has given up; whatever was
\* decided and deployed since, and also without the server.
DDLLands ==
    /\ \E content \in late : procedure' = content /\ late' = late \ {content}
    /\ UNCHANGED <<session, pc, local, tables, dag, executed, history>>

-----------------------------------------------------------------------------
(* The specification                                                       *)

Init ==
    /\ phase = "none"
    /\ stage = "init"
    /\ approval = [c \in Checkpoints |-> "pending"]
    /\ metadata = {}
    /\ ruleSet = EmptyRuleSet
    /\ inactive = {}
    /\ hasSQL = {}
    /\ ruleVersion = [r \in Rules |-> 0]
    /\ spName = FALSE
    /\ completed = FALSE
    /\ versions = 0
    /\ clock = 0
    /\ pc = [t \in Tasks |-> "idle"]
    /\ local = [t \in Tasks |-> NoLocal]
    /\ procedure = NoProcedure
    /\ late = {}
    /\ audit = [c \in Checkpoints |-> [at |-> 0, status |-> "pending"]]
    /\ stateRow = NoRow
    /\ dag = FALSE
    /\ executed = {}
    /\ granted = {}

\* What the clients may send ...
Arrive(t) ==
    \/ StartDiscovery(t)
    \/ "generate" \in Requests /\ \E business \in BOOLEAN : GenerateTechnical(t, business)
    \/ "generate" \in Requests /\ GenerateBusiness(t)
    \/ "custom" \in Requests /\ AddCustomRule(t)
    \/ "update" \in Requests /\ SetActive(t)
    \/ "approve" \in Requests /\ SubmitDecision(t)
    \/ "sql" \in Requests /\ RequestSQL(t)
    \/ "execute" \in Requests /\ Execute(t)
    \/ Refused(t)

\* ... and how a handler goes on once the call it awaits has ended.
Resume(t) ==
    \/ WorkflowStarted(t)
    \/ DiscoveryPersisted(t)
    \/ MetadataDiscovered(t)
    \/ SessionRegistered(t)
    \/ TechnicalPersisted(t)
    \/ BusinessRulesInferred(t)
    \/ BusinessRulesFailed(t)
    \/ BusinessPersisted(t)
    \/ SQLInferred(t)
    \/ RulesInserted(t)
    \/ ProcedureAnswered(t)
    \/ SQLPersisted(t)
    \/ ApprovalRecorded(t)
    \/ ApproveRules(t)
    \/ RefuseRules(t)
    \/ SignOff(t)
    \/ RefuseSignOff(t)
    \/ ReportsCreated(t)
    \/ ReportPersisted(t)
    \/ DecisionPersisted(t)
    \/ DagDeployed(t)
    \/ ExecutionReady(t)
    \/ ExecutionDone(t)

Next == Crash \/ DDLLands \/ \E t \in Tasks : Arrive(t) \/ Resume(t)

Spec == Init /\ [][Next]_vars

\* Every awaited call ends: BigQuery, Anthropic and HTTP clients have timeouts,
\* and the event loop resumes a coroutine whose call has ended.  The exception
\* is the alert mail that POST /sql/execute awaits in its last piece, for
\* smtplib.SMTP has no timeout.  Nothing makes a client send a request, or
\* BigQuery carry out what was given up.
FairSpec == Spec /\ \A t \in Tasks : WF_vars(pc[t] # "execute_run" /\ Resume(t))

-----------------------------------------------------------------------------
(* What holds however the requests of a session interleave                 *)

\* ADR-005, the first gate: whatever procedure is deployed was generated after
\* checkpoint 1 had been APPROVED, also when the answer of the deployment was
\* lost or the process died during it.
ProcedureNeedsApproval == procedure # NoProcedure => 1 \in granted

\* ADR-005, the second gate: the session is COMPLETE, or carries a completion
\* time, only after checkpoint 2 had been APPROVED.
CompleteNeedsSignOff == stage = "complete" \/ completed => 2 \in granted

\* consolidated_sp_name, which decides between one CALL and separate
\* statements, is only set when BigQuery holds a procedure of that name.
NamedProcedureExists == spName => procedure # NoProcedure

\* The three lists of a DQRuleSet never hold the same rule twice, although
\* SQL generation and modification move rules between lists while other
\* requests add rules or replace the set: all_rules would run it twice.
NoRuleTwice ==
    /\ ruleSet.technical \cap ruleSet.business = {}
    /\ ruleSet.technical \cap ruleSet.rules = {}
    /\ ruleSet.business \cap ruleSet.rules = {}

\* ADR-005, "Checkpoint 1 ensures rule quality before automated execution":
\* before checkpoint 1 was APPROVED no DAG is scheduled, and the only SQL that
\* runs is what a client wrote into a custom rule.
AutomationNeedsApproval == dag \/ executed \ CustomRules # {} => 1 \in granted

\* Every request is answered, or is an execution that has come to its run,
\* where its mail may hang (RunExecution): no loop over tables or rules, and no
\* chain of awaited calls, goes on for ever.
RequestsReturn == \A t \in Tasks : Busy(t) ~> pc[t] \in {"idle", "execute_run"}

\* A reader of dq_workflow_state, during the session or after a crash, never
\* finds an approval or a completion that was not granted: rows are inserted
\* late and out of order, but never ahead of the decision they show.
RowsNeverAhead ==
    /\ \A c \in Checkpoints : stateRow.approval[c] = "approved" => c \in granted
    /\ stateRow.stage = "complete" => 2 \in granted

\* The session, whatever its interleavings, faults and crashes, keeps the
\* promise of the two approval checkpoints.
Gates == INSTANCE ApprovalGates WITH deployed <- procedure, signedOff <- completed
KeepsGates == Gates!Spec

-----------------------------------------------------------------------------
(* What holds only while the requests of a session do not overlap          *)

Quiet == phase = "open" /\ \A t \in Tasks : ~Busy(t)

\* After a REJECTED or MODIFIED decision ("Workflow halted.") the procedure
\* does not change until checkpoint 1 is approved; all that can still reach it
\* is a deployment that was given up earlier and that BigQuery carries out now.
DeployOnlyWhileApproved ==
    [][procedure' # procedure
         => approval[1] = "approved"
            \/ \E content \in late : procedure' = content /\ late' = late \ {content}]_vars

\* As long as the rule set is not regenerated, a rule acknowledged to a client
\* and not deactivated stays in it.
NoActiveRuleLost ==
    [][ruleSet'.version = ruleSet.version
         => Active(AllRules(ruleSet)) \subseteq AllRules(ruleSet') \cup inactive']_vars

\* Every rule of the set carries the set's rule_set_version_id, the key under
\* which dq_rule_config rows are grouped.
VersionsAgree == \A r \in AllRules(ruleSet) : ruleVersion[r] = ruleSet.version

\* Between requests, the last dq_workflow_state row shows the decisions and
\* the rule set version in force (when no insert failed).
DecisionsDurable ==
    Quiet => stateRow.approval = approval /\ stateRow.version = ruleSet.version

\* Between requests, the decision in force on each checkpoint is the newest
\* one of the audit log (when no insert failed).
AuditAgrees == Quiet => \A c \in Checkpoints : audit[c].status = approval[c]
===============================================================================
