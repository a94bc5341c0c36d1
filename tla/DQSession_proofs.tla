--------------------------- MODULE DQSession_proofs ---------------------------
(***************************************************************************)
(* The types of a session and its two approval gates, proved for every     *)
(* number of overlapping requests and under every fault and crash.         *)
(***************************************************************************)
EXTENDS DQSession, TLAPS

-----------------------------------------------------------------------------
(* Lemmas on the handlers' local records                                   *)

\* The locals of a handler that starts, or has ended, are well formed.
LEMMA NoLocalType == NoLocal \in LocalType /\ NoRow \in RowType
BY SessionAssumption
   DEF NoLocal, LocalType, NoRow, RowType, Statuses, Decisions, Stages, Checkpoints

\* Updating a well-formed record of locals with well-formed values keeps it
\* well formed.
LEMMA LocalUpdate ==
    ASSUME NEW l \in LocalType, NEW v \in 0 .. MaxVersions, NEW n \in Nat,
           NEW T \in SUBSET Tables, NEW S \in SUBSET Rules, NEW C \in SUBSET Rules,
           NEW b \in BOOLEAN, NEW c \in Checkpoints, NEW d \in Statuses,
           NEW r \in RowType
    PROVE  /\ [l EXCEPT !.version = v, !.tables = T] \in LocalType
           /\ [l EXCEPT !.tables = T] \in LocalType
           /\ [l EXCEPT !.snapshot = S, !.claude = C] \in LocalType
           /\ [l EXCEPT !.snapshot = S, !.useProcedure = b] \in LocalType
           /\ [l EXCEPT !.snapshot = S] \in LocalType
           /\ [l EXCEPT !.claude = C] \in LocalType
           /\ [l EXCEPT !.built = S] \in LocalType
           /\ [l EXCEPT !.business = b] \in LocalType
           /\ [l EXCEPT !.approving = b] \in LocalType
           /\ [l EXCEPT !.checkpoint = c, !.decision = d, !.stamp = n] \in LocalType
           /\ [l EXCEPT !.stamp = n] \in LocalType
           /\ [l EXCEPT !.row = r] \in LocalType
BY DEF LocalType

\* What a suspended handler holds, the row it may be inserting included, is
\* well formed.
LEMMA LocalOf ==
    ASSUME TypeOK, NEW t \in Tasks
    PROVE  /\ local[t] \in LocalType
           /\ local[t].row \in RowType
           /\ local[t].snapshot \subseteq Rules
           /\ local[t].claude \subseteq Rules
           /\ local[t].built \subseteq Rules
           /\ local[t].tables \subseteq Tables
           /\ local[t].version \in 0 .. MaxVersions
           /\ local[t].stamp \in Nat
           /\ local[t].decision \in Statuses
           /\ local[t].checkpoint \in Checkpoints
           /\ WorkDone(t) \in LocalType
<1>1. local[t] \in LocalType
  BY DEF TypeOK
<1>2. WorkDone(t) \in LocalType
  BY <1>1, NoLocalType DEF WorkDone, LocalType
<1> QED BY <1>1, <1>2 DEF LocalType

\* Suspending one handler keeps all the handlers well formed.
LEMMA SuspendType ==
    ASSUME TypeOK, NEW t \in Tasks, NEW at \in SuspensionPoints, NEW l \in LocalType,
           Suspend(t, at, l)
    PROVE  pc' \in [Tasks -> SuspensionPoints] /\ local' \in [Tasks -> LocalType]
BY DEF TypeOK, Suspend

\* So does answering a client ...
LEMMA ReturnType ==
    ASSUME TypeOK, NEW t \in Tasks, Return(t)
    PROVE  pc' \in [Tasks -> SuspensionPoints] /\ local' \in [Tasks -> LocalType]
BY SuspendType, NoLocalType DEF Return, SuspensionPoints

\* ... and suspending one with a state row in flight, if the state it shows is
\* well formed.
LEMMA PersistType ==
    ASSUME TypeOK, NEW t \in Tasks, NEW at \in SuspensionPoints, NEW l \in LocalType,
           Persist(t, at, l),
           stage' \in Stages, approval' \in [Checkpoints -> Statuses],
           ruleSet'.version \in 0 .. MaxVersions
    PROVE  pc' \in [Tasks -> SuspensionPoints] /\ local' \in [Tasks -> LocalType]
<1> DEFINE row == [stage |-> stage', approval |-> approval', version |-> ruleSet'.version]
<1>1. row \in RowType
  BY SessionAssumption DEF RowType
<1>2. [l EXCEPT !.row = row] \in LocalType
  BY <1>1 DEF LocalType
<1>3. Suspend(t, at, [l EXCEPT !.row = row])
  BY DEF Persist
<1> QED BY <1>2, <1>3, SuspendType

\* A state row that reaches the table is well formed.
LEMMA RowInsertedType ==
    ASSUME TypeOK, NEW t \in Tasks, RowInserted(t)
    PROVE  stateRow' \in RowType
BY LocalOf DEF RowInserted, TypeOK

\* So is an audit row.
LEMMA AuditType ==
    ASSUME TypeOK, NEW t \in Tasks
    PROVE  WithAuditRow(t) \in [Checkpoints -> [at : Nat, status : Statuses]]
BY LocalOf DEF WithAuditRow, TypeOK

\* The rule set a snapshot is stored into is well formed.
LEMMA StoreRulesType ==
    ASSUME TypeOK, NEW t \in Tasks, NEW l \in LocalType, StoreRules(t, l)
    PROVE  /\ ruleSet' \in [version : 0 .. MaxVersions, technical : SUBSET Rules,
                            business : SUBSET Rules, rules : SUBSET Rules]
           /\ pc' \in [Tasks -> SuspensionPoints]
           /\ local' \in [Tasks -> LocalType]
<1>1. l.snapshot \subseteq Rules
  BY DEF LocalType
<1>2. ruleSet' \in [version : 0 .. MaxVersions, technical : SUBSET Rules,
                    business : SUBSET Rules, rules : SUBSET Rules]
  BY <1>1 DEF StoreRules, TypeOK
<1>3. "rules_insert" \in SuspensionPoints
  BY DEF SuspensionPoints
<1> QED BY <1>2, <1>3, SuspendType DEF StoreRules

-----------------------------------------------------------------------------
(* Type correctness                                                        *)

\* The part of TypeOK that speaks of the handlers.
HandlersOK == pc \in [Tasks -> SuspensionPoints] /\ local \in [Tasks -> LocalType]

\* The sets of rules a handler creates, keeps or renders are sets of rules.
LEMMA RuleSetsType ==
    ASSUME TypeOK
    PROVE  /\ AllRules(ruleSet) \subseteq Rules
           /\ \A S : Rendered(S) \subseteq Rules
           /\ Fresh(GeneratedRules) \subseteq Rules
           /\ Fresh(CustomRules) \subseteq Rules
           /\ \A new, v : v \in 0 .. MaxVersions => Stamp(new, v) \in [Rules -> 0 .. MaxVersions]
           /\ ruleSet.version \in 0 .. MaxVersions
           /\ ruleSet.technical \subseteq Rules /\ ruleSet.business \subseteq Rules
<1>1. AllRules(ruleSet) \subseteq Rules /\ ruleSet.version \in 0 .. MaxVersions
      /\ ruleSet.technical \subseteq Rules /\ ruleSet.business \subseteq Rules
  BY DEF TypeOK, AllRules
<1>2. \A S : Rendered(S) \subseteq Rules
  BY SessionAssumption DEF Rendered
<1>3. Fresh(GeneratedRules) \subseteq Rules /\ Fresh(CustomRules) \subseteq Rules
  BY DEF Fresh, Rules
<1>4. \A new, v : v \in 0 .. MaxVersions => Stamp(new, v) \in [Rules -> 0 .. MaxVersions]
  BY DEF Stamp, TypeOK
<1> QED BY <1>1, <1>2, <1>3, <1>4

\* POST /discovery/start keeps the types.
LEMMA DiscoveryType ==
    ASSUME TypeOK, NEW t \in Tasks,
           \/ StartDiscovery(t) \/ WorkflowStarted(t) \/ DiscoveryPersisted(t)
           \/ MetadataDiscovered(t) \/ SessionRegistered(t)
    PROVE  TypeOK'
<1> USE NoLocalType DEF HandlersOK
<1>1. CASE StartDiscovery(t)
  <2>1. HandlersOK'
    BY <1>1, PersistType DEF StartDiscovery, TypeOK, SuspensionPoints
  <2> QED BY <1>1, <2>1 DEF StartDiscovery, TypeOK, rules, tables, warehouse, history
<1>2. CASE WorkflowStarted(t)
  <2>1. HandlersOK'
    BY <1>2, PersistType DEF WorkflowStarted, TypeOK, SuspensionPoints, Stages
  <2> QED BY <1>2, <2>1, RowInsertedType
          DEF WorkflowStarted, TypeOK, rules, warehouse, history, Stages
<1>3. CASE DiscoveryPersisted(t)
  <2>1. HandlersOK'
    BY <1>3, SuspendType DEF DiscoveryPersisted, SuspensionPoints
  <2> QED BY <1>3, <2>1, RowInsertedType
          DEF DiscoveryPersisted, TypeOK, session, rules, warehouse, history
<1>4. CASE MetadataDiscovered(t)
  <2>1. HandlersOK'
    BY <1>4, PersistType DEF MetadataDiscovered, TypeOK, SuspensionPoints
  <2> QED BY <1>4, <2>1 DEF MetadataDiscovered, TypeOK, rules, tables, warehouse, history
<1>5. CASE SessionRegistered(t)
  <2>1. HandlersOK'
    BY <1>5, ReturnType DEF SessionRegistered
  <2> QED BY <1>5, <2>1, RowInsertedType
          DEF SessionRegistered, TypeOK, rules, warehouse, history
<1> QED BY <1>1, <1>2, <1>3, <1>4, <1>5

\* The stage of business rules keeps the types up to its first Claude call.
LEMMA EnterBusinessType ==
    ASSUME TypeOK, NEW t \in Tasks, EnterBusiness(t),
           stateRow' \in RowType, UNCHANGED <<audit, clock>>
    PROVE  TypeOK'
<1>1. stage' \in Stages /\ approval' \in [Checkpoints -> Statuses]
      /\ ruleSet'.version \in 0 .. MaxVersions
  BY DEF EnterBusiness, TypeOK, Stages
<1>2. [NoLocal EXCEPT !.version = ruleSet.version, !.tables = metadata] \in LocalType
  BY NoLocalType, RuleSetsType DEF TypeOK, LocalType
<1>3. "business_insert" \in SuspensionPoints /\ "business_llm" \in SuspensionPoints
  BY DEF SuspensionPoints
<1>4. HandlersOK'
  BY <1>1, <1>2, <1>3, NoLocalType, PersistType, SuspendType, ReturnType
     DEF EnterBusiness, HandlersOK
<1> QED BY <1>1, <1>4 DEF EnterBusiness, HandlersOK, TypeOK, rules, warehouse, history

\* POST /rules/generate keeps the types.
LEMMA GenerateType ==
    ASSUME TypeOK, NEW t \in Tasks,
           \/ \E business \in BOOLEAN : GenerateTechnical(t, business)
           \/ TechnicalPersisted(t) \/ GenerateBusiness(t)
           \/ BusinessRulesInferred(t) \/ BusinessRulesFailed(t) \/ BusinessPersisted(t)
    PROVE  TypeOK'
<1>1. ASSUME NEW business \in BOOLEAN, GenerateTechnical(t, business)
      PROVE  TypeOK'
  <2>1. versions' \in 0 .. MaxVersions
    <3>1. versions < MaxVersions /\ versions' = versions + 1
      BY <1>1 DEF GenerateTechnical
    <3>2. versions \in 0 .. MaxVersions
      BY DEF TypeOK
    <3> QED BY <3>1, <3>2, SessionAssumption
  <2>2. /\ ruleSet' \in [version : 0 .. MaxVersions, technical : SUBSET Rules,
                          business : SUBSET Rules, rules : SUBSET Rules]
        /\ ruleVersion' \in [Rules -> 0 .. MaxVersions]
    <3>1. CASE UNCHANGED <<ruleSet, ruleVersion>>
      BY <3>1 DEF TypeOK
    <3>2. ASSUME NEW new \in SUBSET Fresh(GeneratedRules),
                 ruleSet' = [EmptyRuleSet EXCEPT !.version = versions', !.technical = new],
                 ruleVersion' = Stamp(new, versions')
          PROVE  /\ ruleSet' \in [version : 0 .. MaxVersions, technical : SUBSET Rules,
                                  business : SUBSET Rules, rules : SUBSET Rules]
                 /\ ruleVersion' \in [Rules -> 0 .. MaxVersions]
      <4>1. new \subseteq Rules
        BY RuleSetsType
      <4>2. ruleVersion' \in [Rules -> 0 .. MaxVersions]
        BY <2>1, <3>2, RuleSetsType
      <4>3. ruleSet' = [version |-> versions', technical |-> new, business |-> {}, rules |-> {}]
        BY <3>2 DEF EmptyRuleSet
      <4> QED BY <2>1, <4>1, <4>2, <4>3
    <3> QED BY <1>1, <3>1, <3>2 DEF GenerateTechnical
  <2>3. [NoLocal EXCEPT !.business = business] \in LocalType
    BY NoLocalType DEF LocalType
  <2>4. stage' \in Stages /\ approval' \in [Checkpoints -> Statuses]
    BY <1>1 DEF GenerateTechnical, TypeOK, Stages
  <2>5. HandlersOK'
    BY <1>1, <2>2, <2>3, <2>4, PersistType DEF GenerateTechnical, HandlersOK, SuspensionPoints
  <2> QED BY <1>1, <2>1, <2>2, <2>4, <2>5
          DEF GenerateTechnical, HandlersOK, TypeOK, tables, warehouse, history
<1>2. CASE TechnicalPersisted(t)
  <2>1. stateRow' \in RowType
    BY <1>2, RowInsertedType DEF TechnicalPersisted
  <2>2. CASE EnterBusiness(t)
    BY <1>2, <2>1, <2>2, EnterBusinessType DEF TechnicalPersisted
  <2>3. CASE Return(t) /\ UNCHANGED <<session, warehouse, history>>
    BY <1>2, <2>1, <2>3, ReturnType
       DEF TechnicalPersisted, TypeOK, session, rules, warehouse, history
  <2> QED BY <1>2, <2>2, <2>3 DEF TechnicalPersisted
<1>3. CASE GenerateBusiness(t)
  BY <1>3, EnterBusinessType DEF GenerateBusiness, tables, TypeOK
<1>4. CASE BusinessRulesInferred(t)
  <2>1. PICK table \in local[t].tables, new \in SUBSET Fresh(GeneratedRules) :
           LET left == local[t].tables \ {table} IN
           /\ ruleSet' = [ruleSet EXCEPT !.business = @ \cup new]
           /\ ruleVersion' = Stamp(new, local[t].version)
           /\ \/ left = {} /\ Persist(t, "business_insert", NoLocal)
              \/ left # {} /\ Suspend(t, "business_llm", [local[t] EXCEPT !.tables = left])
    BY <1>4 DEF BusinessRulesInferred
  <2>2. /\ ruleSet' \in [version : 0 .. MaxVersions, technical : SUBSET Rules,
                          business : SUBSET Rules, rules : SUBSET Rules]
        /\ ruleVersion' \in [Rules -> 0 .. MaxVersions]
    BY <2>1, RuleSetsType, LocalOf DEF TypeOK
  <2>3. [local[t] EXCEPT !.tables = @ \ {table}] \in LocalType
    <3>1. local[t] \in LocalType
      BY LocalOf
    <3> QED BY <3>1 DEF LocalType
  <2>4. "business_insert" \in SuspensionPoints /\ "business_llm" \in SuspensionPoints
    BY DEF SuspensionPoints
  <2>5. stage' \in Stages /\ approval' \in [Checkpoints -> Statuses]
    BY <1>4 DEF BusinessRulesInferred, TypeOK
  <2>6. HandlersOK'
    <3>1. CASE Persist(t, "business_insert", NoLocal)
      BY <2>2, <2>4, <2>5, <3>1, NoLocalType, PersistType DEF HandlersOK
    <3>2. CASE Suspend(t, "business_llm", [local[t] EXCEPT !.tables = @ \ {table}])
      BY <2>3, <2>4, <3>2, SuspendType DEF HandlersOK
    <3> QED BY <2>1, <3>1, <3>2
  <2> QED BY <1>4, <2>2, <2>6
          DEF BusinessRulesInferred, HandlersOK, TypeOK, tables, warehouse, history
<1>5. CASE BusinessRulesFailed(t)
  <2>1. HandlersOK'
    BY <1>5, NoLocalType, PersistType
       DEF BusinessRulesFailed, TypeOK, session, rules, HandlersOK, SuspensionPoints
  <2> QED BY <1>5, <2>1
          DEF BusinessRulesFailed, HandlersOK, TypeOK, session, rules, tables, warehouse, history
<1>6. CASE BusinessPersisted(t)
  BY <1>6, ReturnType, RowInsertedType
     DEF BusinessPersisted, TypeOK, session, rules, warehouse, history
<1> QED BY <1>1, <1>2, <1>3, <1>4, <1>5, <1>6

\* The rule endpoints that do not suspend keep the types.
LEMMA RuleEditType ==
    ASSUME TypeOK, NEW t \in Tasks, AddCustomRule(t) \/ SetActive(t)
    PROVE  TypeOK'
<1>1. CASE AddCustomRule(t)
  <2>1. PICK r \in Fresh(CustomRules) :
           /\ ruleSet' = [ruleSet EXCEPT !.business = @ \cup {r}]
           /\ ruleVersion' = Stamp({r}, ruleSet.version)
           /\ hasSQL' = hasSQL \cup {r}
    BY <1>1 DEF AddCustomRule
  <2>2. /\ ruleSet' \in [version : 0 .. MaxVersions, technical : SUBSET Rules,
                          business : SUBSET Rules, rules : SUBSET Rules]
        /\ ruleVersion' \in [Rules -> 0 .. MaxVersions]
        /\ hasSQL' \subseteq Rules
    BY <2>1, RuleSetsType DEF TypeOK
  <2> QED BY <1>1, <2>2 DEF AddCustomRule, TypeOK, tables, warehouse, history
<1>2. CASE SetActive(t)
  BY <1>2, RuleSetsType DEF SetActive, TypeOK, tables, warehouse, history
<1> QED BY <1>1, <1>2

\* The start of the SQL generation keeps the types of what it assigns.
LEMMA StartSQLType ==
    ASSUME TypeOK, NEW t \in Tasks, NEW l \in LocalType, StartSQLGeneration(t, l)
    PROVE  /\ stage' \in Stages
           /\ hasSQL' \subseteq Rules
           /\ ruleSet' \in [version : 0 .. MaxVersions, technical : SUBSET Rules,
                            business : SUBSET Rules, rules : SUBSET Rules]
           /\ pc' \in [Tasks -> SuspensionPoints]
           /\ local' \in [Tasks -> LocalType]
<1> DEFINE snapshot == Active(AllRules(ruleSet))
           claude == snapshot \ (Supported \cup CustomRules)
           now == [l EXCEPT !.snapshot = snapshot, !.claude = claude]
<1>1. snapshot \subseteq Rules /\ claude \subseteq Rules
  BY RuleSetsType DEF Active
<1>2. now \in LocalType
  BY <1>1 DEF LocalType
<1>3. stage' \in Stages /\ hasSQL' \subseteq Rules
  BY RuleSetsType DEF StartSQLGeneration, TypeOK, Stages
<1>4. StoreRules(t, now) \/ (Suspend(t, "sql_claude", now) /\ UNCHANGED ruleSet)
  BY DEF StartSQLGeneration
<1>5. "sql_claude" \in SuspensionPoints
  BY DEF SuspensionPoints
<1>6. CASE StoreRules(t, now)
  BY <1>2, <1>3, <1>6, StoreRulesType
<1>7. CASE Suspend(t, "sql_claude", now) /\ UNCHANGED ruleSet
  BY <1>2, <1>3, <1>5, <1>7, SuspendType DEF TypeOK
<1> HIDE DEF now
<1> QED BY <1>4, <1>6, <1>7

\* POST /sql/generate and POST /sql/rebuild-sp keep the types.
LEMMA SQLType ==
    ASSUME TypeOK, NEW t \in Tasks,
           \/ RequestSQL(t) \/ SQLInferred(t) \/ RulesInserted(t)
           \/ ProcedureAnswered(t) \/ SQLPersisted(t)
    PROVE  TypeOK'
<1>1. CASE RequestSQL(t)
  <2>1. CASE StartSQLGeneration(t, NoLocal)
    BY <1>1, <2>1, StartSQLType, NoLocalType
       DEF RequestSQL, TypeOK, tables, warehouse, history
  <2>2. CASE stage' = "sql_generation" /\ UNCHANGED <<ruleSet, hasSQL, pc, local>>
    BY <1>1, <2>2 DEF RequestSQL, TypeOK, Stages, tables, warehouse, history
  <2> QED BY <1>1, <2>1, <2>2 DEF RequestSQL
<1>2. CASE SQLInferred(t)
  <2> DEFINE now(r) == [local[t] EXCEPT !.claude = @ \ {r}]
  <2>1. PICK r \in local[t].claude :
           \E answer \in SUBSET {r}, done \in SUBSET Rendered(now(r).snapshot) :
             /\ hasSQL' = hasSQL \cup answer \cup done
             /\ \/ StoreRules(t, now(r))
                \/ Suspend(t, "sql_claude", now(r)) /\ UNCHANGED ruleSet
    BY <1>2 DEF SQLInferred
  <2>2. now(r) \in LocalType
    <3>1. local[t] \in LocalType
      BY LocalOf
    <3> QED BY <3>1 DEF LocalType
  <2>3. hasSQL' \subseteq Rules
    BY <2>1, LocalOf, RuleSetsType DEF TypeOK
  <2>4. "sql_claude" \in SuspensionPoints
    BY DEF SuspensionPoints
  <2>5. /\ ruleSet' \in [version : 0 .. MaxVersions, technical : SUBSET Rules,
                          business : SUBSET Rules, rules : SUBSET Rules]
        /\ HandlersOK'
    <3>1. CASE StoreRules(t, now(r))
      BY <2>2, <3>1, StoreRulesType DEF HandlersOK
    <3>2. CASE Suspend(t, "sql_claude", now(r)) /\ UNCHANGED ruleSet
      BY <2>2, <2>4, <3>2, SuspendType DEF HandlersOK, TypeOK
    <3> HIDE DEF now
    <3> QED BY <2>1, <3>1, <3>2
  <2> QED BY <1>2, <2>3, <2>5
          DEF SQLInferred, HandlersOK, TypeOK, tables, warehouse, history
<1>3. CASE RulesInserted(t)
  <2> DEFINE content == Deployable(local[t].snapshot)
  <2>1. content \subseteq Rules
    BY LocalOf DEF Deployable, Active
  <2>2. [WorkDone(t) EXCEPT !.built = content] \in LocalType
    BY <2>1, LocalOf DEF LocalType
  <2>3. "sql_insert" \in SuspensionPoints /\ "sql_ddl" \in SuspensionPoints
    BY DEF SuspensionPoints
  <2>4. stage' \in Stages /\ approval' \in [Checkpoints -> Statuses]
        /\ ruleSet'.version \in 0 .. MaxVersions
    BY <1>3 DEF RulesInserted, session, TypeOK
  <2>5. HandlersOK'
    BY <1>3, <2>2, <2>3, <2>4, LocalOf, PersistType, SuspendType DEF RulesInserted, HandlersOK
  <2> QED BY <1>3, <2>5
          DEF RulesInserted, HandlersOK, TypeOK, session, rules, tables, warehouse, history
<1>4. CASE ProcedureAnswered(t)
  <2>1. HandlersOK'
    BY <1>4, LocalOf, PersistType DEF ProcedureAnswered, TypeOK, HandlersOK, SuspensionPoints
  <2>2. local[t].built \subseteq Rules
    BY LocalOf
  <2>3. procedure' \subseteq Rules /\ late' \subseteq SUBSET Rules /\ spName' \in BOOLEAN
    BY <1>4, <2>2 DEF ProcedureAnswered, TypeOK
  <2> QED BY <1>4, <2>1, <2>3
          DEF ProcedureAnswered, HandlersOK, TypeOK, rules, tables, history
<1>5. CASE SQLPersisted(t)
  <2>1. HandlersOK'
    BY <1>5, LocalOf, PersistType, ReturnType
       DEF SQLPersisted, TypeOK, HandlersOK, session, SuspensionPoints
  <2> QED BY <1>5, <2>1, RowInsertedType
          DEF SQLPersisted, HandlersOK, TypeOK, session, rules, warehouse, history
<1> QED BY <1>1, <1>2, <1>3, <1>4, <1>5

\* A decision that takes effect keeps the types of what it assigns.
LEMMA AuditedType ==
    ASSUME TypeOK, NEW t \in Tasks, NEW c \in Checkpoints, NEW D \in SUBSET Decisions,
           Audited(t, c, D)
    PROVE  /\ approval' \in [Checkpoints -> Statuses]
           /\ audit' \in [Checkpoints -> [at : Nat, status : Statuses]]
<1>1. approval' \in [Checkpoints -> Statuses]
  BY LocalOf DEF Audited, TypeOK
<1>2. audit' \in [Checkpoints -> [at : Nat, status : Statuses]]
  BY AuditType DEF Audited, AuditRowInserted, TypeOK
<1> QED BY <1>1, <1>2

\* POST /approvals/submit keeps the types.
LEMMA DecisionType ==
    ASSUME TypeOK, NEW t \in Tasks,
           \/ SubmitDecision(t) \/ ApprovalRecorded(t) \/ ApproveRules(t) \/ RefuseRules(t)
           \/ SignOff(t) \/ RefuseSignOff(t) \/ ReportsCreated(t) \/ ReportPersisted(t)
           \/ DecisionPersisted(t) \/ DagDeployed(t)
    PROVE  TypeOK'
<1>0. /\ {"approved"} \in SUBSET Decisions
      /\ {"rejected", "modified"} \in SUBSET Decisions
      /\ 1 \in Checkpoints /\ 2 \in Checkpoints
      /\ Decisions \subseteq Statuses
      /\ "reporting" \in Stages /\ "complete" \in Stages
  BY DEF Decisions, Checkpoints, Statuses, Stages
<1>1. CASE SubmitDecision(t)
  <2>1. PICK c \in Checkpoints, d \in Decisions :
           Suspend(t, "approval_insert",
                   [NoLocal EXCEPT !.checkpoint = c, !.decision = d, !.stamp = clock'])
    BY <1>1 DEF SubmitDecision
  <2>2. clock' \in Nat
    <3>1. clock' = clock + 1
      BY <1>1 DEF SubmitDecision
    <3>2. clock \in Nat
      BY DEF TypeOK
    <3> QED BY <3>1, <3>2
  <2>3. [NoLocal EXCEPT !.checkpoint = c, !.decision = d, !.stamp = clock'] \in LocalType
    BY <1>0, <2>2, NoLocalType DEF LocalType
  <2>4. HandlersOK'
    BY <2>1, <2>3, SuspendType DEF HandlersOK, SuspensionPoints
  <2> QED BY <1>1, <2>2, <2>4
          DEF SubmitDecision, HandlersOK, TypeOK, session, rules, warehouse, history
<1>2. CASE ApprovalRecorded(t)
  <2>1. clock' \in Nat
    BY <1>2 DEF ApprovalRecorded, TypeOK
  <2>2. [local[t] EXCEPT !.stamp = clock'] \in LocalType
    BY <2>1, LocalOf DEF LocalType
  <2>3. HandlersOK'
    BY <1>2, <2>2, SuspendType DEF ApprovalRecorded, HandlersOK, SuspensionPoints
  <2>4. audit' \in [Checkpoints -> [at : Nat, status : Statuses]]
    BY <1>2, AuditType DEF ApprovalRecorded, AuditRowInserted, TypeOK
  <2> QED BY <1>2, <2>1, <2>3, <2>4
          DEF ApprovalRecorded, HandlersOK, TypeOK, session, rules, warehouse, history
<1>3. CASE ApproveRules(t)
  <2> DEFINE now == [NoLocal EXCEPT !.approving = TRUE]
  <2>1. now \in LocalType
    BY NoLocalType DEF LocalType
  <2>2. /\ approval' \in [Checkpoints -> Statuses]
        /\ audit' \in [Checkpoints -> [at : Nat, status : Statuses]]
    BY <1>0, <1>3, AuditedType DEF ApproveRules
  <2>3. granted' \subseteq Checkpoints
    BY <1>3 DEF ApproveRules, TypeOK, Checkpoints
  <2>4. /\ stage' \in Stages /\ hasSQL' \subseteq Rules
        /\ ruleSet' \in [version : 0 .. MaxVersions, technical : SUBSET Rules,
                         business : SUBSET Rules, rules : SUBSET Rules]
        /\ HandlersOK'
    <3>1. CASE StartSQLGeneration(t, now)
      BY <2>1, <3>1, StartSQLType DEF HandlersOK
    <3>2. CASE UNCHANGED <<stage, ruleSet, hasSQL>> /\ Persist(t, "decision_insert", now)
      <4>1. stage' \in Stages /\ ruleSet'.version \in 0 .. MaxVersions
        BY <3>2 DEF TypeOK
      <4>2. HandlersOK'
        BY <2>1, <2>2, <3>2, <4>1, PersistType DEF HandlersOK, SuspensionPoints
      <4> QED BY <3>2, <4>2 DEF TypeOK
    <3> HIDE DEF now
    <3> QED BY <1>3, <3>1, <3>2 DEF ApproveRules, now
  <2> QED BY <1>3, <2>2, <2>3, <2>4 DEF ApproveRules, HandlersOK, TypeOK, warehouse
<1>4. CASE RefuseRules(t)
  <2>1. /\ approval' \in [Checkpoints -> Statuses]
        /\ audit' \in [Checkpoints -> [at : Nat, status : Statuses]]
    BY <1>0, <1>4, AuditedType DEF RefuseRules
  <2>2. stage' \in Stages
    BY <1>4 DEF RefuseRules, TypeOK
  <2>3. /\ ruleSet' \in [version : 0 .. MaxVersions, technical : SUBSET Rules,
                         business : SUBSET Rules, rules : SUBSET Rules]
        /\ inactive' \subseteq Rules
    <3>1. CASE UNCHANGED <<ruleSet, inactive>>
      BY <3>1 DEF TypeOK
    <3>2. ASSUME NEW off \in SUBSET AllRules(ruleSet),
                 inactive' = (inactive \ AllRules(ruleSet)) \cup off,
                 \/ ruleSet' = [ruleSet EXCEPT !.technical = {}, !.business = {},
                                              !.rules = AllRules(ruleSet) \ off]
                 \/ UNCHANGED ruleSet
          PROVE  /\ ruleSet' \in [version : 0 .. MaxVersions, technical : SUBSET Rules,
                                  business : SUBSET Rules, rules : SUBSET Rules]
                 /\ inactive' \subseteq Rules
      <4>1. AllRules(ruleSet) \ off \subseteq Rules /\ inactive' \subseteq Rules
        BY <3>2, RuleSetsType DEF TypeOK
      <4> QED BY <3>2, <4>1 DEF TypeOK
    <3> QED BY <1>4, <3>1, <3>2 DEF RefuseRules
  <2>4. "decision_insert" \in SuspensionPoints
    BY DEF SuspensionPoints
  <2>5. HandlersOK'
    <3>1. Persist(t, "decision_insert", WorkDone(t)) \/ Return(t)
      BY <1>4 DEF RefuseRules
    <3> QED BY <2>1, <2>2, <2>3, <2>4, <3>1, LocalOf, PersistType, ReturnType DEF HandlersOK
  <2> QED BY <1>4, <2>1, <2>3, <2>5 DEF RefuseRules, HandlersOK, TypeOK, warehouse, history
<1>5. CASE SignOff(t)
  <2>1. /\ approval' \in [Checkpoints -> Statuses]
        /\ audit' \in [Checkpoints -> [at : Nat, status : Statuses]]
    BY <1>0, <1>5, AuditedType DEF SignOff
  <2>2. HandlersOK'
    BY <1>5, NoLocalType, SuspendType DEF SignOff, HandlersOK, SuspensionPoints
  <2> QED BY <1>0, <1>5, <2>1, <2>2 DEF SignOff, HandlersOK, TypeOK, rules, warehouse
<1>6. CASE RefuseSignOff(t)
  <2>1. /\ approval' \in [Checkpoints -> Statuses]
        /\ audit' \in [Checkpoints -> [at : Nat, status : Statuses]]
    BY <1>0, <1>6, AuditedType DEF RefuseSignOff
  <2>2. HandlersOK'
    BY <1>6, <2>1, LocalOf, PersistType
       DEF RefuseSignOff, TypeOK, HandlersOK, SuspensionPoints
  <2> QED BY <1>6, <2>1, <2>2 DEF RefuseSignOff, HandlersOK, TypeOK, rules, warehouse, history
<1>7. CASE ReportsCreated(t)
  <2>1. HandlersOK'
    BY <1>0, <1>7, LocalOf, PersistType DEF ReportsCreated, TypeOK, HandlersOK, SuspensionPoints
  <2> QED BY <1>0, <1>7, <2>1
          DEF ReportsCreated, HandlersOK, TypeOK, rules, tables, warehouse, history
<1>8. CASE ReportPersisted(t)
  <2>1. HandlersOK'
    BY <1>8, LocalOf, PersistType
       DEF ReportPersisted, TypeOK, session, HandlersOK, SuspensionPoints
  <2> QED BY <1>8, <2>1, RowInsertedType
          DEF ReportPersisted, HandlersOK, TypeOK, session, rules, warehouse, history
<1>9. CASE DecisionPersisted(t)
  <2>1. HandlersOK'
    BY <1>9, NoLocalType, SuspendType, ReturnType
       DEF DecisionPersisted, HandlersOK, SuspensionPoints
  <2> QED BY <1>9, <2>1, RowInsertedType
          DEF DecisionPersisted, HandlersOK, TypeOK, session, rules, warehouse, history
<1>10. CASE DagDeployed(t)
  <2>1. HandlersOK'
    BY <1>10, ReturnType DEF DagDeployed, HandlersOK
  <2> QED BY <1>10, <2>1
          DEF DagDeployed, HandlersOK, TypeOK, session, rules, tables, history
<1> QED BY <1>1, <1>2, <1>3, <1>4, <1>5, <1>6, <1>7, <1>8, <1>9, <1>10

\* POST /sql/execute keeps the types.
LEMMA ExecutionType ==
    ASSUME TypeOK, NEW t \in Tasks, Execute(t) \/ ExecutionReady(t) \/ ExecutionDone(t)
    PROVE  TypeOK'
<1>1. CASE Execute(t)
  <2>1. [NoLocal EXCEPT !.snapshot = AllRules(ruleSet), !.useProcedure = spName] \in LocalType
    BY NoLocalType, RuleSetsType DEF LocalType, TypeOK
  <2>2. HandlersOK'
    BY <1>1, <2>1, SuspendType DEF Execute, HandlersOK, SuspensionPoints
  <2> QED BY <1>1, <2>2 DEF Execute, HandlersOK, TypeOK, session, rules, tables, warehouse, history
<1>2. CASE ExecutionReady(t)
  <2>1. [local[t] EXCEPT !.snapshot = Active(@) \cap hasSQL] \in LocalType
    BY LocalOf DEF Active, LocalType
  <2>2. HandlersOK'
    BY <1>2, <2>1, SuspendType, ReturnType DEF ExecutionReady, HandlersOK, SuspensionPoints
  <2> QED BY <1>2, <2>2
          DEF ExecutionReady, HandlersOK, TypeOK, session, rules, tables, warehouse, history
<1>3. CASE ExecutionDone(t)
  <2>1. \A ran \in Runs(t) : ran \subseteq Rules
    BY LocalOf DEF Runs, TypeOK
  <2>2. executed' \subseteq Rules
    BY <1>3, <2>1 DEF ExecutionDone, TypeOK
  <2>3. HandlersOK'
    BY <1>3, ReturnType DEF ExecutionDone, HandlersOK
  <2> QED BY <1>3, <2>2, <2>3
          DEF ExecutionDone, HandlersOK, TypeOK, session, rules, tables, history
<1> QED BY <1>1, <1>2, <1>3

\* Whatever a call in flight leaves behind in a crash is well formed.
LEMMA CrashType == ASSUME TypeOK, Crash PROVE TypeOK'
<1>1. procedure' \subseteq Rules
  BY LocalOf DEF Crash, At, TypeOK
<1>2. stateRow' \in RowType
  BY LocalOf DEF Crash, At, TypeOK
<1>3. audit' \in [Checkpoints -> [at : Nat, status : Statuses]]
  BY AuditType DEF Crash, At, TypeOK
<1>4. executed' \subseteq Rules
  <2>1. \A t \in Tasks : \A ran \in Runs(t) : ran \subseteq Rules
    BY LocalOf DEF Runs, TypeOK
  <2> QED BY <2>1 DEF Crash, At, TypeOK
<1>5. HandlersOK'
  BY NoLocalType DEF Crash, HandlersOK, SuspensionPoints
<1>6. dag' \in BOOLEAN
  BY DEF Crash, TypeOK
<1> QED BY <1>1, <1>2, <1>3, <1>4, <1>5, <1>6 DEF Crash, HandlersOK, TypeOK, rules, history

\* A late deployment is as well typed as one in time.
LEMMA LandingType == ASSUME TypeOK, DDLLands PROVE TypeOK'
BY DEF DDLLands, TypeOK, session, rules, tables, history

\* Nothing changes, nothing is ill typed.
LEMMA StutterType == ASSUME TypeOK, UNCHANGED vars PROVE TypeOK'
BY DEF vars, session, rules, tables, warehouse, history, TypeOK

\* The first state has the types.
LEMMA InitType == ASSUME Init PROVE TypeOK
<1>1. ruleSet \in [version : 0 .. MaxVersions, technical : SUBSET Rules,
                  business : SUBSET Rules, rules : SUBSET Rules]
  BY SessionAssumption DEF Init, EmptyRuleSet
<1>2. stage \in Stages /\ approval \in [Checkpoints -> Statuses]
      /\ audit \in [Checkpoints -> [at : Nat, status : Statuses]]
  BY DEF Init, Stages, Statuses
<1>3. HandlersOK
  BY NoLocalType DEF Init, HandlersOK, SuspensionPoints
<1>4. ruleVersion \in [Rules -> 0 .. MaxVersions] /\ versions \in 0 .. MaxVersions
  BY SessionAssumption DEF Init
<1> QED BY <1>1, <1>2, <1>3, <1>4, NoLocalType DEF Init, TypeOK, HandlersOK, NoProcedure

\* The session, its handlers' locals and what BigQuery holds keep their types
\* for every number of requests, rules, tables, versions and decisions, and
\* under every fault.
THEOREM TypeCorrect == Spec => []TypeOK
<1>1. Init => TypeOK
  BY InitType
<1>2. TypeOK /\ [Next]_vars => TypeOK'
  <2> SUFFICES ASSUME TypeOK, [Next]_vars PROVE TypeOK'
    OBVIOUS
  <2>1. ASSUME NEW t \in Tasks, Arrive(t) PROVE TypeOK'
    <3>1. CASE Refused(t)
      BY <3>1, StutterType DEF Refused
    <3> QED BY <2>1, <3>1, DiscoveryType, GenerateType, RuleEditType, DecisionType,
               SQLType, ExecutionType DEF Arrive
  <2>2. ASSUME NEW t \in Tasks, Resume(t) PROVE TypeOK'
    BY <2>2, DiscoveryType, GenerateType, DecisionType, SQLType, ExecutionType DEF Resume
  <2> QED BY <2>1, <2>2, CrashType, LandingType, StutterType DEF Next
<1> QED BY <1>1, <1>2, PTL DEF Spec

-----------------------------------------------------------------------------
(* The approval gates: the inductive invariant                             *)

\* Where a handler is that has passed checkpoint 1 and may still deploy.
\* Nothing is asked of approval[1]: another request may have refused since.
Deploying == {"sql_claude", "rules_insert", "sql_ddl"}

GateInv ==
    /\ \A c \in Checkpoints : approval[c] = "approved" => c \in granted
    /\ \A t \in Tasks : pc[t] \in Deploying => 1 \in granted
    /\ \A t \in Tasks : pc[t] = "sql_ddl" => local[t].built # {}
    /\ \A t \in Tasks : pc[t] = "reporting" => 2 \in granted
    /\ \A content \in late : content # {} /\ 1 \in granted
    /\ ProcedureNeedsApproval
    /\ CompleteNeedsSignOff
    /\ NamedProcedureExists

\* t, and no other handler, goes on from the suspension point at.
Moved(t, at) ==
    /\ pc' = [pc EXCEPT ![t] = at]
    /\ \A u \in Tasks \ {t} : local'[u] = local[u]

\* However it suspends, a handler touches no other handler's locals.
LEMMA Moves ==
    ASSUME TypeOK, NEW t \in Tasks, NEW at, NEW l
    PROVE  /\ Suspend(t, at, l) => Moved(t, at)
           /\ Persist(t, at, l) => Moved(t, at)
           /\ Return(t) => Moved(t, "idle")
BY DEF TypeOK, Suspend, Persist, Return, Moved

\* A handler that does not go on towards a deployment or a completion leaves
\* the gates as they are.
LEMMA GatesKept ==
    ASSUME TypeOK, GateInv, NEW t \in Tasks,
           NEW at \in SuspensionPoints \ (Deploying \cup {"reporting"}), Moved(t, at),
           \A c \in Checkpoints : approval'[c] = "approved" => c \in granted',
           granted \subseteq granted',
           UNCHANGED <<procedure, late, spName>>,
           stage' = "complete" \/ completed' => 2 \in granted'
    PROVE  GateInv'
<1>1. \A u \in Tasks : u # t => pc'[u] = pc[u] /\ local'[u] = local[u]
  BY DEF Moved, TypeOK
<1>2. pc'[t] = at
  BY DEF Moved, TypeOK
<1>3. at \notin Deploying /\ at # "sql_ddl" /\ at # "reporting"
  BY DEF Deploying
<1> QED BY <1>1, <1>2, <1>3
        DEF GateInv, ProcedureNeedsApproval, CompleteNeedsSignOff, NamedProcedureExists

\* The same with approvals, grants and completion untouched.
LEMMA NothingGranted ==
    ASSUME TypeOK, GateInv, NEW t \in Tasks,
           NEW at \in SuspensionPoints \ (Deploying \cup {"reporting"}), Moved(t, at),
           UNCHANGED <<approval, granted, procedure, late, spName, completed>>,
           stage' # "complete" \/ UNCHANGED stage
    PROVE  GateInv'
<1>1. stage' = "complete" \/ completed' => 2 \in granted'
  BY DEF GateInv, CompleteNeedsSignOff
<1>2. \A c \in Checkpoints : approval'[c] = "approved" => c \in granted'
  BY DEF GateInv
<1> QED BY <1>1, <1>2, GatesKept

\* The points from which no deployment and no completion follows directly.
LEMMA PlainPoints ==
    {"idle", "start_insert", "discovery_insert", "discovery", "register_insert",
     "technical_insert", "business_llm", "business_insert", "approval_insert",
     "audit_insert", "decision_insert", "composer", "report_insert", "sql_insert",
     "execute_setup", "execute_run"}
    \subseteq SuspensionPoints \ (Deploying \cup {"reporting"})
BY DEF SuspensionPoints, Deploying

\* The requests that neither decide nor deploy.
LEMMA PlainStep ==
    ASSUME TypeOK, GateInv, NEW t \in Tasks,
           \/ StartDiscovery(t) \/ WorkflowStarted(t) \/ DiscoveryPersisted(t)
           \/ MetadataDiscovered(t) \/ SessionRegistered(t)
           \/ \E business \in BOOLEAN : GenerateTechnical(t, business)
           \/ BusinessRulesInferred(t) \/ BusinessRulesFailed(t) \/ BusinessPersisted(t)
           \/ SubmitDecision(t) \/ ApprovalRecorded(t) \/ ReportPersisted(t)
           \/ DecisionPersisted(t) \/ DagDeployed(t) \/ SQLPersisted(t)
           \/ Execute(t) \/ ExecutionReady(t) \/ ExecutionDone(t)
    PROVE  GateInv' /\ UNCHANGED <<granted, procedure, completed>>
<1> USE DEF session, rules, warehouse, history
<1>1. CASE StartDiscovery(t)
  BY <1>1, Moves, NothingGranted, PlainPoints DEF StartDiscovery
<1>2. CASE WorkflowStarted(t)
  BY <1>2, Moves, NothingGranted, PlainPoints DEF WorkflowStarted
<1>3. CASE DiscoveryPersisted(t)
  BY <1>3, Moves, NothingGranted, PlainPoints DEF DiscoveryPersisted
<1>4. CASE MetadataDiscovered(t)
  BY <1>4, Moves, NothingGranted, PlainPoints DEF MetadataDiscovered
<1>5. CASE SessionRegistered(t)
  BY <1>5, Moves, NothingGranted, PlainPoints DEF SessionRegistered
<1>6. CASE \E business \in BOOLEAN : GenerateTechnical(t, business)
  BY <1>6, Moves, NothingGranted, PlainPoints DEF GenerateTechnical
<1>7. CASE BusinessRulesInferred(t)
  BY <1>7, Moves, NothingGranted, PlainPoints DEF BusinessRulesInferred
<1>8. CASE BusinessRulesFailed(t)
  BY <1>8, Moves, NothingGranted, PlainPoints DEF BusinessRulesFailed
<1>9. CASE BusinessPersisted(t)
  BY <1>9, Moves, NothingGranted, PlainPoints DEF BusinessPersisted
<1>10. CASE SubmitDecision(t)
  BY <1>10, Moves, NothingGranted, PlainPoints DEF SubmitDecision
<1>11. CASE ApprovalRecorded(t)
  BY <1>11, Moves, NothingGranted, PlainPoints DEF ApprovalRecorded
<1>12. CASE ReportPersisted(t)
  BY <1>12, Moves, NothingGranted, PlainPoints DEF ReportPersisted
<1>13. CASE DecisionPersisted(t)
  BY <1>13, Moves, NothingGranted, PlainPoints DEF DecisionPersisted
<1>14. CASE DagDeployed(t)
  BY <1>14, Moves, NothingGranted, PlainPoints DEF DagDeployed
<1>15. CASE SQLPersisted(t)
  BY <1>15, Moves, NothingGranted, PlainPoints DEF SQLPersisted
<1>16. CASE Execute(t)
  BY <1>16, Moves, NothingGranted, PlainPoints DEF Execute
<1>17. CASE ExecutionReady(t)
  BY <1>17, Moves, NothingGranted, PlainPoints DEF ExecutionReady
<1>18. CASE ExecutionDone(t)
  BY <1>18, Moves, NothingGranted, PlainPoints DEF ExecutionDone
<1> QED BY <1>1, <1>2, <1>3, <1>4, <1>5, <1>6, <1>7, <1>8, <1>9, <1>10, <1>11, <1>12,
           <1>13, <1>14, <1>15, <1>16, <1>17, <1>18

\* Entering the stage of business rules decides and deploys nothing.
LEMMA EnterBusinessStep ==
    ASSUME TypeOK, GateInv, NEW t \in Tasks, EnterBusiness(t)
    PROVE  GateInv' /\ UNCHANGED <<granted, procedure, completed>>
<1>1. UNCHANGED <<approval, granted, procedure, late, spName, completed>> /\ stage' # "complete"
  BY DEF EnterBusiness, warehouse, history
<1>2. \E at \in {"idle", "business_insert", "business_llm"} : Moved(t, at)
  BY Moves DEF EnterBusiness
<1> QED BY <1>1, <1>2, NothingGranted, PlainPoints

\* A handler that starts to generate SQL, or awaits one more rule's, has
\* passed checkpoint 1.
LEMMA DeployingStep ==
    ASSUME TypeOK, GateInv, NEW t \in Tasks, NEW at \in {"sql_claude", "rules_insert"},
           Moved(t, at), 1 \in granted',
           \A c \in Checkpoints : approval'[c] = "approved" => c \in granted',
           granted \subseteq granted', UNCHANGED <<procedure, late, spName, completed>>,
           stage' # "complete" \/ UNCHANGED stage
    PROVE  GateInv'
<1>1. \A u \in Tasks : u # t => pc'[u] = pc[u] /\ local'[u] = local[u]
  BY DEF Moved, TypeOK
<1>2. pc'[t] = at
  BY DEF Moved, TypeOK
<1> QED BY <1>1, <1>2
        DEF GateInv, ProcedureNeedsApproval, CompleteNeedsSignOff, NamedProcedureExists, Deploying

\* SQL generation: it starts behind checkpoint 1, and the procedure it deploys
\* holds at least one rule.
LEMMA SQLStep ==
    ASSUME TypeOK, GateInv, NEW t \in Tasks,
           \/ RequestSQL(t) \/ SQLInferred(t) \/ RulesInserted(t) \/ ProcedureAnswered(t)
    PROVE  GateInv' /\ [Gates!Next]_Gates!vars
<1>a. \A c \in Checkpoints : approval[c] = "approved" => c \in granted
  BY DEF GateInv
<1>1. CASE RequestSQL(t)
  <2>1. 1 \in granted
    BY <1>1 DEF RequestSQL, MayGenerateSQL, GateInv, Checkpoints
  <2>2. UNCHANGED <<approval, granted, procedure, late, spName, completed>> /\ stage' # "complete"
    BY <1>1 DEF RequestSQL, StartSQLGeneration, warehouse, history
  <2>3. CASE StartSQLGeneration(t, NoLocal)
    <3>1. \E at \in {"sql_claude", "rules_insert"} : Moved(t, at)
      BY <2>3, Moves DEF StartSQLGeneration, StoreRules
    <3> QED BY <1>a, <2>1, <2>2, <3>1, DeployingStep DEF Gates!vars
  <2>4. CASE UNCHANGED <<pc, local>>
    BY <2>2, <2>4 DEF GateInv, ProcedureNeedsApproval, CompleteNeedsSignOff,
                      NamedProcedureExists, Gates!vars
  <2> QED BY <1>1, <2>3, <2>4 DEF RequestSQL
<1>2. CASE SQLInferred(t)
  <2>1. 1 \in granted
    BY <1>2 DEF SQLInferred, GateInv, Deploying
  <2>2. UNCHANGED <<stage, approval, granted, procedure, late, spName, completed>>
    BY <1>2 DEF SQLInferred, warehouse, history
  <2>3. \E at \in {"sql_claude", "rules_insert"} : Moved(t, at)
    BY <1>2, Moves DEF SQLInferred, StoreRules
  <2> QED BY <1>a, <2>1, <2>2, <2>3, DeployingStep DEF Gates!vars
<1>3. CASE RulesInserted(t)
  <2> DEFINE content == Deployable(local[t].snapshot)
  <2>1. UNCHANGED <<stage, approval, granted, procedure, late, spName, completed>>
    BY <1>3 DEF RulesInserted, session, warehouse, history
  <2>2. CASE Persist(t, "sql_insert", WorkDone(t))
    BY <2>1, <2>2, Moves, NothingGranted, PlainPoints DEF Gates!vars
  <2>3. CASE content # {} /\ Suspend(t, "sql_ddl", [WorkDone(t) EXCEPT !.built = content])
    <3>1. 1 \in granted
      BY <1>3 DEF RulesInserted, GateInv, Deploying
    <3>2. \A u \in Tasks : u # t => pc'[u] = pc[u] /\ local'[u] = local[u]
      BY <2>3 DEF Suspend, TypeOK
    <3>3. pc'[t] = "sql_ddl" /\ local'[t] = [WorkDone(t) EXCEPT !.built = content]
      BY <2>3 DEF Suspend, TypeOK
    <3>4. local'[t].built = content
      <4>1. WorkDone(t) \in LocalType
        BY LocalOf
      <4> QED BY <3>3, <4>1 DEF LocalType
    <3> QED BY <2>1, <2>3, <3>1, <3>2, <3>3, <3>4
            DEF GateInv, ProcedureNeedsApproval, CompleteNeedsSignOff,
                NamedProcedureExists, Gates!vars
  <2> QED BY <1>3, <2>2, <2>3 DEF RulesInserted
<1>4. CASE ProcedureAnswered(t)
  <2>1. 1 \in granted /\ local[t].built # {} /\ local[t].built \subseteq Rules
    BY <1>4, LocalOf DEF ProcedureAnswered, GateInv, Deploying
  <2>2. UNCHANGED <<stage, approval, granted, completed>>
    BY <1>4 DEF ProcedureAnswered, history
  <2>3. Moved(t, "sql_insert")
    BY <1>4, Moves DEF ProcedureAnswered
  <2>4. CASE procedure' = local[t].built /\ UNCHANGED late /\ (spName' = TRUE \/ UNCHANGED spName)
    <3>1. /\ \A u \in Tasks : u # t => pc'[u] = pc[u] /\ local'[u] = local[u]
          /\ pc'[t] = "sql_insert"
      BY <2>3 DEF Moved, TypeOK
    <3>2. GateInv'
      BY <2>1, <2>2, <2>4, <3>1
         DEF GateInv, ProcedureNeedsApproval, CompleteNeedsSignOff, NamedProcedureExists,
             Deploying, NoProcedure
    <3>3. Gates!Deploy(local[t].built)
      BY <2>1, <2>2, <2>4 DEF Gates!Deploy
    <3> QED BY <2>1, <3>2, <3>3 DEF Gates!Next
  <2>5. CASE UNCHANGED <<procedure, late, spName>>
    BY <2>2, <2>3, <2>5, NothingGranted, PlainPoints DEF Gates!vars
  <2>6. CASE late' = late \cup {local[t].built} /\ UNCHANGED <<procedure, spName>>
    <3>1. /\ \A u \in Tasks : u # t => pc'[u] = pc[u] /\ local'[u] = local[u]
          /\ pc'[t] = "sql_insert"
      BY <2>3 DEF Moved, TypeOK
    <3> QED BY <2>1, <2>2, <2>6, <3>1
            DEF GateInv, ProcedureNeedsApproval, CompleteNeedsSignOff, NamedProcedureExists,
                Deploying, Gates!vars
  <2> QED BY <1>4, <2>4, <2>5, <2>6 DEF ProcedureAnswered
<1> QED BY <1>1, <1>2, <1>3, <1>4

\* Decisions: what takes effect on a checkpoint is granted on it, if anything
\* is; only the answer to a sign-off completes the session.
LEMMA DecisionStep ==
    ASSUME TypeOK, GateInv, NEW t \in Tasks,
           \/ ApproveRules(t) \/ RefuseRules(t) \/ SignOff(t) \/ RefuseSignOff(t)
           \/ ReportsCreated(t)
    PROVE  GateInv' /\ [Gates!Next]_Gates!vars
<1>a. \A c \in Checkpoints : approval[c] = "approved" => c \in granted
  BY DEF GateInv
<1>1. CASE ApproveRules(t)
  <2> DEFINE now == [NoLocal EXCEPT !.approving = TRUE]
  <2>1. granted' = granted \cup {1} /\ UNCHANGED <<procedure, late, spName, completed>>
    BY <1>1 DEF ApproveRules, warehouse
  <2>2. stage' # "complete" \/ UNCHANGED stage
    BY <1>1 DEF ApproveRules, StartSQLGeneration
  <2>3. \A c \in Checkpoints : approval'[c] = "approved" => c \in granted'
    BY <1>1, <1>a, <2>1 DEF ApproveRules, Audited, TypeOK
  <2>4. Gates!Grant(1)
    BY <2>1 DEF Gates!Grant
  <2>5. GateInv'
    <3>1. CASE StartSQLGeneration(t, now)
      <4>1. \E at \in {"sql_claude", "rules_insert"} : Moved(t, at)
        BY <3>1, Moves DEF StartSQLGeneration, StoreRules
      <4> QED BY <2>1, <2>2, <2>3, <4>1, DeployingStep
    <3>2. CASE Persist(t, "decision_insert", now)
      <4>1. stage' = "complete" \/ completed' => 2 \in granted'
        BY <1>1, <2>1, <2>2 DEF GateInv, CompleteNeedsSignOff
      <4> QED BY <2>1, <2>3, <3>2, <4>1, Moves, GatesKept, PlainPoints
    <3> QED BY <1>1, <3>1, <3>2 DEF ApproveRules
  <2> QED BY <2>4, <2>5 DEF Gates!Next
<1>2. CASE RefuseRules(t) \/ RefuseSignOff(t)
  <2>1. UNCHANGED <<stage, granted, procedure, late, spName, completed>>
    BY <1>2 DEF RefuseRules, RefuseSignOff, warehouse, history
  <2>2. \A c \in Checkpoints : approval'[c] = "approved" => c \in granted'
    BY <1>2, <1>a, <2>1 DEF RefuseRules, RefuseSignOff, Audited, TypeOK
  <2>3. \E at \in {"idle", "decision_insert"} : Moved(t, at)
    BY <1>2, Moves DEF RefuseRules, RefuseSignOff
  <2>4. stage' = "complete" \/ completed' => 2 \in granted'
    BY <2>1 DEF GateInv, CompleteNeedsSignOff
  <2> QED BY <2>1, <2>2, <2>3, <2>4, GatesKept, PlainPoints DEF Gates!vars
<1>3. CASE SignOff(t)
  <2>1. granted' = granted \cup {2} /\ stage' = "reporting"
        /\ UNCHANGED <<procedure, late, spName, completed>>
    BY <1>3 DEF SignOff, warehouse
  <2>2. \A c \in Checkpoints : approval'[c] = "approved" => c \in granted'
    BY <1>3, <1>a, <2>1 DEF SignOff, Audited, TypeOK
  <2>3. \A u \in Tasks : u # t => pc'[u] = pc[u] /\ local'[u] = local[u]
    BY <1>3 DEF SignOff, Suspend, TypeOK
  <2>4. pc'[t] = "reporting"
    BY <1>3 DEF SignOff, Suspend, TypeOK
  <2>5. GateInv'
    BY <2>1, <2>2, <2>3, <2>4
       DEF GateInv, ProcedureNeedsApproval, CompleteNeedsSignOff, NamedProcedureExists, Deploying
  <2>6. Gates!Grant(2)
    BY <2>1 DEF Gates!Grant
  <2> QED BY <2>5, <2>6 DEF Gates!Next
<1>4. CASE ReportsCreated(t)
  <2>1. 2 \in granted
    BY <1>4 DEF ReportsCreated, GateInv
  <2>2. UNCHANGED <<approval, granted, procedure, late, spName>> /\ completed' = TRUE
    BY <1>4 DEF ReportsCreated, warehouse, history
  <2>3. Moved(t, "report_insert")
    BY <1>4, Moves DEF ReportsCreated
  <2>4. GateInv'
    BY <1>a, <2>1, <2>2, <2>3, GatesKept, PlainPoints
  <2>5. Gates!Finish
    BY <2>1, <2>2 DEF Gates!Finish
  <2> QED BY <2>4, <2>5 DEF Gates!Next
<1> QED BY <1>1, <1>2, <1>3, <1>4

\* A crash leaves at most a deployment in flight behind, and that one had
\* passed checkpoint 1.
LEMMA CrashStep ==
    ASSUME TypeOK, GateInv, Crash
    PROVE  GateInv' /\ [Gates!Next]_Gates!vars
<1>1. UNCHANGED <<stage, approval, granted, late, spName, completed>>
  BY DEF Crash, history
<1>2. \A t \in Tasks : pc'[t] = "idle"
  BY DEF Crash
<1>3. CASE UNCHANGED procedure
  BY <1>1, <1>2, <1>3
     DEF GateInv, ProcedureNeedsApproval, CompleteNeedsSignOff, NamedProcedureExists,
         Deploying, Gates!vars
<1>4. CASE \E t \in Tasks : pc[t] = "sql_ddl" /\ procedure' = local[t].built
  <2>1. PICK t \in Tasks : pc[t] = "sql_ddl" /\ procedure' = local[t].built
    BY <1>4
  <2>2. 1 \in granted /\ local[t].built # {} /\ local[t].built \subseteq Rules
    BY <2>1, LocalOf DEF GateInv, Deploying
  <2>3. GateInv'
    BY <1>1, <1>2, <2>1, <2>2
       DEF GateInv, ProcedureNeedsApproval, CompleteNeedsSignOff, NamedProcedureExists,
           Deploying, NoProcedure
  <2>4. Gates!Deploy(local[t].built)
    BY <1>1, <2>1, <2>2 DEF Gates!Deploy
  <2> QED BY <2>2, <2>3, <2>4 DEF Gates!Next
<1> QED BY <1>3, <1>4 DEF Crash, At

\* A deployment that lands late had passed checkpoint 1, too.
LEMMA LandingStep ==
    ASSUME TypeOK, GateInv, DDLLands
    PROVE  GateInv' /\ [Gates!Next]_Gates!vars
<1>1. PICK content \in late : procedure' = content /\ late' = late \ {content}
  BY DEF DDLLands
<1>2. UNCHANGED <<pc, local, stage, approval, granted, spName, completed>>
  BY DEF DDLLands, session, history
<1>3. 1 \in granted /\ content # {} /\ content \in SUBSET Rules
  BY <1>1 DEF GateInv, TypeOK
<1>4. GateInv'
  BY <1>1, <1>2, <1>3
     DEF GateInv, ProcedureNeedsApproval, CompleteNeedsSignOff, NamedProcedureExists, NoProcedure
<1>5. Gates!Deploy(content)
  BY <1>1, <1>2, <1>3 DEF Gates!Deploy
<1> QED BY <1>3, <1>4, <1>5 DEF Gates!Next

-----------------------------------------------------------------------------
(* The approval gates: the theorems                                        *)

\* Every step of the session keeps the invariant, and is a step of the
\* abstract gates or one they do not see.
LEMMA GateStep ==
    ASSUME TypeOK, GateInv, [Next]_vars
    PROVE  GateInv' /\ [Gates!Next]_Gates!vars
<1>1. CASE UNCHANGED vars
  BY <1>1 DEF vars, session, rules, warehouse, history, GateInv, ProcedureNeedsApproval,
              CompleteNeedsSignOff, NamedProcedureExists, Gates!vars
<1>2. CASE Crash
  BY <1>2, CrashStep
<1>3. CASE DDLLands
  BY <1>3, LandingStep
<1>4. ASSUME NEW t \in Tasks, Arrive(t)
      PROVE  GateInv' /\ [Gates!Next]_Gates!vars
  <2>1. CASE AddCustomRule(t) \/ SetActive(t)
    BY <2>1 DEF AddCustomRule, SetActive, warehouse, history, GateInv, ProcedureNeedsApproval,
                CompleteNeedsSignOff, NamedProcedureExists, Gates!vars
  <2>2. CASE GenerateBusiness(t)
    BY <2>2, EnterBusinessStep DEF GenerateBusiness, Gates!vars
  <2>3. CASE RequestSQL(t)
    BY <2>3, SQLStep
  <2>4. CASE StartDiscovery(t) \/ (\E business \in BOOLEAN : GenerateTechnical(t, business))
             \/ SubmitDecision(t) \/ Execute(t)
    BY <2>4, PlainStep DEF Gates!vars
  <2>5. CASE Refused(t)
    BY <1>1, <2>5 DEF Refused
  <2> QED BY <1>4, <2>1, <2>2, <2>3, <2>4, <2>5 DEF Arrive
<1>5. ASSUME NEW t \in Tasks, Resume(t)
      PROVE  GateInv' /\ [Gates!Next]_Gates!vars
  <2>1. CASE TechnicalPersisted(t)
    <3>1. CASE EnterBusiness(t)
      BY <3>1, EnterBusinessStep DEF Gates!vars
    <3>2. CASE Return(t) /\ UNCHANGED <<session, warehouse, history>>
      BY <3>2, Moves, NothingGranted, PlainPoints
         DEF session, warehouse, history, Gates!vars
    <3> QED BY <2>1, <3>1, <3>2 DEF TechnicalPersisted
  <2>2. CASE SQLInferred(t) \/ RulesInserted(t) \/ ProcedureAnswered(t)
    BY <2>2, SQLStep
  <2>3. CASE \/ ApproveRules(t) \/ RefuseRules(t) \/ SignOff(t) \/ RefuseSignOff(t)
             \/ ReportsCreated(t)
    BY <2>3, DecisionStep
  <2>4. CASE \/ WorkflowStarted(t) \/ DiscoveryPersisted(t) \/ MetadataDiscovered(t)
             \/ SessionRegistered(t) \/ BusinessRulesInferred(t) \/ BusinessRulesFailed(t)
             \/ BusinessPersisted(t) \/ SQLPersisted(t) \/ ApprovalRecorded(t)
             \/ ReportPersisted(t) \/ DecisionPersisted(t) \/ DagDeployed(t)
             \/ ExecutionReady(t) \/ ExecutionDone(t)
    BY <2>4, PlainStep DEF Gates!vars
  <2> QED BY <1>5, <2>1, <2>2, <2>3, <2>4 DEF Resume
<1> QED BY <1>1, <1>2, <1>3, <1>4, <1>5 DEF Next

\* Both gates are open at the start, in the session and in the abstract view.
LEMMA GateInit == ASSUME Init PROVE GateInv /\ Gates!Init
<1>1. Gates!Init
  BY DEF Init, Gates!Init, NoProcedure
<1> QED BY <1>1 DEF Init, GateInv, Deploying, ProcedureNeedsApproval, CompleteNeedsSignOff,
                    NamedProcedureExists, NoProcedure

\* What the gates rest on, in every reachable state.
THEOREM GateInvariant == Spec => []GateInv
<1>1. Init => GateInv
  BY GateInit
<1>2. TypeOK /\ GateInv /\ [Next]_vars => GateInv'
  BY GateStep
<1> QED BY <1>1, <1>2, TypeCorrect, PTL DEF Spec

\* Whatever requests overlap and whatever fails: a deployed procedure implies
\* a past approval of checkpoint 1 ...
THEOREM ProcedureGated == Spec => []ProcedureNeedsApproval
<1>1. GateInv => ProcedureNeedsApproval
  BY DEF GateInv
<1> QED BY <1>1, GateInvariant, PTL

\* ... completion implies one of checkpoint 2 ...
THEOREM CompletionGated == Spec => []CompleteNeedsSignOff
<1>1. GateInv => CompleteNeedsSignOff
  BY DEF GateInv
<1> QED BY <1>1, GateInvariant, PTL

\* ... and a name handed out for a procedure implies that the procedure is there.
THEOREM NameBacked == Spec => []NamedProcedureExists
<1>1. GateInv => NamedProcedureExists
  BY DEF GateInv
<1> QED BY <1>1, GateInvariant, PTL

\* The session implements the two approval gates: every run of it, seen through
\* the grants, the deployed procedure and the completion time, is one of theirs.
THEOREM GatesImplemented == Spec => KeepsGates
<1>1. Init => GateInv /\ Gates!Init
  BY GateInit
<1>2. TypeOK /\ GateInv /\ [Next]_vars => GateInv' /\ [Gates!Next]_Gates!vars
  BY GateStep
<1> QED BY <1>1, <1>2, TypeCorrect, PTL DEF Spec, KeepsGates, Gates!Spec

-----------------------------------------------------------------------------
(* One request at a time: deployments and the decision in force            *)

\* The clients of the session wait for every answer before they send more.
OneAtATime == \E t : Tasks = {t}

\* Then the request that takes a step is the only one.
LEMMA Alone == ASSUME OneAtATime, NEW t \in Tasks PROVE \A u \in Tasks : u = t
BY DEF OneAtATime

\* Where a handler is afterwards, and with which locals.
LEMMA Goes ==
    ASSUME TypeOK, NEW t \in Tasks, NEW at, NEW l
    PROVE  /\ Suspend(t, at, l) => pc'[t] = at /\ local'[t] = l
           /\ Persist(t, at, l) =>
                /\ pc'[t] = at
                /\ local'[t] = [l EXCEPT !.row = [stage |-> stage', approval |-> approval',
                                                  version |-> ruleSet'.version]]
           /\ Return(t) => pc'[t] = "idle" /\ local'[t] = NoLocal
BY DEF TypeOK, Suspend, Persist, Return

\* Without other requests, nobody takes an approval back before the SQL
\* generation it started has ended.
DeployInv == \A t \in Tasks : pc[t] \in Deploying => approval[1] = "approved"

\* DeployOnlyWhileApproved, of a step.
DeploysApproved ==
    procedure' # procedure
      => approval[1] = "approved"
         \/ \E content \in late : procedure' = content /\ late' = late \ {content}

\* Most steps leave the procedure alone, and lead to no deployment.
LEMMA NotDeploying ==
    ASSUME TypeOK, NEW t \in Tasks,
           \/ StartDiscovery(t) \/ WorkflowStarted(t) \/ DiscoveryPersisted(t)
           \/ MetadataDiscovered(t) \/ SessionRegistered(t)
           \/ \E business \in BOOLEAN : GenerateTechnical(t, business)
           \/ TechnicalPersisted(t) \/ GenerateBusiness(t)
           \/ BusinessRulesInferred(t) \/ BusinessRulesFailed(t) \/ BusinessPersisted(t)
           \/ SubmitDecision(t) \/ ApprovalRecorded(t) \/ RefuseRules(t) \/ SignOff(t)
           \/ RefuseSignOff(t) \/ ReportsCreated(t) \/ ReportPersisted(t)
           \/ DecisionPersisted(t) \/ DagDeployed(t) \/ SQLPersisted(t)
           \/ Execute(t) \/ ExecutionReady(t) \/ ExecutionDone(t)
    PROVE  UNCHANGED procedure /\ pc'[t] \notin Deploying
<1>p. pc \in [Tasks -> SuspensionPoints]
  BY DEF TypeOK
<1> USE <1>p DEF warehouse, Deploying, Suspend, Persist, Return
<1>0. ASSUME EnterBusiness(t) PROVE UNCHANGED procedure /\ pc'[t] \notin Deploying
  BY <1>0 DEF EnterBusiness
<1>1. CASE \/ StartDiscovery(t) \/ WorkflowStarted(t) \/ DiscoveryPersisted(t)
           \/ MetadataDiscovered(t) \/ SessionRegistered(t)
  BY <1>1 DEF StartDiscovery, WorkflowStarted, DiscoveryPersisted, MetadataDiscovered,
              SessionRegistered
<1>2. CASE \E business \in BOOLEAN : GenerateTechnical(t, business)
  BY <1>2 DEF GenerateTechnical
<1>3. CASE TechnicalPersisted(t) \/ GenerateBusiness(t)
  BY <1>0, <1>3 DEF TechnicalPersisted, GenerateBusiness
<1>4. CASE BusinessRulesInferred(t) \/ BusinessRulesFailed(t) \/ BusinessPersisted(t)
  BY <1>4 DEF BusinessRulesInferred, BusinessRulesFailed, BusinessPersisted
<1>5. CASE SubmitDecision(t) \/ ApprovalRecorded(t)
  BY <1>5 DEF SubmitDecision, ApprovalRecorded
<1>6. CASE RefuseRules(t) \/ SignOff(t) \/ RefuseSignOff(t)
  BY <1>6 DEF RefuseRules, SignOff, RefuseSignOff
<1>7. CASE \/ ReportsCreated(t) \/ ReportPersisted(t) \/ DecisionPersisted(t)
           \/ DagDeployed(t) \/ SQLPersisted(t)
  BY <1>7 DEF ReportsCreated, ReportPersisted, DecisionPersisted, DagDeployed, SQLPersisted
<1>8. CASE Execute(t) \/ ExecutionReady(t) \/ ExecutionDone(t)
  BY <1>8 DEF Execute, ExecutionReady, ExecutionDone
<1> QED BY <1>1, <1>2, <1>3, <1>4, <1>5, <1>6, <1>7, <1>8

\* SQL generation starts with the approval and runs on it.
LEMMA DeployingApproved ==
    ASSUME TypeOK, DeployInv, NEW t \in Tasks,
           \/ RequestSQL(t) \/ SQLInferred(t) \/ RulesInserted(t) \/ ProcedureAnswered(t)
           \/ ApproveRules(t)
    PROVE  (pc'[t] \in Deploying => approval'[1] = "approved") /\ DeploysApproved
<1> USE DEF warehouse, session, DeploysApproved
<1>1. CASE RequestSQL(t)
  BY <1>1 DEF RequestSQL, MayGenerateSQL
<1>2. CASE SQLInferred(t)
  BY <1>2 DEF SQLInferred, DeployInv, Deploying
<1>3. CASE RulesInserted(t)
  BY <1>3 DEF RulesInserted, DeployInv, Deploying
<1>4. CASE ProcedureAnswered(t)
  BY <1>4 DEF ProcedureAnswered, DeployInv, Deploying
<1>5. CASE ApproveRules(t)
  BY <1>5 DEF ApproveRules, Audited, TypeOK, Checkpoints
<1> QED BY <1>1, <1>2, <1>3, <1>4, <1>5

\* Every step keeps DeployInv, and deploys only what is approved.
LEMMA DeployStep ==
    ASSUME OneAtATime, TypeOK, DeployInv, [Next]_vars
    PROVE  DeployInv' /\ DeploysApproved
<1>1. CASE UNCHANGED vars
  BY <1>1 DEF vars, session, warehouse, DeployInv, DeploysApproved
<1>2. CASE Crash
  <2>1. \A t \in Tasks : pc'[t] = "idle"
    BY <1>2 DEF Crash
  <2>2. procedure' # procedure => \E t \in Tasks : pc[t] = "sql_ddl"
    BY <1>2 DEF Crash, At
  <2> QED BY <2>1, <2>2 DEF DeployInv, DeploysApproved, Deploying
<1>3. CASE DDLLands
  BY <1>3 DEF DDLLands, session, DeployInv, DeploysApproved
<1>4. ASSUME NEW t \in Tasks, Arrive(t) \/ Resume(t) PROVE DeployInv' /\ DeploysApproved
  <2>1. CASE Refused(t)
    BY <1>1, <2>1 DEF Refused
  <2>2. CASE AddCustomRule(t) \/ SetActive(t)
    BY <2>2 DEF AddCustomRule, SetActive, warehouse, DeployInv, DeploysApproved
  <2>3. ASSUME (pc'[t] \in Deploying => approval'[1] = "approved") /\ DeploysApproved
        PROVE  DeployInv' /\ DeploysApproved
    BY <2>3, Alone DEF DeployInv
  <2> QED BY <1>4, <2>1, <2>2, <2>3, NotDeploying, DeployingApproved
          DEF Arrive, Resume, DeploysApproved
<1> QED BY <1>1, <1>2, <1>3, <1>4 DEF Next

\* Who waits for every answer never has a procedure deployed against the
\* decision in force on checkpoint 1, whatever fails and whenever the process
\* dies, but for deployments that were given up before and land late.
THEOREM DeploysOnlyWhileApproved ==
    ASSUME OneAtATime PROVE Spec => DeployOnlyWhileApproved
<1>1. Init => DeployInv
  BY DEF Init, DeployInv, Deploying
<1>2. TypeOK /\ DeployInv /\ [Next]_vars => DeployInv'
  BY DeployStep
<1>3. TypeOK /\ DeployInv /\ [Next]_vars => [DeploysApproved]_vars
  BY DeployStep
<1>4. DeployOnlyWhileApproved <=> [][DeploysApproved]_vars
  BY DEF DeployOnlyWhileApproved, DeploysApproved
<1> QED BY <1>1, <1>2, <1>3, <1>4, TypeCorrect, PTL DEF Spec
=============================================================================
