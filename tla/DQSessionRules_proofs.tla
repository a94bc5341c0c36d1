------------------------ MODULE DQSessionRules_proofs ------------------------
(***************************************************************************)
(* No rule is ever twice in a rule set, proved for every number of         *)
(* overlapping requests although SQL generation and modification move      *)
(* rules between its lists from snapshots that may be stale.  With one     *)
(* request at a time the snapshots are not stale: every rule has the       *)
(* version of its set, and no active rule is lost.                         *)
(***************************************************************************)
EXTENDS DQSession_proofs

-----------------------------------------------------------------------------
(* The inductive invariant                                                 *)

\* A rule gets its identity, and its version, before it is listed or captured
\* in a snapshot; the agents only hand out identities without a version.  So a
\* new rule is in no list, and in no snapshot that may become one.
RulesInv ==
    /\ \A r \in AllRules(ruleSet) : ruleVersion[r] # 0
    /\ \A t \in Tasks : \A r \in local[t].snapshot : ruleVersion[r] # 0
    /\ \A t \in Tasks : pc[t] = "business_llm" => local[t].version # 0
    /\ NoRuleTwice

\* t moves on to the suspension point at, with the snapshot S.
Carries(t, at, S) == Moved(t, at) /\ local'[t].snapshot = S

\* What a handler carries along when it suspends.
LEMMA CarriesOver ==
    ASSUME TypeOK, NEW t \in Tasks, NEW at, NEW l \in LocalType
    PROVE  /\ Suspend(t, at, l) => Carries(t, at, l.snapshot)
           /\ Persist(t, at, l) => Carries(t, at, l.snapshot)
           /\ Return(t) => Carries(t, "idle", {})
           /\ NoLocal.snapshot = {}
           /\ WorkDone(t).snapshot = {}
<1>1. Suspend(t, at, l) => Carries(t, at, l.snapshot)
  BY Moves DEF Suspend, Carries, TypeOK
<1>2. ASSUME Persist(t, at, l) PROVE Carries(t, at, l.snapshot)
  <2>1. PICK r : Suspend(t, at, [l EXCEPT !.row = r])
    BY <1>2 DEF Persist
  <2>2. local'[t] = [l EXCEPT !.row = r]
    BY <2>1 DEF Suspend, TypeOK
  <2>3. local'[t].snapshot = l.snapshot
    BY <2>2 DEF LocalType
  <2> QED BY <1>2, <2>3, Moves DEF Carries
<1>3. NoLocal.snapshot = {} /\ WorkDone(t).snapshot = {}
  BY DEF NoLocal, WorkDone
<1>4. ASSUME Return(t) PROVE Carries(t, "idle", {})
  <2>1. local'[t] = NoLocal
    BY <1>4 DEF Return, Suspend, TypeOK
  <2> QED BY <1>3, <1>4, <2>1, Moves DEF Carries
<1> QED BY <1>1, <1>2, <1>3, <1>4

\* A handler that changes no rule, and carries rules that have their version,
\* keeps the invariant.
LEMMA RulesKept ==
    ASSUME TypeOK, RulesInv, NEW t \in Tasks, NEW at, NEW S, Carries(t, at, S),
           \A r \in S : ruleVersion[r] # 0,
           at = "business_llm" => local'[t].version # 0,
           UNCHANGED <<ruleSet, ruleVersion>>
    PROVE  RulesInv'
<1>1. \A u \in Tasks : u # t => pc'[u] = pc[u] /\ local'[u] = local[u]
  BY DEF Carries, Moved, TypeOK
<1>2. pc'[t] = at /\ local'[t].snapshot = S
  BY DEF Carries, Moved, TypeOK
<1>3. \A u \in Tasks : \A r \in local'[u].snapshot : ruleVersion'[r] # 0
  BY <1>1, <1>2 DEF RulesInv
<1>4. \A u \in Tasks : pc'[u] = "business_llm" => local'[u].version # 0
  BY <1>1, <1>2 DEF RulesInv
<1>5. (\A r \in AllRules(ruleSet) : ruleVersion[r] # 0)' /\ NoRuleTwice'
  BY DEF RulesInv, NoRuleTwice, AllRules
<1> QED BY <1>3, <1>4, <1>5 DEF RulesInv

\* Rules are only ever stamped with versions that were drawn: a rule that has
\* one keeps having one.
LEMMA StampKeeps ==
    ASSUME TypeOK, NEW new \in SUBSET Rules, NEW v \in Nat, v # 0
    PROVE  /\ \A r \in Rules : ruleVersion[r] # 0 => Stamp(new, v)[r] # 0
           /\ \A r \in new : Stamp(new, v)[r] # 0
BY DEF Stamp

\* Rules are added to a list: they are fresh, so they are in no other list.
LEMMA RulesAdded ==
    ASSUME TypeOK, RulesInv, NEW F \in SUBSET Rules, NEW new \in SUBSET Fresh(F),
           NEW v \in Nat, v # 0, ruleVersion' = Stamp(new, v),
           \/ ruleSet' = [ruleSet EXCEPT !.business = @ \cup new]
           \/ \E n : ruleSet' = [EmptyRuleSet EXCEPT !.version = n, !.technical = new],
           \A u \in Tasks : local'[u].snapshot \subseteq local[u].snapshot,
           \A u \in Tasks : pc'[u] = "business_llm" => local'[u].version # 0
    PROVE  RulesInv'
<1>1. new \in SUBSET Rules /\ \A r \in new : ruleVersion[r] = 0
  BY DEF Fresh
<1>2. /\ \A r \in Rules : ruleVersion[r] # 0 => ruleVersion'[r] # 0
      /\ \A r \in new : ruleVersion'[r] # 0
  BY <1>1, StampKeeps
<1>3. AllRules(ruleSet) \subseteq Rules /\ new \cap AllRules(ruleSet) = {}
  BY <1>1, RuleSetsType DEF RulesInv
<1>4. \A u \in Tasks : \A r \in local'[u].snapshot : ruleVersion'[r] # 0
  BY <1>2, LocalOf DEF RulesInv
<1>5. CASE ruleSet' = [ruleSet EXCEPT !.business = @ \cup new]
  <2>1. /\ ruleSet'.technical = ruleSet.technical /\ ruleSet'.rules = ruleSet.rules
        /\ ruleSet'.business = ruleSet.business \cup new
    BY <1>5 DEF TypeOK
  <2>2. NoRuleTwice'
    BY <1>3, <2>1 DEF NoRuleTwice, RulesInv, AllRules
  <2>3. \A r \in AllRules(ruleSet') : ruleVersion'[r] # 0
    BY <1>2, <1>3, <2>1 DEF RulesInv, AllRules
  <2> QED BY <1>4, <2>2, <2>3 DEF RulesInv, AllRules
<1>6. CASE \E n : ruleSet' = [EmptyRuleSet EXCEPT !.version = n, !.technical = new]
  <2>1. ruleSet'.technical = new /\ ruleSet'.rules = {} /\ ruleSet'.business = {}
    BY <1>6 DEF EmptyRuleSet
  <2>2. NoRuleTwice'
    BY <2>1 DEF NoRuleTwice
  <2>3. \A r \in AllRules(ruleSet') : ruleVersion'[r] # 0
    BY <1>2, <2>1 DEF AllRules
  <2> QED BY <1>4, <2>2, <2>3 DEF RulesInv, AllRules
<1> QED BY <1>5, <1>6

\* A set of rules with versions becomes the whole rule set.
LEMMA RulesStored ==
    ASSUME TypeOK, RulesInv, NEW t \in Tasks, NEW at, NEW S, Carries(t, at, S),
           at # "business_llm", \A r \in S : ruleVersion[r] # 0,
           NEW R, \A r \in R : ruleVersion[r] # 0, UNCHANGED ruleVersion,
           ruleSet' = [ruleSet EXCEPT !.technical = {}, !.business = {}, !.rules = R]
    PROVE  RulesInv'
<1>1. \A u \in Tasks : u # t => pc'[u] = pc[u] /\ local'[u] = local[u]
  BY DEF Carries, Moved, TypeOK
<1>2. pc'[t] = at /\ local'[t].snapshot = S
  BY DEF Carries, Moved, TypeOK
<1>3. ruleSet'.technical = {} /\ ruleSet'.business = {} /\ ruleSet'.rules = R
  BY DEF TypeOK
<1>4. NoRuleTwice' /\ \A r \in AllRules(ruleSet') : ruleVersion'[r] # 0
  BY <1>3 DEF NoRuleTwice, AllRules
<1>5. \A u \in Tasks : \A r \in local'[u].snapshot : ruleVersion'[r] # 0
  BY <1>1, <1>2 DEF RulesInv
<1>6. \A u \in Tasks : pc'[u] = "business_llm" => local'[u].version # 0
  BY <1>1, <1>2 DEF RulesInv
<1> QED BY <1>4, <1>5, <1>6 DEF RulesInv, AllRules

-----------------------------------------------------------------------------
(* The steps                                                               *)

\* Most steps neither create nor move rules, and carry none along or the ones
\* they had.
LEMMA RulePlainStep ==
    ASSUME TypeOK, RulesInv, NEW t \in Tasks,
           \/ StartDiscovery(t) \/ WorkflowStarted(t) \/ DiscoveryPersisted(t)
           \/ MetadataDiscovered(t) \/ SessionRegistered(t)
           \/ BusinessRulesFailed(t) \/ BusinessPersisted(t) \/ SubmitDecision(t)
           \/ ReportsCreated(t) \/ SignOff(t) \/ RefuseSignOff(t) \/ ReportPersisted(t)
           \/ DecisionPersisted(t) \/ DagDeployed(t) \/ SQLPersisted(t)
           \/ RulesInserted(t) \/ ProcedureAnswered(t) \/ ExecutionDone(t)
    PROVE  RulesInv'
<1> USE DEF session, rules
<1>a. NoLocal \in LocalType /\ WorkDone(t) \in LocalType
  BY NoLocalType, LocalOf
<1>b. ASSUME NEW at, at # "business_llm", Carries(t, at, {}), UNCHANGED <<ruleSet, ruleVersion>>
      PROVE  RulesInv'
  BY <1>b, RulesKept
<1>1. CASE \/ StartDiscovery(t) \/ WorkflowStarted(t) \/ MetadataDiscovered(t)
           \/ BusinessRulesFailed(t) \/ ReportsCreated(t) \/ RefuseSignOff(t)
           \/ ReportPersisted(t) \/ ProcedureAnswered(t)
  <2>1. \E at : at # "business_llm"
                /\ (Persist(t, at, NoLocal) \/ Persist(t, at, WorkDone(t)))
    BY <1>1 DEF StartDiscovery, WorkflowStarted, MetadataDiscovered, BusinessRulesFailed,
                ReportsCreated, RefuseSignOff, ReportPersisted, ProcedureAnswered
  <2>2. UNCHANGED <<ruleSet, ruleVersion>>
    BY <1>1 DEF StartDiscovery, WorkflowStarted, MetadataDiscovered, BusinessRulesFailed,
                ReportsCreated, RefuseSignOff, ReportPersisted, ProcedureAnswered
  <2> QED BY <1>a, <1>b, <2>1, <2>2, CarriesOver
<1>2. CASE SessionRegistered(t) \/ BusinessPersisted(t) \/ DagDeployed(t) \/ ExecutionDone(t)
  <2>1. Return(t) /\ UNCHANGED <<ruleSet, ruleVersion>>
    BY <1>2 DEF SessionRegistered, BusinessPersisted, DagDeployed, ExecutionDone
  <2> QED BY <1>a, <1>b, <2>1, CarriesOver
<1>3. CASE DiscoveryPersisted(t)
  BY <1>3, <1>a, <1>b, CarriesOver DEF DiscoveryPersisted
<1>4. CASE SignOff(t)
  BY <1>4, <1>a, <1>b, CarriesOver DEF SignOff
<1>5. CASE SubmitDecision(t)
  <2>1. PICK c \in Checkpoints, d \in Decisions :
           Suspend(t, "approval_insert",
                   [NoLocal EXCEPT !.checkpoint = c, !.decision = d, !.stamp = clock'])
    BY <1>5 DEF SubmitDecision
  <2>2. [NoLocal EXCEPT !.checkpoint = c, !.decision = d, !.stamp = clock'].snapshot = {}
    BY DEF NoLocal
  <2>3. Carries(t, "approval_insert", {})
    <3>1. clock' \in Nat
      <4>1. clock' = clock + 1
        BY <1>5 DEF SubmitDecision
      <4> QED BY <4>1 DEF TypeOK
    <3>2. [NoLocal EXCEPT !.checkpoint = c, !.decision = d, !.stamp = clock'] \in LocalType
      BY <3>1, NoLocalType DEF LocalType, Statuses
    <3> QED BY <2>1, <2>2, <3>2, CarriesOver
  <2>4. UNCHANGED <<ruleSet, ruleVersion>>
    BY <1>5 DEF SubmitDecision
  <2> QED BY <1>b, <2>3, <2>4
<1>6. CASE DecisionPersisted(t)
  <2>1. Suspend(t, "composer", NoLocal) \/ Return(t)
    BY <1>6 DEF DecisionPersisted
  <2>2. UNCHANGED <<ruleSet, ruleVersion>>
    BY <1>6 DEF DecisionPersisted
  <2> QED BY <1>a, <1>b, <2>1, <2>2, CarriesOver
<1>7. CASE SQLPersisted(t)
  <2>1. Persist(t, "decision_insert", WorkDone(t)) \/ Return(t)
    BY <1>7 DEF SQLPersisted
  <2>2. UNCHANGED <<ruleSet, ruleVersion>>
    BY <1>7 DEF SQLPersisted
  <2> QED BY <1>a, <1>b, <2>1, <2>2, CarriesOver
<1>8. CASE RulesInserted(t)
  <2> DEFINE content == Deployable(local[t].snapshot)
             ddl == [WorkDone(t) EXCEPT !.built = content]
  <2>1. content \subseteq Rules
    BY LocalOf DEF Deployable, Active
  <2>2. ddl \in LocalType /\ ddl.snapshot = {}
    BY <1>a, <2>1 DEF WorkDone, NoLocal, LocalType
  <2>3. Persist(t, "sql_insert", WorkDone(t)) \/ Suspend(t, "sql_ddl", ddl)
    BY <1>8 DEF RulesInserted
  <2>4. UNCHANGED <<ruleSet, ruleVersion>>
    BY <1>8 DEF RulesInserted
  <2> HIDE DEF ddl
  <2>5. CASE Persist(t, "sql_insert", WorkDone(t))
    BY <1>a, <1>b, <2>4, <2>5, CarriesOver
  <2>6. CASE Suspend(t, "sql_ddl", ddl)
    BY <1>b, <2>2, <2>4, <2>6, CarriesOver
  <2> QED BY <2>3, <2>5, <2>6
<1> QED BY <1>1, <1>2, <1>3, <1>4, <1>5, <1>6, <1>7, <1>8

\* A snapshot is taken of rules that have a version, and only ever shrinks.
LEMMA SnapshotStep ==
    ASSUME TypeOK, RulesInv, NEW t \in Tasks,
           ApprovalRecorded(t) \/ Execute(t) \/ ExecutionReady(t)
    PROVE  RulesInv'
<1> USE DEF session, rules
<1>1. CASE ApprovalRecorded(t)
  <2> DEFINE l == [local[t] EXCEPT !.stamp = clock']
  <2>1. clock' \in Nat
    BY <1>1 DEF ApprovalRecorded, TypeOK
  <2>2. l \in LocalType /\ l.snapshot = local[t].snapshot
    BY <2>1, LocalOf DEF LocalType
  <2>3. Carries(t, "audit_insert", l.snapshot)
    <3> HIDE DEF l
    <3>1. Suspend(t, "audit_insert", l)
      BY <1>1 DEF ApprovalRecorded, l
    <3> QED BY <2>2, <3>1, CarriesOver
  <2> QED BY <1>1, <2>2, <2>3, RulesKept DEF ApprovalRecorded, RulesInv
<1>2. CASE Execute(t)
  <2> DEFINE l == [NoLocal EXCEPT !.snapshot = AllRules(ruleSet), !.useProcedure = spName]
  <2>1. l \in LocalType /\ l.snapshot = AllRules(ruleSet)
    BY NoLocalType, RuleSetsType DEF LocalType, TypeOK
  <2>2. Carries(t, "execute_setup", l.snapshot)
    <3> HIDE DEF l
    <3>1. Suspend(t, "execute_setup", l)
      BY <1>2 DEF Execute, l
    <3> QED BY <2>1, <3>1, CarriesOver
  <2> QED BY <1>2, <2>1, <2>2, RulesKept DEF Execute, RulesInv
<1>3. CASE ExecutionReady(t)
  <2> DEFINE l == [local[t] EXCEPT !.snapshot = Active(@) \cap hasSQL]
  <2>1. l \in LocalType /\ l.snapshot \subseteq local[t].snapshot
    BY LocalOf DEF Active, LocalType
  <2>2. UNCHANGED <<ruleSet, ruleVersion>>
    BY <1>3 DEF ExecutionReady
  <2>3. CASE Suspend(t, "execute_run", l)
    <3> HIDE DEF l
    <3>1. Carries(t, "execute_run", l.snapshot)
      BY <2>1, <2>3, CarriesOver
    <3>2. \A r \in l.snapshot : ruleVersion[r] # 0
      BY <2>1 DEF RulesInv
    <3> QED BY <2>2, <3>1, <3>2, RulesKept
  <2>4. CASE Return(t)
    BY <2>2, <2>4, NoLocalType, CarriesOver, RulesKept
  <2> QED BY <1>3, <2>3, <2>4 DEF ExecutionReady
<1> QED BY <1>1, <1>2, <1>3

\* A handler that infers business rules has a version to stamp them with.
LEMMA EnterBusinessRules ==
    ASSUME TypeOK, RulesInv, NEW t \in Tasks, EnterBusiness(t)
    PROVE  RulesInv'
<1> DEFINE l == [NoLocal EXCEPT !.version = ruleSet.version, !.tables = metadata]
<1>1. l \in LocalType /\ l.snapshot = {} /\ l.version = ruleSet.version
  BY NoLocalType, RuleSetsType DEF TypeOK, LocalType, NoLocal
<1>2. UNCHANGED <<ruleSet, ruleVersion>>
  BY DEF EnterBusiness, rules
<1>3. CASE Return(t)
  BY <1>2, <1>3, NoLocalType, CarriesOver, RulesKept
<1>4. CASE Persist(t, "business_insert", NoLocal)
  BY <1>2, <1>4, NoLocalType, CarriesOver, RulesKept
<1>5. CASE HasRuleSet /\ Suspend(t, "business_llm", l)
  <2> HIDE DEF l
  <2>1. Carries(t, "business_llm", {})
    BY <1>1, <1>5, CarriesOver
  <2>2. local'[t] = l
    BY <1>5 DEF Suspend, TypeOK
  <2> QED BY <1>1, <1>2, <1>5, <2>1, <2>2, RulesKept DEF HasRuleSet
<1> QED BY <1>3, <1>4, <1>5 DEF EnterBusiness

\* POST /rules/generate and POST /rules/add-custom only list fresh rules.
LEMMA NewRulesStep ==
    ASSUME TypeOK, RulesInv, NEW t \in Tasks,
           \/ \E business \in BOOLEAN : GenerateTechnical(t, business)
           \/ TechnicalPersisted(t) \/ GenerateBusiness(t) \/ BusinessRulesInferred(t)
           \/ AddCustomRule(t)
    PROVE  RulesInv'
<1>g. GeneratedRules \in SUBSET Rules /\ CustomRules \in SUBSET Rules
  BY DEF Rules
<1>1. ASSUME NEW business \in BOOLEAN, GenerateTechnical(t, business)
      PROVE  RulesInv'
  <2> DEFINE l == [NoLocal EXCEPT !.business = business]
  <2>1. l \in LocalType /\ l.snapshot = {}
    BY NoLocalType DEF LocalType, NoLocal
  <2>2. Carries(t, "technical_insert", {})
    <3> HIDE DEF l
    <3>1. Persist(t, "technical_insert", l)
      BY <1>1 DEF GenerateTechnical, l
    <3> QED BY <2>1, <3>1, CarriesOver
  <2>3. CASE UNCHANGED <<ruleSet, ruleVersion>>
    BY <2>2, <2>3, RulesKept
  <2>4. ASSUME NEW new \in SUBSET Fresh(GeneratedRules),
               ruleSet' = [EmptyRuleSet EXCEPT !.version = versions', !.technical = new],
               ruleVersion' = Stamp(new, versions')
        PROVE  RulesInv'
    <3>1. versions' \in Nat /\ versions' # 0
      <4>1. versions' = versions + 1
        BY <1>1 DEF GenerateTechnical
      <4>2. versions \in Nat
        BY DEF TypeOK
      <4> QED BY <4>1, <4>2
    <3>2. \A u \in Tasks : u # t => pc'[u] = pc[u] /\ local'[u] = local[u]
      BY <2>2 DEF Carries, Moved, TypeOK
    <3>3. pc'[t] = "technical_insert" /\ local'[t].snapshot = {}
      BY <2>2 DEF Carries, Moved, TypeOK
    <3>4. /\ \A u \in Tasks : local'[u].snapshot \subseteq local[u].snapshot
          /\ \A u \in Tasks : pc'[u] = "business_llm" => local'[u].version # 0
      BY <3>2, <3>3 DEF RulesInv
    <3> QED BY <1>g, <2>4, <3>1, <3>4, RulesAdded
  <2> QED BY <1>1, <2>3, <2>4 DEF GenerateTechnical
<1>2. CASE TechnicalPersisted(t)
  <2>1. CASE EnterBusiness(t)
    BY <2>1, EnterBusinessRules
  <2>2. CASE Return(t) /\ UNCHANGED <<session, warehouse, history>>
    BY <2>2, NoLocalType, CarriesOver, RulesKept DEF session, rules
  <2> QED BY <1>2, <2>1, <2>2 DEF TechnicalPersisted
<1>3. CASE GenerateBusiness(t)
  BY <1>3, EnterBusinessRules DEF GenerateBusiness
<1>4. CASE BusinessRulesInferred(t)
  <2>1. PICK table \in local[t].tables, new \in SUBSET Fresh(GeneratedRules) :
           LET left == local[t].tables \ {table} IN
           /\ ruleSet' = [ruleSet EXCEPT !.business = @ \cup new]
           /\ ruleVersion' = Stamp(new, local[t].version)
           /\ \/ left = {} /\ Persist(t, "business_insert", NoLocal)
              \/ left # {} /\ Suspend(t, "business_llm", [local[t] EXCEPT !.tables = left])
    BY <1>4 DEF BusinessRulesInferred
  <2>2. local[t].version # 0 /\ local[t].version \in Nat
    BY <1>4, LocalOf DEF BusinessRulesInferred, RulesInv
  <2> DEFINE l == [local[t] EXCEPT !.tables = @ \ {table}]
  <2>3. l \in LocalType /\ l.snapshot = local[t].snapshot /\ l.version = local[t].version
    BY LocalOf DEF LocalType
  <2>4. /\ local'[t].snapshot \subseteq local[t].snapshot
        /\ pc'[t] = "business_llm" => local'[t].version # 0
        /\ \A u \in Tasks : u # t => pc'[u] = pc[u] /\ local'[u] = local[u]
    <3>1. CASE Persist(t, "business_insert", NoLocal)
      BY <3>1, NoLocalType, CarriesOver DEF Carries, Moved, TypeOK
    <3>2. CASE Suspend(t, "business_llm", l)
      <4> HIDE DEF l
      <4> QED BY <2>2, <2>3, <3>2 DEF Suspend, TypeOK
    <3> QED BY <2>1, <3>1, <3>2
  <2>5. /\ \A u \in Tasks : local'[u].snapshot \subseteq local[u].snapshot
        /\ \A u \in Tasks : pc'[u] = "business_llm" => local'[u].version # 0
    BY <2>4 DEF RulesInv
  <2> QED BY <1>g, <2>1, <2>2, <2>5, RulesAdded
<1>5. CASE AddCustomRule(t)
  <2>1. PICK r \in Fresh(CustomRules) :
           /\ ruleSet' = [ruleSet EXCEPT !.business = @ \cup {r}]
           /\ ruleVersion' = Stamp({r}, ruleSet.version)
    BY <1>5 DEF AddCustomRule
  <2>2. ruleSet.version \in Nat /\ ruleSet.version # 0
    BY <1>5, RuleSetsType DEF AddCustomRule, HasRuleSet
  <2>3. /\ \A u \in Tasks : local'[u].snapshot \subseteq local[u].snapshot
        /\ \A u \in Tasks : pc'[u] = "business_llm" => local'[u].version # 0
    BY <1>5 DEF AddCustomRule, RulesInv
  <2>4. {r} \in SUBSET Fresh(CustomRules)
    OBVIOUS
  <2> QED BY <1>g, <2>1, <2>2, <2>3, <2>4, RulesAdded
<1> QED BY <1>1, <1>2, <1>3, <1>4, <1>5

\* The start of the SQL generation, for whichever request: the snapshot, and
\* the rule set if it is stored at once, hold rules of the current set.
LEMMA StartSQLRules ==
    ASSUME TypeOK, RulesInv, NEW t \in Tasks, NEW l \in LocalType,
           StartSQLGeneration(t, l), UNCHANGED ruleVersion
    PROVE  RulesInv'
<1> DEFINE snapshot == Active(AllRules(ruleSet))
           claude == snapshot \ (Supported \cup CustomRules)
           now == [l EXCEPT !.snapshot = snapshot, !.claude = claude]
<1>1. snapshot \subseteq Rules /\ \A r \in snapshot : ruleVersion[r] # 0
  BY RuleSetsType DEF Active, RulesInv
<1>2. now \in LocalType /\ now.snapshot = snapshot
  BY <1>1 DEF LocalType
<1>3. StoreRules(t, now) \/ (Suspend(t, "sql_claude", now) /\ UNCHANGED ruleSet)
  BY DEF StartSQLGeneration
<1> HIDE DEF now
<1>4. CASE StoreRules(t, now)
  <2>1. Carries(t, "rules_insert", now.snapshot)
    BY <1>2, <1>4, CarriesOver DEF StoreRules
  <2> QED BY <1>1, <1>2, <1>4, <2>1, RulesStored DEF StoreRules
<1>5. CASE Suspend(t, "sql_claude", now) /\ UNCHANGED ruleSet
  <2>1. Carries(t, "sql_claude", now.snapshot)
    BY <1>2, <1>5, CarriesOver
  <2> QED BY <1>1, <1>2, <1>5, <2>1, RulesKept
<1> QED BY <1>3, <1>4, <1>5

\* Rules move between the lists: SQL generation stores its snapshot, a
\* modification what it leaves active.
LEMMA MovedRulesStep ==
    ASSUME TypeOK, RulesInv, NEW t \in Tasks,
           RequestSQL(t) \/ SQLInferred(t) \/ ApproveRules(t) \/ RefuseRules(t)
    PROVE  RulesInv'
<1>1. CASE RequestSQL(t)
  <2>1. CASE StartSQLGeneration(t, NoLocal)
    BY <1>1, <2>1, NoLocalType, StartSQLRules DEF RequestSQL
  <2>2. CASE UNCHANGED <<ruleSet, pc, local>>
    BY <1>1, <2>2 DEF RequestSQL, RulesInv, NoRuleTwice, AllRules
  <2> QED BY <1>1, <2>1, <2>2 DEF RequestSQL
<1>2. CASE SQLInferred(t)
  <2> DEFINE now(r) == [local[t] EXCEPT !.claude = @ \ {r}]
  <2>1. PICK r \in local[t].claude :
           \/ StoreRules(t, now(r))
           \/ Suspend(t, "sql_claude", now(r)) /\ UNCHANGED ruleSet
    BY <1>2 DEF SQLInferred
  <2>2. now(r) \in LocalType /\ now(r).snapshot = local[t].snapshot
    BY LocalOf DEF LocalType
  <2>3. (\A q \in local[t].snapshot : ruleVersion[q] # 0) /\ UNCHANGED ruleVersion
    BY <1>2 DEF SQLInferred, RulesInv
  <2> HIDE DEF now
  <2>4. CASE StoreRules(t, now(r))
    <3>1. Carries(t, "rules_insert", now(r).snapshot)
      BY <2>2, <2>4, CarriesOver DEF StoreRules
    <3> QED BY <2>2, <2>3, <2>4, <3>1, RulesStored DEF StoreRules
  <2>5. CASE Suspend(t, "sql_claude", now(r)) /\ UNCHANGED ruleSet
    <3>1. Carries(t, "sql_claude", now(r).snapshot)
      BY <2>2, <2>5, CarriesOver
    <3> QED BY <2>2, <2>3, <2>5, <3>1, RulesKept
  <2> QED BY <2>1, <2>4, <2>5
<1>3. CASE ApproveRules(t)
  <2> DEFINE now == [NoLocal EXCEPT !.approving = TRUE]
  <2>1. now \in LocalType /\ now.snapshot = {}
    BY NoLocalType DEF LocalType, NoLocal
  <2>2. UNCHANGED ruleVersion
    BY <1>3 DEF ApproveRules
  <2> HIDE DEF now
  <2>3. CASE StartSQLGeneration(t, now)
    BY <2>1, <2>2, <2>3, StartSQLRules
  <2>4. CASE Persist(t, "decision_insert", now) /\ UNCHANGED ruleSet
    <3>1. Carries(t, "decision_insert", {})
      BY <2>1, <2>4, CarriesOver
    <3> QED BY <2>2, <2>4, <3>1, RulesKept
  <2> QED BY <1>3, <2>3, <2>4 DEF ApproveRules, now
<1>4. CASE RefuseRules(t)
  <2>1. UNCHANGED ruleVersion /\ WorkDone(t) \in LocalType /\ NoLocal \in LocalType
    BY <1>4, LocalOf, NoLocalType DEF RefuseRules
  <2>2. PICK at \in {"idle", "decision_insert"} : Carries(t, at, {})
    <3>1. Persist(t, "decision_insert", WorkDone(t)) \/ Return(t)
      BY <1>4 DEF RefuseRules
    <3> QED BY <2>1, <3>1, CarriesOver
  <2>3. CASE UNCHANGED ruleSet
    BY <2>1, <2>2, <2>3, RulesKept
  <2>4. CASE \E off \in SUBSET AllRules(ruleSet) :
               ruleSet' = [ruleSet EXCEPT !.technical = {}, !.business = {},
                                          !.rules = AllRules(ruleSet) \ off]
    <3>1. PICK off \in SUBSET AllRules(ruleSet) :
             ruleSet' = [ruleSet EXCEPT !.technical = {}, !.business = {},
                                        !.rules = AllRules(ruleSet) \ off]
      BY <2>4
    <3> DEFINE left == AllRules(ruleSet) \ off
    <3>2. \A r \in left : ruleVersion[r] # 0
      BY DEF RulesInv
    <3>3. ruleSet' = [ruleSet EXCEPT !.technical = {}, !.business = {}, !.rules = left]
      BY <3>1
    <3>4. at # "business_llm"
      OBVIOUS
    <3> DEFINE none == {}
    <3>5. Carries(t, at, none) /\ \A r \in none : ruleVersion[r] # 0
      BY <2>2
    <3> HIDE DEF left, none
    <3> QED BY <2>1, <3>2, <3>3, <3>4, <3>5, RulesStored
  <2> QED BY <1>4, <2>3, <2>4 DEF RefuseRules
<1> QED BY <1>1, <1>2, <1>3, <1>4

-----------------------------------------------------------------------------
(* The theorem                                                             *)

\* Technical, business and stored rules of a rule set stay disjoint, whatever
\* requests overlap: no rule is reviewed, generated or run twice.
THEOREM RulesDistinct == Spec => []NoRuleTwice
<1>1. Init => RulesInv
  BY DEF Init, RulesInv, NoRuleTwice, AllRules, EmptyRuleSet, NoLocal
<1>2. TypeOK /\ RulesInv /\ [Next]_vars => RulesInv'
  <2> SUFFICES ASSUME TypeOK, RulesInv, [Next]_vars PROVE RulesInv'
    OBVIOUS
  <2>1. CASE UNCHANGED vars
    BY <2>1 DEF vars, session, rules, RulesInv, NoRuleTwice, AllRules
  <2>2. CASE Crash
    BY <2>2 DEF Crash, rules, RulesInv, NoRuleTwice, AllRules, NoLocal
  <2>5. CASE DDLLands
    BY <2>5 DEF DDLLands, session, rules, RulesInv, NoRuleTwice, AllRules
  <2>3. ASSUME NEW t \in Tasks, Arrive(t) PROVE RulesInv'
    <3>1. CASE Refused(t)
      BY <2>1, <3>1 DEF Refused
    <3>2. CASE SetActive(t)
      BY <3>2 DEF SetActive, RulesInv, NoRuleTwice, AllRules
    <3> QED BY <2>3, <3>1, <3>2, RulePlainStep, NewRulesStep, MovedRulesStep, SnapshotStep
            DEF Arrive
  <2>4. ASSUME NEW t \in Tasks, Resume(t) PROVE RulesInv'
    BY <2>4, RulePlainStep, NewRulesStep, MovedRulesStep, SnapshotStep DEF Resume
  <2> QED BY <2>1, <2>2, <2>3, <2>4, <2>5 DEF Next
<1>3. RulesInv => NoRuleTwice
  BY DEF RulesInv
<1> QED BY <1>1, <1>2, <1>3, TypeCorrect, PTL DEF Spec

-----------------------------------------------------------------------------
(* One request at a time: versions, and rules that stay                    *)

\* Without other requests, what a handler captured of the rule set is still so
\* when it writes.
SnapshotInv ==
    /\ VersionsAgree
    /\ ruleSet.version <= versions
    /\ \A t \in Tasks : pc[t] = "business_llm" => local[t].version = ruleSet.version
    /\ \A t \in Tasks : pc[t] = "sql_claude" => local[t].snapshot = Active(AllRules(ruleSet))

\* NoActiveRuleLost, of a step.
RulesStay ==
    ruleSet'.version = ruleSet.version
      => Active(AllRules(ruleSet)) \subseteq AllRules(ruleSet') \cup inactive'

\* Most steps leave the rules alone and capture nothing of them.
LEMMA RulesAlone ==
    ASSUME TypeOK, NEW t \in Tasks,
           \/ StartDiscovery(t) \/ WorkflowStarted(t) \/ DiscoveryPersisted(t)
           \/ MetadataDiscovered(t) \/ SessionRegistered(t)
           \/ BusinessRulesFailed(t) \/ BusinessPersisted(t)
           \/ SubmitDecision(t) \/ ApprovalRecorded(t) \/ SignOff(t)
           \/ RefuseSignOff(t) \/ ReportsCreated(t) \/ ReportPersisted(t)
           \/ DecisionPersisted(t) \/ DagDeployed(t) \/ RulesInserted(t)
           \/ ProcedureAnswered(t) \/ SQLPersisted(t)
           \/ Execute(t) \/ ExecutionReady(t) \/ ExecutionDone(t)
    PROVE  /\ UNCHANGED <<ruleSet, ruleVersion, inactive, versions>>
           /\ pc'[t] \notin {"business_llm", "sql_claude"}
<1>p. pc \in [Tasks -> SuspensionPoints]
  BY DEF TypeOK
<1> USE <1>p DEF session, rules, Suspend, Persist, Return
<1>1. CASE \/ StartDiscovery(t) \/ WorkflowStarted(t) \/ DiscoveryPersisted(t)
           \/ MetadataDiscovered(t) \/ SessionRegistered(t)
  BY <1>1 DEF StartDiscovery, WorkflowStarted, DiscoveryPersisted, MetadataDiscovered,
              SessionRegistered
<1>2. CASE BusinessRulesFailed(t) \/ BusinessPersisted(t)
  BY <1>2 DEF BusinessRulesFailed, BusinessPersisted
<1>3. CASE SubmitDecision(t) \/ ApprovalRecorded(t) \/ SignOff(t) \/ RefuseSignOff(t)
  BY <1>3 DEF SubmitDecision, ApprovalRecorded, SignOff, RefuseSignOff
<1>4. CASE ReportsCreated(t) \/ ReportPersisted(t) \/ DecisionPersisted(t) \/ DagDeployed(t)
  BY <1>4 DEF ReportsCreated, ReportPersisted, DecisionPersisted, DagDeployed
<1>5. CASE RulesInserted(t) \/ ProcedureAnswered(t) \/ SQLPersisted(t)
  BY <1>5 DEF RulesInserted, ProcedureAnswered, SQLPersisted
<1>6. CASE Execute(t) \/ ExecutionReady(t) \/ ExecutionDone(t)
  BY <1>6 DEF Execute, ExecutionReady, ExecutionDone
<1> QED BY <1>1, <1>2, <1>3, <1>4, <1>5, <1>6

\* A step that leaves the rules alone, and captures them as they are.
LEMMA SnapshotKept ==
    ASSUME OneAtATime, SnapshotInv, NEW t \in Tasks,
           UNCHANGED <<ruleSet, ruleVersion, inactive, versions>>,
           pc'[t] = "business_llm" => local'[t].version = ruleSet.version,
           pc'[t] = "sql_claude" => local'[t].snapshot = Active(AllRules(ruleSet))
    PROVE  SnapshotInv' /\ RulesStay
<1>1. \A u \in Tasks : u = t
  BY Alone
<1>2. VersionsAgree' /\ Active(AllRules(ruleSet))' = Active(AllRules(ruleSet))
  BY DEF SnapshotInv, VersionsAgree, AllRules, Active
<1>3. (ruleSet.version <= versions)'
  BY DEF SnapshotInv
<1>4. RulesStay
  BY DEF RulesStay, Active
<1> QED BY <1>1, <1>2, <1>3, <1>4 DEF SnapshotInv

\* The business stage captures the version of the set it adds to.
LEMMA EnterBusinessSnapshot ==
    ASSUME OneAtATime, TypeOK, SnapshotInv, NEW t \in Tasks, EnterBusiness(t)
    PROVE  SnapshotInv' /\ RulesStay
<1> DEFINE l == [NoLocal EXCEPT !.version = ruleSet.version, !.tables = metadata]
<1>1. l.version = ruleSet.version
  BY DEF NoLocal
<1>2. UNCHANGED <<ruleSet, ruleVersion, inactive, versions>>
  BY DEF EnterBusiness, rules
<1>3. \/ Return(t) \/ Persist(t, "business_insert", NoLocal)
      \/ Suspend(t, "business_llm", l)
  BY DEF EnterBusiness
<1> HIDE DEF l
<1>4. /\ pc'[t] = "business_llm" => local'[t].version = ruleSet.version
      /\ pc'[t] # "sql_claude"
  BY <1>1, <1>3 DEF Suspend, Persist, Return, TypeOK
<1> QED BY <1>2, <1>4, SnapshotKept

\* Rules are added to a set with the version of the set, or a set of new rules
\* takes its place under a new version.
LEMMA AddedSnapshot ==
    ASSUME OneAtATime, TypeOK, SnapshotInv, NEW t \in Tasks,
           \/ \E business \in BOOLEAN : GenerateTechnical(t, business)
           \/ BusinessRulesInferred(t) \/ AddCustomRule(t)
    PROVE  SnapshotInv' /\ RulesStay
<1>a. \A u \in Tasks : u = t
  BY Alone
<1>r. AllRules(ruleSet) \subseteq Rules /\ ruleSet.version \in Nat /\ versions \in Nat
  BY RuleSetsType DEF TypeOK
<1>1. ASSUME NEW business \in BOOLEAN, GenerateTechnical(t, business)
      PROVE  SnapshotInv' /\ RulesStay
  <2>1. pc'[t] = "technical_insert" /\ versions' = versions + 1 /\ UNCHANGED inactive
    BY <1>1, Goes DEF GenerateTechnical
  <2>2. ASSUME NEW new \in SUBSET Fresh(GeneratedRules),
               ruleSet' = [EmptyRuleSet EXCEPT !.version = versions', !.technical = new],
               ruleVersion' = Stamp(new, versions')
        PROVE  SnapshotInv' /\ RulesStay
    <3>1. AllRules(ruleSet') = new /\ ruleSet'.version = versions'
      BY <2>2 DEF AllRules, EmptyRuleSet
    <3>2. new \subseteq Rules
      BY DEF Fresh, Rules
    <3>3. \A r \in new : ruleVersion'[r] = versions'
      BY <2>2, <3>2 DEF Stamp
    <3>4. VersionsAgree'
      BY <3>1, <3>3 DEF VersionsAgree
    <3>5. ruleSet'.version # ruleSet.version /\ ruleSet'.version <= versions'
      BY <1>r, <2>1, <3>1 DEF SnapshotInv
    <3> QED BY <1>a, <2>1, <3>4, <3>5 DEF SnapshotInv, RulesStay
  <2>3. CASE UNCHANGED <<ruleSet, ruleVersion>>
    <3>1. VersionsAgree' /\ ruleSet'.version <= versions' /\ RulesStay
      BY <1>r, <2>1, <2>3 DEF SnapshotInv, VersionsAgree, RulesStay, Active
    <3> QED BY <1>a, <2>1, <3>1 DEF SnapshotInv
  <2> QED BY <1>1, <2>2, <2>3 DEF GenerateTechnical
<1>2. ASSUME NEW new \in SUBSET Rules, UNCHANGED <<inactive, versions>>,
             ruleSet' = [ruleSet EXCEPT !.business = @ \cup new],
             ruleVersion' = Stamp(new, ruleSet.version)
      PROVE  VersionsAgree' /\ (ruleSet.version <= versions)' /\ RulesStay
  <2>1. AllRules(ruleSet') = AllRules(ruleSet) \cup new /\ ruleSet'.version = ruleSet.version
    BY <1>2 DEF AllRules, TypeOK
  <2>2. \A r \in AllRules(ruleSet) \cup new : ruleVersion'[r] = ruleSet.version
    BY <1>2, <1>r DEF Stamp, SnapshotInv, VersionsAgree
  <2> QED BY <1>2, <2>1, <2>2 DEF VersionsAgree, SnapshotInv, RulesStay, Active
<1>3. CASE BusinessRulesInferred(t)
  <2>1. PICK table \in local[t].tables, new \in SUBSET Fresh(GeneratedRules) :
           LET left == local[t].tables \ {table} IN
           /\ ruleSet' = [ruleSet EXCEPT !.business = @ \cup new]
           /\ ruleVersion' = Stamp(new, local[t].version)
           /\ \/ left = {} /\ Persist(t, "business_insert", NoLocal)
              \/ left # {} /\ Suspend(t, "business_llm", [local[t] EXCEPT !.tables = left])
    BY <1>3 DEF BusinessRulesInferred
  <2>2. new \subseteq Rules
    BY DEF Fresh, Rules
  <2>3. local[t].version = ruleSet.version /\ UNCHANGED <<inactive, versions>>
    BY <1>3 DEF BusinessRulesInferred, SnapshotInv
  <2>4. VersionsAgree' /\ (ruleSet.version <= versions)' /\ RulesStay
    BY <1>2, <2>1, <2>2, <2>3
  <2> DEFINE l == [local[t] EXCEPT !.tables = local[t].tables \ {table}]
  <2>5. l.version = local[t].version
    BY LocalOf DEF LocalType
  <2>6. Persist(t, "business_insert", NoLocal) \/ Suspend(t, "business_llm", l)
    BY <2>1
  <2> HIDE DEF l
  <2>7. /\ pc'[t] = "business_llm" => local'[t].version = ruleSet.version
        /\ pc'[t] # "sql_claude"
    BY <2>3, <2>5, <2>6 DEF Suspend, Persist, TypeOK
  <2>8. ruleSet'.version = ruleSet.version
    BY <2>1 DEF TypeOK
  <2> QED BY <1>a, <2>4, <2>7, <2>8 DEF SnapshotInv
<1>4. CASE AddCustomRule(t)
  <2>1. PICK r \in Fresh(CustomRules) :
           /\ ruleSet' = [ruleSet EXCEPT !.business = @ \cup {r}]
           /\ ruleVersion' = Stamp({r}, ruleSet.version)
    BY <1>4 DEF AddCustomRule
  <2>2. {r} \subseteq Rules
    BY DEF Fresh, Rules
  <2>3. VersionsAgree' /\ (ruleSet.version <= versions)' /\ RulesStay
    BY <1>2, <1>4, <2>1, <2>2 DEF AddCustomRule
  <2>4. pc'[t] = "idle"
    BY <1>4 DEF AddCustomRule, Request, Busy
  <2> QED BY <1>a, <2>3, <2>4 DEF SnapshotInv
<1> QED BY <1>1, <1>3, <1>4

\* A set that is stored holds rules of the set it replaces, and all that are active.
LEMMA StoredSnapshot ==
    ASSUME OneAtATime, TypeOK, SnapshotInv, NEW t \in Tasks,
           NEW S \in SUBSET AllRules(ruleSet), UNCHANGED <<ruleVersion, versions>>,
           ruleSet' = [ruleSet EXCEPT !.technical = {}, !.business = {}, !.rules = S],
           Active(AllRules(ruleSet)) \subseteq S \cup inactive',
           pc'[t] \notin {"business_llm", "sql_claude"}
    PROVE  SnapshotInv' /\ RulesStay
<1>1. \A u \in Tasks : u = t
  BY Alone
<1>2. AllRules(ruleSet') = S /\ ruleSet'.version = ruleSet.version
  BY DEF AllRules, TypeOK
<1>3. VersionsAgree' /\ (ruleSet.version <= versions)' /\ RulesStay
  BY <1>2 DEF VersionsAgree, SnapshotInv, RulesStay
<1> QED BY <1>1, <1>3 DEF SnapshotInv

\* The SQL generation captures the active rules, and stores them at once or
\* when Claude has answered for all of them.
LEMMA StartSQLSnapshot ==
    ASSUME OneAtATime, TypeOK, SnapshotInv, NEW t \in Tasks, NEW l \in LocalType,
           StartSQLGeneration(t, l), UNCHANGED <<ruleVersion, versions, inactive>>
    PROVE  SnapshotInv' /\ RulesStay
<1> DEFINE snapshot == Active(AllRules(ruleSet))
           claude == snapshot \ (Supported \cup CustomRules)
           now == [l EXCEPT !.snapshot = snapshot, !.claude = claude]
<1>1. now.snapshot = snapshot
  BY DEF LocalType
<1>2. StoreRules(t, now) \/ (Suspend(t, "sql_claude", now) /\ UNCHANGED ruleSet)
  BY DEF StartSQLGeneration
<1>3. snapshot \in SUBSET AllRules(ruleSet)
  BY DEF Active
<1> HIDE DEF now, snapshot
<1>4. CASE StoreRules(t, now)
  <2>1. pc'[t] = "rules_insert"
    BY <1>4, Goes DEF StoreRules
  <2>2. ruleSet' = [ruleSet EXCEPT !.technical = {}, !.business = {}, !.rules = snapshot]
    BY <1>1, <1>4 DEF StoreRules
  <2>3. Active(AllRules(ruleSet)) \subseteq snapshot \cup inactive'
    BY DEF snapshot
  <2>4. pc'[t] \notin {"business_llm", "sql_claude"}
    BY <2>1
  <2> QED BY <1>3, <2>2, <2>3, <2>4, StoredSnapshot
<1>5. CASE Suspend(t, "sql_claude", now) /\ UNCHANGED ruleSet
  <2>1. pc'[t] = "sql_claude" /\ local'[t].snapshot = Active(AllRules(ruleSet))
    BY <1>1, <1>5, Goes DEF snapshot
  <2> QED BY <1>5, <2>1, SnapshotKept
<1> QED BY <1>2, <1>4, <1>5

\* Rules move between the lists: no active one is left behind.
LEMMA MovedSnapshot ==
    ASSUME OneAtATime, TypeOK, SnapshotInv, NEW t \in Tasks,
           RequestSQL(t) \/ SQLInferred(t) \/ ApproveRules(t) \/ RefuseRules(t)
    PROVE  SnapshotInv' /\ RulesStay
<1>1. CASE RequestSQL(t)
  <2>1. CASE StartSQLGeneration(t, NoLocal)
    BY <1>1, <2>1, NoLocalType, StartSQLSnapshot DEF RequestSQL
  <2>2. CASE UNCHANGED <<ruleSet, pc, local>>
    <3>1. pc'[t] = "idle" /\ UNCHANGED <<ruleSet, ruleVersion, inactive, versions>>
      BY <1>1, <2>2 DEF RequestSQL, Request, Busy
    <3> QED BY <3>1, SnapshotKept
  <2> QED BY <1>1, <2>1, <2>2 DEF RequestSQL
<1>2. CASE SQLInferred(t)
  <2> DEFINE now(r) == [local[t] EXCEPT !.claude = @ \ {r}]
  <2>1. PICK r \in local[t].claude :
           \/ StoreRules(t, now(r))
           \/ Suspend(t, "sql_claude", now(r)) /\ UNCHANGED ruleSet
    BY <1>2 DEF SQLInferred
  <2>2. now(r).snapshot = local[t].snapshot
    BY LocalOf DEF LocalType
  <2>3. /\ local[t].snapshot = Active(AllRules(ruleSet))
        /\ UNCHANGED <<ruleVersion, versions, inactive>>
    BY <1>2 DEF SQLInferred, SnapshotInv
  <2> HIDE DEF now
  <2>4. CASE StoreRules(t, now(r))
    <3>1. pc'[t] \notin {"business_llm", "sql_claude"}
      BY <2>4 DEF StoreRules, Suspend, TypeOK
    <3>2. /\ ruleSet' = [ruleSet EXCEPT !.technical = {}, !.business = {},
                                        !.rules = local[t].snapshot]
          /\ local[t].snapshot \in SUBSET AllRules(ruleSet)
      BY <2>2, <2>3, <2>4 DEF StoreRules, Active
    <3> QED BY <2>3, <3>1, <3>2, StoredSnapshot
  <2>5. CASE Suspend(t, "sql_claude", now(r)) /\ UNCHANGED ruleSet
    <3>1. pc'[t] = "sql_claude" /\ local'[t].snapshot = Active(AllRules(ruleSet))
      BY <2>2, <2>3, <2>5, Goes
    <3> QED BY <2>3, <2>5, <3>1, SnapshotKept
  <2> QED BY <2>1, <2>4, <2>5
<1>3. CASE ApproveRules(t)
  <2> DEFINE now == [NoLocal EXCEPT !.approving = TRUE]
  <2>1. now \in LocalType
    BY NoLocalType DEF LocalType
  <2>2. UNCHANGED <<ruleVersion, versions, inactive>>
    BY <1>3 DEF ApproveRules
  <2> HIDE DEF now
  <2>3. CASE StartSQLGeneration(t, now)
    BY <2>1, <2>2, <2>3, StartSQLSnapshot
  <2>4. CASE Persist(t, "decision_insert", now) /\ UNCHANGED ruleSet
    <3>1. pc'[t] = "decision_insert"
      BY <2>4, Goes
    <3> QED BY <2>2, <2>4, <3>1, SnapshotKept
  <2> QED BY <1>3, <2>3, <2>4 DEF ApproveRules, now
<1>4. CASE RefuseRules(t)
  <2>1. UNCHANGED <<ruleVersion, versions>> /\ pc'[t] \in {"idle", "decision_insert"}
    BY <1>4, Goes DEF RefuseRules
  <2>2. CASE UNCHANGED <<ruleSet, inactive>>
    BY <2>1, <2>2, SnapshotKept
  <2>3. ASSUME NEW off \in SUBSET AllRules(ruleSet),
               inactive' = (inactive \ AllRules(ruleSet)) \cup off,
               UNCHANGED ruleSet
        PROVE  SnapshotInv' /\ RulesStay
    <3>1. VersionsAgree' /\ (ruleSet.version <= versions)' /\ RulesStay
      BY <2>1, <2>3 DEF SnapshotInv, VersionsAgree, RulesStay, Active
    <3> QED BY <2>1, <3>1, Alone DEF SnapshotInv
  <2>4. ASSUME NEW off \in SUBSET AllRules(ruleSet),
               inactive' = (inactive \ AllRules(ruleSet)) \cup off,
               ruleSet' = [ruleSet EXCEPT !.technical = {}, !.business = {},
                                          !.rules = AllRules(ruleSet) \ off]
        PROVE  SnapshotInv' /\ RulesStay
    <3> DEFINE left == AllRules(ruleSet) \ off
    <3>1. left \in SUBSET AllRules(ruleSet)
      OBVIOUS
    <3>2. ruleSet' = [ruleSet EXCEPT !.technical = {}, !.business = {}, !.rules = left]
      BY <2>4
    <3>3. Active(AllRules(ruleSet)) \subseteq left \cup inactive'
      BY <2>4 DEF Active
    <3>4. pc'[t] \notin {"business_llm", "sql_claude"}
      BY <2>1
    <3> HIDE DEF left
    <3> QED BY <2>1, <3>1, <3>2, <3>3, <3>4, StoredSnapshot
  <2> QED BY <1>4, <2>2, <2>3, <2>4 DEF RefuseRules
<1> QED BY <1>1, <1>2, <1>3, <1>4

\* Every step keeps SnapshotInv, and every active rule of a set that is not
\* regenerated.
LEMMA SnapshotInvStep ==
    ASSUME OneAtATime, TypeOK, SnapshotInv, [Next]_vars
    PROVE  SnapshotInv' /\ RulesStay
<1>1. CASE UNCHANGED vars
  BY <1>1 DEF vars, session, rules, SnapshotInv, VersionsAgree, AllRules, Active, RulesStay
<1>2. CASE Crash
  <2>1. \A t \in Tasks : pc'[t] = "idle"
    BY <1>2 DEF Crash
  <2>2. UNCHANGED <<ruleSet, ruleVersion, inactive, versions>>
    BY <1>2 DEF Crash, rules
  <2>3. VersionsAgree' /\ (ruleSet.version <= versions)' /\ RulesStay
    BY <2>2 DEF SnapshotInv, VersionsAgree, RulesStay, Active
  <2> QED BY <2>1, <2>3 DEF SnapshotInv
<1>4. CASE DDLLands
  BY <1>4 DEF DDLLands, session, rules, SnapshotInv, VersionsAgree, AllRules, Active, RulesStay
<1>3. ASSUME NEW t \in Tasks, Arrive(t) \/ Resume(t) PROVE SnapshotInv' /\ RulesStay
  <2>1. CASE Refused(t)
    BY <1>1, <2>1 DEF Refused
  <2>2. CASE SetActive(t)
    <3>1. UNCHANGED <<ruleSet, ruleVersion, versions, pc>> /\ pc[t] = "idle"
      BY <2>2 DEF SetActive, Request, Busy
    <3>2. PICK r : inactive' \in {inactive \cup {r}, inactive \ {r}}
      BY <2>2 DEF SetActive
    <3>3. VersionsAgree' /\ (ruleSet.version <= versions)' /\ RulesStay
      BY <3>1, <3>2 DEF SnapshotInv, VersionsAgree, RulesStay, Active
    <3> QED BY <3>1, <3>3, Alone DEF SnapshotInv
  <2>3. CASE TechnicalPersisted(t) \/ GenerateBusiness(t)
    <3>1. CASE EnterBusiness(t)
      BY <3>1, EnterBusinessSnapshot
    <3>2. CASE Return(t) /\ UNCHANGED <<session, warehouse, history>>
      BY <3>2, Goes, SnapshotKept DEF session, rules
    <3> QED BY <2>3, <3>1, <3>2 DEF TechnicalPersisted, GenerateBusiness
  <2> QED BY <1>3, <2>1, <2>2, <2>3, RulesAlone, SnapshotKept, AddedSnapshot, MovedSnapshot
          DEF Arrive, Resume
<1> QED BY <1>1, <1>2, <1>3, <1>4 DEF Next

\* What the two theorems rest on, in every state of a session whose client waits.
LEMMA SnapshotInvariant == ASSUME OneAtATime PROVE Spec => []SnapshotInv
<1>1. Init => SnapshotInv
  BY DEF Init, SnapshotInv, VersionsAgree, AllRules, EmptyRuleSet
<1>2. TypeOK /\ SnapshotInv /\ [Next]_vars => SnapshotInv'
  BY SnapshotInvStep
<1> QED BY <1>1, <1>2, TypeCorrect, PTL DEF Spec

\* With one request at a time, every rule carries the version of the rule set
\* it is in, the key of its row in dq_rule_config.
THEOREM VersionsAlwaysAgree == ASSUME OneAtATime PROVE Spec => []VersionsAgree
<1>1. SnapshotInv => VersionsAgree
  BY DEF SnapshotInv
<1> QED BY <1>1, SnapshotInvariant, PTL

\* With one request at a time, only a regeneration removes rules that nobody
\* deactivated.
THEOREM ActiveRulesStay == ASSUME OneAtATime PROVE Spec => NoActiveRuleLost
<1>1. TypeOK /\ SnapshotInv /\ [Next]_vars =>
        [ruleSet'.version = ruleSet.version
           => Active(AllRules(ruleSet)) \subseteq AllRules(ruleSet') \cup inactive']_vars
  BY SnapshotInvStep DEF RulesStay
<1> QED BY <1>1, SnapshotInvariant, TypeCorrect, PTL DEF Spec, NoActiveRuleLost
=============================================================================
