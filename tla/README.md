# Verification of the agentic data-quality platform

TLA+ specifications of the data-quality (DQ) platform in this repository, the
TLC runs that check them on small instances, and theorems about them checked by
TLAPS. Paths below are relative to the repository root.

## 1. The system

### 1.1 Components, their state, their operations

| Component (source) | State it keeps | Operations that change it |
|---|---|---|
| Session workflow: `agents/orchestrator/agent.py`, `schemas/models.py` | the `WorkflowState` object of a session: stage, two approval statuses, metadata, rule set, procedure name, completion time | one `run_stage_*` per stage, `process_approval_1/2`, `_persist_state` after most of them |
| REST routers: `api/routers/{discovery,rules,sql,approvals}.py` | the module dictionary `_sessions` | `POST /discovery/start`, `/rules/generate`, `/rules/add-custom`, `PUT`/`DELETE /rules/{id}`, `POST /approvals/submit`, `/sql/generate`, `/sql/rebuild-sp`, `/sql/execute` |
| Approval agent: `agents/approval_agent/agent.py` | rows of `dq_audit_log` | two audit rows per decision, rule modifications, query for the newest decision |
| Rule agents: `agents/{technical_dq_agent,business_dq_agent}` | none | rules from profiles (templates) and from Claude, stamped with a rule set version |
| SQL agent and generator: `agents/sql_generation_agent`, `tools/sql_tools` | the procedure in BigQuery, `dq_rule_config` rows | render each rule, ask Claude for the others, insert the rule rows, `CREATE OR REPLACE PROCEDURE` |
| Execution: `agents/validation_agent`, `tools/bigquery/{execution,client}.py` | rows of `dq_results` | one `CALL`, or one `INSERT` per rule under a semaphore of ten, error rows, the run summary |
| Results for people: `schemas/bq_schemas.py` (views), `api/routers/reporting.py`, the checkpoint 2 review in `api/routers/approvals.py` | none (queries over `dq_results`) | read only |
| Composer and Airflow: `tools/airflow` | a DAG per session, and the runs of it | upload, trigger, pause; the generated DAG validates, alerts and pauses ingestion |
| Claude access: `agents/base.py` | token log | retries, fallback to other models, extraction of JSON |
| Alerting, monitoring, reporting agents | none | messages, recommendations, views |
| LangGraph workflow: `workflows/dq_workflow.py` | a graph state of its own | a second driver of the same stages that nothing calls; it ends at the first approval |
| Console: `ui/app.py` (Streamlit) | the state of a browser session | a client of the REST API whose pages offer some requests in some states |

### 1.2 How they interact

Every handler is a coroutine of one asyncio event loop. All handlers of a session
mutate **one `WorkflowState` object by reference**; there is no lock. Between two
suspension points (an awaited BigQuery, Claude or Composer call) a handler is
atomic; at a suspension point any other request of the same session may run.
`_persist_state` builds its row before it awaits the insert, so rows may reach
`dq_workflow_state` late and out of order, and its failures are logged and
forgotten. BigQuery, Claude and Composer may refuse a call, or apply it and lose the
answer; BigQuery may also finish a statement after the client has given up on it.
The process may die: `_sessions` is memory only, and what is in flight may still land.

People reach the API through consoles, each with a picture of the session that is as old as its
last fetch. Sessions about one table share a DAG in Composer, whose runs pause the table's
ingestion.

### 1.3 What is hard

* check-then-act across awaits: an approval that is checked once, before a chain of
  Claude and BigQuery calls that ends in a deployment;
* snapshots written back over newer state (`active_rules` over the rule set);
* rows and audit entries that take effect in another order than they were made;
* failures that are swallowed in the middle of a request that answers "success";
* answers that are lost after the effect, and statements that outlive their client;
* a crash at any await;
* a client that gives up after 300 seconds, or on the next click, and tries again;
* tasks and requests that are retried after they took effect;
* answers of a model that are cut, wrapped in words or of another shape than asked for;
* queries over `dq_results` that several runs and sessions write to.

`PROJECT.json` lists each hazard at its line with the properties that watch it.

### 1.4 What makes each component correct

* *Session*: nothing is deployed before checkpoint 1 was approved, nothing is
  complete before checkpoint 2 was; decisions in force are the ones in the tables;
  no acknowledged rule disappears; no rule is listed twice; every request ends.
* *Execution*: every selected rule is counted exactly once, the summary is that of
  its own run and stays true, failures are alerted, failing rules release their slot.
* *Results for people*: what a view or a review shows belongs to the run and session
  it claims to show.
* *Rules and verdicts*: a rule that passes means what its description says, a lost table
  is noticed, good rows never turn a verdict bad nor bad rows a verdict good.
* *Console*: who uses only consoles decides in order and runs nothing unapproved.
* *Composer*: the answer tells what Airflow got; ingestion is paused after a critical failure,
  and for no other reason.
* *Claude access*: what is answered as asked is understood, what is cut yields nothing, one table's
  failure costs no other its rules, every use ends.

| Section | Module | Composed of, or refines |
|---|---|---|
| 2 | `DQSession` | implements `ApprovalGates` |
| 3 | `Console` | `DQSession` and its users |
| 4 | `RunExecution` | an execution of `DQSession`, statement by statement |
| 5 | `Ingestion` | implements `IngestionGuard` |
| 6 | `TableRules` | the verdicts that `RunExecution` and `Ingestion` take as any |
| 7 | `ClaudeAnswers` | `JsonAnswers` and its callers |

## 2. The session: `DQSession`

### 2.1 Correspondence with the code

A step of the module is everything a handler does between two suspension points.
`Tasks` are slots for requests in flight; `pc[t]` names the await a request is
suspended at, `local[t]` holds the variables it still needs after it.

| Variables | Code |
|---|---|
| `phase` | whether the session is in `_sessions` (`open`), being created, or lost with the process |
| `stage`, `approval`, `metadata`, `spName`, `completed` | fields of `WorkflowState` |
| `ruleSet` | the three lists of `DQRuleSet` and its `rule_set_version_id` |
| `inactive`, `hasSQL`, `ruleVersion` | `is_active`, `generated_sql`, `rule_set_version_id` of each `DQRule` |
| `procedure` | the rules of the consolidated procedure BigQuery holds for the session |
| `audit`, `stateRow` | the newest row per checkpoint of `dq_audit_log`, the last row of `dq_workflow_state` |
| `late` | procedures whose deployment the client has given up, and which BigQuery may still create |
| `dag`, `executed` | a DAG was deployed and triggered; rules whose SQL BigQuery ran |
| `granted` | history only: which checkpoints were ever approved |

`Arrive` is what clients may send, `Resume` how a handler goes on when its call
has ended; the comment above each action names the method. Data is abstract: rules
and tables are model values, SQL is present or absent, versions and times are
numbers in order of creation.

`Faults` switches on what may go wrong: a swallowed failure of a streaming insert, an agent that
raises, a Claude answer without SQL, a refused `CREATE PROCEDURE`, one whose answer is
lost, or one that is applied after `execute_ddl` has given up (300 s), malformed modifications, a failing Composer, a failing execution, and a crash of the
process. In a crash, each call in flight may or may not still be carried out. `DDLLands` is a step of
BigQuery's own: it creates one of the procedures in `late`, at any time or never, whatever was decided or
deployed since, and with or without a session.

Identities of rules are unique in the model. The code draws them at random, except
that Claude may propose a `rule_id` (`business_dq_agent/agent.py:442`); two
rules with one identity are outside the model.

### 2.2 The abstract specification: `ApprovalGates`

What ADR-005 promises, seen from outside: a set of granted checkpoints that only grows, a
procedure that is deployed only behind the first one and never dropped, and a
sign-off only behind the second one. `DQSession` implements it with
`deployed <- procedure`, `signedOff <- completed` (property `KeepsGates`).

### 2.3 Runs

| Run | Question | Instance and why it is enough |
|---|---|---|
| `session_sequential` | Is a session correct when its client waits for every answer? | one task; two generated rules, one of them not renderable, and a custom rule; two rule set versions, so that regeneration after an approval happens; clock bound 4: each decision takes two ticks (its two audit rows), so that two decisions fit and the second can take back the first; failing discovery, agents, Claude and DDL, the late DDL included; 1.8 million states |
| `session_concurrent` | What survives overlapping requests? | two tasks (every atomicity hazard listed is between two requests), one generated and one custom rule, three clock ticks, refused, lost and late deployments, a crash at any point; 860 000 states |
| `session_faults` | Does anything go wrong under all faults together, and does every request end? | two tasks, two tables (so that the loop over tables has two rounds), one decision, every fault; 240 000 states |
| `deploy_while_approved` | Does a rejection stop a deployment under way? | violated: two tasks |

The properties of the first three runs:

* `TypeOK`; `VersionsAgree`: every rule of a set carries the version of the set;
  `DecisionsDurable`, `AuditAgrees`: between requests the last state row and the newest
  audit rows show the decisions in force; `DeployOnlyWhileApproved`: no handler deploys
  against the decision in force (what BigQuery creates after its handler has given up is excepted, see 2.4);
  `NoActiveRuleLost`. These hold for one request at a time
  (and, for the tables, when no insert fails), not when requests overlap: see 2.4.
* `NamedProcedureExists`, `NoRuleTwice`, `KeepsGates`: what holds in spite of overlapping
  requests. `ProcedureNeedsApproval` and `CompleteNeedsSignOff`, which follow from
  `KeepsGates`, are proved (2.5) and not run.
* `RowsNeverAhead`: a reader of `dq_workflow_state` never sees an approval or a completion
  that was not granted; `AutomationNeedsApproval`: before checkpoint 1 was approved no DAG is
  deployed and only SQL that a client wrote into a custom rule is executed;
  `RequestsReturn`: every request is answered, or is an execution that waits for its statements and its mail.

Symmetry: `session_concurrent` permutes `Tasks` only. No action and no property
distinguishes one task from another, and no liveness property is checked under symmetry.

Deadlock is checked in every run: `Refused` is always possible for a free slot when the
session is not open, so that a state without successor would be a handler that hangs.

**Fairness.** `FairSpec` assumes weak fairness of `Resume(t)` for each task, except at `execute_run`: the
BigQuery and Anthropic clients and the HTTP client of Composer have timeouts, so every call awaited
elsewhere ends, and the event loop resumes a coroutine whose call has ended. An execution also awaits
its mail, and `smtplib.SMTP` (`tools/alerts/email.py:123`) has no timeout; section 4 looks into it. Nothing is
assumed about clients (`Arrive`), crashes or `DDLLands`.

### 2.4 What the code does not guarantee

* A `REJECTED` decision answered with "Workflow halted." during SQL generation does not stop the
  deployment (`deploy_while_approved`). Likewise a sign-off that is taken back while the reports are
  made still completes the session.
* Waiting for every answer does not help against a late DDL: `execute_ddl` gives up after 300 s, the request is
  answered with an error on record, its client rejects the rules, and BigQuery then creates the procedure. It
  may also replace a procedure deployed later. `DeployOnlyWhileApproved` excepts exactly this step.
* A custom rule acknowledged during SQL generation is dropped when the snapshot is
  written back (`NoActiveRuleLost` fails as soon as `session_sequential` gets two tasks).
* Over the API checkpoint 2 can be approved without checkpoint 1, and completes the session. ADR-005
  speaks of the two gates, not of their order; section 3 shows what the console adds.
* The approval of a rule set survives its regeneration and later additions, and the
  next rebuild deploys rules nobody reviewed.
* Seen in the model, without a run of their own: a rebuild with no active rule answers
  "rebuilt" and keeps the old procedure; when the DDL is refused, the DAG that is deployed
  next calls a procedure that does not exist; business generation without a rule set
  changes the stage and persists nothing; no session is read back after a restart,
  although ADR-003 says it can be resumed; two overlapping decisions may take effect in one
  order and be audited in the other.

### 2.5 Proofs

The theorems of the first six rows hold for every set of tasks, rules and tables, every bound and every set
of faults, under the single assumption `SessionAssumption` (generated and custom rules
are different, the bounds are natural numbers, `Requests` and `Faults` are drawn from the
kinds the module defines). The others have hypotheses besides: `OneAtATime`, that there is one task, the
client waiting for every answer; and for two of them that some faults do not happen.

| Theorem | Module | Argument |
|---|---|---|
| `TypeCorrect` | `DQSession_proofs` | `TypeOK` is inductive; one lemma per group of actions |
| `ProcedureGated`, `CompletionGated`, `NameBacked` | `DQSession_proofs` | `GateInv` below is inductive relative to `TypeOK` |
| `GatesImplemented` | `DQSession_proofs` | under `GateInv` every step is `Grant`, `Deploy`, `Finish` or a stutter of `ApprovalGates` |
| `RulesDistinct` | `DQSessionRules_proofs` | `RulesInv` below is inductive relative to `TypeOK` |
| `RowsTruthful` | `DQSessionRecords_proofs` | `RowsInv` is inductive relative to `TypeOK` and `GateInv` |
| `AutomationGated` | `DQSessionRecords_proofs` | `AutoInv` is inductive relative to `TypeOK` and `GateInv` |
| `DeploysOnlyWhileApproved` | `DQSession_proofs` | `OneAtATime`; `DeployInv`: a handler on its way to a deployment finds checkpoint 1 still approved; the one other step that changes the procedure is `DDLLands`, which the property excepts |
| `VersionsAlwaysAgree`, `ActiveRulesStay` | `DQSessionRules_proofs` | `OneAtATime`; `SnapshotInv`: what a handler took of the rule set before an await is still so after it |
| `DecisionsRecorded` | `DQSessionRecords_proofs` | `OneAtATime`, no failing insert, no malformed modification; `DurableInv`: the row in flight, or else the newest one of the table, shows what is in force |
| `AuditLogAgrees` | `DQSessionRecords_proofs` | `OneAtATime`, no failing insert; `AuditInv`: only the checkpoint that is being decided may be ahead in the log |

`GateInv` is needed because the gate properties alone are not inductive: a handler that
waits at `sql_claude`, `rules_insert` or `sql_ddl` has passed the gate some steps
ago, and nothing in `approval` shows it any more if another request has refused
since. `GateInv` therefore says that such a handler implies `1 \in granted`, that a
procedure about to be created is not empty, that a handler in `reporting` implies
`2 \in granted`, and that a deployment given up, which may still take effect, implies `1 \in granted` as well. `RulesInv` adds to the disjointness of the three lists what keeps it:
rules are stamped before they are listed, so that fresh identities are in no list
and in no snapshot.

`RowsNeverAhead` is about the rows in the table, and they arrive late: `RowsInv` says the same of
every row a handler has built and not yet inserted. `AutoInv` says of the time before the first
grant that only custom rules have SQL, that no handler carries rules of another kind as runnable,
and that none is past a gate.

The last four rows are what `session_sequential` checks. Under `OneAtATime` each of their invariants relates
the handler's local variables to the session: what it captured before an await is unchanged when it
goes on, because nobody else could change it. That is the step that fails with two tasks (2.4). Crashes and all
other faults are included. The excluded faults are necessary: a swallowed failure of an insert leaves the
newest row behind, and a malformed modification raises after the decision was audited and taken, before it is
persisted (`AuditLogAgrees` holds with it, `DecisionsRecorded` does not). For the timestamps `AuditInv` says
that a decision under way is later than the whole log; decisions of the same time would not be ordered.

Model-checked only: liveness (`RequestsReturn`).

## 3. The console: `Console`

`Console` composes `DQSession` with the people who use it through `ui/app.py`: each request of a
console is an action of `DQSession`, and the server and BigQuery go on as they do there (`Server`).

### 3.1 Correspondence with the code

Streamlit runs the page's script from its top on every click: the script fetches what it shows,
and sends a request only if, with what it has just fetched, it still reaches the button that was
clicked. One such run is `Look`, followed by at most one request.

| Variables and actions | Code |
|---|---|
| `flow` | `st.session_state.workflow_stage`, with the request that will change it |
| `told` | the session's id has been shown to someone, who may pass it on |
| `loaded`, `seen`; `Look` | the statuses fetched by the Approvals page in this script run, and which of them are approvals |
| `asked`; `Ask`, `Answered`, `GivesUp` | `api_post`: the request a console waits for. It is given up when 300 seconds are over, when the server is gone, or when the user clicks again and the script starts over |
| `Discover`, `Generate` | steps 1 and 2 of New Workflow |
| `Curate` | Rules Manager: confirmed rules of the chat, saved selections |
| `SubmitRules`, `Rebuild`, `ExecuteRules`, `SubmitSignOff` | the Approvals page: the form of checkpoint 1, what is offered below it once it is approved, the form of checkpoint 2 |
| `hasty` | history: somebody has given up a request |

Left out: pages that only read; sessions that a second discovery starts; requests the session
refuses; the browser's copy of the rule selection. `SubmitSignOff` may happen without results of
a run, which the page needs (see 3.3); `SetActive` with any rules, of which a console sends some.

### 3.2 Run

`console`: do people who use only the console decide in the intended order? One console, two slots for
requests, custom rules only, two rule set versions, enough clock ticks for a decision on each
checkpoint (each takes two), a crash at any point. One
console is enough for several people: it may give up any request and go on while the handler
does, so that its next request overlaps with the last one and its page is stale. Symmetric
in `Tasks`, as in `session_concurrent`; 2.1 million states.

* `SignOffInOrder`: checkpoint 2 is granted after checkpoint 1, which the API alone does not ensure.
* `NothingRunsUnapproved`: nothing is executed, and no DAG deployed, before checkpoint 1 was approved.
  Over the API, custom rules run earlier (`AutomationNeedsApproval` excepts them).
* `ReplacedAfterNoAnswer`: a rule set is only replaced when somebody has given up a request.

Deadlock is not checked: users may stop. No liveness is claimed of them.

### 3.3 What the console does not guarantee

* `/rules/generate` answers with success also when a stage has failed, and the console goes on to the
  next step without rules.
* The form of checkpoint 2 is unreachable while the results of a run cannot be fetched: its
  placeholder reads `failures`, which is only assigned when they were (`ui/app.py:1495`).
* Modifications sent with `MODIFIED` are always empty, so that the decision changes no rules. The
  model allows any.
* "Stored procedure ready" is shown as soon as checkpoint 1 is approved, whether one was created or not.
* A failing `PUT /rules/{id}` is ignored (`:1214`), "Add Rule" discards selections not saved (`:1134`),
  and saving a selection overwrites what other people changed since it was loaded.

### 3.4 Proofs

`ConsolesSignOffInOrder` (`Console_proofs`), for any number of consoles, requests, rules and tables
and all faults. `OrderInv` is inductive together with `TypeOK` and `GateInv` of the session: a
console that sees checkpoint 1 approved, a decision on checkpoint 2 in flight, and a grant of
checkpoint 2 each imply `1 \in granted`. The last alone is not inductive: between the form and the grant
the approval of checkpoint 1 may have been taken back. The session's lemmas are reused, action by action,
because every step of `Console` is a step of `DQSession` or leaves its variables alone.

`ConsolesRunApproved` rests on both: `StillInv` says that before the first grant nothing has run, nothing is
about to, and, as in `AutoInv`, no handler is past a gate; a page only offers executions where it saw an
approval, hence a grant.

`ReplacementsAreRetries` proves `ReplacedAfterNoAnswer`, with `NoAnswerInv`: as long as no answer was given up,
at most one console has left the first step, at most one version was drawn, and none while that console may
still ask for rules. `ServerDraws` shows that a handler that goes on draws no version. `ConsolesTypeCorrect`:
`ConsoleTypeOK` is inductive.

## 4. Executions: `RunExecution`

`POST /sql/execute` from its arrival to its answer. `DQSession` has executions too, but only
when they happen and which rules they run; here every statement is a step.

### 4.1 Correspondence with the code

| Variables and actions | Code |
|---|---|
| `phase`, `Execute`, `ResultsTableEnsured`, `ConfigTableEnsured` | `execute_sql` (`api/routers/sql.py`), `ensure_dq_infrastructure` and `ValidationAgent.run`; `procedure` and `runnable` are the choice between one `CALL` and the active rules with SQL |
| `CallAnswered` | the `CALL`; an exception is logged and the summary follows |
| `job`, `stamp`, `RuleStarts`, `RuleAnswered`, `ErrorRecorded`, `Gathers` | the coroutines of `execute_dq_ruleset`: the semaphore, `execute_dq_rule` with its `except`, `_insert_error_result`, `asyncio.gather` |
| `attempt`, `SummaryRead`, `SummaryMissing`, `SummaryFailed` | `get_run_summary` and the retries of `execute_query` |
| `summary`, `alert`, `NeedsAlert`, `AlertAnswered` | the answer, and `_send_dq_alert` |
| `rows` | `dq_results`; `abandoned` are statements BigQuery may still apply, `Lands` applies one |
| `TableHealth`, `ReviewRows`, `ProductionReady` | the view `v_dq_table_health` and `get_dq_results_for_review` |
| `clock`, `TimePasses` | one tick per statement, so that times of different statements differ |
| `suffered` | history: which statement of a run met which fault |

Which rows pass is not decided here: each statement returns any verdict. `TableRules`
models verdicts. The thread pool of 16 workers in the BigQuery client only delays
statements and is left out.

### 4.2 Runs

| Run | Question | Instance and why it is enough |
|---|---|---|
| `run_execution` | Is an execution counted, summarised, alerted and answered correctly under every fault? | one run with two rules, one of them critical, and one permit: a rule waits, runs, fails and is recorded while another waits; two attempts, so that the summary is retried and given up; every fault |
| `failures_alerted` | Do failures raise an alert? | violated: the `CALL` raises |
| `review_of_session` | Does the review of checkpoint 2 look at its session? | violated by two runs |

* `CountedOnce`: run rule by rule, each selected rule is counted exactly once, unless one of
  the faults `Miscounted` names hit it. An answer lost after an `INSERT` is one of
  them: the rule then has its verdict *and* an error row.
* `SummaryStaysTrue`: an acknowledged summary stays what the table says of the run.
  (`ConcurrencyRespected`, that the permit covers the error row too, is proved and not run.)
* `FailuresAlertedUnlessSilent`: an answered run with a rule that did not pass raised an
  alert, unless the `CALL` raised, an error row failed or the table was not found.
* `TableHealthWholeRun`: the view joins on equal times, so it shows a whole run exactly
  because the procedure is one `INSERT` (ADR-004).
* `RunsReturn`: every execution ends, in an answer, in a failure, or in the mail it awaits.

Several runs are composed in `review_of_session`. The invariants of `run_execution` are about
one run's rows; other runs reach them through the table alone, whose rows carry the run.
Section 4.4 proves all of them for any number of runs.

Deadlock is not checked in `run_execution`: when its run is answered, nothing is left to
do. A handler that hangs before its mail violates `RunsReturn` instead.

**Fairness.** `FairSpec` assumes weak fairness of `Resume(x)` for each run outside the phase `alert`:
`job.result` has a timeout of 300 s and the retries are bounded. In `alert` the handler awaits
`smtplib.SMTP`, opened without a timeout, so that nothing is assumed of its answer. Nothing is assumed of `Lands`: BigQuery may
never apply what its client gave up.

### 4.3 What the code does not guarantee

* A `CALL` that raises is answered as a successful run of no rules, without an alert
  (`failures_alerted`).
* A session whose run failed critically is shown as ready for production when another
  session ran within the hour before it is reviewed (`review_of_session`).
* An execution is answered only when its mail is through, and a hanging mail server holds the answer back for
  ever: "Never let alert failure block the main response" (`api/routers/sql.py`) covers exceptions only.
* Without a procedure `v_dq_table_health` shows only the rule that was run last.
* Two other views, not modelled, read more into the rows than they say: `v_dq_failed_rules`
  (`bq_schemas.py:505`) shows a failure for seven days although a later run has passed, and
  `v_dq_business_health` (`:594`) counts a row once per name a rule id has had.

### 4.4 Proofs

Under `RunAssumption` (the bounds are natural numbers, permits and attempts positive, `Critical` and
`Faults` drawn from their kinds), for every set of runs, rules and faults, by
`RunExecution_proofs`:

| Theorem | Argument |
|---|---|
| `RunTypeCorrect` | `RunInv` is inductive and contains `TypeOK` |
| `RunConcurrency` | `PermitsInv` (permits held are at most `Concurrency`) is inductive relative to `RunInv`: a step adds at most one holder, and only below the limit |
| `RunSummaryStays` | `SummaryInv` is inductive relative to `RunInv` |
| `RunCountsOnce` | `ExactInv` gives each rule selected exactly one row of its run, hence a bijection between rules and rows (`RowsOfRules`); by `SummaryInv` the totals are those of these rows |
| `RunFailuresAlerted` | `CoverInv` gives each rule a row when the summary is read, unless the run is silenced; totals without failures and errors leave only rows that passed (`NothingToAlert`) |
| `RunTableHealthWhole` | `StampInv`: rows of one time are of one run; `WholeInv`: the rows of a `CALL` have one time and cover all rules of the run, in the table and among the statements that may still land |

`RunInv` strengthens `TypeOK` by two facts. `TableInv`: `dq_results` is finite, without which its counts
are not numbers; and the rows of an abandoned statement belong to a run that has "late" on
record. `JobsInv`: once a handler has left `gather`, none of its coroutines is at work. The
second is what makes a summary final: with it, nothing but a late statement can add a row of a
run that has been summarised, and `OthersKept` shows that other runs never do.

`RuleRowsInv` then relates the coroutines of a run to its rows, rule by rule. Its part `WorkInv`
says what has not happened yet: no row, fault or coroutine before the first statement, no
coroutine when the procedure is used, and "missing" only of the summary query. Without it a late
statement could add a row to a run that has nothing on record. `TimesInv` is about the rows in the
table and those that may land together (`Written`), so that `Lands` changes nothing for it but
where rows are; a statement under way (`Active`) owns its time, because the clock moves with each.

Model-checked only: `RunsReturn`. `ReviewIsOfSession` and `FailuresAlerted` are violated (4.3).

## 5. Deployment, DAG runs and ingestion: `Ingestion`

### 5.1 Correspondence with the code

| Variables and actions | Code |
|---|---|
| `pc`, `answer`; `Approved`, `SpecStored`, `Uploaded` | `deploy_and_trigger` (`dag_orchestrator.py`), from the approval of checkpoint 1 to `composer_result` |
| `tries`, `created`, `lost`; `Triggered`, `TriggerFailed`, `TriggerGivenUp` | `trigger_dag` (`composer_client.py`) under its `@retry`; a repeated request creates another run, because Airflow draws the `run_id` |
| `uploaded`, `parsed`; `Parse` | the DAG file in the bucket, and Airflow's scheduler |
| `queued`, `scheduled`; `Scheduled`, `RunStarts`, `RunEnds` | runs of the DAG, one at a time (`max_active_runs=1`), by trigger or by schedule |
| `task`, `attempt`, `Fails`; `Called`, `CallRefused` | the tasks of the generated DAG (`dag_builder.py`) with their retries; `rows` are those of the run, under one run id for all attempts |
| `critical`, `mailed`; `AlertQueried`, `Mailed` | `send_email_alert`, its query with `LIMIT` and `_send_dq_email_alert` |
| `paused`, `stopped`; `Paused`, `Release` | `_pause_ingestion_dag`, and people who resume ingestion |
| `WorkerDies` | the alert task dies between two steps and is repeated as a whole |

The DAG's id is made of the table's name, so that all sessions about a table share it; the file is
described by whether it is there, as its contents differ in nothing the model tells apart. Runs are
anonymous and only the active one is kept. The result of `store_dag_spec` is read by nothing. A
`CALL` that lands after its run has ended is left to `RunExecution`.

`IngestionGuard` is the abstract specification: ingestion is paused only while the validation run
that came last has found a critical failure, and resumed by people only.

### 5.2 Run

`ingestion`: is ingestion stopped when it should be, and only then? Two sessions (every
collision is between two), findings of nothing, a warning, or a warning and a critical failure, a limit of two
rows (so that warnings can fill it: a lost answer of the `CALL` doubles them), two attempts of
triggers and tasks (code: three), one scheduled run, every fault. 404 000 states.

* `CriticalStopsIngestion`: a run that ended successfully with critical failures has paused ingestion,
  unless one of two swallowed failures hit it or other failures filled the limit.
* `RunFindsOnce`: retried or not, a run's rows are those of one execution, unless the answer of the
  `CALL` was lost.
* `AnswerTellsRuns`: "triggered" is answered exactly when Airflow got one run, unless an answer was lost.
* `GuardsIngestion`: all of it implements `IngestionGuard`.
* `WorkEnds`: every deployment is answered, and runs that wait are started and end, unless a mail hangs for ever.

Deadlock is not checked: when all sessions were deployed and the runs are over, nothing is left to do.

**Fairness.** Weak fairness of each deployment (the HTTP client has timeouts, the attempts a limit) and
of `RunGoesOn` (Airflow starts queued runs, and tasks have a limit of attempts) but for `Mailed`:
`smtplib.SMTP` (`dag_builder.py:129`) has no timeout, and neither the tasks nor the DAG have one. None of
`Parse`, `Scheduled` and `Release`.

### 5.3 What the code does not guarantee

* The alert reads 50 rows `ORDER BY severity DESC`. By name that is WARN, INFO, FAIL: with enough of
  the others no FAIL row is read, the run is not critical, and ingestion goes on.
* A mail server that does not answer holds up the alert task before the pause: ingestion goes on, and with
  `max_active_runs=1` every later run waits behind it.
* When the `CALL` fails for the last time, the run fails without an alert and without a pause.
* A failing query or pause is logged and the task succeeds. The e-mail says "has been PAUSED" before the
  pause is tried. The id of the ingestion DAG is guessed as `ingestion_` and the table's name.
* `approvals.py` announces "DAG uploaded to Composer" and an automatic trigger also when the deployment failed.

### 5.4 Proofs

By `Ingestion_proofs`, for all sessions, verdicts, limits and faults that satisfy
`IngestionAssumption`:

| Theorem | Argument |
|---|---|
| `IngestionTypeCorrect` | `TypeInv`: `TypeOK`, and a session has created no more runs than it has made attempts, without which `created` would have no bound |
| `AnswersTellRuns` | `AnswerInv`: a session that is not answered has created no run, unless it lost an answer |
| `RunsFindOnce` | `FindsInv`: while the `CALL` is being tried and no answer was lost, there are no rows |
| `CriticalFailuresStop`, `PausesAnnounced` | `AlertInv`: what the alert task has learned and done, step by step |
| `GuardImplemented` | with `AlertInv` every step is one of `IngestionGuard` or a stutter |

`PausesAnnounced` (who pauses ingestion has sent its e-mail, if e-mail works) is proved and not run.
Model-checked only: `WorkEnds`.

## 6. From a table to its verdicts: `TableRules`

### 6.1 Correspondence with the code

| Variables and actions | Code |
|---|---|
| `table`, `age`, `schema`, `nullable`; `Load`, `Delete`, `Alter`, `TimePasses` | the source table and everybody who writes it, at any time |
| `columns`, `rowCount`, `profile`; `ReadColumns`, `ReadRowCount`, `ProfileColumn` | separate queries of `schema_discovery.py`; a sample is any five rows that are not NULL; a failing profile is an empty one |
| `meaning`; `InferSemantics` | the `business_type` Claude infers: any, or none when the call fails |
| `rules`, `inactive`; `GenerateRules` | the templates of `TechnicalDQAgent`; `is_active` of each rule, which is named by its check because a check makes one rule at most |
| `UpdateRule` | `PUT` and `DELETE /rules/{id}`: a threshold is set, or a rule is taken out of use or back |
| `ModifyRule`, `KeepActive` | a modification sent with a decision on checkpoint 1: the same, and only active rules stay in the list |
| `procedure`; `BuildProcedure` | the active rules as they were when `build_procedure` rendered them; without any the old procedure stays |
| `withdrawn` | history: the checks of rules that left the list because they were inactive |
| `Passes`, `RateAtMost`, `Violating`, `Limit`, `Drift`, `Fresh` | the `CASE` expressions of the `_render_*` methods, with SQL's treatment of NULL and of division by zero |

`Passes(r)` is the status the query of `r` would return now. Rates are exact (the code rounds
the null rate to four digits, which differs only for tables of more than ten thousand
rows next to the bound); ages are in half hours, because the code cuts them to whole hours. Rules are generated
once; that they can be generated again is part of `DQSession`.

### 6.2 Runs

| Run | Question | Instance and why it is enough |
|---|---|---|
| `table_rules` | What does a verdict say of the table? | two values, one of them invalid, and NULL; each in 0, 1 or 120 rows, so that ratios are below 1 %, above 80 %, 95 % and 99 %, and one row decides; ages of 24½ and 25 hours, which are judged differently; two schemas; any initial table and two changes of it, enough for one between the queries of discovery and one after the deployment; one edit of a threshold or of a rule's use; 2.8 million states |
| `edited_threshold` | Is an edited threshold used? | violated |

* `PassMeansDescribed`: a passing rule means what its description says, apart from the exceptions stated in
  it: the e-mail rule, the freshness rule, and an amount or status rule whose own threshold was raised.
* `EmptiedTableFails`: a table that had rows and lost them fails its volume rule, though
  freshness and uniqueness then pass, unless somebody has taken the volume rule out of use.
* `IdentifierIsKey`: when all rules of a column that was taken for an identifier pass, it
  has no NULL and no duplicate, unless somebody has taken the uniqueness rule out of use.
* `GoodRowsNeverHurt`, `BadRowsNeverHeal`: verdicts are monotone in the rows a rule accepts
  and in the rows it objects to.

Deadlock is checked: `BuildProcedure` is possible for ever.

### 6.3 What the code does not guarantee

* The threshold of a rule whose `parameters` hold one cannot be edited (`edited_threshold`).
* Nothing keeps a reviewer from taking the volume or the uniqueness rule out of use: the next procedure is
  built without it, and an emptied table or a duplicate identifier then passes (`EmptiedTableFails` and
  `IdentifierIsKey` except just this). Until the next build the rule goes on judging, and a build without
  any active rule leaves it in the procedure for good.
* The e-mail rule states 99 % valid addresses and permits 99 % invalid ones.
* "Loaded within 24 hours" is true until the newest row is 25 hours old, and of a table
  without rows.
* A status rule knows the values of five sampled rows only and objects to the other values of the
  table it was made from; a sparse-column alert always fails on the table it was made from.
* A nullable column taken for an identifier fails with "duplicates" when it has NULLs.
* An empty table fails completeness and validity with no violating row to show.

### 6.4 Proofs

By `TableRules_proofs`, for every finite set of values, all schemas of finitely many columns, all numbers of rows,
thresholds, ages and bounds that satisfy `TableAssumption`. That values and columns are finitely many is
true of every table; without it rows could not be counted.

| Theorem | Argument |
|---|---|
| `TableInvariant`, `TableTypeCorrect` | `TInv` is inductive: the types; nothing is used before it was read (`InOrder`); what editing leaves of a rule (`AllMade`); the volume rule of a table that had rows and the uniqueness rule of an identifier are in every list and procedure, or noted as withdrawn (`NoneMissing`) |
| `PassesMeanDescribed` | check by check: a sum of zero has zero terms (`NoRows`), all rows distinct leave no duplicate and no NULL (`AllDistinct`), equal schemas show no drift (`NoDrift`) |
| `EmptiedTablesFail` | `NoneMissing`, and half of a positive number, but at least one, is more than none (`HalfAtLeast`) |
| `IdentifiersAreKeys` | `NoneMissing` and `AllDistinct` |
| `GoodRowsKeepVerdicts`, `BadRowsKeepVerdicts` | the rows split in those the rule accepts and those it objects to (`RowsSplit`); only one of the two sums grows, the other stays (`SumMono`, `SumSame`) |

What a rule counts is a sum over the values, by the `SumFunctionOnSet` of the community modules. Its
recursion is a `CHOOSE` of the function that solves it, so that the proofs first show, by induction over the
subsets of the finite set, that there is exactly one (`SumsSolve`), and derive from it what sums
do. The induction (`SetInduction`) is over a set of subsets and not over a predicate, which the
provers could not instantiate.

## 7. Claude's answers: `JsonAnswers`, `ClaudeAnswers`

### 7.1 Correspondence with the code

`JsonAnswers` has no state: `Extract` is `BaseAgent._extract_json`, with an operator for each of its
attempts (`Fenced`, `Braces`, `Brackets`); `Accept`, `Elements`, `Raises` are what callers make of the
value: rules that are elements of the list itself (`Members`), not those nested deeper. A text is a
sequence of tokens: brackets, fences, words, keys, `null`, and rules, of which only the kind matters.

| Variables and actions of `ClaudeAnswers` | Code |
|---|---|
| `caller`, `table`, `sampled`; `Begin`, `Sampled`, `NextTable`, `Finish` | the business agent's loop over tables and columns; the metadata agent, the SQL agent and the chat make one call |
| `asked`, `text`; `Answered`, `Overloaded`, `Waited`, `Refused` | `_call_claude`: the model of the settings, then the fallback models, two seconds apart; any other error is raised at once |
| `outcome`, `accepted`; `Parsed`, `Fails` | what the caller returns, drops or raises; accepted rules are named by their places in the answer's object |
| `answers`, `logging`, `usage`, `unlogged`; `Logged` | the task `_log_token_usage`, started for each answer and awaited by nobody |

Callers share nothing but the usage log, so that one of them is active at a time.

### 7.2 Run

`claude_answers`: which answers are understood, and does every use of Claude end? 128 texts: eight documents
(good, partly wrong, with something malformed nested in a rule, malformed, an array with another one in it, one cut inside a rule list, one cut behind it, one of another
kind), with words, fences or nothing before and after; two uses, so that one follows another's
leftovers; two tables; two columns; three models, of which the first is also a fallback; every fault. 144 000 states.

* `StageCoversTables`: only an answer with malformed rules keeps the stage from a table.
* `RulesUnderstood`: who answers as the prompt asks, fenced or not, has exactly the rules about existing
  columns accepted.
* `OnlyCompleteAnswers`: nothing is accepted from a cut answer.
* `SemanticsUnderstood`: an array is found among any words around it.
* `UsesEnd`: every use ends, however overloaded the models are.

`UsageTellsAnswers` (every answer is billed once, but for failed inserts) is proved and not run. Deadlock is not
checked: after the last use nothing is left to do.

**Fairness.** Weak fairness of `GoesOn` (both clients have timeouts) and of `Logged`.

### 7.3 What the code does not guarantee

* `_extract_json` promises the "first JSON object or array" (`base.py:188`). Its scan for the closing brace
  (`:212`) starts at the end of the text with depth 0 and stops at once unless the text ends with a
  brace: an object of rules followed by words is taken for the array within it, and no rule is
  accepted, silently. `RulesUnderstood` is therefore about answers without words around them.
* A malformed threshold (`business_dq_agent/agent.py:447`) or `"rules": null` (`:123`) raises outside the
  `try` and ends the stage for the tables that are left.
* The chat returns whatever it got as a success, an error object included.

### 7.4 Proofs

By `ClaudeAnswers_proofs`, for all texts, models, tables and columns that satisfy `ClaudeAssumption`:

| Theorem | Argument |
|---|---|
| `CompleteAnswersAccepted` | the lemmas `FencedIsPart`, `BracesIsPart`, `BracketsIsPart`: each attempt takes a part of the text; `ExtractedRules`: a value with rules is one of these parts and complete JSON; `IInv`: what was accepted came from such a value of the text at hand |
| `TablesCovered` | `IInv`: an exception ends a stage of rules only when the value at hand raises |
| `ClaudeTypeCorrect` | `TypeOK` is inductive; `ModelsType`: the models are finitely many and at least one |
| `ObjectsUnderstood` | `ContentExtracted`: if a text is JSON, bare or between fences, that is what `Extract` returns (the first attempt fails on fences, and the first two fences are the ones around it); `Understands`: the value at hand alone decides what is accepted |
| `ArraysUnderstood` | `ArrayExtracted`: of an array among words `Extract` returns that array, bare or wrapped; `ElementsFound`: both have its elements; `Understands` |
| `AnswersCounted` | `Logs` is inductive: each answer is logged, being logged or failed to be |

`ArrayExtracted` is where the attempts could get in each other's way: the scan for braces comes before the one for
brackets. It fails there, because of the defect that 7.3 tells: its part ends with the text, in a
word or in the array's "]", while JSON that begins with a brace ends with one (`JsonEnds`, by counting
brackets up to the last token). `UnderstandsStep` and `IInv` say that a call without an answer has
the empty text, which is no JSON.

Model-checked only: `UsesEnd`.

## 8. Plan

Left, in this order:

1. Proofs: what a session guarantees to one of several clients, where the session as a whole guarantees it only to
   one (2.5): the hypothesis `OneAtATime` weakened to requests that do not overlap with a decision.
2. The remaining views of `bq_schemas.py` as queries over the rows of `RunExecution`.
3. The browser's copy of the rule selection in `Console`, which is saved over newer state.

## 9. What is not modelled

| Part | Why |
|---|---|
| Texts of prompts, rules, SQL, messages and reports | formatting; no property depends on it |
| Integrity and consistency queries, custom SQL | their conditions are written by Claude or by a client |
| SQL validator | its verdict is logged and changes nothing |
| What a rule of Claude's says | any rule; whether it is understood is in `ClaudeAnswers`, when it appears in `DQSession` |
| LangGraph workflow | called by nothing, and its graph ends at the first approval: no node changes the status it waits for, and there is no checkpointer |
| The DAG with one task per rule | built by no endpoint; approvals deploy the consolidated one |
| `AlertingAgent`, Slack, `MonitoringAgent.run`, `persist_dq_results`, `gemini_back_up.py` | called by nothing the API reaches |
| Views other than the table health, recommendations, cost and lineage endpoints | read only |
| Authentication, error envelopes, settings, logging, infrastructure | no state of the platform |

Out of the prover's reach, and left to TLC: liveness under fairness (`RequestsReturn`, `RunsReturn`, `WorkEnds`,
`UsesEnd`). Every other property that a run finds true is also a theorem. The violated ones are of
course not. The provers know nothing of `SelectSeq` and instantiate no predicate: where the models would filter
sequences they use sets of places, and where the proofs need induction they use induction over sets.
