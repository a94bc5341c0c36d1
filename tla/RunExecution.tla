---------------------------- MODULE RunExecution ----------------------------
(***************************************************************************)
(* POST /sql/execute from its arrival to its answer: the tables are        *)
(* ensured, the rules run as one CALL of the consolidated procedure or as  *)
(* one INSERT per rule under a semaphore, the rows of the run are counted, *)
(* and an alert is sent.  Runs overlap, also those of different sessions,  *)
(* and share the dq_results table.                                         *)
(*                                                                         *)
(* Every BigQuery statement has one of four outcomes: it is applied and    *)
(* answered; refused; applied with its answer lost; or given up by the     *)
(* client (the 300 s timeout) while BigQuery may still apply it later.     *)
(***************************************************************************)
EXTENDS Integers, FiniteSets

CONSTANTS
    Runs,        \* run_ids
    NRules,      \* the rules of a rule set, numbered in list order
    Critical,    \* the rules of severity FAIL
    Concurrency, \* permits of the semaphore
    MaxAttempts, \* attempts of execute_query
    Hour,        \* ticks in the hour a review looks back
    MaxClock,    \* bound: no pause between statements starts after it
    Faults       \* the faults that happen

Rules == 1 .. NRules

FaultKinds == {"setup",   \* the dataset or a table cannot be created
               "refused", \* a statement fails and changes nothing
               "lost",    \* it is applied, its answer is lost
               "late",    \* the client gives up, it may be applied later
               "query",   \* the summary query fails
               "missing"} \* the summary query does not find the table

ASSUME RunAssumption ==
    /\ NRules \in Nat
    /\ Critical \subseteq Rules
    /\ Concurrency \in Nat \ {0}
    /\ MaxAttempts \in Nat \ {0}
    /\ Hour \in Nat
    /\ MaxClock \in Nat
    /\ Faults \subseteq FaultKinds

VARIABLES
    phase,     \* what the handler of a run awaits
    procedure, \* the run CALLs the procedure
    runnable,  \* the rules of the procedure, or the active rules with SQL
    job,       \* the coroutine of each rule
    stamp,     \* CURRENT_TIMESTAMP() of its statement
    attempt,   \* of the summary query
    summary,   \* the counts of DQRunResult
    alert,     \* what became of the alert
    rows,      \* dq_results
    abandoned, \* statements BigQuery may still apply
    clock,     \* time, one tick per statement
    suffered   \* history: the faults of each run

run == <<phase, procedure, runnable, job, stamp, attempt, summary, alert>>
table == <<rows, abandoned, suffered>>
vars == <<run, table, clock>>

Phases == {"idle", "ddl_results", "ddl_config", "rules", "call", "summary",
           "alert", "answered", "failed"}
Verdicts == {"PASS", "FAIL"}
Row == [run : Runs, rule : Rules, status : Verdicts \cup {"ERROR"}, at : Nat]
Summary == [passed : Nat, failed : Nat, errors : Nat, critical : Nat, skipped : Nat]
NoSummary == [passed |-> 0, failed |-> 0, errors |-> 0, critical |-> 0, skipped |-> 0]

TypeOK ==
    /\ phase \in [Runs -> Phases]
    /\ procedure \in [Runs -> BOOLEAN]
    /\ runnable \in [Runs -> SUBSET Rules]
    /\ job \in [Runs -> [Rules -> {"none", "waiting", "insert", "error", "done"}]]
    /\ stamp \in [Runs -> [Rules -> Nat]]
    /\ attempt \in [Runs -> 1 .. MaxAttempts]
    /\ summary \in [Runs -> Summary]
    /\ alert \in [Runs -> {"none", "sent", "not_sent"}]
    /\ rows \subseteq Row
    /\ abandoned \subseteq SUBSET Row
    /\ clock \in Nat
    /\ suffered \in [Runs -> SUBSET ({"result", "error", "call", "query"} \X FaultKinds)]

-----------------------------------------------------------------------------
(* BigQuery                                                                *)

Suffers(x, statement, fault) ==
    /\ fault \in Faults
    /\ suffered' = [suffered EXCEPT ![x] = @ \cup {<<statement, fault>>}]

\* The outcomes of an INSERT of the rows new: acknowledged, or an exception.
Insert(x, statement, new, acknowledged) ==
    \/ /\ acknowledged
       /\ rows' = rows \cup new
       /\ UNCHANGED <<abandoned, suffered>>
    \/ /\ ~acknowledged
       /\ \/ Suffers(x, statement, "refused") /\ UNCHANGED <<rows, abandoned>>
          \/ Suffers(x, statement, "lost") /\ rows' = rows \cup new /\ UNCHANGED abandoned
          \/ /\ Suffers(x, statement, "late")
             /\ abandoned' = abandoned \cup {new}
             /\ UNCHANGED rows

\* The row a rule's statement writes; its time is that of the statement.
RowOf(x, r, status) == [run |-> x, rule |-> r, status |-> status, at |-> stamp[x][r]]

\* BigQuery applies a statement its client has given up.
Lands ==
    /\ \E new \in abandoned :
         /\ rows' = rows \cup new
         /\ abandoned' = abandoned \ {new}
    /\ UNCHANGED <<run, clock, suffered>>

\* Nothing happens for more than an hour.
TimePasses ==
    /\ clock < MaxClock
    /\ clock' = clock + Hour + 1
    /\ UNCHANGED <<run, table>>

-----------------------------------------------------------------------------
(* The handler and ValidationAgent.run                                     *)

Goto(x, p) == phase' = [phase EXCEPT ![x] = p]

\* The rules selected may be any: those of the procedure when the session has
\* one, else the active ones with SQL.  The dataset is created without an await.
Execute(x) ==
    /\ phase[x] = "idle"
    /\ \E sp \in BOOLEAN, R \in SUBSET Rules :
         /\ sp => R # {}
         /\ procedure' = [procedure EXCEPT ![x] = sp]
         /\ runnable' = [runnable EXCEPT ![x] = R]
    /\ \/ Goto(x, "ddl_results")
       \/ "setup" \in Faults /\ Goto(x, "failed")
    /\ UNCHANGED <<job, stamp, attempt, summary, alert, table, clock>>

ResultsTableEnsured(x) ==
    /\ phase[x] = "ddl_results"
    /\ \/ Goto(x, "ddl_config")
       \/ "setup" \in Faults /\ Goto(x, "failed")
    /\ UNCHANGED <<procedure, runnable, job, stamp, attempt, summary, alert, table, clock>>

\* The CALL is sent, or one coroutine per rule is made.
ConfigTableEnsured(x) ==
    /\ phase[x] = "ddl_config"
    /\ \/ /\ procedure[x]
          /\ Goto(x, "call")
          /\ stamp' = [stamp EXCEPT ![x] = [r \in Rules |-> clock]]
          /\ clock' = clock + 1
          /\ UNCHANGED job
       \/ /\ ~procedure[x]
          /\ Goto(x, IF runnable[x] = {} THEN "summary" ELSE "rules")
          /\ job' = [job EXCEPT ![x] =
                       [r \in Rules |-> IF r \in runnable[x] THEN "waiting" ELSE "none"]]
          /\ UNCHANGED <<stamp, clock>>
       \/ "setup" \in Faults /\ Goto(x, "failed") /\ UNCHANGED <<job, stamp, clock>>
    /\ UNCHANGED <<procedure, runnable, attempt, summary, alert, table>>

\* Mutant: each rule of the procedure has an INSERT, and a time, of its own.
CallAnsweredByRule(x) ==
    /\ phase[x] = "call"
    /\ \E verdict \in [runnable[x] -> Verdicts], acknowledged \in BOOLEAN :
         Insert(x, "call",
                {[RowOf(x, r, verdict[r]) EXCEPT !.at = @ + r - 1] : r \in runnable[x]},
                acknowledged)
    /\ Goto(x, "summary")
    /\ UNCHANGED <<procedure, runnable, job, stamp, attempt, summary, alert, clock>>

\* The procedure is one INSERT for all rules.  If the CALL raises, that is
\* logged and the summary follows all the same.
CallAnswered(x) ==
    /\ phase[x] = "call"
    /\ \E verdict \in [runnable[x] -> Verdicts], acknowledged \in BOOLEAN :
         Insert(x, "call", {RowOf(x, r, verdict[r]) : r \in runnable[x]}, acknowledged)
    /\ Goto(x, "summary")
    /\ UNCHANGED <<procedure, runnable, job, stamp, attempt, summary, alert, clock>>

-----------------------------------------------------------------------------
(* execute_dq_ruleset                                                      *)

\* Mutant: the permit is never given back.
RunningLeaks(x) == {r \in Rules : job[x][r] \notin {"none", "waiting"}}

\* The rules whose coroutine holds a permit: until its error row is written.
Running(x) == {r \in Rules : job[x][r] \in {"insert", "error"}}

\* asyncio.Semaphore is first come, first served.
RuleStarts(x, r) ==
    /\ job[x][r] = "waiting"
    /\ \A s \in Rules : job[x][s] = "waiting" => r <= s
    /\ Cardinality(Running(x)) < Concurrency
    /\ job' = [job EXCEPT ![x][r] = "insert"]
    /\ stamp' = [stamp EXCEPT ![x][r] = clock]
    /\ clock' = clock + 1
    /\ UNCHANGED <<phase, procedure, runnable, attempt, summary, alert, table>>

\* Mutant: gather is replaced by a wait for the first coroutine.
GathersFirst(x, r) ==
    /\ job' = [job EXCEPT ![x][r] = "done"]
    /\ Goto(x, "summary")

\* The coroutine of r ends; gather waits for all of them.
Gathers(x, r) ==
    /\ job' = [job EXCEPT ![x][r] = "done"]
    /\ IF \A s \in Rules \ {r} : job[x][s] \in {"none", "done"}
       THEN Goto(x, "summary") ELSE UNCHANGED phase

\* Mutant: the error row is written in a finally clause.
RuleAnsweredFinally(x, r) ==
    /\ job[x][r] = "insert"
    /\ \E verdict \in Verdicts, acknowledged \in BOOLEAN :
         Insert(x, "result", {RowOf(x, r, verdict)}, acknowledged)
    /\ job' = [job EXCEPT ![x][r] = "error"]
    /\ stamp' = [stamp EXCEPT ![x][r] = clock]
    /\ clock' = clock + 1
    /\ UNCHANGED <<phase, procedure, runnable, attempt, summary, alert>>

\* execute_dq_rule: the INSERT of one rule is answered, or raises.  Then an
\* ERROR row is inserted, whether the first INSERT was applied or not.
RuleAnswered(x, r) ==
    /\ job[x][r] = "insert"
    /\ \E verdict \in Verdicts, acknowledged \in BOOLEAN :
         /\ Insert(x, "result", {RowOf(x, r, verdict)}, acknowledged)
         /\ \/ acknowledged /\ Gathers(x, r) /\ UNCHANGED <<stamp, clock>>
            \/ /\ ~acknowledged
               /\ job' = [job EXCEPT ![x][r] = "error"]
               /\ stamp' = [stamp EXCEPT ![x][r] = clock]
               /\ clock' = clock + 1
               /\ UNCHANGED phase
    /\ UNCHANGED <<procedure, runnable, attempt, summary, alert>>

\* _insert_error_result: a failure is logged and forgotten.
ErrorRecorded(x, r) ==
    /\ job[x][r] = "error"
    /\ \E acknowledged \in BOOLEAN :
         Insert(x, "error", {RowOf(x, r, "ERROR")}, acknowledged)
    /\ Gathers(x, r)
    /\ UNCHANGED <<procedure, runnable, stamp, attempt, summary, alert, clock>>

-----------------------------------------------------------------------------
(* get_run_summary and the answer                                          *)

RowsOf(x) == {w \in rows : w.run = x}

\* The totals of a set of rows, and of the rules that were not run.
Counts(S, skipped) ==
    [passed |-> Cardinality({w \in S : w.status = "PASS"}),
     failed |-> Cardinality({w \in S : w.status = "FAIL"}),
     errors |-> Cardinality({w \in S : w.status = "ERROR"}),
     critical |-> Cardinality({w \in S : w.status = "FAIL" /\ w.rule \in Critical}),
     skipped |-> skipped]

Skipped(x) == IF procedure[x] THEN 0 ELSE NRules - Cardinality(runnable[x])

\* Mutant: only failures are alerted.
NeedsAlertOnFailure(s) == s.failed > 0

\* _send_dq_alert returns at once when there is nothing to tell.
NeedsAlert(s) == s.failed > 0 \/ s.errors > 0

Summarise(x, s) ==
    /\ summary' = [summary EXCEPT ![x] = s]
    /\ Goto(x, IF NeedsAlert(s) THEN "alert" ELSE "answered")

SummaryRead(x) ==
    /\ phase[x] = "summary"
    /\ Summarise(x, Counts(RowsOf(x), Skipped(x)))
    /\ UNCHANGED <<procedure, runnable, job, stamp, attempt, alert, table, clock>>

\* dq_results is not found: the run counts as an empty one.
SummaryMissing(x) ==
    /\ phase[x] = "summary"
    /\ Suffers(x, "query", "missing")
    /\ Summarise(x, Counts({}, Skipped(x)))
    /\ UNCHANGED <<procedure, runnable, job, stamp, attempt, alert, rows, abandoned, clock>>

\* Mutant: one attempt too many.
MayRetryOnceMore(x) == attempt[x] <= MaxAttempts

\* stop_after_attempt
MayRetry(x) == attempt[x] < MaxAttempts

\* execute_query repeats after a retryable error; any other one, or the last
\* one, fails the request.  The rows stay.
SummaryFailed(x) ==
    /\ phase[x] = "summary"
    /\ "query" \in Faults
    /\ \/ MayRetry(x) /\ attempt' = [attempt EXCEPT ![x] = @ + 1] /\ UNCHANGED phase
       \/ Goto(x, "failed") /\ UNCHANGED attempt
    /\ UNCHANGED <<procedure, runnable, job, stamp, summary, alert, table, clock>>

\* A channel that fails makes send_alert return False, which nobody reads.
AlertAnswered(x) ==
    /\ phase[x] = "alert"
    /\ \E outcome \in {"sent", "not_sent"} : alert' = [alert EXCEPT ![x] = outcome]
    /\ Goto(x, "answered")
    /\ UNCHANGED <<procedure, runnable, job, stamp, attempt, summary, table, clock>>

-----------------------------------------------------------------------------
(* What people are shown: queries over dq_results                          *)

\* v_dq_table_health joins the rows of a table with the time of its latest
\* row.  All rules of this module are on one table.
TableHealth == {w \in rows : \A v \in rows : v.at <= w.at}

\* The review of checkpoint 2 takes the rows of the hour before the latest
\* one, of whatever run and session.
ReviewRows == {w \in rows : \A v \in rows : v.at <= w.at + Hour}

\* No critical failure, and a health score of at least 70 of 100: 70 points for
\* the share of passed rows, 30 for the share of rows that are not critical.
ProductionReady ==
    LET shown == Counts(ReviewRows, 0)
        total == Cardinality(ReviewRows)
    IN /\ total > 0
       /\ shown.critical = 0
       /\ 70 * shown.passed + 30 * (total - shown.critical) >= 70 * total

-----------------------------------------------------------------------------
(* The specification                                                       *)

Init ==
    /\ phase = [x \in Runs |-> "idle"]
    /\ procedure = [x \in Runs |-> FALSE]
    /\ runnable = [x \in Runs |-> {}]
    /\ job = [x \in Runs |-> [r \in Rules |-> "none"]]
    /\ stamp = [x \in Runs |-> [r \in Rules |-> 0]]
    /\ attempt = [x \in Runs |-> 1]
    /\ summary = [x \in Runs |-> NoSummary]
    /\ alert = [x \in Runs |-> "none"]
    /\ rows = {}
    /\ abandoned = {}
    /\ clock = 0
    /\ suffered = [x \in Runs |-> {}]

\* How the handler of a run goes on.
Resume(x) ==
    \/ ResultsTableEnsured(x)
    \/ ConfigTableEnsured(x)
    \/ CallAnswered(x)
    \/ \E r \in Rules : RuleStarts(x, r) \/ RuleAnswered(x, r) \/ ErrorRecorded(x, r)
    \/ SummaryRead(x)
    \/ SummaryMissing(x)
    \/ SummaryFailed(x)
    \/ AlertAnswered(x)

Next ==
    \/ Lands
    \/ TimePasses
    \/ \E x \in Runs : Execute(x) \/ Resume(x)

Spec == Init /\ [][Next]_vars

\* Every statement ends for its client: job.result has a timeout.  The mail of
\* an alert may hang, for smtplib.SMTP has none.
FairSpec == Spec /\ \A x \in Runs : WF_vars(phase[x] # "alert" /\ Resume(x))

-----------------------------------------------------------------------------
(* Properties                                                              *)

Summarised(x) == phase[x] \in {"alert", "answered"}

\* With the rows of statements that outlived their client, of lost answers
\* and of error rows that could not be written, a run is miscounted.
Miscounted(x) ==
    suffered[x] \cap {<<"result", "lost">>, <<"result", "late">>, <<"error", "refused">>,
                      <<"error", "late">>, <<"query", "missing">>} # {}

\* Run one by one, every selected rule is counted exactly once, as passed,
\* failed or in error, whatever other rules and runs do.
CountedOnce ==
    \A x \in Runs : Summarised(x) /\ ~procedure[x] /\ ~Miscounted(x)
        => summary[x].passed + summary[x].failed + summary[x].errors
             = Cardinality(runnable[x])

\* The summary a client was given stays what dq_results says about its run:
\* it was not read too early, and nothing of another run is in it.
SummaryStaysTrue ==
    \A x \in Runs :
        Summarised(x) /\ {fault[2] : fault \in suffered[x]} \cap {"late", "missing"} = {}
            => summary[x] = Counts({w \in rows : w.run = x}, Skipped(x))

\* The semaphore bounds the statements of a run, those for error rows included.
ConcurrencyRespected ==
    \A x \in Runs : Cardinality({r \in Rules : job[x][r] \notin {"none", "waiting", "done"}})
                      <= Concurrency

\* Some selected rule has not passed in run x.
NotAllPassed(x) ==
    \E r \in runnable[x] : \A w \in rows : w.run = x /\ w.rule = r => w.status # "PASS"

\* api/routers/sql.py "Send email alert if DQ run has failures or warnings":
\* an answered run in which some rule did not pass has raised an alert.
FailuresAlerted ==
    \A x \in Runs : phase[x] = "answered" /\ NotAllPassed(x) => alert[x] # "none"

\* It has, unless the CALL raised, an error row was not written in time, or
\* the table was not found.
FailuresAlertedUnlessSilent ==
    \A x \in Runs : phase[x] = "answered" /\ NotAllPassed(x)
        => \/ alert[x] # "none"
           \/ \E fault \in suffered[x] : fault[1] \in {"call", "error", "query"}

\* Every execution is answered, with a result or with an error, or has got as
\* far as its alert: the results are in, but the answer waits for the mail.
RunsReturn ==
    \A x \in Runs : phase[x] = "ddl_results" ~> phase[x] \in {"alert", "answered", "failed"}

\* A table's health that the procedure has written last covers all its rules:
\* the view matches times for equality, and relies on the one INSERT of ADR-004.
TableHealthWholeRun ==
    \A w \in TableHealth :
        procedure[w.run] => {v.rule : v \in TableHealth} = runnable[w.run]

\* api/routers/approvals.py "Fetch latest DQ run results for a session", with
\* one run per session: none that failed critically is called ready.
ReviewIsOfSession ==
    ProductionReady => \A x \in Runs : Summarised(x) => summary[x].critical = 0
=============================================================================
