----------------------------- MODULE Ingestion -----------------------------
(***************************************************************************)
(* From an approved checkpoint 1 to a paused ingestion: the deployment of  *)
(* a validation DAG to Cloud Composer (deploy_and_trigger and the Airflow  *)
(* client) and the runs of the generated DAG: the CALL of the procedure,   *)
(* the alert, the pause of the ingestion DAG.                              *)
(*                                                                         *)
(* The id of the DAG is made of the table's name, so that all sessions     *)
(* about the table share one file, one DAG and one ingestion DAG.  Their   *)
(* requests overlap.  The DAG has max_active_runs=1: the variables of a    *)
(* run are those of the active one.                                        *)
(***************************************************************************)
EXTENDS Integers

CONSTANTS
    Sessions,        \* sessions about the table, each approved once
    Verdicts,        \* what one execution of the procedure may find
    AlertRows,       \* LIMIT of the alert's query
    TriggerAttempts, \* attempts of trigger_dag
    TaskAttempts,    \* attempts of a task: its retries and the first one
    MaxScheduled,    \* bound: runs started by the schedule
    Faults           \* the faults that happen

FaultKinds == {"bucket",     \* no bucket is configured: the upload is skipped
               "upload",     \* the upload fails
               "lost_upload",\* the file arrives, the answer does not
               "trigger",    \* an attempt to trigger fails: token, 4xx, 5xx
               "lost_trigger", \* the run is created, the answer does not arrive
               "call",       \* the CALL is refused; the procedure may not exist
               "lost_call",  \* it is applied, and the task fails all the same
               "query",      \* the alert's query raises
               "mail",       \* e-mail is not configured, or SMTP raises
               "pause",      \* the ingestion DAG is not found, or its row not written
               "worker"}     \* the worker dies during the alert task

\* The failing rows of a run by severity.
Findings == [fail : Nat, warn : Nat, info : Nat]
Nothing == [fail |-> 0, warn |-> 0, info |-> 0]

ASSUME IngestionAssumption ==
    /\ Verdicts \subseteq Findings
    /\ AlertRows \in Nat \ {0}
    /\ TriggerAttempts \in Nat \ {0}
    /\ TaskAttempts \in Nat \ {0}
    /\ MaxScheduled \in Nat
    /\ Faults \subseteq FaultKinds

VARIABLES
    pc,        \* where the deployment of each session is
    tries,     \* attempts of trigger_dag so far
    answer,    \* "status" of composer_result
    created,   \* runs that the triggers of a session created
    uploaded,  \* the DAG file is in the bucket
    parsed,    \* Airflow has parsed it
    queued,    \* runs waiting for the active one
    scheduled, \* runs the schedule has started
    task,      \* of the active run
    attempt,   \* of that task
    rows,      \* dq_results of the run
    critical,  \* the alert task: rows of severity FAIL are among those it read
    mailed,    \* the run has sent its e-mail
    stopped,   \* the run has paused ingestion
    paused,    \* ingestion is paused
    lost,      \* history: sessions that lost an answer of Airflow
    suffered   \* history: faults of the run

deployment == <<pc, tries, answer, created>>
composer == <<uploaded, parsed>>
backlog == <<queued, scheduled>>
run == <<task, attempt, rows, critical, mailed, stopped>>
history == <<lost, suffered>>
vars == <<deployment, composer, backlog, run, paused, history>>

Tasks == {"none", "call", "query", "mail", "pause", "end", "failed"}
Answers == {"none", "triggered", "uploaded_pending_schedule", "failed"}
RunFaults == {"lost_call", "query", "mail", "pause"}

TypeOK ==
    /\ pc \in [Sessions -> {"idle", "spec", "upload", "trigger", "answered"}]
    /\ tries \in [Sessions -> 0 .. TriggerAttempts]
    /\ answer \in [Sessions -> Answers]
    /\ created \in [Sessions -> 0 .. TriggerAttempts]
    /\ uploaded \in BOOLEAN
    /\ parsed \in BOOLEAN
    /\ queued \in Nat
    /\ scheduled \in 0 .. MaxScheduled
    /\ task \in Tasks
    /\ attempt \in 1 .. TaskAttempts
    /\ rows \in Findings
    /\ critical \in BOOLEAN
    /\ mailed \in BOOLEAN
    /\ stopped \in BOOLEAN
    /\ paused \in BOOLEAN
    /\ lost \subseteq Sessions
    /\ suffered \subseteq RunFaults

-----------------------------------------------------------------------------
(* deploy_and_trigger                                                      *)

Goto(s, at) == pc' = [pc EXCEPT ![s] = at]

\* ... and its attempts are over.
Answer(s, status) ==
    /\ Goto(s, "answered")
    /\ answer' = [answer EXCEPT ![s] = status]
    /\ tries' = [tries EXCEPT ![s] = 0]

\* Checkpoint 1 of session s has been approved.
Approved(s) ==
    /\ pc[s] = "idle"
    /\ Goto(s, "spec")
    /\ UNCHANGED <<tries, answer, created, composer, backlog, run, paused, history>>

\* store_dag_spec: whether the specification is stored or not, the upload follows.
SpecStored(s) ==
    /\ pc[s] = "spec"
    /\ Goto(s, "upload")
    /\ UNCHANGED <<tries, answer, created, composer, backlog, run, paused, history>>

\* An upload that raises ends the deployment; the approval answers "failed".
Uploaded(s) ==
    /\ pc[s] = "upload"
    /\ \/ /\ \/ uploaded' = TRUE
             \/ "bucket" \in Faults /\ UNCHANGED uploaded
          /\ Goto(s, "trigger")
          /\ UNCHANGED <<tries, answer>>
       \/ /\ \/ "upload" \in Faults /\ UNCHANGED uploaded
             \/ "lost_upload" \in Faults /\ uploaded' = TRUE
          /\ Answer(s, "failed")
    /\ UNCHANGED <<created, parsed, backlog, run, paused, history>>

\* A run is created; Airflow draws its run_id, so that a repeated request
\* creates another one.
RunCreated(s) ==
    /\ parsed
    /\ created' = [created EXCEPT ![s] = @ + 1]
    /\ queued' = queued + 1

\* Mutant: a run that was created is not the end of the attempts.
TriggeredAgain(s) ==
    /\ pc[s] = "trigger"
    /\ tries[s] < TriggerAttempts
    /\ RunCreated(s)
    /\ \/ Answer(s, "triggered")
       \/ tries' = [tries EXCEPT ![s] = @ + 1] /\ UNCHANGED <<pc, answer>>
    /\ UNCHANGED <<composer, scheduled, run, paused, history>>

Triggered(s) ==
    /\ pc[s] = "trigger"
    /\ tries[s] < TriggerAttempts
    /\ RunCreated(s)
    /\ Answer(s, "triggered")
    /\ UNCHANGED <<composer, scheduled, run, paused, history>>

\* Mutant: the retries have no limit.
TriggerFailedUncounted(s) ==
    /\ pc[s] = "trigger"
    /\ ~parsed \/ "trigger" \in Faults
    /\ UNCHANGED vars

\* An attempt raises; a DAG that is not parsed yet is not found.
TriggerFailed(s) ==
    /\ pc[s] = "trigger"
    /\ tries[s] < TriggerAttempts
    /\ tries' = [tries EXCEPT ![s] = @ + 1]
    /\ \/ /\ ~parsed \/ "trigger" \in Faults
          /\ UNCHANGED <<created, queued, lost>>
       \/ /\ "lost_trigger" \in Faults
          /\ RunCreated(s)
          /\ lost' = lost \cup {s}
    /\ UNCHANGED <<pc, answer, composer, scheduled, run, paused, suffered>>

\* stop_after_attempt, reraise; the orchestrator answers all the same.
TriggerGivenUp(s) ==
    /\ pc[s] = "trigger"
    /\ tries[s] = TriggerAttempts
    /\ Answer(s, "uploaded_pending_schedule")
    /\ UNCHANGED <<created, composer, backlog, run, paused, history>>

-----------------------------------------------------------------------------
(* Airflow: the scheduler, the schedule of the DAG, people                 *)

Parse ==
    /\ uploaded /\ ~parsed
    /\ parsed' = TRUE
    /\ UNCHANGED <<deployment, uploaded, backlog, run, paused, history>>

Scheduled ==
    /\ parsed
    /\ scheduled < MaxScheduled
    /\ scheduled' = scheduled + 1
    /\ queued' = queued + 1
    /\ UNCHANGED <<deployment, composer, run, paused, history>>

\* "manually unpause the ingestion DAG to resume"
Release ==
    /\ paused
    /\ paused' = FALSE
    /\ UNCHANGED <<deployment, composer, backlog, run, history>>

-----------------------------------------------------------------------------
(* A run of the generated DAG                                              *)

RunStarts ==
    /\ task = "none"
    /\ queued > 0
    /\ queued' = queued - 1
    /\ task' = "call"
    /\ UNCHANGED <<deployment, composer, scheduled, attempt, rows, critical, mailed, stopped>>
    /\ UNCHANGED <<paused, history>>

\* Mutant: the rows are kept under a name that the next run shares.
RunEndsInSharedRows ==
    /\ task \in {"end", "failed"}
    /\ task' = "none"
    /\ attempt' = 1
    /\ critical' = FALSE
    /\ mailed' = FALSE
    /\ stopped' = FALSE
    /\ suffered' = {}
    /\ UNCHANGED <<deployment, composer, backlog, rows, paused, lost>>

\* The run has succeeded, or failed; the next one starts afresh.
RunEnds ==
    /\ task \in {"end", "failed"}
    /\ task' = "none"
    /\ attempt' = 1
    /\ rows' = Nothing
    /\ critical' = FALSE
    /\ mailed' = FALSE
    /\ stopped' = FALSE
    /\ suffered' = {}
    /\ UNCHANGED <<deployment, composer, backlog, paused, lost>>

Suffers(fault) ==
    /\ fault \in Faults
    /\ suffered' = suffered \cup {fault}

\* Mutant: one attempt too many.
FailsOnceMore(again) ==
    \/ attempt <= TaskAttempts /\ attempt' = attempt + 1 /\ task' = again
    \/ attempt > TaskAttempts /\ task' = "failed" /\ UNCHANGED attempt

\* The task fails: it is repeated from its step again, or the run has failed.
Fails(again) ==
    \/ attempt < TaskAttempts /\ attempt' = attempt + 1 /\ task' = again
    \/ attempt = TaskAttempts /\ task' = "failed" /\ UNCHANGED attempt

Add(a, b) == [fail |-> a.fail + b.fail, warn |-> a.warn + b.warn, info |-> a.info + b.info]

\* execute_dq_stored_procedure.  The run_id is that of the run, whatever attempt.
Called ==
    /\ task = "call"
    /\ \E found \in Verdicts :
         \/ /\ rows' = Add(rows, found)
            /\ task' = "query"
            /\ attempt' = 1
            /\ UNCHANGED suffered
         \/ /\ Suffers("lost_call")
            /\ rows' = Add(rows, found)
            /\ Fails("call")
    /\ UNCHANGED <<deployment, composer, backlog, critical, mailed, stopped, paused, lost>>

CallRefused ==
    /\ task = "call"
    /\ "call" \in Faults
    /\ Fails("call")
    /\ UNCHANGED <<deployment, composer, backlog, rows, critical, mailed, stopped>>
    /\ UNCHANGED <<paused, history>>

Failures == rows.fail + rows.warn + rows.info

\* Mutant: any failure is critical.
AnyFailure == Failures > 0

\* ORDER BY severity DESC is by name, WARN, INFO, FAIL: a critical failure is
\* read only if the others leave room for it.
ReadsCritical == rows.fail > 0 /\ rows.warn + rows.info < AlertRows

\* send_email_alert: what it has read decides how it goes on.
AlertQueried ==
    /\ task = "query"
    /\ \/ /\ critical' = ReadsCritical
          /\ task' = IF Failures = 0 THEN "end" ELSE "mail"
          /\ UNCHANGED suffered
       \/ /\ Suffers("query") \* logged: the task succeeds without an alert
          /\ task' = "end"
          /\ UNCHANGED critical
    /\ UNCHANGED <<deployment, composer, backlog, attempt, rows, mailed, stopped, paused, lost>>

\* Mutant: a failing e-mail ends the task.
MailedOrEnded ==
    /\ task = "mail"
    /\ \/ mailed' = TRUE /\ task' = (IF critical THEN "pause" ELSE "end") /\ UNCHANGED suffered
       \/ Suffers("mail") /\ task' = "end" /\ UNCHANGED mailed
    /\ UNCHANGED <<deployment, composer, backlog, attempt, rows, critical, stopped, paused, lost>>

\* _send_dq_email_alert, whose failure is logged.
Mailed ==
    /\ task = "mail"
    /\ \/ mailed' = TRUE /\ UNCHANGED suffered
       \/ Suffers("mail") /\ UNCHANGED mailed
    /\ task' = IF critical THEN "pause" ELSE "end"
    /\ UNCHANGED <<deployment, composer, backlog, attempt, rows, critical, stopped, paused, lost>>

\* _pause_ingestion_dag, whose failure is logged.
Paused ==
    /\ task = "pause"
    /\ \/ paused' = TRUE /\ stopped' = TRUE /\ UNCHANGED suffered
       \/ Suffers("pause") /\ UNCHANGED <<paused, stopped>>
    /\ task' = "end"
    /\ UNCHANGED <<deployment, composer, backlog, attempt, rows, critical, mailed, lost>>

\* The alert task dies between two of its steps and is repeated as a whole.
WorkerDies ==
    /\ task \in {"query", "mail", "pause", "end"}
    /\ "worker" \in Faults
    /\ Fails("query")
    /\ UNCHANGED <<deployment, composer, backlog, rows, critical, mailed, stopped>>
    /\ UNCHANGED <<paused, history>>

-----------------------------------------------------------------------------
(* The specification                                                       *)

Init ==
    /\ pc = [s \in Sessions |-> "idle"]
    /\ tries = [s \in Sessions |-> 0]
    /\ answer = [s \in Sessions |-> "none"]
    /\ created = [s \in Sessions |-> 0]
    /\ uploaded = FALSE
    /\ parsed = FALSE
    /\ queued = 0
    /\ scheduled = 0
    /\ task = "none"
    /\ attempt = 1
    /\ rows = Nothing
    /\ critical = FALSE
    /\ mailed = FALSE
    /\ stopped = FALSE
    /\ paused = FALSE
    /\ lost = {}
    /\ suffered = {}

\* How the handler of session s goes on.
Deploys(s) ==
    \/ SpecStored(s)
    \/ Uploaded(s)
    \/ Triggered(s)
    \/ TriggerFailed(s)
    \/ TriggerGivenUp(s)

\* How the active run, or the next one, goes on.
RunGoesOn ==
    \/ RunStarts
    \/ Called
    \/ CallRefused
    \/ AlertQueried
    \/ Mailed
    \/ Paused
    \/ WorkerDies
    \/ RunEnds

Next ==
    \/ \E s \in Sessions : Approved(s) \/ Deploys(s)
    \/ Parse
    \/ Scheduled
    \/ Release
    \/ RunGoesOn

Spec == Init /\ [][Next]_vars

\* Calls of Composer and of BigQuery end, and Airflow runs what is queued.
\* Nothing is assumed of its scheduler's parsing, of its clock and of people,
\* and not that an e-mail is ever done with: smtplib.SMTP has no timeout, and
\* neither the tasks nor the runs of the DAG have one.
FairSpec ==
    /\ Spec
    /\ \A s \in Sessions : WF_vars(Deploys(s))
    /\ WF_vars(task # "mail" /\ RunGoesOn)

-----------------------------------------------------------------------------
(* Properties                                                              *)

\* dag_builder.py "If critical failures - pause ingestion DAG": a run that
\* ended successfully with critical failures has paused ingestion, unless one
\* of the two swallowed failures hit it, or other failures filled the rows the
\* alert reads.
CriticalStopsIngestion ==
    task = "end" /\ rows.fail > 0 /\ rows.warn + rows.info < AlertRows
        => stopped \/ suffered \cap {"query", "pause"} # {}

\* dag_builder.py "Always send email alert": whoever finds ingestion paused by
\* a run was told by e-mail, if e-mail works.
PauseIsAnnounced == stopped => mailed \/ "mail" \in suffered

\* The rows of a run are those of one execution of the procedure, however
\* often its tasks were repeated, as long as no answer of the CALL was lost.
RunFindsOnce ==
    rows # Nothing /\ "lost_call" \notin suffered => rows \in Verdicts

\* What the approval answers agrees with what Airflow got: exactly one run for
\* "triggered", none otherwise, as long as no answer of Airflow was lost.
AnswerTellsRuns ==
    \A s \in Sessions : pc[s] = "answered" /\ s \notin lost
        => created[s] = IF answer[s] = "triggered" THEN 1 ELSE 0

\* Ingestion is guarded: paused on behalf of the latest run only, and while
\* that has critical failures; resumed by people only.
Guard == INSTANCE IngestionGuard WITH alarm <- rows.fail > 0
GuardsIngestion == Guard!Spec

\* Every approval is answered; and every run that waits is started and ends,
\* unless the e-mail of some run hangs for ever, since runs wait for each other.
WorkEnds ==
    /\ \A s \in Sessions : pc[s] = "spec" ~> pc[s] = "answered"
    /\ \/ <>[](task = "mail")
       \/ queued > 0 ~> queued = 0 /\ task = "none"
=============================================================================
