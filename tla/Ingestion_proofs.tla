-------------------------- MODULE Ingestion_proofs --------------------------
EXTENDS Ingestion, TLAPS

-----------------------------------------------------------------------------
(* Type correctness                                                        *)

\* A deployment has created no run before its first attempt to trigger one,
\* and afterwards at most one with each attempt.
CreatedInv ==
    \A s \in Sessions :
        /\ pc[s] \in {"idle", "spec", "upload"} => created[s] = 0
        /\ pc[s] = "trigger" => created[s] <= tries[s]

TypeInv == TypeOK /\ CreatedInv

\* A task is started at least once.
LEMMA AttemptType == 1 \in 1 .. TaskAttempts
  BY IngestionAssumption

\* Findings put together are findings.
LEMMA AddType ==
    ASSUME NEW a \in Findings, NEW b \in Findings
    PROVE  Add(a, b) \in Findings
  BY DEF Add, Findings

\* No DAG is there at first.
LEMMA TypeInit == Init => TypeInv
<1> SUFFICES ASSUME Init PROVE TypeInv
  OBVIOUS
<1> USE IngestionAssumption DEF Init
<1>1. rows \in Findings
  BY DEF Nothing, Findings
<1>2. TypeOK
  <2>1. attempt \in 1 .. TaskAttempts /\ scheduled \in 0 .. MaxScheduled /\ queued \in Nat
    OBVIOUS
  <2>2. /\ tries \in [Sessions -> 0 .. TriggerAttempts]
        /\ created \in [Sessions -> 0 .. TriggerAttempts]
    OBVIOUS
  <2> QED BY <1>1, <2>1, <2>2 DEF TypeOK, Answers, Tasks
<1>3. CreatedInv
  BY DEF CreatedInv
<1> QED BY <1>2, <1>3 DEF TypeInv

\* The steps of a deployment.
LEMMA TypeDeployment ==
    ASSUME TypeInv, NEW s \in Sessions, Approved(s) \/ Deploys(s)
    PROVE  TypeInv'
<1> USE IngestionAssumption
       DEF TypeInv, TypeOK, CreatedInv, Answers, Answer, Goto,
           composer, backlog, run, history
<1>1. CASE Approved(s)
  BY <1>1 DEF Approved
<1>2. CASE SpecStored(s)
  BY <1>2 DEF SpecStored
<1>3. CASE Uploaded(s)
  <2>1. CASE Goto(s, "trigger") /\ UNCHANGED <<tries, answer>>
    <3>1. uploaded' \in BOOLEAN
      BY <1>3 DEF Uploaded
    <3>2. TypeOK'
      BY <1>3, <2>1, <3>1 DEF Uploaded
    <3>3. CreatedInv'
      BY <1>3, <2>1 DEF Uploaded
    <3> QED BY <3>2, <3>3
  <2>2. CASE Answer(s, "failed")
    BY <1>3, <2>2 DEF Uploaded
  <2> QED BY <1>3, <2>1, <2>2 DEF Uploaded
<1>4. CASE Triggered(s)
  BY <1>4 DEF Triggered, RunCreated
<1>5. CASE TriggerFailed(s)
  BY <1>5 DEF TriggerFailed, RunCreated
<1>6. CASE TriggerGivenUp(s)
  BY <1>6 DEF TriggerGivenUp
<1> QED BY <1>1, <1>2, <1>3, <1>4, <1>5, <1>6 DEF Deploys

\* The steps of Airflow and of people outside a run.
LEMMA TypeAirflow ==
    ASSUME TypeInv, Parse \/ Scheduled \/ Release
    PROVE  TypeInv'
<1> USE IngestionAssumption
       DEF TypeInv, TypeOK, CreatedInv, deployment, composer, backlog, run, history
<1>1. CASE Parse
  BY <1>1 DEF Parse
<1>2. CASE Scheduled
  BY <1>2 DEF Scheduled
<1>3. CASE Release
  BY <1>3 DEF Release
<1> QED BY <1>1, <1>2, <1>3

\* The steps of a run.
LEMMA TypeRun ==
    ASSUME TypeInv, RunGoesOn
    PROVE  TypeInv'
<1> USE IngestionAssumption
       DEF TypeInv, TypeOK, CreatedInv, Tasks, Fails, Suffers, RunFaults,
           deployment, composer, backlog, history
<1>1. CASE RunStarts
  BY <1>1 DEF RunStarts
<1>2. CASE Called
  <2>1. rows' \in Findings
    BY <1>2, AddType DEF Called
  <2>2. CASE task' = "query" /\ attempt' = 1 /\ UNCHANGED suffered
    BY <1>2, <2>1, <2>2, AttemptType DEF Called
  <2>3. CASE Fails("call") /\ Suffers("lost_call")
    BY <1>2, <2>1, <2>3 DEF Called
  <2> QED BY <1>2, <2>2, <2>3 DEF Called
<1>3. CASE CallRefused
  BY <1>3 DEF CallRefused
<1>4. CASE AlertQueried
  BY <1>4 DEF AlertQueried, ReadsCritical
<1>5. CASE Mailed
  BY <1>5 DEF Mailed
<1>6. CASE Paused
  BY <1>6 DEF Paused
<1>7. CASE WorkerDies
  BY <1>7 DEF WorkerDies
<1>8. CASE RunEnds
  <2>1. Nothing \in Findings
    BY DEF Nothing, Findings
  <2> QED BY <1>8, <2>1, AttemptType DEF RunEnds
<1> QED BY <1>1, <1>2, <1>3, <1>4, <1>5, <1>6, <1>7, <1>8 DEF RunGoesOn

\* Every step of a session, of Airflow and of a run keeps the types.
LEMMA TypeStep == TypeInv /\ [Next]_vars => TypeInv'
<1> SUFFICES ASSUME TypeInv, [Next]_vars PROVE TypeInv'
  OBVIOUS
<1>1. CASE UNCHANGED vars
  BY <1>1 DEF TypeInv, TypeOK, CreatedInv, vars, deployment, composer,
              backlog, run, history
<1>2. CASE Next
  BY <1>2, TypeDeployment, TypeAirflow, TypeRun DEF Next
<1> QED BY <1>1, <1>2

\* Every reachable state is well typed: counters of attempts and of created
\* runs stay within the limits of the retries.
THEOREM IngestionTypeCorrect == Spec => []TypeOK
<1>1. TypeInv => TypeOK
  BY DEF TypeInv
<1> QED BY <1>1, TypeInit, TypeStep, PTL DEF Spec

\* In every state: the types, and no DAG but of a session.
LEMMA TypeInvariant == Spec => []TypeInv
  BY TypeInit, TypeStep, PTL DEF Spec

-----------------------------------------------------------------------------
(* The answers of approvals                                                *)

\* Until it is answered, a deployment of which no answer was lost has created
\* no run.
AnswerInv ==
    /\ AnswerTellsRuns
    /\ \A s \in Sessions :
         pc[s] \in {"idle", "spec", "upload", "trigger"} /\ s \notin lost
           => created[s] = 0

\* At first nobody was answered anything.
LEMMA AnswerInit == Init => AnswerInv
  BY DEF Init, AnswerInv, AnswerTellsRuns

\* The steps of a deployment up to its DAG keep them as well.
LEMMA AnswerDeployment ==
    ASSUME TypeInv, AnswerInv, NEW s \in Sessions, Approved(s) \/ Deploys(s)
    PROVE  AnswerInv'
<1> USE DEF TypeInv, TypeOK, CreatedInv, AnswerInv, AnswerTellsRuns, Answer, Goto,
           history
<1>1. CASE Approved(s)
  BY <1>1 DEF Approved
<1>2. CASE SpecStored(s)
  BY <1>2 DEF SpecStored
<1>3. CASE Uploaded(s)
  BY <1>3 DEF Uploaded
<1>4. CASE Triggered(s)
  BY <1>4 DEF Triggered, RunCreated
<1>5. CASE TriggerFailed(s)
  BY <1>5 DEF TriggerFailed, RunCreated
<1>6. CASE TriggerGivenUp(s)
  BY <1>6 DEF TriggerGivenUp
<1> QED BY <1>1, <1>2, <1>3, <1>4, <1>5, <1>6 DEF Deploys

\* No other step looks at a deployment.
LEMMA DeploymentsKept ==
    ASSUME TypeInv, Parse \/ Scheduled \/ Release \/ RunGoesOn
    PROVE  UNCHANGED <<deployment, lost>>
<1>1. CASE Parse \/ Scheduled \/ Release
  BY <1>1 DEF Parse, Scheduled, Release, history
<1>2. CASE RunGoesOn
  BY <1>2
  DEF TypeInv, TypeOK, RunGoesOn, RunStarts, Called, CallRefused, AlertQueried, Mailed,
      Paused, WorkerDies, RunEnds, Suffers, Fails, history
<1> QED BY <1>1, <1>2

\* Every step keeps what the answers say.
LEMMA AnswerStep == TypeInv /\ AnswerInv /\ [Next]_vars => AnswerInv'
<1> SUFFICES ASSUME TypeInv, AnswerInv, [Next]_vars PROVE AnswerInv'
  OBVIOUS
<1>1. CASE UNCHANGED vars
  BY <1>1 DEF AnswerInv, AnswerTellsRuns, vars, deployment, history
<1>2. CASE Parse \/ Scheduled \/ Release \/ RunGoesOn
  BY <1>2, DeploymentsKept DEF AnswerInv, AnswerTellsRuns, deployment
<1>3. CASE \E s \in Sessions : Approved(s) \/ Deploys(s)
  BY <1>3, AnswerDeployment
<1> QED BY <1>1, <1>2, <1>3 DEF Next

\* For any number of sessions that share the DAG: an approval answers
\* "triggered" when Airflow got exactly one run of it, unless Airflow's answer
\* was lost.
THEOREM AnswersTellRuns == Spec => []AnswerTellsRuns
<1>1. AnswerInv => AnswerTellsRuns
  BY DEF AnswerInv
<1> QED BY <1>1, AnswerInit, AnswerStep, TypeInvariant, PTL DEF Spec

-----------------------------------------------------------------------------
(* The active run                                                          *)

\* Before the CALL has answered there are no rows, unless an answer was lost.
FindsInv ==
    /\ RunFindsOnce
    /\ task \in {"none", "call"} /\ "lost_call" \notin suffered => rows = Nothing

\* The alert task goes on with what it has read; whoever is about to pause
\* has tried to tell.
AlertInv ==
    /\ PauseIsAnnounced
    /\ CriticalStopsIngestion
    /\ critical => rows.fail > 0
    /\ task \in {"mail", "pause"} => critical = ReadsCritical
    /\ task = "pause" => critical /\ (mailed \/ "mail" \in suffered)

\* At first no run has found or announced anything.
LEMMA RunInit == Init => FindsInv /\ AlertInv
  BY DEF Init, FindsInv, AlertInv, RunFindsOnce, PauseIsAnnounced,
         CriticalStopsIngestion

\* What a first attempt finds is added to nothing.
LEMMA AddNothing ==
    ASSUME NEW found \in Verdicts
    PROVE  Add(Nothing, found) = found
  BY IngestionAssumption DEF Add, Nothing, Findings

\* Nobody but the active run changes it.
LEMMA RunKept ==
    ASSUME Parse \/ Scheduled \/ Release \/ \E s \in Sessions : Approved(s) \/ Deploys(s)
    PROVE  UNCHANGED <<run, suffered>>
  BY DEF Parse, Scheduled, Release, Approved, Deploys, SpecStored, Uploaded, Triggered,
         TriggerFailed, TriggerGivenUp, history

\* Every step keeps what a run has found.
LEMMA FindsStep == TypeInv /\ FindsInv /\ [Next]_vars => FindsInv'
<1> SUFFICES ASSUME TypeInv, FindsInv, [Next]_vars PROVE FindsInv'
  OBVIOUS
<1> USE DEF FindsInv, RunFindsOnce
<1>1. CASE UNCHANGED <<run, suffered>>
  BY <1>1 DEF run
<1>2. CASE RunStarts
  BY <1>2 DEF RunStarts, history
<1>3. CASE Called
  <2> PICK found \in Verdicts :
        \/ rows' = Add(rows, found) /\ task' = "query" /\ UNCHANGED suffered
        \/ Suffers("lost_call")
    BY <1>3 DEF Called
  <2>1. CASE rows' = Add(rows, found) /\ task' = "query" /\ UNCHANGED suffered
    BY <1>3, <2>1, AddNothing DEF Called
  <2>2. CASE Suffers("lost_call")
    BY <2>2 DEF Suffers
  <2> QED BY <2>1, <2>2
<1>4. CASE CallRefused
  BY <1>4 DEF CallRefused, Fails, history
<1>5. CASE AlertQueried
  BY <1>5 DEF AlertQueried, Suffers
<1>6. CASE Mailed
  BY <1>6 DEF Mailed, Suffers
<1>7. CASE Paused
  BY <1>7 DEF Paused, Suffers
<1>8. CASE WorkerDies
  BY <1>8 DEF WorkerDies, Fails, history
<1>9. CASE RunEnds
  BY <1>9 DEF RunEnds
<1> QED BY <1>1, <1>2, <1>3, <1>4, <1>5, <1>6, <1>7, <1>8, <1>9, RunKept
        DEF Next, RunGoesOn, vars, history

\* Every step keeps the order of the alert, the mail and the pause.
LEMMA AlertStep == TypeInv /\ AlertInv /\ [Next]_vars => AlertInv'
<1> SUFFICES ASSUME TypeInv, AlertInv, [Next]_vars PROVE AlertInv'
  OBVIOUS
<1> USE DEF AlertInv, PauseIsAnnounced, CriticalStopsIngestion, ReadsCritical
<1>1. CASE UNCHANGED <<run, suffered>>
  BY <1>1 DEF run
<1>2. CASE RunStarts
  BY <1>2 DEF RunStarts, history
<1>3. CASE Called
  <2>1. task' \notin {"mail", "pause", "end"}
    BY <1>3 DEF Called, Fails
  <2>2. rows.fail > 0 => rows'.fail > 0
    BY <1>3, IngestionAssumption DEF Called, Add, TypeInv, TypeOK, Findings
  <2>3. UNCHANGED <<critical, mailed, stopped>> /\ suffered \subseteq suffered'
    BY <1>3 DEF Called, Suffers
  <2> QED BY <2>1, <2>2, <2>3
<1>4. CASE CallRefused
  BY <1>4 DEF CallRefused, Fails, history
<1>5. CASE AlertQueried
  <2>1. rows' = rows /\ rows \in Findings /\ UNCHANGED <<mailed, stopped>>
    BY <1>5 DEF AlertQueried, TypeInv, TypeOK
  <2>2. CASE Suffers("query") /\ task' = "end" /\ UNCHANGED critical
    BY <2>1, <2>2 DEF Suffers
  <2>3. CASE critical' = ReadsCritical /\ task' = "mail" /\ UNCHANGED suffered
    BY <2>1, <2>3
  <2>4. CASE critical' = ReadsCritical /\ task' = "end" /\ UNCHANGED suffered /\ Failures = 0
    <3>1. rows.fail = 0
      BY <2>1, <2>4 DEF Failures, Findings
    <3>2. ~(rows.fail > 0)
      BY <3>1
    <3>3. ~ReadsCritical
      BY <3>2
    <3>4. ~(rows'.fail > 0)
      BY <2>1, <3>2
    <3>5. ~(rows'.fail > 0) /\ ~critical'
      BY <2>4, <3>3, <3>4
    <3> QED BY <2>1, <2>4, <3>5
  <2> QED BY <1>5, <2>2, <2>3, <2>4 DEF AlertQueried
<1>6. CASE Mailed
  BY <1>6 DEF Mailed, Suffers
<1>7. CASE Paused
  BY <1>7 DEF Paused, Suffers
<1>8. CASE WorkerDies
  BY <1>8 DEF WorkerDies, Fails, history
<1>9. CASE RunEnds
  BY <1>9 DEF RunEnds
<1> QED BY <1>1, <1>2, <1>3, <1>4, <1>5, <1>6, <1>7, <1>8, <1>9, RunKept
        DEF Next, RunGoesOn, vars, history

\* In every state: both invariants of the runs.
LEMMA RunInvariant == Spec => []FindsInv /\ []AlertInv
<1>1. Init => FindsInv
  BY RunInit
<1>2. Init => AlertInv
  BY RunInit
<1> QED BY <1>1, <1>2, FindsStep, AlertStep, TypeInvariant, PTL DEF Spec

\* However often its tasks are repeated, a run has the rows of one execution
\* of the procedure: the CALL is not made again once it has answered.
THEOREM RunsFindOnce == Spec => []RunFindsOnce
<1>1. FindsInv => RunFindsOnce
  BY DEF FindsInv
<1> QED BY <1>1, RunInvariant, PTL

\* For any number of retries and any limit of the alert's query: a run that
\* ends with a critical failure among the rows it read has paused ingestion,
\* unless one of the two swallowed failures hit it.
THEOREM CriticalFailuresStop == Spec => []CriticalStopsIngestion
<1>1. AlertInv => CriticalStopsIngestion
  BY DEF AlertInv
<1> QED BY <1>1, RunInvariant, PTL

\* Ingestion is never paused by a run that has not tried to send its e-mail.
THEOREM PausesAnnounced == Spec => []PauseIsAnnounced
<1>1. AlertInv => PauseIsAnnounced
  BY DEF AlertInv
<1> QED BY <1>1, RunInvariant, PTL

-----------------------------------------------------------------------------
(* The abstract guard                                                      *)

\* The first state is one of the abstract guard.
LEMMA GuardInit == Init => Guard!Init
  BY DEF Init, Nothing, Guard!Init

\* Every step is one of the abstract guard, or none of its concern.
LEMMA GuardStep == AlertInv /\ [Next]_vars => [Guard!Next]_Guard!vars
<1> SUFFICES ASSUME AlertInv, [Next]_vars
             PROVE  Guard!Next \/ UNCHANGED <<rows, paused>>
  BY DEF Guard!vars
<1>1. CASE Called \/ RunEnds
  <2>1. UNCHANGED paused /\ (rows'.fail > 0) \in BOOLEAN
    BY <1>1 DEF Called, RunEnds
  <2>2. CASE rows'.fail > 0
    BY <2>1, <2>2 DEF Guard!Next, Guard!Find
  <2>3. CASE ~(rows'.fail > 0)
    BY <2>1, <2>3 DEF Guard!Next, Guard!Validate
  <2> QED BY <2>2, <2>3
<1>2. CASE Paused
  <2>1. rows.fail > 0 /\ rows' = rows
    BY <1>2 DEF Paused, AlertInv
  <2>2. paused' = TRUE \/ UNCHANGED paused
    BY <1>2 DEF Paused
  <2> QED BY <2>1, <2>2 DEF Guard!Next, Guard!Pause
<1>3. CASE Release
  BY <1>3 DEF Release, run, Guard!Next, Guard!Release
<1>4. CASE UNCHANGED vars
  BY <1>4 DEF vars, run
<1>5. CASE Parse \/ Scheduled \/ \E s \in Sessions : Approved(s) \/ Deploys(s)
  BY <1>5
  DEF Parse, Scheduled, Approved, Deploys, SpecStored, Uploaded, Triggered,
      TriggerFailed, TriggerGivenUp, run
<1>6. CASE RunStarts \/ CallRefused \/ AlertQueried \/ Mailed \/ WorkerDies
  BY <1>6 DEF RunStarts, CallRefused, AlertQueried, Mailed, WorkerDies
<1> QED BY <1>1, <1>2, <1>3, <1>4, <1>5, <1>6 DEF Next, RunGoesOn

\* The generated DAG implements the guard: ingestion is paused only on behalf
\* of the latest run and while that has critical failures, and only people
\* resume it.
THEOREM GuardImplemented == Spec => GuardsIngestion
<1>1. AlertInv /\ [Next]_vars => [Guard!Next]_Guard!vars
  BY GuardStep
<1> QED BY <1>1, GuardInit, RunInvariant, PTL DEF Spec, GuardsIngestion, Guard!Spec
=============================================================================
