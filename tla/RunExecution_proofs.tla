------------------------- MODULE RunExecution_proofs -------------------------
EXTENDS RunExecution, FiniteSetTheorems, TLAPS

-----------------------------------------------------------------------------
(* Finite sets                                                             *)

\* A set of rules is finite.
LEMMA RulesFinite == \A R \in SUBSET Rules : IsFiniteSet(R)
<1>1. IsFiniteSet(Rules)
  BY RunAssumption, FS_Interval DEF Rules
<1> QED BY <1>1, FS_Subset

\* The rows one statement writes are well formed, finitely many and all of one run.
LEMMA RowsOfStatement ==
    ASSUME TypeOK, NEW x \in Runs, NEW R \in SUBSET Rules, NEW verdict \in [R -> Verdicts]
    PROVE  LET new == {RowOf(x, r, verdict[r]) : r \in R}
           IN  /\ new \subseteq Row /\ IsFiniteSet(new)
               /\ \A w \in new : w.run = x
<1> DEFINE new == {RowOf(x, r, verdict[r]) : r \in R}
           f == [r \in R |-> RowOf(x, r, verdict[r])]
<1>1. new \subseteq Row /\ \A w \in new : w.run = x
  BY DEF TypeOK, RowOf, Row
<1>2. f \in Surjection(R, new)
  BY DEF Surjection
<1>3. IsFiniteSet(new)
  BY <1>2, RulesFinite, FS_Surjection
<1> QED BY <1>1, <1>3

\* The row of one rule, as a set: what a statement of run x writes for it.
LEMMA OneRow ==
    ASSUME TypeOK, NEW x \in Runs, NEW r \in Rules, NEW s \in Verdicts \cup {"ERROR"}
    PROVE  LET new == {RowOf(x, r, s)}
           IN  /\ new \subseteq Row /\ IsFiniteSet(new)
               /\ \A w \in new : w.run = x
<1> DEFINE new == {RowOf(x, r, s)}
<1>1. RowOf(x, r, s) \in Row /\ RowOf(x, r, s).run = x
  BY DEF TypeOK, RowOf, Row
<1>2. IsFiniteSet(new)
  BY FS_Singleton
<1> QED BY <1>1, <1>2

\* The totals of finitely many rows are numbers.
LEMMA CountsType ==
    ASSUME NEW S, IsFiniteSet(S), NEW n \in Nat
    PROVE  Counts(S, n) \in Summary
<1>1. /\ IsFiniteSet({w \in S : w.status = "PASS"})
      /\ IsFiniteSet({w \in S : w.status = "FAIL"})
      /\ IsFiniteSet({w \in S : w.status = "ERROR"})
      /\ IsFiniteSet({w \in S : w.status = "FAIL" /\ w.rule \in Critical})
  BY FS_Subset
<1>2. /\ Cardinality({w \in S : w.status = "PASS"}) \in Nat
      /\ Cardinality({w \in S : w.status = "FAIL"}) \in Nat
      /\ Cardinality({w \in S : w.status = "ERROR"}) \in Nat
      /\ Cardinality({w \in S : w.status = "FAIL" /\ w.rule \in Critical}) \in Nat
  BY <1>1, FS_CardinalityType
<1> QED BY <1>2 DEF Counts, Summary

\* There are no fewer rules than rules of a run.
LEMMA SkippedType ==
    ASSUME TypeOK, NEW x \in Runs
    PROVE  Skipped(x) \in Nat
<1>1. runnable[x] \in SUBSET Rules
  BY DEF TypeOK
<1>2. IsFiniteSet(Rules) /\ Cardinality(Rules) = NRules /\ NRules \in Nat
  BY RunAssumption, FS_Interval, SMTT(30) DEF Rules
<1>3. IsFiniteSet(runnable[x]) /\ Cardinality(runnable[x]) <= NRules
  BY <1>1, <1>2, FS_Subset
<1>4. Cardinality(runnable[x]) \in Nat
  BY <1>3, FS_CardinalityType
<1> QED BY <1>2, <1>3, <1>4 DEF Skipped

-----------------------------------------------------------------------------
(* The invariant                                                           *)

\* A fault of one of these kinds has happened to run x.
Suffered(x, fault) == \E s \in {"result", "error", "call", "query"} : <<s, fault>> \in suffered[x]

\* dq_results and what BigQuery may still add to it stay finite, and a
\* statement that outlives its client is on the record of its run.
TableInv ==
    /\ IsFiniteSet(rows)
    /\ \A new \in abandoned : IsFiniteSet(new) /\ \A w \in new : Suffered(w.run, "late")

\* No coroutine of a run is at work once its handler has left gather.
JobsInv ==
    \A x \in Runs : phase[x] # "rules" => \A r \in Rules : job[x][r] \in {"none", "done"}

\* The permits of the semaphore, with Running in place of its definition by
\* exclusion.
PermitsInv == \A x \in Runs : Cardinality(Running(x)) <= Concurrency

\* The summary of a run counts its rows.
SummaryInv ==
    \A x \in Runs :
        Summarised(x) /\ ~Suffered(x, "late") /\ ~Suffered(x, "missing")
            => summary[x] = Counts(RowsOf(x), Skipped(x))

RunInv == TypeOK /\ TableInv /\ JobsInv

-----------------------------------------------------------------------------
(* What statements do                                                      *)

\* A fault on record is of a kind the module knows, and stays on record.
LEMMA SuffersKeeps ==
    ASSUME TypeOK, NEW x \in Runs, NEW s \in {"result", "error", "call", "query"},
           NEW fault, Suffers(x, s, fault)
    PROVE  /\ suffered' \in [Runs -> SUBSET ({"result", "error", "call", "query"} \X FaultKinds)]
           /\ <<s, fault>> \in suffered'[x]
           /\ \A y \in Runs : suffered[y] \subseteq suffered'[y]
           /\ \A y \in Runs \ {x} : suffered'[y] = suffered[y]
<1>1. fault \in FaultKinds
  BY RunAssumption DEF Suffers
<1> QED BY <1>1 DEF Suffers, TypeOK

\* An INSERT keeps the table finite and leaves the rows of other runs alone;
\* if it may still be applied, its run has that on record.
LEMMA InsertKeeps ==
    ASSUME TypeOK, TableInv, NEW x \in Runs, NEW s \in {"result", "error", "call"},
           NEW new \in SUBSET Row, IsFiniteSet(new), \A w \in new : w.run = x,
           NEW acknowledged \in BOOLEAN, Insert(x, s, new, acknowledged)
    PROVE  /\ rows' \subseteq Row
           /\ abandoned' \subseteq SUBSET Row
           /\ suffered' \in [Runs -> SUBSET ({"result", "error", "call", "query"} \X FaultKinds)]
           /\ TableInv'
           /\ \A y \in Runs : suffered[y] \subseteq suffered'[y]
           /\ \A y \in Runs \ {x} : RowsOf(y)' = RowsOf(y)
<1>1. /\ rows' \in {rows, rows \cup new}
      /\ suffered' \in [Runs -> SUBSET ({"result", "error", "call", "query"} \X FaultKinds)]
      /\ \A y \in Runs : suffered[y] \subseteq suffered'[y]
      /\ \/ abandoned' = abandoned
         \/ abandoned' = abandoned \cup {new} /\ <<s, "late">> \in suffered'[x]
  <2>1. CASE acknowledged
    BY <2>1 DEF Insert, TypeOK
  <2>2. CASE ~acknowledged
    BY <2>2, SuffersKeeps DEF Insert
  <2> QED BY <2>1, <2>2
<1>2. rows' \subseteq Row /\ abandoned' \subseteq SUBSET Row
  BY <1>1 DEF TypeOK
<1>3. IsFiniteSet(rows')
  <2>1. IsFiniteSet(rows) /\ IsFiniteSet(rows \cup new)
    BY FS_Union DEF TableInv
  <2> QED BY <1>1, <2>1
<1>4. ASSUME NEW n \in abandoned'
      PROVE  IsFiniteSet(n) /\ \A w \in n : Suffered(w.run, "late")'
  <2>1. CASE n \in abandoned
    <3>1. IsFiniteSet(n) /\ \A w \in n : w.run \in Runs /\ Suffered(w.run, "late")
      BY <2>1 DEF TableInv, TypeOK, Row
    <3> QED BY <1>1, <3>1 DEF Suffered
  <2>2. CASE n \notin abandoned
    BY <1>1, <2>2 DEF Suffered
  <2> QED BY <2>1, <2>2
<1>5. \A y \in Runs \ {x} : RowsOf(y)' = RowsOf(y)
  BY <1>1 DEF RowsOf
<1> QED BY <1>1, <1>2, <1>3, <1>4, <1>5 DEF TableInv

\* A statement BigQuery applies late is of runs that have that on record.
LEMMA LandsKeeps ==
    ASSUME TypeOK, TableInv, Lands
    PROVE  /\ rows' \subseteq Row
           /\ abandoned' \subseteq abandoned
           /\ TableInv'
           /\ \A y \in Runs : ~Suffered(y, "late") => RowsOf(y)' = RowsOf(y)
<1>1. PICK new \in abandoned : rows' = rows \cup new /\ abandoned' = abandoned \ {new}
  BY DEF Lands
<1>2. UNCHANGED suffered
  BY DEF Lands, run
<1>3. new \subseteq Row /\ IsFiniteSet(new) /\ \A w \in new : Suffered(w.run, "late")
  BY DEF TypeOK, TableInv
<1>4. IsFiniteSet(rows')
  BY <1>1, <1>3, FS_Union DEF TableInv
<1>5. TableInv'
  BY <1>1, <1>2, <1>4 DEF TableInv, Suffered
<1>6. \A y \in Runs : ~Suffered(y, "late") => RowsOf(y)' = RowsOf(y)
  BY <1>1, <1>3 DEF RowsOf
<1> QED BY <1>1, <1>3, <1>5, <1>6 DEF TypeOK

-----------------------------------------------------------------------------
(* The invariant is inductive                                              *)

\* A handler goes on to where it may go.
LEMMA GotoType ==
    ASSUME TypeOK, NEW x \in Runs, NEW p \in Phases, Goto(x, p)
    PROVE  /\ phase' \in [Runs -> Phases]
           /\ phase'[x] = p
           /\ \A y \in Runs \ {x} : phase'[y] = phase[y]
BY DEF TypeOK, Goto

\* The end of a coroutine: gather ends with the last one.
LEMMA GathersKeeps ==
    ASSUME TypeOK, JobsInv, NEW x \in Runs, NEW r \in Rules,
           job[x][r] \in {"insert", "error"}, Gathers(x, r)
    PROVE  /\ phase' \in [Runs -> Phases]
           /\ job' \in [Runs -> [Rules -> {"none", "waiting", "insert", "error", "done"}]]
           /\ JobsInv'
           /\ Running(x)' \subseteq Running(x)
           /\ phase[x] = "rules" /\ phase'[x] \in {"rules", "summary"}
           /\ \A y \in Runs \ {x} : phase'[y] = phase[y] /\ job'[y] = job[y]
<1>1. phase[x] = "rules"
  BY DEF JobsInv
<1>2. /\ job' \in [Runs -> [Rules -> {"none", "waiting", "insert", "error", "done"}]]
      /\ job'[x][r] = "done"
      /\ \A s \in Rules \ {r} : job'[x][s] = job[x][s]
      /\ \A y \in Runs \ {x} : job'[y] = job[y]
  BY DEF Gathers, TypeOK
<1>3. Running(x)' \subseteq Running(x)
  BY <1>2 DEF Running
<1>4. CASE \A s \in Rules \ {r} : job[x][s] \in {"none", "done"}
  <2>1. Goto(x, "summary")
    BY <1>4 DEF Gathers
  <2>2. /\ phase' \in [Runs -> Phases] /\ phase'[x] = "summary"
        /\ \A y \in Runs \ {x} : phase'[y] = phase[y]
    BY <2>1, GotoType DEF Phases
  <2>3. \A s \in Rules : job'[x][s] \in {"none", "done"}
    BY <1>2, <1>4
  <2> QED BY <1>1, <1>2, <1>3, <2>2, <2>3 DEF JobsInv
<1>5. CASE ~\A s \in Rules \ {r} : job[x][s] \in {"none", "done"}
  <2>1. UNCHANGED phase
    BY <1>5 DEF Gathers
  <2> QED BY <1>1, <1>2, <1>3, <2>1 DEF JobsInv, TypeOK
<1> QED BY <1>4, <1>5

\* The handler of a run that has no coroutine at work goes on.
LEMMA JobsKept ==
    ASSUME JobsInv, NEW x \in Runs, phase[x] # "rules", UNCHANGED job,
           \A y \in Runs \ {x} : phase'[y] = phase[y]
    PROVE  JobsInv'
BY DEF JobsInv

\* When dq_results, the abandoned statements and the faults stay, so does what
\* is known of them.
LEMMA TableKept ==
    ASSUME TableInv, UNCHANGED table
    PROVE  TableInv'
BY DEF TableInv, table, Suffered

\* Nothing has run at first.
LEMMA InvInit == Init => RunInv
<1> SUFFICES ASSUME Init PROVE RunInv
  OBVIOUS
<1>1. TypeOK
  BY RunAssumption DEF Init, TypeOK, Phases, Summary, NoSummary
<1>2. TableInv
  BY FS_EmptySet DEF Init, TableInv
<1>3. JobsInv
  BY DEF Init, JobsInv
<1> QED BY <1>1, <1>2, <1>3 DEF RunInv

\* Time, and statements that land late.
LEMMA InvEnvironment ==
    ASSUME RunInv, Lands \/ TimePasses \/ UNCHANGED vars
    PROVE  RunInv'
<1>1. CASE Lands
  <2>1. TableInv' /\ rows' \subseteq Row /\ abandoned' \subseteq abandoned
    BY <1>1, LandsKeeps DEF RunInv
  <2>2. UNCHANGED <<run, clock, suffered>>
    BY <1>1 DEF Lands
  <2>3. TypeOK'
    BY <2>1, <2>2 DEF RunInv, TypeOK, run
  <2> QED BY <2>1, <2>2, <2>3 DEF RunInv, JobsInv, run
<1>2. CASE TimePasses
  <2>1. clock' \in Nat
    BY <1>2, RunAssumption DEF TimePasses, RunInv, TypeOK
  <2>2. UNCHANGED <<run, table>>
    BY <1>2 DEF TimePasses
  <2>3. TypeOK'
    BY <2>1, <2>2 DEF RunInv, TypeOK, run, table
  <2> QED BY <2>2, <2>3, TableKept DEF RunInv, JobsInv, run
<1>3. CASE UNCHANGED vars
  BY <1>3, TableKept DEF RunInv, TypeOK, JobsInv, vars, run, table
<1> QED BY <1>1, <1>2, <1>3

\* The steps of a handler before its statements, and its answer.
LEMMA InvHandler ==
    ASSUME RunInv, NEW x \in Runs,
           \/ Execute(x) \/ ResultsTableEnsured(x) \/ ConfigTableEnsured(x)
           \/ AlertAnswered(x)
    PROVE  RunInv'
<1>0. TypeOK /\ TableInv /\ JobsInv
  BY DEF RunInv
<1>1. CASE Execute(x)
  <2>1. phase' \in [Runs -> Phases] /\ \A y \in Runs \ {x} : phase'[y] = phase[y]
    BY <1>0, <1>1, GotoType DEF Execute, Phases
  <2>2. procedure' \in [Runs -> BOOLEAN] /\ runnable' \in [Runs -> SUBSET Rules]
    BY <1>0, <1>1 DEF Execute, TypeOK
  <2>3. UNCHANGED <<job, stamp, attempt, summary, alert, table, clock>>
    BY <1>1 DEF Execute
  <2>4. TypeOK'
    BY <1>0, <2>1, <2>2, <2>3 DEF TypeOK, table
  <2>5. JobsInv'
    BY <1>0, <1>1, <2>1, <2>3, JobsKept DEF Execute
  <2> QED BY <1>0, <2>3, <2>4, <2>5, TableKept DEF RunInv
<1>2. CASE ResultsTableEnsured(x)
  <2>1. phase' \in [Runs -> Phases] /\ \A y \in Runs \ {x} : phase'[y] = phase[y]
    BY <1>0, <1>2, GotoType DEF ResultsTableEnsured, Phases
  <2>2. UNCHANGED <<procedure, runnable, job, stamp, attempt, summary, alert, table, clock>>
    BY <1>2 DEF ResultsTableEnsured
  <2>3. TypeOK'
    BY <1>0, <2>1, <2>2 DEF TypeOK, table
  <2>4. JobsInv'
    BY <1>0, <1>2, <2>1, <2>2, JobsKept DEF ResultsTableEnsured
  <2> QED BY <1>0, <2>2, <2>3, <2>4, TableKept DEF RunInv
<1>3. CASE ConfigTableEnsured(x)
  <2>1. UNCHANGED <<procedure, runnable, attempt, summary, alert, table>>
    BY <1>3 DEF ConfigTableEnsured
  <2>2. phase' \in [Runs -> Phases] /\ \A y \in Runs \ {x} : phase'[y] = phase[y]
    BY <1>0, <1>3, GotoType DEF ConfigTableEnsured, Phases
  <2>3. /\ stamp' \in [Runs -> [Rules -> Nat]]
        /\ clock' \in Nat
        /\ job' \in [Runs -> [Rules -> {"none", "waiting", "insert", "error", "done"}]]
    <3>1. CASE stamp' = [stamp EXCEPT ![x] = [r \in Rules |-> clock]]
               /\ clock' = clock + 1 /\ UNCHANGED job
      BY <1>0, <3>1 DEF TypeOK
    <3>2. CASE job' = [job EXCEPT ![x] =
                         [r \in Rules |-> IF r \in runnable[x] THEN "waiting" ELSE "none"]]
               /\ UNCHANGED <<stamp, clock>>
      BY <1>0, <3>2 DEF TypeOK
    <3>3. CASE UNCHANGED <<job, stamp, clock>>
      BY <1>0, <3>3 DEF TypeOK
    <3> QED BY <1>3, <3>1, <3>2, <3>3 DEF ConfigTableEnsured
  <2>4. TypeOK'
    BY <1>0, <2>1, <2>2, <2>3 DEF TypeOK, table
  <2>5. JobsInv'
    <3>1. CASE UNCHANGED job
      BY <1>0, <1>3, <2>2, <3>1, JobsKept DEF ConfigTableEnsured
    <3>2. CASE /\ Goto(x, IF runnable[x] = {} THEN "summary" ELSE "rules")
               /\ job' = [job EXCEPT ![x] =
                            [r \in Rules |-> IF r \in runnable[x] THEN "waiting" ELSE "none"]]
      <4>1. phase'[x] # "rules" => \A r \in Rules : job'[x][r] = "none"
        BY <1>0, <3>2 DEF Goto, TypeOK
      <4>2. \A y \in Runs \ {x} : job'[y] = job[y]
        BY <1>0, <3>2 DEF TypeOK
      <4> QED BY <1>0, <2>2, <4>1, <4>2 DEF JobsInv
    <3> QED BY <1>3, <3>1, <3>2 DEF ConfigTableEnsured
  <2> QED BY <1>0, <2>1, <2>4, <2>5, TableKept DEF RunInv
<1>4. CASE AlertAnswered(x)
  <2>1. phase' \in [Runs -> Phases] /\ \A y \in Runs \ {x} : phase'[y] = phase[y]
    BY <1>0, <1>4, GotoType DEF AlertAnswered, Phases
  <2>2. alert' \in [Runs -> {"none", "sent", "not_sent"}]
    BY <1>0, <1>4 DEF AlertAnswered, TypeOK
  <2>3. UNCHANGED <<procedure, runnable, job, stamp, attempt, summary, table, clock>>
    BY <1>4 DEF AlertAnswered
  <2>4. TypeOK'
    BY <1>0, <2>1, <2>2, <2>3 DEF TypeOK, table
  <2>5. JobsInv'
    BY <1>0, <1>4, <2>1, <2>3, JobsKept DEF AlertAnswered
  <2> QED BY <1>0, <2>3, <2>4, <2>5, TableKept DEF RunInv
<1> QED BY <1>1, <1>2, <1>3, <1>4

\* The CALL of a procedure, and the coroutines of the rules.
LEMMA InvStatements ==
    ASSUME RunInv, NEW x \in Runs,
           \/ CallAnswered(x)
           \/ \E r \in Rules : RuleStarts(x, r) \/ RuleAnswered(x, r) \/ ErrorRecorded(x, r)
    PROVE  RunInv'
<1>0. TypeOK /\ TableInv /\ JobsInv
  BY DEF RunInv
<1>1. CASE CallAnswered(x)
  <2>1. PICK verdict \in [runnable[x] -> Verdicts], acknowledged \in BOOLEAN :
          Insert(x, "call", {RowOf(x, r, verdict[r]) : r \in runnable[x]}, acknowledged)
    BY <1>1 DEF CallAnswered
  <2>2. runnable[x] \in SUBSET Rules
    BY <1>0 DEF TypeOK
  <2>3. /\ rows' \subseteq Row /\ abandoned' \subseteq SUBSET Row /\ TableInv'
        /\ suffered' \in [Runs -> SUBSET ({"result", "error", "call", "query"} \X FaultKinds)]
    BY <1>0, <2>1, <2>2, RowsOfStatement, InsertKeeps
  <2>4. phase' \in [Runs -> Phases] /\ \A y \in Runs \ {x} : phase'[y] = phase[y]
    BY <1>0, <1>1, GotoType DEF CallAnswered, Phases
  <2>5. UNCHANGED <<procedure, runnable, job, stamp, attempt, summary, alert, clock>>
    BY <1>1 DEF CallAnswered
  <2>6. TypeOK'
    BY <1>0, <2>3, <2>4, <2>5 DEF TypeOK
  <2>7. JobsInv'
    BY <1>0, <1>1, <2>4, <2>5, JobsKept DEF CallAnswered
  <2> QED BY <2>3, <2>6, <2>7 DEF RunInv
<1>2. ASSUME NEW r \in Rules, RuleStarts(x, r)
      PROVE  RunInv'
  <2>1. /\ job' \in [Runs -> [Rules -> {"none", "waiting", "insert", "error", "done"}]]
        /\ stamp' \in [Runs -> [Rules -> Nat]] /\ clock' \in Nat
        /\ \A y \in Runs \ {x} : job'[y] = job[y]
    BY <1>0, <1>2 DEF RuleStarts, TypeOK
  <2>2. UNCHANGED <<phase, procedure, runnable, attempt, summary, alert, table>>
    BY <1>2 DEF RuleStarts
  <2>3. TypeOK'
    BY <1>0, <2>1, <2>2 DEF TypeOK, table
  <2>4. phase[x] = "rules"
    BY <1>0, <1>2 DEF RuleStarts, JobsInv
  <2>5. JobsInv'
    BY <1>0, <2>1, <2>2, <2>4 DEF JobsInv
  <2> QED BY <1>0, <2>2, <2>3, <2>5, TableKept DEF RunInv
<1>3. ASSUME NEW r \in Rules, RuleAnswered(x, r)
      PROVE  RunInv'
  <2>1. PICK verdict \in Verdicts, acknowledged \in BOOLEAN :
          /\ Insert(x, "result", {RowOf(x, r, verdict)}, acknowledged)
          /\ \/ acknowledged /\ Gathers(x, r) /\ UNCHANGED <<stamp, clock>>
             \/ /\ job' = [job EXCEPT ![x][r] = "error"]
                /\ stamp' = [stamp EXCEPT ![x][r] = clock]
                /\ clock' = clock + 1
                /\ UNCHANGED phase
    BY <1>3 DEF RuleAnswered
  <2>2. /\ rows' \subseteq Row /\ abandoned' \subseteq SUBSET Row /\ TableInv'
        /\ suffered' \in [Runs -> SUBSET ({"result", "error", "call", "query"} \X FaultKinds)]
    BY <1>0, <2>1, OneRow, InsertKeeps
  <2>3. job[x][r] = "insert"
    BY <1>3 DEF RuleAnswered
  <2>4. UNCHANGED <<procedure, runnable, attempt, summary, alert>>
    BY <1>3 DEF RuleAnswered
  <2>5. CASE Gathers(x, r) /\ UNCHANGED <<stamp, clock>>
    <3>1. /\ phase' \in [Runs -> Phases] /\ JobsInv'
          /\ job' \in [Runs -> [Rules -> {"none", "waiting", "insert", "error", "done"}]]
      BY <1>0, <2>3, <2>5, GathersKeeps
    <3>2. TypeOK'
      BY <1>0, <2>2, <2>4, <2>5, <3>1 DEF TypeOK
    <3> QED BY <2>2, <3>1, <3>2 DEF RunInv
  <2>6. CASE /\ job' = [job EXCEPT ![x][r] = "error"]
             /\ stamp' = [stamp EXCEPT ![x][r] = clock]
             /\ clock' = clock + 1
             /\ UNCHANGED phase
    <3>1. /\ job' \in [Runs -> [Rules -> {"none", "waiting", "insert", "error", "done"}]]
          /\ stamp' \in [Runs -> [Rules -> Nat]] /\ clock' \in Nat
          /\ \A y \in Runs \ {x} : job'[y] = job[y]
      BY <1>0, <2>6 DEF TypeOK
    <3>2. TypeOK'
      BY <1>0, <2>2, <2>4, <2>6, <3>1 DEF TypeOK
    <3>3. phase[x] = "rules"
      BY <1>0, <2>3 DEF JobsInv
    <3>4. JobsInv'
      BY <1>0, <2>6, <3>1, <3>3 DEF JobsInv
    <3> QED BY <2>2, <3>2, <3>4 DEF RunInv
  <2> QED BY <2>1, <2>5, <2>6
<1>4. ASSUME NEW r \in Rules, ErrorRecorded(x, r)
      PROVE  RunInv'
  <2>1. PICK acknowledged \in BOOLEAN :
          Insert(x, "error", {RowOf(x, r, "ERROR")}, acknowledged)
    BY <1>4 DEF ErrorRecorded
  <2>2. /\ rows' \subseteq Row /\ abandoned' \subseteq SUBSET Row /\ TableInv'
        /\ suffered' \in [Runs -> SUBSET ({"result", "error", "call", "query"} \X FaultKinds)]
    BY <1>0, <2>1, OneRow, InsertKeeps
  <2>3. job[x][r] = "error" /\ Gathers(x, r)
    BY <1>4 DEF ErrorRecorded
  <2>4. /\ phase' \in [Runs -> Phases] /\ JobsInv'
        /\ job' \in [Runs -> [Rules -> {"none", "waiting", "insert", "error", "done"}]]
    BY <1>0, <2>3, GathersKeeps
  <2>5. UNCHANGED <<procedure, runnable, stamp, attempt, summary, alert, clock>>
    BY <1>4 DEF ErrorRecorded
  <2>6. TypeOK'
    BY <1>0, <2>2, <2>4, <2>5 DEF TypeOK
  <2> QED BY <2>2, <2>4, <2>6 DEF RunInv
<1> QED BY <1>1, <1>2, <1>3, <1>4

\* A summary of finitely many rows is well formed, and the handler goes on.
LEMMA SummariseType ==
    ASSUME TypeOK, NEW x \in Runs, NEW s \in Summary, Summarise(x, s)
    PROVE  /\ summary' \in [Runs -> Summary]
           /\ summary'[x] = s
           /\ \A y \in Runs \ {x} : summary'[y] = summary[y] /\ phase'[y] = phase[y]
           /\ phase' \in [Runs -> Phases] /\ phase'[x] \in {"alert", "answered"}
<1>1. /\ phase' \in [Runs -> Phases] /\ phase'[x] \in {"alert", "answered"}
      /\ \A y \in Runs \ {x} : phase'[y] = phase[y]
  BY GotoType DEF Summarise, Phases
<1> QED BY <1>1 DEF Summarise, TypeOK

\* The summary query.
LEMMA InvSummary ==
    ASSUME RunInv, NEW x \in Runs, SummaryRead(x) \/ SummaryMissing(x) \/ SummaryFailed(x)
    PROVE  RunInv'
<1>0. TypeOK /\ TableInv /\ JobsInv
  BY DEF RunInv
<1>1. Skipped(x) \in Nat
  BY <1>0, SkippedType
<1>2. CASE SummaryRead(x)
  <2>1. IsFiniteSet(RowsOf(x))
    BY <1>0, FS_Subset DEF RowsOf, TableInv
  <2>2. Counts(RowsOf(x), Skipped(x)) \in Summary
    BY <1>1, <2>1, CountsType
  <2>3. /\ summary' \in [Runs -> Summary] /\ phase' \in [Runs -> Phases]
        /\ \A y \in Runs \ {x} : phase'[y] = phase[y]
    BY <1>0, <1>2, <2>2, SummariseType DEF SummaryRead
  <2>4. UNCHANGED <<procedure, runnable, job, stamp, attempt, alert, table, clock>>
    BY <1>2 DEF SummaryRead
  <2>5. TypeOK'
    BY <1>0, <2>3, <2>4 DEF TypeOK, table
  <2>6. JobsInv'
    BY <1>0, <1>2, <2>3, <2>4, JobsKept DEF SummaryRead
  <2> QED BY <1>0, <2>4, <2>5, <2>6, TableKept DEF RunInv
<1>3. CASE SummaryMissing(x)
  <2>1. Counts({}, Skipped(x)) \in Summary
    BY <1>1, FS_EmptySet, CountsType
  <2>2. /\ summary' \in [Runs -> Summary] /\ phase' \in [Runs -> Phases]
        /\ \A y \in Runs \ {x} : phase'[y] = phase[y]
    BY <1>0, <1>3, <2>1, SummariseType DEF SummaryMissing
  <2>3. /\ suffered' \in [Runs -> SUBSET ({"result", "error", "call", "query"} \X FaultKinds)]
        /\ \A y \in Runs : suffered[y] \subseteq suffered'[y]
    BY <1>0, <1>3, SuffersKeeps DEF SummaryMissing
  <2>4. UNCHANGED <<procedure, runnable, job, stamp, attempt, alert, rows, abandoned, clock>>
    BY <1>3 DEF SummaryMissing
  <2>5. TypeOK'
    BY <1>0, <2>2, <2>3, <2>4 DEF TypeOK
  <2>6. TableInv'
    <3>1. ASSUME NEW new \in abandoned, NEW w \in new
          PROVE  Suffered(w.run, "late")'
      <4>1. w.run \in Runs /\ Suffered(w.run, "late")
        BY <1>0 DEF TableInv, TypeOK, Row
      <4> QED BY <2>3, <4>1 DEF Suffered
    <3> QED BY <1>0, <2>4, <3>1 DEF TableInv
  <2>7. JobsInv'
    BY <1>0, <1>3, <2>2, <2>4, JobsKept DEF SummaryMissing
  <2> QED BY <2>5, <2>6, <2>7 DEF RunInv
<1>4. CASE SummaryFailed(x)
  <2>1. UNCHANGED <<procedure, runnable, job, stamp, summary, alert, table, clock>>
    BY <1>4 DEF SummaryFailed
  <2>2. phase' \in [Runs -> Phases] /\ \A y \in Runs \ {x} : phase'[y] = phase[y]
    BY <1>0, <1>4, GotoType DEF SummaryFailed, Phases, TypeOK
  <2>3. attempt' \in [Runs -> 1 .. MaxAttempts]
    BY <1>0, <1>4, RunAssumption DEF SummaryFailed, MayRetry, TypeOK
  <2>4. TypeOK'
    BY <1>0, <2>1, <2>2, <2>3 DEF TypeOK, table
  <2>5. JobsInv'
    BY <1>0, <1>4, <2>1, <2>2, JobsKept DEF SummaryFailed
  <2> QED BY <1>0, <2>1, <2>4, <2>5, TableKept DEF RunInv
<1> QED BY <1>2, <1>3, <1>4

\* Every step keeps the types, the table and the coroutines within their run.
LEMMA InvNext == RunInv /\ [Next]_vars => RunInv'
<1> SUFFICES ASSUME RunInv, [Next]_vars PROVE RunInv'
  OBVIOUS
<1>1. CASE Lands \/ TimePasses \/ UNCHANGED vars
  BY <1>1, InvEnvironment
<1>2. ASSUME NEW x \in Runs, Execute(x) \/ Resume(x)
      PROVE  RunInv'
  BY <1>2, InvHandler, InvStatements, InvSummary DEF Resume
<1> QED BY <1>1, <1>2 DEF Next

-----------------------------------------------------------------------------
(* Permits                                                                 *)

\* The rules that hold a permit are finitely many.
LEMMA RunningFinite ==
    \A x \in Runs : IsFiniteSet(Running(x)) /\ Cardinality(Running(x)) \in Nat
<1> SUFFICES ASSUME NEW x \in Runs
             PROVE  IsFiniteSet(Running(x)) /\ Cardinality(Running(x)) \in Nat
  OBVIOUS
<1>1. Running(x) \in SUBSET Rules
  BY DEF Running
<1> QED BY <1>1, RulesFinite, FS_CardinalityType

\* One step of one coroutine: it takes a permit that is free, keeps the one it
\* has, or gives it back; the permits of other runs are their own.
LEMMA OneRuleSteps ==
    ASSUME RunInv, NEW x \in Runs, NEW r \in Rules,
           RuleStarts(x, r) \/ RuleAnswered(x, r) \/ ErrorRecorded(x, r),
           NEW y \in Runs
    PROVE  \/ Running(y)' \subseteq Running(y)
           \/ /\ Cardinality(Running(y)) < Concurrency
              /\ Running(y)' \subseteq Running(y) \cup {r}
<1>0. TypeOK /\ JobsInv
  BY DEF RunInv
<1>1. CASE RuleStarts(x, r)
  <2>1. /\ \A s \in Rules \ {r} : job'[x][s] = job[x][s]
        /\ \A z \in Runs \ {x} : job'[z] = job[z]
    BY <1>0, <1>1 DEF RuleStarts, TypeOK
  <2>2. Cardinality(Running(x)) < Concurrency
    BY <1>1 DEF RuleStarts
  <2> QED BY <2>1, <2>2 DEF Running
<1>2. CASE Gathers(x, r) /\ job[x][r] \in {"insert", "error"}
  <2>1. Running(x)' \subseteq Running(x) /\ \A z \in Runs \ {x} : job'[z] = job[z]
    BY <1>0, <1>2, GathersKeeps
  <2> QED BY <2>1 DEF Running
<1>3. CASE job' = [job EXCEPT ![x][r] = "error"] /\ job[x][r] = "insert"
  <2>1. /\ \A s \in Rules \ {r} : job'[x][s] = job[x][s]
        /\ \A z \in Runs \ {x} : job'[z] = job[z]
    BY <1>0, <1>3 DEF TypeOK
  <2> QED BY <1>3, <2>1 DEF Running
<1> QED BY <1>1, <1>2, <1>3 DEF RuleAnswered, ErrorRecorded

\* Every step keeps to the permits.
LEMMA PermitsNext == RunInv /\ PermitsInv /\ [Next]_vars => PermitsInv'
<1> SUFFICES ASSUME RunInv, PermitsInv, [Next]_vars, NEW y \in Runs
             PROVE  Cardinality(Running(y)') <= Concurrency
  BY DEF PermitsInv
<1>0. /\ TypeOK /\ JobsInv /\ Concurrency \in Nat
      /\ Cardinality(Running(y)) \in Nat /\ Cardinality(Running(y)) <= Concurrency
      /\ IsFiniteSet(Running(y))
  BY RunningFinite, RunAssumption DEF RunInv, PermitsInv
<1>1. CASE Running(y)' \subseteq Running(y)
  <2>1. Cardinality(Running(y)') <= Cardinality(Running(y)) /\ IsFiniteSet(Running(y)')
    BY <1>0, <1>1, FS_Subset
  <2>2. Cardinality(Running(y)') \in Nat
    BY <2>1, FS_CardinalityType
  <2> QED BY <1>0, <2>1, <2>2
<1>2. ASSUME NEW r \in Rules, Cardinality(Running(y)) < Concurrency,
             Running(y)' \subseteq Running(y) \cup {r}
      PROVE  Cardinality(Running(y)') <= Concurrency
  <2> DEFINE bigger == Running(y) \cup {r}
  <2>1. IsFiniteSet(bigger) /\ Cardinality(bigger) <= Cardinality(Running(y)) + 1
    <3>1. /\ IsFiniteSet(bigger)
          /\ \/ Cardinality(bigger) = Cardinality(Running(y))
             \/ Cardinality(bigger) = Cardinality(Running(y)) + 1
      BY <1>0, FS_AddElement
    <3> QED BY <1>0, <3>1
  <2>2. Cardinality(Running(y)') <= Cardinality(bigger) /\ IsFiniteSet(Running(y)')
    BY <1>2, <2>1, FS_Subset
  <2>3. Cardinality(Running(y)') \in Nat /\ Cardinality(bigger) \in Nat
    BY <2>1, <2>2, FS_CardinalityType
  <2> QED BY <1>0, <1>2, <2>1, <2>2, <2>3
<1>3. CASE UNCHANGED job
  BY <1>1, <1>3 DEF Running
<1>4. ASSUME NEW x \in Runs, Execute(x) \/ Resume(x)
      PROVE  Cardinality(Running(y)') <= Concurrency
  <2>1. CASE \E r \in Rules : RuleStarts(x, r) \/ RuleAnswered(x, r) \/ ErrorRecorded(x, r)
    BY <1>1, <1>2, <2>1, OneRuleSteps
  <2>2. CASE ConfigTableEnsured(x) /\ ~procedure[x]
    <3>1. \A z \in Runs \ {x} : job'[z] = job[z] \/ job' = job
      BY <1>0, <2>2 DEF ConfigTableEnsured, TypeOK
    <3>2. job' = job \/ \A r \in Rules : job'[x][r] \in {"none", "waiting"}
      BY <1>0, <2>2 DEF ConfigTableEnsured, TypeOK
    <3>3. Running(y)' \subseteq Running(y)
      BY <3>1, <3>2 DEF Running
    <3> QED BY <1>1, <3>3
  <2>3. CASE UNCHANGED job
    BY <1>3, <2>3
  <2> QED BY <1>4, <2>1, <2>2, <2>3
          DEF Resume, Execute, ResultsTableEnsured, ConfigTableEnsured, CallAnswered,
              SummaryRead, SummaryMissing, SummaryFailed, AlertAnswered
<1>5. CASE Lands \/ TimePasses \/ UNCHANGED vars
  BY <1>3, <1>5 DEF Lands, TimePasses, vars, run
<1> QED BY <1>4, <1>5 DEF Next

-----------------------------------------------------------------------------
(* Summaries                                                               *)

\* What a summary of run y depends on.
SummaryKept(y) ==
    /\ phase'[y] = phase[y]
    /\ summary'[y] = summary[y]
    /\ Skipped(y)' = Skipped(y)
    /\ RowsOf(y)' = RowsOf(y)
    /\ suffered[y] \subseteq suffered'[y]

\* A step of one run takes no part in the summary of another.
LEMMA OthersKept ==
    ASSUME RunInv, NEW x \in Runs, Execute(x) \/ Resume(x), NEW y \in Runs \ {x}
    PROVE  SummaryKept(y)
<1>0. TypeOK /\ TableInv /\ JobsInv
  BY DEF RunInv
<1>1. CASE Execute(x)
  <2>1. phase'[y] = phase[y] /\ procedure'[y] = procedure[y] /\ runnable'[y] = runnable[y]
    BY <1>0, <1>1 DEF Execute, Goto, TypeOK
  <2>2. UNCHANGED <<summary, table>>
    BY <1>1 DEF Execute
  <2> QED BY <2>1, <2>2 DEF SummaryKept, Skipped, RowsOf, table
<1>2. CASE Resume(x)
  <2>1. UNCHANGED <<procedure, runnable>>
    BY <1>2 DEF Resume, ResultsTableEnsured, ConfigTableEnsured, CallAnswered, RuleStarts,
                RuleAnswered, ErrorRecorded, SummaryRead, SummaryMissing, SummaryFailed,
                AlertAnswered
  <2>2. Skipped(y)' = Skipped(y)
    BY <2>1 DEF Skipped
  <2>3. CASE \/ ResultsTableEnsured(x) \/ ConfigTableEnsured(x) \/ AlertAnswered(x)
             \/ SummaryFailed(x) \/ \E r \in Rules : RuleStarts(x, r)
    <3>1. UNCHANGED <<summary, table>>
      BY <2>3 DEF ResultsTableEnsured, ConfigTableEnsured, AlertAnswered, SummaryFailed,
                  RuleStarts
    <3>2. phase'[y] = phase[y]
      BY <1>0, <2>3 DEF ResultsTableEnsured, ConfigTableEnsured, AlertAnswered, SummaryFailed,
                        RuleStarts, Goto, TypeOK
    <3> QED BY <2>2, <3>1, <3>2 DEF SummaryKept, RowsOf, table
  <2>4. CASE CallAnswered(x)
    <3>1. PICK verdict \in [runnable[x] -> Verdicts], acknowledged \in BOOLEAN :
            Insert(x, "call", {RowOf(x, r, verdict[r]) : r \in runnable[x]}, acknowledged)
      BY <2>4 DEF CallAnswered
    <3>2. runnable[x] \in SUBSET Rules
      BY <1>0 DEF TypeOK
    <3>3. RowsOf(y)' = RowsOf(y) /\ suffered[y] \subseteq suffered'[y]
      BY <1>0, <3>1, <3>2, RowsOfStatement, InsertKeeps
    <3>4. phase'[y] = phase[y] /\ UNCHANGED summary
      BY <1>0, <2>4 DEF CallAnswered, Goto, TypeOK
    <3> QED BY <2>2, <3>3, <3>4 DEF SummaryKept
  <2>5. ASSUME NEW r \in Rules, RuleAnswered(x, r) \/ ErrorRecorded(x, r)
        PROVE  SummaryKept(y)
    <3>1. PICK s \in {"result", "error"}, status \in Verdicts \cup {"ERROR"},
               acknowledged \in BOOLEAN :
            Insert(x, s, {RowOf(x, r, status)}, acknowledged)
      BY <2>5 DEF RuleAnswered, ErrorRecorded
    <3>2. RowsOf(y)' = RowsOf(y) /\ suffered[y] \subseteq suffered'[y]
      BY <1>0, <3>1, OneRow, InsertKeeps
    <3>3. phase'[y] = phase[y] /\ UNCHANGED summary
      BY <1>0, <2>5 DEF RuleAnswered, ErrorRecorded, Gathers, Goto, TypeOK
    <3> QED BY <2>2, <3>2, <3>3 DEF SummaryKept
  <2>6. CASE SummaryRead(x) \/ SummaryMissing(x)
    <3>1. phase'[y] = phase[y] /\ summary'[y] = summary[y]
      BY <1>0, <2>6 DEF SummaryRead, SummaryMissing, Summarise, Goto, TypeOK
    <3>2. UNCHANGED rows /\ suffered[y] \subseteq suffered'[y]
      BY <1>0, <2>6, SuffersKeeps DEF SummaryRead, SummaryMissing, table
    <3> QED BY <2>2, <3>1, <3>2 DEF SummaryKept, RowsOf
  <2> QED BY <1>2, <2>3, <2>4, <2>5, <2>6 DEF Resume
<1> QED BY <1>1, <1>2

\* Once a run has its summary, all it does is send its alert; it gets it from
\* its rows, or from a table that is missing.
LEMMA OwnSummary ==
    ASSUME RunInv, NEW x \in Runs, Execute(x) \/ Resume(x), Summarised(x)'
    PROVE  \/ /\ Summarised(x)
              /\ UNCHANGED <<procedure, runnable, summary, rows, suffered>>
           \/ summary'[x] = Counts(RowsOf(x)', Skipped(x)')
           \/ Suffered(x, "missing")'
<1>0. TypeOK /\ TableInv /\ JobsInv
  BY DEF RunInv
<1>1. phase'[x] \in {"alert", "answered"}
  BY DEF Summarised
<1>2. CASE SummaryRead(x)
  <2>1. summary'[x] = Counts(RowsOf(x), Skipped(x))
    BY <1>0, <1>2 DEF SummaryRead, Summarise, TypeOK
  <2>2. UNCHANGED <<procedure, runnable, rows>>
    BY <1>2 DEF SummaryRead, table
  <2>3. RowsOf(x)' = RowsOf(x) /\ Skipped(x)' = Skipped(x)
    BY <2>2 DEF RowsOf, Skipped
  <2> QED BY <2>1, <2>3
<1>3. CASE SummaryMissing(x)
  BY <1>0, <1>3, SuffersKeeps DEF SummaryMissing, Suffered
<1>4. CASE AlertAnswered(x)
  BY <1>4 DEF AlertAnswered, Summarised, table
<1>5. CASE Execute(x) \/ ResultsTableEnsured(x) \/ ConfigTableEnsured(x)
           \/ CallAnswered(x) \/ SummaryFailed(x)
  <2>1. phase[x] \in {"idle", "ddl_results", "ddl_config", "call", "summary"}
    BY <1>5 DEF Execute, ResultsTableEnsured, ConfigTableEnsured, CallAnswered, SummaryFailed
  <2>2. phase'[x] \in {"ddl_results", "ddl_config", "rules", "call", "summary", "failed"}
    BY <1>0, <1>5 DEF Execute, ResultsTableEnsured, ConfigTableEnsured, CallAnswered,
                      SummaryFailed, Goto, TypeOK
  <2> QED BY <1>1, <2>2
<1>6. ASSUME NEW r \in Rules, RuleStarts(x, r)
      PROVE  FALSE
  BY <1>0, <1>1, <1>6 DEF RuleStarts, JobsInv
<1>7. ASSUME NEW r \in Rules, RuleAnswered(x, r) \/ ErrorRecorded(x, r)
      PROVE  FALSE
  <2>1. job[x][r] \in {"insert", "error"}
    BY <1>7 DEF RuleAnswered, ErrorRecorded
  <2>2. phase[x] = "rules"
    BY <1>0, <2>1 DEF JobsInv
  <2>3. phase'[x] \in {"rules", "summary"}
    BY <1>0, <1>7, <2>1, <2>2, GathersKeeps DEF RuleAnswered, ErrorRecorded
  <2> QED BY <1>1, <2>3
<1> QED BY <1>2, <1>3, <1>4, <1>5, <1>6, <1>7 DEF Resume

\* Every step keeps summaries true to the rows.
LEMMA SummaryNext == RunInv /\ SummaryInv /\ [Next]_vars => SummaryInv'
<1> SUFFICES ASSUME RunInv, SummaryInv, [Next]_vars, NEW y \in Runs,
                    Summarised(y)', ~Suffered(y, "late")', ~Suffered(y, "missing")'
             PROVE  summary'[y] = Counts(RowsOf(y)', Skipped(y)')
  BY DEF SummaryInv
<1>1. CASE SummaryKept(y)
  <2>1. Summarised(y) /\ ~Suffered(y, "late") /\ ~Suffered(y, "missing")
    BY <1>1 DEF SummaryKept, Summarised, Suffered
  <2> QED BY <1>1, <2>1 DEF SummaryKept, SummaryInv
<1>2. CASE Lands
  <2>1. UNCHANGED <<phase, summary, procedure, runnable, suffered>>
    BY <1>2 DEF Lands, run
  <2>2. ~Suffered(y, "late")
    BY <2>1 DEF Suffered
  <2>3. RowsOf(y)' = RowsOf(y)
    BY <1>2, <2>2, LandsKeeps DEF RunInv
  <2> QED BY <1>1, <2>1, <2>3 DEF SummaryKept, Skipped
<1>3. CASE TimePasses \/ UNCHANGED vars
  <2>1. UNCHANGED <<phase, summary, procedure, runnable, suffered, rows>>
    BY <1>3 DEF TimePasses, vars, run, table
  <2> QED BY <1>1, <2>1 DEF SummaryKept, Skipped, RowsOf
<1>4. ASSUME NEW x \in Runs, Execute(x) \/ Resume(x)
      PROVE  summary'[y] = Counts(RowsOf(y)', Skipped(y)')
  <2>1. CASE y # x
    BY <1>1, <1>4, <2>1, OthersKept
  <2>2. CASE y = x
    <3>1. CASE Summarised(y) /\ UNCHANGED <<procedure, runnable, summary, rows, suffered>>
      <4>1. ~Suffered(y, "late") /\ ~Suffered(y, "missing")
        BY <3>1 DEF Suffered
      <4>2. RowsOf(y)' = RowsOf(y) /\ Skipped(y)' = Skipped(y)
        BY <3>1 DEF RowsOf, Skipped
      <4> QED BY <3>1, <4>1, <4>2 DEF SummaryInv
    <3> QED BY <1>4, <2>2, <3>1, OwnSummary
  <2> QED BY <2>1, <2>2
<1> QED BY <1>2, <1>3, <1>4 DEF Next

-----------------------------------------------------------------------------
(* The rows of each rule                                                   *)

RowsFor(x, r) == {w \in rows : w.run = x /\ w.rule = r}

\* Run x has suffered what may leave a rule without a row, or hide its row.
Silenced(x) == \E fault \in suffered[x] : fault[1] \in {"call", "error", "query"}

BeforeStatements(x) == phase[x] \in {"idle", "ddl_results", "ddl_config"}
AfterDDL(x) == phase[x] \in {"rules", "summary", "alert", "answered"}

\* Before its first statement a run has no coroutine, fault or row; only a CALL
\* is of the procedure, and else the coroutines are those of the rules selected.
WorkInv(x) ==
    /\ BeforeStatements(x) => /\ \A r \in Rules : job[x][r] = "none" /\ RowsFor(x, r) = {}
                              /\ suffered[x] = {}
    /\ phase[x] = "call" => procedure[x]
    /\ procedure[x] => \A r \in Rules : job[x][r] = "none"
    /\ AfterDDL(x) /\ ~procedure[x]
         => \A r \in Rules : r \in runnable[x] <=> job[x][r] # "none"
    /\ \A fault \in suffered[x] : /\ fault[1] = "call" => procedure[x]
                                  /\ fault[1] = "query" <=> fault[2] = "missing"

\* A rule has one row if its coroutine has ended, and none before, unless the
\* run has suffered a fault that miscounts.
ExactInv(x) ==
    AfterDDL(x) /\ ~procedure[x] /\ ~Miscounted(x) =>
      \A r \in Rules : IF job[x][r] = "done"
                         THEN \E w \in RowsFor(x, r) : RowsFor(x, r) = {w}
                         ELSE RowsFor(x, r) = {}

\* A rule has a row once its coroutine has ended or the CALL is answered, unless
\* the run is silenced.
CoverInv(x) ==
    ~Silenced(x) =>
      /\ \A r \in Rules : job[x][r] = "done" => RowsFor(x, r) # {}
      /\ phase[x] \in {"summary", "alert", "answered"}
           => \A r \in runnable[x] : RowsFor(x, r) # {}

\* The rules of a run that is answered without an alert have passed, unless the
\* run is silenced.
PassedInv(x) ==
    phase[x] = "answered" /\ alert[x] = "none" /\ ~Silenced(x)
      => \A r \in runnable[x] : \E w \in RowsFor(x, r) : w.status = "PASS"

RuleRowsInv(x) == WorkInv(x) /\ ExactInv(x) /\ CoverInv(x) /\ PassedInv(x)

\* What RuleRowsInv says about run y is about these; rows are added to them by
\* others only if a statement of the run has outlived its client.
RowsKept(y) ==
    /\ phase'[y] = phase[y] /\ procedure'[y] = procedure[y] /\ runnable'[y] = runnable[y]
    /\ job'[y] = job[y] /\ alert'[y] = alert[y] /\ suffered'[y] = suffered[y]
    /\ \A r \in Rules : \/ RowsFor(y, r)' = RowsFor(y, r)
                        \/ Suffered(y, "late") /\ RowsFor(y, r) \subseteq RowsFor(y, r)'

\* What leaves the run alone keeps what RuleRowsInv says of it.
LEMMA RuleRowsFrame ==
    ASSUME RunInv, NEW y \in Runs, RuleRowsInv(y), RowsKept(y)
    PROVE  RuleRowsInv(y)'
<1>0. TypeOK /\ runnable[y] \subseteq Rules
  BY DEF RunInv, TypeOK
<1>1. \A r \in Rules : RowsFor(y, r) \subseteq RowsFor(y, r)'
  BY DEF RowsKept
<1>2. Suffered(y, "late") => suffered[y] # {} /\ (procedure[y] \/ Miscounted(y))
  BY DEF Suffered, RuleRowsInv, WorkInv, Miscounted
<1>3. WorkInv(y)'
  BY <1>2 DEF RowsKept, RuleRowsInv, WorkInv, BeforeStatements, AfterDDL
<1>4. ExactInv(y)'
  BY <1>2 DEF RowsKept, RuleRowsInv, ExactInv, AfterDDL, Miscounted
<1>5. CoverInv(y)'
  BY <1>0, <1>1 DEF RowsKept, RuleRowsInv, CoverInv, Silenced
<1>6. PassedInv(y)'
  BY <1>0, <1>1 DEF RowsKept, RuleRowsInv, PassedInv, Silenced
<1> QED BY <1>3, <1>4, <1>5, <1>6 DEF RuleRowsInv

\* The outcomes of the INSERT of a row for rule r.
Inserted(x, r, s, row, acknowledged) ==
    \/ /\ acknowledged
       /\ suffered'[x] = suffered[x]
       /\ RowsFor(x, r)' = RowsFor(x, r) \cup {row}
    \/ /\ ~acknowledged
       /\ suffered'[x] = suffered[x] \cup {<<s, "refused">>}
       /\ RowsFor(x, r)' = RowsFor(x, r)
    \/ /\ ~acknowledged
       /\ suffered'[x] = suffered[x] \cup {<<s, "lost">>}
       /\ RowsFor(x, r)' = RowsFor(x, r) \cup {row}
    \/ /\ ~acknowledged
       /\ suffered'[x] = suffered[x] \cup {<<s, "late">>}
       /\ RowsFor(x, r)' = RowsFor(x, r)

\* What the INSERT of one row does to the rows of each rule and to the record.
LEMMA OneRowInserted ==
    ASSUME TypeOK, NEW x \in Runs, NEW r \in Rules, NEW s \in {"result", "error"},
           NEW status \in Verdicts \cup {"ERROR"}, NEW acknowledged \in BOOLEAN,
           Insert(x, s, {RowOf(x, r, status)}, acknowledged)
    PROVE  /\ \A q \in Rules \ {r} : RowsFor(x, q)' = RowsFor(x, q)
           /\ Inserted(x, r, s, RowOf(x, r, status), acknowledged)
<1> DEFINE row == RowOf(x, r, status)
<1>1. row.run = x /\ row.rule = r
  BY DEF RowOf
<1>4. \A f : Suffers(x, s, f) => suffered'[x] = suffered[x] \cup {<<s, f>>}
  BY DEF Suffers, TypeOK
<1>5. \/ acknowledged /\ suffered'[x] = suffered[x] /\ rows' = rows \cup {row}
      \/ ~acknowledged /\ suffered'[x] = suffered[x] \cup {<<s, "refused">>} /\ rows' = rows
      \/ ~acknowledged /\ suffered'[x] = suffered[x] \cup {<<s, "lost">>} /\ rows' = rows \cup {row}
      \/ ~acknowledged /\ suffered'[x] = suffered[x] \cup {<<s, "late">>} /\ rows' = rows
  BY <1>4 DEF Insert
<1>6. rows' = rows => \A q \in Rules : RowsFor(x, q)' = RowsFor(x, q)
  BY DEF RowsFor
<1>7. rows' = rows \cup {row} => /\ RowsFor(x, r)' = RowsFor(x, r) \cup {row}
                                 /\ \A q \in Rules \ {r} : RowsFor(x, q)' = RowsFor(x, q)
  BY <1>1 DEF RowsFor
<1> HIDE DEF row
<1>8. \A q \in Rules \ {r} : RowsFor(x, q)' = RowsFor(x, q)
  BY <1>5, <1>6, <1>7
<1>9. Inserted(x, r, s, row, acknowledged)
  BY <1>5, <1>6, <1>7 DEF Inserted
<1> QED BY <1>8, <1>9 DEF row

\* A step of one run leaves the rows of the rules of another alone.
LEMMA OthersRows ==
    ASSUME RunInv, NEW x \in Runs, Execute(x) \/ Resume(x), NEW y \in Runs \ {x}
    PROVE  RowsKept(y)
<1>0. TypeOK /\ TableInv /\ JobsInv
  BY DEF RunInv
<1>1. phase'[y] = phase[y] /\ RowsOf(y)' = RowsOf(y)
  BY OthersKept DEF SummaryKept
<1>2. \A r \in Rules : RowsFor(y, r)' = RowsFor(y, r)
  <2>1. \A r \in Rules : RowsFor(y, r) = {w \in RowsOf(y) : w.rule = r}
    BY DEF RowsFor, RowsOf
  <2>2. \A r \in Rules : RowsFor(y, r)' = {w \in RowsOf(y)' : w.rule = r}
    BY DEF RowsFor, RowsOf
  <2> QED BY <1>1, <2>1, <2>2
<1>3. procedure'[y] = procedure[y] /\ runnable'[y] = runnable[y]
  BY <1>0 DEF Execute, Resume, ResultsTableEnsured, ConfigTableEnsured, CallAnswered, RuleStarts,
              RuleAnswered, ErrorRecorded, SummaryRead, SummaryMissing, SummaryFailed,
              AlertAnswered, TypeOK
<1>4. job'[y] = job[y]
  <2>1. CASE \E r \in Rules : RuleStarts(x, r) \/ RuleAnswered(x, r) \/ ErrorRecorded(x, r)
    BY <1>0, <2>1 DEF RuleStarts, RuleAnswered, ErrorRecorded, Gathers, TypeOK
  <2>2. CASE ConfigTableEnsured(x)
    BY <1>0, <2>2 DEF ConfigTableEnsured, TypeOK
  <2> QED BY <2>1, <2>2 DEF Execute, Resume, ResultsTableEnsured, CallAnswered, SummaryRead,
                            SummaryMissing, SummaryFailed, AlertAnswered
<1>5. alert'[y] = alert[y]
  BY <1>0 DEF Execute, Resume, ResultsTableEnsured, ConfigTableEnsured, CallAnswered, RuleStarts,
              RuleAnswered, ErrorRecorded, SummaryRead, SummaryMissing, SummaryFailed,
              AlertAnswered, TypeOK
<1>6. suffered'[y] = suffered[y]
  <2>1. \A s, f : Suffers(x, s, f) => suffered'[y] = suffered[y]
    BY <1>0 DEF Suffers, TypeOK
  <2>2. \A s, n, ack : Insert(x, s, n, ack) => suffered'[y] = suffered[y]
    BY <2>1 DEF Insert
  <2>3. CASE CallAnswered(x)
    BY <2>2, <2>3 DEF CallAnswered
  <2>4. CASE \E r \in Rules : RuleAnswered(x, r) \/ ErrorRecorded(x, r)
    BY <2>2, <2>4 DEF RuleAnswered, ErrorRecorded
  <2>5. CASE SummaryMissing(x)
    BY <2>1, <2>5 DEF SummaryMissing
  <2> QED BY <2>3, <2>4, <2>5 DEF Execute, Resume, ResultsTableEnsured, ConfigTableEnsured,
             RuleStarts, SummaryRead, SummaryFailed, AlertAnswered, table
<1> QED BY <1>1, <1>2, <1>3, <1>4, <1>5, <1>6 DEF RowsKept

\* Before the statements of the rules there is nothing to count.
LEMMA RuleRowsBefore ==
    ASSUME RunInv, NEW x \in Runs, RuleRowsInv(x),
           Execute(x) \/ ResultsTableEnsured(x) \/ ConfigTableEnsured(x)
    PROVE  RuleRowsInv(x)'
<1>0. TypeOK /\ BeforeStatements(x)
  BY DEF RunInv, BeforeStatements, Execute, ResultsTableEnsured, ConfigTableEnsured
<1>1. suffered[x] = {} /\ \A r \in Rules : job[x][r] = "none" /\ RowsFor(x, r) = {}
  BY <1>0 DEF RuleRowsInv, WorkInv
<1>2. UNCHANGED table
  BY DEF Execute, ResultsTableEnsured, ConfigTableEnsured
<1>3. suffered'[x] = {} /\ \A r \in Rules : RowsFor(x, r)' = {}
  BY <1>1, <1>2 DEF table, RowsFor
<1>4. /\ phase'[x] \notin {"alert", "answered", "idle"}
      /\ phase'[x] = "summary" => runnable'[x] = {}
      /\ phase'[x] = "call" => procedure'[x]
      /\ \A r \in Rules : /\ job'[x][r] \in {"none", "waiting"}
                          /\ procedure'[x] \/ BeforeStatements(x)' => job'[x][r] = "none"
                          /\ AfterDDL(x)' => (r \in runnable'[x] <=> job'[x][r] # "none")
  <2>1. CASE Execute(x)
    BY <1>0, <1>1, <2>1 DEF Execute, Goto, TypeOK, BeforeStatements, AfterDDL
  <2>2. CASE ResultsTableEnsured(x)
    BY <1>0, <1>1, <2>2 DEF ResultsTableEnsured, Goto, TypeOK, BeforeStatements, AfterDDL
  <2>3. CASE ConfigTableEnsured(x) /\ UNCHANGED job
    BY <1>0, <1>1, <2>3 DEF ConfigTableEnsured, Goto, TypeOK, BeforeStatements, AfterDDL
  <2>4. CASE /\ ConfigTableEnsured(x) /\ ~procedure[x]
             /\ Goto(x, IF runnable[x] = {} THEN "summary" ELSE "rules")
             /\ job' = [job EXCEPT ![x] =
                          [r \in Rules |-> IF r \in runnable[x] THEN "waiting" ELSE "none"]]
    BY <1>0, <1>1, <2>4 DEF ConfigTableEnsured, Goto, TypeOK, BeforeStatements, AfterDDL
  <2> QED BY <2>1, <2>2, <2>3, <2>4 DEF ConfigTableEnsured
<1>5. WorkInv(x)'
  BY <1>3, <1>4 DEF WorkInv
<1>6. ExactInv(x)' /\ CoverInv(x)' /\ PassedInv(x)'
  BY <1>3, <1>4 DEF ExactInv, CoverInv, PassedInv
<1> QED BY <1>5, <1>6 DEF RuleRowsInv

\* The one INSERT of the procedure writes a row for each of its rules.
LEMMA RuleRowsCall ==
    ASSUME RunInv, NEW x \in Runs, RuleRowsInv(x), CallAnswered(x)
    PROVE  RuleRowsInv(x)'
<1>0. TypeOK /\ procedure[x] /\ runnable[x] \subseteq Rules
  BY DEF RunInv, RuleRowsInv, WorkInv, CallAnswered, TypeOK
<1>1. PICK verdict \in [runnable[x] -> Verdicts], acknowledged \in BOOLEAN :
        Insert(x, "call", {RowOf(x, r, verdict[r]) : r \in runnable[x]}, acknowledged)
  BY DEF CallAnswered
<1>2. /\ UNCHANGED <<procedure, runnable, job, alert>>
      /\ phase'[x] = "summary"
  BY <1>0 DEF CallAnswered, Goto, TypeOK
<1>3. \A r \in Rules : job[x][r] = "none"
  BY <1>0 DEF RuleRowsInv, WorkInv
<1>4. \A f : Suffers(x, "call", f) => suffered'[x] = suffered[x] \cup {<<"call", f>>}
  BY <1>0 DEF Suffers, TypeOK
<1>5. \/ /\ suffered'[x] = suffered[x]
         /\ rows' = rows \cup {RowOf(x, r, verdict[r]) : r \in runnable[x]}
      \/ \E f \in {"refused", "lost", "late"} : suffered'[x] = suffered[x] \cup {<<"call", f>>}
  BY <1>1, <1>4 DEF Insert
<1>6. WorkInv(x)'
  BY <1>0, <1>2, <1>3, <1>5 DEF RuleRowsInv, WorkInv, BeforeStatements, AfterDDL
<1>7. CoverInv(x)'
  <2>1. CASE \E f \in {"refused", "lost", "late"} :
               suffered'[x] = suffered[x] \cup {<<"call", f>>}
    <3>1. \E f \in {"refused", "lost", "late"} : <<"call", f>> \in suffered'[x]
      BY <2>1
    <3>2. \A f : <<"call", f>>[1] = "call"
      OBVIOUS
    <3> QED BY <3>1, <3>2 DEF CoverInv, Silenced
  <2>2. CASE rows' = rows \cup {RowOf(x, r, verdict[r]) : r \in runnable[x]}
    <3>1. ASSUME NEW r \in runnable[x] PROVE RowsFor(x, r)' # {}
      <4>1. RowOf(x, r, verdict[r]) \in rows'
        BY <2>2
      <4>2. RowOf(x, r, verdict[r]).run = x /\ RowOf(x, r, verdict[r]).rule = r
        BY DEF RowOf
      <4> QED BY <4>1, <4>2 DEF RowsFor
    <3> QED BY <1>2, <1>3, <3>1 DEF CoverInv
  <2> QED BY <1>5, <2>1, <2>2
<1>8. ExactInv(x)' /\ PassedInv(x)'
  BY <1>0, <1>2 DEF ExactInv, PassedInv
<1> QED BY <1>6, <1>7, <1>8 DEF RuleRowsInv

\* A coroutine ends with the one row of its rule, unless a fault is on record.
LEMMA RuleRowsJob ==
    ASSUME RunInv, NEW x \in Runs, RuleRowsInv(x), NEW r \in Rules,
           RuleStarts(x, r) \/ RuleAnswered(x, r) \/ ErrorRecorded(x, r)
    PROVE  RuleRowsInv(x)'
<1>0. TypeOK /\ JobsInv /\ runnable[x] \subseteq Rules
  BY DEF RunInv, TypeOK
<1>1. job[x][r] \in {"waiting", "insert", "error"}
  BY DEF RuleStarts, RuleAnswered, ErrorRecorded
<1>2. phase[x] = "rules" /\ ~procedure[x]
  BY <1>0, <1>1 DEF JobsInv, RuleRowsInv, WorkInv
<1>3. \A q \in Rules : q \in runnable[x] <=> job[x][q] # "none"
  BY <1>2 DEF RuleRowsInv, WorkInv, AfterDDL
<1>4. ~Miscounted(x) => RowsFor(x, r) = {}
  BY <1>1, <1>2 DEF RuleRowsInv, ExactInv, AfterDDL
<1>5. UNCHANGED <<procedure, runnable, alert>>
  BY DEF RuleStarts, RuleAnswered, ErrorRecorded
<1>6. CASE RuleStarts(x, r)
  <2>1. /\ job'[x][r] = "insert" /\ \A q \in Rules \ {r} : job'[x][q] = job[x][q]
        /\ UNCHANGED <<phase, rows, suffered>>
    BY <1>0, <1>6 DEF RuleStarts, TypeOK, table
  <2>2. \A q \in Rules : RowsFor(x, q)' = RowsFor(x, q)
    BY <2>1 DEF RowsFor
  <2>3. WorkInv(x)'
    <3>1. \A q \in Rules : q \in runnable'[x] <=> job'[x][q] # "none"
      BY <1>1, <1>3, <1>5, <2>1
    <3>2. \A fault \in suffered'[x] : /\ fault[1] = "call" => procedure'[x]
                                      /\ fault[1] = "query" <=> fault[2] = "missing"
      BY <1>5, <2>1 DEF RuleRowsInv, WorkInv
    <3> QED BY <1>2, <1>5, <2>1, <3>1, <3>2 DEF WorkInv, BeforeStatements, AfterDDL
  <2>4. ExactInv(x)'
    BY <1>1, <1>2, <1>5, <2>1, <2>2 DEF RuleRowsInv, ExactInv, AfterDDL, Miscounted
  <2>5. CoverInv(x)' /\ PassedInv(x)'
    BY <1>2, <2>1, <2>2 DEF RuleRowsInv, CoverInv, PassedInv, Silenced
  <2> QED BY <2>3, <2>4, <2>5 DEF RuleRowsInv
<1>7. CASE RuleAnswered(x, r) \/ ErrorRecorded(x, r)
  <2>1. PICK s \in {"result", "error"}, status \in Verdicts \cup {"ERROR"},
             acknowledged \in BOOLEAN :
          /\ Insert(x, s, {RowOf(x, r, status)}, acknowledged)
          /\ \/ Gathers(x, r) /\ (acknowledged \/ s = "error")
             \/ /\ s = "result" /\ ~acknowledged /\ UNCHANGED phase
                /\ job' = [job EXCEPT ![x][r] = "error"]
    <3>1. CASE RuleAnswered(x, r)
      BY <3>1 DEF RuleAnswered
    <3>2. CASE ErrorRecorded(x, r)
      BY <3>2 DEF ErrorRecorded
    <3> QED BY <1>7, <3>1, <3>2
  <2>0. Insert(x, s, {RowOf(x, r, status)}, acknowledged)
    BY <2>1
  <2>2. \A q \in Rules \ {r} : RowsFor(x, q)' = RowsFor(x, q)
    BY <1>0, <2>0, OneRowInserted
  <2>3. Inserted(x, r, s, RowOf(x, r, status), acknowledged)
    BY <1>0, <2>0, OneRowInserted
  <2>4. /\ job'[x][r] \in {"error", "done"}
        /\ job'[x][r] = "done" <=> acknowledged \/ s = "error"
        /\ \A q \in Rules \ {r} : job'[x][q] = job[x][q]
        /\ phase'[x] \in {"rules", "summary"}
        /\ phase'[x] = "summary" => \A q \in Rules : job'[x][q] \in {"none", "done"}
    <3>1. CASE Gathers(x, r) /\ (acknowledged \/ s = "error")
      BY <1>0, <1>2, <3>1 DEF Gathers, Goto, TypeOK
    <3>2. CASE s = "result" /\ ~acknowledged /\ UNCHANGED phase
               /\ job' = [job EXCEPT ![x][r] = "error"]
      BY <1>0, <1>2, <3>2 DEF TypeOK
    <3> QED BY <2>1, <3>1, <3>2
  <2>5. \A q \in Rules : q \in runnable'[x] <=> job'[x][q] # "none"
    BY <1>1, <1>3, <1>5, <2>4
  <2>6. suffered[x] \subseteq suffered'[x]
        /\ \A fault \in suffered'[x] \ suffered[x] :
             fault[1] \in {"result", "error"} /\ fault[2] \in {"refused", "lost", "late"}
    BY <2>3 DEF Inserted
  <2>7. WorkInv(x)'
    BY <1>2, <1>5, <2>4, <2>5, <2>6 DEF RuleRowsInv, WorkInv, BeforeStatements, AfterDDL
  <2>8. ExactInv(x)'
    <3> SUFFICES ASSUME ~Miscounted(x)'
                 PROVE  \A q \in Rules : IF job'[x][q] = "done"
                          THEN \E w \in RowsFor(x, q)' : RowsFor(x, q)' = {w}
                          ELSE RowsFor(x, q)' = {}
      BY DEF ExactInv
    <3>1. ~Miscounted(x)
      BY <2>6 DEF Miscounted
    <3>2. ASSUME NEW q \in Rules \ {r}
          PROVE  IF job'[x][q] = "done"
                   THEN \E w \in RowsFor(x, q)' : RowsFor(x, q)' = {w}
                   ELSE RowsFor(x, q)' = {}
      BY <1>2, <2>2, <2>4, <3>1 DEF RuleRowsInv, ExactInv, AfterDDL
    <3>3. \/ acknowledged /\ RowsFor(x, r)' = {RowOf(x, r, status)}
          \/ ~acknowledged /\ s = "error" /\ RowsFor(x, r)' = {RowOf(x, r, status)}
          \/ ~acknowledged /\ s = "result" /\ RowsFor(x, r)' = {}
      BY <1>4, <2>1, <2>3, <3>1 DEF Inserted, Miscounted
    <3>4. IF job'[x][r] = "done" THEN \E w \in RowsFor(x, r)' : RowsFor(x, r)' = {w}
                                 ELSE RowsFor(x, r)' = {}
      BY <2>4, <3>3
    <3> QED BY <3>2, <3>4
  <2>9. CoverInv(x)'
    <3> SUFFICES ASSUME ~Silenced(x)' PROVE CoverInv(x)'
      BY DEF CoverInv
    <3>1. ~Silenced(x)
      BY <2>6 DEF Silenced
    <3>2. s = "error" => acknowledged
      <4>1. \/ acknowledged
            \/ \E f \in {"refused", "lost", "late"} : <<s, f>> \in suffered'[x]
        BY <2>3 DEF Inserted
      <4>2. \A f : <<s, f>>[1] = s
        OBVIOUS
      <4> QED BY <4>1, <4>2 DEF Silenced
    <3>3. job'[x][r] = "done" => RowsFor(x, r)' # {}
      BY <2>3, <2>4, <3>2 DEF Inserted
    <3>4. \A q \in Rules : job'[x][q] = "done" => RowsFor(x, q)' # {}
      BY <2>2, <2>4, <3>1, <3>3 DEF RuleRowsInv, CoverInv
    <3>5. phase'[x] = "summary" => \A q \in runnable'[x] : RowsFor(x, q)' # {}
      BY <1>0, <1>5, <2>4, <2>5, <3>4
    <3> QED BY <2>4, <3>4, <3>5 DEF CoverInv
  <2>10. PassedInv(x)'
    BY <2>4 DEF PassedInv
  <2> QED BY <2>7, <2>8, <2>9, <2>10 DEF RuleRowsInv
<1> QED BY <1>6, <1>7

\* A run whose summary tells of nothing to alert has only rows that passed.
LEMMA NothingToAlert ==
    ASSUME RunInv, NEW x \in Runs, ~NeedsAlert(Counts(RowsOf(x), Skipped(x)))
    PROVE  \A w \in RowsOf(x) : w.status = "PASS"
<1> DEFINE fails == {w \in RowsOf(x) : w.status = "FAIL"}
           errors == {w \in RowsOf(x) : w.status = "ERROR"}
<1>1. IsFiniteSet(RowsOf(x)) /\ RowsOf(x) \subseteq Row
  BY FS_Subset DEF RowsOf, RunInv, TableInv, TypeOK
<1>2. IsFiniteSet(fails) /\ IsFiniteSet(errors)
  BY <1>1, FS_Subset
<1>3. Cardinality(fails) \in Nat /\ Cardinality(errors) \in Nat
  BY <1>2, FS_CardinalityType
<1>4. ~(Cardinality(fails) > 0 \/ Cardinality(errors) > 0)
  BY DEF NeedsAlert, Counts
<1>5. Cardinality(fails) = 0 /\ Cardinality(errors) = 0
  BY <1>3, <1>4
<1>6. fails = {} /\ errors = {}
  BY <1>2, <1>5, FS_EmptySet
<1>7. \A w \in RowsOf(x) : w.status \in {"PASS", "FAIL", "ERROR"}
  BY <1>1 DEF Row, Verdicts
<1> QED BY <1>6, <1>7

\* The answer: the rows are read, and stay.
LEMMA RuleRowsAnswer ==
    ASSUME RunInv, NEW x \in Runs, RuleRowsInv(x),
           SummaryRead(x) \/ SummaryMissing(x) \/ SummaryFailed(x) \/ AlertAnswered(x)
    PROVE  RuleRowsInv(x)'
<1>0. TypeOK /\ runnable[x] \subseteq Rules
  BY DEF RunInv, TypeOK
<1>1. UNCHANGED <<procedure, runnable, job, rows>>
  BY DEF SummaryRead, SummaryMissing, SummaryFailed, AlertAnswered, table
<1>2. \A r \in Rules : RowsFor(x, r)' = RowsFor(x, r)
  BY <1>1 DEF RowsFor
<1>3. /\ phase[x] \in {"summary", "alert"}
      /\ phase'[x] \in {"summary", "alert", "answered", "failed"}
  BY <1>0 DEF SummaryRead, SummaryMissing, SummaryFailed, AlertAnswered, Summarise, Goto, TypeOK
<1>4. \/ suffered'[x] = suffered[x]
      \/ suffered'[x] = suffered[x] \cup {<<"query", "missing">>}
  BY <1>0 DEF SummaryRead, SummaryMissing, SummaryFailed, AlertAnswered, Suffers, table, TypeOK
<1>5. WorkInv(x)'
  <2>1. \A fault \in suffered'[x] : /\ fault[1] = "call" => procedure[x]
                                    /\ fault[1] = "query" <=> fault[2] = "missing"
    BY <1>4 DEF RuleRowsInv, WorkInv
  <2> QED BY <1>1, <1>3, <2>1 DEF RuleRowsInv, WorkInv, BeforeStatements, AfterDDL
<1>6. (Miscounted(x) => Miscounted(x)') /\ (Silenced(x) => Silenced(x)')
  BY <1>4 DEF Miscounted, Silenced
<1>7. ExactInv(x)'
  BY <1>1, <1>2, <1>3, <1>6 DEF RuleRowsInv, ExactInv, AfterDDL
<1>8. CoverInv(x)'
  BY <1>0, <1>1, <1>2, <1>3, <1>6 DEF RuleRowsInv, CoverInv
<1>9. PassedInv(x)'
  <2> SUFFICES ASSUME phase'[x] = "answered", alert'[x] = "none", ~Silenced(x)',
                      NEW r \in runnable[x]
               PROVE  \E w \in RowsFor(x, r) : w.status = "PASS"
    BY <1>0, <1>1, <1>2 DEF PassedInv
  <2>1. CASE SummaryRead(x)
    <3>1. ~NeedsAlert(Counts(RowsOf(x), Skipped(x)))
      BY <1>0, <2>1 DEF SummaryRead, Summarise, Goto, TypeOK
    <3>2. PICK w \in RowsFor(x, r) : TRUE
      BY <1>6, <2>1 DEF SummaryRead, RuleRowsInv, CoverInv
    <3>3. w \in RowsOf(x)
      BY <3>2 DEF RowsFor, RowsOf
    <3> QED BY <3>1, <3>2, <3>3, NothingToAlert
  <2>2. CASE SummaryMissing(x)
    <3>1. <<"query", "missing">> \in suffered'[x] /\ <<"query", "missing">>[1] = "query"
      BY <1>0, <2>2, SuffersKeeps DEF SummaryMissing
    <3> QED BY <3>1 DEF Silenced
  <2>3. CASE SummaryFailed(x)
    BY <1>0, <2>3 DEF SummaryFailed, Goto, TypeOK
  <2>4. CASE AlertAnswered(x)
    BY <1>0, <2>4 DEF AlertAnswered, TypeOK
  <2> QED BY <2>1, <2>2, <2>3, <2>4
<1> QED BY <1>5, <1>7, <1>8, <1>9 DEF RuleRowsInv

AllRuleRowsInv == \A x \in Runs : RuleRowsInv(x)

\* At first there are no rows.
LEMMA RuleRowsInit == Init => AllRuleRowsInv
<1> SUFFICES ASSUME Init, NEW x \in Runs PROVE RuleRowsInv(x)
  BY DEF AllRuleRowsInv
<1>1. /\ phase[x] = "idle" /\ ~procedure[x] /\ suffered[x] = {}
      /\ \A r \in Rules : job[x][r] = "none" /\ RowsFor(x, r) = {}
  BY DEF Init, RowsFor
<1> QED BY <1>1 DEF RuleRowsInv, WorkInv, ExactInv, CoverInv, PassedInv, AfterDDL

\* Every step keeps what RuleRowsInv says of the rows of every run.
LEMMA RuleRowsNext == RunInv /\ AllRuleRowsInv /\ [Next]_vars => AllRuleRowsInv'
<1> SUFFICES ASSUME RunInv, AllRuleRowsInv, [Next]_vars, NEW y \in Runs
             PROVE  RuleRowsInv(y)'
  BY DEF AllRuleRowsInv
<1>0. RuleRowsInv(y)
  BY DEF AllRuleRowsInv
<1>1. CASE Lands
  <2>1. UNCHANGED <<phase, procedure, runnable, job, alert, suffered>>
    BY <1>1 DEF Lands, run
  <2>2. PICK new : rows' = rows \cup new
    BY <1>1 DEF Lands
  <2>3. \A r \in Rules : RowsFor(y, r) \subseteq RowsFor(y, r)'
    BY <2>2 DEF RowsFor
  <2>4. ~Suffered(y, "late") => RowsOf(y)' = RowsOf(y)
    BY <1>1, LandsKeeps DEF RunInv
  <2>5. \A r \in Rules : /\ RowsFor(y, r) = {w \in RowsOf(y) : w.rule = r}
                         /\ RowsFor(y, r)' = {w \in RowsOf(y)' : w.rule = r}
    BY DEF RowsFor, RowsOf
  <2>6. RowsKept(y)
    BY <2>1, <2>3, <2>4, <2>5 DEF RowsKept
  <2> QED BY <1>0, <2>6, RuleRowsFrame
<1>2. CASE TimePasses \/ UNCHANGED vars
  <2>1. UNCHANGED <<phase, procedure, runnable, job, alert, suffered, rows>>
    BY <1>2 DEF TimePasses, vars, run, table
  <2>2. RowsKept(y)
    BY <2>1 DEF RowsKept, RowsFor
  <2> QED BY <1>0, <2>2, RuleRowsFrame
<1>3. ASSUME NEW x \in Runs, Execute(x) \/ Resume(x)
      PROVE  RuleRowsInv(y)'
  <2>1. CASE y # x
    BY <1>0, <1>3, <2>1, OthersRows, RuleRowsFrame
  <2>2. CASE y = x
    BY <1>0, <1>3, <2>2, RuleRowsBefore, RuleRowsCall, RuleRowsJob, RuleRowsAnswer DEF Resume
  <2> QED BY <2>1, <2>2
<1> QED BY <1>1, <1>2, <1>3 DEF Next

\* A run whose rules have one row each has as many rows as rules, and its
\* totals add up to them.
LEMMA RowsOfRules ==
    ASSUME RunInv, NEW x \in Runs,
           \A r \in Rules : IF r \in runnable[x]
                              THEN \E w \in RowsFor(x, r) : RowsFor(x, r) = {w}
                              ELSE RowsFor(x, r) = {}
    PROVE  LET s == Counts(RowsOf(x), Skipped(x))
           IN  s.passed + s.failed + s.errors = Cardinality(runnable[x])
<1> DEFINE S == RowsOf(x)
           f == [r \in runnable[x] |-> CHOOSE w \in RowsFor(x, r) : TRUE]
           P == {w \in S : w.status = "PASS"}
           F == {w \in S : w.status = "FAIL"}
           E == {w \in S : w.status = "ERROR"}
<1>1. /\ IsFiniteSet(S) /\ S \subseteq Row
      /\ runnable[x] \in SUBSET Rules /\ IsFiniteSet(runnable[x])
  BY RulesFinite, FS_Subset DEF RowsOf, RunInv, TableInv, TypeOK
<1>2. \A r \in runnable[x] : f[r] \in RowsFor(x, r) /\ RowsFor(x, r) = {f[r]}
  BY <1>1
<1>3. \A w \in S : w.rule \in runnable[x] /\ w \in RowsFor(x, w.rule)
  BY <1>1 DEF RowsOf, RowsFor, Row
<1>4. \A r \in runnable[x] : f[r] \in S /\ f[r].rule = r
  BY <1>2 DEF RowsOf, RowsFor
<1>5. f \in Bijection(runnable[x], S)
  <2> HIDE DEF S
  <2>1. \A w \in S : \E r \in runnable[x] : f[r] = w
    BY <1>2, <1>3
  <2>2. f \in [runnable[x] -> S]
    BY <1>4
  <2>3. \A q, r \in runnable[x] : f[q] = f[r] => q = r
    BY <1>4
  <2> HIDE DEF f
  <2>4. f \in Injection(runnable[x], S)
    BY <2>2, <2>3 DEF Injection, IsInjective
  <2>5. f \in Surjection(runnable[x], S)
    BY <2>1, <2>2 DEF Surjection
  <2> QED BY <2>4, <2>5 DEF Bijection
<1>6. Cardinality(S) = Cardinality(runnable[x])
  BY <1>1, <1>5, FS_Bijection DEF ExistsBijection
<1>7. IsFiniteSet(P) /\ IsFiniteSet(F) /\ IsFiniteSet(E) /\ IsFiniteSet(P \cup F)
  BY <1>1, FS_Subset
<1>8. S = (P \cup F) \cup E
  BY <1>1 DEF Row, Verdicts
<1>9. P \cap F = {} /\ (P \cup F) \cap E = {}
  OBVIOUS
<1> HIDE DEF S, P, F, E
<1>10. /\ Cardinality(P) \in Nat /\ Cardinality(F) \in Nat /\ Cardinality(E) \in Nat
       /\ Cardinality({}) = 0
  BY <1>7, FS_CardinalityType, FS_EmptySet
<1>11. Cardinality(P \cup F) = Cardinality(P) + Cardinality(F)
  BY <1>7, <1>9, <1>10, FS_Union
<1>12. Cardinality(S) = Cardinality(P) + Cardinality(F) + Cardinality(E)
  <2> DEFINE Q == P \cup F
  <2>1. IsFiniteSet(Q) /\ S = Q \cup E /\ Q \cap E = {}
    BY <1>7, <1>8, <1>9
  <2>2. Cardinality(Q) \in Nat /\ Cardinality(Q) = Cardinality(P) + Cardinality(F)
    BY <1>10, <1>11
  <2> HIDE DEF Q
  <2>3. Cardinality(Q \cup E) = Cardinality(Q) + Cardinality(E) - Cardinality(Q \cap E)
    BY <1>7, <2>1, FS_Union
  <2>4. Cardinality(Q \cup E) = Cardinality(S) /\ Cardinality(Q \cap E) = 0
    BY <1>10, <2>1
  <2>5. Cardinality(S) = Cardinality(Q) + Cardinality(E)
    BY <1>10, <2>2, <2>3, <2>4
  <2> QED BY <2>2, <2>5
<1>13. /\ Counts(S, Skipped(x)).passed = Cardinality(P)
       /\ Counts(S, Skipped(x)).failed = Cardinality(F)
       /\ Counts(S, Skipped(x)).errors = Cardinality(E)
  BY DEF Counts, P, F, E
<1> QED BY <1>6, <1>12, <1>13 DEF S

-----------------------------------------------------------------------------
(* The times of rows                                                       *)

\* The rows in dq_results and those BigQuery may still add.
Written == rows \cup UNION abandoned

\* A statement that will write a row with the time stamp[x][r] is under way.
Active(x, r) == phase[x] = "call" \/ job[x][r] \in {"insert", "error"}

\* Rows of one time are of one run, for every statement has a time of its own.
StampInv ==
    /\ \A w \in Written : w.at < clock
    /\ \A v, w \in Written : v.at = w.at => v.run = w.run
    /\ \A x \in Runs, r \in Rules : Active(x, r) =>
         /\ stamp[x][r] < clock
         /\ \A w \in Written : w.at = stamp[x][r] => w.run = x
         /\ \A y \in Runs \ {x}, q \in Rules : Active(y, q) => stamp[x][r] # stamp[y][q]

\* The rules of the rows of run x in S.
RulesIn(S, x) == {w.rule : w \in {v \in S : v.run = x}}

\* The rows the procedure writes for a run are of one time, and of all its rules
\* wherever they are.
WholeInv(x) ==
    procedure[x] =>
      /\ phase[x] = "call" => /\ \A w \in Written : w.run # x
                              /\ \A q, r \in Rules : stamp[x][q] = stamp[x][r]
      /\ \A v, w \in Written : v.run = x /\ w.run = x => v.at = w.at
      /\ \A S \in abandoned \cup {rows} : RulesIn(S, x) \in {{}, runnable[x]}

TimesInv == StampInv /\ \A x \in Runs : WholeInv(x)

\* Before its first statement a run has written nothing.
LEMMA NothingWritten ==
    ASSUME RunInv, NEW x \in Runs, RuleRowsInv(x), BeforeStatements(x)
    PROVE  \A w \in Written : w.run # x
<1>1. suffered[x] = {} /\ \A r \in Rules : RowsFor(x, r) = {}
  BY DEF RuleRowsInv, WorkInv
<1>2. \A w \in rows : w.run # x
  BY <1>1 DEF RowsFor, RunInv, TypeOK, Row
<1>3. \A n \in abandoned : \A w \in n : w.run # x
  BY <1>1 DEF RunInv, TableInv, Suffered
<1> QED BY <1>2, <1>3 DEF Written

\* An INSERT writes its rows, or leaves them to BigQuery, or writes none.
LEMMA InsertWrites ==
    ASSUME NEW x, NEW s, NEW new, NEW acknowledged, Insert(x, s, new, acknowledged)
    PROVE  \/ rows' = rows \cup new /\ abandoned' = abandoned
           \/ rows' = rows /\ abandoned' = abandoned \cup {new}
           \/ rows' = rows /\ abandoned' = abandoned
BY DEF Insert

\* The rows new of run x have the times of its statements under way, and a new
\* statement of x the time of the clock.
StampsOf(x, new) ==
    /\ new \subseteq Row
    /\ \A w \in new : w.run = x /\ \E r \in Rules : Active(x, r) /\ w.at = stamp[x][r]
    /\ Written' \subseteq Written \cup new
    /\ clock <= clock'
    /\ \A y \in Runs \ {x}, q \in Rules :
         stamp'[y][q] = stamp[y][q] /\ (Active(y, q)' => Active(y, q))
    /\ \A r \in Rules : Active(x, r)' =>
         \/ Active(x, r) /\ stamp'[x][r] = stamp[x][r]
         \/ stamp'[x][r] = clock /\ clock < clock'

\* Such a step keeps the times of different runs apart.
LEMMA StampStep ==
    ASSUME TypeOK, TypeOK', StampInv, NEW x \in Runs, NEW new, StampsOf(x, new)
    PROVE  StampInv'
<1> USE DEF StampsOf
<1>0. /\ clock \in Nat /\ clock' \in Nat
      /\ Written \subseteq Row /\ Written' \subseteq Row
      /\ \A y \in Runs, q \in Rules : stamp[y][q] \in Nat /\ stamp'[y][q] \in Nat
      /\ \A w \in Row : w.at \in Nat
  BY DEF TypeOK, Written, Row
<1>1. \A w \in new : w.at < clock /\ \A v \in Written : v.at = w.at => v.run = x
  BY DEF StampInv
<1>2. \A w \in Written' : w.at < clock
  BY <1>1 DEF StampInv
<1>3. \A w \in Written' : w.at < clock'
  BY <1>0, <1>2
<1>4. \A v, w \in Written' : v.at = w.at => v.run = w.run
  BY <1>1 DEF StampInv
<1>5. ASSUME NEW y \in Runs, NEW q \in Rules, Active(y, q)'
      PROVE  stamp'[y][q] < clock' /\ \A w \in Written' : w.at = stamp'[y][q] => w.run = y
  <2>1. CASE y = x /\ stamp'[x][q] = clock /\ clock < clock'
    BY <1>0, <1>2, <2>1
  <2>2. CASE y = x /\ Active(x, q) /\ stamp'[x][q] = stamp[x][q]
    <3>1. stamp[x][q] < clock /\ \A w \in Written : w.at = stamp[x][q] => w.run = x
      BY <2>2 DEF StampInv
    <3> QED BY <1>0, <2>2, <3>1
  <2>3. CASE y # x
    <3>1. Active(y, q) /\ stamp'[y][q] = stamp[y][q]
      BY <1>5, <2>3
    <3>2. stamp[y][q] < clock /\ \A w \in Written : w.at = stamp[y][q] => w.run = y
      BY <3>1 DEF StampInv
    <3>3. \A w \in new : w.at # stamp[y][q]
      BY <2>3, <3>1 DEF StampInv
    <3> QED BY <1>0, <3>1, <3>2, <3>3
  <2> QED BY <1>5, <2>1, <2>2, <2>3
<1>6. ASSUME NEW y \in Runs, NEW q \in Rules, Active(y, q)',
             NEW z \in Runs \ {y}, NEW r \in Rules, Active(z, r)'
      PROVE  stamp'[y][q] # stamp'[z][r]
  <2>1. \A u \in Runs, s \in Rules : Active(u, s)' =>
          \/ Active(u, s) /\ stamp'[u][s] = stamp[u][s] /\ stamp[u][s] < clock
          \/ u = x /\ stamp'[u][s] = clock
    BY DEF StampInv
  <2>2. CASE Active(y, q) /\ stamp'[y][q] = stamp[y][q]
             /\ Active(z, r) /\ stamp'[z][r] = stamp[z][r]
    BY <2>2 DEF StampInv
  <2>3. \A n \in Nat : n < clock => n # clock
    BY <1>0
  <2> QED BY <1>0, <1>6, <2>1, <2>2, <2>3
<1> QED BY <1>3, <1>4, <1>5, <1>6 DEF StampInv

\* The CALL and the INSERTs write rows with the time of their statement.
LEMMA RowTimes ==
    ASSUME TypeOK, NEW x \in Runs, NEW r \in Rules, NEW status \in Verdicts \cup {"ERROR"}
    PROVE  LET w == RowOf(x, r, status)
           IN  w \in Row /\ w.run = x /\ w.rule = r /\ w.at = stamp[x][r]
BY DEF RowOf, Row, TypeOK

\* Every step keeps the times of different statements different.
LEMMA StampNext ==
    RunInv /\ RunInv' /\ AllRuleRowsInv /\ StampInv /\ [Next]_vars => StampInv'
<1> SUFFICES ASSUME RunInv, RunInv', AllRuleRowsInv, StampInv, [Next]_vars PROVE StampInv'
  OBVIOUS
<1>0. TypeOK /\ TypeOK' /\ clock \in Nat
  BY DEF RunInv, TypeOK
<1>1. CASE Lands \/ TimePasses \/ UNCHANGED vars
  <2>1. UNCHANGED <<phase, job, stamp>>
    BY <1>1 DEF Lands, TimePasses, vars, run
  <2>2. clock' \in Nat /\ clock <= clock'
    BY <1>0, <1>1, RunAssumption DEF Lands, TimePasses, vars
  <2>3. Written' = Written
    <3>1. CASE Lands
      BY <3>1 DEF Lands, Written
    <3>2. CASE UNCHANGED table
      BY <3>2 DEF table, Written
    <3> QED BY <1>1, <3>1, <3>2 DEF TimePasses, vars
  <2>4. /\ Written \subseteq Row /\ \A w \in Row : w.at \in Nat
        /\ \A x \in Runs, r \in Rules : stamp[x][r] \in Nat
    BY <1>0 DEF TypeOK, Written, Row
  <2>5. \A n \in Nat : n < clock => n < clock'
    BY <1>0, <2>2
  <2> QED BY <2>1, <2>3, <2>4, <2>5 DEF StampInv, Active
<1>2. ASSUME NEW x \in Runs, Execute(x) \/ Resume(x)
      PROVE  StampInv'
  <2>0. \A y \in Runs \ {x}, q \in Rules : Active(y, q)' => Active(y, q)
    BY <1>2, OthersRows DEF RowsKept, Active
  <2>1. CASE \/ Execute(x) \/ ResultsTableEnsured(x) \/ SummaryRead(x) \/ SummaryMissing(x)
             \/ SummaryFailed(x) \/ AlertAnswered(x)
             \/ ConfigTableEnsured(x) /\ UNCHANGED <<stamp, clock>>
    <3>1. UNCHANGED <<stamp, clock, rows, abandoned>>
      BY <2>1 DEF Execute, ResultsTableEnsured, SummaryRead, SummaryMissing, SummaryFailed,
                  AlertAnswered, ConfigTableEnsured, table
    <3>2. phase'[x] # "call" /\ \A r \in Rules : job'[x][r] \in {job[x][r], "none", "waiting"}
      BY <1>0, <2>1 DEF Execute, ResultsTableEnsured, SummaryRead, SummaryMissing, SummaryFailed,
                  AlertAnswered, ConfigTableEnsured, Summarise, Goto, TypeOK
    <3>3. \A r \in Rules : Active(x, r)' => Active(x, r) /\ stamp'[x][r] = stamp[x][r]
      BY <3>1, <3>2 DEF Active
    <3>4. Written' \subseteq Written \cup {} /\ clock <= clock'
      BY <1>0, <3>1 DEF Written
    <3>5. \A y \in Runs \ {x}, q \in Rules : stamp'[y][q] = stamp[y][q]
      BY <3>1
    <3>9. StampsOf(x, {})
      BY <1>0, <2>0, <3>3, <3>4, <3>5 DEF StampsOf
    <3> QED BY <1>0, <3>9, StampStep
  <2>2. CASE ConfigTableEnsured(x) /\ clock' = clock + 1
             /\ stamp' = [stamp EXCEPT ![x] = [r \in Rules |-> clock]]
    <3>1. Written' \subseteq Written \cup {} /\ clock <= clock' /\ clock < clock'
      BY <1>0, <2>2 DEF ConfigTableEnsured, table, Written
    <3>2. /\ \A r \in Rules : stamp'[x][r] = clock
          /\ \A y \in Runs \ {x}, q \in Rules : stamp'[y][q] = stamp[y][q]
      BY <1>0, <2>2 DEF TypeOK
    <3>9. StampsOf(x, {})
      BY <1>0, <2>0, <3>1, <3>2 DEF StampsOf
    <3> QED BY <1>0, <3>9, StampStep
  <2>3. CASE CallAnswered(x)
    <3>1. PICK verdict \in [runnable[x] -> Verdicts], acknowledged \in BOOLEAN :
            Insert(x, "call", {RowOf(x, r, verdict[r]) : r \in runnable[x]}, acknowledged)
      BY <2>3 DEF CallAnswered
    <3> DEFINE new == {RowOf(x, r, verdict[r]) : r \in runnable[x]}
    <3>2. runnable[x] \subseteq Rules /\ \A r \in runnable[x] : verdict[r] \in Verdicts
      BY <1>0 DEF TypeOK
    <3>3. \A w \in new : /\ w \in Row /\ w.run = x
                         /\ \E r \in Rules : Active(x, r) /\ w.at = stamp[x][r]
      BY <1>0, <2>3, <3>2, RowTimes DEF Active, CallAnswered
    <3>4. Insert(x, "call", new, acknowledged)
      BY <3>1
    <3> HIDE DEF new
    <3>5. Written' \subseteq Written \cup new
      BY <3>4, InsertWrites DEF Written
    <3>6. UNCHANGED <<stamp, clock, job>> /\ phase'[x] # "call" /\ clock <= clock'
      BY <1>0, <2>3 DEF CallAnswered, Goto, TypeOK
    <3>7. /\ \A r \in Rules : Active(x, r)' => Active(x, r) /\ stamp'[x][r] = stamp[x][r]
          /\ \A y \in Runs \ {x}, q \in Rules : stamp'[y][q] = stamp[y][q]
      BY <3>6 DEF Active
    <3>9. StampsOf(x, new)
      BY <1>0, <2>0, <3>3, <3>5, <3>6, <3>7 DEF StampsOf
    <3> QED BY <1>0, <3>9, StampStep
  <2>4. ASSUME NEW r \in Rules, RuleStarts(x, r)
        PROVE  StampInv'
    <3>1. Written' \subseteq Written \cup {} /\ clock <= clock' /\ clock < clock'
      BY <1>0, <2>4 DEF RuleStarts, table, Written
    <3>2. /\ stamp'[x][r] = clock
          /\ \A q \in Rules \ {r} : stamp'[x][q] = stamp[x][q] /\ job'[x][q] = job[x][q]
          /\ \A y \in Runs \ {x}, q \in Rules : stamp'[y][q] = stamp[y][q]
          /\ UNCHANGED phase
      BY <1>0, <2>4 DEF RuleStarts, TypeOK
    <3>3. \A q \in Rules : Active(x, q)' =>
            \/ Active(x, q) /\ stamp'[x][q] = stamp[x][q]
            \/ stamp'[x][q] = clock /\ clock < clock'
      BY <3>1, <3>2 DEF Active
    <3>9. StampsOf(x, {})
      BY <1>0, <2>0, <3>1, <3>2, <3>3 DEF StampsOf
    <3> QED BY <1>0, <3>9, StampStep
  <2>5. ASSUME NEW r \in Rules, RuleAnswered(x, r) \/ ErrorRecorded(x, r)
        PROVE  StampInv'
    <3>1. PICK s \in {"result", "error"}, status \in Verdicts \cup {"ERROR"},
               acknowledged \in BOOLEAN :
            Insert(x, s, {RowOf(x, r, status)}, acknowledged)
      BY <2>5 DEF RuleAnswered, ErrorRecorded
    <3>2. Written' \subseteq Written \cup {RowOf(x, r, status)}
      BY <3>1, InsertWrites DEF Written
    <3>3. Active(x, r)
      BY <2>5 DEF RuleAnswered, ErrorRecorded, Active
    <3>4. \A w \in {RowOf(x, r, status)} :
            w \in Row /\ w.run = x /\ \E q \in Rules : Active(x, q) /\ w.at = stamp[x][q]
      BY <1>0, <3>3, RowTimes
    <3>5. CASE Gathers(x, r) /\ UNCHANGED <<stamp, clock>>
      <4>1. clock <= clock' /\ \A y \in Runs, q \in Rules : stamp'[y][q] = stamp[y][q]
        BY <1>0, <3>5
      <4>2. /\ phase'[x] \in {phase[x], "summary"}
            /\ \A q \in Rules : job'[x][q] \in {job[x][q], "done"}
        BY <1>0, <3>5 DEF Gathers, Goto, TypeOK
      <4>3. \A q \in Rules : Active(x, q)' => Active(x, q)
        BY <4>2 DEF Active
      <4>9. StampsOf(x, {RowOf(x, r, status)})
        BY <1>0, <2>0, <3>2, <3>4, <4>1, <4>3 DEF StampsOf
      <4> QED BY <1>0, <4>9, StampStep
    <3>6. CASE /\ job' = [job EXCEPT ![x][r] = "error"]
               /\ stamp' = [stamp EXCEPT ![x][r] = clock]
               /\ clock' = clock + 1
               /\ UNCHANGED phase
      <4>1. clock <= clock' /\ clock < clock'
        BY <1>0, <3>6
      <4>2. /\ stamp'[x][r] = clock
            /\ \A q \in Rules \ {r} : stamp'[x][q] = stamp[x][q] /\ job'[x][q] = job[x][q]
            /\ \A y \in Runs \ {x}, q \in Rules : stamp'[y][q] = stamp[y][q]
        BY <1>0, <3>6 DEF TypeOK
      <4>3. \A q \in Rules : Active(x, q)' =>
              \/ Active(x, q) /\ stamp'[x][q] = stamp[x][q]
              \/ stamp'[x][q] = clock /\ clock < clock'
        BY <3>6, <4>1, <4>2 DEF Active
      <4>9. StampsOf(x, {RowOf(x, r, status)})
        BY <1>0, <2>0, <3>2, <3>4, <4>1, <4>2, <4>3 DEF StampsOf
      <4> QED BY <1>0, <4>9, StampStep
    <3> QED BY <2>5, <3>5, <3>6 DEF RuleAnswered, ErrorRecorded
  <2> QED BY <1>2, <2>1, <2>2, <2>3, <2>4, <2>5 DEF Resume, ConfigTableEnsured
<1> QED BY <1>1, <1>2 DEF Next

\* Rows of other runs do not count.
LEMMA RulesInUnion ==
    /\ \A S, T, x : RulesIn(S \cup T, x) = RulesIn(S, x) \cup RulesIn(T, x)
    /\ \A S, x : (\A w \in S : w.run # x) => RulesIn(S, x) = {}
<1>1. ASSUME NEW S, NEW T, NEW x
      PROVE  RulesIn(S \cup T, x) = RulesIn(S, x) \cup RulesIn(T, x)
  BY DEF RulesIn
<1>2. ASSUME NEW S, NEW x, \A w \in S : w.run # x
      PROVE  RulesIn(S, x) = {}
  BY <1>2 DEF RulesIn
<1> QED BY <1>1, <1>2

\* What was written for run y stays whole when nothing more is written for it.
LEMMA WholeFrame ==
    ASSUME TypeOK, NEW y \in Runs, WholeInv(y),
           phase'[y] = phase[y] \/ phase'[y] # "call",
           procedure'[y] = procedure[y], runnable'[y] = runnable[y], stamp'[y] = stamp[y],
           NEW new, \A w \in new : w.run # y,
           \/ rows' = rows \cup new /\ abandoned' = abandoned
           \/ rows' = rows /\ abandoned' = abandoned \cup {new}
           \/ rows' = rows /\ abandoned' = abandoned
    PROVE  WholeInv(y)'
<1> SUFFICES ASSUME procedure[y] PROVE WholeInv(y)'
  BY DEF WholeInv
<1>1. \A w \in Written' : w.run = y => w \in Written
  BY DEF Written
<1>2. \A S \in abandoned \cup {rows} : RulesIn(S, y) \in {{}, runnable[y]}
  BY DEF WholeInv
<1>3. RulesIn(new, y) = {} /\ RulesIn(rows \cup new, y) = RulesIn(rows, y)
  <2>1. RulesIn(new, y) = {}
    BY RulesInUnion
  <2>2. RulesIn(rows \cup new, y) = RulesIn(rows, y) \cup RulesIn(new, y)
    BY RulesInUnion
  <2> QED BY <2>1, <2>2
<1>4. \A S \in (abandoned \cup {rows})' : RulesIn(S, y) \in {{}, runnable[y]}
  BY <1>2, <1>3
<1>5. phase'[y] = "call" => phase[y] = "call"
  OBVIOUS
<1> QED BY <1>1, <1>4, <1>5 DEF WholeInv

\* A statement that lands late brings all rules of its run, or none.
LEMMA WholeLands ==
    ASSUME NEW y \in Runs, WholeInv(y), Lands
    PROVE  WholeInv(y)'
<1> SUFFICES ASSUME procedure[y] PROVE WholeInv(y)'
  BY DEF WholeInv, Lands, run
<1>1. PICK new \in abandoned : rows' = rows \cup new /\ abandoned' = abandoned \ {new}
  BY DEF Lands
<1>2. UNCHANGED <<phase, procedure, runnable, stamp>>
  BY DEF Lands, run
<1>3. Written' \subseteq Written
  BY <1>1 DEF Written
<1>4. RulesIn(new, y) \in {{}, runnable[y]} /\ RulesIn(rows, y) \in {{}, runnable[y]}
  BY <1>1 DEF WholeInv
<1>5. RulesIn(rows \cup new, y) \in {{}, runnable[y]}
  <2>1. RulesIn(rows \cup new, y) = RulesIn(rows, y) \cup RulesIn(new, y)
    BY RulesInUnion
  <2> QED BY <1>4, <2>1
<1>6. \A S \in (abandoned \cup {rows})' : RulesIn(S, y) \in {{}, runnable[y]}
  BY <1>1, <1>5 DEF WholeInv
<1> QED BY <1>2, <1>3, <1>6 DEF WholeInv

\* The CALL writes its run's rows with one time, and one row for each rule.
LEMMA WholeCall ==
    ASSUME TypeOK, NEW x \in Runs, WholeInv(x), procedure[x], CallAnswered(x)
    PROVE  WholeInv(x)'
<1>1. PICK verdict \in [runnable[x] -> Verdicts], acknowledged \in BOOLEAN :
        Insert(x, "call", {RowOf(x, r, verdict[r]) : r \in runnable[x]}, acknowledged)
  BY DEF CallAnswered
<1> DEFINE new == {RowOf(x, r, verdict[r]) : r \in runnable[x]}
<1>2. /\ UNCHANGED <<procedure, runnable, stamp>>
      /\ phase[x] = "call" /\ phase'[x] # "call" /\ runnable[x] \subseteq Rules
  BY DEF CallAnswered, Goto, TypeOK
<1>3. /\ \A w \in Written : w.run # x
      /\ \A q, r \in Rules : stamp[x][q] = stamp[x][r]
  BY <1>2 DEF WholeInv
<1>4. \A r \in runnable[x] : /\ RowOf(x, r, verdict[r]).run = x
                             /\ RowOf(x, r, verdict[r]).rule = r
                             /\ RowOf(x, r, verdict[r]).at = stamp[x][r]
  BY DEF RowOf
<1>5. \A v, w \in new : v.at = w.at
  BY <1>2, <1>3, <1>4
<1>6. RulesIn(new, x) = runnable[x]
  <2>1. {v \in new : v.run = x} = new
    BY <1>4
  <2>2. \A r \in runnable[x] : \E w \in new : w.rule = r
    BY <1>4
  <2>3. \A w \in new : w.rule \in runnable[x]
    BY <1>4
  <2> HIDE DEF new
  <2> QED BY <2>1, <2>2, <2>3 DEF RulesIn
<1>7. Insert(x, "call", new, acknowledged)
  BY <1>1
<1> HIDE DEF new
<1>8. \/ rows' = rows \cup new /\ abandoned' = abandoned
      \/ rows' = rows /\ abandoned' = abandoned \cup {new}
      \/ rows' = rows /\ abandoned' = abandoned
  BY <1>7, InsertWrites
<1>9. \A w \in Written' : w.run = x => w \in new
  BY <1>3, <1>8 DEF Written
<1>10. RulesIn(rows, x) = {} /\ \A S \in abandoned : RulesIn(S, x) = {}
  BY <1>3, RulesInUnion DEF Written
<1>11. RulesIn(rows \cup new, x) = runnable[x]
  <2>1. RulesIn(rows \cup new, x) = RulesIn(rows, x) \cup RulesIn(new, x)
    BY RulesInUnion
  <2> QED BY <1>6, <1>10, <2>1
<1>12. \A S \in (abandoned \cup {rows})' : RulesIn(S, x) \in {{}, runnable[x]}
  BY <1>6, <1>8, <1>10, <1>11
<1> QED BY <1>2, <1>5, <1>9, <1>12 DEF WholeInv

\* The handler of a run before its first statement has written nothing.
LEMMA WholeBefore ==
    ASSUME RunInv, NEW x \in Runs, RuleRowsInv(x),
           Execute(x) \/ ResultsTableEnsured(x) \/ ConfigTableEnsured(x)
    PROVE  WholeInv(x)'
<1>0. TypeOK
  BY DEF RunInv
<1>1. BeforeStatements(x)
  BY DEF BeforeStatements, Execute, ResultsTableEnsured, ConfigTableEnsured
<1>2. \A w \in Written : w.run # x
  BY <1>1, NothingWritten
<1>3. UNCHANGED <<rows, abandoned>>
  BY DEF Execute, ResultsTableEnsured, ConfigTableEnsured, table
<1>4. phase'[x] = "call" => \A q, r \in Rules : stamp'[x][q] = stamp'[x][r]
  BY <1>0 DEF Execute, ResultsTableEnsured, ConfigTableEnsured, Goto, TypeOK
<1>5. \A S \in abandoned \cup {rows} : RulesIn(S, x) = {}
  BY <1>2, RulesInUnion DEF Written
<1>6. Written' = Written
  BY <1>3 DEF Written
<1> QED BY <1>2, <1>3, <1>4, <1>5, <1>6 DEF WholeInv

\* Every step keeps the rows of a procedure at one time, and of all its rules.
LEMMA WholeNext ==
    ASSUME RunInv, AllRuleRowsInv, [Next]_vars, NEW y \in Runs, WholeInv(y)
    PROVE  WholeInv(y)'
<1>0. TypeOK
  BY DEF RunInv
<1>1. CASE Lands
  BY <1>1, WholeLands
<1>2. CASE TimePasses \/ UNCHANGED vars
  <2>1. UNCHANGED <<phase, procedure, runnable, stamp, rows, abandoned>>
    BY <1>2 DEF TimePasses, vars, run, table
  <2> QED BY <2>1 DEF WholeInv, Written
<1>3. ASSUME NEW x \in Runs, Execute(x) \/ Resume(x), y # x
      PROVE  WholeInv(y)'
  <2>1. phase'[y] = phase[y] /\ procedure'[y] = procedure[y] /\ runnable'[y] = runnable[y]
    BY <1>3, OthersRows DEF RowsKept
  <2>2. stamp'[y] = stamp[y]
    BY <1>0, <1>3 DEF Execute, Resume, ResultsTableEnsured, ConfigTableEnsured, CallAnswered,
                      RuleStarts, RuleAnswered, ErrorRecorded, SummaryRead, SummaryMissing,
                      SummaryFailed, AlertAnswered, TypeOK
  <2>3. CASE CallAnswered(x)
    <3>1. PICK verdict \in [runnable[x] -> Verdicts], acknowledged \in BOOLEAN :
            Insert(x, "call", {RowOf(x, r, verdict[r]) : r \in runnable[x]}, acknowledged)
      BY <2>3 DEF CallAnswered
    <3> DEFINE new == {RowOf(x, r, verdict[r]) : r \in runnable[x]}
    <3>2. Insert(x, "call", new, acknowledged) /\ \A w \in new : w.run # y
      BY <1>3, <3>1 DEF RowOf
    <3> HIDE DEF new
    <3> QED BY <1>0, <2>1, <2>2, <3>2, InsertWrites, WholeFrame
  <2>4. ASSUME NEW r \in Rules, RuleAnswered(x, r) \/ ErrorRecorded(x, r)
        PROVE  WholeInv(y)'
    <3>1. PICK s \in {"result", "error"}, status \in Verdicts \cup {"ERROR"},
               acknowledged \in BOOLEAN :
            Insert(x, s, {RowOf(x, r, status)}, acknowledged)
      BY <2>4 DEF RuleAnswered, ErrorRecorded
    <3> DEFINE new == {RowOf(x, r, status)}
    <3>2. Insert(x, s, new, acknowledged) /\ \A w \in new : w.run # y
      BY <1>3, <3>1 DEF RowOf
    <3> HIDE DEF new
    <3> QED BY <1>0, <2>1, <2>2, <3>2, InsertWrites, WholeFrame
  <2>5. CASE UNCHANGED <<rows, abandoned>>
    BY <2>1, <2>2, <2>5 DEF WholeInv, Written
  <2> QED BY <1>3, <2>3, <2>4, <2>5
          DEF Execute, Resume, ResultsTableEnsured, ConfigTableEnsured, RuleStarts, SummaryRead,
              SummaryMissing, SummaryFailed, AlertAnswered, table
<1>4. ASSUME Execute(y) \/ Resume(y)
      PROVE  WholeInv(y)'
  <2>0. RuleRowsInv(y)
    BY DEF AllRuleRowsInv
  <2>1. CASE Execute(y) \/ ResultsTableEnsured(y) \/ ConfigTableEnsured(y)
    BY <2>0, <2>1, WholeBefore
  <2>2. CASE CallAnswered(y)
    <3>1. procedure[y]
      BY <2>0, <2>2 DEF RuleRowsInv, WorkInv, CallAnswered
    <3> QED BY <1>0, <2>2, <3>1, WholeCall
  <2>3. CASE \E r \in Rules : RuleStarts(y, r) \/ RuleAnswered(y, r) \/ ErrorRecorded(y, r)
    <3>1. ~procedure[y]
      BY <2>0, <2>3 DEF RuleRowsInv, WorkInv, RuleStarts, RuleAnswered, ErrorRecorded
    <3>2. UNCHANGED procedure
      BY <2>3 DEF RuleStarts, RuleAnswered, ErrorRecorded
    <3> QED BY <3>1, <3>2 DEF WholeInv
  <2>4. CASE SummaryRead(y) \/ SummaryMissing(y) \/ SummaryFailed(y) \/ AlertAnswered(y)
    <3>1. UNCHANGED <<procedure, runnable, stamp, rows, abandoned>>
      BY <2>4 DEF SummaryRead, SummaryMissing, SummaryFailed, AlertAnswered, table
    <3>2. phase'[y] # "call"
      BY <1>0, <2>4 DEF SummaryRead, SummaryMissing, SummaryFailed, AlertAnswered, Summarise,
                        Goto, TypeOK
    <3> QED BY <3>1, <3>2 DEF WholeInv, Written
  <2> QED BY <1>4, <2>1, <2>2, <2>3, <2>4 DEF Resume
<1> QED BY <1>1, <1>2, <1>3, <1>4 DEF Next

\* At first nothing is written.
LEMMA TimesInit == Init => TimesInv
<1> SUFFICES ASSUME Init PROVE TimesInv
  OBVIOUS
<1>1. Written = {}
  BY DEF Init, Written
<1>2. \A x \in Runs, r \in Rules : ~Active(x, r) /\ ~procedure[x]
  BY DEF Init, Active
<1>3. \A x \in Runs : ~procedure[x]
  BY DEF Init
<1> QED BY <1>1, <1>2, <1>3 DEF TimesInv, StampInv, WholeInv

\* Every step keeps both.
LEMMA TimesNext ==
    RunInv /\ RunInv' /\ AllRuleRowsInv /\ TimesInv /\ [Next]_vars => TimesInv'
BY StampNext, WholeNext DEF TimesInv

-----------------------------------------------------------------------------
(* Theorems                                                                *)

\* Every variable keeps its type, and the summaries are numbers because
\* dq_results stays finite.
THEOREM RunTypeCorrect == Spec => []TypeOK
<1>1. RunInv => TypeOK
  BY DEF RunInv
<1> QED BY <1>1, InvInit, InvNext, PTL DEF Spec

\* The semaphore bounds the statements a run has at BigQuery, those that record
\* errors included, for any number of rules and permits.
THEOREM RunConcurrency == Spec => []ConcurrencyRespected
<1>1. Init => PermitsInv
  <2> SUFFICES ASSUME Init, NEW x \in Runs PROVE Cardinality(Running(x)) <= Concurrency
    BY DEF PermitsInv
  <2>1. Running(x) = {}
    BY DEF Init, Running
  <2> QED BY <2>1, FS_EmptySet, RunAssumption
<1>2. RunInv /\ PermitsInv => ConcurrencyRespected
  <2> SUFFICES ASSUME RunInv, PermitsInv, NEW x \in Runs
               PROVE  Cardinality({r \in Rules : job[x][r] \notin {"none", "waiting", "done"}})
                        <= Concurrency
    BY DEF ConcurrencyRespected
  <2>1. {r \in Rules : job[x][r] \notin {"none", "waiting", "done"}} = Running(x)
    BY DEF RunInv, TypeOK, Running
  <2> QED BY <2>1 DEF PermitsInv
<1> QED BY <1>1, <1>2, InvInit, InvNext, PermitsNext, PTL DEF Spec

\* The summary a client was given stays what dq_results says about its run,
\* however runs overlap, unless a statement of the run outlived its client or
\* the table was not found.
THEOREM RunSummaryStays == Spec => []SummaryStaysTrue
<1>1. Init => SummaryInv
  BY DEF Init, SummaryInv, Summarised
<1>2. RunInv /\ SummaryInv => SummaryStaysTrue
  <2> SUFFICES ASSUME RunInv, SummaryInv, NEW x \in Runs, Summarised(x),
                      {fault[2] : fault \in suffered[x]} \cap {"late", "missing"} = {}
               PROVE  summary[x] = Counts({w \in rows : w.run = x}, Skipped(x))
    BY DEF SummaryStaysTrue
  <2>1. ~Suffered(x, "late") /\ ~Suffered(x, "missing")
    BY DEF Suffered
  <2> QED BY <2>1 DEF SummaryInv, RowsOf
<1> QED BY <1>1, <1>2, InvInit, InvNext, SummaryNext, PTL DEF Spec

\* Run one by one, every rule selected is counted exactly once in the summary of
\* its run, for any number of rules and permits and however runs overlap, unless
\* the run has suffered one of the faults that miscount.
THEOREM RunCountsOnce == Spec => []CountedOnce
<1>1. Init => SummaryInv
  BY DEF Init, SummaryInv, Summarised
<1>2. RunInv /\ SummaryInv /\ AllRuleRowsInv => CountedOnce
  <2> SUFFICES ASSUME RunInv, SummaryInv, AllRuleRowsInv, NEW x \in Runs,
                      Summarised(x), ~procedure[x], ~Miscounted(x)
               PROVE  summary[x].passed + summary[x].failed + summary[x].errors
                        = Cardinality(runnable[x])
    BY DEF CountedOnce
  <2>1. RuleRowsInv(x) /\ AfterDDL(x) /\ phase[x] # "rules"
    BY DEF AllRuleRowsInv, Summarised, AfterDDL
  <2>2. \A fault \in suffered[x] : fault[1] # "call" /\ (fault[1] = "query" <=> fault[2] = "missing")
    BY <2>1 DEF RuleRowsInv, WorkInv
  <2>3. ~Suffered(x, "late") /\ ~Suffered(x, "missing")
    BY <2>2 DEF Suffered, Miscounted
  <2>4. \A r \in Rules : r \in runnable[x] <=> job[x][r] = "done"
    BY <2>1 DEF RuleRowsInv, WorkInv, RunInv, JobsInv
  <2>5. \A r \in Rules : IF r \in runnable[x]
                           THEN \E w \in RowsFor(x, r) : RowsFor(x, r) = {w}
                           ELSE RowsFor(x, r) = {}
    BY <2>1, <2>4 DEF RuleRowsInv, ExactInv
  <2>6. summary[x] = Counts(RowsOf(x), Skipped(x))
    BY <2>3 DEF SummaryInv
  <2> QED BY <2>5, <2>6, RowsOfRules
<1> QED BY <1>1, <1>2, InvInit, InvNext, SummaryNext, RuleRowsInit, RuleRowsNext, PTL DEF Spec

\* An answered run in which some rule selected did not pass has raised an alert,
\* unless the CALL raised, an error row was not written or the table was not found.
THEOREM RunFailuresAlerted == Spec => []FailuresAlertedUnlessSilent
<1>1. RunInv /\ AllRuleRowsInv => FailuresAlertedUnlessSilent
  <2> SUFFICES ASSUME RunInv, AllRuleRowsInv, NEW x \in Runs, phase[x] = "answered",
                      alert[x] = "none", ~Silenced(x), NEW r \in runnable[x]
               PROVE  \E w \in rows : w.run = x /\ w.rule = r /\ w.status = "PASS"
    BY DEF FailuresAlertedUnlessSilent, NotAllPassed, Silenced
  <2>1. \E w \in RowsFor(x, r) : w.status = "PASS"
    BY DEF AllRuleRowsInv, RuleRowsInv, PassedInv
  <2> QED BY <2>1 DEF RowsFor
<1> QED BY <1>1, InvInit, InvNext, RuleRowsInit, RuleRowsNext, PTL DEF Spec

\* A table's health that the procedure has written last covers all rules of its
\* run, however runs overlap and whatever statements land late: the rows of one
\* CALL have one time, which no other statement shares.
THEOREM RunTableHealthWhole == Spec => []TableHealthWholeRun
<1>1. RunInv /\ TimesInv => TableHealthWholeRun
  <2> SUFFICES ASSUME RunInv, TimesInv, NEW w \in TableHealth, procedure[w.run]
               PROVE  {v.rule : v \in TableHealth} = runnable[w.run]
    BY DEF TableHealthWholeRun
  <2> DEFINE x == w.run
  <2>1. w \in rows /\ x \in Runs /\ rows \subseteq Written /\ WholeInv(x) /\ StampInv
    BY DEF TableHealth, RunInv, TypeOK, Row, TimesInv, Written
  <2>2. \A v \in TableHealth : v \in rows /\ v.at = w.at
    <3>1. \A v \in rows : v.at \in Nat
      BY DEF RunInv, TypeOK, Row
    <3>2. \A v \in TableHealth : v \in rows /\ v.at <= w.at /\ w.at <= v.at
      BY DEF TableHealth
    <3> QED BY <2>1, <3>1, <3>2
  <2>3. \A v \in TableHealth : v.run = x
    BY <2>1, <2>2 DEF StampInv
  <2>4. \A v \in rows : v.run = x => v.at = w.at
    BY <2>1 DEF WholeInv
  <2>5. \A v \in rows : v.run = x => v \in TableHealth
    BY <2>4 DEF TableHealth
  <2>6. TableHealth = {v \in rows : v.run = x}
    BY <2>2, <2>3, <2>5
  <2>7. RulesIn(rows, x) = {v.rule : v \in TableHealth}
    BY <2>6 DEF RulesIn
  <2>8. RulesIn(rows, x) # {}
    BY <2>7
  <2> QED BY <2>1, <2>7, <2>8 DEF WholeInv
<1> QED BY <1>1, InvInit, InvNext, RuleRowsInit, RuleRowsNext, TimesInit, TimesNext, PTL DEF Spec
=============================================================================
