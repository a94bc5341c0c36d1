----------------------------- MODULE TableRules -----------------------------
(***************************************************************************)
(* From a source table to verdicts about it.  Discovery reads the columns, *)
(* the row count, a profile of a column and what Claude takes the column   *)
(* for; the technical agent makes rules of that; reviewers edit thresholds *)
(* and take rules out of use; the SQL generator turns the rules in use     *)
(* into the queries of a procedure.  All the time other systems fill,      *)
(* clean and alter the table.                                              *)
(*                                                                         *)
(* One table, with a timestamp column and one column under study.  A rule  *)
(* is judged on the table as it is: Passes(r) is the status its query      *)
(* would return now.  Rates are in percent, ages in half hours.            *)
(***************************************************************************)
EXTENDS Integers, FiniteSets, Functions

CONSTANTS
    Values,     \* what the column can hold, apart from NULL
    Invalid,    \* the values that are malformed e-mail addresses, or negative
    Null,
    Counts,     \* bound: in how many rows a value can be
    Schemas,    \* bound: the sets of columns and types the table can have
    Ages,       \* bound: the ages the newest row can have
    Thresholds, \* bound: the thresholds reviewers ask for
    MaxEdits,   \* bound: how often reviewers edit a rule
    MaxChanges  \* bound: how often others change the table

ASSUME TableAssumption ==
    /\ IsFiniteSet(Values)                      \* of one table's rows
    /\ \A s \in Schemas : IsFiniteSet(s)        \* its columns
    /\ Null \notin Values
    /\ Invalid \subseteq Values
    /\ Counts \subseteq Nat /\ 0 \in Counts
    /\ Ages \subseteq Nat
    /\ Thresholds \subseteq Nat
    /\ MaxEdits \in Nat
    /\ MaxChanges \in Nat

VARIABLES
    table,     \* in how many rows each value is
    age,       \* of the newest row
    schema,    \* the columns and their types
    changes,   \* how often the table was changed
    nullable,  \* the column under study allows NULL
    columns,   \* read: the columns
    rowCount,  \* read: the number of rows
    profile,   \* read: the profile of the column
    meaning,   \* what Claude takes the column for
    rules,     \* technical_rules
    inactive,  \* the checks of those whose is_active is False
    procedure, \* the rules the procedure was built from
    edits,     \* how often a rule was edited
    withdrawn  \* history: the checks of rules that left the list, inactive

source == <<table, age, schema, changes>>
discovery == <<columns, rowCount, profile, meaning>>
session == <<rules, inactive, procedure, edits, withdrawn>>
vars == <<source, nullable, discovery, session>>

None == -1   \* not there, not read yet, NULL

Meanings == {"id", "email", "amount", "status", "unknown"}
Checks == {"not_null", "sparse", "unique", "email", "amount", "status",
           "volume", "schema", "fresh"}
Rules == [check : Checks, threshold : Nat, parameter : Nat \cup {None},
          minRows : Nat, baseline : Schemas \cup {{}}, allowed : SUBSET Values]
Profiles == [total : Nat, nulls : Nat, distinct : Nat, samples : SUBSET Values]
NoProfile == [total |-> None]

TypeOK ==
    /\ table \in [Values \cup {Null} -> Counts]
    /\ age \in Ages \cup {None}
    /\ schema \in Schemas
    /\ changes \in 0 .. MaxChanges
    /\ nullable \in BOOLEAN
    /\ columns \in Schemas \cup {{}}
    /\ rowCount \in Nat \cup {None}
    /\ profile \in Profiles \cup {NoProfile}
    /\ meaning \in Meanings \cup {"not_inferred"}
    /\ rules \subseteq Rules
    /\ inactive \subseteq Checks
    /\ procedure \subseteq Rules
    /\ edits \in 0 .. MaxEdits
    /\ withdrawn \subseteq Checks

-----------------------------------------------------------------------------
(* The source table and those who write it                                 *)

Total == SumFunction(table)
CountIn(S) == SumFunctionOnSet(table, S)

\* Mutant: WHERE ... IS NOT NULL is missing.
PresentOrNull == {v \in Values \cup {Null} : table[v] > 0}

Present == {v \in Values : table[v] > 0}

\* COUNT(DISTINCT) does not count NULL.
Distinct == Cardinality(Present)

Change == changes < MaxChanges /\ changes' = changes + 1

\* Rows arrive, with times of their own; a column that is not nullable takes no NULL.
Load ==
    /\ Change
    /\ \E v \in Values \cup {Null}, n \in Counts :
         /\ v = Null => nullable
         /\ n > table[v]
         /\ table' = [table EXCEPT ![v] = n]
    /\ \E a \in Ages :
         /\ age # None => a <= age
         /\ age' = a
    /\ UNCHANGED <<schema, nullable, discovery, session>>

\* Rows are deleted, perhaps the newest, perhaps all of them.
Delete ==
    /\ Change
    /\ \E v \in Values \cup {Null}, n \in Counts :
         /\ n < table[v]
         /\ table' = [table EXCEPT ![v] = n]
    /\ IF SumFunction(table') = 0 THEN age' = None
       ELSE \E a \in Ages : a >= age /\ age' = a
    /\ UNCHANGED <<schema, nullable, discovery, session>>

Alter ==
    /\ Change
    /\ schema' \in Schemas \ {schema}
    /\ UNCHANGED <<table, age, nullable, discovery, session>>

TimePasses ==
    /\ Change
    /\ age # None
    /\ \E a \in Ages : a > age /\ age' = a
    /\ UNCHANGED <<table, schema, nullable, discovery, session>>

-----------------------------------------------------------------------------
(* Discovery                                                               *)

\* get_table_metadata gathers these two queries, in any order, with three more
\* that no rule depends on.
ReadColumns ==
    /\ columns = {}
    /\ columns' = schema
    /\ UNCHANGED <<source, nullable, rowCount, profile, meaning, session>>

ReadRowCount ==
    /\ rowCount = None
    /\ rowCount' = Total
    /\ UNCHANGED <<source, nullable, columns, profile, meaning, session>>

\* The values that can be in a sample of five rows that are not NULL.
Samples ==
    LET rows == CountIn(Values)
        size == IF rows < 5 THEN rows ELSE 5
    IN {S \in SUBSET Present : Cardinality(S) <= size /\ size <= CountIn(S)}

AtLeastOne(n) == IF n = 0 THEN 1 ELSE n

\* profile_column; an exception gives an empty profile.
ProfileColumn ==
    /\ columns # {} /\ rowCount # None
    /\ profile = NoProfile
    /\ \/ \E S \in Samples :
            profile' = [total |-> AtLeastOne(Total), nulls |-> table[Null],
                        distinct |-> Distinct, samples |-> S]
       \/ profile' = [total |-> 0, nulls |-> 0, distinct |-> 0, samples |-> {}]
    /\ UNCHANGED <<source, nullable, columns, rowCount, meaning, session>>

\* Claude may take the column for anything; an exception leaves it unknown.
InferSemantics ==
    /\ profile # NoProfile
    /\ meaning = "not_inferred"
    /\ meaning' \in Meanings
    /\ UNCHANGED <<source, nullable, columns, rowCount, profile, session>>

-----------------------------------------------------------------------------
(* TechnicalDQAgent: rules from what was discovered                        *)

Rule(check, threshold, parameter) ==
    [check |-> check, threshold |-> threshold, parameter |-> parameter,
     minRows |-> 0, baseline |-> {}, allowed |-> {}]

\* Mutant: half of one row is none.
HalfOf(n) == n \div 2

\* Half of the rows there were, and one at least.
MinRows(n) == AtLeastOne(n \div 2)

VolumeRules ==
    IF rowCount = 0 THEN {}
    ELSE {[Rule("volume", 50, None) EXCEPT !.minRows = MinRows(rowCount)]}

SchemaRules == {[Rule("schema", 0, None) EXCEPT !.baseline = columns]}

\* The cardinality ratio exceeds percent.
CardinalityAbove(percent) == 100 * profile.distinct > percent * AtLeastOne(profile.total)

CompletenessRules ==
    IF ~nullable THEN {Rule("not_null", 0, 0)}
    ELSE IF 100 * profile.nulls > 80 * AtLeastOne(profile.total) THEN {Rule("sparse", 80, 80)}
    ELSE {}

\* Mutant: only the cardinality decides.
UniquenessByCardinality == IF CardinalityAbove(95) THEN {Rule("unique", 0, None)} ELSE {}

UniquenessRules ==
    IF CardinalityAbove(95) \/ meaning = "id" THEN {Rule("unique", 0, None)} ELSE {}

StatusRules ==
    IF 100 * profile.distinct < AtLeastOne(profile.total) /\ profile.samples # {}
    THEN {[Rule("status", 0, None) EXCEPT !.allowed = profile.samples]}
    ELSE {}

ValidityRules ==
    CASE meaning = "email"  -> {Rule("email", 99, 99)}
      [] meaning = "amount" -> {Rule("amount", 0, None)}
      [] meaning = "status" -> StatusRules
      [] OTHER -> {}

\* The table has a timestamp column.
FreshnessRules == {Rule("fresh", 0, None)}

\* The rules are active.  (DQSession has the list replaced by a new one.)
GenerateRules ==
    /\ meaning # "not_inferred"
    /\ rules = {}
    /\ rules' = UNION {VolumeRules, SchemaRules, CompletenessRules, UniquenessRules,
                       ValidityRules, FreshnessRules}
    /\ inactive' = {}
    /\ UNCHANGED <<source, nullable, discovery, procedure, edits, withdrawn>>

-----------------------------------------------------------------------------
(* Reviewers, and the procedure.  There is one rule of a check at most.    *)

Active(S, off) == {r \in S : r.check \notin off}

WithThreshold(r, threshold) == (rules \ {r}) \cup {[r EXCEPT !.threshold = threshold]}

\* is_active of the rule is set to the other value.
Toggled(r) == IF r.check \in inactive THEN inactive \ {r.check} ELSE inactive \cup {r.check}

Edit == edits < MaxEdits /\ edits' = edits + 1

\* Only active rules stay in the list.
KeepActive(S, off) ==
    /\ rules' = Active(S, off)
    /\ inactive' = {}
    /\ withdrawn' = withdrawn \cup off

\* PUT /rules/{id} sets the threshold, or is_active; DELETE /rules/{id} makes a
\* rule inactive.
UpdateRule ==
    /\ Edit
    /\ \E r \in rules :
         \/ /\ \E threshold \in Thresholds : rules' = WithThreshold(r, threshold)
            /\ UNCHANGED inactive
         \/ inactive' = Toggled(r) /\ UNCHANGED rules
    /\ UNCHANGED <<source, nullable, discovery, procedure, withdrawn>>

\* The same for a modification submitted with a decision on the rules (bound:
\* one of them at a time).
ModifyRule ==
    /\ Edit
    /\ \E r \in rules :
         \/ \E threshold \in Thresholds : KeepActive(WithThreshold(r, threshold), inactive)
         \/ KeepActive(rules, Toggled(r))
    /\ UNCHANGED <<source, nullable, discovery, procedure>>

\* /sql/generate, or /sql/rebuild-sp after an edit.  With no active rule the
\* procedure there is stays.
BuildProcedure ==
    /\ rules # {}
    /\ KeepActive(rules, inactive)
    /\ procedure' = IF Active(rules, inactive) = {} THEN procedure ELSE Active(rules, inactive)
    /\ UNCHANGED <<source, nullable, discovery, edits>>

-----------------------------------------------------------------------------
(* DQSQLGenerator: the status a rule's query returns                       *)

\* A parameter of this name hides the threshold of the rule.
Limit(r) == IF r.parameter # None THEN r.parameter ELSE r.threshold

\* Mutant: the rate of rows that do not violate the rule is compared.
RateOfRestAtMost(violating, percent) ==
    Total > 0 /\ 100 * (Total - violating) <= percent * Total

\* SAFE_DIVIDE by no rows is NULL, which is not a PASS.
RateAtMost(violating, percent) == Total > 0 /\ 100 * violating <= percent * Total

\* The values a rate is about; NULL is never malformed, negative or unexpected.
Violating(r) ==
    CASE r.check \in {"not_null", "sparse"} -> {Null}
      [] r.check = "status" -> Values \ r.allowed
      [] OTHER -> Invalid

\* Mutant: dropped columns are not counted.
AddedColumns(baseline) == Cardinality(schema \ baseline)

\* Columns, with their types, that were added, and that were dropped.
Drift(baseline) == Cardinality(schema \ baseline) + Cardinality(baseline \ schema)

\* TIMESTAMP_DIFF counts whole hours.
LagHours == age \div 2

Fresh == age = None \/ LagHours <= 24

\* _render_*: the rule's query returns PASS.
Passes(r) ==
    \/ /\ r.check \in {"not_null", "sparse", "email", "amount", "status"}
       /\ RateAtMost(CountIn(Violating(r)), Limit(r))
    \/ r.check = "unique" /\ Total = Distinct
    \/ r.check = "volume" /\ Total >= r.minRows
    \/ r.check = "schema" /\ Drift(r.baseline) = 0
    \/ r.check = "fresh" /\ Fresh

-----------------------------------------------------------------------------
(* The specification                                                       *)

Init ==
    /\ nullable \in BOOLEAN
    /\ table \in {t \in [Values \cup {Null} -> Counts] : t[Null] > 0 => nullable}
    /\ IF SumFunction(table) = 0 THEN age = None ELSE age \in Ages
    /\ schema \in Schemas
    /\ changes = 0
    /\ columns = {}
    /\ rowCount = None
    /\ profile = NoProfile
    /\ meaning = "not_inferred"
    /\ rules = {}
    /\ inactive = {}
    /\ procedure = {}
    /\ edits = 0
    /\ withdrawn = {}

Next ==
    \/ Load \/ Delete \/ Alter \/ TimePasses
    \/ ReadColumns \/ ReadRowCount \/ ProfileColumn \/ InferSemantics
    \/ GenerateRules \/ UpdateRule \/ ModifyRule \/ BuildProcedure

Spec == Init /\ [][Next]_vars

-----------------------------------------------------------------------------
(* Properties                                                              *)

\* What the description of a rule says of the table, for the thresholds the
\* agent gives, taken literally: technical_dq_agent/agent.py.
Described(r) ==
    CASE r.check = "not_null" -> table[Null] = 0
      [] r.check = "unique"   -> \A v \in Values : table[v] <= 1
      [] r.check = "email"    -> \A v \in Invalid : table[v] = 0
      [] r.check = "amount"   -> \A v \in Invalid : table[v] = 0
      [] r.check = "status"   -> \A v \in Values \ r.allowed : table[v] = 0
      [] r.check = "volume"   -> 2 * Total + 1 >= rowCount
      [] r.check = "schema"   -> schema = r.baseline
      [] r.check = "fresh"    -> age # None /\ age <= 48
      [] OTHER -> TRUE

\* A rule that passes means what its description says: there is no NULL, no
\* duplicate, no negative amount, no unknown status and no changed column,
\* whatever was loaded, deleted and altered since discovery.  Not so for the
\* amount and status rules, whose thresholds reviewers can raise, for the e-mail
\* rule, whose threshold of 99 % valid is used as 99 % invalid, and for the
\* freshness of a table without rows or in the 25th hour.
PassMeansDescribed ==
    \A r \in procedure :
        Passes(r) =>
            \/ Described(r)
            \/ r.check \in {"amount", "status"} /\ r.threshold > 0
            \/ r.check = "email" /\ 100 * CountIn(Invalid) <= 99 * Total
            \/ r.check = "fresh" /\ (age = None \/ age = 49)

\* A table that had rows at discovery does not lose all of them unnoticed,
\* although its freshness and uniqueness rules then pass; unless somebody has
\* taken the volume rule out of use.
EmptiedTableFails ==
    rowCount > 0 /\ procedure # {} /\ Total = 0 /\ "volume" \notin withdrawn
        => \E r \in procedure : r.check = "volume" /\ ~Passes(r)

\* When all rules of a column taken for an identifier pass, it is a key; unless
\* somebody has taken the uniqueness rule out of use.
IdentifierIsKey ==
    procedure # {} /\ meaning = "id" /\ "unique" \notin withdrawn
      /\ (\A r \in procedure : Passes(r))
        => table[Null] = 0 /\ \A v \in Values : table[v] <= 1

Counted == {"not_null", "sparse", "email", "amount", "status"}

\* The rows a rule on rates or on volume has no objection to.
Accepted(r) ==
    IF r.check = "volume" THEN Values \cup {Null}
    ELSE (Values \cup {Null}) \ Violating(r)

\* The table has more rows than before, all of them with values of S.
Gains(S) ==
    /\ table' # table
    /\ \A v \in Values \cup {Null} : table'[v] >= table[v] /\ (table'[v] > table[v] => v \in S)

\* Rows a rule accepts never make it fail: whoever cleans or fills a table
\* with good rows turns no passing rate or volume rule into a failing one.
GoodRowsNeverHurt ==
    [][\A r \in procedure :
         r.check \in Counted \cup {"volume"} /\ Gains(Accepted(r)) /\ Passes(r)
           => Passes(r)']_vars

\* Rows a rule objects to never make it pass, once there are rows.
BadRowsNeverHeal ==
    [][\A r \in procedure :
         r.check \in Counted /\ Gains(Violating(r)) /\ ~Passes(r) /\ Total > 0
           => ~Passes(r)']_vars

\* PUT /rules/{id} "Update rule properties (severity, threshold, is_active).":
\* a procedure judges by the thresholds its rules show.
EditedThresholdUsed ==
    \A r \in procedure : r.check \in Counted => Limit(r) = r.threshold
=============================================================================
