--------------------------- MODULE ClaudeAnswers ---------------------------
(***************************************************************************)
(* Every use of Claude, from the caller to what it makes of the answer.    *)
(* The business agent is called once for each table, after it has sampled  *)
(* the columns of the table; the metadata agent, the SQL agent and the     *)
(* chat about rules make one call each.  A call asks one model after the   *)
(* other while they are overloaded.  Each answer starts a task that logs   *)
(* its tokens, which nobody waits for.                                     *)
(*                                                                         *)
(* Callers share nothing but that log: one of them is active at a time.    *)
(***************************************************************************)
EXTENDS JsonAnswers

CONSTANTS
    Model,      \* settings.anthropic.model
    Fallbacks,  \* settings.anthropic.fallback_models
    Answers,    \* the texts models may answer
    Columns,    \* how many columns of a table are sampled
    Tables,     \* how many tables the session has
    MaxUses,    \* bound: uses of Claude, a stage of the workflow being one
    Faults      \* the faults that happen

Callers == {"rules", "semantics", "sql", "chat"}

FaultKinds == {"sample",   \* the query about a column raises
               "overload", \* a model answers 429, 503 or 529
               "refused",  \* it answers anything else, or not at all
               "log"}      \* the row of the log is not written

ASSUME ClaudeAssumption ==
    /\ Fallbacks \in Seq(STRING)
    /\ Model \in STRING
    /\ Answers \subseteq Texts
    /\ Columns \in Nat
    /\ Tables \in Nat \ {0}
    /\ MaxUses \in Nat
    /\ Faults \subseteq FaultKinds

VARIABLES
    pc,       \* what the caller does
    caller,   \* who it is
    table,    \* the table it is at
    sampled,  \* how many columns it has sampled
    asked,    \* how many models the call has asked
    text,     \* the answer
    outcome,  \* of the call: a value, nothing, or an exception
    accepted, \* the rules it has brought: where they are in the answer's object
    uses,     \* how often Claude was used
    answers,  \* how many answers there were
    logging,  \* how many of them are being logged
    usage,    \* dq_token_usage
    unlogged  \* history: rows that were not written

call == <<asked, text, outcome, accepted>>
log == <<answers, logging, usage, unlogged>>
vars == <<pc, caller, table, sampled, call, uses, log>>

\* The model, and then the others in their order.
ModelsToTry == 1 + Cardinality({i \in 1 .. Len(Fallbacks) : Fallbacks[i] # Model})

TypeOK ==
    /\ pc \in {"idle", "sampling", "asking", "waiting", "parsing", "done"}
    /\ caller \in Callers
    /\ table \in 1 .. Tables
    /\ sampled \in 0 .. Columns
    /\ asked \in 0 .. ModelsToTry
    /\ text \in Answers \cup {<<>>}
    /\ outcome \in {"none", "value", "nothing", "raised"}
    /\ accepted \subseteq Nat
    /\ uses \in 0 .. MaxUses
    /\ answers \in Nat
    /\ logging \in Nat
    /\ usage \in Nat
    /\ unlogged \in Nat

-----------------------------------------------------------------------------
(* Callers                                                                 *)

\* A call is made afresh.
NewCall ==
    /\ asked' = 0
    /\ text' = <<>>
    /\ outcome' = "none"
    /\ accepted' = {}

Begin(c) ==
    /\ pc = "idle"
    /\ uses < MaxUses
    /\ uses' = uses + 1
    /\ caller' = c
    /\ table' = 1
    /\ sampled' = 0
    /\ NewCall
    /\ pc' = IF c = "rules" THEN "sampling" ELSE "asking"
    /\ UNCHANGED log

\* Mutant: a failing sample fails the table.
SampledStrictly ==
    /\ pc = "sampling"
    /\ \/ sampled < Columns /\ sampled' = sampled + 1 /\ UNCHANGED <<pc, outcome>>
       \/ sampled = Columns /\ pc' = "asking" /\ UNCHANGED <<sampled, outcome>>
       \/ /\ sampled < Columns /\ "sample" \in Faults
          /\ pc' = "done" /\ outcome' = "raised" /\ UNCHANGED sampled
    /\ UNCHANGED <<caller, table, asked, text, accepted, uses, log>>

\* _sample_data_distributions: a query that raises leaves its column out.
Sampled ==
    /\ pc = "sampling"
    /\ \/ sampled < Columns /\ sampled' = sampled + 1 /\ UNCHANGED pc
       \/ sampled = Columns /\ pc' = "asking" /\ UNCHANGED sampled
    /\ UNCHANGED <<caller, table, call, uses, log>>

Ends(how, rules) ==
    /\ pc' = "done"
    /\ outcome' = how
    /\ accepted' = rules

Returns(useful, rules) == Ends(IF useful THEN "value" ELSE "nothing", rules)

\* Every agent catches the exception and goes on without; the chat answers 500.
Fails ==
    Ends(IF caller = "chat" THEN "raised" ELSE "nothing", {})

\* Mutant: one table too many.
NextTableTooMany ==
    /\ pc = "done"
    /\ caller = "rules"
    /\ table <= Tables
    /\ outcome # "raised"
    /\ table' = table + 1
    /\ sampled' = 0
    /\ NewCall
    /\ pc' = "sampling"
    /\ UNCHANGED <<caller, uses, log>>

\* The stage goes on with the next table, unless an exception has ended it.
NextTable ==
    /\ pc = "done"
    /\ caller = "rules"
    /\ table < Tables
    /\ outcome # "raised"
    /\ table' = table + 1
    /\ sampled' = 0
    /\ NewCall
    /\ pc' = "sampling"
    /\ UNCHANGED <<caller, uses, log>>

Finish ==
    /\ pc = "done"
    /\ caller = "rules" => table = Tables \/ outcome = "raised"
    /\ pc' = "idle"
    /\ UNCHANGED <<caller, table, sampled, call, uses, log>>

-----------------------------------------------------------------------------
(* _call_claude                                                            *)

\* The next model answers: its tokens are logged by a task of its own.
Answered ==
    /\ pc = "asking"
    /\ asked < ModelsToTry
    /\ asked' = asked + 1
    /\ text' \in Answers
    /\ pc' = "parsing"
    /\ answers' = answers + 1
    /\ logging' = logging + 1
    /\ UNCHANGED <<caller, table, sampled, outcome, accepted, uses, usage, unlogged>>

\* Mutant: an overloaded model is asked again.
OverloadedAgain ==
    /\ pc = "asking"
    /\ "overload" \in Faults
    /\ pc' = "waiting"
    /\ UNCHANGED <<caller, table, sampled, call, uses, log>>

\* RateLimitError, 503, 529: two seconds later the next one is asked.
Overloaded ==
    /\ pc = "asking"
    /\ "overload" \in Faults
    /\ asked < ModelsToTry
    /\ asked' = asked + 1
    /\ pc' = "waiting"
    /\ UNCHANGED <<caller, table, sampled, text, outcome, accepted, uses, log>>

\* After the last one the exception of the last one is raised.
Waited ==
    /\ pc = "waiting"
    /\ \/ asked < ModelsToTry /\ pc' = "asking" /\ UNCHANGED <<outcome, accepted>>
       \/ asked = ModelsToTry /\ Fails
    /\ UNCHANGED <<caller, table, sampled, asked, text, uses, log>>

\* Any other exception is raised at once.
Refused ==
    /\ pc = "asking"
    /\ "refused" \in Faults
    /\ Fails
    /\ UNCHANGED <<caller, table, sampled, asked, text, uses, log>>

\* _log_token_usage
Logged ==
    /\ logging > 0
    /\ logging' = logging - 1
    /\ \/ usage' = usage + 1 /\ UNCHANGED unlogged
       \/ "log" \in Faults /\ unlogged' = unlogged + 1 /\ UNCHANGED usage
    /\ UNCHANGED <<pc, caller, table, sampled, call, uses, answers>>

-----------------------------------------------------------------------------
(* What the callers make of it                                             *)

\* The SQL agent wants an object with "sql"; the chat answers whatever it got.
Parsed ==
    /\ pc = "parsing"
    /\ \E result \in {Extract(text)} :
         \/ /\ caller = "rules"
            /\ \/ Raises(result) /\ Ends("raised", {})
               \/ ~Raises(result) /\ Returns(Accept(result) # {}, Accept(result))
         \/ caller = "semantics" /\ Returns(Elements(result) # {}, {})
         \/ caller = "sql" /\ Returns(HasKey(result, "sql"), {})
         \/ caller = "chat" /\ Returns(TRUE, {})
    /\ UNCHANGED <<caller, table, sampled, asked, text, uses, log>>

-----------------------------------------------------------------------------
(* The specification                                                       *)

Init ==
    /\ pc = "idle"
    /\ caller = "rules"
    /\ table = 1
    /\ sampled = 0
    /\ asked = 0
    /\ text = <<>>
    /\ outcome = "none"
    /\ accepted = {}
    /\ uses = 0
    /\ answers = 0
    /\ logging = 0
    /\ usage = 0
    /\ unlogged = 0

\* How the caller goes on.
GoesOn ==
    \/ Sampled
    \/ Answered
    \/ Overloaded
    \/ Waited
    \/ Refused
    \/ Parsed
    \/ NextTable
    \/ Finish

Next == Logged \/ GoesOn \/ \E c \in Callers : Begin(c)

Spec == Init /\ [][Next]_vars

\* The client of Claude and that of BigQuery have timeouts.
FairSpec == Spec /\ WF_vars(GoesOn) /\ WF_vars(Logged)

-----------------------------------------------------------------------------
(* Properties                                                              *)

\* agents/base.py "retry on rate-limit / overload errors": every use of Claude
\* ends, however overloaded its models are.
UsesEnd == pc # "idle" ~> pc = "idle"

\* Only an answer with malformed rules keeps the stage from a table: a failing
\* query, an overloaded or failing model and an unreadable answer cost one table
\* its rules, never another.
StageCoversTables ==
    pc = "idle" /\ uses > 0 /\ caller = "rules" /\ table < Tables => Raises(Extract(text))

\* The text without the fences around it.
Content(t) ==
    IF Len(t) > 2 /\ t[1] = "fence" /\ t[Len(t)] = "fence" THEN SubSeq(t, 2, Len(t) - 1) ELSE t

\* prompts/business_dq_agent.py asks for an object of rules, and nothing else.
\* Who answers that, fenced or not, has exactly the rules about existing columns
\* accepted.
RulesUnderstood ==
    LET doc == Content(text)
    IN pc = "done" /\ caller = "rules" /\ IsJson(doc) /\ HasKey(doc, "rules") /\ ~Raises(doc)
         => accepted = Members(doc, 3) \cap Places(doc, "good")

\* Rules are accepted all or none: from a complete object of rules within the
\* text, never from what a truncated answer has of one.
OnlyCompleteAnswers ==
    accepted # {} =>
        \E i, j \in 1 .. Len(text) :
            LET doc == SubSeq(text, i, j)
            IN IsJson(doc) /\ HasKey(doc, "rules") /\ accepted = Accept(doc)

\* Of an array of columns the semantics are found among any words around it.
SemanticsUnderstood ==
    \A i, j \in 1 .. Len(text) :
        LET doc == SubSeq(text, i, j)
        IN pc = "done" /\ caller = "semantics"
           /\ IsJson(doc) /\ Members(doc, 1) # {}
           /\ (\A k \in (1 .. Len(text)) \ (i .. j) : text[k] = "word")
             => outcome = "value"

\* The cost report counts every answer once, but for rows that were not written.
UsageTellsAnswers == usage + logging + unlogged = answers
=============================================================================
