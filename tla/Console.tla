------------------------------- MODULE Console -------------------------------
(***************************************************************************)
(* The Streamlit console (ui/app.py) as a client of one session: the pages *)
(* New Workflow, Rules Manager and Approvals.  Every click runs the page's *)
(* script again from its top: it fetches what the page shows, and only if  *)
(* it still offers the button or form that was used does it send the       *)
(* request, and waits for the answer for at most 300 seconds.  The handler *)
(* goes on after that.                                                     *)
(*                                                                         *)
(* Several people use consoles of their own.  Each request of a console is *)
(* an action of DQSession; the session does not know about consoles.  What *)
(* the session refuses changes nothing and is left out here, and so are    *)
(* the pages that only read, and sessions started by a second discovery.   *)
(***************************************************************************)
EXTENDS DQSession

CONSTANT Consoles

VARIABLES
    flow,   \* st.session_state.workflow_stage, and the request that changes it
    told,   \* the session's id has been shown to someone
    loaded, \* the script run of the Approvals page has fetched the statuses
    seen,   \* ... and these checkpoints are approved in them
    asked,  \* the slot of the request a console waits for
    hasty   \* history: a console has given up waiting, or lost its request

browser == <<flow, told, loaded, seen, asked, hasty>>
allVars == <<vars, browser>>

Flows == {"none", "discovering", "discovered", "generating", "generated"}

ConsoleTypeOK ==
    /\ flow \in [Consoles -> Flows]
    /\ told \in BOOLEAN
    /\ loaded \in [Consoles -> BOOLEAN]
    /\ seen \in [Consoles -> SUBSET Checkpoints]
    /\ asked \in [Consoles -> SUBSET Tasks]
    /\ hasty \in BOOLEAN

-----------------------------------------------------------------------------
(* Requests                                                                *)

Waits(b) == asked[b] # {}

\* api_post: console b waits for its request in slot t.
Ask(b, t) ==
    /\ ~Waits(b)
    /\ \A other \in Consoles : t \notin asked[other]
    /\ asked' = [asked EXCEPT ![b] = {t}]
    /\ loaded' = [loaded EXCEPT ![b] = FALSE]
    /\ UNCHANGED <<told, seen, hasty>>

Stay(b, at) == flow' = [flow EXCEPT ![b] = at]

\* Mutant: a failure has a stage of its own, which no page knows.
BeforeOrFailed(b) == IF Waits(b) /\ flow[b] \in {"discovering", "generating"}
                     THEN "failed" ELSE flow[b]

\* Where the workflow of console b is after a request has failed, or succeeded.
\* /rules/generate answers with success also when a stage has failed.
Before(b) == CASE flow[b] = "discovering" -> "none"
               [] flow[b] = "generating" -> "discovered"
               [] OTHER -> flow[b]

After(b) == CASE flow[b] = "discovering" -> "discovered"
              [] flow[b] = "generating" -> "generated"
              [] OTHER -> flow[b]

\* The handler has answered.
Answered(b) ==
    /\ Waits(b)
    /\ phase = "open"
    /\ \A t \in asked[b] : ~Busy(t)
    /\ asked' = [asked EXCEPT ![b] = {}]
    /\ Stay(b, After(b))
    /\ told' = (told \/ flow[b] = "discovering")
    /\ UNCHANGED <<loaded, seen, hasty, vars>>

\* The 300 seconds are over, the server is gone, or the user has clicked again
\* and the script starts over: the request goes on without its console.
GivesUp(b) ==
    /\ Waits(b)
    /\ asked' = [asked EXCEPT ![b] = {}]
    /\ Stay(b, Before(b))
    /\ hasty' = TRUE
    /\ UNCHANGED <<told, loaded, seen, vars>>

-----------------------------------------------------------------------------
(* New Workflow                                                            *)

Discover(b, t) ==
    /\ flow[b] = "none"
    /\ StartDiscovery(t)
    /\ Ask(b, t)
    /\ Stay(b, "discovering")

\* Mutant: step 2 stays on the page.
GenerateAgain(b, t) ==
    /\ flow[b] \in {"discovered", "generated"}
    /\ \/ \E business \in BOOLEAN : GenerateTechnical(t, business)
       \/ GenerateBusiness(t)
    /\ Ask(b, t)
    /\ Stay(b, "generating")

\* Step 2 is offered until it has succeeded, to the console of step 1 only.
Generate(b, t) ==
    /\ flow[b] = "discovered"
    /\ \/ \E business \in BOOLEAN : GenerateTechnical(t, business)
       \/ GenerateBusiness(t)
    /\ Ask(b, t)
    /\ Stay(b, "generating")

-----------------------------------------------------------------------------
(* Rules Manager                                                           *)

\* A confirmed rule of the chat, or one rule of a saved selection, reaches the
\* session; neither request suspends.
Curate(b, t) ==
    /\ told /\ ~Waits(b)
    /\ \/ "custom" \in Requests /\ AddCustomRule(t)
       \/ "update" \in Requests /\ SetActive(t)
    /\ loaded' = [loaded EXCEPT ![b] = FALSE]
    /\ UNCHANGED <<flow, told, seen, asked, hasty>>

-----------------------------------------------------------------------------
(* Approvals                                                               *)

\* GET /approvals/{session_id}; a session that is gone is shown as pending.
Look(b) ==
    /\ told /\ ~Waits(b)
    /\ loaded' = [loaded EXCEPT ![b] = TRUE]
    /\ seen' = [seen EXCEPT ![b] = {c \in Checkpoints : phase = "open" /\ approval[c] = "approved"}]
    /\ UNCHANGED <<flow, told, asked, hasty, vars>>

\* The form of checkpoint 1 is there until it is approved, also without rules.
SubmitRules(b, t) ==
    /\ loaded[b] /\ 1 \notin seen[b]
    /\ SubmitDecision(t)
    /\ local'[t].checkpoint = 1
    /\ Ask(b, t)
    /\ UNCHANGED flow

\* What the page offers once checkpoint 1 is approved.
Rebuild(b, t) ==
    /\ loaded[b] /\ 1 \in seen[b]
    /\ RequestSQL(t)
    /\ Ask(b, t)
    /\ UNCHANGED flow

\* Mutant: the button is there in any case.
ExecuteAlways(b, t) ==
    /\ loaded[b]
    /\ Execute(t)
    /\ Ask(b, t)
    /\ UNCHANGED flow

ExecuteRules(b, t) ==
    /\ loaded[b] /\ 1 \in seen[b]
    /\ Execute(t)
    /\ Ask(b, t)
    /\ UNCHANGED flow

\* Mutant: both forms are there.
SubmitSignOffAlways(b, t) ==
    /\ loaded[b] /\ 2 \notin seen[b]
    /\ SubmitDecision(t)
    /\ local'[t].checkpoint = 2
    /\ Ask(b, t)
    /\ UNCHANGED flow

\* The form offers no MODIFIED.  (It also needs the results of some run, of any
\* session, or the script fails above it.)
SubmitSignOff(b, t) ==
    /\ loaded[b] /\ 1 \in seen[b] /\ 2 \notin seen[b]
    /\ SubmitDecision(t)
    /\ local'[t].checkpoint = 2
    /\ local'[t].decision # "modified"
    /\ Ask(b, t)
    /\ UNCHANGED flow

-----------------------------------------------------------------------------
(* The specification                                                       *)

ConsoleInit ==
    /\ Init
    /\ flow = [b \in Consoles |-> "none"]
    /\ told = FALSE
    /\ loaded = [b \in Consoles |-> FALSE]
    /\ seen = [b \in Consoles |-> {}]
    /\ asked = [b \in Consoles |-> {}]
    /\ hasty = FALSE

Uses(b, t) ==
    \/ Discover(b, t)
    \/ Generate(b, t)
    \/ Curate(b, t)
    \/ SubmitRules(b, t)
    \/ Rebuild(b, t)
    \/ ExecuteRules(b, t)
    \/ SubmitSignOff(b, t)

Server == (Crash \/ DDLLands \/ \E t \in Tasks : Resume(t)) /\ UNCHANGED browser

ConsoleNext ==
    \/ Server
    \/ \E b \in Consoles : Look(b) \/ Answered(b) \/ GivesUp(b) \/ \E t \in Tasks : Uses(b, t)

ConsoleSpec == ConsoleInit /\ [][ConsoleNext]_allVars

-----------------------------------------------------------------------------
(* Properties                                                              *)

\* prompts/orchestrator.py "Never skip an approval stage": whoever uses consoles
\* only, with others who do, signs data off after the rules were approved, which
\* the API does not ask for.
SignOffInOrder == 2 \in granted => 1 \in granted

\* Through consoles not even a custom rule runs before the rules were approved.
NothingRunsUnapproved == dag \/ executed # {} => 1 \in granted

\* A rule set that replaces another one, whose approval it keeps, is the second
\* try of somebody who got no answer to the first.
ReplacedAfterNoAnswer == versions > 1 => hasty
=============================================================================
