------------------------------ MODULE MCClaude ------------------------------
(* Small instances of ClaudeAnswers for TLC: see the .cfg files named in README. *)
EXTENDS ClaudeAnswers, TLC

MCModel == "sonnet"
MCFallbacks == <<"sonnet", "haiku", "opus">>

Rule(kind) == <<"{", kind, "}">>
Rules(rules) == <<"{", "rules", "[">> \o rules \o <<"]", "}">>

\* What models are asked for, what they get wrong, and the beginning of it.
Documents ==
    {Rules(Rule("good") \o Rule("ghost")),
     Rules(Rule("good") \o Rule("bad")),
     Rules(<<"{", "good", "[">> \o Rule("bad") \o <<"]", "}">>),
     <<"{", "rules", "null", "}">>,
     <<"[">> \o Rule("good") \o <<"[">> \o Rule("ghost") \o <<"]", "]">>,
     <<"{", "sql", "}">>,
     <<"{", "rules", "[">> \o Rule("good"),
     <<"{", "rules", "[">> \o Rule("good") \o <<"]">>}

Around == {<<>>, <<"word">>, <<"fence">>, <<"word", "fence">>}

MCAnswers == {before \o doc \o after : before \in Around, doc \in Documents, after \in Around}
=============================================================================
