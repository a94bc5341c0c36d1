---------------------------- MODULE JsonAnswers ----------------------------
(***************************************************************************)
(* What BaseAgent._extract_json makes of the text of a model, and what the *)
(* callers make of that.  A text is a sequence of tokens: brackets, the    *)
(* key of an object, rules, fences and prose.  All a rule's object says is *)
(* which kind of rule it is.                                               *)
(***************************************************************************)
EXTENDS Integers, Sequences, FiniteSets, FiniteSetsExt

RuleKinds == {"good",  \* about a column of the table
              "ghost", \* about a column that does not exist
              "bad"}   \* with a threshold that is not a number
Keys == {"rules", "items", "sql", "error"}
Opening == {"{", "["}
Closing == {"}", "]"}
Prose == {"word", "fence"}
Tokens == RuleKinds \cup Keys \cup Opening \cup Closing \cup Prose \cup {"null"}

Texts == Seq(Tokens)

Count(t, C, i, j) == Cardinality({k \in i .. j : t[k] \in C})

\* How many brackets are open after token j, of those from token i on.
Depth(t, i, j) == Count(t, Opening, i, j) - Count(t, Closing, i, j)

\* Bracket i of text t is closed by token j.
Closes(t, i, j) ==
    /\ t[i] \in Opening
    /\ Depth(t, i, j) = 0
    /\ \A k \in i .. j - 1 : Depth(t, i, k) > 0

\* Text t is one JSON object or array: a bracket that the last token closes,
\* brackets in pairs of a kind, keys and rules within objects, and no prose.
IsJson(t) ==
    /\ Len(t) > 1
    /\ Closes(t, 1, Len(t))
    /\ \A i \in 1 .. Len(t) :
         /\ t[i] \notin Prose
         /\ t[i] \in Keys \cup RuleKinds => t[i - 1] = "{"
         /\ t[i] = "null" => t[i - 1] \in Keys
    /\ \A i, j \in 1 .. Len(t) : i < j /\ Closes(t, i, j) => (t[i] = "{" <=> t[j] = "}")

Items(array) == <<"{", "items">> \o array \o <<"}">>
Failure == <<"{", "error", "}">>

Places(t, c) == {k \in 1 .. Len(t) : t[k] = c}

-----------------------------------------------------------------------------
(* The attempts of _extract_json: the part of the text each one takes, the *)
(* empty one if there is none                                              *)

\* From the first fence to the next one, with something in between.
Fenced(t) ==
    IF Places(t, "fence") = {} THEN <<>>
    ELSE LET first == Min(Places(t, "fence"))
             closing == {k \in Places(t, "fence") : k > first + 1}
         IN IF closing = {} THEN <<>> ELSE SubSeq(t, first + 1, Min(closing) - 1)

\* From the first "{" to the last place from which on the text closes as many
\* braces as it opens: the scan starts at the end of the text, with none open.
Braces(t) ==
    IF Places(t, "{") = {} THEN <<>>
    ELSE LET start == Min(Places(t, "{"))
             ends == {k \in start .. Len(t) :
                        Count(t, {"}"}, k, Len(t)) = Count(t, {"{"}, k, Len(t))}
         IN IF ends = {} THEN <<>> ELSE SubSeq(t, start, Max(ends))

\* Mutant: the expression is not greedy, and stops at the first "]".
ShortestBrackets(t) ==
    LET closing == {k \in Places(t, "]") : \E i \in Places(t, "[") : i < k}
    IN IF closing = {} THEN <<>> ELSE SubSeq(t, Min(Places(t, "[")), Min(closing))

\* From the first "[" to the last "]".
Brackets(t) ==
    LET closing == {k \in Places(t, "]") : \E i \in Places(t, "[") : i < k}
    IN IF closing = {} THEN <<>> ELSE SubSeq(t, Min(Places(t, "[")), Max(closing))

\* Mutant: fences are not looked for.
ExtractUnfenced(t) ==
    LET json == {part \in {t, Braces(t), Brackets(t)} : IsJson(part)}
    IN IF t \in json THEN t
       ELSE IF Braces(t) \in json THEN Braces(t)
       ELSE IF Brackets(t) \in json THEN Items(Brackets(t))
       ELSE Failure

\* The first attempt that is JSON.
Extract(t) ==
    LET json == {part \in {t, Fenced(t), Braces(t), Brackets(t)} : IsJson(part)}
    IN IF t \in json THEN t
       ELSE IF Fenced(t) \in json THEN Fenced(t)
       ELSE IF Braces(t) \in json THEN Braces(t)
       ELSE IF Brackets(t) \in json THEN Items(Brackets(t))
       ELSE Failure

-----------------------------------------------------------------------------
(* The callers                                                             *)

HasKey(result, key) == result[1] = "{" /\ result[2] = key

\* Where the rules of a text are.
RulesIn(t) == {k \in 1 .. Len(t) : t[k] \in RuleKinds}

\* The rules that are elements of the list that token i begins, and not deeper.
Members(t, i) ==
    IF t[i] = "[" THEN {k \in RulesIn(t) : k > i /\ Depth(t, i, k) = 2} ELSE {}

\* The length of "rules" and the thresholds are taken as numbers, unchecked.
Raises(result) ==
    /\ HasKey(result, "rules")
    /\ result[3] = "null" \/ \E k \in Members(result, 3) : result[k] = "bad"

\* Mutant: an array stands for rules as well.
AcceptItems(result) ==
    IF HasKey(result, "rules") \/ HasKey(result, "items")
    THEN Members(result, 3) \cap Places(result, "good") ELSE {}

\* The business agent: result.get("rules", []) of an object; the rules about
\* columns that do not exist are dropped.
Accept(result) ==
    IF HasKey(result, "rules") THEN Members(result, 3) \cap Places(result, "good") ELSE {}

\* The metadata agent: the elements of an array, bare or wrapped.
Elements(result) ==
    IF result[1] = "[" THEN Members(result, 1)
    ELSE IF HasKey(result, "items") THEN Members(result, 3)
    ELSE {}
=============================================================================
