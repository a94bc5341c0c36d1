------------------------ MODULE ClaudeAnswers_proofs ------------------------
(***************************************************************************)
(* Uses of Claude, proved for every answer, of whatever length, and any    *)
(* number of models, tables and columns.  The first part proves what       *)
(* _extract_json returns: a part of the text, and the one that was asked   *)
(* for; the second one what the callers make of it.                        *)
(***************************************************************************)
EXTENDS ClaudeAnswers, WellFoundedInduction, FiniteSetTheorems, FunctionTheorems, SequenceTheorems,
        TLAPS

-----------------------------------------------------------------------------
(* Least and greatest places                                               *)

\* Numbers have a least one: they are well-founded.
LEMMA LeastExists ==
    ASSUME NEW S \in SUBSET Nat, S # {}
    PROVE  \E x \in S : \A y \in S : x <= y
<1> DEFINE less == OpToRel(<, Nat)
<1>1. \E x \in S : \A y \in S : <<y, x>> \notin less
  <2>1. IsWellFoundedOn(less, Nat)
    BY NatLessThanWellFounded
  <2> QED BY <2>1, WFMin
<1>2. PICK x \in S : \A y \in S : <<y, x>> \notin less
  BY <1>1
<1>3. ASSUME NEW y \in S PROVE x <= y
  <2>1. x \in Nat /\ y \in Nat
    OBVIOUS
  <2>2. ~(y < x)
    <3>1. y < x => <<y, x>> \in less
      BY <2>1 DEF OpToRel
    <3> QED BY <1>2, <3>1
  <2> QED BY <2>1, <2>2
<1> QED BY <1>2, <1>3

\* The least number of a set is one of it.
LEMMA MinIn ==
    ASSUME NEW S \in SUBSET Nat, S # {}
    PROVE  Min(S) \in S
  BY LeastExists DEF Min

\* The greatest number of a bounded set is one of it: the least one counted from above.
LEMMA MaxIn ==
    ASSUME NEW n \in Nat, NEW S \in SUBSET (1 .. n), S # {}
    PROVE  Max(S) \in S
<1> DEFINE rest == {m \in Nat : n - m \in S}
<1>1. rest # {}
  <2>1. PICK x \in S : TRUE
    OBVIOUS
  <2>2. n - x \in Nat /\ n - (n - x) = x
    OBVIOUS
  <2> QED BY <2>1, <2>2
<1>2. PICK m \in rest : \A k \in rest : m <= k
  <2> HIDE DEF rest
  <2>1. rest \in SUBSET Nat
    BY DEF rest
  <2> QED BY <1>1, <2>1, LeastExists
<1>3. ASSUME NEW y \in S PROVE n - m >= y
  <2>1. y \in Nat /\ n - y \in Nat /\ n - (n - y) = y /\ m \in Nat
    OBVIOUS
  <2>2. n - y \in rest
    BY <2>1
  <2>3. m <= n - y
    BY <1>2, <2>2
  <2> QED BY <2>1, <2>3
<1>4. n - m \in S /\ \A y \in S : n - m >= y
  BY <1>2, <1>3
<1> HIDE DEF rest
<1>5. \E x \in S : x = Max(S)
  <2> DEFINE greatest(x) == x \in S /\ \A y \in S : x >= y
  <2>1. greatest(n - m)
    BY <1>4
  <2>2. Max(S) = CHOOSE x : greatest(x)
    BY DEF Max
  <2>3. greatest(CHOOSE x : greatest(x))
    BY <2>1
  <2> QED BY <2>2, <2>3
<1> QED BY <1>5

-----------------------------------------------------------------------------
(* What _extract_json returns, for every text                              *)

Parts(t) == {SubSeq(t, i, j) : i \in 1 .. Len(t), j \in 1 .. Len(t)}

\* Two places of a text make a part of it.
LEMMA PartOf ==
    ASSUME NEW t, NEW i \in 1 .. Len(t), NEW j \in 1 .. Len(t)
    PROVE  SubSeq(t, i, j) \in Parts(t)
  BY DEF Parts

\* Places of a token are places of the text.
LEMMA PlacesIn ==
    ASSUME NEW t \in Texts, NEW c
    PROVE  /\ Len(t) \in Nat
           /\ Places(t, c) \in SUBSET Nat
           /\ Places(t, c) \in SUBSET (1 .. Len(t))
<1>1. Len(t) \in Nat
  BY LenProperties DEF Texts
<1> QED BY <1>1 DEF Places

\* Between two fences there is a part of the text.
LEMMA FencedIsPart ==
    ASSUME NEW t \in Texts, Fenced(t) # <<>>
    PROVE  Fenced(t) \in Parts(t)
<1> DEFINE fences == Places(t, "fence")
           first == Min(fences)
           closing == {k \in fences : k > first + 1}
<1>1. Len(t) \in Nat /\ fences \in SUBSET Nat /\ fences \in SUBSET (1 .. Len(t))
  BY PlacesIn
<1>2. fences # {} /\ closing # {} /\ Fenced(t) = SubSeq(t, first + 1, Min(closing) - 1)
  BY DEF Fenced
<1> HIDE DEF fences
<1>3. first \in fences
  BY <1>1, <1>2, MinIn
<1> HIDE DEF first
<1>4. closing \in SUBSET Nat
  BY <1>1
<1>5. Min(closing) \in closing
  BY <1>2, <1>4, MinIn
<1> DEFINE last == Min(closing)
<1>6. first + 1 \in 1 .. Len(t) /\ last - 1 \in 1 .. Len(t)
  <2>1. last \in 1 .. Len(t) /\ last > first + 1 /\ first \in 1 .. Len(t)
    BY <1>1, <1>3, <1>5
  <2> HIDE DEF last
  <2> QED BY <1>1, <2>1
<1>7. SubSeq(t, first + 1, Min(closing) - 1) \in Parts(t)
  BY <1>6, PartOf
<1> QED BY <1>2, <1>7

\* Between braces there is a part of the text.
LEMMA BracesIsPart ==
    ASSUME NEW t \in Texts, Braces(t) # <<>>
    PROVE  Braces(t) \in Parts(t)
<1> DEFINE opening == Places(t, "{")
           start == Min(opening)
           ends == {k \in start .. Len(t) :
                      Count(t, {"}"}, k, Len(t)) = Count(t, {"{"}, k, Len(t))}
<1>1. opening \in SUBSET Nat /\ opening \in SUBSET (1 .. Len(t)) /\ Len(t) \in Nat
  BY PlacesIn
<1>2. opening # {} /\ ends # {} /\ Braces(t) = SubSeq(t, start, Max(ends))
  BY DEF Braces
<1> HIDE DEF opening
<1>3. start \in opening
  BY <1>1, <1>2, MinIn
<1> HIDE DEF start
<1>4. ends \in SUBSET (1 .. Len(t))
  <2>1. start \in 1 .. Len(t)
    BY <1>1, <1>3
  <2>2. ASSUME NEW k \in start .. Len(t) PROVE k \in 1 .. Len(t)
    BY <1>1, <2>1
  <2> QED BY <2>2
<1> HIDE DEF ends
<1>5. Max(ends) \in ends
  BY <1>1, <1>2, <1>4, MaxIn
<1>6. start \in 1 .. Len(t) /\ Max(ends) \in 1 .. Len(t)
  BY <1>1, <1>3, <1>4, <1>5
<1>7. SubSeq(t, start, Max(ends)) \in Parts(t)
  BY <1>6, PartOf
<1> QED BY <1>2, <1>7

\* Between brackets there is a part of the text.
LEMMA BracketsIsPart ==
    ASSUME NEW t \in Texts, Brackets(t) # <<>>
    PROVE  Brackets(t) \in Parts(t)
<1> DEFINE opening == Places(t, "[")
           closing == {k \in Places(t, "]") : \E i \in opening : i < k}
<1>1. opening \in SUBSET Nat /\ opening \in SUBSET (1 .. Len(t)) /\ Len(t) \in Nat
  BY PlacesIn
<1>2. closing # {} /\ Brackets(t) = SubSeq(t, Min(opening), Max(closing))
  BY DEF Brackets
<1>3. closing \in SUBSET (1 .. Len(t)) /\ opening # {}
  BY <1>2, PlacesIn
<1> HIDE DEF opening, closing
<1>4. Min(opening) \in opening /\ Max(closing) \in closing
  BY <1>1, <1>2, <1>3, MinIn, MaxIn
<1>5. Min(opening) \in 1 .. Len(t) /\ Max(closing) \in 1 .. Len(t)
  BY <1>1, <1>3, <1>4
<1>6. SubSeq(t, Min(opening), Max(closing)) \in Parts(t)
  BY <1>5, PartOf
<1> QED BY <1>2, <1>6

\* A part of a text is a text.
LEMMA PartsAreTexts ==
    ASSUME NEW t \in Texts, NEW part \in Parts(t)
    PROVE  part \in Texts
<1>1. PICK i \in 1 .. Len(t), j \in 1 .. Len(t) : part = SubSeq(t, i, j)
  BY DEF Parts
<1>2. t \in Seq(Tokens) /\ Len(t) \in Nat
  BY PlacesIn DEF Texts
<1>3. \A k \in i .. j : k \in 1 .. Len(t) /\ t[k] \in Tokens
  <2>1. \A k \in i .. j : k \in 1 .. Len(t)
    BY <1>1, <1>2
  <2> QED BY <1>2, <2>1, ElementOfSeq
<1>4. SubSeq(t, i, j) \in Seq(Tokens)
  BY <1>1, <1>2, <1>3, SubSeqProperties
<1> QED BY <1>1, <1>4 DEF Texts

\* What stands between brackets is a text, whether there are any or not.
LEMMA BracketsAreText ==
    ASSUME NEW t \in Texts
    PROVE  Brackets(t) \in Texts
<1>1. CASE Brackets(t) = <<>>
  BY <1>1 DEF Texts
<1>2. CASE Brackets(t) # <<>>
  BY <1>2, BracketsIsPart, PartsAreTexts
<1> QED BY <1>1, <1>2

\* The sequence of one element.
LEMMA OneElement ==
    ASSUME NEW S, NEW a \in S
    PROVE  <<a>> \in Seq(S)
  OBVIOUS

\* The sequence of two elements.
LEMMA TwoElements ==
    ASSUME NEW S, NEW a \in S, NEW b \in S
    PROVE  <<a, b>> \in Seq(S)
  OBVIOUS

\* The object an array is wrapped in.
LEMMA ItemsOf ==
    ASSUME NEW array \in Texts
    PROVE  /\ Len(Items(array)) = Len(array) + 3
           /\ Items(array)[1] = "{" /\ Items(array)[2] = "items"
           /\ \A k \in 3 .. Len(array) + 2 : Items(array)[k] = array[k - 2]
<1>1. "{" \in Tokens /\ "items" \in Tokens /\ "}" \in Tokens
  BY DEF Tokens, Keys, Opening, Closing
<1>2. <<"{", "items">> \in Seq(Tokens) /\ <<"}">> \in Seq(Tokens)
  BY <1>1, OneElement, TwoElements, Zenon
<1>3. PICK key \in Seq(Tokens), close \in Seq(Tokens) : key = <<"{", "items">> /\ close = <<"}">>
  BY <1>2, Zenon
<1>4. PICK s \in Seq(Tokens) : s = array
  BY DEF Texts
<1>a. key[1] = "{" /\ key[2] = "items"
  BY <1>3
<1>5. Len(key) = 2 /\ Len(close) = 1
  BY <1>3
<1>6. Len(s) \in Nat
  BY LenProperties
<1>7. /\ key \o s \in Seq(Tokens)
      /\ Len(key \o s) = Len(key) + Len(s)
      /\ \A i \in 1 .. Len(key) + Len(s) :
           (key \o s)[i] = IF i <= Len(key) THEN key[i] ELSE s[i - Len(key)]
  BY ConcatProperties, Zenon
<1>8. PICK both \in Seq(Tokens) : both = key \o s
  BY <1>7
<1>9. /\ Len(both) = Len(s) + 2
      /\ \A i \in 1 .. 2 + Len(s) : both[i] = IF i <= 2 THEN key[i] ELSE s[i - 2]
  BY <1>5, <1>6, <1>7, <1>8
<1>10. /\ Len(both \o close) = Len(both) + Len(close)
       /\ \A i \in 1 .. Len(both) + Len(close) :
            (both \o close)[i] = IF i <= Len(both) THEN both[i] ELSE close[i - Len(both)]
  BY ConcatProperties, Zenon
<1>11. PICK whole : whole = both \o close
  OBVIOUS
<1>12. Len(whole) = Len(s) + 3 /\ \A i \in 1 .. Len(s) + 2 : whole[i] = both[i]
  BY <1>5, <1>6, <1>9, <1>10, <1>11
<1>13. \A k \in 3 .. Len(s) + 2 : whole[k] = s[k - 2]
  BY <1>6, <1>9, <1>12
<1>14. whole[1] = key[1] /\ whole[2] = key[2]
  <2>1. /\ 1 \in 1 .. Len(s) + 2 /\ 2 \in 1 .. Len(s) + 2
        /\ 1 \in 1 .. 2 + Len(s) /\ 2 \in 1 .. 2 + Len(s)
    BY <1>6
  <2> QED BY <1>9, <1>12, <2>1
<1>15. Items(array) = whole
  <2>1. Items(array) = (key \o s) \o close
    BY <1>3, <1>4, Zenon DEF Items
  <2> QED BY <1>8, <1>11, <2>1, Zenon
<1> QED BY <1>4, <1>a, <1>12, <1>13, <1>14, <1>15

\* An object of rules that is extracted is JSON, and a part of the text: an
\* array is wrapped under another key.
LEMMA ExtractedRules ==
    ASSUME NEW t \in Texts, HasKey(Extract(t), "rules")
    PROVE  IsJson(Extract(t)) /\ Extract(t) \in Parts(t)
<1>1. ~HasKey(Failure, "rules")
  BY DEF HasKey, Failure
<1>2. ~HasKey(Items(Brackets(t)), "rules")
  <2>1. Items(Brackets(t))[2] = "items"
    BY BracketsAreText, ItemsOf
  <2> QED BY <2>1 DEF HasKey
<1>3. IsJson(Extract(t)) /\ Extract(t) \in {t, Fenced(t), Braces(t)}
  BY <1>1, <1>2 DEF Extract
<1>4. Extract(t) # <<>>
  <2>1. ~IsJson(<<>>)
    <3>1. Len(<<>>) = 0
      OBVIOUS
    <3> QED BY <3>1 DEF IsJson
  <2> QED BY <1>3, <2>1
<1>5. CASE Extract(t) = t
  <2>1. Len(t) \in Nat /\ Len(t) > 0 /\ t = SubSeq(t, 1, Len(t))
    BY <1>4, <1>5 DEF Texts
  <2>2. 1 \in 1 .. Len(t) /\ Len(t) \in 1 .. Len(t)
    BY <2>1
  <2>3. t \in Parts(t)
    BY <2>1, <2>2 DEF Parts
  <2> QED BY <1>3, <1>5, <2>3
<1> QED BY <1>3, <1>4, <1>5, FencedIsPart, BracesIsPart

-----------------------------------------------------------------------------
(* What it returns for answers as they are asked for                       *)

\* How many tokens of a kind there are is a number.
LEMMA CountType ==
    ASSUME NEW t, NEW C, NEW i \in Int, NEW j \in Int
    PROVE  IsFiniteSet({k \in i .. j : t[k] \in C}) /\ Count(t, C, i, j) \in Nat
<1>1. IsFiniteSet(i .. j)
  BY FS_Interval
<1>2. IsFiniteSet({k \in i .. j : t[k] \in C})
  BY <1>1, FS_Subset
<1> QED BY <1>2, FS_CardinalityType DEF Count

\* Counting up to the next token.
LEMMA CountNext ==
    ASSUME NEW t, NEW C, NEW i \in Int, NEW j \in Int, i <= j
    PROVE  Count(t, C, i, j) = Count(t, C, i, j - 1) + (IF t[j] \in C THEN 1 ELSE 0)
<1> DEFINE before == {k \in i .. j - 1 : t[k] \in C}
           upto == {k \in i .. j : t[k] \in C}
<1>1. i .. j = (i .. j - 1) \cup {j} /\ j \notin i .. j - 1
  OBVIOUS
<1>2. IsFiniteSet(before) /\ Cardinality(before) \in Nat
  <2>1. j - 1 \in Int
    OBVIOUS
  <2> QED BY <2>1, CountType DEF Count
<1>3. CASE t[j] \in C
  <2>1. upto = before \cup {j} /\ j \notin before
    BY <1>1, <1>3
  <2>2. Cardinality(upto) = Cardinality(before) + 1
    <3> HIDE DEF upto, before
    <3> QED BY <1>2, <2>1, FS_AddElement
  <2> QED BY <1>3, <2>2 DEF Count
<1>4. CASE t[j] \notin C
  <2>1. upto = before
    BY <1>1, <1>4
  <2> QED BY <1>2, <1>4, <2>1 DEF Count
<1> QED BY <1>3, <1>4

\* The last token of an object or an array closes the first one.
LEMMA JsonEnds ==
    ASSUME NEW t \in Texts, IsJson(t)
    PROVE  /\ Len(t) \in Nat /\ Len(t) > 1
           /\ t[1] \in Opening /\ t[Len(t)] \in Closing
           /\ t[1] = "{" <=> t[Len(t)] = "}"
           /\ \A k \in 1 .. Len(t) : t[k] \notin Prose
<1>1. Len(t) \in Nat /\ Len(t) > 1 /\ Closes(t, 1, Len(t))
  BY LenProperties DEF IsJson, Texts
<1>2. t[1] = "{" <=> t[Len(t)] = "}"
  <2>1. \A i, j \in 1 .. Len(t) : i < j /\ Closes(t, i, j) => (t[i] = "{" <=> t[j] = "}")
    BY DEF IsJson
  <2>2. 1 \in 1 .. Len(t) /\ Len(t) \in 1 .. Len(t) /\ 1 < Len(t)
    BY <1>1
  <2> QED BY <1>1, <2>1, <2>2
<1>a. t[1] \in Opening /\ Depth(t, 1, Len(t)) = 0 /\ Depth(t, 1, Len(t) - 1) > 0
  <2>1. Len(t) - 1 \in 1 .. Len(t) - 1
    BY <1>1
  <2> QED BY <1>1, <2>1 DEF Closes
<1>b. \A k \in 1 .. Len(t) : t[k] \notin Prose
  BY DEF IsJson
<1> DEFINE n == Len(t)
<1>3. t[n] \in Closing
  <2> HIDE DEF n
  <2>0. n \in Nat /\ n > 1 /\ 1 \in Int /\ n \in Int /\ n - 1 \in Int
    BY <1>1 DEF n
  <2>1. /\ Count(t, Opening, 1, n - 1) \in Nat /\ Count(t, Closing, 1, n - 1) \in Nat
        /\ Count(t, Closing, 1, n) =
             Count(t, Closing, 1, n - 1) + (IF t[n] \in Closing THEN 1 ELSE 0)
        /\ Count(t, Opening, 1, n) =
             Count(t, Opening, 1, n - 1) + (IF t[n] \in Opening THEN 1 ELSE 0)
    <3>1. 1 <= n
      BY <2>0
    <3>2. \A C : Count(t, C, 1, n - 1) \in Nat
      BY <2>0, CountType
    <3>3. \A C : Count(t, C, 1, n) = Count(t, C, 1, n - 1) + (IF t[n] \in C THEN 1 ELSE 0)
      BY <2>0, <3>1, CountNext
    <3> QED BY <3>2, <3>3
  <2>2. /\ Count(t, Opening, 1, n) = Count(t, Closing, 1, n)
        /\ Count(t, Opening, 1, n - 1) > Count(t, Closing, 1, n - 1)
    <3>1. Count(t, Opening, 1, n) \in Nat /\ Count(t, Closing, 1, n) \in Nat
      BY <2>0, CountType
    <3>2. Depth(t, 1, n) = 0 /\ Depth(t, 1, n - 1) > 0
      BY <1>a DEF n
    <3>3. /\ Count(t, Opening, 1, n) - Count(t, Closing, 1, n) = 0
          /\ Count(t, Opening, 1, n - 1) - Count(t, Closing, 1, n - 1) > 0
      BY <3>2 DEF Depth
    <3> DEFINE o == Count(t, Opening, 1, n)
               c == Count(t, Closing, 1, n)
               ob == Count(t, Opening, 1, n - 1)
               cb == Count(t, Closing, 1, n - 1)
    <3>4. o \in Nat /\ c \in Nat /\ ob \in Nat /\ cb \in Nat /\ o - c = 0 /\ ob - cb > 0
      BY <2>1, <3>1, <3>3
    <3> HIDE DEF o, c, ob, cb
    <3>5. o = c /\ ob > cb
      BY <3>4
    <3> QED BY <3>5 DEF o, c, ob, cb
  <2> QED BY <2>1, <2>2
<1> QED BY <1>1, <1>2, <1>3, <1>a, <1>b

\* The least place.
LEMMA MinIs ==
    ASSUME NEW S \in SUBSET Nat, NEW x \in S, \A y \in S : x <= y
    PROVE  Min(S) = x
<1> DEFINE first == Min(S)
<1>1. first \in S /\ \A y \in S : first <= y
  BY DEF Min
<1> HIDE DEF first
<1>2. first \in Nat /\ x \in Nat /\ first <= x /\ x <= first
  BY <1>1
<1>3. first = x
  BY <1>2
<1> QED BY <1>3 DEF first

\* The greatest place.
LEMMA MaxIs ==
    ASSUME NEW S \in SUBSET Nat, NEW x \in S, \A y \in S : x >= y
    PROVE  Max(S) = x
<1> DEFINE last == Max(S)
<1>1. last \in S /\ \A y \in S : last >= y
  BY DEF Max
<1> HIDE DEF last
<1>2. last \in Nat /\ x \in Nat /\ last >= x /\ x >= last
  BY <1>1
<1>3. last = x
  BY <1>2
<1> QED BY <1>3 DEF last

\* Tokens of a part of a text.
LEMMA PartAt ==
    ASSUME NEW t \in Texts, NEW i \in 1 .. Len(t), NEW j \in 1 .. Len(t), i <= j
    PROVE  /\ SubSeq(t, i, j) \in Texts
           /\ Len(SubSeq(t, i, j)) = j - i + 1
           /\ \A k \in 1 .. j - i + 1 : SubSeq(t, i, j)[k] = t[i + k - 1]
<1>1. t \in Seq(Tokens) /\ Len(t) \in Nat
  BY PlacesIn DEF Texts
<1>2. SubSeq(t, i, j) \in Texts
  BY PartOf, PartsAreTexts
<1> QED BY <1>1, <1>2, SubSeqProperties

\* An object, fenced or bare, is what _extract_json returns.
LEMMA ContentExtracted ==
    ASSUME NEW t \in Texts, IsJson(Content(t))
    PROVE  Extract(t) = Content(t)
<1> DEFINE n == Len(t)
<1>1. n \in Nat /\ t \in Seq(Tokens)
  BY PlacesIn DEF Texts
<1>2. CASE ~(n > 2 /\ t[1] = "fence" /\ t[n] = "fence")
  <2>1. Content(t) = t
    BY <1>2 DEF Content
  <2> QED BY <2>1 DEF Extract
<1>3. CASE n > 2 /\ t[1] = "fence" /\ t[n] = "fence"
  <2> DEFINE doc == SubSeq(t, 2, n - 1)
  <2>1. Content(t) = doc
    BY <1>3 DEF Content
  <2>2. /\ doc \in Texts /\ Len(doc) = n - 2
        /\ \A k \in 1 .. n - 2 : doc[k] = t[k + 1]
    <3>1. 2 \in 1 .. Len(t) /\ n - 1 \in 1 .. Len(t) /\ 2 <= n - 1
      BY <1>1, <1>3
    <3> QED BY <1>1, <3>1, PartAt
  <2> HIDE DEF doc
  <2>3. \A k \in 1 .. Len(doc) : doc[k] # "fence"
    BY <2>1, <2>2, JsonEnds DEF Prose
  <2>4. \A k \in 2 .. n - 1 : t[k] # "fence"
    <3> TAKE k \in 2 .. n - 1
    <3>1. k - 1 \in 1 .. n - 2 /\ (k - 1) + 1 = k
      BY <1>1
    <3> QED BY <2>2, <2>3, <3>1
  <2>5. Places(t, "fence") = {1, n}
    BY <1>1, <1>3, <2>4 DEF Places
  <2>6. Min(Places(t, "fence")) = 1
    BY <1>1, <1>3, <2>5, MinIs
  <2>7. {k \in Places(t, "fence") : k > 1 + 1} = {n}
    BY <1>1, <1>3, <2>5
  <2>8. Min({n}) = n
    BY <1>1, MinIs
  <2>9. Fenced(t) = doc
    <3> DEFINE fences == Places(t, "fence")
               closing == {k \in fences : k > Min(fences) + 1}
    <3>1. Fenced(t) = IF fences = {} THEN <<>>
                      ELSE IF closing = {} THEN <<>>
                      ELSE SubSeq(t, Min(fences) + 1, Min(closing) - 1)
      BY DEF Fenced
    <3>2. fences # {} /\ closing = {n} /\ Min(fences) + 1 = 2
      BY <2>5, <2>6, <2>7
    <3> HIDE DEF fences, closing
    <3> QED BY <2>8, <3>1, <3>2 DEF doc
  <2>10. ~IsJson(t)
    <3>1. 1 \in 1 .. Len(t) /\ t[1] \in Prose
      BY <1>1, <1>3 DEF Prose
    <3> QED BY <3>1, JsonEnds
  <2> QED BY <2>1, <2>9, <2>10 DEF Extract
<1> QED BY <1>2, <1>3

\* Nothing is no JSON.
LEMMA EmptyNotJson == ~IsJson(<<>>)
<1>1. Len(<<>>) = 0
  OBVIOUS
<1> QED BY <1>1 DEF IsJson

\* Numbers between two others.
LEMMA Between ==
    ASSUME NEW n \in Nat, NEW s \in 1 .. n
    PROVE  /\ s \in Nat /\ s <= n /\ n \in s .. n /\ n \in 1 .. n
           /\ \A k \in s .. n : k \in Nat /\ n >= k
           /\ 1 \in 1 .. n - s + 1 /\ n - s + 1 \in 1 .. n - s + 1
           /\ s + 1 - 1 = s /\ s + (n - s + 1) - 1 = n
OBVIOUS

\* An array among words is what _extract_json returns, as it is or wrapped: a
\* part that begins with an object does not end where the array does.
LEMMA ArrayExtracted ==
    ASSUME NEW t \in Texts, NEW i \in 1 .. Len(t), NEW j \in 1 .. Len(t),
           IsJson(SubSeq(t, i, j)), SubSeq(t, i, j)[1] = "[",
           \A k \in (1 .. Len(t)) \ (i .. j) : t[k] = "word"
    PROVE  Extract(t) \in {SubSeq(t, i, j), Items(SubSeq(t, i, j))}
<1> DEFINE n == Len(t)
           doc == SubSeq(t, i, j)
<1>1. n \in Nat /\ t \in Seq(Tokens) /\ i \in Nat /\ j \in Nat
  BY PlacesIn DEF Texts
<1>2. i <= j
  <2>1. CASE i > j
    <3>1. Len(doc) = 0
      BY <1>1, <2>1, SubSeqProperties
    <3> QED BY <3>1 DEF IsJson
  <2> QED BY <1>1, <2>1
<1>3. /\ doc \in Texts /\ Len(doc) = j - i + 1
      /\ \A k \in 1 .. j - i + 1 : doc[k] = t[i + k - 1]
  BY <1>2, PartAt
<1> HIDE DEF doc
<1>4. /\ IsJson(doc) /\ doc[1] = "[" /\ Len(doc) > 1 /\ doc[Len(doc)] = "]"
      /\ \A k \in 1 .. Len(doc) : doc[k] \notin Prose
  <2>1. IsJson(doc) /\ doc[1] = "["
    BY DEF doc
  <2> QED BY <1>3, <2>1, JsonEnds DEF Closing
<1>5. t[i] = "[" /\ t[j] = "]" /\ i < j /\ \A k \in i .. j : t[k] \notin Prose
  <2>1. ASSUME NEW k \in i .. j PROVE k - i + 1 \in 1 .. j - i + 1 /\ doc[k - i + 1] = t[k]
    <3>1. k - i + 1 \in 1 .. j - i + 1 /\ i + (k - i + 1) - 1 = k
      BY <1>1
    <3> QED BY <1>3, <3>1
  <2>2. i \in i .. j /\ j \in i .. j /\ i - i + 1 = 1
    BY <1>1, <1>2
  <2>3. i < j
    BY <1>1, <1>3, <1>4
  <2> QED BY <1>3, <1>4, <2>1, <2>2, <2>3
<1>6. \A k \in 1 .. n : t[k] # "fence" /\ (k < i \/ k > j => t[k] = "word")
  BY <1>1, <1>5 DEF Prose
<1>7. CASE IsJson(t)
  <2>1. t[1] # "word" /\ t[n] # "word" /\ n > 1
    <3>1. n > 1 /\ \A k \in 1 .. n : t[k] \notin Prose
      BY <1>7, JsonEnds
    <3>2. 1 \in 1 .. n /\ n \in 1 .. n
      BY <1>1, <3>1
    <3> QED BY <3>1, <3>2 DEF Prose
  <2>2. i = 1 /\ j = n
    BY <1>1, <1>6, <2>1
  <2>3. doc = t
    BY <1>1, <2>2 DEF doc
  <2> QED BY <1>7, <2>3 DEF Extract, doc
<1>8. CASE ~IsJson(t)
  <2>0. ~IsJson(<<>>)
    BY EmptyNotJson
  <2>1. ~IsJson(Fenced(t))
    <3>1. Fenced(t) = <<>>
      BY <1>6 DEF Fenced, Places
    <3> QED BY <2>0, <3>1
  <2>2. t[n] \notin {"{", "}"} /\ n > 1
    <3>1. n \in 1 .. n /\ j <= n /\ n > 1
      BY <1>1, <1>5
    <3>2. CASE j = n
      BY <1>5, <3>1, <3>2
    <3>3. CASE j # n
      <4>1. n > j
        BY <1>1, <3>1, <3>3
      <4>2. t[n] = "word"
        BY <1>6, <3>1, <4>1
      <4> QED BY <3>1, <4>2
    <3> QED BY <3>2, <3>3
  <2>3. ~IsJson(Braces(t))
    <3> DEFINE start == Min(Places(t, "{"))
               ends == {k \in start .. Len(t) :
                          Count(t, {"}"}, k, Len(t)) = Count(t, {"{"}, k, Len(t))}
    <3>1. CASE Braces(t) = <<>>
      BY <2>0, <3>1
    <3>2. CASE Braces(t) # <<>>
      <4>1. Places(t, "{") # {} /\ Braces(t) = SubSeq(t, start, Max(ends))
        BY <3>2 DEF Braces
      <4>2. start \in Places(t, "{") /\ Places(t, "{") \subseteq 1 .. n
        BY <4>1, PlacesIn, MinIn
      <4>3. start \in 1 .. n /\ t[start] = "{"
        BY <4>2 DEF Places
      <4> HIDE DEF start
      <4>4. n \in ends
        <5>1. n \in Int /\ n - 1 \in Int /\ n <= n /\ n > n - 1
          BY <1>1
        <5>2. Count(t, {"}"}, n, n) = Count(t, {"{"}, n, n)
          <6>0. \A k \in n .. n : k = n
            BY <1>1
          <6>1. {k \in n .. n : t[k] \in {"}"}} = {} /\ {k \in n .. n : t[k] \in {"{"}} = {}
            BY <2>2, <6>0
          <6> QED BY <6>1 DEF Count
        <5>3. n \in start .. Len(t)
          BY <1>1, <4>3, Between
        <5> QED BY <5>2, <5>3
      <4>5. \A k \in ends : k \in Nat /\ n >= k
        BY <1>1, <4>3, Between
      <4> HIDE DEF ends
      <4>6. Max(ends) = n
        BY <4>4, <4>5, MaxIs
      <4> DEFINE part == SubSeq(t, start, n)
      <4>7. Braces(t) = part
        BY <4>1, <4>6
      <4>8. start <= n /\ n \in 1 .. Len(t)
        BY <1>1, <4>3, Between
      <4>9. /\ part \in Texts /\ Len(part) = n - start + 1
            /\ \A k \in 1 .. n - start + 1 : part[k] = t[start + k - 1]
        BY <4>3, <4>8, PartAt
      <4> HIDE DEF part
      <4>10. part[1] = "{" /\ part[Len(part)] = t[n]
        <5>1. 1 \in 1 .. n - start + 1 /\ n - start + 1 \in 1 .. n - start + 1
              /\ start + 1 - 1 = start /\ start + (n - start + 1) - 1 = n
          BY <1>1, <4>3, Between
        <5> QED BY <4>3, <4>9, <5>1
      <4>11. ~IsJson(part)
        BY <2>2, <4>9, <4>10, JsonEnds
      <4> QED BY <4>7, <4>11
    <3> QED BY <3>1, <3>2
  <2>4. Brackets(t) = doc
    <3> DEFINE opening == Places(t, "[")
               closing == {k \in Places(t, "]") : \E o \in opening : o < k}
    <3>1. opening \in SUBSET Nat /\ i \in opening /\ \A k \in opening : i <= k
      BY <1>1, <1>5, <1>6 DEF Places
    <3>2. closing \in SUBSET Nat /\ j \in closing /\ \A k \in closing : j >= k
      BY <1>1, <1>5, <1>6 DEF Places
    <3>3. Brackets(t) = IF closing = {} THEN <<>> ELSE SubSeq(t, Min(opening), Max(closing))
      BY DEF Brackets
    <3> HIDE DEF opening, closing
    <3>4. Min(opening) = i /\ Max(closing) = j
      BY <3>1, <3>2, MinIs, MaxIs
    <3> QED BY <3>2, <3>3, <3>4 DEF doc
  <2>5. Extract(t) = Items(doc)
    BY <1>4, <1>8, <2>1, <2>3, <2>4 DEF Extract
  <2> QED BY <2>5 DEF doc
<1> QED BY <1>7, <1>8

-----------------------------------------------------------------------------
(* The calls                                                               *)

Busy == {"sampling", "asking", "waiting", "parsing"}

\* A call has no outcome before its end; what it accepts and whether it raises
\* depend on nothing but the answer.
IInv ==
    /\ text \in Texts
    /\ table \in 1 .. Tables
    /\ pc \in Busy => outcome = "none" /\ accepted = {}
    /\ accepted # {} =>
         HasKey(Extract(text), "rules") /\ accepted = Accept(Extract(text))
    /\ outcome = "raised" /\ caller = "rules" => Raises(Extract(text))
    /\ pc = "idle" /\ uses > 0 /\ caller = "rules" => table = Tables \/ outcome = "raised"

\* Before the first call.
LEMMA IInvInit == Init => IInv
<1> SUFFICES ASSUME Init PROVE IInv
  OBVIOUS
<1>1. text \in Texts /\ table \in 1 .. Tables
  BY ClaudeAssumption DEF Init, Texts
<1> QED BY <1>1 DEF Init, IInv

\* Every step keeps IInv: only Parsed brings rules or raises.
LEMMA IInvStep == IInv /\ [Next]_vars => IInv'
<1> SUFFICES ASSUME IInv, [Next]_vars PROVE IInv'
  OBVIOUS
<1> USE DEF IInv, Busy
<1>1. CASE UNCHANGED vars
  BY <1>1 DEF vars, call, log
<1>2. CASE Logged
  BY <1>2 DEF Logged, call
<1>3. ASSUME NEW c \in Callers, Begin(c) PROVE IInv'
  <2>1. text' \in Texts /\ table' \in 1 .. Tables
    BY <1>3, ClaudeAssumption DEF Begin, NewCall, Texts
  <2> QED BY <1>3, <2>1 DEF Begin, NewCall
<1>4. CASE Sampled
  BY <1>4 DEF Sampled, call
<1>5. CASE Answered
  <2>1. text' \in Texts
    BY <1>5, ClaudeAssumption DEF Answered
  <2> QED BY <1>5, <2>1 DEF Answered
<1>6. CASE Overloaded
  BY <1>6 DEF Overloaded
<1>7. CASE Waited
  BY <1>7 DEF Waited, Fails, Ends
<1>8. CASE Refused
  BY <1>8 DEF Refused, Fails, Ends
<1>9. CASE Parsed
  <2> DEFINE result == Extract(text)
  <2> HIDE DEF result
  <2>1. /\ pc' = "done"
        /\ accepted' # {} => accepted' = Accept(result)
        /\ outcome' = "raised" /\ caller = "rules" => Raises(result)
    BY <1>9 DEF Parsed, Ends, Returns, result
  <2>2. UNCHANGED <<caller, table, text, uses>>
    BY <1>9 DEF Parsed
  <2>3. Accept(result) # {} => HasKey(result, "rules")
    BY DEF Accept
  <2> QED BY <2>1, <2>2, <2>3 DEF result
<1>10. CASE NextTable
  <2>1. text' \in Texts /\ table' \in 1 .. Tables
    BY <1>10, ClaudeAssumption DEF NextTable, NewCall, Texts
  <2> QED BY <1>10, <2>1 DEF NextTable, NewCall
<1>11. CASE Finish
  BY <1>11 DEF Finish, call
<1> QED BY <1>1, <1>2, <1>3, <1>4, <1>5, <1>6, <1>7, <1>8, <1>9, <1>10, <1>11 DEF Next, GoesOn

\* In every state what a call has brought comes from its answer.
THEOREM CallInvariant == Spec => []IInv
  BY IInvInit, IInvStep, PTL DEF Spec

\* agents/base.py: whatever models answer, rules are only accepted from a
\* complete object of rules within the answer, and then all of them.
THEOREM CompleteAnswersAccepted == Spec => []OnlyCompleteAnswers
<1>1. IInv => OnlyCompleteAnswers
  <2> SUFFICES ASSUME IInv, accepted # {}
               PROVE  \E i, j \in 1 .. Len(text) :
                        LET doc == SubSeq(text, i, j)
                        IN IsJson(doc) /\ HasKey(doc, "rules") /\ accepted = Accept(doc)
    BY DEF OnlyCompleteAnswers
  <2>1. text \in Texts /\ HasKey(Extract(text), "rules") /\ accepted = Accept(Extract(text))
    BY DEF IInv
  <2>2. IsJson(Extract(text)) /\ Extract(text) \in Parts(text)
    BY <2>1, ExtractedRules
  <2>3. PICK i \in 1 .. Len(text), j \in 1 .. Len(text) : Extract(text) = SubSeq(text, i, j)
    BY <2>2 DEF Parts
  <2> QED BY <2>1, <2>2, <2>3
<1> QED BY <1>1, CallInvariant, PTL

\* agents/orchestrator: however many tables there are and whatever fails, the
\* stage comes to the last one, unless an answer with malformed rules ends it.
THEOREM TablesCovered == Spec => []StageCoversTables
<1>1. IInv => StageCoversTables
  BY ClaudeAssumption DEF IInv, StageCoversTables
<1> QED BY <1>1, CallInvariant, PTL

-----------------------------------------------------------------------------
(* The types                                                               *)

\* At least one model is asked.
LEMMA ModelsType == ModelsToTry \in Nat /\ ModelsToTry > 0
<1>1. Len(Fallbacks) \in Nat
  BY ClaudeAssumption, LenProperties
<1>2. IsFiniteSet(1 .. Len(Fallbacks))
  BY <1>1, FS_Interval
<1>3. IsFiniteSet({i \in 1 .. Len(Fallbacks) : Fallbacks[i] # Model})
  BY <1>2, FS_Subset
<1>4. Cardinality({i \in 1 .. Len(Fallbacks) : Fallbacks[i] # Model}) \in Nat
  BY <1>3, FS_CardinalityType
<1> QED BY <1>4 DEF ModelsToTry

\* Accepted rules are places of a text.
LEMMA AcceptType ==
    ASSUME NEW result
    PROVE  Accept(result) \subseteq Nat
<1>1. Places(result, "good") \subseteq 1 .. Len(result)
  BY DEF Places
<1>2. 1 .. Len(result) \subseteq Nat
  OBVIOUS
<1>3. Accept(result) \subseteq Places(result, "good")
  BY DEF Accept
<1> QED BY <1>1, <1>2, <1>3

\* Every step keeps the types.
LEMMA TypeStep == TypeOK /\ [Next]_vars => TypeOK'
<1> SUFFICES ASSUME TypeOK, [Next]_vars PROVE TypeOK'
  OBVIOUS
<1>0. /\ ModelsToTry \in Nat /\ ModelsToTry > 0 /\ Columns \in Nat
      /\ Tables \in Nat \ {0} /\ MaxUses \in Nat
  BY ModelsType, ClaudeAssumption
<1> USE DEF TypeOK
<1>1. CASE UNCHANGED vars
  BY <1>1 DEF vars, call, log
<1>2. CASE Logged
  BY <1>2 DEF Logged, call
<1>3. ASSUME NEW c \in Callers, Begin(c) PROVE TypeOK'
  BY <1>0, <1>3 DEF Begin, NewCall, log
<1>4. CASE Sampled
  BY <1>0, <1>4 DEF Sampled, call, log
<1>5. CASE Answered
  BY <1>0, <1>5 DEF Answered
<1>6. CASE Overloaded
  BY <1>0, <1>6 DEF Overloaded, log
<1>7. CASE Waited
  BY <1>7 DEF Waited, Fails, Ends, log
<1>8. CASE Refused
  BY <1>8 DEF Refused, Fails, Ends, log
<1>9. CASE Parsed
  <2>1. /\ pc' = "done" /\ outcome' \in {"none", "value", "nothing", "raised"}
        /\ accepted' = {} \/ accepted' = Accept(Extract(text))
    BY <1>9 DEF Parsed, Ends, Returns
  <2>2. accepted' \subseteq Nat
    BY <2>1, AcceptType
  <2>3. UNCHANGED <<caller, table, sampled, asked, text, uses, log>>
    BY <1>9 DEF Parsed
  <2> QED BY <2>1, <2>2, <2>3 DEF log
<1>10. CASE NextTable
  BY <1>0, <1>10 DEF NextTable, NewCall, log
<1>11. CASE Finish
  BY <1>11 DEF Finish, call, log
<1> QED BY <1>1, <1>2, <1>3, <1>4, <1>5, <1>6, <1>7, <1>8, <1>9, <1>10, <1>11 DEF Next, GoesOn

\* agents/base.py: no more models are asked than there are, no more columns
\* sampled and no more tables visited; whatever is accepted are places of rules.
THEOREM ClaudeTypeCorrect == Spec => []TypeOK
<1>1. Init => TypeOK
  BY ModelsType, ClaudeAssumption DEF Init, TypeOK, Callers
<1> QED BY <1>1, TypeStep, PTL DEF Spec

-----------------------------------------------------------------------------
(* What the callers make of an answer                                      *)

Unasked == {"sampling", "asking", "waiting"}

\* What the end of a call depends on is the answer alone, and a call that ends
\* without one has no text.
Understands ==
    /\ text \in Texts
    /\ pc \in Unasked => text = <<>>
    /\ pc = "done" /\ text # <<>> /\ caller = "rules" /\ ~Raises(Extract(text)) =>
         accepted = Accept(Extract(text))
    /\ pc = "done" /\ text # <<>> /\ caller = "semantics" /\ Elements(Extract(text)) # {} =>
         outcome = "value"

\* Before the first call.
LEMMA UnderstandsInit == Init => Understands
<1>1. Init => text \in Texts
  BY DEF Init, Texts
<1> QED BY <1>1 DEF Init, Understands, Unasked

\* One step: only Parsed ends a call that has an answer.
LEMMA UnderstandsStep == Understands /\ [Next]_vars => Understands'
<1> SUFFICES ASSUME Understands, [Next]_vars PROVE Understands'
  OBVIOUS
<1> USE DEF Understands, Unasked
<1>1. CASE UNCHANGED vars
  BY <1>1 DEF vars, call
<1>2. CASE Logged
  BY <1>2 DEF Logged, call
<1>3. ASSUME NewCall, pc' # "done" PROVE Understands'
  <2>1. text' = <<>> /\ text' \in Texts
    BY <1>3 DEF NewCall, Texts
  <2> QED BY <1>3, <2>1
<1>4. CASE Sampled
  BY <1>4 DEF Sampled, call
<1>5. CASE Answered
  <2>1. text' \in Texts
    BY <1>5, ClaudeAssumption DEF Answered
  <2> QED BY <1>5, <2>1 DEF Answered
<1>6. CASE Overloaded
  BY <1>6 DEF Overloaded
<1>7. CASE Waited
  BY <1>7 DEF Waited
<1>8. CASE Refused
  BY <1>8 DEF Refused
<1>9. CASE Parsed
  <2> DEFINE result == Extract(text)
  <2> HIDE DEF result
  <2>1. /\ pc' = "done"
        /\ caller = "rules" /\ ~Raises(result) => accepted' = Accept(result)
        /\ caller = "semantics" /\ Elements(result) # {} => outcome' = "value"
    BY <1>9 DEF Parsed, Ends, Returns, result
  <2>2. UNCHANGED <<caller, text>>
    BY <1>9 DEF Parsed
  <2> QED BY <2>1, <2>2 DEF result
<1>10. CASE NextTable
  BY <1>3, <1>10 DEF NextTable
<1>11. CASE Finish
  BY <1>11 DEF Finish, call
<1>12. ASSUME NEW c \in Callers, Begin(c) PROVE Understands'
  BY <1>3, <1>12 DEF Begin
<1> QED BY <1>1, <1>2, <1>4, <1>5, <1>6, <1>7, <1>8, <1>9, <1>10, <1>11, <1>12 DEF Next, GoesOn

\* In every state the answer decides how its call has ended.
THEOREM AnswersDecide == Spec => []Understands
  BY UnderstandsInit, UnderstandsStep, PTL DEF Spec

\* prompts/business_dq_agent.py: whoever answers with the object that is asked
\* for, bare or fenced, has its rules accepted, and no others: of every length
\* and with any rules in it.
THEOREM ObjectsUnderstood == Spec => []RulesUnderstood
<1>1. Understands => RulesUnderstood
  <2> DEFINE doc == Content(text)
  <2> SUFFICES ASSUME Understands, pc = "done", caller = "rules",
                      IsJson(doc), HasKey(doc, "rules"), ~Raises(doc)
               PROVE  accepted = Members(doc, 3) \cap Places(doc, "good")
    BY DEF RulesUnderstood
  <2>1. text \in Texts
    BY DEF Understands
  <2>2. text # <<>>
    <3>1. CASE text = <<>>
      <4>1. Len(<<>>) = 0
        OBVIOUS
      <4>2. Content(<<>>) = <<>>
        BY <4>1 DEF Content
      <4> QED BY <3>1, <4>2, EmptyNotJson
    <3> QED BY <3>1
  <2>3. Extract(text) = doc
    BY <2>1, ContentExtracted
  <2> HIDE DEF doc
  <2>4. accepted = Accept(doc)
    BY <2>2, <2>3 DEF Understands
  <2> QED BY <2>4 DEF Accept
<1> QED BY <1>1, AnswersDecide, PTL

\* Wrapped, an array has as many tokens of a kind up to each of its tokens.
LEMMA CountWrapped ==
    ASSUME NEW doc \in Texts, NEW k \in 1 .. Len(doc), NEW C
    PROVE  Count(Items(doc), C, 3, k + 2) = Count(doc, C, 1, k)
<1> DEFINE S == {i \in 1 .. k : doc[i] \in C}
           T == {i \in 3 .. k + 2 : Items(doc)[i] \in C}
           f == [i \in S |-> i + 2]
<1>1. Len(doc) \in Nat
  BY PlacesIn
<1>2. ASSUME NEW i \in 1 .. k PROVE Items(doc)[i + 2] = doc[i] /\ i + 2 \in 3 .. k + 2
  <2>1. i + 2 \in 3 .. Len(doc) + 2 /\ (i + 2) - 2 = i /\ i + 2 \in 3 .. k + 2
    BY <1>1
  <2>2. Items(doc)[i + 2] = doc[(i + 2) - 2]
    BY <2>1, ItemsOf
  <2> QED BY <2>1, <2>2
<1>3. f \in Bijection(S, T)
  <2>1. f \in [S -> T]
    BY <1>2
  <2>2. \A a, b \in S : f[a] = f[b] => a = b
    BY <1>1
  <2>3. ASSUME NEW j \in T PROVE \E i \in S : f[i] = j
    <3>1. j - 2 \in 1 .. k /\ (j - 2) + 2 = j
      BY <1>1
    <3>2. Items(doc)[(j - 2) + 2] = doc[j - 2]
      BY <1>2, <3>1
    <3>3. j - 2 \in S
      BY <3>1, <3>2
    <3> QED BY <3>1, <3>3
  <2> HIDE DEF f, S, T
  <2> QED BY <2>1, <2>2, <2>3, Fun_IsBij
<1>4. IsFiniteSet(S)
  <2>1. IsFiniteSet(1 .. k)
    BY <1>1, FS_Interval
  <2> QED BY <2>1, FS_Subset
<1>5. Cardinality(T) = Cardinality(S)
  <2> HIDE DEF f, S, T
  <2> QED BY <1>3, <1>4, FS_Bijection DEF ExistsBijection
<1> QED BY <1>5 DEF Count

\* An array that is found, as it is or wrapped, has its rules found.
LEMMA ElementsFound ==
    ASSUME NEW doc \in Texts, Members(doc, 1) # {}
    PROVE  Elements(doc) # {} /\ Elements(Items(doc)) # {}
<1>1. doc[1] = "["
  BY DEF Members
<1>2. PICK k \in RulesIn(doc) : k > 1 /\ Depth(doc, 1, k) = 2
  BY <1>1 DEF Members
<1>3. k \in 1 .. Len(doc) /\ doc[k] \in RuleKinds /\ Len(doc) \in Nat
  BY PlacesIn DEF RulesIn
<1>4. /\ k + 2 \in 3 .. Len(doc) + 2 /\ (k + 2) - 2 = k /\ k + 2 \in 1 .. Len(doc) + 3
      /\ k + 2 > 3 /\ 3 \in 3 .. Len(doc) + 2 /\ 3 - 2 = 1
  BY <1>2, <1>3
<1>5. Items(doc)[k + 2] = doc[k] /\ Items(doc)[3] = "[" /\ Len(Items(doc)) = Len(doc) + 3
  BY <1>1, <1>4, ItemsOf
<1>6. k + 2 \in RulesIn(Items(doc))
  BY <1>3, <1>4, <1>5 DEF RulesIn
<1>7. Depth(Items(doc), 3, k + 2) = 2
  BY <1>2, <1>3, CountWrapped DEF Depth
<1>8. k + 2 \in Members(Items(doc), 3)
  BY <1>4, <1>5, <1>6, <1>7 DEF Members
<1>9. HasKey(Items(doc), "items") /\ Items(doc)[1] # "["
  BY ItemsOf DEF HasKey
<1> QED BY <1>1, <1>2, <1>8, <1>9 DEF Elements

\* agents/metadata_agent: whoever answers with an array of columns, among
\* whatever words, has it taken.
THEOREM ArraysUnderstood == Spec => []SemanticsUnderstood
<1>1. Understands => SemanticsUnderstood
  <2> SUFFICES ASSUME Understands, NEW i \in 1 .. Len(text), NEW j \in 1 .. Len(text),
                      pc = "done", caller = "semantics",
                      IsJson(SubSeq(text, i, j)),
                      Members(SubSeq(text, i, j), 1) # {},
                      \A k \in (1 .. Len(text)) \ (i .. j) : text[k] = "word"
               PROVE  outcome = "value"
    BY DEF SemanticsUnderstood
  <2> DEFINE doc == SubSeq(text, i, j)
  <2>1. text \in Texts
    BY DEF Understands
  <2>2. doc \in Texts
    BY <2>1, PartOf, PartsAreTexts
  <2>3. Extract(text) \in {doc, Items(doc)}
    <3>1. doc[1] = "["
      BY DEF Members
    <3> QED BY <2>1, <3>1, ArrayExtracted
  <2>4. Elements(Extract(text)) # {}
    <3>1. Members(doc, 1) # {}
      OBVIOUS
    <3> HIDE DEF doc
    <3> QED BY <2>2, <2>3, <3>1, ElementsFound
  <2>5. text # <<>>
    <3>1. Len(<<>>) = 0
      OBVIOUS
    <3>2. Len(text) # 0
      BY <2>1, PlacesIn
    <3> QED BY <3>1, <3>2
  <2> QED BY <2>4, <2>5 DEF Understands
<1> QED BY <1>1, AnswersDecide, PTL

-----------------------------------------------------------------------------
(* The log of tokens                                                       *)

Logs ==
    /\ answers \in Nat
    /\ logging \in Nat
    /\ usage \in Nat
    /\ unlogged \in Nat
    /\ UsageTellsAnswers

\* Every step keeps the log: an answer begins one row, that is written or not.
LEMMA LogsStep == Logs /\ [Next]_vars => Logs'
<1> SUFFICES ASSUME Logs, [Next]_vars PROVE Logs'
  OBVIOUS
<1> USE DEF Logs, UsageTellsAnswers
<1>1. CASE UNCHANGED log
  BY <1>1 DEF log
<1>2. CASE Logged
  BY <1>2 DEF Logged
<1>3. CASE Answered
  BY <1>3 DEF Answered
<1>4. CASE UNCHANGED vars
  BY <1>4 DEF vars, log
<1> QED
  BY <1>1, <1>2, <1>3, <1>4
  DEF Next, GoesOn, Begin, Sampled, Overloaded, Waited, Refused, Parsed, NextTable, Finish

\* agents/base.py _log_token_usage: whoever calls, and whichever model answers,
\* an answer is counted once, but for the rows that were not written.
THEOREM AnswersCounted == Spec => []UsageTellsAnswers
<1>1. Init => Logs
  BY DEF Init, Logs, UsageTellsAnswers
<1>2. Logs => UsageTellsAnswers
  BY DEF Logs
<1> QED BY <1>1, <1>2, LogsStep, PTL DEF Spec
=============================================================================
