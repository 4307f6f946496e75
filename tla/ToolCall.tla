------------------------------ MODULE ToolCall ------------------------------
(***************************************************************************)
(* The shape of one tool call, shared by the servers' modules.  A call is  *)
(* a function of its arguments and of what the rest of the world will      *)
(* answer, as no server keeps state from one await to the next.            *)
(***************************************************************************)
EXTENDS Naturals, Sequences, FiniteSetsExt

\* The reply of a tool that raised no error of a category (geo_common/errors.py).
Unclassified == "unclassified"

\* What HttpClient.request raises (module HttpClient).
ClientErrors == {"network", "upstream", "rate-limit", "authentication", "authorization"}

\* The outcome of a call: what was returned or raised, the requests sent before
\* (the names of those asked, in order) and the value returned.
NoValue == <<>>
Failed(category, sent) == [reply |-> category, sent |-> sent, value |-> NoValue]
Returned(value, sent) == [reply |-> "result", sent |-> sent, value |-> value]
Refused == Failed("validation", <<>>)

\* The status check and the parser of a source: an error status, a body that is
\* not JSON, or JSON of another shape, is an error of the upstream.
BadReplies == {"4xx", "text", "shape"}
Understood(answer) == IF answer \in BadReplies THEN "upstream" ELSE answer

\* No argument wrong, or one of them.
WrongOne(parameters) == {{}} \cup {{p} : p \in parameters}

\* A tool as the stages it goes through, in their order: what a stage asks of
\* somebody else, "nobody" for none, and what it says, "ok" or the category it raises.
Check(says) == [asks |-> "nobody", says |-> says]
Ask(whom, says) == [asks |-> whom, says |-> says]
CheckOf(in, parameters) == Check(IF in.wrong \cap parameters # {} THEN "validation" ELSE "ok")
CheckThat(holds, otherwise) == Check(IF holds THEN "ok" ELSE otherwise)

\* The position of the first element that satisfies Test, or 0.
FirstPos(seq, Test(_)) ==
    LET hits == {i \in DOMAIN seq : Test(seq[i])}
    IN  IF hits = {} THEN 0 ELSE Min(hits)

\* The first n elements.
Take(seq, n) == SubSeq(seq, 1, IF n < Len(seq) THEN n ELSE Len(seq))

\* The elements of a sequence in the order they are first met, which is the order of
\* the keys of a dict.
Meet(met, e) == IF \E i \in DOMAIN met : met[i] = e THEN met ELSE Append(met, e)
MetInOrder(seq) ==
    LET met[k \in 0..Len(seq)] == IF k = 0 THEN <<>> ELSE Meet(met[k - 1], seq[k])
    IN  met[Len(seq)]

\* A finite set in the order of a relation that is total on it.
InOrder(S, before) ==
    [k \in 1..Cardinality(S) |->
        CHOOSE i \in S : Cardinality({j \in S : <<j, i>> \in before}) = k - 1]
\* The elements of a sequence that stand at some places of it.
ElementsAt(seq, places) ==
    LET order == InOrder(places, {p \in places \X places : p[1] < p[2]})
    IN  [k \in DOMAIN order |-> seq[order[k]]]

\* 2^n
PowerOf2(n) ==
    LET power[k \in 0..n] == IF k = 0 THEN 1 ELSE 2 * power[k - 1]
    IN  power[n]

\* Whom the first n stages ask, in their order.
Asked(stages, n) ==
    LET asked[k \in 0..Len(stages)] ==
          IF k = 0 THEN <<>>
          ELSE IF stages[k].asks = "nobody" THEN asked[k - 1]
          ELSE Append(asked[k - 1], stages[k].asks)
    IN  asked[n]

\* The first stage that does not say "ok" ends the tool.
Staged(stages, value) ==
    LET bad == FirstPos(stages, LAMBDA s : s.says # "ok")
    IN  IF bad = 0 THEN Returned(value, Asked(stages, Len(stages)))
        ELSE Failed(stages[bad].says, Asked(stages, bad))

\* min and max of two numbers
Lesser(a, b) == IF a < b THEN a ELSE b
Greater(a, b) == IF a < b THEN b ELSE a

=============================================================================
