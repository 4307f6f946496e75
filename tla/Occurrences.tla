---------------------------- MODULE Occurrences -----------------------------
(***************************************************************************)
(* geo-biodiversity: species_occurrences.  The sources are asked in turn,  *)
(* each for the room that is left below the limit, and their records are   *)
(* merged; an error of any source is an error of the call.                 *)
(***************************************************************************)
EXTENDS ToolCall, SequencesExt

\* The largest response, and the page a source answers at most.
CONSTANTS MaxRecords, PageLimit
ASSUME OccurrencesAssumption ==
    MaxRecords \in Nat \ {0} /\ PageLimit \in [{"gbif", "inaturalist"} -> Nat \ {0}]

\* _select_sources: IUCN is a source only when it is named.
Merged == <<"gbif", "inaturalist">>
Selected(source) == IF source = "omitted" THEN Merged ELSE <<source>>

\* What the query asks for: a page, and no second one.
Page(s, room) == IF s = "iucn" THEN room ELSE Lesser(room, PageLimit[s])

\* A species that the Red List does not know has no record, one it knows without
\* an assessment has one.
Assessments(in) == IF in.answers["iucn"] = "404" THEN 0 ELSE Greater(1, in.holds["iucn"])

Records(s, count) == [i \in 1..count |-> <<s, i>>]
Fetch(s, in, room) ==
    IF s = "iucn" THEN Records(s, Assessments(in))
    ELSE Records(s, IF in.obeys THEN Lesser(in.holds[s], Page(s, room)) ELSE in.holds[s])

SourceError(s, in) ==
    IF s = "iucn" /\ ~in.token THEN "authentication"
    ELSE IF in.answers[s] = "404" THEN (IF s = "iucn" THEN "ok" ELSE "upstream")
    ELSE Understood(in.answers[s])

\* IUCN checks its token before it sends anything.
Sends(s, in) == IF s = "iucn" /\ ~in.token THEN <<>> ELSE <<s>>

Capped(records, room) == Take(records, room)

\* One turn of the loop of species_occurrences.
AskSource(so, s, in, limit) ==
    LET room == limit - Len(so.value)
        sent == so.sent \o Sends(s, in)
    IN  IF so.reply # "result" \/ room <= 0 THEN so
        ELSE IF SourceError(s, in) # "ok" THEN Failed(SourceError(s, in), sent)
        ELSE Returned(so.value \o Capped(Fetch(s, in, room), room), sent)

Limit(in) == Lesser(in.limit, MaxRecords)
NeedsTaxon(in) == in.source = "iucn" /\ ~in.taxon
\* Its loop over the sources.
SearchInTurn(in, sources) ==
    LET so[k \in 0..Len(sources)] ==
          IF k = 0 THEN Returned(<<>>, <<>>) ELSE AskSource(so[k - 1], sources[k], in, Limit(in))
    IN  so[Len(sources)]
SpeciesOccurrences(in) ==
    IF in.wrong # {} \/ NeedsTaxon(in) THEN Refused ELSE SearchInTurn(in, Selected(in.source))

-----------------------------------------------------------------------------

OccurrenceInputs ==
    [wrong : WrongOne({"bbox", "limit"}), taxon : BOOLEAN, token : BOOLEAN,
     obeys : BOOLEAN, source : {"omitted", "gbif", "iucn"}, limit : 1..(MaxRecords + 1),
     holds : [{"gbif", "inaturalist", "iucn"} -> {0, 1, 3}],
     answers : [{"gbif", "inaturalist", "iucn"} -> {"ok", "404", "network"}]]

\* Where every source that was asked answered a page that holds all it has, the
\* result is the first records of all the sources, in their order, up to the limit;
\* it is never longer, and there is none when a source that was asked failed.
OccurrencesAreWhole(in, out) ==
    LET Held(s) == IF s = "iucn" THEN Assessments(in) ELSE in.holds[s]
        sources == Selected(in.source)
        all == FlattenSeq([k \in 1..Len(sources) |-> Records(sources[k], Held(sources[k]))])
        onePage == \A s \in {"gbif", "inaturalist"} : in.holds[s] <= PageLimit[s]
    IN  /\ Len(out.value) <= Limit(in)
        /\ out.reply = "result" =>
              /\ onePage => out.value = Take(all, Limit(in))
              /\ \A i \in DOMAIN out.sent : in.answers[out.sent[i]] \in {"ok", "404"}

=============================================================================
