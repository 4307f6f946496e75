-------------------------- MODULE FeatureServices ---------------------------
(***************************************************************************)
(* geo-vector and geo-ogc: vector_features asks every source it has and    *)
(* gives all their features or none; ogc_features asks one service for one *)
(* page of a collection.                                                   *)
(***************************************************************************)
EXTENDS ToolCall, SequencesExt

\* The features a response of geo-vector may hold, and one of geo-ogc.
CONSTANTS MaxFeatures, MaxPage
ASSUME FeaturesAssumption == {MaxFeatures, MaxPage} \subseteq Nat \ {0}

\* What a source's payload holds: relations, elements without a place, and entries
\* that are no objects are left out.
Drawn == {"node", "way"}
ParsedFeatures(source, elements) ==
    LET kept[i \in 0..Len(elements)] ==
          IF i = 0 THEN <<>>
          ELSE IF elements[i] \in Drawn THEN Append(kept[i - 1], <<source, elements[i]>>)
          ELSE kept[i - 1]
    IN  kept[Len(elements)]

\* A mistake: a source that fails is passed over.
FetchOrPass(so, s, in) ==
    IF Understood(in.answers[s]) # "ok" THEN [so EXCEPT !.sent = Append(so.sent, s)]
    ELSE Returned(so.value \o ParsedFeatures(s, in.holds[s]), Append(so.sent, s))
FetchFeatures(so, s, in) ==
    IF so.reply # "result" THEN so
    ELSE IF Understood(in.answers[s]) # "ok" THEN Failed(Understood(in.answers[s]), Append(so.sent, s))
    ELSE Returned(so.value \o ParsedFeatures(s, in.holds[s]), Append(so.sent, s))

FetchInTurn(in) ==
    LET so[k \in 0..Len(in.sources)] ==
          IF k = 0 THEN Returned(<<>>, <<>>) ELSE FetchFeatures(so[k - 1], in.sources[k], in)
    IN  so[Len(in.sources)]

\* The area is looked at before, the number of features after the sources are asked.
VectorFeatures(in) ==
    LET all == FetchInTurn(in)
    IN  IF in.wrong \cap {"bbox", "area"} # {} THEN Refused
        ELSE IF all.reply = "result" /\ Len(all.value) > MaxFeatures
        THEN Failed("validation", all.sent)
        ELSE all

\* The count is the one the service claims, where it claims one, of the features
\* before those that are no objects were left out.
OgcFeatures(in) ==
    LET page == Take(in.holds["overture"], Lesser(in.limit, MaxPage))
    IN  Staged(<<CheckOf(in, {"endpoint", "collection", "bbox", "limit", "datetime"}),
                 Ask("items", Understood(IF in.answers["overture"] = "404" THEN "4xx"
                                    ELSE in.answers["overture"]))>>,
               [features |-> SelectSeq(page, LAMBDA e : e \in Drawn),
                number_returned |-> IF in.claims THEN Len(page)
                                    ELSE Len(SelectSeq(page, LAMBDA e : e \in Drawn))])

-----------------------------------------------------------------------------

FeatureInputs ==
    [wrong : WrongOne({"bbox", "area", "endpoint"}), claims : BOOLEAN, limit : 1..3,
     sources : {<<"openstreetmap">>, <<"openstreetmap", "overture">>},
     holds : [{"openstreetmap", "overture"} -> SeqOf({"node", "relation"}, 2)],
     answers : [{"openstreetmap", "overture"} -> {"ok", "4xx", "shape", "network", "rate-limit"}]]

\* All of every source or nothing: a result has every feature of every source, an
\* error is the one of the last source asked, and too many are refused, not cut.
AllOrNone(in, out) ==
    LET whole == FlattenSeq([i \in 1..Len(in.sources) |->
                    ParsedFeatures(in.sources[i], in.holds[in.sources[i]])])
    IN  /\ out.reply = "result" =>
             /\ out.value = whole /\ Len(whole) <= MaxFeatures
             /\ \A i \in DOMAIN in.sources : in.answers[in.sources[i]] = "ok"
        /\ out.reply \in ClientErrors =>
             /\ Understood(in.answers[out.sent[Len(out.sent)]]) = out.reply
             /\ IsPrefix(out.sent, in.sources)

=============================================================================
