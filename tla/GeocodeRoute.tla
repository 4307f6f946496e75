---------------------------- MODULE GeocodeRoute ----------------------------
(***************************************************************************)
(* geo-geocode-route: geocode, reverse_geocode, route and isochrone.  Each *)
(* checks its arguments, then asks its sources in turn.  A source that is  *)
(* unavailable is passed over, the first that finds something ends the     *)
(* call, and so does an error of any other kind.                           *)
(***************************************************************************)
EXTENDS ToolCall

\* The default geocoders; amazon-location is asked only when it is named.
DefaultChain == <<"nominatim", "photon">>
Geocoders == {"nominatim", "photon", "amazon-location"}

\* What a source's request may bring: an error of HttpClient, a status of 400 or
\* more, a body that is not JSON, or one that a parser looks into.
Payloads == {"shape", "unlisted", "refused", "empty", "broken", "match"}
Brought == ClientErrors \cup {"4xx", "text"} \cup Payloads

\* The parsers.  A list with nothing in it is no match; a body of another shape, and
\* a match without its numbers, is an error of the upstream.  A body without the list
\* is one too, but not for the sources that do not insist on it.
Parsed(body, lax) ==
    CASE body = "match" -> "found"
      [] body \in {"empty"} \cup lax -> "none"
      [] body \in Payloads \ ({"match", "empty"} \cup lax) -> "upstream"
      [] OTHER -> Understood(body)
ParsedMatch(s, body) == Parsed(body, IF s = "amazon-location" THEN {"unlisted"} ELSE {})
ParsedReverse(s, body) == Parsed(body, IF s = "photon" THEN {} ELSE {"unlisted"})
\* Valhalla takes any status but 0 for no route, OSRM an unknown code for an error.
ParsedRoute(s, body) ==
    Parsed(body, IF s = "valhalla" THEN {"unlisted", "refused"} ELSE {"unlisted"})
\* The features of an isochrone are passed on as they are.
ParsedIsochrone(body) == IF body = "broken" THEN "found" ELSE Parsed(body, {})

Unavailable == {"network", "upstream"}
\* A mistake: any error is taken for an absence.
FoundOnly(heard) == heard = "found"
Decisive(heard) == heard \notin Unavailable \cup {"none"}

\* The loop of geocode, reverse_geocode, route and isochrone over the chosen
\* sources; `nothing` is what is raised when all answered and none found any.
AskInTurn(chain, heard, nothing) ==
    LET end == FirstPos(chain, LAMBDA s : Decisive(heard[s]))
        missed == {i \in DOMAIN chain : heard[chain[i]] \in Unavailable}
    IN  IF end # 0
        THEN IF heard[chain[end]] = "found"
             THEN Returned(<<chain[end]>>, Take(chain, end))
             ELSE Failed(heard[chain[end]], Take(chain, end))
        ELSE Failed(IF missed # {} THEN heard[chain[Max(missed)]] ELSE nothing, chain)

\* The arguments are looked at before any source is.
Guarded(wrong, looked, chain, heard, nothing) ==
    IF wrong \cap looked # {} THEN Refused ELSE AskInTurn(chain, heard, nothing)

\* _select_geocoders
Chosen(source) == IF source = "default" THEN DefaultChain ELSE <<source>>

\* AmazonLocationSource raises before its request when it has no key.
WithKey(outcome, source, key) ==
    IF source = "amazon-location" /\ ~key /\ outcome # Refused
    THEN Failed("authentication", <<>>) ELSE outcome

MatchesOf(in) == [s \in Geocoders |-> ParsedMatch(s, in.answers[s])]
PlacesOf(in) == [s \in Geocoders |-> ParsedReverse(s, in.answers[s])]
Geocode(in) ==
    WithKey(Guarded(in.wrong, {"address", "source"}, Chosen(in.source), MatchesOf(in), "not-found"),
            in.source, in.key)
ReverseGeocode(in) ==
    WithKey(Guarded(in.wrong, {"location", "source"}, Chosen(in.source), PlacesOf(in), "not-found"),
            in.source, in.key)

\* OSRM alone by default; with Valhalla where the server is given both.
RoutesOf(in) == [s \in {"osrm", "valhalla"} |-> ParsedRoute(s, in.answers[s])]
FindRoute(in) ==
    Guarded(in.wrong, {"origin", "destination", "profile"}, in.engines, RoutesOf(in), "not-found")
ZonesOf(in) == [s \in {"valhalla"} |-> ParsedIsochrone(in.answers[s])]
Isochrone(in) ==
    Guarded(in.wrong, {"origin", "profile", "contours_minutes"}, <<"valhalla">>, ZonesOf(in), "upstream")

-----------------------------------------------------------------------------

GeocodeInputs ==
    [wrong : WrongOne({"address", "location", "source"}),
     source : {"default", "photon", "amazon-location"}, key : BOOLEAN,
     answers : [Geocoders -> Brought \ {"refused"}]]
RouteInputs ==
    [wrong : WrongOne({"origin", "destination", "profile", "contours_minutes"}),
     engines : {<<"osrm">>, <<"osrm", "valhalla">>},
     answers : [{"osrm", "valhalla"} -> Brought]]

\* A result is of the first source that found something, every source before it
\* being unavailable or without a match; an error is of a source that raised it,
\* unless every source was without a match, and only then is nothing said to be.
ChainIsHonest(out, chain, heard, nothing) ==
    LET absent == \A i \in DOMAIN chain : heard[chain[i]] = "none"
    IN  /\ out.reply = "result" <=>
              \E i \in DOMAIN chain :
                 /\ heard[chain[i]] = "found"
                 /\ \A j \in 1..(i - 1) : heard[chain[j]] \in Unavailable \cup {"none"}
        /\ out.reply = "result" => out.value = <<out.sent[Len(out.sent)]>>
        /\ absent => out.reply = nothing
        /\ out.reply # "result" /\ ~absent => \E i \in DOMAIN chain : heard[chain[i]] = out.reply

=============================================================================
