---------------------------- MODULE Observations ----------------------------
(***************************************************************************)
(* geo-weather-climate: observations.  One source is asked, in one request *)
(* or in several of which each needs what the one before it found.         *)
(***************************************************************************)
EXTENDS ToolCall, SequencesExt

CONSTANTS
    DayLength,   \* the hours of a day, in this model
    CdoLimit     \* how many rows CDO is asked for, 1000 in the code
ASSUME ObservationsAssumption == {DayLength, CdoLimit} \subseteq Nat \ {0}

\* The requests of a source, in order: NWS asks for the grid point, for its
\* stations and for the observations of the first, CDO for a station and its data.
Requests == [open_meteo |-> <<"archive">>, air_quality |-> <<"air">>,
             nws |-> <<"points", "stations", "observations">>, cdo |-> <<"stations", "data">>]
WeatherSources == DOMAIN Requests

\* The parsers: a body of the wrong shape is an error only in the last request.
ParsedHop(last, answer) == IF answer = "shape" /\ ~last THEN "none" ELSE Understood(answer)

\* What a reply means.  Only NWS and CDO take 404 for no data.
Reply(source, last, answer) ==
    IF answer = "404" THEN (IF source \in {"nws", "cdo"} THEN "none" ELSE "upstream")
    ELSE ParsedHop(last, answer)

\* The fetch of a source goes on as long as it finds what the next request needs.
FetchAll(source, in) ==
    LET hops == Requests[source]
        Said(i) == Reply(source, i = Len(hops), in.answers[i])
        missed == {i \in 1..Len(hops) : Said(i) # "found"}
        stop == Min(missed)
    IN  IF missed = {} THEN Returned(<<source>>, hops)
        ELSE IF Said(stop) = "none" THEN Returned(<<>>, Take(hops, stop))
        ELSE Failed(Said(stop), Take(hops, stop))

\* validate_time_range compares two datetimes: one with a zone and one without
\* cannot be compared, which is an error of no category.
RangeVerdict(in) ==
    IF "location" \in in.wrong THEN "validation"
    ELSE IF "zones" \in in.wrong THEN Unclassified
    ELSE IF in.wrong # {} THEN "validation" ELSE "ok"

ObservationsCall(in) ==
    IF RangeVerdict(in) # "ok" THEN Failed(RangeVerdict(in), <<>>)
    ELSE IF in.source = "cdo" /\ ~in.token THEN Failed("authentication", <<>>)
    ELSE FetchAll(in.source, in)

\* _date_part cuts the time of day, and with it the zone, off a timestamp; the
\* days are then taken for days of UTC.
DatePart(stamp) == stamp.local \div DayLength
\* _to_rfc3339 keeps the instant.
ToRfc3339(stamp) == stamp.local - stamp.offset

\* The instants (UTC) between the two bounds that a source is asked for.
AskedInstants(source, start, end) ==
    IF source = "nws" THEN ToRfc3339(start)..ToRfc3339(end)
    ELSE (DatePart(start) * DayLength)..((DatePart(end) + 1) * DayLength - 1)

\* _parse_cdo: the rows of a date become one record, in the order the dates are met;
\* of two values of one datatype the later stays.
CdoDates(rows) == MetInOrder([i \in DOMAIN rows |-> rows[i].date])
CdoRecord(rows, date) ==
    LET Hits(type) == {i \in DOMAIN rows : rows[i].date = date /\ rows[i].type = type}
        types == {r.type : r \in {s \in ToSet(rows) : s.date = date}}
    IN  [date |-> date, values |-> [type \in types |-> rows[Max(Hits(type))].value]]
ParseCdo(rows) ==
    LET dates == CdoDates(rows) IN [i \in DOMAIN dates |-> CdoRecord(rows, dates[i])]
\* The rows that CDO has; it is asked for the first of them only, and not again.
ReadingsOf(rows) == ParseCdo(Take(rows, CdoLimit))

-----------------------------------------------------------------------------

ObservationInputs ==
    [wrong : WrongOne({"location", "time_range", "zones", "source"}),
     source : WeatherSources, token : BOOLEAN,
     answers : [1..3 -> ClientErrors \cup BadReplies \cup {"404", "none", "found"}]]

\* An empty result is given only when a request found nothing, a record only when
\* all did, and an error is the one of the last request.
ObservationsAreWhole(in, out) ==
    LET last == Len(out.sent)
    IN  /\ out.reply = "result" /\ out.value # <<>> =>
              /\ out.sent = Requests[in.source]
              /\ \A i \in 1..last : in.answers[i] = "found"
        /\ out.reply = "result" /\ out.value = <<>> =>
              in.answers[last] \in {"none", "404", "shape"}
        /\ out.reply \in ClientErrors /\ last > 0 => in.answers[last] # "found"

\* Stamps of the first three days, at most one day off UTC.
Stamps == [local : 0..(3 * DayLength - 1), offset : {0 - 1, 0, 1}]
\* Every instant between the two bounds is asked for, where both bounds are in UTC.
RangeIsCovered(source, start, end) ==
    ToRfc3339(start)..ToRfc3339(end) \subseteq AskedInstants(source, start, end)

\* Rows of a reply, of which those of a date need not be neighbours: a date has one
\* record, each row's datatype is in it, and each value is of a row.  Rows past the
\* limit are in no reply, and nothing says that there are any.
RowsOfCdo == UNION {[1..n -> [date : 1..2, type : {"TMAX", "TMIN"}, value : 1..2]] : n \in 0..3}
ReadingsAreKept(rows, records) ==
    /\ \A i, j \in DOMAIN records : records[i].date = records[j].date => i = j
    /\ \A r \in ToSet(rows) : \E rec \in ToSet(records) :
          rec.date = r.date /\ r.type \in DOMAIN rec.values
    /\ \A rec \in ToSet(records) : \A type \in DOMAIN rec.values : \E r \in ToSet(rows) :
          r = [date |-> rec.date, type |-> type, value |-> rec.values[type]]

=============================================================================
