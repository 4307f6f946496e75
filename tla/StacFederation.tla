--------------------------- MODULE StacFederation ---------------------------
(***************************************************************************)
(* stac_search_multi of geo-stac (geo_stac/search.py): one search is sent  *)
(* to every configured catalog at once; when all of them have answered,    *)
(* their items are merged one per catalog in turn, without duplicates, up  *)
(* to a limit, and each catalog's outcome is reported.                     *)
(*                                                                         *)
(* The catalogs (external) answer in any order.  A classified error, a     *)
(* GeoError, is reported as that catalog's outcome; any other exception    *)
(* ends the search at once, while the queries still under way go on.       *)
(* Catalogs are numbered in their configured order.                        *)
(***************************************************************************)
EXTENDS Naturals, Sequences, FiniteSets

CONSTANTS
    NSources,   \* the number of catalogs
    Items,      \* STAC items, as the catalogs publish them
    IdOf,       \* the id of an item
    SceneOf,    \* its scene key, or one of the two below
    NoScene,    \* the item has no scene key
    BadScene,   \* working the scene key out raises
    Answers,    \* what a catalog may find
    Requests,   \* what a caller may ask for
    MaxItems    \* MAX_ITEMS, the most items in one response

Sources == 1..NSources

ASSUME FederationAssumption ==
    /\ NSources \in Nat
    /\ Answers \subseteq Seq(Items)
    /\ \A r \in Requests : r.limit \in Nat
    /\ MaxItems \in Nat \ {0}

VARIABLES
    phase,        \* "idle", "gather", "merge", "done"
    limit,        \* effective_limit
    dedupe,       \* the de-duplication mode
    pending,      \* the catalogs that have not answered yet
    failed,       \* the catalogs whose query ended in a GeoError
    found,        \* what each catalog found
    merged,       \* the items taken: the catalog, and the position there
    seenIds,      \* seen_ids
    seenScenes,   \* seen_scenes
    cursor,       \* cursors: the next position of each catalog's queue
    contributed,  \* how many items of each catalog were taken
    round,        \* the catalogs whose turn is still to come in this round
    advanced,     \* whether this round has taken an item
    reply         \* what the search returned or raised

vars == <<phase, limit, dedupe, pending, failed, found, merged, seenIds, seenScenes,
          cursor, contributed, round, advanced, reply>>
request == <<limit, dedupe>>
answers == <<pending, failed, found>>
merge == <<merged, seenIds, seenScenes, cursor, contributed>>

\* Mistakes; each makes one of the properties below fail.
DuplicateById(it) == IdOf[it] \in seenIds
TurnKept(s) == round
BeginRoundAnyway ==
    /\ phase = "merge" /\ Len(merged) < limit
    /\ round = {}
    /\ round' = Sources \ failed
    /\ UNCHANGED <<phase, request, answers, merge, advanced, reply>>

\* The catalogs that responded.
Ok == Sources \ failed

\* What the call makes of its arguments.  Comparing a bound that has a time zone
\* with one that has none raises TypeError, before the limit is looked at.
Valid(r) == r.range = "ok" /\ r.limit > 0 /\ r.dedupe \in {"scene", "id"}
Refusal(r) == IF r.range = "mixed" THEN "TypeError" ELSE "validation"

\* min(limit, MAX_ITEMS).  A server may ignore the limit; stac_search does not.
CapLimit(lim) == IF lim < MaxItems THEN lim ELSE MaxItems
Capped(q) == SubSeq(q, 1, IF Len(q) < limit THEN Len(q) ELSE limit)

HasScene(it) == dedupe = "scene" /\ SceneOf[it] \notin {NoScene, BadScene}

\* The id was taken already or, in scene mode, the scene.
IsDuplicate(it) ==
    \/ IdOf[it] \in seenIds
    \/ HasScene(it) /\ SceneOf[it] \in seenScenes

\* The positions a catalog's turn may still take an item from, and the first.
Fresh(s) == {i \in cursor[s]..Len(found[s]) : ~IsDuplicate(found[s][i])}
LatestFirst(s, i) == i \in Fresh(s) /\ \A j \in Fresh(s) : i >= j   \* a mistake
IsNextOf(s, i) == i \in Fresh(s) /\ \A j \in Fresh(s) : i <= j

\* After catalog s has contributed its item at position i.
Counted(s, i) == [contributed EXCEPT ![s] = @ + 1]
TurnsLeft(s) == round \ {s}

\* Turns are taken in the configured order.
InTurn(s) == s \in round /\ \A t \in round : s <= t

-----------------------------------------------------------------------------

Init ==
    /\ phase = "idle"
    /\ limit = 0 /\ dedupe = "scene"
    /\ pending = {} /\ failed = {}
    /\ found = [s \in Sources |-> <<>>]
    /\ merged = <<>>
    /\ seenIds = {} /\ seenScenes = {}
    /\ cursor = [s \in Sources |-> 1]
    /\ contributed = [s \in Sources |-> 0]
    /\ round = {} /\ advanced = TRUE
    /\ reply = "none"

\* The call up to its queries.
Search(r) ==
    /\ phase = "idle"
    /\ IF Valid(r)
       THEN /\ phase' = "gather"
            /\ limit' = CapLimit(r.limit)
            /\ dedupe' = r.dedupe
            /\ pending' = Sources
            /\ UNCHANGED reply
       ELSE /\ phase' = "done"
            /\ reply' = Refusal(r)
            /\ UNCHANGED <<limit, dedupe, pending>>
    /\ UNCHANGED <<failed, found, merge, round, advanced>>

\* _one: the query of one catalog ends; the search may be over by then.
Answer(s) ==
    /\ s \in pending
    /\ pending' = pending \ {s}
    /\ \/ /\ \E q \in Answers : found' = [found EXCEPT ![s] = Capped(q)]
          /\ UNCHANGED failed
       \/ /\ failed' = failed \cup {s}
          /\ UNCHANGED found
    /\ UNCHANGED <<phase, request, merge, round, advanced, reply>>

\* The query of one catalog raises something other than a GeoError: gather
\* raises it and does not cancel the others.
Raise(s) ==
    /\ s \in pending
    /\ pending' = pending \ {s}
    /\ phase' = "done"
    /\ reply' = IF phase = "gather" THEN "source raised" ELSE reply
    /\ UNCHANGED <<request, failed, found, merge, round, advanced>>

\* The caller gives up, which cancels gather and every query.
Cancel ==
    /\ phase = "gather"
    /\ phase' = "done"
    /\ pending' = {}
    /\ reply' = "cancelled"
    /\ UNCHANGED <<request, failed, found, merge, round, advanced>>

StartMerge ==
    /\ phase = "gather" /\ pending = {}
    /\ phase' = "merge"
    /\ UNCHANGED <<request, answers, merge, round, advanced, reply>>

BeginRound ==
    /\ phase = "merge" /\ Len(merged) < limit
    /\ round = {} /\ advanced
    /\ round' = Ok
    /\ advanced' = FALSE
    /\ UNCHANGED <<phase, request, answers, merge, reply>>

\* One turn: the catalog's first item that is not a duplicate is taken.
Take(s) ==
    /\ phase = "merge" /\ Len(merged) < limit
    /\ InTurn(s)
    /\ \E i \in Fresh(s) :
          /\ IsNextOf(s, i)
          /\ LET it == found[s][i] IN
             IF dedupe = "scene" /\ SceneOf[it] = BadScene
             THEN /\ phase' = "done"
                  /\ reply' = "item raised"
                  /\ UNCHANGED <<merge, round, advanced>>
             ELSE /\ cursor' = [cursor EXCEPT ![s] = i + 1]
                  /\ merged' = Append(merged, [source |-> s, at |-> i])
                  /\ seenIds' = seenIds \cup {IdOf[it]}
                  /\ seenScenes' = seenScenes \cup (IF HasScene(it) THEN {SceneOf[it]} ELSE {})
                  /\ contributed' = Counted(s, i)
                  /\ round' = TurnsLeft(s)
                  /\ advanced' = TRUE
                  /\ UNCHANGED <<phase, reply>>
    /\ UNCHANGED <<request, answers>>

\* One turn of a catalog that has nothing new left.
Skip(s) ==
    /\ phase = "merge" /\ Len(merged) < limit
    /\ InTurn(s)
    /\ Fresh(s) = {}
    /\ cursor' = [cursor EXCEPT ![s] = Len(found[s]) + 1]
    /\ round' = round \ {s}
    /\ UNCHANGED <<phase, request, answers, merged, seenIds, seenScenes, contributed,
                   advanced, reply>>

\* The limit is reached, or a whole round has taken nothing.
Finish ==
    /\ phase = "merge"
    /\ Len(merged) = limit \/ (round = {} /\ ~advanced)
    /\ phase' = "done"
    /\ reply' = "result"
    /\ UNCHANGED <<request, answers, merge, round, advanced>>

Done == phase = "done" /\ pending = {} /\ UNCHANGED vars

Step ==
    \/ \E s \in Sources : Answer(s) \/ Raise(s) \/ Take(s) \/ Skip(s)
    \/ StartMerge \/ BeginRound \/ Finish

Next ==
    \/ \E r \in Requests : Search(r)
    \/ \E s \in Sources : Answer(s) \/ Raise(s) \/ Take(s) \/ Skip(s)
    \/ StartMerge \/ BeginRound \/ Finish
    \/ Cancel
    \/ Done

\* Every query ends (HttpClient) and the merge is one uninterrupted call.
Spec == Init /\ [][Next]_vars /\ WF_vars(Step)

-----------------------------------------------------------------------------

\* The item that was taken k-th, and when two items are the same one.
Taken(k) == found[merged[k].source][merged[k].at]
Same(a, b) ==
    \/ IdOf[a] = IdOf[b]
    \/ HasScene(a) /\ HasScene(b) /\ SceneOf[a] = SceneOf[b]

\* Types; what was taken are items of catalogs that responded, within the limit.
TypeOK ==
    /\ phase \in {"idle", "gather", "merge", "done"}
    /\ limit \in 0..MaxItems /\ dedupe \in {"scene", "id"}
    /\ pending \subseteq Sources /\ failed \subseteq Sources
    /\ found \in [Sources -> Seq(Items)]
    /\ merged \in Seq([source : Sources, at : Nat])
    /\ \A k \in DOMAIN merged : /\ merged[k].source \in Ok
                               /\ merged[k].at \in DOMAIN found[merged[k].source]
    /\ Len(merged) <= limit
    /\ cursor \in [Sources -> Nat \ {0}] /\ contributed \in [Sources -> Nat]
    /\ round \subseteq Ok
    /\ advanced \in BOOLEAN
    /\ reply \in {"none", "validation", "TypeError", "result", "cancelled",
                  "source raised", "item raised"}

\* No two items of the result are the same one.
NoDuplicates ==
    \A j, k \in DOMAIN merged : j < k => ~Same(Taken(j), Taken(k))

\* A result below the limit leaves out no item but duplicates of what it has.
NothingLeftOut ==
    reply = "result" /\ Len(merged) < limit =>
        \A s \in Ok : \A i \in DOMAIN found[s] :
            \E k \in DOMAIN merged : Same(found[s][i], Taken(k))

\* No catalog ever contributes two items more than another, or one more than a
\* catalog before it, while that one has an item left that is not a duplicate:
\* no catalog fills the limit alone.
FairShares ==
    \A s, t \in Ok :
        contributed[s] > contributed[t] + (IF s < t THEN 1 ELSE 0) => Fresh(t) = {}

\* The count reported for each catalog is that of its items in the result, none
\* for a catalog that failed.
CountsAreExact ==
    \A s \in Sources :
        contributed[s] = Cardinality({k \in DOMAIN merged : merged[k].source = s})

\* Every search ends.
SearchEnds == phase = "gather" ~> phase = "done"

=============================================================================
