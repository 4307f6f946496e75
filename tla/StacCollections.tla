-------------------------- MODULE StacCollections ---------------------------
(***************************************************************************)
(* list_collections of geo-stac (geo_stac/search.py): one call pages       *)
(* through the collections of one catalog, keeps those that match a query  *)
(* up to a limit, and says whether the list is truncated.  The catalog     *)
(* (external) is a sequence of pages linked one to the next, the last to   *)
(* none or to itself; any request may fail or bring something else.        *)
(***************************************************************************)
EXTENDS Naturals, Sequences

CONSTANTS
    PageSets,       \* the sequences of pages a catalog may consist of
    Limits,         \* the limits callers ask for
    MaxCollections  \* MAX_COLLECTIONS, the cap on a list and on the paging

\* What an entry of a page is: a collection that matches the query, one that
\* does not, or something that is no usable collection.
Entries == {"match", "other", "unusable"}

ASSUME CollectionsAssumption ==
    /\ PageSets \subseteq Seq(Seq(Entries)) \ {<<>>}
    /\ Limits \subseteq Nat
    /\ MaxCollections \in Nat \ {0}

VARIABLES
    pages,          \* the catalog
    loops,          \* whether its last page links to itself
    stage,          \* "idle", "paging", "page" (looking at its entries), "done"
    named,          \* what names the catalog
    effectiveLimit, \* effective_limit
    url,            \* the number of the page to request or in hand, or NoPage
    pos,            \* the position of the entry to look at
    scanned,        \* the entries looked at
    collected,      \* the collections kept: the page of each, and the position
    truncated,      \* the flag of the result
    broken,         \* history: a page had no list of collections
    returned        \* what the call returned or raised

pagingVars == <<pages, loops, stage, named, effectiveLimit, url, pos, scanned, collected,
                truncated, broken, returned>>
catalog == <<pages, loops, named>>

NoPage == 0

\* Mistakes; each makes one of the properties below fail.
FullAtLimit == Len(collected) + 1 >= effectiveLimit
SelfLink(i) == i

\* min(limit, MAX_COLLECTIONS)
CapCollections(lim) == IF lim < MaxCollections THEN lim ELSE MaxCollections

\* There is no room for another match.
Full == Len(collected) >= effectiveLimit

\* _next_link
NextLink(i) == IF i < Len(pages) THEN i + 1 ELSE IF loops THEN i ELSE NoPage

\* The condition of the loop over pages.
KeepsPaging == url # NoPage /\ scanned < MaxCollections

-----------------------------------------------------------------------------

PagingInit ==
    /\ pages \in PageSets /\ loops \in BOOLEAN
    /\ stage = "idle"
    /\ named \in {"catalog", "api_url", "both", "neither", "unknown"}
    /\ effectiveLimit = 0
    /\ url = 1 /\ pos = 1
    /\ scanned = 0 /\ collected = <<>>
    /\ truncated = FALSE /\ broken = FALSE
    /\ returned = "none"

\* The call up to its first request.
Call(lim) ==
    /\ stage = "idle"
    /\ IF named \in {"both", "unknown"} \/ lim < 1
       THEN stage' = "done" /\ returned' = "validation" /\ UNCHANGED effectiveLimit
       ELSE stage' = "paging" /\ effectiveLimit' = CapCollections(lim) /\ UNCHANGED returned
    /\ UNCHANGED <<catalog, url, pos, scanned, collected, truncated, broken>>

\* client.get(url): the next page, an answer without a list of collections,
\* which ends the paging as if there were no more, or an error.
Request ==
    /\ stage = "paging" /\ KeepsPaging
    /\ \/ /\ stage' = "page"
          /\ pos' = 1
          /\ UNCHANGED <<broken, returned>>
       \/ /\ stage' = "done" /\ returned' = "list"
          /\ broken' = TRUE
          /\ UNCHANGED pos
       \/ /\ stage' = "done" /\ returned' = "error"
          /\ UNCHANGED <<pos, broken>>
    /\ UNCHANGED <<catalog, effectiveLimit, url, scanned, collected, truncated>>

\* One entry of the page: skipped, kept, or the one that shows there are more.
Look ==
    /\ stage = "page" /\ pos <= Len(pages[url])
    /\ scanned' = scanned + 1
    /\ pos' = pos + 1
    /\ \/ /\ pages[url][pos] # "match"
          /\ UNCHANGED <<stage, collected, truncated, returned>>
       \/ /\ pages[url][pos] = "match" /\ ~Full
          /\ collected' = Append(collected, [page |-> url, at |-> pos])
          /\ UNCHANGED <<stage, truncated, returned>>
       \/ /\ pages[url][pos] = "match" /\ Full
          /\ truncated' = TRUE
          /\ stage' = "done" /\ returned' = "list"
          /\ UNCHANGED collected
    /\ UNCHANGED <<catalog, effectiveLimit, url, broken>>

EndPage ==
    /\ stage = "page" /\ pos > Len(pages[url])
    /\ stage' = "paging"
    /\ url' = NextLink(url)
    /\ UNCHANGED <<catalog, effectiveLimit, pos, scanned, collected, truncated, broken, returned>>

Return ==
    /\ stage = "paging" /\ ~KeepsPaging
    /\ stage' = "done" /\ returned' = "list"
    /\ UNCHANGED <<catalog, effectiveLimit, url, pos, scanned, collected, truncated, broken>>

PagingDone == stage = "done" /\ UNCHANGED pagingVars

PagingNext ==
    \/ \E lim \in Limits : Call(lim)
    \/ Request \/ Look \/ EndPage \/ Return
    \/ PagingDone

\* Every request ends (HttpClient) and the rest is local.
PagingSpec == PagingInit /\ [][PagingNext]_pagingVars /\ WF_pagingVars(Request \/ Look \/ EndPage \/ Return)

-----------------------------------------------------------------------------

\* The matching collections of the catalog, and the order it lists them in.
Matching ==
    UNION {{[page |-> i, at |-> k] : k \in {j \in DOMAIN pages[i] : pages[i][j] = "match"}} :
              i \in DOMAIN pages}
Kept == {collected[i] : i \in DOMAIN collected}
Earlier(m, n) == m.page < n.page \/ (m.page = n.page /\ m.at < n.at)

\* What is kept are the first matching collections, each once and in the
\* catalog's order, as long as no page is served twice, and never more than the
\* limit asked for nor than the scan cap.
FirstMatches ==
    /\ ~loops =>
          /\ Kept \subseteq Matching
          /\ \A i, j \in DOMAIN collected : i < j => Earlier(collected[i], collected[j])
          /\ \A m \in Matching, n \in Kept : Earlier(m, n) => m \in Kept
    /\ Len(collected) <= effectiveLimit /\ effectiveLimit <= MaxCollections

\* A list called truncated is full, and the catalog does have another matching
\* collection.
TruncatedMeansMore ==
    truncated => Len(collected) = effectiveLimit /\ (~loops => Matching \ Kept # {})

\* A list not called truncated has every matching collection of a catalog
\* smaller than the scan cap that answered properly.
WholeUnlessCapped ==
    returned = "list" /\ ~truncated /\ ~broken /\ scanned < MaxCollections => Matching \subseteq Kept

\* The flag says what it should, unless the scan cap ended the paging.
FlagIsHonest == TruncatedMeansMore /\ WholeUnlessCapped

\* Paging ends, except through a catalog whose last page is empty and links to
\* itself.
PagingEnds ==
    stage = "paging" /\ ~(loops /\ pages[Len(pages)] = <<>>) ~> stage = "done"

=============================================================================
