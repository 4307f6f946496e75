------------------------- MODULE CommercialImagery --------------------------
(***************************************************************************)
(* One call of geo-commercial-imagery (server.py, sentinelhub.py,          *)
(* planet.py): a search for scenes, or an order, with Maxar through        *)
(* Sentinel Hub or with Planet.  A Sentinel Hub order is a draft until it  *)
(* is confirmed, which spends quota; a Planet order spends quota when it   *)
(* is placed.  Every request goes through HttpClient.request, which sends  *)
(* it again when the answer is lost or a server error.  The providers are  *)
(* external: a request may take effect although its answer never arrives,  *)
(* and a repeated order is another one, as nothing in it tells otherwise.  *)
(***************************************************************************)
EXTENDS Naturals, Sequences, FiniteSets

CONSTANTS
    MaxAttempts,  \* RetryPolicy.max_attempts
    PageSets,     \* the result pages a search may meet, linked one to the next
    Limits,       \* the limits callers ask for
    MaxItems,     \* MAX_ITEMS
    MaxPages      \* _MAX_PAGES of the Planet search

Features == {"scene", "unusable"}

ASSUME ImageryAssumption ==
    /\ MaxAttempts \in Nat \ {0} /\ MaxItems \in Nat \ {0} /\ MaxPages \in Nat \ {0}
    /\ PageSets \subseteq Seq(Seq(Features)) \ {<<>>}
    /\ Limits \subseteq Nat

VARIABLES
    args,     \* the arguments and the credentials of the call
    step,     \* the request the call is in: "called", "token", "create",
              \* "confirm", "search", or "done"
    attempt,  \* attempts of that request that got no usable answer
    held,     \* the order in hand: its place among the orders, or 0
    found,    \* the scenes collected: the page of each, and the place on it
    page,     \* the page to request
    reply,    \* what the call returned or raised
    orders,   \* the provider's books: whether each order of the call is spent
    silent    \* history: attempts to order whose answer did not name the order

vars == <<args, step, attempt, held, found, page, reply, orders, silent>>

\* The parameters a call may get wrong, and those each path looks at before its
\* first request.
Parameters == {"provider", "bbox", "range", "limit", "cloud", "bands", "item_type",
               "scene_ids", "bundle", "name"}
Checked(tool, provider) ==
    {"provider"} \cup
    CASE tool = "search" /\ provider = "maxar"  -> {"bbox", "range", "limit", "cloud", "bands"}
      [] tool = "search" /\ provider = "planet" -> {"bbox", "range", "limit", "cloud", "item_type"}
      [] tool = "order" /\ provider = "maxar"   -> {"scene_ids", "bbox", "bands", "name"}
      [] tool = "order" /\ provider = "planet"  -> {"scene_ids", "item_type", "bundle", "name"}

\* _validate_and_cap_limit, of a limit that is a positive integer
CapLimit(limit) == IF limit < MaxItems THEN limit ELSE MaxItems

Arguments ==
    [tool : {"search", "order"}, provider : {"maxar", "planet"},
     wrong : {{}} \cup {{p} : p \in Parameters}, keys : BOOLEAN, confirm : BOOLEAN,
     limit : Limits \ {0}, pages : PageSets]

-----------------------------------------------------------------------------

\* How an attempt ends for HttpClient.request: no answer, a server error or a
\* rate limit it waits out, each of which it retries; an error it raises at
\* once; or a response it hands back.
Retried == {"lost", "5xx", "429"}
Raised == {"429 over cap", "401", "403", "unexpected"}
Statuses == {"404", "400", "other 4xx"}
\* A response that is not JSON, JSON without the fields wanted, Sentinel Hub's
\* {"error": ...}, and what was asked for.  A page that lacks its features and
\* has a link is a page of none (PageSets); one without a link is "shape".
Bodies == {"text", "shape", "error body", "good"}
Heard == Retried \cup Raised \cup Statuses \cup Bodies

\* A request refused has no effect, one answered as asked had its effect; of any
\* other nothing is known.
Effects(heard) ==
    IF heard = "good" THEN {TRUE}
    ELSE IF heard \in (Raised \ {"unexpected"}) \cup Statuses \cup {"429"} THEN {FALSE}
    ELSE BOOLEAN

\* The categories an answer may be raised as: _raise_for_error after _decode_json,
\* and what HttpClient.request raises, passed on by _identify_request.
Categories(heard) ==
    CASE heard = "lost" -> {"network"}
      [] heard = "429 over cap" -> {"rate-limit"}
      [] heard = "401" -> {"authentication"}
      [] heard = "403" -> {"authorization"}
      [] heard = "404" -> {"not-found"}
      [] heard = "400" -> {"validation"}
      [] heard = "error body" /\ args.provider = "maxar" ->
            {"authentication", "not-found", "validation", "upstream"}
      [] OTHER -> {"upstream"}
TokenCategories(heard) ==
    IF heard \in Statuses \cup {"shape", "error body"} THEN {"authentication"}
    ELSE IF heard = "unexpected" THEN {"unclassified"}
    ELSE Categories(heard)

\* Mistakes; each makes one of the properties below fail.
PlaceAtOnce == TRUE
SilenceIsConsent(heard) == heard \in {"good", "text", "shape", "lost"}
RoomForOneMore(items) == Len(items) <= CapLimit(args.limit)
FromTheStart(heard) ==
    /\ heard \in Retried /\ attempt + 1 < MaxAttempts
    /\ attempt' = attempt + 1
    /\ step' = (IF step = "confirm" THEN "create" ELSE step)
    /\ UNCHANGED reply
TokenForEver(heard) ==
    /\ heard \in Retried /\ attempt + 1 < MaxAttempts
    /\ attempt' = (IF step = "token" THEN 1 - attempt ELSE attempt + 1)
    /\ UNCHANGED <<step, reply>>

\* Planet: an order is placed only on confirm=true.
MayPlace == args.provider = "maxar" \/ args.confirm

\* _confirm_order accepts a 2xx with or without a JSON body.
ConfirmAccepted(heard) == heard \in {"good", "text", "shape"}

\* Maxar: create only, unless confirm=true.
AfterCreation ==
    IF args.provider = "maxar" /\ args.confirm
    THEN step' = "confirm" /\ UNCHANGED reply
    ELSE step' = "done" /\ reply' = "confirmation"

-----------------------------------------------------------------------------

Init ==
    /\ args \in {a \in Arguments : a.tool = "search" \/ a.limit = CHOOSE n \in Limits \ {0} : TRUE}
    /\ step = "called" /\ attempt = 0 /\ held = 0
    /\ found = <<>> /\ page = 1
    /\ reply = "none"
    /\ orders = <<>> /\ silent = 0

FirstRequest ==
    CASE args.provider = "maxar" -> "token"
      [] args.provider = "planet" /\ args.tool = "search" -> "search"
      [] args.provider = "planet" /\ args.tool = "order" -> "create"

\* The tool up to its first request: the provider, every parameter of its path,
\* the credential, and for Planet the confirmation, in that order.
Call ==
    /\ step = "called"
    /\ \/ /\ args.wrong \cap Checked(args.tool, args.provider) # {}
          /\ step' = "done" /\ reply' = "validation"
       \/ /\ args.wrong \cap Checked(args.tool, args.provider) = {}
          /\ ~args.keys
          /\ step' = "done" /\ reply' = "authentication"
       \/ /\ args.wrong \cap Checked(args.tool, args.provider) = {}
          /\ args.keys
          /\ args.tool = "order" /\ ~MayPlace
          /\ step' = "done" /\ reply' = "validation"
       \/ /\ args.wrong \cap Checked(args.tool, args.provider) = {}
          /\ args.keys
          /\ args.tool = "order" => MayPlace
          /\ step' = FirstRequest /\ UNCHANGED reply
    /\ UNCHANGED <<args, attempt, held, found, page, orders, silent>>

\* An attempt of the request in hand that is not the end of it as hoped: it is
\* sent again, or the call raises.
Again(heard) ==
    /\ heard \in Retried /\ attempt + 1 < MaxAttempts
    /\ attempt' = attempt + 1
    /\ UNCHANGED <<step, reply>>
Raise(heard, categories) ==
    /\ heard \in Retried => attempt + 1 = MaxAttempts
    /\ step' = "done" /\ reply' \in categories
    /\ UNCHANGED attempt

\* fetch_token
Token(heard) ==
    /\ step = "token"
    /\ \/ heard # "good" /\ (Again(heard) \/ Raise(heard, TokenCategories(heard)))
       \/ /\ heard = "good"
          /\ step' = IF args.tool = "search" THEN "search" ELSE "create"
          /\ attempt' = 0
          /\ UNCHANGED reply
    /\ UNCHANGED <<args, held, found, page, orders, silent>>

\* The order's POST.  It may be placed again by a retry.
Create(heard) ==
    /\ step = "create"
    /\ \E took \in Effects(heard) :
          orders' = IF took THEN Append(orders, args.provider = "planet") ELSE orders
    /\ \/ /\ heard # "good"
          /\ Again(heard) \/ Raise(heard, Categories(heard))
          /\ silent' = silent + 1
          /\ UNCHANGED held
       \/ /\ heard = "good"
          /\ held' = Len(orders')
          /\ AfterCreation
          /\ attempt' = 0
          /\ UNCHANGED silent
    /\ UNCHANGED <<args, found, page>>

\* _confirm_order: the order in hand is spent, once however often it is said.
Confirm(heard) ==
    /\ step = "confirm"
    /\ \E took \in IF heard \in {"text", "shape"} THEN {TRUE} ELSE Effects(heard) :
          orders' = [orders EXCEPT ![held] = @ \/ took]
    /\ \/ /\ ConfirmAccepted(heard)
          /\ step' = "done" /\ reply' = "confirmation"
          /\ UNCHANGED attempt
       \/ ~ConfirmAccepted(heard) /\ (Again(heard) \/ Raise(heard, Categories(heard)))
    /\ UNCHANGED <<args, held, found, page, silent>>

\* One page of results.  An answer without a list of features is a page of none.
\* Maxar has one page; Planet's are followed up to _MAX_PAGES.
Room(items) == Len(items) < CapLimit(args.limit)

\* The scenes in hand after the first k features of the page: a feature without
\* what a scene needs is passed over, and nothing is taken once there is no room.
Collecting[k \in 0..Len(args.pages[page])] ==
    IF k = 0 THEN found
    ELSE IF Room(Collecting[k - 1]) /\ args.pages[page][k] = "scene"
         THEN Append(Collecting[k - 1], [page |-> page, at |-> k])
         ELSE Collecting[k - 1]
Featureless(heard) ==
    heard = "shape" \/ (heard = "error body" /\ args.provider = "planet")
FollowNext == page < Len(args.pages) /\ page < MaxPages
Search(heard) ==
    /\ step = "search"
    /\ \/ /\ heard # "good" /\ ~Featureless(heard)
          /\ Again(heard) \/ Raise(heard, Categories(heard))
          /\ UNCHANGED <<found, page>>
       \/ /\ Featureless(heard)
          /\ step' = "done" /\ reply' = "scenes"
          /\ UNCHANGED <<attempt, found, page>>
       \/ /\ heard = "good"
          /\ found' = Collecting[Len(args.pages[page])]
          /\ IF args.provider = "planet" /\ FollowNext /\ Len(found') < CapLimit(args.limit)
             THEN page' = page + 1 /\ attempt' = 0 /\ UNCHANGED <<step, reply>>
             ELSE step' = "done" /\ reply' = "scenes" /\ UNCHANGED <<attempt, page>>
    /\ UNCHANGED <<args, held, orders, silent>>

Done == step = "done" /\ UNCHANGED vars

Next ==
    \/ Call
    \/ \E heard \in Heard : Token(heard) \/ Create(heard) \/ Confirm(heard) \/ Search(heard)
    \/ Done

\* Every attempt of HttpClient.request ends and the rest is local.
Spec == Init /\ [][Next]_vars /\ WF_vars(Next)

-----------------------------------------------------------------------------

Spent == {i \in DOMAIN orders : orders[i]}

\* Types.
TypeOK ==
    /\ args \in Arguments
    /\ step \in {"called", "token", "create", "confirm", "search", "done"}
    /\ attempt \in 0..(MaxAttempts - 1)
    /\ held \in 0..Len(orders)
    /\ orders \in Seq(BOOLEAN) /\ Len(orders) <= MaxAttempts
    /\ silent \in 0..MaxAttempts
    /\ page \in 1..Len(args.pages)

\* Quota is spent only for an order of a caller who said confirm=true.
SpentOnlyOnConfirm == Spent # {} => args.tool = "order" /\ args.confirm

\* A confirmation is of an order the provider has, and its `confirmed` (true of
\* every Planet order) says whether that order is spent.
ConfirmationIsTrue ==
    reply = "confirmation" =>
        /\ held \in DOMAIN orders
        /\ orders[held] = (args.provider = "planet" \/ args.confirm)

\* What the books hold beside the order in hand was placed by attempts whose
\* answer did not come or did not name it; a Maxar call, whatever is retried,
\* spends at most the one order in hand, a Planet call as many as it tried.
OrdersAccountedFor ==
    /\ Len(orders) <= silent + (IF held = 0 THEN 0 ELSE 1)
    /\ args.provider = "maxar" => Spent \subseteq {held}

\* The scenes on the provider's pages, and their order.
Scenes == {s \in UNION {[page : {p}, at : DOMAIN args.pages[p]] : p \in DOMAIN args.pages} :
              args.pages[s.page][s.at] = "scene"}
Earlier(s, t) == s.page < t.page \/ (s.page = t.page /\ s.at < t.at)

\* A search returns the first scenes of the provider's pages: in their order, none
\* passed over and none twice, however the scenes fall on the pages; never more
\* than the limit, and it asks for a page only while there is room.
FirstScenes ==
    LET kept == {found[i] : i \in DOMAIN found}
    IN  /\ \A i, j \in DOMAIN found : i < j => Earlier(found[i], found[j])
        /\ kept \subseteq Scenes
        /\ \A s \in Scenes, t \in kept : Earlier(s, t) => s \in kept
        /\ Len(found) <= CapLimit(args.limit)
        /\ page <= MaxPages
        /\ step = "search" => Len(found) < CapLimit(args.limit)

\* Every call ends: requests, attempts and pages are all bounded.
CallEnds == <>(step = "done")

=============================================================================
