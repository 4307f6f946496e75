------------------------------ MODULE ToolProofs -----------------------------
(***************************************************************************)
(* What the tools of the servers promise of a call, for arguments,         *)
(* answers, pages and limits of any number.                                *)
(*                                                                         *)
(* geo-commercial-imagery: what a call may spend and what it says of it.   *)
(* The orders a retry may leave behind are counted against the attempts    *)
(* that went unanswered (Counted); only the order in hand is ever confirmed*)
(* (InHand).  What a search has collected when it comes to a page are the  *)
(* first scenes of the pages before it, and the loop over a page's         *)
(* features keeps that of the features it has passed (FirstUpTo).          *)
(*                                                                         *)
(* The tools behind ServerCalls: a call is a function, so the proofs are   *)
(* about loops.  A loop over sources keeps what is said of the sources     *)
(* before (ChainIsHonest, Gathers, Fetches); a sequence of stages ends at  *)
(* the first that does not say "ok" (StagedReturns, StagedEnds).  A tree   *)
(* of tiles is built level by level, and after each level a point is in    *)
(* one tile or in one node still to be split (LevelStep).                  *)
(***************************************************************************)
EXTENDS CommercialImagery, ServerCalls, FiniteSetTheorems, SequenceTheorems, WellFoundedInduction, TLAPS

-----------------------------------------------------------------------------
(* Least and greatest numbers, induction and recursion up to a number.      *)

LEMMA LeastOf ==
    ASSUME NEW T \in SUBSET Nat, T # {}
    PROVE  \E x \in T : \A y \in T : x <= y
<1> DEFINE R == OpToRel(<, Nat)
<1>1. \A x, y \in Nat : <<x, y>> \in R <=> x < y
  BY DEF OpToRel
<1>2. IsWellFoundedOn(R, Nat)
  BY NatLessThanWellFounded
<1> HIDE DEF R
<1>3. PICK x \in T : \A y \in T : ~(<<y, x>> \in R)
  BY <1>2, WFMin
<1>4. \A y \in T : x <= y
  <2> SUFFICES ASSUME NEW y \in T PROVE x <= y
    OBVIOUS
  <2>1. x \in Nat /\ y \in Nat /\ ~(y < x)
    BY <1>1, <1>3
  <2> QED
    BY <2>1
<1> QED
  BY <1>4

\* Induction over 0..n, of a set.
LEMMA UpToInduction ==
    ASSUME NEW n \in Nat, NEW T, 0 \in T,
           \A k \in 1..n : k - 1 \in T => k \in T
    PROVE  0..n \subseteq T
<1> SUFFICES ASSUME ~(0..n \subseteq T) PROVE FALSE
  OBVIOUS
<1>1. (0..n) \ T \in SUBSET Nat /\ (0..n) \ T # {}
  OBVIOUS
<1>2. PICK x \in (0..n) \ T : \A y \in (0..n) \ T : x <= y
  BY <1>1, LeastOf
<1>3. x \in 1..n
  BY <1>2
<1>4. x - 1 \in 0..n /\ ~(x <= x - 1)
  BY <1>3
<1>5. x - 1 \in T
  BY <1>2, <1>4
<1> QED
  BY <1>2, <1>3, <1>5

\* f begins with base, and its value at k comes of the one before by next.
Recurs(f, n, base, next) ==
    f[0] = base /\ \A k \in 1..n : f[k] = next[<<f[k - 1], k>>]

\* There is such a function on 0..n.
LEMMA RecursionUpTo ==
    ASSUME NEW n \in Nat, NEW S, NEW base \in S, NEW next \in [S \X (1..n) -> S]
    PROVE  \E f \in [0..n -> S] : Recurs(f, n, base, next)
<1> DEFINE Solves(f, m) ==
        f[0] = base /\ \A k \in 1..m : f[k] = next[<<f[k - 1], k>>]
    T == {m \in 0..n : \E f \in [0..m -> S] : Solves(f, m)}
<1>1. 0 \in T
  <2> DEFINE f == [i \in 0..0 |-> base]
  <2>1. f \in [0..0 -> S] /\ f[0] = base
    OBVIOUS
  <2> HIDE DEF f
  <2>2. Solves(f, 0) /\ 0 \in 0..n
    BY <2>1
  <2> QED
    BY <2>1, <2>2
<1>2. \A m \in 1..n : m - 1 \in T => m \in T
  <2> SUFFICES ASSUME NEW m \in 1..n, m - 1 \in T PROVE m \in T
    OBVIOUS
  <2>1. PICK f \in [0..(m - 1) -> S] : Solves(f, m - 1)
    OBVIOUS
  <2> DEFINE g == [i \in 0..m |-> IF i = m THEN next[<<f[m - 1], m>>] ELSE f[i]]
  <2>2. m - 1 \in 0..(m - 1) /\ f[m - 1] \in S /\ next[<<f[m - 1], m>>] \in S
    OBVIOUS
  <2>3. g \in [0..m -> S] /\ g[m] = next[<<f[m - 1], m>>]
        /\ \A i \in 0..(m - 1) : g[i] = f[i]
    BY <2>2
  <2> HIDE DEF g
  <2>4. g[0] = base
    BY <2>1, <2>3
  <2>5. ASSUME NEW k \in 1..m PROVE g[k] = next[<<g[k - 1], k>>]
    <3>1. CASE k = m
      BY <2>2, <2>3, <3>1
    <3>2. CASE k # m
      <4>1. k \in 1..(m - 1) /\ k \in 0..(m - 1) /\ k - 1 \in 0..(m - 1)
        BY <3>2
      <4> QED
        BY <2>1, <2>3, <4>1
    <3> QED
      BY <3>1, <3>2
  <2>6. Solves(g, m)
    BY <2>4, <2>5
  <2> QED
    BY <2>3, <2>6
<1> HIDE DEF T
<1>3. 0..n \subseteq T
  BY <1>1, <1>2, UpToInduction
<1>4. n \in T
  BY <1>3
<1> QED
  BY <1>4 DEF T, Recurs

\* The least of some numbers, and the greatest of some that are bounded.
LEMMA MinIsLeast ==
    ASSUME NEW T \in SUBSET Nat, T # {}
    PROVE  Min(T) \in T /\ \A y \in T : Min(T) <= y
<1>1. \E x \in T : \A y \in T : x <= y
  BY LeastOf
<1> QED
  BY <1>1 DEF Min

LEMMA MaxIsGreatest ==
    ASSUME NEW n \in Nat, NEW T \in SUBSET (0..n), T # {}
    PROVE  Max(T) \in T /\ \A y \in T : y <= Max(T)
<1> DEFINE D == {n - x : x \in T}
<1>1. D \in SUBSET Nat /\ D # {}
  <2>1. \A x \in T : n - x \in Nat
    OBVIOUS
  <2> QED
    BY <2>1
<1>2. PICK d \in D : \A e \in D : d <= e
  <2> HIDE DEF D
  <2> QED
    BY <1>1, LeastOf
<1>3. PICK x \in T : d = n - x
  OBVIOUS
<1>4. \A y \in T : x >= y
  <2> SUFFICES ASSUME NEW y \in T PROVE x >= y
    OBVIOUS
  <2>1. n - y \in D /\ x \in Nat /\ y \in Nat
    OBVIOUS
  <2>2. n - x <= n - y
    BY <1>2, <1>3, <2>1
  <2> QED
    BY <2>1, <2>2
<1>5. Max(T) \in T /\ \A y \in T : Max(T) >= y
  BY <1>4 DEF Max
<1> QED
  BY <1>5
LEMMA MaxIsThere ==
    ASSUME NEW n \in Nat, NEW T \in SUBSET 1..n, T # {}
    PROVE  Max(T) \in T /\ \A y \in T : y <= Max(T)
<1>1. T \in SUBSET (0..n)
  OBVIOUS
<1> QED
  BY <1>1, MaxIsGreatest

-----------------------------------------------------------------------------
(* geo-commercial-imagery: what is spent.                                   *)

\* An order is placed and confirmed on the paths that may.
Allowed ==
    /\ orders # <<>> \/ step \in {"create", "confirm"} =>
          /\ args.tool = "order"
          /\ args.provider = "planet" => args.confirm
    /\ step = "confirm" => args.provider = "maxar" /\ args.confirm
    /\ step = "token" => args.provider = "maxar"

\* The order in hand.
InHand ==
    /\ step = "confirm" => held # 0
    /\ step \in {"called", "token", "create", "search"} => held = 0
    /\ reply = "confirmation" => step = "done"

\* Each attempt leaves one order at most.
Counted ==
    /\ step = "create" => silent = attempt /\ Len(orders) <= attempt
    /\ step \in {"called", "token", "search"} => silent = 0 /\ orders = <<>>
    /\ step = "called" => attempt = 0
    /\ Len(orders) <= silent + (IF held = 0 THEN 0 ELSE 1)

\* Which orders are spent.
Books ==
    /\ args.provider = "planet" => \A i \in DOMAIN orders : orders[i] = TRUE
    /\ args.provider = "maxar" =>
          \A i \in DOMAIN orders : orders[i] = TRUE => i = held /\ args.confirm
    /\ ConfirmationIsTrue

\* The scenes among the first k features of page p and on the pages before it.
InReach(p, k) == {s \in Scenes : s.page < p \/ (s.page = p /\ s.at <= k)}

\* What may be in hand when the first k features of page p have been looked at.
FirstUpTo(items, p, k) ==
    LET kept == {items[i] : i \in DOMAIN items}
    IN  /\ items \in Seq(Scenes)
        /\ \A i, j \in DOMAIN items : i < j => Earlier(items[i], items[j])
        /\ kept \subseteq InReach(p, k)
        /\ \A s \in Scenes, t \in kept : Earlier(s, t) => s \in kept
        /\ Len(items) <= CapLimit(args.limit)
        /\ Room(items) => InReach(p, k) \subseteq kept

\* A search comes to a page with room, and with all there was before it.
Collected ==
    /\ FirstScenes
    /\ step = "search" => FirstUpTo(found, page, 0)
    /\ step \in {"called", "token", "create", "confirm"} => found = <<>> /\ page = 1

Inv ==
    /\ TypeOK
    /\ Allowed
    /\ InHand
    /\ Counted
    /\ Books

-----------------------------------------------------------------------------

LEMMA AppendOrder ==
    ASSUME NEW s \in Seq(BOOLEAN), NEW b \in BOOLEAN
    PROVE  /\ Append(s, b) \in Seq(BOOLEAN)
           /\ Len(Append(s, b)) = Len(s) + 1
           /\ DOMAIN Append(s, b) = 1..Len(s) + 1
           /\ DOMAIN s = 1..Len(s)
           /\ \A i \in DOMAIN s : Append(s, b)[i] = s[i]
           /\ Append(s, b)[Len(s) + 1] = b
           /\ Append(s, b) # <<>>
OBVIOUS

\* The arguments have their types.
LEMMA ArgumentTypes ==
    ASSUME Inv
    PROVE  /\ args.tool \in {"search", "order"} /\ args.provider \in {"maxar", "planet"}
           /\ args.confirm \in BOOLEAN /\ args.pages \in PageSets
           /\ Len(args.pages) \in Nat \ {0}
<1>1. /\ args.tool \in {"search", "order"} /\ args.provider \in {"maxar", "planet"}
      /\ args.confirm \in BOOLEAN /\ args.pages \in PageSets
  BY DEF Inv, TypeOK, Arguments
<1>2. args.pages \in Seq(Seq(Features)) /\ args.pages # <<>>
  BY <1>1, ImageryAssumption
<1> QED
  BY <1>1, <1>2

LEMMA InitInv == Init => Inv
<1> SUFFICES ASSUME Init PROVE Inv
  OBVIOUS
<1>1. args \in Arguments
  BY DEF Init
<1>2. args.pages \in Seq(Seq(Features)) /\ args.pages # <<>>
  BY <1>1, ImageryAssumption DEF Arguments
<1>3. 1 \in 1..Len(args.pages)
  BY <1>2
<1>4. TypeOK
  BY <1>1, <1>3, ImageryAssumption DEF Init, TypeOK
<1> QED
  BY <1>4 DEF Init, Inv, Allowed, InHand, Counted, Books, ConfirmationIsTrue

\* No error is called a confirmation.
LEMMA ErrorsAreNoConfirmation ==
    ASSUME NEW heard \in Heard
    PROVE  "confirmation" \notin Categories(heard) /\ "confirmation" \notin TokenCategories(heard)
<1>1. "confirmation" \notin Categories(heard)
  BY DEF Categories
<1> QED
  BY <1>1 DEF TokenCategories

\* An attempt that did not do: the request is sent again, or the call is over.
LEMMA AttemptEnds ==
    ASSUME Inv, NEW heard \in Heard, NEW categories,
           Again(heard) \/ Raise(heard, categories), "confirmation" \notin categories
    PROVE  /\ attempt' \in 0..(MaxAttempts - 1)
           /\ \/ step' = step /\ attempt' = attempt + 1 /\ reply' = reply
              \/ step' = "done" /\ attempt' = attempt /\ reply' # "confirmation"
<1>1. attempt \in 0..(MaxAttempts - 1) /\ MaxAttempts \in Nat \ {0}
  BY ImageryAssumption DEF Inv, TypeOK
<1>2. CASE Again(heard)
  BY <1>1, <1>2 DEF Again
<1>3. CASE Raise(heard, categories)
  BY <1>1, <1>3 DEF Raise
<1> QED
  BY <1>2, <1>3

LEMMA CallKeepsInv == Inv /\ Call => Inv'
<1> SUFFICES ASSUME Inv, Call PROVE Inv'
  OBVIOUS
<1>1. /\ step = "called" /\ UNCHANGED <<args, attempt, held, found, page, orders, silent>>
      /\ \/ step' = "done" /\ reply' \in {"validation", "authentication"}
         \/ /\ step' = FirstRequest /\ reply' = reply
            /\ args.tool = "order" => MayPlace
  BY DEF Call
<1>2. /\ held = 0 /\ silent = 0 /\ orders = <<>> /\ attempt = 0 /\ reply # "confirmation"
  BY <1>1 DEF Inv, InHand, Counted
<1>3. CASE step' = "done" /\ reply' \in {"validation", "authentication"}
  <2>1. TypeOK'
    BY <1>1, <1>3 DEF Inv, TypeOK
  <2> QED
    BY <1>1, <1>2, <1>3, <2>1
    DEF Inv, Allowed, InHand, Counted, Books, ConfirmationIsTrue
<1>4. CASE step' = FirstRequest /\ reply' = reply /\ (args.tool = "order" => MayPlace)
  <2>1. /\ step' \in {"token", "search", "create"}
        /\ step' = "create" => args.tool = "order" /\ args.provider = "planet"
        /\ step' = "token" => args.provider = "maxar"
    BY <1>4, ArgumentTypes DEF FirstRequest
  <2>2. step' = "create" => args.confirm
    BY <1>4, <2>1 DEF MayPlace
  <2>3. TypeOK'
    BY <1>1, <2>1 DEF Inv, TypeOK
  <2>4. Allowed'
    BY <1>1, <1>2, <2>1, <2>2 DEF Allowed
  <2>5. InHand' /\ Counted' /\ Books'
    BY <1>1, <1>2, <1>4, <2>1 DEF Inv, InHand, Counted, Books, ConfirmationIsTrue
  <2> QED
    BY <2>3, <2>4, <2>5 DEF Inv
<1> QED
  BY <1>1, <1>3, <1>4

LEMMA TokenKeepsInv ==
    ASSUME Inv, NEW heard \in Heard, Token(heard)
    PROVE  Inv'
<1>1. step = "token" /\ UNCHANGED <<args, held, found, page, orders, silent>>
  BY DEF Token
<1>2. /\ held = 0 /\ silent = 0 /\ orders = <<>> /\ reply # "confirmation"
  BY <1>1 DEF Inv, InHand, Counted
<1>3. CASE heard # "good"
  <2>1. Again(heard) \/ Raise(heard, TokenCategories(heard))
    BY <1>3 DEF Token
  <2>2. /\ attempt' \in 0..(MaxAttempts - 1) /\ reply' # "confirmation"
        /\ step' \in {"token", "done"}
    BY <1>1, <1>2, <2>1, ErrorsAreNoConfirmation, AttemptEnds
  <2>3. TypeOK'
    BY <1>1, <2>2 DEF Inv, TypeOK
  <2> QED
    BY <1>1, <1>2, <2>2, <2>3 DEF Inv, Allowed, InHand, Counted, Books, ConfirmationIsTrue
<1>4. CASE heard = "good"
  <2>1. /\ attempt' = 0 /\ reply' = reply
        /\ step' = IF args.tool = "search" THEN "search" ELSE "create"
    BY <1>4 DEF Token
  <2>2. TypeOK'
    BY <1>1, <2>1, ImageryAssumption DEF Inv, TypeOK
  <2>3. Allowed'
    BY <1>1, <1>2, <2>1, ArgumentTypes DEF Inv, Allowed
  <2> QED
    BY <1>1, <1>2, <2>1, <2>2, <2>3 DEF Inv, InHand, Counted, Books, ConfirmationIsTrue
<1> QED
  BY <1>3, <1>4

\* The books after an attempt to order: as before, or with one order more, which is
\* spent with Planet and a draft with Maxar.
LEMMA CreateBooks ==
    ASSUME Inv, NEW heard \in Heard, Create(heard)
    PROVE  /\ orders' \in Seq(BOOLEAN) /\ DOMAIN orders' = 1..Len(orders')
           /\ DOMAIN orders = 1..Len(orders) /\ Len(orders) \in Nat
           /\ \/ orders' = orders /\ heard # "good"
              \/ Len(orders') = Len(orders) + 1
           /\ \A i \in DOMAIN orders : orders'[i] = orders[i]
           /\ \A i \in DOMAIN orders' \ DOMAIN orders :
                 /\ args.provider = "planet" => orders'[i] = TRUE
                 /\ args.provider = "maxar" => orders'[i] = FALSE
<1>1. orders \in Seq(BOOLEAN)
  BY DEF Inv, TypeOK
<1>2. PICK took \in Effects(heard) :
         orders' = IF took THEN Append(orders, args.provider = "planet") ELSE orders
  BY DEF Create
<1>3. DOMAIN orders = 1..Len(orders) /\ Len(orders) \in Nat
  BY <1>1
<1>4. took \in BOOLEAN /\ (heard = "good" => took = TRUE)
  BY DEF Effects
<1>5. PICK b \in BOOLEAN : /\ b = (args.provider = "planet")
                           /\ args.provider = "planet" => b = TRUE
                           /\ args.provider = "maxar" => b = FALSE
  BY ArgumentTypes
<1>6. CASE took = TRUE
  <2>1. orders' = Append(orders, b)
    BY <1>2, <1>5, <1>6
  <2>2. /\ Append(orders, b) \in Seq(BOOLEAN) /\ Len(Append(orders, b)) = Len(orders) + 1
        /\ DOMAIN Append(orders, b) = 1..Len(orders) + 1
        /\ \A i \in DOMAIN orders : Append(orders, b)[i] = orders[i]
        /\ Append(orders, b)[Len(orders) + 1] = b
    BY <1>1, AppendOrder
  <2>3. \A i \in (1..Len(orders) + 1) \ (1..Len(orders)) : i = Len(orders) + 1
    BY <1>3
  <2> QED
    BY <1>3, <1>5, <2>1, <2>2, <2>3
<1>7. CASE took = FALSE
  <2>1. orders' = orders /\ heard # "good"
    BY <1>2, <1>4, <1>7
  <2> QED
    BY <1>1, <1>3, <2>1
<1> QED
  BY <1>4, <1>6, <1>7

LEMMA CreateKeepsInv ==
    ASSUME Inv, NEW heard \in Heard, Create(heard)
    PROVE  Inv'
<1>1. step = "create" /\ UNCHANGED <<args, found, page>>
  BY DEF Create
<1>2. /\ held = 0 /\ silent = attempt /\ Len(orders) <= attempt /\ reply # "confirmation"
      /\ args.tool = "order" /\ (args.provider = "planet" => args.confirm)
      /\ attempt \in 0..(MaxAttempts - 1) /\ MaxAttempts \in Nat \ {0}
  BY <1>1, ImageryAssumption DEF Inv, TypeOK, Allowed, InHand, Counted
<1>3. /\ orders' \in Seq(BOOLEAN) /\ DOMAIN orders' = 1..Len(orders')
      /\ DOMAIN orders = 1..Len(orders) /\ Len(orders) \in Nat
      /\ \/ orders' = orders /\ heard # "good"
         \/ Len(orders') = Len(orders) + 1
      /\ \A i \in DOMAIN orders : orders'[i] = orders[i]
      /\ \A i \in DOMAIN orders' \ DOMAIN orders :
            /\ args.provider = "planet" => orders'[i] = TRUE
            /\ args.provider = "maxar" => orders'[i] = FALSE
  BY CreateBooks
<1>4. Len(orders') \in Nat /\ Len(orders') <= Len(orders) + 1
  <2>1. Len(orders) \in Nat
    BY <1>3
  <2>2. Len(orders') = Len(orders) \/ Len(orders') = Len(orders) + 1
    BY <1>3
  <2> QED
    BY <2>1, <2>2
<1>5. /\ args.provider = "planet" => \A i \in DOMAIN orders' : orders'[i] = TRUE
      /\ args.provider = "maxar" => \A i \in DOMAIN orders' : orders'[i] = FALSE
  <2>1. args.provider = "planet" => \A i \in DOMAIN orders : orders[i] = TRUE
    BY DEF Inv, Books
  <2>2. args.provider = "maxar" => \A i \in DOMAIN orders : orders[i] = FALSE
    <3>1. ASSUME args.provider = "maxar", NEW i \in DOMAIN orders PROVE orders[i] = FALSE
      <4>1. orders[i] # TRUE
        <5>1. i \in 1..Len(orders) /\ held = 0
          BY <1>2, <1>3, <3>1
        <5>2. i # held
          <6>1. i \in Nat \ {0}
            <7>1. Len(orders) \in Nat
              BY <1>3
            <7> QED
              BY <5>1, <7>1
          <6> QED
            BY <5>1, <6>1
        <5>3. orders[i] = TRUE => i = held
          BY <3>1 DEF Inv, Books
        <5> QED
          BY <5>2, <5>3
      <4>2. orders[i] \in BOOLEAN
        <5>1. orders \in Seq(BOOLEAN)
          BY DEF Inv, TypeOK
        <5> QED
          BY <3>1, <5>1
      <4> QED
        BY <4>1, <4>2
    <3> QED
      BY <3>1
  <2> QED
    BY <1>3, <2>1, <2>2
<1>6. CASE heard # "good"
  <2>1. /\ Again(heard) \/ Raise(heard, Categories(heard))
        /\ silent' = silent + 1 /\ held' = held
    BY <1>6 DEF Create
  <2>2. /\ attempt' \in 0..(MaxAttempts - 1) /\ reply' # "confirmation"
        /\ \/ step' = "create" /\ attempt' = attempt + 1
           \/ step' = "done" /\ attempt' = attempt
    BY <1>1, <1>2, <2>1, ErrorsAreNoConfirmation, AttemptEnds
  <2>3. TypeOK'
    <3>1. Len(orders') <= MaxAttempts /\ silent' \in 0..MaxAttempts /\ held' \in 0..Len(orders')
      <4>1. Len(orders) \in Nat
        BY <1>3
      <4>2. Len(orders') \in Nat /\ Len(orders') <= MaxAttempts
        BY <1>2, <1>4, <4>1
      <4>3. silent' \in 0..MaxAttempts
        BY <1>2, <2>1
      <4> QED
        BY <1>2, <2>1, <4>2, <4>3
    <3>2. step' \in {"create", "done"}
      BY <2>2
    <3> QED
      BY <1>1, <1>3, <2>2, <3>1, <3>2 DEF Inv, TypeOK
  <2>4. Allowed' /\ InHand'
    BY <1>1, <1>2, <2>1, <2>2 DEF Allowed, InHand
  <2>5. Counted'
    BY <1>2, <1>4, <2>1, <2>2 DEF Counted
  <2>6. Books'
    BY <1>1, <1>3, <1>5, <2>2 DEF Books, ConfirmationIsTrue
  <2> QED
    BY <2>3, <2>4, <2>5, <2>6 DEF Inv
<1>7. CASE heard = "good"
  <2>1. held' = Len(orders') /\ AfterCreation /\ attempt' = 0 /\ silent' = silent
    BY <1>7 DEF Create
  <2>2. Len(orders') = Len(orders) + 1 /\ held' \in DOMAIN orders' /\ held' # 0
    BY <1>3, <1>7, <2>1
  <2>3. \/ step' = "confirm" /\ reply' = reply /\ args.provider = "maxar" /\ args.confirm
        \/ /\ step' = "done" /\ reply' = "confirmation"
           /\ ~(args.provider = "maxar" /\ args.confirm)
    BY <2>1 DEF AfterCreation
  <2>4. TypeOK'
    BY <1>1, <1>2, <1>3, <1>4, <2>1, <2>2, <2>3 DEF Inv, TypeOK
  <2>5. Allowed' /\ InHand'
    BY <1>1, <1>2, <2>2, <2>3 DEF Allowed, InHand
  <2>6. Counted'
    BY <1>2, <1>3, <2>1, <2>2, <2>3 DEF Counted
  <2>7. ConfirmationIsTrue'
    <3>1. CASE args.provider = "planet"
      <4>1. orders'[held'] = TRUE /\ (args.provider = "planet" \/ args.confirm)
        BY <1>5, <2>2, <3>1
      <4> QED
        BY <1>1, <2>2, <4>1 DEF ConfirmationIsTrue
    <3>2. CASE args.provider = "maxar"
      <4>1. orders'[held'] = FALSE /\ args.provider # "planet"
        BY <1>5, <2>2, <3>2
      <4>2. reply' = "confirmation" => ~args.confirm
        BY <1>2, <2>3, <3>2
      <4> QED
        BY <1>1, <2>2, <4>1, <4>2 DEF ConfirmationIsTrue
    <3> QED
      BY <3>1, <3>2, ArgumentTypes
  <2>8. Books'
    BY <1>1, <1>5, <2>7 DEF Books
  <2> QED
    BY <2>4, <2>5, <2>6, <2>8 DEF Inv
<1> QED
  BY <1>6, <1>7

LEMMA ConfirmKeepsInv ==
    ASSUME Inv, NEW heard \in Heard, Confirm(heard)
    PROVE  Inv'
<1>1. step = "confirm" /\ UNCHANGED <<args, held, found, page, silent>>
  BY DEF Confirm
<1>2. /\ args.provider = "maxar" /\ args.confirm /\ args.tool = "order"
      /\ held # 0 /\ reply # "confirmation"
  BY <1>1 DEF Inv, Allowed, InHand
<1>3. orders \in Seq(BOOLEAN) /\ Len(orders) \in Nat /\ DOMAIN orders = 1..Len(orders)
  BY DEF Inv, TypeOK
<1>4. held \in DOMAIN orders
  <2>1. held \in 0..Len(orders)
    BY DEF Inv, TypeOK
  <2> QED
    BY <1>2, <1>3, <2>1
<1>5. PICK took \in BOOLEAN :
         /\ orders' = [orders EXCEPT ![held] = @ \/ took]
         /\ ConfirmAccepted(heard) => took = TRUE
  BY DEF Confirm, Effects, ConfirmAccepted
<1>6. /\ orders' \in Seq(BOOLEAN) /\ Len(orders') = Len(orders) /\ DOMAIN orders' = DOMAIN orders
      /\ \A i \in DOMAIN orders : i # held => orders'[i] = orders[i]
  <2> DEFINE b == orders[held] \/ took
  <2>1. b \in BOOLEAN
    OBVIOUS
  <2>2. orders' = [orders EXCEPT ![held] = b]
    BY <1>5
  <2> HIDE DEF b
  <2> QED
    BY <1>3, <1>4, <2>1, <2>2
<1>7. ConfirmAccepted(heard) => orders'[held] = TRUE
  BY <1>3, <1>4, <1>5
<1>8. \A i \in DOMAIN orders' : orders'[i] = TRUE => i = held /\ args.confirm
  BY <1>2, <1>6 DEF Inv, Books
<1>9. CASE ConfirmAccepted(heard)
  <2>1. step' = "done" /\ reply' = "confirmation" /\ attempt' = attempt
    BY <1>9 DEF Confirm
  <2>2. TypeOK'
    BY <1>1, <1>6, <2>1 DEF Inv, TypeOK
  <2>3. Allowed' /\ InHand'
    BY <1>1, <1>2, <2>1 DEF Allowed, InHand
  <2>4. Counted'
    BY <1>1, <1>6, <2>1 DEF Inv, Counted
  <2>5. ConfirmationIsTrue'
    BY <1>1, <1>2, <1>4, <1>6, <1>7, <1>9 DEF ConfirmationIsTrue
  <2>6. Books'
    BY <1>1, <1>2, <1>8, <2>5 DEF Books
  <2> QED
    BY <2>2, <2>3, <2>4, <2>6 DEF Inv
<1>10. CASE ~ConfirmAccepted(heard)
  <2>1. Again(heard) \/ Raise(heard, Categories(heard))
    BY <1>10 DEF Confirm
  <2>2. /\ attempt' \in 0..(MaxAttempts - 1) /\ reply' # "confirmation"
        /\ step' \in {"confirm", "done"}
        /\ reply' \in {reply} \cup Categories(heard)
    <3>1. reply' \in {reply} \cup Categories(heard)
      BY <2>1 DEF Again, Raise
    <3> QED
      BY <1>1, <1>2, <2>1, <3>1, ErrorsAreNoConfirmation, AttemptEnds
  <2>3. TypeOK'
    BY <1>1, <1>6, <2>2 DEF Inv, TypeOK
  <2>4. Allowed' /\ InHand'
    BY <1>1, <1>2, <2>2 DEF Allowed, InHand
  <2>5. Counted'
    BY <1>1, <1>6, <2>2 DEF Inv, Counted
  <2>6. Books'
    BY <1>1, <1>2, <1>8, <2>2 DEF Books, ConfirmationIsTrue
  <2> QED
    BY <2>3, <2>4, <2>5, <2>6 DEF Inv
<1> QED
  BY <1>9, <1>10

LEMMA SearchKeepsInv ==
    ASSUME Inv, NEW heard \in Heard, Search(heard)
    PROVE  Inv'
<1>1. step = "search" /\ UNCHANGED <<args, held, orders, silent>>
  BY DEF Search
<1>2. held = 0 /\ silent = 0 /\ orders = <<>> /\ reply # "confirmation"
      /\ attempt \in 0..(MaxAttempts - 1) /\ MaxAttempts \in Nat \ {0}
      /\ page \in 1..Len(args.pages)
  BY <1>1, ImageryAssumption DEF Inv, TypeOK, InHand, Counted
<1>3. /\ attempt' \in 0..(MaxAttempts - 1) /\ reply' # "confirmation"
      /\ step' \in {"search", "done"} /\ page' \in 1..Len(args.pages)
  <2>1. CASE heard # "good" /\ ~Featureless(heard)
    <3>1. Again(heard) \/ Raise(heard, Categories(heard))
      BY <2>1 DEF Search
    <3>2. page' = page
      BY <2>1 DEF Search
    <3> QED
      BY <1>1, <1>2, <3>1, <3>2, ErrorsAreNoConfirmation, AttemptEnds
  <2>2. CASE Featureless(heard)
    <3>1. heard # "good"
      BY <2>2 DEF Featureless
    <3> QED
      BY <1>2, <2>2, <3>1 DEF Search
  <2>3. CASE heard = "good"
    <3>1. ~Featureless(heard)
      BY <2>3 DEF Featureless
    <3>2. \/ page' = page + 1 /\ attempt' = 0 /\ UNCHANGED <<step, reply>> /\ FollowNext
          \/ step' = "done" /\ reply' = "scenes" /\ UNCHANGED <<attempt, page>>
      BY <2>3, <3>1 DEF Search
    <3>3. FollowNext => page + 1 \in 1..Len(args.pages)
      BY <1>2, ArgumentTypes DEF FollowNext
    <3> QED
      BY <1>1, <1>2, <3>2, <3>3
  <2> QED
    BY <2>1, <2>2, <2>3
<1>4. TypeOK'
  BY <1>1, <1>3 DEF Inv, TypeOK
<1> QED
  BY <1>1, <1>2, <1>3, <1>4 DEF Inv, Allowed, InHand, Counted, Books, ConfirmationIsTrue

LEMMA StepInv == Inv /\ [Next]_vars => Inv'
<1> SUFFICES ASSUME Inv, [Next]_vars
             PROVE  Inv'
  OBVIOUS
<1>1. CASE Call
  BY <1>1, CallKeepsInv
<1>2. ASSUME NEW heard \in Heard,
             Token(heard) \/ Create(heard) \/ Confirm(heard) \/ Search(heard)
      PROVE  Inv'
  BY <1>2, TokenKeepsInv, CreateKeepsInv, ConfirmKeepsInv, SearchKeepsInv
<1>3. CASE UNCHANGED vars
  BY <1>3 DEF vars, Inv, TypeOK, Allowed, InHand, Counted, Books, ConfirmationIsTrue
<1> QED
  BY <1>1, <1>2, <1>3 DEF Next, Done

-----------------------------------------------------------------------------
(* The scenes a search returns.                                             *)

LEMMA PageTypes ==
    ASSUME TypeOK
    PROVE  /\ args.pages \in Seq(Seq(Features)) /\ page \in DOMAIN args.pages
           /\ page \in Nat \ {0} /\ args.pages[page] \in Seq(Features)
           /\ CapLimit(args.limit) \in Nat \ {0}
<1>1. args.pages \in PageSets /\ args.limit \in Limits \ {0} /\ page \in 1..Len(args.pages)
  BY DEF TypeOK, Arguments
<1>2. args.pages \in Seq(Seq(Features))
  BY <1>1, ImageryAssumption
<1>3. page \in DOMAIN args.pages /\ page \in Nat \ {0} /\ args.pages[page] \in Seq(Features)
  BY <1>1, <1>2
<1>4. CapLimit(args.limit) \in Nat \ {0}
  BY <1>1, ImageryAssumption DEF CapLimit
<1> QED
  BY <1>2, <1>3, <1>4

LEMMA SceneShape ==
    ASSUME TypeOK
    PROVE  /\ \A s \in Scenes : /\ s = [page |-> s.page, at |-> s.at]
                               /\ s.page \in Nat \ {0} /\ s.at \in Nat \ {0}
                               /\ s.page \in DOMAIN args.pages
                               /\ s.at \in DOMAIN args.pages[s.page]
                               /\ args.pages[s.page][s.at] = "scene"
           /\ \A k \in DOMAIN args.pages[page] :
                 args.pages[page][k] = "scene" => [page |-> page, at |-> k] \in Scenes
<1>1. args.pages \in Seq(Seq(Features)) /\ page \in DOMAIN args.pages
  BY PageTypes
<1>2. ASSUME NEW s \in Scenes
      PROVE  /\ s = [page |-> s.page, at |-> s.at]
             /\ s.page \in Nat \ {0} /\ s.at \in Nat \ {0}
             /\ s.page \in DOMAIN args.pages
             /\ s.at \in DOMAIN args.pages[s.page]
             /\ args.pages[s.page][s.at] = "scene"
  <2>1. PICK p \in DOMAIN args.pages : s \in [page : {p}, at : DOMAIN args.pages[p]]
    BY DEF Scenes
  <2>2. args.pages[s.page][s.at] = "scene"
    BY DEF Scenes
  <2>3. s.page = p /\ s = [page |-> s.page, at |-> s.at] /\ s.at \in DOMAIN args.pages[p]
    BY <2>1
  <2>4. p \in Nat \ {0} /\ args.pages[p] \in Seq(Features)
    BY <1>1, <2>1
  <2>5. s.at \in Nat \ {0}
    BY <2>3, <2>4
  <2> QED
    BY <2>2, <2>3, <2>4, <2>5
<1>3. ASSUME NEW k \in DOMAIN args.pages[page], args.pages[page][k] = "scene"
      PROVE  [page |-> page, at |-> k] \in Scenes
  <2> DEFINE t == [page |-> page, at |-> k]
  <2>1. t \in [page : {page}, at : DOMAIN args.pages[page]] /\ t.page = page /\ t.at = k
    OBVIOUS
  <2> HIDE DEF t
  <2>2. t \in Scenes
    BY <1>1, <1>3, <2>1 DEF Scenes
  <2> QED
    BY <2>2 DEF t
<1> QED
  BY <1>2, <1>3

LEMMA AppendScene ==
    ASSUME NEW S, NEW s \in Seq(S), NEW x \in S
    PROVE  /\ Append(s, x) \in Seq(S)
           /\ Len(Append(s, x)) = Len(s) + 1 /\ Len(s) \in Nat
           /\ DOMAIN Append(s, x) = 1..Len(s) + 1 /\ DOMAIN s = 1..Len(s)
           /\ \A i \in 1..Len(s) : Append(s, x)[i] = s[i]
           /\ Append(s, x)[Len(s) + 1] = x
OBVIOUS

\* A feature looked at: taken, passed over, or out of reach.
LEMMA FeatureKeepsFirst ==
    ASSUME TypeOK, NEW k \in DOMAIN args.pages[page], NEW items,
           FirstUpTo(items, page, k - 1)
    PROVE  FirstUpTo(IF Room(items) /\ args.pages[page][k] = "scene"
                     THEN Append(items, [page |-> page, at |-> k]) ELSE items, page, k)
<1> DEFINE t == [page |-> page, at |-> k]
           kept == {items[i] : i \in DOMAIN items}
<1>1. k \in Nat \ {0} /\ page \in Nat \ {0} /\ CapLimit(args.limit) \in Nat \ {0}
  BY PageTypes
<1>2. /\ items \in Seq(Scenes) /\ Len(items) \in Nat /\ DOMAIN items = 1..Len(items)
      /\ \A i, j \in DOMAIN items : i < j => Earlier(items[i], items[j])
      /\ kept \subseteq InReach(page, k - 1)
      /\ \A u \in Scenes, v \in kept : Earlier(u, v) => u \in kept
      /\ Len(items) <= CapLimit(args.limit)
      /\ Room(items) => InReach(page, k - 1) \subseteq kept
  BY DEF FirstUpTo
<1>3. /\ InReach(page, k - 1) \subseteq InReach(page, k)
      /\ \A s \in InReach(page, k) \ InReach(page, k - 1) : s = t
  BY <1>1, SceneShape DEF InReach
<1>4. CASE Room(items) /\ args.pages[page][k] = "scene"
  <2> DEFINE more == Append(items, t)
             now == {more[i] : i \in DOMAIN more}
  <2>1. t \in Scenes /\ t.page = page /\ t.at = k
    BY <1>4, SceneShape
  <2> HIDE DEF t
  <2>2. /\ more \in Seq(Scenes) /\ Len(more) = Len(items) + 1
        /\ DOMAIN more = 1..Len(items) + 1
        /\ \A i \in 1..Len(items) : more[i] = items[i]
        /\ more[Len(items) + 1] = t
    BY <1>2, <2>1, AppendScene
  <2> HIDE DEF more
  <2>3. now = kept \cup {t}
    BY <1>2, <2>2
  <2>4. kept = InReach(page, k - 1)
    BY <1>2, <1>4
  <2>5. now = InReach(page, k)
    <3>1. t \in InReach(page, k)
      BY <1>1, <2>1 DEF InReach
    <3> QED
      BY <1>3, <2>3, <2>4, <3>1
  <2>6. \A s \in kept : Earlier(s, t)
    BY <1>1, <2>1, <2>4, SceneShape DEF InReach, Earlier
  <2>7. \A i, j \in DOMAIN more : i < j => Earlier(more[i], more[j])
    <3> SUFFICES ASSUME NEW i \in DOMAIN more, NEW j \in DOMAIN more, i < j
                 PROVE  Earlier(more[i], more[j])
      OBVIOUS
    <3>1. i \in 1..Len(items) /\ more[i] = items[i]
      BY <1>2, <2>2
    <3>2. CASE j = Len(items) + 1
      BY <1>2, <2>2, <2>6, <3>1, <3>2
    <3>3. CASE j # Len(items) + 1
      BY <1>2, <2>2, <3>1, <3>3
    <3> QED
      BY <3>2, <3>3
  <2>8. \A u \in Scenes, v \in now : Earlier(u, v) => u \in now
    BY <1>1, <2>5, SceneShape DEF InReach, Earlier
  <2>9. Len(more) <= CapLimit(args.limit)
    BY <1>1, <1>2, <1>4, <2>2 DEF Room
  <2>10. FirstUpTo(more, page, k)
    BY <2>2, <2>5, <2>7, <2>8, <2>9 DEF FirstUpTo
  <2> QED
    BY <1>4, <2>10 DEF more, t
<1>5. CASE ~(Room(items) /\ args.pages[page][k] = "scene")
  <2>1. Room(items) => InReach(page, k) \subseteq kept
    <3>1. Room(items) => t \notin Scenes
      BY <1>5, SceneShape
    <3> QED
      BY <1>2, <1>3, <3>1 DEF InReach
  <2>2. FirstUpTo(items, page, k)
    BY <1>2, <1>3, <2>1 DEF FirstUpTo
  <2> QED
    BY <1>5, <2>2
<1> QED
  BY <1>4, <1>5

\* The loop over the page's features ends with the first scenes up to its last.
LEMMA CollectingMeans ==
    ASSUME TypeOK, found \in Seq(Scenes)
    PROVE  /\ Collecting[0] = found
           /\ \A k \in 1..Len(args.pages[page]) :
                 Collecting[k] = IF Room(Collecting[k - 1]) /\ args.pages[page][k] = "scene"
                                 THEN Append(Collecting[k - 1], [page |-> page, at |-> k])
                                 ELSE Collecting[k - 1]
<1> DEFINE len == Len(args.pages[page])
           Found == Seq(Scenes)
           Next1(items, k) == IF Room(items) /\ args.pages[page][k] = "scene"
                              THEN Append(items, [page |-> page, at |-> k]) ELSE items
           looked == [x \in Found \X (1..len) |-> Next1(x[1], x[2])]
           Body(g) == [k \in 0..len |-> IF k = 0 THEN found
                                      ELSE IF Room(g[k - 1]) /\ args.pages[page][k] = "scene"
                                      THEN Append(g[k - 1], [page |-> page, at |-> k])
                                      ELSE g[k - 1]]
<1>1. len \in Nat /\ DOMAIN args.pages[page] = 1..len
  BY PageTypes
<1>2. \A items \in Found, k \in 1..len : Next1(items, k) \in Found
  <2> SUFFICES ASSUME NEW items \in Found, NEW k \in 1..len PROVE Next1(items, k) \in Found
    OBVIOUS
  <2>1. args.pages[page][k] = "scene" => [page |-> page, at |-> k] \in Scenes
    BY <1>1, SceneShape
  <2> QED
    BY <2>1, AppendScene
<1>3. looked \in [Found \X (1..len) -> Found] /\ \A items \in Found, k \in 1..len : looked[<<items, k>>] = Next1(items, k)
  BY <1>2
<1> HIDE DEF looked
<1>4. PICK f \in [0..len -> Found] : Recurs(f, len, found, looked)
  <2>1. found \in Found
    OBVIOUS
  <2>2. len \in Nat
    BY <1>1
  <2>3. looked \in [Found \X (1..len) -> Found]
    BY <1>3
  <2> HIDE DEF len, Found
  <2> QED
    BY <2>1, <2>2, <2>3, RecursionUpTo
<1>5. \A k \in 1..len : f[k] = Next1(f[k - 1], k)
  <2> SUFFICES ASSUME NEW k \in 1..len PROVE f[k] = Next1(f[k - 1], k)
    OBVIOUS
  <2>1. k - 1 \in 0..len
    BY <1>1
  <2> QED
    BY <1>3, <1>4, <2>1 DEF Recurs
<1>6. f = Body(f)
  <2>1. \A k \in 0..len : f[k] = Body(f)[k]
    BY <1>1, <1>4, <1>5 DEF Recurs
  <2>2. f = [k \in 0..len |-> f[k]]
    BY <1>4
  <2> QED
    BY <2>1, <2>2
<1>7. Collecting = Body(Collecting)
  BY <1>6, Zenon DEF Collecting
<1> HIDE DEF len
<1>8. Collecting[0] = found
  BY <1>1, <1>7
<1>9. \A k \in 1..len : Collecting[k] = Next1(Collecting[k - 1], k)
  <2> SUFFICES ASSUME NEW k \in 1..len PROVE Collecting[k] = Next1(Collecting[k - 1], k)
    OBVIOUS
  <2>1. k \in 0..len /\ k # 0
    BY <1>1
  <2>2. Collecting[k] = Body(Collecting)[k]
    BY <1>7
  <2> QED
    BY <2>1, <2>2
<1> QED
  BY <1>8, <1>9 DEF len

LEMMA PageCollected ==
    ASSUME TypeOK, FirstUpTo(found, page, 0)
    PROVE  FirstUpTo(Collecting[Len(args.pages[page])], page, Len(args.pages[page]))
<1> DEFINE n == Len(args.pages[page])
           T == {k \in 0..n : FirstUpTo(Collecting[k], page, k)}
<1>1. n \in Nat /\ DOMAIN args.pages[page] = 1..n
  BY PageTypes
<1>2. found \in Seq(Scenes)
  BY DEF FirstUpTo
<1>3. 0 \in T
  BY <1>1, <1>2, CollectingMeans
<1>4. \A k \in 1..n : k - 1 \in T => k \in T
  <2> SUFFICES ASSUME NEW k \in 1..n, k - 1 \in T PROVE k \in T
    OBVIOUS
  <2>1. Collecting[k] = IF Room(Collecting[k - 1]) /\ args.pages[page][k] = "scene"
                        THEN Append(Collecting[k - 1], [page |-> page, at |-> k])
                        ELSE Collecting[k - 1]
    BY <1>2, CollectingMeans
  <2>2. FirstUpTo(Collecting[k], page, k)
    BY <1>1, <2>1, FeatureKeepsFirst
  <2> QED
    BY <2>2
<1>5. n \in T
  <2> HIDE DEF T
  <2>1. 0..n \subseteq T
    BY <1>1, <1>3, <1>4, UpToInduction
  <2> QED
    BY <1>1, <2>1
<1> QED
  BY <1>5

\* What FirstScenes says of the scenes in hand, from any place they were taken up to.
LEMMA FirstUpToIsFirst ==
    ASSUME NEW p, NEW k, FirstUpTo(found, p, k), page <= MaxPages,
           step = "search" => Room(found)
    PROVE  FirstScenes
BY DEF FirstUpTo, InReach, FirstScenes, Room

LEMMA NothingYet ==
    ASSUME TypeOK, found = <<>>, page = 1
    PROVE  FirstUpTo(found, page, 0) /\ Room(found) /\ page <= MaxPages
<1>1. found \in Seq(Scenes) /\ DOMAIN found = {} /\ Len(found) = 0
  OBVIOUS
<1>2. InReach(page, 0) = {}
  BY SceneShape DEF InReach
<1>3. Room(found) /\ Len(found) <= CapLimit(args.limit)
  BY <1>1, PageTypes DEF Room
<1>4. page <= MaxPages
  BY ImageryAssumption
<1> QED
  BY <1>1, <1>2, <1>3, <1>4 DEF FirstUpTo

LEMMA InitCollected == Init => Collected
<1> SUFFICES ASSUME Init PROVE Collected
  OBVIOUS
<1>1. TypeOK /\ found = <<>> /\ page = 1 /\ step = "called"
  BY InitInv DEF Init, Inv
<1> QED
  BY <1>1, NothingYet, FirstUpToIsFirst DEF Collected

LEMMA CollectedNext ==
    ASSUME NEW k, FirstUpTo(found, page, k)', (page <= MaxPages)',
           (step = "search")' => k = 0 /\ Room(found)',
           step' \in {"called", "token", "create", "confirm"} => found' = <<>> /\ page' = 1
    PROVE  Collected'
<1>1. FirstScenes'
  BY DEF FirstUpTo, InReach, FirstScenes, Room
<1> QED
  BY <1>1 DEF Collected

LEMMA SearchCollects ==
    ASSUME Inv, Collected, NEW heard \in Heard, Search(heard)
    PROVE  Collected'
<1>1. step = "search" /\ UNCHANGED args /\ TypeOK /\ TypeOK'
  BY SearchKeepsInv DEF Search, Inv
<1>2. FirstUpTo(found, page, 0) /\ Room(found) /\ page <= MaxPages
  BY <1>1 DEF Collected, FirstScenes, Room
<1>3. CASE UNCHANGED <<found, page>>
  <2>1. FirstUpTo(found, page, 0)' /\ Room(found)' /\ (page <= MaxPages)'
    BY <1>1, <1>2, <1>3 DEF FirstUpTo, InReach, Scenes, Room
  <2>2. step' \in {"search", "done"}
    BY <1>1 DEF Search, Again, Raise
  <2> QED
    BY <2>1, <2>2, CollectedNext
<1>4. CASE heard = "good"
  <2> DEFINE n == Len(args.pages[page])
  <2>1. found' = Collecting[n]
    BY <1>4 DEF Search, Featureless
  <2>2. FirstUpTo(found', page, n)
    BY <1>1, <1>2, <2>1, PageCollected
  <2>3. CASE page' = page + 1 /\ step' = step /\ FollowNext /\ Room(found')
    <3>1. InReach(page, n) = InReach(page + 1, 0)
      BY <1>1, PageTypes, SceneShape DEF InReach
    <3>2. FirstUpTo(found', page', 0)
      BY <2>2, <2>3, <3>1 DEF FirstUpTo
    <3>3. FirstUpTo(found, page, 0)' /\ Room(found)'
      BY <1>1, <2>3, <3>2 DEF FirstUpTo, InReach, Scenes, Room
    <3>4. page' <= MaxPages
      BY <1>1, <2>3, ImageryAssumption, PageTypes DEF FollowNext
    <3> QED
      BY <1>1, <2>3, <3>3, <3>4, CollectedNext
  <2>4. CASE page' = page /\ step' = "done"
    <3>1. FirstUpTo(found', page', n)
      BY <2>2, <2>4
    <3>2. PICK k : FirstUpTo(found', page', k)
      BY <3>1
    <3>3. FirstUpTo(found, page, k)'
      BY <1>1, <3>2 DEF FirstUpTo, InReach, Scenes, Room
    <3> QED
      BY <1>2, <2>4, <3>3, CollectedNext
  <2> QED
    BY <1>4, <2>3, <2>4 DEF Search, Featureless, Room
<1> QED
  BY <1>3, <1>4 DEF Search

\* The other requests are made before the search.
LEMMA OthersCollectNothing ==
    ASSUME Inv, Inv', Collected, UNCHANGED <<args, found, page>>,
           \/ step \in {"called", "token", "create", "confirm"}
           \/ step' = step
    PROVE  Collected'
<1>1. CASE step' = step
  BY <1>1 DEF Collected, FirstScenes, FirstUpTo, InReach, Scenes, Room
<1>2. CASE step \in {"called", "token", "create", "confirm"}
  <2>1. TypeOK /\ found = <<>> /\ page = 1
    BY <1>2 DEF Inv, Collected
  <2>2. FirstUpTo(found, page, 0) /\ Room(found) /\ page <= MaxPages
    BY <2>1, NothingYet
  <2>3. FirstUpTo(found, page, 0)' /\ Room(found)' /\ (page <= MaxPages)'
    BY <2>2 DEF FirstUpTo, InReach, Scenes, Room
  <2> QED
    BY <2>1, <2>3, CollectedNext
<1> QED
  BY <1>1, <1>2

LEMMA StepCollects == Inv /\ Collected /\ [Next]_vars => Collected'
<1> SUFFICES ASSUME Inv, Collected, [Next]_vars
             PROVE  Collected'
  OBVIOUS
<1>1. Inv'
  BY StepInv
<1>2. CASE Call
  BY <1>1, <1>2, OthersCollectNothing DEF Call
<1>3. ASSUME NEW heard \in Heard, Token(heard) \/ Create(heard) \/ Confirm(heard)
      PROVE  Collected'
  BY <1>1, <1>3, OthersCollectNothing DEF Token, Create, Confirm
<1>4. ASSUME NEW heard \in Heard, Search(heard)
      PROVE  Collected'
  BY <1>4, SearchCollects
<1>5. CASE UNCHANGED vars
  BY <1>1, <1>5, OthersCollectNothing DEF vars
<1> QED
  BY <1>2, <1>3, <1>4, <1>5 DEF Next, Done

-----------------------------------------------------------------------------

\* Types; in particular a call never leaves more orders than it has attempts.
THEOREM ImageryTypes == Spec => []TypeOK
<1>1. Inv => TypeOK
  BY DEF Inv
<1> QED
  BY <1>1, InitInv, StepInv, PTL DEF Spec

\* Nothing is spent that the caller did not confirm.
THEOREM OnlyOnConfirm == Spec => []SpentOnlyOnConfirm
<1>1. Inv => SpentOnlyOnConfirm
  <2> SUFFICES ASSUME Inv, NEW i \in DOMAIN orders, orders[i]
               PROVE  args.tool = "order" /\ args.confirm
    BY DEF SpentOnlyOnConfirm, Spent
  <2>1. orders \in Seq(BOOLEAN)
    BY DEF Inv, TypeOK
  <2>2. orders[i] = TRUE /\ orders # <<>>
    BY <2>1
  <2> QED
    BY <2>2, ArgumentTypes DEF Inv, Allowed, Books
<1> QED
  BY <1>1, InitInv, StepInv, PTL DEF Spec

\* A confirmation is true of the provider's books.
THEOREM ConfirmationsAreTrue == Spec => []ConfirmationIsTrue
<1>1. Inv => ConfirmationIsTrue
  BY DEF Inv, Books
<1> QED
  BY <1>1, InitInv, StepInv, PTL DEF Spec

\* Every order beside the one in hand goes back to an attempt that was not
\* answered, and with Maxar none of them is spent.
THEOREM OrdersCounted == Spec => []OrdersAccountedFor
<1>1. Inv => OrdersAccountedFor
  <2> SUFFICES ASSUME Inv
               PROVE  OrdersAccountedFor
    OBVIOUS
  <2>1. orders \in Seq(BOOLEAN)
    BY DEF Inv, TypeOK
  <2>2. \A i \in DOMAIN orders : orders[i] => orders[i] = TRUE
    BY <2>1
  <2>3. args.provider = "maxar" => Spent \subseteq {held}
    BY <2>2 DEF Inv, Books, Spent
  <2> QED
    BY <2>3 DEF Inv, Counted, OrdersAccountedFor
<1> QED
  BY <1>1, InitInv, StepInv, PTL DEF Spec

\* A search returns the first scenes of the provider's pages, in their order and
\* none left out, however many pages and features there are.
THEOREM FirstScenesReturned == Spec => []FirstScenes
<1>1. Collected => FirstScenes
  BY DEF Collected
<1> QED
  BY <1>1, InitInv, StepInv, InitCollected, StepCollects, PTL DEF Spec

-----------------------------------------------------------------------------
(* The tools behind ServerCalls: a chain of sources, and a list of stages.  *)

\* The position found is the first there is, and 0 means that there is none.
LEMMA DecisiveFirst ==
    ASSUME NEW S, NEW chain \in Seq(S), NEW heard
    PROVE  LET end == FirstPos(chain, LAMBDA s : Decisive(heard[s]))
           IN  /\ end \in 0..Len(chain)
               /\ end = 0 => \A i \in DOMAIN chain : ~Decisive(heard[chain[i]])
               /\ end # 0 => /\ end \in DOMAIN chain /\ Decisive(heard[chain[end]])
                             /\ \A j \in 1..(end - 1) : ~Decisive(heard[chain[j]])
<1> DEFINE hits == {i \in DOMAIN chain : Decisive(heard[chain[i]])}
           end == IF hits = {} THEN 0 ELSE Min(hits)
<1>1. Len(chain) \in Nat /\ DOMAIN chain = 1..Len(chain)
  OBVIOUS
<1>2. FirstPos(chain, LAMBDA s : Decisive(heard[s])) = end
  BY DEF FirstPos
<1>3. CASE hits = {}
  BY <1>1, <1>2, <1>3
<1>4. CASE hits # {}
  <2>1. hits \in SUBSET Nat
    BY <1>1
  <2>2. end \in hits /\ \A y \in hits : end <= y
    <3> HIDE DEF hits
    <3> QED
      BY <1>4, <2>1, MinIsLeast
  <2>3. end \in 1..Len(chain) /\ Decisive(heard[chain[end]])
    BY <1>1, <2>2
  <2>4. ASSUME NEW j \in 1..(end - 1) PROVE ~Decisive(heard[chain[j]])
    <3>1. j \in DOMAIN chain /\ ~(end <= j)
      BY <1>1, <2>3
    <3> QED
      BY <2>2, <3>1
  <2>5. end \in DOMAIN chain /\ end # 0 /\ end \in 0..Len(chain)
    BY <1>1, <2>3
  <2> HIDE DEF end
  <2> QED
    BY <1>2, <2>3, <2>4, <2>5
<1> QED
  BY <1>3, <1>4

LEMMA TakeFirst ==
    ASSUME NEW S, NEW chain \in Seq(S), NEW n \in DOMAIN chain
    PROVE  LET sent == Take(chain, n) IN Len(sent) = n /\ sent[n] = chain[n]
<1>1. Take(chain, n) = SubSeq(chain, 1, n)
  BY DEF Take
<1> QED
  BY <1>1

\* The loop over a chain of sources is honest, whatever the sources and what they say.
LEMMA ChainHonest ==
    ASSUME NEW S, NEW chain \in Seq(S), NEW heard, NEW nothing,
           nothing # "result", \A s \in S : heard[s] # "result"
    PROVE  ChainIsHonest(AskInTurn(chain, heard, nothing), chain, heard, nothing)
<1> DEFINE end == FirstPos(chain, LAMBDA s : Decisive(heard[s]))
           missed == {i \in DOMAIN chain : heard[chain[i]] \in Unavailable}
           outcome == AskInTurn(chain, heard, nothing)
           Passed(i) == heard[chain[i]] \in Unavailable \cup {"none"}
           First(i) == heard[chain[i]] = "found" /\ \A j \in 1..(i - 1) : Passed(j)
           absent == \A i \in DOMAIN chain : heard[chain[i]] = "none"
<1>1. Len(chain) \in Nat /\ DOMAIN chain = 1..Len(chain)
      /\ \A i \in DOMAIN chain : chain[i] \in S /\ heard[chain[i]] # "result"
  OBVIOUS
<1>2. \A i : Decisive(heard[chain[i]]) <=> ~Passed(i)
  BY DEF Decisive
<1>3. /\ end \in 0..Len(chain)
      /\ end = 0 => \A i \in DOMAIN chain : Passed(i)
      /\ end # 0 => /\ end \in DOMAIN chain /\ ~Passed(end)
                    /\ \A j \in 1..(end - 1) : Passed(j)
  BY <1>2, DecisiveFirst
<1>4. outcome = IF end # 0
                THEN IF heard[chain[end]] = "found"
                     THEN Returned(<<chain[end]>>, Take(chain, end))
                     ELSE Failed(heard[chain[end]], Take(chain, end))
                ELSE Failed(IF missed # {} THEN heard[chain[Max(missed)]] ELSE nothing, chain)
  BY DEF AskInTurn
<1>5. "found" \notin Unavailable \cup {"none"} /\ "result" \notin Unavailable /\ "none" \notin Unavailable
  BY DEF Unavailable
<1> HIDE DEF end, outcome
<1>6. CASE end # 0 /\ heard[chain[end]] = "found"
  <2>1. /\ outcome.reply = "result" /\ outcome.value = <<chain[end]>>
        /\ outcome.sent = Take(chain, end)
    BY <1>4, <1>6 DEF Returned
  <2>2. First(end) /\ end \in DOMAIN chain
    BY <1>3, <1>6
  <2>3. ~absent
    BY <1>6, <2>2
  <2>4. outcome.value = <<outcome.sent[Len(outcome.sent)]>>
    BY <2>1, <2>2, TakeFirst
  <2> QED
    BY <2>1, <2>2, <2>3, <2>4 DEF ChainIsHonest, outcome
<1>7. CASE end # 0 /\ heard[chain[end]] # "found"
  <2>1. outcome.reply = heard[chain[end]] /\ end \in DOMAIN chain
    BY <1>3, <1>4, <1>7 DEF Failed
  <2>2. outcome.reply # "result" /\ ~absent
    BY <1>1, <1>3, <1>7, <2>1
  <2>3. \A i \in DOMAIN chain : ~First(i)
    <3> SUFFICES ASSUME NEW i \in DOMAIN chain, First(i) PROVE FALSE
      OBVIOUS
    <3>1. ~Passed(i)
      BY <1>5
    <3>2. i \in Nat /\ end \in Nat
      BY <1>1, <1>3
    <3>3. CASE i < end
      <4>1. i \in 1..(end - 1)
        BY <1>1, <3>2, <3>3
      <4> QED
        BY <1>3, <1>7, <3>1, <4>1
    <3>4. CASE i = end
      BY <1>7, <3>4
    <3>5. CASE end < i
      <4>1. end \in 1..(i - 1)
        BY <1>7, <3>2, <3>5
      <4> QED
        BY <1>3, <1>7, <4>1
    <3> QED
      BY <3>2, <3>3, <3>4, <3>5
  <2> QED
    BY <2>1, <2>2, <2>3 DEF ChainIsHonest, outcome
<1>8. CASE end = 0 /\ missed # {}
  <2>1. Max(missed) \in missed
    <3>1. missed \in SUBSET 1..Len(chain)
      BY <1>1
    <3> HIDE DEF missed
    <3> QED
      BY <1>1, <1>8, <3>1, MaxIsThere
  <2>2. outcome.reply = heard[chain[Max(missed)]] /\ Max(missed) \in DOMAIN chain
    BY <1>4, <1>8, <2>1 DEF Failed
  <2>3. outcome.reply # "result" /\ ~absent
    BY <1>1, <1>5, <2>1, <2>2
  <2>4. \A i \in DOMAIN chain : ~First(i)
    BY <1>3, <1>5, <1>8
  <2> QED
    BY <2>2, <2>3, <2>4 DEF ChainIsHonest, outcome
<1>9. CASE end = 0 /\ missed = {}
  <2>1. outcome.reply = nothing
    BY <1>4, <1>9 DEF Failed
  <2>2. absent
    BY <1>3, <1>9
  <2>3. \A i \in DOMAIN chain : ~First(i)
    BY <1>5, <2>2
  <2> QED
    BY <2>1, <2>2, <2>3 DEF ChainIsHonest, outcome
<1> QED
  BY <1>6, <1>7, <1>8, <1>9

Stages(W) == [asks : W, says : W]
Also(asked, who) == IF who = "nobody" THEN asked ELSE Append(asked, who)

LEMMA StageWords ==
    ASSUME NEW W, NEW stages \in Seq(Stages(W))
    PROVE  /\ Len(stages) \in Nat /\ DOMAIN stages = 1..Len(stages)
           /\ \A k \in 1..Len(stages) : stages[k].asks \in W /\ stages[k].says \in W
<1>1. Len(stages) \in Nat /\ DOMAIN stages = 1..Len(stages)
      /\ \A k \in 1..Len(stages) : stages[k] \in Stages(W)
  OBVIOUS
<1>2. \A stage \in Stages(W) : stage.asks \in W /\ stage.says \in W
  BY DEF Stages
<1> QED
  BY <1>1, <1>2

LEMMA AppendName ==
    ASSUME NEW S, NEW names \in Seq(S), NEW name \in S
    PROVE  Append(names, name) \in Seq(S) /\ Append(names, name) # <<>>
<1>1. Append(names, name) \in Seq(S)
  OBVIOUS
<1>2. Len(Append(names, name)) = Len(names) + 1 /\ Len(names) \in Nat
  OBVIOUS
<1>3. Len(<<>>) = 0
  OBVIOUS
<1> QED
  BY <1>1, <1>2, <1>3

\* Sequences of one element, of two, and of one and two.
LEMMA FewElements ==
    ASSUME NEW S, NEW a \in S, NEW b \in S, NEW c \in S
    PROVE  /\ <<a>> \in Seq(S) /\ Len(<<a>>) = 1 /\ <<a>>[1] = a
           /\ <<a, b>> \in Seq(S)
           /\ <<a, b, c>> \in Seq(S) /\ Len(<<a, b, c>>) = 3
           /\ <<a, b, c>>[1] = a /\ <<a, b, c>>[2] = b /\ <<a, b, c>>[3] = c
<1>1. <<a>> \in Seq(S) /\ Len(<<a>>) = 1 /\ <<a>>[1] = a
  OBVIOUS
<1>2. <<a, b>> \in Seq(S)
  OBVIOUS
<1>3. /\ <<a, b, c>> \in Seq(S) /\ Len(<<a, b, c>>) = 3
      /\ <<a, b, c>>[1] = a /\ <<a, b, c>>[2] = b /\ <<a, b, c>>[3] = c
  OBVIOUS
<1> QED
  BY <1>1, <1>2, <1>3

LEMMA OneAndTwo ==
    ASSUME NEW S, NEW a \in S, NEW b \in S, NEW c \in S
    PROVE  <<a>> \o <<b, c>> = <<a, b, c>>
<1> DEFINE u == <<a>>
           v == <<b, c>>
           w == <<a, b, c>>
           x == u \o v
<1>1. /\ u \in Seq(S) /\ v \in Seq(S) /\ w \in Seq(S)
      /\ Len(u) = 1 /\ Len(v) = 2 /\ Len(w) = 3
      /\ u[1] = a /\ v[1] = b /\ v[2] = c /\ w[1] = a /\ w[2] = b /\ w[3] = c
  BY FewElements
<1> HIDE DEF u, v, w
<1>2. /\ x \in Seq(S) /\ Len(x) = Len(u) + Len(v)
      /\ \A i \in 1..(Len(u) + Len(v)) :
            x[i] = IF i <= Len(u) THEN u[i] ELSE v[i - Len(u)]
  BY <1>1, ConcatProperties, Zenon
<1> HIDE DEF x
<1>3. Len(x) = 3 /\ \A i \in 1..3 : x[i] = IF i <= 1 THEN u[i] ELSE v[i - 1]
  BY <1>1, <1>2
<1>4. x[1] = w[1] /\ x[2] = w[2] /\ x[3] = w[3]
  BY <1>1, <1>3
<1>5. \A i \in 1..3 : x[i] = w[i]
  BY <1>4
<1>6. x = w
  BY <1>1, <1>2, <1>3, <1>5, SeqEqual
<1> QED
  BY <1>6 DEF u, v, w, x

\* What Asked is, stage by stage.
LEMMA AskedMeans ==
    ASSUME NEW W, NEW stages \in Seq(Stages(W))
    PROVE  /\ Asked(stages, 0) = <<>>
           /\ \A k \in 1..Len(stages) :
                 Asked(stages, k) = Also(Asked(stages, k - 1), stages[k].asks)
           /\ \A k \in 0..Len(stages) : Asked(stages, k) \in Seq(W)
<1> DEFINE len == Len(stages)
           Names == Seq(W)
           who == [k \in 1..len |-> stages[k].asks]
           looked == [x \in Names \X (1..len) |-> Also(x[1], who[x[2]])]
           Body(g) == [k \in 0..len |-> IF k = 0 THEN <<>> ELSE Also(g[k - 1], stages[k].asks)]
           asks == CHOOSE g : g = Body(g)
<1>1. len \in Nat /\ \A k \in 1..len : who[k] = stages[k].asks /\ who[k] \in W
  BY StageWords
<1>2. \A asked \in Names, k \in 1..len : Also(asked, who[k]) \in Names
  BY <1>1, AppendName DEF Also
<1>3. looked \in [Names \X (1..len) -> Names]
      /\ \A asked \in Names, k \in 1..len : looked[<<asked, k>>] = Also(asked, who[k])
  BY <1>2
<1>4. \A n : Asked(stages, n) = asks[n]
  BY Zenon DEF Asked, Also
<1> HIDE DEF looked, who, len, Names
<1>5. <<>> \in Names
  BY DEF Names
<1>6. PICK f \in [0..len -> Names] : Recurs(f, len, <<>>, looked)
  BY <1>1, <1>3, <1>5, RecursionUpTo
<1>7. \A k \in 1..len : f[k] = Also(f[k - 1], who[k])
  <2> SUFFICES ASSUME NEW k \in 1..len PROVE f[k] = Also(f[k - 1], who[k])
    OBVIOUS
  <2>1. k - 1 \in 0..len
    BY <1>1
  <2> QED
    BY <1>3, <1>6, <2>1 DEF Recurs
<1>8. f = Body(f)
  <2>1. \A k \in 0..len : f[k] = Body(f)[k]
    BY <1>1, <1>6, <1>7 DEF Recurs
  <2>2. f = [k \in 0..len |-> f[k]]
    BY <1>6
  <2> QED
    BY <2>1, <2>2
<1>9. asks = Body(asks)
  BY <1>8, Zenon
<1> HIDE DEF asks
<1>10. asks[0] = <<>>
  BY <1>1, <1>9
<1>11. \A k \in 1..len : asks[k] = Also(asks[k - 1], who[k])
  <2> SUFFICES ASSUME NEW k \in 1..len PROVE asks[k] = Also(asks[k - 1], who[k])
    OBVIOUS
  <2>1. k \in 0..len /\ k # 0
    BY <1>1
  <2>2. asks[k] = Body(asks)[k]
    BY <1>9
  <2>3. Body(asks)[k] = Also(asks[k - 1], stages[k].asks)
    BY <2>1
  <2>4. who[k] = stages[k].asks
    BY <1>1
  <2> QED
    BY <2>2, <2>3, <2>4, Zenon
<1>12. \A k \in 0..len : asks[k] \in Names
  <2> DEFINE T == {k \in 0..len : asks[k] \in Names}
  <2>1. 0 \in T
    BY <1>1, <1>5, <1>10
  <2>2. \A k \in 1..len : k - 1 \in T => k \in T
    BY <1>1, <1>2, <1>11
  <2> HIDE DEF T
  <2>3. 0..len \subseteq T
    BY <1>1, <2>1, <2>2, UpToInduction
  <2> QED
    BY <2>3 DEF T
<1> QED
  BY <1>1, <1>4, <1>10, <1>11, <1>12 DEF len, Names

\* Nobody was asked exactly when no stage asks anybody.
LEMMA NobodyAsked ==
    ASSUME NEW W, NEW stages \in Seq(Stages(W))
    PROVE  Asked(stages, Len(stages)) = <<>> <=>
              \A k \in 1..Len(stages) : stages[k].asks = "nobody"
<1> DEFINE len == Len(stages)
           asked == [k \in 0..len |-> Asked(stages, k)]
           quiet == {k \in 1..len : stages[k].asks = "nobody"}
           T == {k \in 0..len : asked[k] = <<>> <=> 1..k \subseteq quiet}
<1>1. len \in Nat /\ \A k \in 1..len : k \in 0..len /\ k - 1 \in 0..len
  BY StageWords
<1>2. asked[0] = <<>> /\ asked[len] = Asked(stages, len)
  <2>1. 0 \in 0..len /\ len \in 0..len
    BY <1>1
  <2> HIDE DEF len
  <2> QED
    BY <2>1, AskedMeans
<1>3. \A k \in 1..len : asked[k] = <<>> <=> asked[k - 1] = <<>> /\ k \in quiet
  <2> SUFFICES ASSUME NEW k \in 1..len
               PROVE  asked[k] = <<>> <=> asked[k - 1] = <<>> /\ k \in quiet
    OBVIOUS
  <2>1. /\ asked[k] = Also(asked[k - 1], stages[k].asks)
        /\ asked[k - 1] \in Seq(W) /\ stages[k].asks \in W
    BY <1>1, AskedMeans, StageWords
  <2>2. k \in quiet <=> stages[k].asks = "nobody"
    OBVIOUS
  <2> HIDE DEF asked, quiet
  <2>3. Append(asked[k - 1], stages[k].asks) # <<>>
    BY <2>1, AppendName, Zenon
  <2> QED
    BY <2>1, <2>2, <2>3, Zenon DEF Also
<1> HIDE DEF len, asked, quiet
<1>4. 0 \in T
  <2>1. 1..0 \subseteq quiet /\ 0 \in 0..len
    BY <1>1
  <2> QED
    BY <1>2, <2>1
<1>5. \A k \in 1..len : k - 1 \in T => k \in T
  <2> SUFFICES ASSUME NEW k \in 1..len, k - 1 \in T PROVE k \in T
    OBVIOUS
  <2>1. 1..k \subseteq quiet <=> 1..(k - 1) \subseteq quiet /\ k \in quiet
    BY <1>1
  <2> QED
    BY <1>1, <1>3, <2>1
<1> HIDE DEF T
<1>6. 0..len \subseteq T
  BY <1>1, <1>4, <1>5, UpToInduction
<1>7. asked[len] = <<>> <=> 1..len \subseteq quiet
  <2>1. len \in 0..len
    BY <1>1
  <2> QED
    BY <1>6, <2>1 DEF T
<1>8. 1..len \subseteq quiet <=> \A k \in 1..len : stages[k].asks = "nobody"
  BY Zenon DEF quiet
<1> QED
  BY <1>2, <1>7, <1>8 DEF len

\* A tool returns its value exactly when all its stages say "ok".
LEMMA StagedReturns ==
    ASSUME NEW W, NEW stages \in Seq(Stages(W)), NEW value,
           \A i \in DOMAIN stages : stages[i].says # "result"
    PROVE  /\ Staged(stages, value).reply = "result" <=>
                 \A i \in DOMAIN stages : stages[i].says = "ok"
           /\ Staged(stages, value).reply = "result" =>
                 /\ Staged(stages, value).value = value
                 /\ Staged(stages, value).sent = Asked(stages, Len(stages))
<1> DEFINE hits == {i \in DOMAIN stages : stages[i].says # "ok"}
           bad == IF hits = {} THEN 0 ELSE Min(hits)
<1>1. Staged(stages, value) = IF bad = 0 THEN Returned(value, Asked(stages, Len(stages)))
                              ELSE Failed(stages[bad].says, Asked(stages, bad))
  BY DEF Staged, FirstPos
<1>2. CASE hits = {}
  <2>1. Staged(stages, value) = Returned(value, Asked(stages, Len(stages)))
    BY <1>1, <1>2
  <2> QED
    BY <1>2, <2>1 DEF Returned
<1>3. CASE hits # {}
  <2>1. hits \in SUBSET Nat /\ \A i \in DOMAIN stages : i # 0
    OBVIOUS
  <2>2. bad \in hits
    <3> HIDE DEF hits
    <3> QED
      BY <1>3, <2>1, MinIsLeast
  <2>3. Staged(stages, value).reply = stages[bad].says
    BY <1>1, <2>1, <2>2 DEF Failed
  <2> QED
    BY <1>3, <2>2, <2>3
<1> QED
  BY <1>2, <1>3

-----------------------------------------------------------------------------
(* Geocoding, routes, isochrones and delegation.                            *)

\* No reply of a source is taken for the word that a tool's own answer begins with.
LEMMA ParsedIsNoResult ==
    ASSUME NEW body \in Brought, NEW lax
    PROVE  Parsed(body, lax) # "result"
<1>1. Understood(body) # "result"
  BY DEF Brought, Understood, ClientErrors, Payloads
<1> QED
  BY <1>1 DEF Parsed

\* A chain behind a look at the arguments.
LEMMA GuardedChain ==
    ASSUME NEW S, NEW chain \in Seq(S), NEW heard, NEW nothing, NEW wrong, NEW looked,
           nothing # "result", \A s \in S : heard[s] # "result",
           Guarded(wrong, looked, chain, heard, nothing).reply # "validation"
    PROVE  /\ Guarded(wrong, looked, chain, heard, nothing) # Refused
           /\ ChainIsHonest(Guarded(wrong, looked, chain, heard, nothing), chain, heard, nothing)
<1>1. Refused.reply = "validation"
  BY DEF Refused, Failed
<1>2. Guarded(wrong, looked, chain, heard, nothing) = AskInTurn(chain, heard, nothing)
  BY <1>1 DEF Guarded
<1> QED
  BY <1>1, <1>2, ChainHonest

LEMMA GeocodersAreHonest ==
    ASSUME NEW in \in GeocodeInputs, in.source # "amazon-location" \/ in.key = TRUE
    PROVE  /\ Geocode(in).reply # "validation" =>
                 ChainIsHonest(Geocode(in), Chosen(in.source), MatchesOf(in), "not-found")
           /\ ReverseGeocode(in).reply # "validation" =>
                 ChainIsHonest(ReverseGeocode(in), Chosen(in.source), PlacesOf(in), "not-found")
<1>1. /\ in.source \in {"default", "photon", "amazon-location"}
      /\ in.answers \in [Geocoders -> Brought \ {"refused"}] /\ in.key \in BOOLEAN
  BY DEF GeocodeInputs
<1>2. Chosen(in.source) \in Seq(Geocoders)
  <2>1. \A S, a, b : a \in S /\ b \in S => <<a>> \in Seq(S) /\ <<a, b>> \in Seq(S)
    BY FewElements
  <2>2. {"nominatim", "photon", "amazon-location"} = Geocoders
    BY DEF Geocoders
  <2>3. CASE in.source = "default"
    <3>1. <<"nominatim", "photon">> \in Seq(Geocoders)
      BY <2>1, <2>2, Zenon
    <3> QED
      BY <2>3, <3>1, Zenon DEF Chosen, DefaultChain
  <2>4. CASE in.source # "default"
    <3>1. Chosen(in.source) = <<in.source>> /\ in.source \in Geocoders
      BY <1>1, <2>4 DEF Chosen, Geocoders
    <3> QED
      BY <2>1, <3>1, Zenon
  <2> QED
    BY <2>3, <2>4
<1>3. \A s \in Geocoders : MatchesOf(in)[s] # "result" /\ PlacesOf(in)[s] # "result"
  BY <1>1, ParsedIsNoResult DEF MatchesOf, PlacesOf, ParsedMatch, ParsedReverse
<1>4. \A outcome : WithKey(outcome, in.source, in.key) = outcome
  BY <1>1 DEF WithKey
<1> QED
  BY <1>2, <1>3, <1>4, GuardedChain DEF Geocode, ReverseGeocode

LEMMA RoutersAreHonest ==
    ASSUME NEW in \in RouteInputs
    PROVE  /\ FindRoute(in).reply # "validation" =>
                 ChainIsHonest(FindRoute(in), in.engines, RoutesOf(in), "not-found")
           /\ Isochrone(in).reply # "validation" =>
                 ChainIsHonest(Isochrone(in), <<"valhalla">>, ZonesOf(in), "upstream")
<1>1. in.answers \in [{"osrm", "valhalla"} -> Brought]
      /\ in.engines \in {<<"osrm">>, <<"osrm", "valhalla">>}
  BY DEF RouteInputs
<1>2. in.engines \in Seq({"osrm", "valhalla"}) /\ <<"valhalla">> \in Seq({"valhalla"})
  <2>1. \A S, a, b : a \in S /\ b \in S => <<a>> \in Seq(S) /\ <<a, b>> \in Seq(S)
    BY FewElements
  <2>2. /\ <<"osrm">> \in Seq({"osrm", "valhalla"})
        /\ <<"osrm", "valhalla">> \in Seq({"osrm", "valhalla"})
        /\ <<"valhalla">> \in Seq({"valhalla"})
    BY <2>1, Zenon
  <2> QED
    BY <1>1, <2>2, Zenon
<1>3. \A s \in {"osrm", "valhalla"} : RoutesOf(in)[s] # "result"
  BY <1>1, ParsedIsNoResult DEF RoutesOf, ParsedRoute
<1>4. \A s \in {"valhalla"} : ZonesOf(in)[s] # "result"
  BY <1>1, ParsedIsNoResult DEF ZonesOf, ParsedIsochrone
<1>5. FindRoute(in).reply # "validation" =>
         ChainIsHonest(FindRoute(in), in.engines, RoutesOf(in), "not-found")
  BY <1>2, <1>3, GuardedChain DEF FindRoute
<1>6. Isochrone(in).reply # "validation" =>
         ChainIsHonest(Isochrone(in), <<"valhalla">>, ZonesOf(in), "upstream")
  <2> DEFINE chain == <<"valhalla">>
             S == {"valhalla"}
  <2>1. chain \in Seq(S) /\ \A s \in S : ZonesOf(in)[s] # "result"
    BY <1>2, <1>4
  <2>2. Isochrone(in) = Guarded(in.wrong, {"origin", "profile", "contours_minutes"}, chain,
                                ZonesOf(in), "upstream")
    BY Zenon DEF Isochrone
  <2> HIDE DEF chain, S
  <2>3. Isochrone(in).reply # "validation" => ChainIsHonest(Isochrone(in), chain, ZonesOf(in), "upstream")
    BY <2>1, <2>2, GuardedChain
  <2> QED
    BY <2>3 DEF chain
<1> QED
  BY <1>5, <1>6

\* Where a task runs, for tasks of any size and limits.
Words == {"nobody", "peer", "ok", "validation", "upstream", "network"}

LEMMA DelegationKeepsLimits ==
    ASSUME NEW in, in.size \in Nat, in.memory \in Nat, in.limit \in Nat,
           in.acceptor \in {"none", "accepts", "rejects", "raises", "late"},
           in.raised \in {"upstream", "network"}
    PROVE  LimitsAreKept(in, ExecuteOrDelegate(in))
<1> DEFINE looked == CheckOf(in, {"size", "pattern", "memory"})
           gate == CheckThat(in.acceptor # "none", "upstream")
           peer == Ask("peer", GateSays(in))
           delegate == PlanOf(in).delegate
           alone == <<looked>>
           handed == <<looked, gate, peer>>
           outcome == ExecuteOrDelegate(in)
<1>1. /\ in.size \in Nat /\ in.memory \in Nat /\ in.limit \in Nat
      /\ in.acceptor \in {"none", "accepts", "rejects", "raises", "late"}
      /\ in.raised \in {"upstream", "network"}
  OBVIOUS
<1>2. delegate <=> in.memory > in.limit \/ in.size > MAX_IN_PROCESS_DATASET
  BY DEF PlanOf, ShouldDelegate
<1>3. GateSays(in) \in {"network", "ok", "upstream"} /\ (GateSays(in) = "ok" => in.acceptor = "accepts")
  BY <1>1 DEF GateSays
<1>4. /\ looked \in Stages(Words) /\ gate \in Stages(Words) /\ peer \in Stages(Words)
      /\ looked.says # "result" /\ gate.says # "result" /\ peer.says # "result"
      /\ looked.asks = "nobody" /\ peer.asks = "peer" /\ peer.says = GateSays(in)
  <2>1. /\ \A says \in {"validation", "ok", "upstream"} : Check(says) \in Stages(Words)
        /\ \A says : Check(says).says = says /\ Check(says).asks = "nobody"
    <3>1. /\ Check("validation") \in Stages(Words) /\ Check("ok") \in Stages(Words)
          /\ Check("upstream") \in Stages(Words)
      BY DEF Stages, Words, Check
    <3>2. \A says : Check(says).says = says /\ Check(says).asks = "nobody"
      BY DEF Check
    <3> QED
      BY <3>1, <3>2
  <2>2. looked = Check("validation") \/ looked = Check("ok")
    BY DEF CheckOf
  <2>3. gate = Check("upstream") \/ gate = Check("ok")
    BY DEF CheckThat
  <2>4. peer = Ask("peer", "network") \/ peer = Ask("peer", "ok") \/ peer = Ask("peer", "upstream")
    BY <1>3
  <2>5. /\ \A says \in {"network", "ok", "upstream"} : Ask("peer", says) \in Stages(Words)
        /\ \A says : Ask("peer", says).says = says /\ Ask("peer", says).asks = "peer"
    <3>1. /\ Ask("peer", "network") \in Stages(Words) /\ Ask("peer", "ok") \in Stages(Words)
          /\ Ask("peer", "upstream") \in Stages(Words)
      BY DEF Stages, Words, Ask
    <3>2. \A says : Ask("peer", says).says = says /\ Ask("peer", says).asks = "peer"
      BY DEF Ask
    <3> QED
      BY <3>1, <3>2
  <2>6. peer.says = GateSays(in)
    BY DEF Ask
  <2> HIDE DEF looked, gate, peer
  <2> QED
    BY <2>1, <2>2, <2>3, <2>4, <2>5, <2>6
<1>5. outcome = Staged(<<looked>> \o (IF delegate THEN <<gate, peer>> ELSE <<>>), PlanOf(in))
  BY DEF ExecuteOrDelegate
<1> HIDE DEF looked, gate, peer, delegate, outcome
<1>6. CASE delegate
  <2>1. outcome = Staged(handed, PlanOf(in))
    <3>1. \A a, b, c \in Stages(Words) : <<a>> \o <<b, c>> = <<a, b, c>>
      <4> SUFFICES ASSUME NEW a \in Stages(Words), NEW b \in Stages(Words), NEW c \in Stages(Words)
                   PROVE  <<a>> \o <<b, c>> = <<a, b, c>>
        OBVIOUS
      <4> QED
        BY OneAndTwo
    <3>2. <<looked>> \o <<gate, peer>> = handed
      BY <1>4, <3>1, Zenon
    <3> QED
      BY <1>5, <1>6, <3>2
  <2>2. handed \in Seq(Stages(Words)) /\ Len(handed) = 3
        /\ handed[1] = looked /\ handed[2] = gate /\ handed[3] = peer
    BY <1>4, FewElements
  <2> HIDE DEF handed
  <2>3. DOMAIN handed = 1..3
    BY <2>2, StageWords
  <2>4. \A i \in DOMAIN handed : i = 1 \/ i = 2 \/ i = 3
    BY <2>3
  <2>5. \A i \in DOMAIN handed : handed[i].says # "result"
    BY <1>4, <2>2, <2>4, Zenon
  <2>6. outcome.reply = "result" => peer.says = "ok" /\ outcome.sent = Asked(handed, Len(handed))
    <3>1. outcome.reply = "result" <=> \A i \in DOMAIN handed : handed[i].says = "ok"
      BY <2>1, <2>2, <2>5, StagedReturns
    <3>2. outcome.reply = "result" => outcome.sent = Asked(handed, Len(handed))
      BY <2>1, <2>2, <2>5, StagedReturns
    <3>3. 3 \in DOMAIN handed
      BY <2>3
    <3> QED
      BY <2>2, <3>1, <3>2, <3>3
  <2>7. Asked(handed, Len(handed)) # <<>>
    <3>1. 3 \in 1..Len(handed)
      BY <2>2
    <3>2. handed[3].asks # "nobody"
      <4>1. peer.asks # "nobody"
        BY <1>4
      <4> QED
        BY <2>2, <4>1, Zenon
    <3> QED
      BY <2>2, <3>1, <3>2, NobodyAsked
  <2> QED
    BY <1>2, <1>3, <1>4, <1>6, <2>6, <2>7 DEF LimitsAreKept, outcome
<1>7. CASE ~delegate
  <2>1. alone \in Seq(Stages(Words)) /\ Len(alone) = 1 /\ alone[1] = looked
    BY <1>4, FewElements
  <2>2. outcome = Staged(alone, PlanOf(in))
    <3>1. <<looked>> \o <<>> = alone
      BY <1>4, <2>1, ConcatEmptySeq, Zenon
    <3> QED
      BY <1>5, <1>7, <3>1
  <2> HIDE DEF alone
  <2>3. DOMAIN alone = 1..1 /\ \A i \in 1..1 : i = 1
    BY <2>1, StageWords
  <2>4. outcome.reply = "result" => outcome.sent = Asked(alone, Len(alone))
    <3>1. \A i \in DOMAIN alone : alone[i].says # "result"
      BY <1>4, <2>1, <2>3, Zenon
    <3> QED
      BY <2>2, <2>1, <3>1, StagedReturns
  <2>5. Asked(alone, Len(alone)) = <<>>
    <3>1. \A i \in 1..Len(alone) : alone[i].asks = "nobody"
      BY <1>4, <2>1, <2>3, Zenon
    <3> QED
      BY <2>1, <3>1, NobodyAsked
  <2>6. in.memory <= in.limit /\ in.size <= MAX_IN_PROCESS_DATASET
    BY <1>1, <1>2, <1>7 DEF MAX_IN_PROCESS_DATASET
  <2> QED
    BY <2>4, <2>5, <2>6 DEF LimitsAreKept, outcome
<1> QED
  BY <1>6, <1>7

-----------------------------------------------------------------------------
(* The ground: mosaics, aspects, zones, tiles, grids of points and lookups. *)

\* A function on 1..n is a sequence of n elements.
LEMMA FunctionIsSeq ==
    ASSUME NEW n \in Nat, NEW S, NEW f \in [1..n -> S]
    PROVE  f \in Seq(S) /\ Len(f) = n
<1>1. f \in Seq(S)
  BY SeqDef
<1>2. DOMAIN f = 1..Len(f) /\ Len(f) \in Nat
  BY <1>1, LenProperties
<1>3. 1..n = 1..Len(f)
  BY <1>2
<1>4. Len(f) = n
  <2>1. n \in 1..Len(f) \/ n = 0
    BY <1>3
  <2>2. Len(f) \in 1..n \/ Len(f) = 0
    BY <1>2, <1>3
  <2> QED
    BY <1>2, <2>1, <2>2, <1>3
<1> QED
  BY <1>1, <1>4

\* Of some integers in a row one is the least.
LEMMA LeastOfRow ==
    ASSUME NEW n \in Nat \ {0}, NEW f \in [1..n -> Int]
    PROVE  \E i \in 1..n : \A j \in 1..n : f[i] <= f[j]
<1> DEFINE T == {k \in 0..n : k = 0 \/ \E i \in 1..k : \A j \in 1..k : f[i] <= f[j]}
<1>1. 0 \in T
  OBVIOUS
<1>2. \A k \in 1..n : k - 1 \in T => k \in T
  <2> SUFFICES ASSUME NEW k \in 1..n, k - 1 \in T PROVE \E i \in 1..k : \A j \in 1..k : f[i] <= f[j]
    OBVIOUS
  <2>1. CASE k = 1
    <3>1. \A j \in 1..1 : f[1] <= f[j]
      OBVIOUS
    <3> QED
      BY <2>1, <3>1
  <2>2. CASE k # 1
    <3>1. PICK i \in 1..(k - 1) : \A j \in 1..(k - 1) : f[i] <= f[j]
      BY <2>2
    <3>2. i \in 1..k /\ k \in 1..k /\ f[i] \in Int /\ f[k] \in Int /\ \A j \in 1..k : j = k \/ j \in 1..(k - 1)
      BY <3>1
    <3>3. CASE f[i] <= f[k]
      BY <3>1, <3>2, <3>3
    <3>4. CASE f[k] < f[i]
      <4>1. \A j \in 1..k : f[k] <= f[j]
        BY <3>1, <3>2, <3>4
      <4> QED
        BY <3>2, <4>1
    <3> QED
      BY <3>2, <3>3, <3>4
  <2> QED
    BY <2>1, <2>2
<1> HIDE DEF T
<1>3. n \in T
  <2>1. 0..n \subseteq T
    BY <1>1, <1>2, UpToInduction
  <2> QED
    BY <2>1
<1> QED
  BY <1>3 DEF T

\* What a mosaic is made of: at least one grid.
MosaicInput(grids) == /\ DOMAIN grids = 1..Len(grids) /\ Len(grids) \in Nat \ {0}
                      /\ \A i \in DOMAIN grids : GridOf(grids[i])

\* The corners of a mosaic.
LEMMA MosaicFrame ==
    ASSUME NEW grids, MosaicInput(grids)
    PROVE  /\ Top(grids) \in Int /\ Left(grids) \in Int
           /\ Mosaic(grids).height \in Int /\ Mosaic(grids).width \in Int
<1>1. /\ Len(grids) \in Nat \ {0} /\ DOMAIN grids = 1..Len(grids)
      /\ \A i \in 1..Len(grids) : /\ grids[i].row \in Int /\ grids[i].col \in Int
                                  /\ grids[i].height \in Int /\ grids[i].width \in Int
  BY DEF MosaicInput, GridOf
<1> DEFINE n == Len(grids)
<1>2. ASSUME NEW f \in [1..n -> Int] PROVE Min({f[i] : i \in 1..n}) \in Int /\ Max({f[i] : i \in 1..n}) \in Int
  <2>1. PICK i \in 1..n : \A j \in 1..n : f[i] <= f[j]
    BY <1>1, LeastOfRow
  <2> DEFINE g == [j \in 1..n |-> 0 - f[j]]
  <2>2. g \in [1..n -> Int] /\ \A j \in 1..n : g[j] = 0 - f[j]
    OBVIOUS
  <2> HIDE DEF g
  <2>3. PICK k \in 1..n : \A j \in 1..n : g[k] <= g[j]
    BY <1>1, <2>2, LeastOfRow
  <2>4. \A j \in 1..n : f[k] >= f[j] /\ f[j] \in Int
    BY <2>2, <2>3
  <2>5. Min({f[j] : j \in 1..n}) \in {f[j] : j \in 1..n}
    BY <2>1 DEF Min
  <2>6. Max({f[j] : j \in 1..n}) \in {f[j] : j \in 1..n}
    BY <2>4 DEF Max
  <2> QED
    BY <2>4, <2>5, <2>6
<1>3. /\ {g.row : g \in ToSet(grids)} = {[k \in 1..n |-> grids[k].row][i] : i \in 1..n}
      /\ {g.col : g \in ToSet(grids)} = {[k \in 1..n |-> grids[k].col][i] : i \in 1..n}
      /\ {g.row + g.height : g \in ToSet(grids)}
            = {[k \in 1..n |-> grids[k].row + grids[k].height][i] : i \in 1..n}
      /\ {g.col + g.width : g \in ToSet(grids)}
            = {[k \in 1..n |-> grids[k].col + grids[k].width][i] : i \in 1..n}
  BY <1>1 DEF ToSet
<1>4. /\ [i \in 1..n |-> grids[i].row] \in [1..n -> Int] /\ [i \in 1..n |-> grids[i].col] \in [1..n -> Int]
      /\ [i \in 1..n |-> grids[i].row + grids[i].height] \in [1..n -> Int]
      /\ [i \in 1..n |-> grids[i].col + grids[i].width] \in [1..n -> Int]
  BY <1>1
<1> HIDE DEF n
<1>5. Top(grids) \in Int /\ Left(grids) \in Int
  BY <1>2, <1>3, <1>4, Zenon DEF Top, Left
<1>6. /\ Max({g.row + g.height : g \in ToSet(grids)}) \in Int
      /\ Max({g.col + g.width : g \in ToSet(grids)}) \in Int
  BY <1>2, <1>3, <1>4, Zenon
<1>7. /\ Mosaic(grids).height = Max({g.row + g.height : g \in ToSet(grids)}) - Top(grids)
      /\ Mosaic(grids).width = Max({g.col + g.width : g \in ToSet(grids)}) - Left(grids)
  BY DEF Mosaic
<1> QED
  BY <1>5, <1>6, <1>7

\* What shows at a place is what some grid has there, and nothing only if none has.
LEMMA StitchedMeans ==
    ASSUME NEW grids, Len(grids) \in Nat, NEW p,
           \A k \in 1..Len(grids) : Held(grids[k], PlaceIn(grids, grids[k], p)) \in Int
    PROVE  \/ /\ Stitched(grids, p) = Lost
              /\ \A k \in 1..Len(grids) : Held(grids[k], PlaceIn(grids, grids[k], p)) = Lost
           \/ \E k \in 1..Len(grids) : /\ Stitched(grids, p) = Held(grids[k], PlaceIn(grids, grids[k], p))
                                       /\ Stitched(grids, p) # Lost
<1> DEFINE n == Len(grids)
           has == [k \in 1..n |-> Held(grids[k], PlaceIn(grids, grids[k], p))]
           Over(so, k) == IF has[k] = Lost THEN so ELSE has[k]
           next == [x \in Int \X (1..n) |-> Over(x[1], x[2])]
           Body(g) == [k \in 0..n |->
                         IF k = 0 THEN Lost
                         ELSE IF Held(grids[k], PlaceIn(grids, grids[k], p)) = Lost THEN g[k - 1]
                         ELSE Held(grids[k], PlaceIn(grids, grids[k], p))]
           seen == CHOOSE g : g = Body(g)
<1>1. /\ n \in Nat /\ Lost \in Int
      /\ \A k \in 1..n : has[k] = Held(grids[k], PlaceIn(grids, grids[k], p)) /\ has[k] \in Int
  BY DEF Lost
<1>2. Stitched(grids, p) = seen[n]
  BY Zenon DEF Stitched
<1> HIDE DEF has, n
<1>3. next \in [Int \X (1..n) -> Int] /\ \A so \in Int, k \in 1..n : next[<<so, k>>] = Over(so, k)
  BY <1>1
<1> HIDE DEF next
<1>4. PICK f \in [0..n -> Int] : Recurs(f, n, Lost, next)
  BY <1>1, <1>3, RecursionUpTo
<1>5. \A k \in 1..n : f[k] = Over(f[k - 1], k)
  <2> SUFFICES ASSUME NEW k \in 1..n PROVE f[k] = Over(f[k - 1], k)
    OBVIOUS
  <2>1. k - 1 \in 0..n
    BY <1>1
  <2> QED
    BY <1>3, <1>4, <2>1 DEF Recurs
<1>6. f = Body(f)
  <2>1. \A k \in 0..n : f[k] = Body(f)[k]
    BY <1>1, <1>4, <1>5 DEF Recurs
  <2>2. f = [k \in 0..n |-> f[k]]
    BY <1>4
  <2> QED
    BY <2>1, <2>2
<1>7. seen = Body(seen)
  BY <1>6, Zenon
<1> HIDE DEF seen
<1>8. seen[0] = Lost
  BY <1>1, <1>7
<1>9. \A k \in 1..n : seen[k] = Over(seen[k - 1], k)
  <2> SUFFICES ASSUME NEW k \in 1..n PROVE seen[k] = Over(seen[k - 1], k)
    OBVIOUS
  <2>1. k \in 0..n /\ k # 0
    BY <1>1
  <2>2. seen[k] = Body(seen)[k]
    BY <1>7
  <2> QED
    BY <1>1, <2>1, <2>2
<1> DEFINE T == {k \in 0..n : \/ seen[k] = Lost /\ \A i \in 1..k : has[i] = Lost
                              \/ \E i \in 1..k : seen[k] = has[i] /\ seen[k] # Lost}
<1>10. 0 \in T
  BY <1>1, <1>8
<1>11. \A k \in 1..n : k - 1 \in T => k \in T
  <2> SUFFICES ASSUME NEW k \in 1..n, k - 1 \in T PROVE k \in T
    OBVIOUS
  <2>1. /\ seen[k] = Over(seen[k - 1], k) /\ k \in 0..n /\ k \in 1..k
        /\ \A i \in 1..k : i = k \/ i \in 1..(k - 1)
        /\ \A i \in 1..(k - 1) : i \in 1..k
    BY <1>1, <1>9
  <2>2. CASE has[k] = Lost
    BY <2>1, <2>2
  <2>3. CASE has[k] # Lost
    BY <2>1, <2>3
  <2> QED
    BY <2>2, <2>3
<1> HIDE DEF T
<1>12. n \in T
  <2>1. 0..n \subseteq T
    BY <1>1, <1>10, <1>11, UpToInduction
  <2> QED
    BY <1>1, <2>1
<1> QED
  BY <1>1, <1>2, <1>12 DEF T, n

\* A place that some grid has a value for has, in the mosaic, the value of such a grid.
LEMMA MosaicsAreWhole ==
    ASSUME NEW grids, MosaicInput(grids)
    PROVE  MosaicIsWhole(grids)
<1> DEFINE m == Mosaic(grids)
           n == Len(grids)
           At(g, p) == g.values[<<p[1] - g.row, p[2] - g.col>>]
<1>1. /\ m.row = Top(grids) /\ m.col = Left(grids)
      /\ m.values = [p \in (0..(m.height - 1)) \X (0..(m.width - 1)) |-> Stitched(grids, p)]
  BY DEF Mosaic
<1>2. Top(grids) \in Int /\ Left(grids) \in Int /\ m.height \in Int /\ m.width \in Int
  BY MosaicFrame
<1> HIDE DEF m
<1>3. SUFFICES ASSUME NEW i \in 1..n, NEW x \in m.row..(m.row + m.height - 1),
                      NEW y \in m.col..(m.col + m.width - 1),
                      <<x - grids[i].row, y - grids[i].col>> \in DOMAIN grids[i].values,
                      grids[i].values[<<x - grids[i].row, y - grids[i].col>>] # Lost
               PROVE  \E k \in 1..n :
                         /\ <<x - grids[k].row, y - grids[k].col>> \in DOMAIN grids[k].values
                         /\ m.values[<<x - m.row, y - m.col>>]
                               = grids[k].values[<<x - grids[k].row, y - grids[k].col>>]
                         /\ m.values[<<x - m.row, y - m.col>>] # Lost
  <2> SUFFICES ASSUME NEW g \in ToSet(grids),
                      NEW p \in (m.row..(m.row + m.height - 1)) \X (m.col..(m.col + m.width - 1)),
                      <<p[1] - g.row, p[2] - g.col>> \in DOMAIN g.values, At(g, p) # Lost
               PROVE  m.values[<<p[1] - m.row, p[2] - m.col>>]
                        \in {At(h, p) : h \in {h \in ToSet(grids) :
                               <<p[1] - h.row, p[2] - h.col>> \in DOMAIN h.values}} \ {Lost}
    BY Zenon DEF MosaicIsWhole, m
  <2>1. PICK i \in 1..n : g = grids[i]
    BY DEF ToSet, MosaicInput
  <2>2. p[1] \in m.row..(m.row + m.height - 1) /\ p[2] \in m.col..(m.col + m.width - 1)
    OBVIOUS
  <2>3. PICK k \in 1..n : /\ <<p[1] - grids[k].row, p[2] - grids[k].col>> \in DOMAIN grids[k].values
                          /\ m.values[<<p[1] - m.row, p[2] - m.col>>] = At(grids[k], p)
                          /\ m.values[<<p[1] - m.row, p[2] - m.col>>] # Lost
    BY <1>3, <2>1, <2>2
  <2>4. grids[k] \in ToSet(grids)
    BY DEF ToSet, MosaicInput
  <2> QED
    BY <2>3, <2>4
<1> DEFINE q == <<x - m.row, y - m.col>>
<1>4. q \in (0..(m.height - 1)) \X (0..(m.width - 1))
  BY <1>1, <1>2
<1>5. m.values[q] = Stitched(grids, q)
  BY <1>1, <1>4
<1>6. \A k \in 1..n : PlaceIn(grids, grids[k], q) = <<x - grids[k].row, y - grids[k].col>>
  <2>1. \A k \in 1..n : grids[k].row \in Int /\ grids[k].col \in Int
    BY DEF MosaicInput, GridOf
  <2> QED
    BY <1>1, <1>2, <2>1 DEF PlaceIn
<1>7. \A k \in 1..n : Held(grids[k], PlaceIn(grids, grids[k], q)) \in Int
  BY DEF Held, MosaicInput, GridOf, Lost
<1>8. Held(grids[i], PlaceIn(grids, grids[i], q)) # Lost
  BY <1>3, <1>6 DEF Held
<1>9. PICK k \in 1..n : /\ Stitched(grids, q) = Held(grids[k], PlaceIn(grids, grids[k], q))
                        /\ Stitched(grids, q) # Lost
  <2>1. n \in Nat
    BY DEF MosaicInput
  <2> HIDE DEF q
  <2> QED
    BY <1>7, <1>8, <2>1, StitchedMeans
<1> QED
  BY <1>5, <1>6, <1>9 DEF Held

\* What \div is.
LEMMA DivMeans ==
    ASSUME NEW x \in Int, NEW n \in Nat \ {0}
    PROVE  x \div n \in Int /\ (x \div n) * n <= x /\ x < (x \div n + 1) * n
  OBVIOUS

\* In the middle of three, the slope is from the one side to the other.
LEMMA ThreeSlopes ==
    ASSUME NEW v, v \in [1..3 -> Int]
    PROVE  Slopes(v)[2] = v[3] - v[1]
<1>1. Len(v) = 3
  BY FunctionIsSeq
<1> QED
  BY <1>1 DEF Slopes

\* The aspect of a plane looks to the lower side, however steep.
LEMMA AspectIsRight ==
    ASSUME NEW e \in Int, NEW n \in Int
    PROVE  AspectLooksDown(e, n)
<1> DEFINE z == Plane(e, n)
<1>1. z[2] \in [1..3 -> Int] /\ z[2][3] = 10 + 3 * e - 2 * n /\ z[2][1] = 10 + e - 2 * n
  BY DEF Plane
<1>2. East(z, 2, 2) = 2 * e
  BY <1>1, ThreeSlopes DEF East
<1> DEFINE column == [i \in DOMAIN z |-> z[i][2]]
<1>3. column \in [1..3 -> Int] /\ column[3] = 10 + 2 * e - 3 * n /\ column[1] = 10 + 2 * e - n
  BY DEF Plane
<1>4. North(z, 2, 2) = 2 * n
  <2>1. Slopes(column)[2] = column[3] - column[1]
    BY <1>3, ThreeSlopes
  <2>2. North(z, 2, 2) = 0 - Slopes(column)[2]
    BY Zenon DEF North
  <2> HIDE DEF column
  <2> QED
    BY <1>3, <2>1, <2>2
<1> HIDE DEF z
<1> QED
  BY <1>2, <1>4 DEF AspectLooksDown, Aspect, FLAT_ASPECT, z

\* Every degree of a span that ends before the 180th meridian is in a zone given.
LEMMA ZonesAreCovered ==
    ASSUME NEW west \in (0 - 180)..179, NEW east \in (0 - 180)..179, west < east
    PROVE  ZonesCover(west, east)
<1>1. \A lon \in (0 - 180)..179 : UtmZone(lon) = 1 + (lon + 180) \div 6 /\ UtmZone(lon) \in Int
  BY DEF UtmZone
<1>2. \A a, b \in (0 - 180)..179 : a <= b => UtmZone(a) <= UtmZone(b)
  BY <1>1
<1>3. GzdZones(west, east) = UtmZone(west)..UtmZone(east)
  <2>1. UtmZone(west) \in Int /\ UtmZone(east) \in Int /\ UtmZone(west) <= UtmZone(east)
    BY <1>1, <1>2
  <2> QED
    BY <2>1 DEF GzdZones
<1>4. ASSUME NEW lon \in west..(east - 1) PROVE UtmZone(lon) \in UtmZone(west)..UtmZone(east)
  <2>1. lon \in (0 - 180)..179 /\ west <= lon /\ lon <= east
    OBVIOUS
  <2>2. /\ UtmZone(west) \in Int /\ UtmZone(east) \in Int /\ UtmZone(lon) \in Int
        /\ UtmZone(west) <= UtmZone(lon) /\ UtmZone(lon) <= UtmZone(east)
    BY <1>1, <1>2, <2>1
  <2> QED
    BY <2>2
<1> QED
  BY <1>3, <1>4 DEF ZonesCover

\* The tiles of a box hold every cell of it, and none of them holds no cell.
LEMMA TilesAreCovered ==
    ASSUME NEW box, NEW per \in Nat \ {0},
           box[1] \in Int, box[2] \in Int, box[3] \in Int, box[4] \in Int
    PROVE  TilesCover(box, per)
<1> DEFINE Cells(low, high) == (low \div per)..(CeilDiv(high, per) - 1)
           Cuts(i, x) == i * per <= x /\ x < (i + 1) * per
<1>1. ASSUME NEW low \in Int, NEW high \in Int
      PROVE  /\ \A x \in low..(high - 1) : \E i \in Cells(low, high) : Cuts(i, x)
             /\ low < high => \A i \in Cells(low, high) : \E x \in low..(high - 1) : Cuts(i, x)
  <2>1. /\ low \div per \in Int /\ (low \div per) * per <= low /\ low < (low \div per + 1) * per
        /\ CeilDiv(high, per) \in Int /\ (CeilDiv(high, per) - 1) * per < high
        /\ high <= CeilDiv(high, per) * per
    BY DivMeans DEF CeilDiv
  <2>2. ASSUME NEW x \in low..(high - 1) PROVE \E i \in Cells(low, high) : Cuts(i, x)
    <3>1. x \div per \in Int /\ (x \div per) * per <= x /\ x < (x \div per + 1) * per
      BY DivMeans
    <3>2. low \div per <= x \div per /\ x \div per < CeilDiv(high, per)
      BY <2>1, <3>1
    <3> QED
      BY <2>1, <3>1, <3>2
  <2>3. ASSUME low < high, NEW i \in Cells(low, high) PROVE \E x \in low..(high - 1) : Cuts(i, x)
    <3>1. i \in Int /\ i * per \in Int /\ (i + 1) * per = i * per + per
      BY <2>1
    <3>2. i * per < high /\ low < (i + 1) * per
      BY <2>1
    <3>3. CASE i * per <= low
      BY <2>3, <3>1, <3>2, <3>3
    <3>4. CASE low < i * per
      <4>1. i * per \in low..(high - 1) /\ Cuts(i, i * per)
        BY <3>1, <3>2, <3>4
      <4> QED
        BY <4>1
    <3> QED
      BY <3>1, <3>3, <3>4
  <2> QED
    BY <2>2, <2>3
<1>2. ResolveTiles(box, per) = Cells(box[2], box[4]) \X Cells(box[1], box[3])
  BY DEF ResolveTiles
<1> DEFINE cells == (box[1]..(box[3] - 1)) \X (box[2]..(box[4] - 1))
           Inside(p, t) == Cuts(t[2], p[1]) /\ Cuts(t[1], p[2])
<1>3. ASSUME NEW p \in cells PROVE \E t \in ResolveTiles(box, per) : Inside(p, t)
  <2>1. PICK i \in Cells(box[1], box[3]) : Cuts(i, p[1])
    BY <1>1
  <2>2. PICK j \in Cells(box[2], box[4]) : Cuts(j, p[2])
    BY <1>1
  <2> HIDE DEF Cells, Cuts
  <2>3. <<j, i>> \in ResolveTiles(box, per) /\ Inside(p, <<j, i>>)
    BY <1>2, <2>1, <2>2
  <2> QED
    BY <2>3
<1>4. ASSUME cells # {}, NEW t \in ResolveTiles(box, per) PROVE \E p \in cells : Inside(p, t)
  <2>1. box[1] < box[3] /\ box[2] < box[4]
    BY <1>4
  <2>2. t[1] \in Cells(box[2], box[4]) /\ t[2] \in Cells(box[1], box[3])
    BY <1>2
  <2>3. PICK x \in box[1]..(box[3] - 1) : Cuts(t[2], x)
    BY <1>1, <2>1, <2>2
  <2>4. PICK y \in box[2]..(box[4] - 1) : Cuts(t[1], y)
    BY <1>1, <2>1, <2>2
  <2> HIDE DEF Cells, Cuts
  <2>5. <<x, y>> \in cells /\ Inside(<<x, y>>, t)
    BY <2>3, <2>4
  <2> QED
    BY <2>5
<1> QED
  BY <1>3, <1>4 DEF TilesCover

LEMMA DivOf ==
    ASSUME NEW q \in Nat, NEW n \in Nat \ {0}, NEW s \in 0..(n - 1)
    PROVE  (q * n + s) \div n = q /\ (q * n + s) % n = s
  OBVIOUS

\* a is the beginning of b.
Begins(a, b) == Len(a) <= Len(b) /\ \A k \in 1..Len(a) : a[k] = b[k]

\* How many batches there are, and where each begins.
LEMMA BatchCount ==
    ASSUME NEW n \in Nat \ {0}
    PROVE  /\ CeilDiv(n, Batch) \in Nat \ {0}
           /\ \A b \in 1..CeilDiv(n, Batch) : (b - 1) * Batch < n
           /\ CeilDiv(n, Batch) * Batch >= n
           /\ n <= Batch => CeilDiv(n, Batch) = 1
<1>1. Batch \in Nat \ {0}
  BY TerrainAssumption
<1>2. /\ CeilDiv(n, Batch) \in Int /\ (CeilDiv(n, Batch) - 1) * Batch < n
      /\ n <= CeilDiv(n, Batch) * Batch
  BY <1>1, DivMeans DEF CeilDiv
<1>3. CeilDiv(n, Batch) >= 1
  BY <1>1, <1>2
<1>4. \A b \in 1..CeilDiv(n, Batch) : (b - 1) * Batch < n
  <2> SUFFICES ASSUME NEW b \in 1..CeilDiv(n, Batch) PROVE (b - 1) * Batch < n
    OBVIOUS
  <2>1. b - 1 <= CeilDiv(n, Batch) - 1 /\ b - 1 \in Int
    BY <1>2
  <2>2. (b - 1) * Batch <= (CeilDiv(n, Batch) - 1) * Batch
    BY <1>1, <1>2, <2>1
  <2> QED
    BY <1>1, <1>2, <2>2
<1>5. n <= Batch => CeilDiv(n, Batch) = 1
  BY <1>1, <1>2, <1>3
<1> QED
  BY <1>2, <1>3, <1>4, <1>5

\* The b-th batch and what a reply to it gives.
Batched(points, b) == SubSeq(points, (b - 1) * Batch + 1, Lesser(b * Batch, Len(points)))

\* What is parsed of a batch is the beginning of the batch, all of it if nothing misses.
LEMMA ParsedBatch ==
    ASSUME NEW S, NEW points \in Seq(S), NEW b \in Nat \ {0}, NEW missing \in Nat,
           (b - 1) * Batch < Len(points)
    PROVE  LET parsed == ParseResults(Batched(points, b), missing)
               first == (b - 1) * Batch
           IN  /\ parsed \in Seq(S) /\ first + Len(parsed) <= Lesser(b * Batch, Len(points))
               /\ \A i \in 1..Len(parsed) : parsed[i] = points[first + i]
               /\ missing = 0 => first + Len(parsed) = Lesser(b * Batch, Len(points))
<1> DEFINE first == (b - 1) * Batch
           last == Lesser(b * Batch, Len(points))
           batch == SubSeq(points, first + 1, last)
<1>1. Batch \in Nat \ {0} /\ Len(points) \in Nat /\ \A i \in 1..Len(points) : points[i] \in S
  BY TerrainAssumption
<1>2. first \in Nat /\ b * Batch = first + Batch /\ last \in Nat /\ first < last /\ last <= Len(points)
      /\ last = Lesser(b * Batch, Len(points))
  BY <1>1 DEF Lesser
<1> HIDE DEF first, last
<1>3. /\ batch \in Seq(S) /\ Len(batch) = last - first
      /\ \A i \in 1..(last - first) : batch[i] = points[first + i]
  <2>1. first + 1 \in Int /\ last \in Int /\ \A i \in (first + 1)..last : points[i] \in S
    BY <1>1, <1>2
  <2>2. /\ batch \in Seq(S) /\ Len(batch) = IF first + 1 <= last THEN last - (first + 1) + 1 ELSE 0
        /\ \A i \in 1..(last - (first + 1) + 1) : batch[i] = points[(first + 1) + i - 1]
    BY <2>1, SubSeqProperties
  <2>3. /\ first + 1 <= last /\ last - (first + 1) + 1 = last - first
        /\ \A i \in 1..(last - first) : (first + 1) + i - 1 = first + i
    BY <1>2
  <2> HIDE DEF batch
  <2>4. Len(batch) = last - first
    BY <2>2, <2>3
  <2>5. \A i \in 1..(last - first) : batch[i] = points[(first + 1) + i - 1]
    BY <2>2, <2>3
  <2> QED
    BY <2>2, <2>3, <2>4, <2>5
<1> HIDE DEF batch
<1> DEFINE len == Lesser(Len(batch) - missing, Len(batch))
           parsed == ParseResults(batch, missing)
<1>4. len \in Int /\ len <= Len(batch) /\ (missing = 0 => len = Len(batch))
  BY <1>2, <1>3 DEF Lesser
<1>5. parsed = SubSeq(batch, 1, len)
  BY <1>2, <1>3 DEF ParseResults, Take, Lesser
<1>6. /\ parsed \in Seq(S) /\ Len(parsed) <= Len(batch) /\ Len(parsed) \in Nat
      /\ \A i \in 1..Len(parsed) : parsed[i] = batch[i]
      /\ missing = 0 => Len(parsed) = Len(batch)
  <2> HIDE DEF len
  <2>1. \A i \in 1..len : batch[i] \in S
    BY <1>2, <1>3, <1>4
  <2>2. /\ parsed \in Seq(S) /\ Len(parsed) = IF 1 <= len THEN len - 1 + 1 ELSE 0
        /\ \A i \in 1..(len - 1 + 1) : parsed[i] = batch[1 + i - 1]
    BY <1>4, <1>5, <2>1, SubSeqProperties
  <2> HIDE DEF parsed
  <2>3. len - 1 + 1 = len /\ \A i \in 1..len : 1 + i - 1 = i
    BY <1>4
  <2>4. Len(parsed) = IF 1 <= len THEN len ELSE 0
    BY <2>2, <2>3
  <2>5. \A i \in 1..len : parsed[i] = batch[i]
    BY <2>2, <2>3
  <2>6. Len(batch) \in Nat
    BY <1>2, <1>3
  <2>7. Len(parsed) \in Nat /\ Len(parsed) <= Len(batch) /\ \A i \in 1..Len(parsed) : i \in 1..len
    BY <1>4, <2>4, <2>6
  <2> QED
    BY <1>4, <2>2, <2>4, <2>5, <2>6, <2>7
<1> HIDE DEF parsed
<1>7. parsed = ParseResults(Batched(points, b), missing)
  BY DEF parsed, batch, Batched, first, last
<1>8. first + Len(parsed) <= last /\ (missing = 0 => first + Len(parsed) = last)
  BY <1>2, <1>3, <1>6
<1>9. \A i \in 1..Len(parsed) : parsed[i] = points[first + i]
  <2>1. \A i \in 1..Len(parsed) : i \in 1..(last - first)
    BY <1>2, <1>3, <1>6
  <2> QED
    BY <1>3, <1>6, <2>1
<1> QED
  BY <1>6, <1>7, <1>8, <1>9 DEF first, last

\* One more batch that comes where the samples so far end.
WithBatch(so, points, b, missing) == so \o ParseResults(Batched(points, b), missing)

\* A batch after the batches before it continues the points.
LEMMA BatchBegins ==
    ASSUME NEW S, NEW points \in Seq(S), NEW so \in Seq(S), NEW b \in Nat \ {0}, NEW missing \in Nat,
           Begins(so, points), Len(so) = (b - 1) * Batch, (b - 1) * Batch < Len(points)
    PROVE  /\ WithBatch(so, points, b, missing) \in Seq(S) /\ Begins(WithBatch(so, points, b, missing), points)
           /\ missing = 0 => Len(WithBatch(so, points, b, missing)) = Lesser(b * Batch, Len(points))
<1> DEFINE first == (b - 1) * Batch
           last == Lesser(b * Batch, Len(points))
           parsed == ParseResults(Batched(points, b), missing)
           some == so \o parsed
<1>1. Batch \in Nat \ {0} /\ Len(points) \in Nat /\ Len(so) = first
  BY TerrainAssumption
<1>2. first \in Nat /\ last \in Nat /\ last <= Len(points)
  BY <1>1 DEF Lesser
<1>3. /\ parsed \in Seq(S) /\ first + Len(parsed) <= last
      /\ \A i \in 1..Len(parsed) : parsed[i] = points[first + i]
      /\ missing = 0 => first + Len(parsed) = last
  BY ParsedBatch
<1> HIDE DEF parsed
<1>4. Len(parsed) \in Nat
  BY <1>3
<1>5. /\ some \in Seq(S) /\ Len(some) = Len(so) + Len(parsed)
      /\ \A i \in 1..(Len(so) + Len(parsed)) :
            some[i] = IF i <= Len(so) THEN so[i] ELSE parsed[i - Len(so)]
  BY <1>3, ConcatProperties, Zenon
<1> HIDE DEF some, first, last
<1>6. \A k \in 1..Len(some) : some[k] = points[k]
  <2> SUFFICES ASSUME NEW k \in 1..Len(some) PROVE some[k] = points[k]
    OBVIOUS
  <2>1. CASE k <= first
    BY <1>1, <1>2, <1>4, <1>5, <2>1 DEF Begins
  <2>2. CASE first < k
    <3>1. k - first \in 1..Len(parsed) /\ first + (k - first) = k
      BY <1>1, <1>2, <1>4, <1>5, <2>2
    <3>2. some[k] = parsed[k - first]
      BY <1>1, <1>2, <1>4, <1>5, <2>2
    <3> QED
      BY <1>3, <3>1, <3>2
  <2> QED
    BY <1>2, <2>1, <2>2
<1>7. Begins(some, points) /\ (missing = 0 => Len(some) = last)
  BY <1>1, <1>2, <1>3, <1>4, <1>5, <1>6 DEF Begins
<1> QED
  BY <1>5, <1>7 DEF some, parsed, last, WithBatch

\* What SampleAll gives begins the points: all of them where no reply was short.
LEMMA SamplesBegin ==
    ASSUME NEW S, NEW points \in Seq(S), points # <<>>, NEW missing \in Nat,
           missing = 0 \/ Len(points) <= Batch
    PROVE  SampleAll(points, missing) \in Seq(S) /\ Begins(SampleAll(points, missing), points)
<1> DEFINE n == CeilDiv(Len(points), Batch)
           short(k) == IF k = 1 THEN missing ELSE 0
           part == [k \in 1..n |-> ParseResults(Batched(points, k), short(k))]
           Names == Seq(S)
           next == [x \in Names \X (1..n) |-> x[1] \o part[x[2]]]
           Body(g) == [k \in 0..Len(Batches(points)) |->
                         IF k = 0 THEN <<>>
                         ELSE g[k - 1] \o ParseResults(Batches(points)[k], IF k = 1 THEN missing ELSE 0)]
           sampled == CHOOSE g : g = Body(g)
<1>1. /\ Batch \in Nat \ {0} /\ Len(points) \in Nat \ {0}
      /\ n \in Nat \ {0} /\ \A k \in 1..n : (k - 1) * Batch < Len(points)
      /\ Len(points) <= Batch => n = 1
  BY TerrainAssumption, BatchCount, EmptySeq
<1>2. SampleAll(points, missing) = sampled[Len(Batches(points))]
  BY Zenon DEF SampleAll
<1>3. Len(Batches(points)) = n
  <2>1. Batches(points) \in [1..n -> {Batched(points, k) : k \in 1..n}]
    BY DEF Batches, Batched
  <2> HIDE DEF n
  <2> QED
    BY <1>1, <2>1, FunctionIsSeq
<1>4. \A k \in 1..n : ParseResults(Batches(points)[k], IF k = 1 THEN missing ELSE 0) = part[k]
  BY DEF Batches, Batched
<1>5. \A k \in 1..n : part[k] \in Names
  <2> SUFFICES ASSUME NEW k \in 1..n PROVE part[k] \in Names
    OBVIOUS
  <2>1. part[k] = ParseResults(Batched(points, k), short(k)) /\ short(k) \in Nat /\ k \in Nat \ {0}
    BY <1>1
  <2> QED
    BY <1>1, <2>1, ParsedBatch
<1> HIDE DEF n
<1>6. next \in [Names \X (1..n) -> Names] /\ \A so \in Names, k \in 1..n : next[<<so, k>>] = so \o part[k]
  <2>1. \A so \in Names, k \in 1..n : so \o part[k] \in Names
    <3> HIDE DEF part
    <3> QED
      BY <1>5, ConcatProperties
  <2> HIDE DEF part, Names
  <2> QED
    BY <2>1
<1> HIDE DEF next
<1>7. <<>> \in Names
  BY EmptySeq
<1>8. PICK f \in [0..n -> Names] : Recurs(f, n, <<>>, next)
  <2> HIDE DEF Names, part
  <2> QED
    BY <1>1, <1>6, <1>7, RecursionUpTo
<1>9. f[0] = <<>> /\ \A k \in 1..n : f[k] = f[k - 1] \o part[k]
  <2>1. \A k \in 1..n : k - 1 \in 0..n
    BY <1>1
  <2> HIDE DEF part, Names
  <2> QED
    BY <1>6, <1>8, <2>1 DEF Recurs
<1>10. f = Body(f)
  <2>1. \A k \in 0..n : f[k] = Body(f)[k]
    <3> SUFFICES ASSUME NEW k \in 0..n PROVE f[k] = Body(f)[k]
      OBVIOUS
    <3>1. CASE k = 0
      BY <1>3, <1>9, <3>1
    <3>2. CASE k # 0
      <4>1. k \in 1..n
        BY <1>1, <3>2
      <4>2. f[k] = f[k - 1] \o ParseResults(Batches(points)[k], IF k = 1 THEN missing ELSE 0)
        BY <1>4, <1>9, <4>1, Zenon
      <4> QED
        BY <1>3, <3>2, <4>2, Zenon
    <3> QED
      BY <3>1, <3>2
  <2>2. f = [k \in 0..n |-> f[k]] /\ Body(f) = [k \in 0..n |-> Body(f)[k]]
    BY <1>3, <1>8
  <2> HIDE DEF Body
  <2> QED
    BY <2>1, <2>2
<1>11. sampled = Body(sampled)
  BY <1>10, Zenon
<1> HIDE DEF sampled
<1>12. sampled[0] = <<>>
  BY <1>1, <1>3, <1>11
<1>13. \A k \in 1..n : sampled[k] = sampled[k - 1] \o part[k]
  <2> SUFFICES ASSUME NEW k \in 1..n PROVE sampled[k] = sampled[k - 1] \o part[k]
    OBVIOUS
  <2>1. k \in 0..n /\ k # 0
    BY <1>1
  <2>2. sampled[k] = Body(sampled)[k]
    BY <1>11
  <2>3. Body(sampled)[k] = sampled[k - 1] \o ParseResults(Batches(points)[k], IF k = 1 THEN missing ELSE 0)
    BY <1>3, <2>1, Zenon
  <2> QED
    BY <1>4, <2>2, <2>3, Zenon
<1> DEFINE T == {k \in 0..n : /\ sampled[k] \in Seq(S) /\ Begins(sampled[k], points)
                              /\ missing = 0 => Len(sampled[k]) = Lesser(k * Batch, Len(points))}
<1>14. 0 \in T
  <2>1. Begins(<<>>, points)
    BY <1>1 DEF Begins
  <2>2. Len(<<>>) = 0 /\ Lesser(0 * Batch, Len(points)) = 0
    BY <1>1 DEF Lesser
  <2>3. sampled[0] \in Seq(S) /\ 0 \in 0..n
    BY <1>1, <1>7, <1>12
  <2>4. Begins(sampled[0], points)
    BY <1>12, <2>1
  <2>5. Len(sampled[0]) = Lesser(0 * Batch, Len(points))
    BY <1>12, <2>2
  <2> QED
    BY <2>3, <2>4, <2>5
<1>15. \A k \in 1..n : k - 1 \in T => k \in T
  <2> SUFFICES ASSUME NEW k \in 1..n, k - 1 \in T PROVE k \in T
    OBVIOUS
  <2>1. sampled[k - 1] \in Seq(S) /\ Begins(sampled[k - 1], points)
        /\ (missing = 0 => Len(sampled[k - 1]) = Lesser((k - 1) * Batch, Len(points)))
    OBVIOUS
  <2>2. (k - 1) * Batch < Len(points) /\ k \in Nat \ {0} /\ k \in 0..n
    BY <1>1
  <2>3. Len(sampled[k - 1]) = (k - 1) * Batch
    <3>1. CASE missing = 0
      BY <1>1, <2>1, <2>2, <3>1 DEF Lesser
    <3>2. CASE missing # 0
      <4>1. k = 1
        BY <1>1, <3>2
      <4>2. Len(<<>>) = 0 /\ (k - 1) * Batch = 0 /\ sampled[k - 1] = <<>>
        BY <1>1, <1>12, <4>1
      <4> QED
        BY <4>2
    <3> QED
      BY <3>1, <3>2
  <2>4. short(k) \in Nat /\ (missing = 0 => short(k) = 0) /\ part[k] = ParseResults(Batched(points, k), short(k))
    OBVIOUS
  <2> DEFINE some == WithBatch(sampled[k - 1], points, k, short(k))
  <2>5. /\ some \in Seq(S) /\ Begins(some, points)
        /\ short(k) = 0 => Len(some) = Lesser(k * Batch, Len(points))
    <3> HIDE DEF short
    <3> QED
      BY <2>1, <2>2, <2>3, <2>4, BatchBegins
  <2>6. sampled[k] = some
    BY <1>13, <2>4, Zenon DEF WithBatch
  <2> HIDE DEF some, short, part
  <2> QED
    BY <2>2, <2>4, <2>5, <2>6
<1> HIDE DEF T
<1>16. n \in T
  <2>1. 0..n \subseteq T
    BY <1>1, <1>14, <1>15, UpToInduction
  <2> QED
    BY <1>1, <2>1
<1> QED
  BY <1>2, <1>3, <1>16 DEF T

\* A cell of a row that is there is of its own point.
LEMMA RowsAreAligned ==
    ASSUME NEW w \in Nat \ {0}, NEW h \in Nat \ {0}, NEW missing \in Nat,
           missing = 0 \/ w * h <= Batch,
           NEW r \in 1..h, NEW c \in DOMAIN GridRows(SampleAll(GridPoints(w, h), missing), w, h)[r]
    PROVE  GridRows(SampleAll(GridPoints(w, h), missing), w, h)[r][c] = <<r - 1, c - 1>>
<1> DEFINE points == GridPoints(w, h)
           flat == SampleAll(points, missing)
           first == (r - 1) * w
           last == Lesser(r * w, Len(flat))
           row == SubSeq(flat, first + 1, last)
           S == Nat \X Nat
<1>1. w * h \in Nat \ {0} /\ first \in Nat /\ r * w = first + w
  OBVIOUS
<1>2. points \in [1..(w * h) -> S] /\ \A k \in 1..(w * h) : points[k] = <<(k - 1) \div w, (k - 1) % w>>
  <2>1. \A k \in 1..(w * h) : (k - 1) \div w \in Nat /\ (k - 1) % w \in Nat
    BY <1>1
  <2> QED
    BY <2>1 DEF GridPoints
<1> HIDE DEF points
<1>3. points \in Seq(S) /\ Len(points) = w * h
  BY <1>1, <1>2, FunctionIsSeq
<1>4. points # <<>>
  BY <1>1, <1>3, EmptySeq
<1> HIDE DEF S
<1>5. flat \in Seq(S) /\ Begins(flat, points)
  BY <1>3, <1>4, SamplesBegin
<1> HIDE DEF flat
<1>6. Len(flat) \in Nat /\ \A i \in 1..Len(flat) : flat[i] \in S
  BY <1>5
<1>7. last \in Nat /\ last <= Len(flat) /\ last <= first + w
  BY <1>1, <1>6 DEF Lesser
<1> HIDE DEF first, last
<1>8. /\ row \in Seq(S) /\ Len(row) = IF first + 1 <= last THEN last - (first + 1) + 1 ELSE 0
      /\ \A i \in 1..(last - (first + 1) + 1) : row[i] = flat[(first + 1) + i - 1]
  <2>1. first + 1 \in Int /\ last \in Int /\ \A i \in (first + 1)..last : flat[i] \in S
    BY <1>1, <1>6, <1>7
  <2> QED
    BY <2>1, SubSeqProperties
<1>9. GridRows(flat, w, h)[r] = row
  BY DEF GridRows, first, last
<1>10. c \in DOMAIN row
  BY <1>9 DEF flat, points
<1> HIDE DEF row
<1>11. c \in 1..(last - first) /\ row[c] = flat[first + c]
  <2>1. DOMAIN row = 1..Len(row)
    BY <1>8
  <2> QED
    BY <1>1, <1>7, <1>8, <1>10, <2>1
<1>12. first + c \in 1..Len(flat) /\ c \in 1..w
  BY <1>1, <1>6, <1>7, <1>11
<1>13. first + c \in 1..(w * h) /\ flat[first + c] = points[first + c]
  BY <1>3, <1>5, <1>6, <1>1, <1>12 DEF Begins
<1>14. (first + c - 1) \div w = r - 1 /\ (first + c - 1) % w = c - 1
  <2>1. first + c - 1 = (r - 1) * w + (c - 1) /\ c - 1 \in 0..(w - 1)
    BY <1>12 DEF first
  <2>2. r - 1 \in Nat /\ w \in Nat \ {0}
    OBVIOUS
  <2>3. ((r - 1) * w + (c - 1)) \div w = r - 1 /\ ((r - 1) * w + (c - 1)) % w = c - 1
    BY <2>1, <2>2, DivOf
  <2> QED
    BY <2>1, <2>3
<1>15. points[first + c] = <<r - 1, c - 1>>
  <2>1. PICK k \in 1..(w * h) : k = first + c
    BY <1>13
  <2>2. points[k] = <<(k - 1) \div w, (k - 1) % w>>
    BY <1>2, <2>1
  <2>3. (k - 1) \div w = r - 1 /\ (k - 1) % w = c - 1
    BY <1>1, <1>12, <1>14, <2>1
  <2> QED
    BY <2>1, <2>2, <2>3
<1>16. row[c] = <<r - 1, c - 1>>
  BY <1>11, <1>13, <1>15
<1> QED
  BY <1>9, <1>16 DEF flat, points

\* A row of an earlier partition, or of the same and before, comes sooner.
Sooner(x, y) == x[1] < y[1] \/ (x[1] = y[1] /\ x[2] < y[2])

\* The rows of the first i partitions, and what a lookup of these gives for a limit.
DueRows(partitions, i) == {x \in Nat \X Nat : x[1] \in 1..i /\ x[2] \in 1..Listed(partitions[x[1]])}

FirstOf(rows, due, limit) ==
    /\ rows \in Seq(Nat \X Nat) /\ Len(rows) <= limit
    /\ \A k \in 1..Len(rows) : rows[k] \in due
    /\ \A j, k \in 1..Len(rows) : j < k => Sooner(rows[j], rows[k])
    /\ \A x \in due : \/ \E k \in 1..Len(rows) : rows[k] = x
                      \/ Len(rows) = limit /\ \A k \in 1..Len(rows) : Sooner(rows[k], x)

WithRows(partitions, i, limit, so) == so \o RowsOf(partitions, i, limit, so)

\* One more partition keeps the rows in order, within the limit.
LEMMA PartitionAdds ==
    ASSUME NEW partitions, NEW i \in Nat \ {0}, NEW limit \in Nat, Listed(partitions[i]) \in Nat,
           NEW so \in Seq(Nat \X Nat), Len(so) <= limit
    PROVE  /\ WithRows(partitions, i, limit, so) \in Seq(Nat \X Nat)
           /\ Len(WithRows(partitions, i, limit, so)) = Len(so) + Lesser(Listed(partitions[i]), limit - Len(so))
           /\ \A k \in 1..Len(so) : WithRows(partitions, i, limit, so)[k] = so[k]
           /\ \A k \in 1..Lesser(Listed(partitions[i]), limit - Len(so)) :
                 WithRows(partitions, i, limit, so)[Len(so) + k] = <<i, k>>
<1> DEFINE len == Len(so)
           more == RowsOf(partitions, i, limit, so)
           m == Lesser(Listed(partitions[i]), limit - len)
           some == so \o more
           S == Nat \X Nat
<1>1. len \in Nat /\ m \in Nat
  BY DEF Lesser
<1>2. more \in [1..m -> S] /\ \A k \in 1..m : more[k] = <<i, k>>
  BY <1>1 DEF RowsOf
<1> HIDE DEF more, m
<1>3. more \in Seq(S) /\ Len(more) = m
  BY <1>1, <1>2, FunctionIsSeq
<1>4. /\ some \in Seq(S) /\ Len(some) = len + m
      /\ \A k \in 1..(Len(so) + Len(more)) : some[k] = IF k <= Len(so) THEN so[k] ELSE more[k - Len(so)]
  BY <1>3, ConcatProperties, Zenon
<1> HIDE DEF some, S, len
<1>5. Len(so) = len
  BY DEF len
<1>6. \A k \in 1..len : some[k] = so[k]
  BY <1>1, <1>3, <1>4, <1>5
<1>7. \A k \in 1..m : some[len + k] = <<i, k>>
  BY <1>1, <1>2, <1>3, <1>4, <1>5
<1> QED
  BY <1>4, <1>6, <1>7 DEF some, more, m, len, S, WithRows

\* The first rows of i - 1 partitions, and those of the i-th that there is room for,
\* are the first rows of i partitions.
LEMMA FirstOfMore ==
    ASSUME NEW partitions, NEW i \in Nat \ {0}, NEW limit \in Nat,
           \A j \in 1..i : Listed(partitions[j]) \in Nat,
           NEW so, FirstOf(so, DueRows(partitions, i - 1), limit)
    PROVE  FirstOf(WithRows(partitions, i, limit, so), DueRows(partitions, i), limit)
<1> DEFINE len == Len(so)
           m == Lesser(Listed(partitions[i]), limit - len)
           some == WithRows(partitions, i, limit, so)
           due == DueRows(partitions, i)
           before == DueRows(partitions, i - 1)
<1>1. /\ so \in Seq(Nat \X Nat) /\ len <= limit /\ len \in Nat
      /\ \A k \in 1..len : so[k] \in before
      /\ \A j, k \in 1..len : j < k => Sooner(so[j], so[k])
      /\ \A x \in before : \/ \E k \in 1..len : so[k] = x
                           \/ len = limit /\ \A k \in 1..len : Sooner(so[k], x)
  BY DEF FirstOf
<1>2. Listed(partitions[i]) \in Nat /\ m \in Nat /\ m <= Listed(partitions[i]) /\ len + m <= limit
      /\ (m = Listed(partitions[i]) \/ len + m = limit)
  BY <1>1 DEF Lesser
<1>3. /\ some \in Seq(Nat \X Nat) /\ Len(some) = len + m
      /\ \A k \in 1..len : some[k] = so[k]
      /\ \A k \in 1..m : some[len + k] = <<i, k>>
  BY <1>1, <1>2, PartitionAdds
<1>4. /\ before \subseteq due
      /\ \A x \in before : x \in Nat \X Nat /\ x[1] < i
      /\ \A k \in 1..m : <<i, k>> \in due
      /\ \A x \in due : x \in before \/ \E k \in 1..Listed(partitions[i]) : x = <<i, k>>
  <2>1. before \subseteq due /\ \A x \in before : x \in Nat \X Nat /\ x[1] < i
    BY DEF DueRows
  <2>2. \A k \in 1..m : <<i, k>> \in due
    BY <1>2 DEF DueRows
  <2>3. ASSUME NEW x \in due PROVE x \in before \/ \E k \in 1..Listed(partitions[i]) : x = <<i, k>>
    <3>1. x \in Nat \X Nat /\ x[1] \in 1..i /\ x[2] \in 1..Listed(partitions[x[1]])
      BY <2>3 DEF DueRows
    <3>2. CASE x[1] = i
      BY <3>1, <3>2
    <3>3. CASE x[1] # i
      BY <3>1, <3>3 DEF DueRows
    <3> QED
      BY <3>2, <3>3
  <2> QED
    BY <2>1, <2>2, <2>3
<1> HIDE DEF some, due, before, m, len
<1>5. \A k \in 1..Len(some) : (k \in 1..len /\ some[k] = so[k])
                              \/ (len < k /\ k - len \in 1..m /\ some[k] = <<i, k - len>>)
  <2> SUFFICES ASSUME NEW k \in 1..Len(some), ~(k \in 1..len)
               PROVE  len < k /\ k - len \in 1..m /\ some[k] = <<i, k - len>>
    BY <1>3
  <2>1. len < k /\ k - len \in 1..m /\ len + (k - len) = k
    BY <1>1, <1>2, <1>3
  <2> QED
    BY <1>3, <2>1
<1>6. \A k \in 1..Len(some) : some[k] \in due
  BY <1>1, <1>4, <1>5
<1>7. ASSUME NEW j \in 1..Len(some), NEW k \in 1..Len(some), j < k PROVE Sooner(some[j], some[k])
  <2>1. CASE k \in 1..len /\ some[k] = so[k]
    <3>1. j \in 1..len /\ some[j] = so[j]
      <4>1. j \in 1..len
        BY <1>1, <1>2, <1>3, <1>7, <2>1
      <4> QED
        BY <1>3, <4>1
    <3> QED
      BY <1>1, <1>7, <2>1, <3>1
  <2>2. CASE len < k /\ k - len \in 1..m /\ some[k] = <<i, k - len>>
    <3>1. CASE j \in 1..len /\ some[j] = so[j]
      <4>1. some[j] \in Nat \X Nat /\ some[j][1] < i
        BY <1>1, <1>4, <3>1
      <4> QED
        BY <2>2, <4>1 DEF Sooner
    <3>2. CASE len < j /\ j - len \in 1..m /\ some[j] = <<i, j - len>>
      <4>1. j - len < k - len
        BY <1>1, <1>2, <1>3, <1>7
      <4> QED
        BY <2>2, <3>2, <4>1 DEF Sooner
    <3> QED
      BY <1>5, <3>1, <3>2
  <2> QED
    BY <1>5, <2>1, <2>2
<1>8. ASSUME NEW x \in due
      PROVE  \/ \E k \in 1..Len(some) : some[k] = x
             \/ Len(some) = limit /\ \A k \in 1..Len(some) : Sooner(some[k], x)
  <2>1. CASE x \in before
    <3>1. CASE \E k \in 1..len : so[k] = x
      <4>1. \A k \in 1..len : k \in 1..Len(some)
        BY <1>1, <1>2, <1>3
      <4> QED
        BY <1>3, <3>1, <4>1
    <3>2. CASE len = limit /\ \A k \in 1..len : Sooner(so[k], x)
      <4>1. m = 0 /\ Len(some) = limit /\ Len(some) = len
        BY <1>1, <1>2, <1>3, <3>2
      <4> QED
        BY <1>3, <3>2, <4>1
    <3> QED
      BY <1>1, <2>1, <3>1, <3>2
  <2>2. CASE \E k \in 1..Listed(partitions[i]) : x = <<i, k>>
    <3>1. PICK k \in 1..Listed(partitions[i]) : x = <<i, k>>
      BY <2>2
    <3>2. CASE k <= m
      <4>1. k \in 1..m
        BY <1>2, <3>1, <3>2
      <4>2. len + k \in 1..Len(some)
        BY <1>1, <1>2, <1>3, <4>1
      <4> QED
        BY <1>3, <3>1, <4>1, <4>2
    <3>3. CASE m < k
      <4>1. Len(some) = limit
        BY <1>1, <1>2, <1>3, <3>3
      <4>2. \A l \in 1..Len(some) : Sooner(some[l], x)
        <5> SUFFICES ASSUME NEW l \in 1..Len(some) PROVE Sooner(some[l], x)
          OBVIOUS
        <5>1. CASE l \in 1..len /\ some[l] = so[l]
          <6>1. some[l] \in Nat \X Nat /\ some[l][1] < i
            BY <1>1, <1>4, <5>1
          <6> QED
            BY <3>1, <6>1 DEF Sooner
        <5>2. CASE len < l /\ l - len \in 1..m /\ some[l] = <<i, l - len>>
          BY <1>2, <3>1, <3>3, <5>2 DEF Sooner
        <5> QED
          BY <1>5, <5>1, <5>2
      <4> QED
        BY <4>1, <4>2
    <3> QED
      BY <1>2, <3>2, <3>3
  <2> QED
    BY <1>4, <1>8, <2>1, <2>2
<1>9. Len(some) <= limit
  BY <1>2, <1>3
<1> QED
  <2>1. FirstOf(some, due, limit)
    BY <1>3, <1>6, <1>7, <1>8, <1>9 DEF FirstOf
  <2> QED
    BY <2>1 DEF some, due

\* What LookupRows gives is the first rows of all the partitions.
LEMMA LookupGivesFirst ==
    ASSUME NEW partitions, NEW limit \in Nat, Len(partitions) \in Nat,
           \A i \in 1..Len(partitions) : Listed(partitions[i]) \in Nat
    PROVE  FirstOf(LookupRows(partitions, limit), DueRows(partitions, Len(partitions)), limit)
<1> DEFINE n == Len(partitions)
           Names == {so \in Seq(Nat \X Nat) : Len(so) <= limit}
           next == [x \in Names \X (1..n) |-> WithRows(partitions, x[2], limit, x[1])]
           Body(g) == [i \in 0..Len(partitions) |->
                         IF i = 0 THEN <<>> ELSE g[i - 1] \o RowsOf(partitions, i, limit, g[i - 1])]
           rows == CHOOSE g : g = Body(g)
<1>1. n \in Nat /\ \A k \in 1..n : k \in Nat \ {0} /\ k - 1 \in 0..n /\ k \in 0..n /\ k # 0
  OBVIOUS
<1>2. LookupRows(partitions, limit) = rows[n]
  BY Zenon DEF LookupRows
<1>3. <<>> \in Names /\ Len(<<>>) = 0
  BY EmptySeq
<1>4. \A so \in Names, k \in 1..n : WithRows(partitions, k, limit, so) \in Names
  <2> SUFFICES ASSUME NEW so \in Names, NEW k \in 1..n PROVE WithRows(partitions, k, limit, so) \in Names
    OBVIOUS
  <2>1. so \in Seq(Nat \X Nat) /\ Len(so) <= limit /\ Len(so) \in Nat
    OBVIOUS
  <2>2. /\ WithRows(partitions, k, limit, so) \in Seq(Nat \X Nat)
        /\ Len(WithRows(partitions, k, limit, so)) = Len(so) + Lesser(Listed(partitions[k]), limit - Len(so))
    BY <1>1, <2>1, PartitionAdds
  <2>3. Len(so) + Lesser(Listed(partitions[k]), limit - Len(so)) <= limit
    BY <2>1 DEF Lesser
  <2> QED
    BY <2>2, <2>3
<1>5. next \in [Names \X (1..n) -> Names]
      /\ \A so \in Names, k \in 1..n : next[<<so, k>>] = WithRows(partitions, k, limit, so)
  <2> HIDE DEF Names
  <2> QED
    BY <1>4
<1> HIDE DEF next
<1>6. PICK f \in [0..n -> Names] : Recurs(f, n, <<>>, next)
  <2> HIDE DEF Names, n
  <2> QED
    BY <1>1, <1>3, <1>5, RecursionUpTo
<1>7. f[0] = <<>> /\ \A k \in 1..n : f[k] = WithRows(partitions, k, limit, f[k - 1])
  <2> HIDE DEF Names, n
  <2> QED
    BY <1>1, <1>5, <1>6 DEF Recurs
<1>8. f = Body(f)
  <2>1. \A k \in 0..n : f[k] = Body(f)[k]
    <3> SUFFICES ASSUME NEW k \in 0..n PROVE f[k] = Body(f)[k]
      OBVIOUS
    <3>1. CASE k = 0
      BY <1>7, <3>1
    <3>2. CASE k # 0
      <4>1. k \in 1..n
        BY <1>1, <3>2
      <4>2. f[k] = f[k - 1] \o RowsOf(partitions, k, limit, f[k - 1])
        BY <1>7, <4>1, Zenon DEF WithRows
      <4> QED
        BY <3>2, <4>2, Zenon
    <3> QED
      BY <3>1, <3>2
  <2>2. f = [k \in 0..n |-> f[k]] /\ Body(f) = [k \in 0..n |-> Body(f)[k]]
    BY <1>6
  <2> HIDE DEF Body
  <2> QED
    BY <2>1, <2>2
<1>9. rows = Body(rows)
  BY <1>8, Zenon
<1> HIDE DEF rows
<1>10. rows[0] = <<>>
  BY <1>1, <1>9
<1>11. \A k \in 1..n : rows[k] = WithRows(partitions, k, limit, rows[k - 1])
  <2> SUFFICES ASSUME NEW k \in 1..n PROVE rows[k] = WithRows(partitions, k, limit, rows[k - 1])
    OBVIOUS
  <2>1. rows[k] = Body(rows)[k]
    BY <1>9
  <2>2. Body(rows)[k] = rows[k - 1] \o RowsOf(partitions, k, limit, rows[k - 1])
    BY <1>1, Zenon
  <2> QED
    BY <2>1, <2>2, Zenon DEF WithRows
<1> DEFINE T == {k \in 0..n : FirstOf(rows[k], DueRows(partitions, k), limit)}
<1>12. 0 \in T
  <2>1. DueRows(partitions, 0) = {}
    BY DEF DueRows
  <2>2. <<>> \in Seq(Nat \X Nat) /\ Len(<<>>) <= limit /\ 1..Len(<<>>) = {}
    BY <1>3
  <2>3. FirstOf(<<>>, {}, limit)
    BY <2>2, Zenon DEF FirstOf
  <2>4. FirstOf(rows[0], DueRows(partitions, 0), limit)
    BY <1>10, <2>1, <2>3, Zenon
  <2> QED
    BY <1>1, <2>4
<1>13. \A k \in 1..n : k - 1 \in T => k \in T
  <2> SUFFICES ASSUME NEW k \in 1..n, k - 1 \in T PROVE k \in T
    OBVIOUS
  <2>1. FirstOf(rows[k - 1], DueRows(partitions, k - 1), limit)
    OBVIOUS
  <2>2. k \in Nat \ {0} /\ \A j \in 1..k : j \in 1..n
    BY <1>1
  <2>3. \A j \in 1..k : Listed(partitions[j]) \in Nat
    BY <2>2
  <2>4. FirstOf(WithRows(partitions, k, limit, rows[k - 1]), DueRows(partitions, k), limit)
    BY <2>1, <2>2, <2>3, FirstOfMore
  <2> QED
    BY <1>1, <1>11, <2>4
<1> HIDE DEF T
<1>14. n \in T
  <2>1. 0..n \subseteq T
    <3> HIDE DEF n
    <3> QED
      BY <1>1, <1>12, <1>13, UpToInduction
  <2> QED
    BY <1>1, <2>1
<1> QED
  BY <1>2, <1>14 DEF T

\* LookupEmbeddings of partitions that there are: the first rows, and no fewer than
\* the limit where there are more.
LEMMA LookupsAreFirst ==
    ASSUME NEW in, in.limit \in Nat,
           Len(in.partitions) \in Nat, DOMAIN in.partitions = 1..Len(in.partitions),
           \A i \in 1..Len(in.partitions) : Listed(in.partitions[i]) \in Nat
    PROVE  RowsAreFirst(in, LookupEmbeddings(in))
<1> DEFINE given == LookupEmbeddings(in)
           n == Len(in.partitions)
           due == DueRows(in.partitions, n)
           W == {"nobody", "bucket", "validation", "ok", Unclassified}
           stages == <<CheckOf(in, {"product", "limit"}), CheckOf(in, {"bbox"}), CheckOf(in, {"dates"}),
                       CheckThat(in.pyarrow, Unclassified),
                       Ask("bucket", IF in.readable THEN "ok" ELSE Unclassified)>>
           rows == LookupRows(in.partitions, in.limit)
<1>1. FirstOf(rows, due, in.limit)
  BY LookupGivesFirst
<1>2. given.reply = "result" => FirstOf(given.value, due, in.limit)
  <2>1. CASE in.partitions = <<>> /\ in.wrong = {}
    <3>1. given.value = <<>>
      BY <2>1, Zenon DEF LookupEmbeddings, Returned
    <3>2. due = {} /\ <<>> \in Seq(Nat \X Nat) /\ Len(<<>>) = 0
      <4>1. n = 0
        BY <2>1
      <4> QED
        BY <4>1 DEF DueRows
    <3> HIDE DEF due
    <3>3. FirstOf(<<>>, due, in.limit)
      BY <3>2 DEF FirstOf
    <3> QED
      BY <3>1, <3>3
  <2>2. CASE ~(in.partitions = <<>> /\ in.wrong = {})
    <3>1. /\ stages \in Seq(Stages(W)) /\ DOMAIN stages = 1..5
          /\ \A i \in 1..5 : stages[i].says # "result"
      <4>1. /\ CheckOf(in, {"product", "limit"}) \in Stages(W) /\ CheckOf(in, {"bbox"}) \in Stages(W)
            /\ CheckOf(in, {"dates"}) \in Stages(W)
        BY DEF Stages, CheckOf, Check
      <4>2. /\ CheckThat(in.pyarrow, Unclassified) \in Stages(W)
            /\ Ask("bucket", IF in.readable THEN "ok" ELSE Unclassified) \in Stages(W)
        BY DEF Stages, CheckThat, Check, Ask
      <4>3. \A s \in Stages(W) : s.says # "result"
        BY DEF Stages, Unclassified
      <4> HIDE DEF W
      <4>4. stages \in Seq(Stages(W)) /\ Len(stages) = 5
        BY <4>1, <4>2
      <4> HIDE DEF stages
      <4>5. \A i \in 1..5 : stages[i] \in Stages(W)
        BY <4>4, ElementOfSeq
      <4> QED
        BY <4>3, <4>4, <4>5
    <3>2. given = Staged(stages, rows)
      BY <2>2, Zenon DEF LookupEmbeddings
    <3> HIDE DEF stages, rows, W
    <3>3. Staged(stages, rows).reply = "result" => Staged(stages, rows).value = rows
      BY <3>1, StagedReturns
    <3> QED
      BY <1>1, <3>2, <3>3
  <2> QED
    BY <2>1, <2>2
<1> HIDE DEF given
<1>3. SUFFICES ASSUME given.reply = "result" PROVE RowsAreFirst(in, given)
  BY DEF RowsAreFirst, given
<1> DEFINE value == given.value
           listed == UNION {{<<i, k>> : k \in 1..Listed(in.partitions[i])} : i \in DOMAIN in.partitions}
<1>4. FirstOf(value, due, in.limit)
  BY <1>2, <1>3
<1>5. listed = due
  <2>1. \A x \in listed : x \in due
    BY DEF DueRows
  <2>2. \A x \in due : x \in listed
    BY DEF DueRows
  <2> QED
    BY <2>1, <2>2
<1> HIDE DEF value, listed, due
<1>6. DOMAIN value = 1..Len(value)
  BY <1>4 DEF FirstOf
<1>7. {value[i] : i \in DOMAIN value} \subseteq listed /\ Len(value) <= in.limit
  BY <1>4, <1>5, <1>6 DEF FirstOf
<1>8. \A i, j \in DOMAIN value : i < j =>
         (value[i][1] < value[j][1] \/ (value[i][1] = value[j][1] /\ value[i][2] < value[j][2]))
  BY <1>4, <1>6 DEF FirstOf, Sooner
<1>9. \A x \in listed \ {value[i] : i \in DOMAIN value} :
         /\ Len(value) = in.limit
         /\ \A y \in {value[i] : i \in DOMAIN value} : y[1] < x[1] \/ (y[1] = x[1] /\ y[2] < x[2])
  <2> SUFFICES ASSUME NEW x \in due, \A k \in 1..Len(value) : value[k] # x
               PROVE  Len(value) = in.limit /\ \A k \in 1..Len(value) : Sooner(value[k], x)
    BY <1>5, <1>6 DEF Sooner
  <2> QED
    BY <1>4 DEF FirstOf
<1> QED
  BY <1>7, <1>8, <1>9, Zenon DEF RowsAreFirst, value, listed

\* Elevation of a grid: each cell of the rows that come back is of its own point.
LEMMA GridsAreAligned ==
    ASSUME NEW in, in.width \in Nat \ {0}, in.height \in Nat \ {0}, in.missing \in Nat,
           Understood(in.answer) # "result"
    PROVE  GridIsAligned(in, Elevation(in))
<1> DEFINE w == in.width
           h == in.height
           grid == GridRows(SampleAll(GridPoints(w, h), in.missing), w, h)
           W == {"nobody", "validation", "ok", in.source, Understood(in.answer)}
           checks == <<CheckOf(in, {"source"}), CheckOf(in, {"location"})>>
           samples == SampleStages(in, w * h)
           stages == checks \o samples
           S == {s \in Stages(W) : s.says # "result"}
<1>1. w * h \in Nat \ {0}
  OBVIOUS
<1>2. checks \in Seq(S)
  <2>1. CheckOf(in, {"source"}) \in S /\ CheckOf(in, {"location"}) \in S
    BY DEF Stages, CheckOf, Check
  <2> HIDE DEF S
  <2> QED
    BY <2>1
<1>3. samples \in Seq(S)
  <2> DEFINE n == CeilDiv(w * h, Batch)
  <2>1. n \in Nat
    BY <1>1, BatchCount
  <2>2. \A b \in 1..n : Ask(in.source, IF b = in.failing THEN Understood(in.answer) ELSE "ok") \in S
    BY DEF Stages, Ask
  <2> HIDE DEF S
  <2>3. samples \in [1..n -> S]
    BY <2>2 DEF SampleStages
  <2> HIDE DEF samples, n
  <2> QED
    BY <2>1, <2>3, FunctionIsSeq
<1> HIDE DEF checks, samples
<1>4. stages \in Seq(S)
  BY <1>2, <1>3, ConcatProperties, Zenon
<1> HIDE DEF stages
<1>5. stages \in Seq(Stages(W)) /\ \A i \in DOMAIN stages : stages[i].says # "result"
  <2>1. DOMAIN stages = 1..Len(stages) /\ \A i \in 1..Len(stages) : stages[i] \in S
    BY <1>4, ElementOfSeq, LenProperties
  <2>2. stages \in Seq(Stages(W))
    <3> HIDE DEF W
    <3> QED
      BY <1>4
  <2> QED
    BY <2>1, <2>2
<1> HIDE DEF grid, W
<1>6. Staged(stages, grid).reply = "result" => Staged(stages, grid).value = grid
  BY <1>5, StagedReturns
<1>7. ~in.point => Elevation(in) = Staged(stages, grid)
  BY Zenon DEF Elevation, ElevationStages, grid, stages, checks, samples
<1>8. SUFFICES ASSUME Elevation(in).reply = "result", ~in.point, in.missing = 0 \/ w * h <= Batch,
                      NEW r \in 1..h, NEW c \in 1..w, c \in DOMAIN Elevation(in).value[r]
               PROVE  Elevation(in).value[r][c] = <<r - 1, c - 1>>
  BY DEF GridIsAligned
<1>9. Elevation(in).value = grid
  BY <1>6, <1>7, <1>8
<1> QED
  BY <1>8, <1>9, RowsAreAligned DEF grid

\* What the inputs of the tools are.
LEMMA TerrainInputsAre ==
    ASSUME NEW in \in TerrainInputs
    PROVE  /\ in.width \in Nat \ {0} /\ in.height \in Nat \ {0} /\ in.missing \in Nat
           /\ Understood(in.answer) # "result"
  BY DEF TerrainInputs, Understood, BadReplies

\* The partitions and the limit of a lookup.
PartitionsOf(partitions) ==
    /\ Len(partitions) \in Nat /\ DOMAIN partitions = 1..Len(partitions)
    /\ \A i \in 1..Len(partitions) : Listed(partitions[i]) \in Nat

LookupOf(in) ==
    /\ {"limit", "partitions"} \subseteq DOMAIN in
    /\ in["limit"] \in Nat /\ PartitionsOf(in["partitions"])

\* What differs from an input is an input still.
LEMMA AlteredLookups ==
    ASSUME NEW inputs, NEW others, \A in \in inputs : LookupOf(in),
           others["limit"] \subseteq Nat, \A v \in others["partitions"] : PartitionsOf(v)
    PROVE  \A in \in Altered(inputs, others) : LookupOf(in)
<1> SUFFICES ASSUME NEW in \in inputs, NEW f \in DOMAIN others, NEW v \in others[f]
             PROVE  LookupOf([in EXCEPT ![f] = v])
  BY DEF Altered
<1>1. LookupOf(in) 
  OBVIOUS
<1>2. CASE f = "limit"
  BY <1>1, <1>2 DEF LookupOf
<1>3. CASE f = "partitions"
  BY <1>1, <1>3 DEF LookupOf
<1>4. CASE f # "limit" /\ f # "partitions"
  BY <1>1, <1>4 DEF LookupOf
<1> QED
  BY <1>2, <1>3, <1>4

LEMMA TileInputsAre ==
    ASSUME NEW in \in TileInputs
    PROVE  in.limit \in Nat /\ PartitionsOf(in.partitions)
<1>1. PartitionsOf(OrdinaryTile["partitions"]) /\ OrdinaryTile["limit"] = 2
      /\ {"limit", "partitions"} \subseteq DOMAIN OrdinaryTile
  <2>1. OrdinaryTile["partitions"] = <<[listing |-> "ok", rows |-> 1], [listing |-> "ok", rows |-> 2]>>
        /\ OrdinaryTile["limit"] = 2 /\ {"limit", "partitions"} \subseteq DOMAIN OrdinaryTile
    BY DEF OrdinaryTile
  <2>2. PartitionsOf(<<[listing |-> "ok", rows |-> 1], [listing |-> "ok", rows |-> 2]>>)
    BY DEF PartitionsOf, Listed
  <2> QED
    BY <2>1, <2>2
<1>2. TileOthers["limit"] = {1, 5} /\ \A v \in TileOthers["partitions"] : PartitionsOf(v)
  <2>1. TileOthers["limit"] = {1, 5}
        /\ TileOthers["partitions"] = {<<>>, <<[listing |-> "error", rows |-> 2], [listing |-> "ok", rows |-> 1]>>}
    BY DEF TileOthers
  <2>2. PartitionsOf(<<>>)
        /\ PartitionsOf(<<[listing |-> "error", rows |-> 2], [listing |-> "ok", rows |-> 1]>>)
    BY DEF PartitionsOf, Listed
  <2> QED
    BY <2>1, <2>2
<1>3. \A x \in {OrdinaryTile} : LookupOf(x)
  BY <1>1 DEF LookupOf
<1>4. \A x \in Altered({OrdinaryTile}, TileOthers) : LookupOf(x)
  BY <1>2, <1>3, AlteredLookups
<1>5. \A x \in TileInputs : LookupOf(x)
  BY <1>2, <1>4, AlteredLookups DEF TileInputs, Twice
<1> QED
  BY <1>5 DEF LookupOf

-----------------------------------------------------------------------------
(* Sequences put together, and their beginnings.                            *)

\* FlattenSeq appends one sequence after the other.
Flattened(f, seqs, n) == f[0] = <<>> /\ \A k \in 1..n : f[k] = f[k - 1] \o seqs[k]
LEMMA FlattenMeans ==
    ASSUME NEW S, NEW n \in Nat, NEW seqs \in [1..n -> Seq(S)]
    PROVE  \E f \in [0..n -> Seq(S)] : Flattened(f, seqs, n) /\ FlattenSeq(seqs) = f[n]
<1> DEFINE Names == Seq(S)
           next == [x \in Names \X (1..n) |-> x[1] \o seqs[x[2]]]
           Body(g) == [i \in 1..Len(seqs) |-> IF i = 1 THEN seqs[i] ELSE g[i - 1] \o seqs[i]]
           flat == CHOOSE g : g = Body(g)
<1>1. seqs \in Seq(Names) /\ Len(seqs) = n
  BY FunctionIsSeq
<1>2. next \in [Names \X (1..n) -> Names] /\ \A so \in Names, k \in 1..n : next[<<so, k>>] = so \o seqs[k]
  <2>1. \A so \in Names, k \in 1..n : so \o seqs[k] \in Names
    BY ConcatProperties
  <2> HIDE DEF Names
  <2> QED
    BY <2>1
<1>3. <<>> \in Names
  BY EmptySeq
<1> HIDE DEF next
<1>4. PICK f \in [0..n -> Names] : Recurs(f, n, <<>>, next)
  <2> HIDE DEF Names
  <2> QED
    BY <1>2, <1>3, RecursionUpTo
<1>5. Flattened(f, seqs, n)
  <2>1. \A k \in 1..n : k - 1 \in 0..n
    OBVIOUS
  <2> HIDE DEF Names
  <2> QED
    BY <1>2, <1>4, <2>1 DEF Recurs, Flattened
<1>6. CASE n = 0
  <2>1. FlattenSeq(seqs) = seqs /\ seqs = <<>>
    BY <1>1, <1>6 DEF FlattenSeq
  <2> QED
    BY <1>4, <1>5, <1>6, <2>1 DEF Flattened
<1>7. CASE n # 0
  <2> DEFINE rest == [i \in 1..n |-> f[i]]
  <2>1. \A k \in 1..n : rest[k] = Body(rest)[k]
    <3> SUFFICES ASSUME NEW k \in 1..n PROVE rest[k] = Body(rest)[k]
      OBVIOUS
    <3>1. rest[k] = f[k] /\ f[k] = f[k - 1] \o seqs[k] /\ f[0] = <<>>
      BY <1>5 DEF Flattened
    <3>2. CASE k = 1
      <4>1. f[1] = <<>> \o seqs[1]
        <5>1. 1 - 1 = 0
          OBVIOUS
        <5> QED
          BY <3>1, <3>2, <5>1, Zenon
      <4>2. <<>> \o seqs[1] = seqs[1]
        BY <3>2, ConcatEmptySeq
      <4> QED
        BY <1>1, <3>1, <3>2, <4>1, <4>2
    <3>3. CASE k # 1
      <4>1. rest[k - 1] = f[k - 1]
        BY <3>3
      <4>2. Body(rest)[k] = rest[k - 1] \o seqs[k]
        BY <1>1, <3>3, Zenon
      <4> QED
        BY <3>1, <4>1, <4>2
    <3> QED
      BY <3>2, <3>3
  <2>2. rest = [i \in 1..n |-> rest[i]] /\ Body(rest) = [i \in 1..n |-> Body(rest)[i]]
    BY <1>1
  <2>3. rest = Body(rest)
    <3> HIDE DEF Body, rest
    <3> QED
      BY <2>1, <2>2
  <2>4. flat = Body(flat)
    <3> HIDE DEF rest
    <3> QED
      BY <2>3, Zenon
  <2> HIDE DEF flat
  <2>5. FlattenSeq(seqs) = flat[n]
    <3>1. Len(seqs) # 0
      BY <1>1, <1>7
    <3>2. FlattenSeq(seqs) = flat[Len(seqs)]
      BY <3>1, Zenon DEF FlattenSeq, flat
    <3> QED
      BY <1>1, <3>2
  <2> DEFINE T == {k \in 0..n : k = 0 \/ flat[k] = f[k]}
  <2>6. \A k \in 1..n : k - 1 \in T => k \in T
    <3> SUFFICES ASSUME NEW k \in 1..n, k - 1 \in T PROVE flat[k] = f[k]
      OBVIOUS
    <3>1. f[k] = f[k - 1] \o seqs[k] /\ f[0] = <<>>
      BY <1>5 DEF Flattened
    <3>2. flat[k] = Body(flat)[k]
      BY <2>4
    <3>3. CASE k = 1
      <4>1. f[1] = <<>> \o seqs[1]
        <5>1. 1 - 1 = 0
          OBVIOUS
        <5> QED
          BY <3>1, <3>3, <5>1, Zenon
      <4>2. <<>> \o seqs[1] = seqs[1]
        BY <3>3, ConcatEmptySeq
      <4>3. Body(flat)[k] = seqs[k]
        BY <1>1, <3>3
      <4> QED
        BY <3>2, <3>3, <4>1, <4>2, <4>3
    <3>4. CASE k # 1
      <4>1. flat[k - 1] = f[k - 1]
        BY <3>4
      <4>2. Body(flat)[k] = flat[k - 1] \o seqs[k]
        BY <1>1, <3>4, Zenon
      <4> QED
        BY <3>1, <3>2, <4>1, <4>2
    <3> QED
      BY <3>3, <3>4
  <2>7. 0 \in T
    OBVIOUS
  <2>8. 0..n \subseteq T
    <3> HIDE DEF T
    <3> QED
      BY <2>6, <2>7, UpToInduction
  <2>9. flat[n] = f[n]
    BY <1>7, <2>8
  <2> QED
    BY <1>4, <1>5, <2>5, <2>9
<1> QED
  BY <1>6, <1>7

\* Take gives the beginning, all of it where that is no longer.
LEMMA TakeMeans ==
    ASSUME NEW S, NEW seq \in Seq(S), NEW n \in Nat
    PROVE  /\ Take(seq, n) \in Seq(S) /\ Len(Take(seq, n)) = Lesser(n, Len(seq))
           /\ \A i \in 1..Len(Take(seq, n)) : Take(seq, n)[i] = seq[i]
           /\ Len(seq) <= n => Take(seq, n) = seq
<1> DEFINE len == IF n < Len(seq) THEN n ELSE Len(seq)
           part == SubSeq(seq, 1, len)
<1>1. Len(seq) \in Nat /\ len \in Nat /\ len <= Len(seq) /\ \A i \in 1..Len(seq) : seq[i] \in S
  BY ElementOfSeq
<1>2. len = Lesser(n, Len(seq)) /\ (Len(seq) <= n => len = Len(seq))
  BY <1>1 DEF Lesser
<1>3. Take(seq, n) = part
  BY DEF Take
<1> HIDE DEF len
<1>4. /\ part \in Seq(S) /\ Len(part) = IF 1 <= len THEN len - 1 + 1 ELSE 0
      /\ \A i \in 1..(len - 1 + 1) : part[i] = seq[1 + i - 1]
  <2>1. \A i \in 1..len : seq[i] \in S
    BY <1>1
  <2> QED
    BY <1>1, <2>1, SubSeqProperties
<1> HIDE DEF part
<1>5. Len(part) = len
  BY <1>1, <1>4
<1>6. \A i \in 1..len : part[i] = seq[i]
  <2>1. len - 1 + 1 = len /\ \A i \in 1..len : 1 + i - 1 = i
    BY <1>1
  <2> QED
    BY <1>4, <2>1
<1>7. Len(seq) <= n => part = seq
  <2> SUFFICES ASSUME Len(seq) <= n PROVE part = seq
    OBVIOUS
  <2>1. Len(part) = Len(seq) /\ \A i \in 1..Len(part) : part[i] = seq[i]
    BY <1>2, <1>5, <1>6
  <2> QED
    BY <1>4, <2>1, SeqEqual
<1> QED
  BY <1>2, <1>3, <1>4, <1>5, <1>6, <1>7

\* The beginning of two sequences, one after the other.
LEMMA TakeOfTwo ==
    ASSUME NEW S, NEW a \in Seq(S), NEW b \in Seq(S), NEW n \in Nat
    PROVE  Take(a \o b, n) = IF Len(a) < n THEN a \o Take(b, n - Len(a)) ELSE Take(a, n)
<1> DEFINE both == a \o b
<1>1. Len(a) \in Nat /\ Len(b) \in Nat
  OBVIOUS
<1>2. /\ both \in Seq(S) /\ Len(both) = Len(a) + Len(b)
      /\ \A i \in 1..(Len(a) + Len(b)) : both[i] = IF i <= Len(a) THEN a[i] ELSE b[i - Len(a)]
  BY ConcatProperties, Zenon
<1> HIDE DEF both
<1>3. /\ Take(both, n) \in Seq(S) /\ Len(Take(both, n)) = Lesser(n, Len(both))
      /\ \A i \in 1..Len(Take(both, n)) : Take(both, n)[i] = both[i]
  BY <1>2, TakeMeans
<1>4. CASE Len(a) < n
  <2> DEFINE more == Take(b, n - Len(a))
             some == a \o more
  <2>1. n - Len(a) \in Nat
    BY <1>1, <1>4
  <2>2. /\ more \in Seq(S) /\ Len(more) = Lesser(n - Len(a), Len(b))
        /\ \A i \in 1..Len(more) : more[i] = b[i]
    BY <2>1, TakeMeans
  <2> HIDE DEF more
  <2>3. /\ some \in Seq(S) /\ Len(some) = Len(a) + Len(more)
        /\ \A i \in 1..(Len(a) + Len(more)) : some[i] = IF i <= Len(a) THEN a[i] ELSE more[i - Len(a)]
    BY <2>2, ConcatProperties, Zenon
  <2> HIDE DEF some
  <2>4. Len(some) = Len(Take(both, n)) /\ Len(more) \in Nat /\ Len(more) <= Len(b)
    BY <1>1, <1>2, <1>3, <1>4, <2>2, <2>3 DEF Lesser
  <2>5. \A i \in 1..Len(some) : some[i] = Take(both, n)[i]
    <3> SUFFICES ASSUME NEW i \in 1..Len(some) PROVE some[i] = both[i]
      BY <1>3, <2>4
    <3>1. CASE i <= Len(a)
      <4>1. some[i] = a[i]
        BY <1>1, <2>3, <2>4, <3>1
      <4>2. both[i] = a[i]
        BY <1>1, <1>2, <3>1
      <4> QED
        BY <4>1, <4>2
    <3>2. CASE Len(a) < i
      <4>1. i - Len(a) \in 1..Len(more) /\ i \in 1..(Len(a) + Len(b))
        BY <1>1, <2>3, <2>4, <3>2
      <4>2. some[i] = more[i - Len(a)]
        BY <1>1, <2>3, <2>4, <3>2
      <4>3. both[i] = b[i - Len(a)]
        BY <1>1, <1>2, <3>2, <4>1
      <4>4. more[i - Len(a)] = b[i - Len(a)]
        BY <2>2, <4>1
      <4> QED
        BY <4>2, <4>3, <4>4
    <3> QED
      BY <1>1, <3>1, <3>2
  <2>6. some = Take(both, n)
    BY <1>3, <2>3, <2>4, <2>5, SeqEqual
  <2> QED
    BY <1>4, <2>6 DEF some, more, both
<1>5. CASE ~(Len(a) < n)
  <2>1. /\ Take(a, n) \in Seq(S) /\ Len(Take(a, n)) = Lesser(n, Len(a))
        /\ \A i \in 1..Len(Take(a, n)) : Take(a, n)[i] = a[i]
    BY TakeMeans
  <2>2. Len(Take(a, n)) = n /\ Len(Take(both, n)) = n
    BY <1>1, <1>2, <1>3, <1>5, <2>1 DEF Lesser
  <2>3. \A i \in 1..n : Take(a, n)[i] = Take(both, n)[i]
    BY <1>1, <1>2, <1>3, <1>5, <2>1, <2>2
  <2>4. Take(a, n) = Take(both, n)
    BY <1>3, <2>1, <2>2, <2>3, SeqEqual
  <2> QED
    BY <1>5, <2>4 DEF both
<1> QED
  BY <1>4, <1>5

\* Of the first k elements of a sequence each is met once, and nothing else.
MetSo(met, seq, k) ==
    /\ \A i, j \in 1..Len(met) : met[i] = met[j] => i = j
    /\ \A m \in 1..k : \E i \in 1..Len(met) : met[i] = seq[m]
    /\ \A i \in 1..Len(met) : \E m \in 1..k : met[i] = seq[m]
LEMMA OneMoreMet ==
    ASSUME NEW D, NEW n \in Nat, NEW seq \in [1..n -> D], NEW k \in 1..n,
           NEW met \in Seq(D), MetSo(met, seq, k - 1), NEW then, then = Meet(met, seq[k])
    PROVE  then \in Seq(D) /\ MetSo(then, seq, k)
<1> DEFINE e == seq[k]
           more == Append(met, e)
<1>1. e \in D /\ k \in Nat \ {0}
  OBVIOUS
<1>2. /\ Len(met) \in Nat /\ DOMAIN met = 1..Len(met)
      /\ \A m \in 1..k : m = k \/ m \in 1..(k - 1)
      /\ \A m \in 1..(k - 1) : m \in 1..k
      /\ k \in 1..k
  BY <1>1
<1> HIDE DEF e
<1>3. CASE \E i \in DOMAIN met : met[i] = e
  <2>1. then = met
    BY <1>3 DEF e, Meet
  <2>2. \E i \in 1..Len(met) : met[i] = e
    BY <1>2, <1>3
  <2>3. \A m \in 1..k : \E i \in 1..Len(met) : met[i] = seq[m]
    <3> SUFFICES ASSUME NEW m \in 1..k PROVE \E i \in 1..Len(met) : met[i] = seq[m]
      OBVIOUS
    <3>1. CASE m = k
      BY <2>2, <3>1 DEF e
    <3>2. CASE m \in 1..(k - 1)
      BY <3>2, Zenon DEF MetSo
    <3> QED
      BY <1>2, <3>1, <3>2
  <2>4. /\ \A i, j \in 1..Len(met) : met[i] = met[j] => i = j
        /\ \A i \in 1..Len(met) : \E m \in 1..k : met[i] = seq[m]
    BY <1>2, Zenon DEF MetSo
  <2> QED
    BY <2>1, <2>3, <2>4, Zenon DEF MetSo
<1>4. CASE ~\E i \in DOMAIN met : met[i] = e
  <2>1. then = more
    BY <1>4 DEF e, Meet
  <2>2. \A i \in 1..Len(met) : met[i] # e
    BY <1>2, <1>4
  <2>3. /\ more \in Seq(D) /\ Len(more) = Len(met) + 1 /\ more[Len(met) + 1] = e
        /\ \A i \in 1..Len(met) : more[i] = met[i]
    BY <1>1, AppendProperties
  <2> HIDE DEF more
  <2>4. \A i \in 1..Len(more) : i = Len(more) \/ i \in 1..Len(met)
    BY <1>2, <2>3
  <2>5. \A i, j \in 1..Len(more) : more[i] = more[j] => i = j
    <3> SUFFICES ASSUME NEW i \in 1..Len(more), NEW j \in 1..Len(more), more[i] = more[j] PROVE i = j
      OBVIOUS
    <3>1. CASE i \in 1..Len(met) /\ j \in 1..Len(met)
      BY <2>3, <3>1 DEF MetSo
    <3>2. CASE i = Len(more) /\ j \in 1..Len(met)
      BY <2>2, <2>3, <3>2
    <3>3. CASE j = Len(more) /\ i \in 1..Len(met)
      BY <2>2, <2>3, <3>3
    <3> QED
      BY <2>4, <3>1, <3>2, <3>3
  <2>6. \A m \in 1..k : \E i \in 1..Len(more) : more[i] = seq[m]
    <3> SUFFICES ASSUME NEW m \in 1..k PROVE \E i \in 1..Len(more) : more[i] = seq[m]
      OBVIOUS
    <3>1. CASE m = k
      <4>1. Len(more) \in 1..Len(more) /\ more[Len(more)] = seq[m]
        BY <1>2, <2>3, <3>1 DEF e
      <4> QED
        BY <4>1
    <3>2. CASE m \in 1..(k - 1)
      <4>1. PICK i \in 1..Len(met) : met[i] = seq[m]
        BY <3>2, Zenon DEF MetSo
      <4>2. i \in 1..Len(more) /\ more[i] = seq[m]
        BY <1>2, <2>3, <4>1
      <4> QED
        BY <4>2
    <3> QED
      BY <1>2, <3>1, <3>2
  <2>7. \A i \in 1..Len(more) : \E m \in 1..k : more[i] = seq[m]
    <3> SUFFICES ASSUME NEW i \in 1..Len(more) PROVE \E m \in 1..k : more[i] = seq[m]
      OBVIOUS
    <3>1. CASE i = Len(more)
      BY <1>2, <2>3, <3>1 DEF e
    <3>2. CASE i \in 1..Len(met)
      <4>1. PICK m \in 1..(k - 1) : met[i] = seq[m]
        BY <3>2, Zenon DEF MetSo
      <4> QED
        BY <1>2, <2>3, <3>2, <4>1
    <3> QED
      BY <2>4, <3>1, <3>2
  <2>8. MetSo(more, seq, k)
    BY <2>5, <2>6, <2>7, Zenon DEF MetSo
  <2>9. more \in Seq(D)
    BY <2>3
  <2> QED
    BY <2>1, <2>8, <2>9, Zenon
<1>5. (\E i \in DOMAIN met : met[i] = e) \/ ~(\E i \in DOMAIN met : met[i] = e)
  OBVIOUS
<1> HIDE DEF more
<1> QED
  BY <1>3, <1>4, <1>5, Zenon

\* Each element is met once.
LEMMA MetAre ==
    ASSUME NEW D, NEW n \in Nat, NEW seq \in [1..n -> D]
    PROVE  MetInOrder(seq) \in Seq(D) /\ MetSo(MetInOrder(seq), seq, n)
<1> DEFINE All == Seq(D)
           next == [x \in All \X (1..n) |-> Meet(x[1], seq[x[2]])]
           Body(g) == [k \in 0..Len(seq) |-> IF k = 0 THEN <<>> ELSE Meet(g[k - 1], seq[k])]
           met == CHOOSE g : g = Body(g)
<1>1. Len(seq) = n /\ \A k \in 1..n : k - 1 \in 0..n /\ k \in 0..n /\ k # 0
  BY FunctionIsSeq
<1>2. MetInOrder(seq) = met[n]
  <2>1. MetInOrder(seq) = met[Len(seq)]
    BY Zenon DEF MetInOrder
  <2> HIDE DEF met
  <2> QED
    BY <1>1, <2>1
<1>3. <<>> \in All
  OBVIOUS
<1>4. \A s \in All, k \in 1..n : Meet(s, seq[k]) \in All
  <2> SUFFICES ASSUME NEW s \in All, NEW k \in 1..n PROVE Meet(s, seq[k]) \in All
    OBVIOUS
  <2>1. seq[k] \in D
    OBVIOUS
  <2> QED
    BY <2>1, AppendProperties DEF Meet
<1>5. next \in [All \X (1..n) -> All] /\ \A s \in All, k \in 1..n : next[<<s, k>>] = Meet(s, seq[k])
  <2> HIDE DEF All
  <2> QED
    BY <1>4
<1> HIDE DEF next
<1>6. PICK f \in [0..n -> All] : Recurs(f, n, <<>>, next)
  <2> HIDE DEF All
  <2> QED
    BY <1>3, <1>5, RecursionUpTo
<1>7. f[0] = <<>> /\ \A k \in 1..n : f[k] = Meet(f[k - 1], seq[k])
  <2> HIDE DEF All
  <2> QED
    BY <1>1, <1>5, <1>6 DEF Recurs
<1>8. f = Body(f)
  <2>1. \A k \in 0..n : f[k] = Body(f)[k]
    <3> SUFFICES ASSUME NEW k \in 0..n PROVE f[k] = Body(f)[k]
      OBVIOUS
    <3>1. CASE k = 0
      BY <1>1, <1>7, <3>1
    <3>2. CASE k # 0
      <4>1. k \in 1..n
        BY <3>2
      <4> QED
        BY <1>1, <1>7, <3>2, <4>1
    <3> QED
      BY <3>1, <3>2
  <2>2. f = [k \in 0..n |-> f[k]] /\ Body(f) = [k \in 0..n |-> Body(f)[k]]
    BY <1>1, <1>6
  <2> HIDE DEF Body
  <2> QED
    BY <2>1, <2>2
<1>9. met = Body(met)
  BY <1>8, Zenon
<1> HIDE DEF met
<1>10. met[0] = <<>> /\ \A k \in 1..n : met[k] = Meet(met[k - 1], seq[k])
  <2>1. met[0] = Body(met)[0] /\ \A k \in 1..n : met[k] = Body(met)[k]
    BY <1>9
  <2>2. Body(met)[0] = <<>> /\ \A k \in 1..n : Body(met)[k] = Meet(met[k - 1], seq[k])
    BY <1>1
  <2> HIDE DEF Body
  <2> QED
    BY <2>1, <2>2
<1> DEFINE T == {k \in 0..n : met[k] \in All /\ MetSo(met[k], seq, k)}
<1>11. 0 \in T
  <2>1. MetSo(<<>>, seq, 0) /\ 0 \in 0..n
    BY DEF MetSo
  <2> HIDE DEF All
  <2> QED
    BY <1>3, <1>10, <2>1
<1>12. \A k \in 1..n : k - 1 \in T => k \in T
  <2> SUFFICES ASSUME NEW k \in 1..n, k - 1 \in T PROVE k \in T
    OBVIOUS
  <2>1. met[k - 1] \in All /\ MetSo(met[k - 1], seq, k - 1)
    OBVIOUS
  <2>2. met[k] = Meet(met[k - 1], seq[k])
    BY <1>10
  <2>3. met[k] \in All /\ MetSo(met[k], seq, k)
    BY <2>1, <2>2, OneMoreMet
  <2> QED
    BY <1>1, <2>3
<1> HIDE DEF T
<1>13. n \in T
  <2>1. 0..n \subseteq T
    BY <1>11, <1>12, UpToInduction
  <2> QED
    BY <2>1
<1> QED
  BY <1>2, <1>13 DEF T

\* What is in sequences is in their concatenation, and nothing else.
FlatSo(flat, seqs, n) ==
    /\ \A i \in 1..Len(flat) : \E k \in 1..n : \E j \in 1..Len(seqs[k]) : flat[i] = seqs[k][j]
    /\ \A k \in 1..n : \A j \in 1..Len(seqs[k]) : \E i \in 1..Len(flat) : flat[i] = seqs[k][j]
LEMMA OneMoreFlat ==
    ASSUME NEW S, NEW n \in Nat, NEW seqs \in [1..n -> Seq(S)], NEW k \in 1..n,
           NEW so \in Seq(S), FlatSo(so, seqs, k - 1), NEW then, then = so \o seqs[k]
    PROVE  then \in Seq(S) /\ FlatSo(then, seqs, k)
<1> SUFFICES ASSUME NEW more \in Seq(S), more = seqs[k] PROVE then \in Seq(S) /\ FlatSo(then, seqs, k)
  OBVIOUS
<1>1. /\ then \in Seq(S) /\ Len(then) = Len(so) + Len(more)
      /\ \A i \in 1..(Len(so) + Len(more)) :
            then[i] = IF i <= Len(so) THEN so[i] ELSE more[i - Len(so)]
  <2>1. so \o seqs[k] = so \o more
    BY Zenon
  <2> QED
    BY <2>1, ConcatProperties, Zenon
<1>2. Len(so) \in Nat /\ Len(more) \in Nat
  BY LenProperties
<1>3. /\ \A i \in 1..Len(so) : i \in 1..Len(then) /\ then[i] = so[i]
      /\ \A j \in 1..Len(more) : Len(so) + j \in 1..Len(then) /\ then[Len(so) + j] = more[j]
  BY <1>1, <1>2
<1>4. \A i \in 1..Len(then) : i \in 1..Len(so) \/ \E j \in 1..Len(more) : i = Len(so) + j
  <2> SUFFICES ASSUME NEW i \in 1..Len(then), i \notin 1..Len(so)
               PROVE  \E j \in 1..Len(more) : i = Len(so) + j
    OBVIOUS
  <2>1. i - Len(so) \in 1..Len(more) /\ i = Len(so) + (i - Len(so))
    BY <1>1, <1>2
  <2> QED
    BY <2>1
<1>5. k \in 1..k /\ \A m \in 1..(k - 1) : m \in 1..k
  OBVIOUS
<1>6. \A m \in 1..k : m = k \/ m \in 1..(k - 1)
  OBVIOUS
<1>7. ASSUME NEW i \in 1..Len(then)
      PROVE  \E m \in 1..k : \E j \in 1..Len(seqs[m]) : then[i] = seqs[m][j]
  <2>1. CASE i \in 1..Len(so)
    <3>1. PICK m \in 1..(k - 1) : \E j \in 1..Len(seqs[m]) : so[i] = seqs[m][j]
      BY <2>1, Zenon DEF FlatSo
    <3>2. \E j \in 1..Len(seqs[m]) : then[i] = seqs[m][j]
      BY <1>3, <2>1, <3>1
    <3> QED
      BY <1>5, <3>2
  <2>2. CASE \E j \in 1..Len(more) : i = Len(so) + j
    <3>1. PICK j \in 1..Len(more) : i = Len(so) + j
      BY <2>2
    <3>2. then[i] = more[j]
      BY <1>3, <3>1
    <3> QED
      BY <1>5, <3>2
  <2> QED
    BY <1>4, <2>1, <2>2
<1>8. ASSUME NEW m \in 1..k, NEW j \in 1..Len(seqs[m])
      PROVE  \E i \in 1..Len(then) : then[i] = seqs[m][j]
  <2>1. CASE m = k
    <3>1. j \in 1..Len(more) /\ seqs[m][j] = more[j]
      BY <1>8, <2>1
    <3> QED
      BY <1>3, <3>1
  <2>2. CASE m \in 1..(k - 1)
    <3>1. PICK i \in 1..Len(so) : so[i] = seqs[m][j]
      BY <1>8, <2>2, Zenon DEF FlatSo
    <3> QED
      BY <1>3, <3>1
  <2> QED
    BY <1>6, <2>1, <2>2
<1> QED
  BY <1>1, <1>7, <1>8, Zenon DEF FlatSo

LEMMA FlatElements ==
    ASSUME NEW S, NEW n \in Nat, NEW seqs \in [1..n -> Seq(S)]
    PROVE  FlattenSeq(seqs) \in Seq(S) /\ FlatSo(FlattenSeq(seqs), seqs, n)
<1> DEFINE All == Seq(S)
<1>1. PICK f \in [0..n -> All] : Flattened(f, seqs, n) /\ FlattenSeq(seqs) = f[n]
  BY FlattenMeans
<1> DEFINE T == {k \in 0..n : FlatSo(f[k], seqs, k)}
<1>2. f[0] = <<>> /\ \A k \in 1..n : f[k] = f[k - 1] \o seqs[k]
  BY <1>1, Zenon DEF Flattened
<1>3. 0 \in T
  <2>1. FlatSo(<<>>, seqs, 0)
    BY DEF FlatSo
  <2> QED
    BY <1>2, <2>1
<1>4. \A k \in 1..n : k - 1 \in T => k \in T
  <2> SUFFICES ASSUME NEW k \in 1..n, FlatSo(f[k - 1], seqs, k - 1) PROVE FlatSo(f[k], seqs, k)
    OBVIOUS
  <2>1. k - 1 \in 0..n
    OBVIOUS
  <2>2. f[k - 1] \in Seq(S) /\ f[k] = f[k - 1] \o seqs[k]
    <3> HIDE DEF All, T
    <3>1. f[k - 1] \in All
      BY <2>1
    <3> QED
      BY <1>2, <3>1, Zenon DEF All
  <2> HIDE DEF All, T
  <2> QED
    BY <2>2, OneMoreFlat, Zenon
<1> HIDE DEF T
<1>5. n \in T
  <2>1. 0..n \subseteq T
    BY <1>3, <1>4, UpToInduction
  <2> QED
    BY <2>1
<1>6. n \in 0..n
  OBVIOUS
<1>7. f[n] \in Seq(S)
  <2> HIDE DEF All
  <2>1. f[n] \in All
    BY <1>6
  <2> QED
    BY <2>1, Zenon DEF All
<1> QED
  BY <1>1, <1>5, <1>7, Zenon DEF T

-----------------------------------------------------------------------------
(* geo-biodiversity: the sources' records.                                  *)

\* The sources, and a call with what they hold and answer.
OccurrenceSources == {"gbif", "inaturalist", "iucn"}
OccurrenceCall(in) ==
    /\ in.limit \in Nat /\ in.source \in OccurrenceSources \cup {"omitted"}
    /\ \A s \in OccurrenceSources : in.holds[s] \in Nat /\ in.answers[s] # "result"
KeptBy(s, in) == IF s = "iucn" THEN Assessments(in) ELSE in.holds[s]
OnePage(in) == \A s \in {"gbif", "inaturalist"} : in.holds[s] <= PageLimit[s]

LEMMA RecordsAre ==
    ASSUME NEW s \in OccurrenceSources, NEW count \in Nat
    PROVE  /\ Records(s, count) \in Seq(OccurrenceSources \X Nat) /\ Len(Records(s, count)) = count
           /\ \A i \in 1..count : Records(s, count)[i] = <<s, i>>
<1>1. Records(s, count) \in [1..count -> OccurrenceSources \X Nat]
  BY DEF Records
<1> QED
  BY <1>1, FunctionIsSeq DEF Records

\* The beginning of the records of a source are records of it.
LEMMA TakeRecords ==
    ASSUME NEW s \in OccurrenceSources, NEW count \in Nat, NEW room \in Nat
    PROVE  Take(Records(s, count), room) = Records(s, Lesser(room, count))
<1> DEFINE all == Records(s, count)
           some == Take(all, room)
           few == Records(s, Lesser(room, count))
<1>1. Lesser(room, count) \in Nat /\ Lesser(room, count) <= count
  BY DEF Lesser
<1>2. /\ all \in Seq(OccurrenceSources \X Nat) /\ Len(all) = count
      /\ \A i \in 1..count : all[i] = <<s, i>>
  BY RecordsAre
<1>3. /\ few \in Seq(OccurrenceSources \X Nat) /\ Len(few) = Lesser(room, count)
      /\ \A i \in 1..Lesser(room, count) : few[i] = <<s, i>>
  BY <1>1, RecordsAre
<1> HIDE DEF all, few
<1>4. /\ some \in Seq(OccurrenceSources \X Nat) /\ Len(some) = Lesser(room, count)
      /\ \A i \in 1..Len(some) : some[i] = all[i]
  BY <1>2, TakeMeans
<1> HIDE DEF some
<1>5. \A i \in 1..Len(some) : some[i] = few[i]
  <2> SUFFICES ASSUME NEW i \in 1..Len(some) PROVE some[i] = few[i]
    OBVIOUS
  <2>1. i \in 1..count /\ i \in 1..Lesser(room, count)
    BY <1>1, <1>4
  <2>2. all[i] = <<s, i>> /\ few[i] = <<s, i>>
    BY <1>2, <1>3, <2>1
  <2> QED
    BY <1>4, <2>2
<1>6. some = few
  BY <1>3, <1>4, <1>5, SeqEqual
<1> QED
  BY <1>6 DEF some, few, all

\* What a source gives for the room that is left: no more than that, and all that there
\* is room for where its page holds all it has.
LEMMA FetchedOf ==
    ASSUME NEW in, OccurrenceCall(in), NEW s \in OccurrenceSources, NEW room \in Nat
    PROVE  /\ Capped(Fetch(s, in, room), room) \in Seq(OccurrenceSources \X Nat)
           /\ Len(Capped(Fetch(s, in, room), room)) <= room
           /\ KeptBy(s, in) \in Nat
           /\ OnePage(in) => Capped(Fetch(s, in, room), room) = Take(Records(s, KeptBy(s, in)), room)
<1> DEFINE count == IF s = "iucn" THEN Assessments(in)
                    ELSE IF in.obeys THEN Lesser(in.holds[s], Page(s, room)) ELSE in.holds[s]
<1>1. \A q \in OccurrenceSources : in.holds[q] \in Nat
  BY DEF OccurrenceCall
<1>2. Assessments(in) \in Nat
  BY <1>1 DEF Assessments, Greater, OccurrenceSources
<1>3. s # "iucn" => PageLimit[s] \in Nat
  BY OccurrencesAssumption DEF OccurrenceSources
<1>4. count \in Nat /\ KeptBy(s, in) \in Nat
  BY <1>1, <1>2, <1>3 DEF Lesser, Page, KeptBy
<1>5. Fetch(s, in, room) = Records(s, count)
  BY DEF Fetch
<1>6. OnePage(in) => Lesser(room, count) = Lesser(room, KeptBy(s, in))
  BY <1>1, <1>2, <1>3 DEF Lesser, Page, KeptBy, OnePage, OccurrenceSources
<1> HIDE DEF count
<1>7. Capped(Fetch(s, in, room), room) = Records(s, Lesser(room, count))
  BY <1>4, <1>5, TakeRecords DEF Capped
<1>8. Lesser(room, count) \in Nat /\ Lesser(room, count) <= room
  BY <1>4 DEF Lesser
<1>9. OnePage(in) => Capped(Fetch(s, in, room), room) = Take(Records(s, KeptBy(s, in)), room)
  BY <1>4, <1>6, <1>7, TakeRecords
<1> QED
  BY <1>4, <1>7, <1>8, <1>9, RecordsAre

\* What a call has gathered after some sources, which keep these records.
Gathering(in) ==
    {so \in [reply : {"result"} \cup {SourceError(s, in) : s \in OccurrenceSources},
             sent : Seq(OccurrenceSources), value : Seq(OccurrenceSources \X Nat)] :
        Len(so.value) <= Limit(in)}
Gathers(so, kept, in) ==
    so.reply = "result" =>
       /\ OnePage(in) => so.value = Take(kept, Limit(in))
       /\ \A i \in 1..Len(so.sent) : in.answers[so.sent[i]] \in {"ok", "404"}

\* A turn of the loop: nothing, an error, or more records.
Turned(so, then, s, more, in) ==
    /\ Limit(in) \in Nat /\ then \in Gathering(in)
    /\ \/ then = so /\ (so.reply # "result" \/ Len(so.value) >= Limit(in))
       \/ then.reply # "result"
       \/ /\ so.reply = "result" /\ Len(so.value) < Limit(in) /\ SourceError(s, in) = "ok"
          /\ then.reply = "result"
          /\ then.value = so.value \o more /\ then.sent = so.sent \o Sends(s, in)

LEMMA TurnOfSource ==
    ASSUME NEW in, OccurrenceCall(in), NEW s \in OccurrenceSources, NEW so \in Gathering(in),
           NEW room, room = Limit(in) - Len(so.value)
    PROVE  Turned(so, AskSource(so, s, in, Limit(in)), s, Capped(Fetch(s, in, room), room), in)
<1> SUFFICES ASSUME NEW more, more = Capped(Fetch(s, in, room), room),
                    NEW then, then = AskSource(so, s, in, Limit(in))
             PROVE  Turned(so, then, s, more, in)
  OBVIOUS
<1> DEFINE sent == so.sent \o Sends(s, in)
           S == OccurrenceSources \X Nat
           whole == so.value \o more
<1>1. Limit(in) \in Nat
  BY OccurrencesAssumption DEF OccurrenceCall, Limit, Lesser
<1>2. /\ so.value \in Seq(S) /\ so.sent \in Seq(OccurrenceSources) /\ Len(so.value) <= Limit(in)
      /\ Len(so.value) \in Nat /\ room \in Nat
  BY <1>1 DEF Gathering
<1>3. SourceError(s, in) # "result"
  BY DEF SourceError, Understood, OccurrenceCall, BadReplies
<1>4. more \in Seq(S) /\ Len(more) <= room
  BY <1>2, FetchedOf
<1>5. sent \in Seq(OccurrenceSources)
  <2>1. Sends(s, in) \in Seq(OccurrenceSources)
    BY DEF Sends
  <2> QED
    BY <1>2, <2>1, ConcatProperties
<1>6. whole \in Seq(S) /\ Len(whole) <= Limit(in)
  <2> HIDE DEF S
  <2>1. whole \in Seq(S) /\ Len(whole) = Len(so.value) + Len(more) /\ Len(more) \in Nat
    BY <1>2, <1>4, ConcatProperties
  <2> HIDE DEF whole
  <2>2. \A a, b, c, d \in Nat : c = d - a /\ b <= c => a + b <= d
    OBVIOUS
  <2>3. Len(so.value) + Len(more) <= Limit(in)
    BY <1>1, <1>2, <1>4, <2>1, <2>2, Zenon
  <2> QED
    BY <2>1, <2>3
<1> HIDE DEF sent, whole, S
<1>7. CASE so.reply # "result" \/ room <= 0
  <2>1. then = so
    BY <1>7 DEF AskSource
  <2>2. so.reply # "result" \/ Len(so.value) >= Limit(in)
    BY <1>1, <1>2, <1>7
  <2> QED
    BY <1>1, <2>1, <2>2, Zenon DEF Turned
<1>8. CASE ~(so.reply # "result" \/ room <= 0) /\ SourceError(s, in) # "ok"
  <2>1. then = Failed(SourceError(s, in), sent)
    BY <1>8, Zenon DEF AskSource, sent
  <2>2. Failed(SourceError(s, in), sent) \in Gathering(in)
    <3>1. <<>> \in Seq(S) /\ Len(<<>>) = 0
      OBVIOUS
    <3> QED
      BY <1>1, <1>5, <3>1 DEF Failed, NoValue, Gathering, S
  <2>3. Failed(SourceError(s, in), sent).reply # "result"
    BY <1>3 DEF Failed
  <2> QED
    BY <1>1, <2>1, <2>2, <2>3, Zenon DEF Turned
<1>9. CASE ~(so.reply # "result" \/ room <= 0) /\ SourceError(s, in) = "ok"
  <2>1. then = Returned(whole, sent)
    BY <1>9, Zenon DEF AskSource, sent, whole
  <2>2. /\ Returned(whole, sent) \in Gathering(in) /\ Returned(whole, sent).reply = "result"
        /\ Returned(whole, sent).value = whole /\ Returned(whole, sent).sent = sent
    BY <1>5, <1>6 DEF Returned, Gathering, S
  <2>3. room \in Nat \ {0}
    BY <1>2, <1>9
  <2>4. Len(so.value) < Limit(in)
    BY <1>1, <1>2, <2>3
  <2>5. /\ then \in Gathering(in) /\ then.reply = "result"
        /\ then.value = so.value \o more /\ then.sent = so.sent \o Sends(s, in)
    BY <2>1, <2>2, Zenon DEF whole, sent
  <2> QED
    BY <1>1, <1>9, <2>4, <2>5, Zenon DEF Turned
<1> QED
  BY <1>7, <1>8, <1>9

\* ... and it gathers what the source keeps after what the others do.
LEMMA TurnGathers ==
    ASSUME NEW in, OccurrenceCall(in), NEW s \in OccurrenceSources, NEW so \in Gathering(in),
           NEW kept \in Seq(OccurrenceSources \X Nat), Gathers(so, kept, in)
    PROVE  Gathers(AskSource(so, s, in, Limit(in)), kept \o Records(s, KeptBy(s, in)), in)
<1> SUFFICES ASSUME NEW room, room = Limit(in) - Len(so.value),
                    NEW more, more = Capped(Fetch(s, in, room), room),
                    NEW then, then = AskSource(so, s, in, Limit(in))
             PROVE  Gathers(then, kept \o Records(s, KeptBy(s, in)), in)
  OBVIOUS
<1> DEFINE S == OccurrenceSources \X Nat
           own == Records(s, KeptBy(s, in))
<1>1. /\ Limit(in) \in Nat /\ then \in Gathering(in)
      /\ \/ then = so /\ (so.reply # "result" \/ Len(so.value) >= Limit(in))
         \/ then.reply # "result"
         \/ /\ so.reply = "result" /\ Len(so.value) < Limit(in) /\ SourceError(s, in) = "ok"
            /\ then.reply = "result"
            /\ then.value = so.value \o more /\ then.sent = so.sent \o Sends(s, in)
  <2>1. Turned(so, then, s, more, in)
    BY TurnOfSource
  <2> QED
    BY <2>1, Zenon DEF Turned
<1>2. /\ so.value \in Seq(S) /\ so.sent \in Seq(OccurrenceSources) /\ Len(so.value) <= Limit(in)
      /\ Len(so.value) \in Nat
  BY <1>1 DEF Gathering
<1>3. KeptBy(s, in) \in Nat /\ (OnePage(in) => more = Take(own, room))
  <2>1. room \in Nat
    BY <1>1, <1>2
  <2> QED
    BY <2>1, FetchedOf
<1>4. own \in Seq(S) /\ kept \in Seq(S)
  BY <1>3, RecordsAre
<1> HIDE DEF S, own
<1>5. Take(kept \o own, Limit(in)) = IF Len(kept) < Limit(in) THEN kept \o Take(own, Limit(in) - Len(kept))
                                     ELSE Take(kept, Limit(in))
  BY <1>1, <1>4, TakeOfTwo
<1>6. /\ Len(Take(kept, Limit(in))) = Lesser(Limit(in), Len(kept)) /\ Len(kept) \in Nat
      /\ Len(kept) <= Limit(in) => Take(kept, Limit(in)) = kept
  <2>1. Len(kept) \in Nat
    BY <1>4
  <2>2. /\ Len(Take(kept, Limit(in))) = Lesser(Limit(in), Len(kept))
        /\ Len(kept) <= Limit(in) => Take(kept, Limit(in)) = kept
    BY <1>1, <1>4, TakeMeans
  <2> QED
    BY <2>1, <2>2
<1>7. SUFFICES ASSUME then.reply = "result"
               PROVE  /\ OnePage(in) => then.value = Take(kept \o own, Limit(in))
                      /\ \A i \in 1..Len(then.sent) : in.answers[then.sent[i]] \in {"ok", "404"}
  BY DEF Gathers, own
<1>8. CASE then = so /\ (so.reply # "result" \/ Len(so.value) >= Limit(in))
  <2>1. so.reply = "result" /\ Len(so.value) >= Limit(in)
    BY <1>1, <1>2, <1>7, <1>8
  <2>2. OnePage(in) => so.value = Take(kept, Limit(in))
    BY <2>1 DEF Gathers
  <2>3. OnePage(in) => ~(Len(kept) < Limit(in))
    BY <1>1, <1>6, <2>1, <2>2 DEF Lesser
  <2>4. OnePage(in) => so.value = Take(kept \o own, Limit(in))
    BY <1>5, <2>2, <2>3
  <2> QED
    BY <1>8, <2>1, <2>4 DEF Gathers
<1>9. CASE /\ so.reply = "result" /\ Len(so.value) < Limit(in) /\ SourceError(s, in) = "ok"
           /\ then.value = so.value \o more /\ then.sent = so.sent \o Sends(s, in)
  <2>1. OnePage(in) => then.value = Take(kept \o own, Limit(in))
    <3> SUFFICES ASSUME OnePage(in) PROVE then.value = Take(kept \o own, Limit(in))
      OBVIOUS
    <3>1. so.value = Take(kept, Limit(in)) /\ more = Take(own, room)
      BY <1>3, <1>9 DEF Gathers
    <3>2. Len(so.value) < Limit(in)
      BY <1>1, <1>2, <1>9
    <3>3. Len(kept) < Limit(in) /\ so.value = kept
      BY <1>1, <1>6, <3>1, <3>2 DEF Lesser
    <3>4. room = Limit(in) - Len(kept)
      BY <3>3
    <3>5. Take(kept \o own, Limit(in)) = kept \o Take(own, room)
      BY <1>5, <3>3, <3>4, Zenon
    <3> QED
      BY <1>9, <3>1, <3>3, <3>5, Zenon
  <2>2. in.answers[s] \in {"ok", "404"}
    BY <1>9 DEF SourceError, Understood
  <2>3. Sends(s, in) \in Seq(OccurrenceSources) /\ \A i \in 1..Len(Sends(s, in)) : Sends(s, in)[i] = s
    BY DEF Sends
  <2> DEFINE sent == so.sent \o Sends(s, in)
  <2>4. /\ Len(sent) = Len(so.sent) + Len(Sends(s, in))
        /\ \A i \in 1..(Len(so.sent) + Len(Sends(s, in))) :
              sent[i] = IF i <= Len(so.sent) THEN so.sent[i] ELSE Sends(s, in)[i - Len(so.sent)]
    BY <1>2, <2>3, ConcatProperties, Zenon
  <2> HIDE DEF sent
  <2>5. \A i \in 1..Len(sent) : in.answers[sent[i]] \in {"ok", "404"}
    <3> SUFFICES ASSUME NEW i \in 1..Len(sent) PROVE in.answers[sent[i]] \in {"ok", "404"}
      OBVIOUS
    <3>1. Len(so.sent) \in Nat /\ Len(Sends(s, in)) \in Nat
      BY <1>2, <2>3
    <3>2. CASE i <= Len(so.sent)
      <4>1. sent[i] = so.sent[i] /\ i \in 1..Len(so.sent)
        BY <2>4, <3>1, <3>2
      <4> QED
        BY <1>9, <4>1 DEF Gathers
    <3>3. CASE Len(so.sent) < i
      <4>1. sent[i] = Sends(s, in)[i - Len(so.sent)] /\ i - Len(so.sent) \in 1..Len(Sends(s, in))
        BY <2>4, <3>1, <3>3
      <4> QED
        BY <2>2, <2>3, <4>1
    <3> QED
      BY <3>1, <3>2, <3>3
  <2> QED
    BY <1>9, <2>1, <2>5 DEF sent
<1> QED
  BY <1>1, <1>7, <1>8, <1>9

\* The loop over the sources gathers, in their order, what they keep.
LEMMA LoopGathers ==
    ASSUME NEW in, OccurrenceCall(in), NEW sources \in Seq(OccurrenceSources)
    PROVE  /\ SearchInTurn(in, sources) \in Gathering(in)
           /\ Gathers(SearchInTurn(in, sources),
                      FlattenSeq([k \in 1..Len(sources) |-> Records(sources[k], KeptBy(sources[k], in))]), in)
<1> DEFINE n == Len(sources)
           S == OccurrenceSources \X Nat
           kept == [k \in 1..n |-> Records(sources[k], KeptBy(sources[k], in))]
           All == Gathering(in)
           OneTurn(so, k) == AskSource(so, sources[k], in, Limit(in))
           next == [x \in All \X (1..n) |-> OneTurn(x[1], x[2])]
           Body(g) == [k \in 0..Len(sources) |->
                         IF k = 0 THEN Returned(<<>>, <<>>)
                         ELSE AskSource(g[k - 1], sources[k], in, Limit(in))]
           so == CHOOSE g : g = Body(g)
<1>1. n \in Nat /\ \A k \in 1..n : sources[k] \in OccurrenceSources /\ k - 1 \in 0..n /\ k \in 0..n /\ k # 0
  BY ElementOfSeq
<1>2. SearchInTurn(in, sources) = so[n]
  BY Zenon DEF SearchInTurn
<1>3. Returned(<<>>, <<>>) \in All
  <2>1. Limit(in) \in Nat
    BY OccurrencesAssumption DEF OccurrenceCall, Limit, Lesser
  <2>2. <<>> \in Seq(S) /\ Len(<<>>) = 0 /\ <<>> \in Seq(OccurrenceSources)
    OBVIOUS
  <2> HIDE DEF S
  <2> QED
    BY <2>1, <2>2 DEF Returned, Gathering, S
<1>4. \A so1 \in All, k \in 1..n : OneTurn(so1, k) \in All
  <2> SUFFICES ASSUME NEW so1 \in All, NEW k \in 1..n PROVE OneTurn(so1, k) \in All
    OBVIOUS
  <2> DEFINE room == Limit(in) - Len(so1.value)
  <2>1. Turned(so1, OneTurn(so1, k), sources[k], Capped(Fetch(sources[k], in, room), room), in)
    BY <1>1, TurnOfSource
  <2> QED
    BY <2>1, Zenon DEF Turned
<1>5. next \in [All \X (1..n) -> All] /\ \A so1 \in All, k \in 1..n : next[<<so1, k>>] = OneTurn(so1, k)
  <2> HIDE DEF All, OneTurn, n
  <2> QED
    BY <1>4
<1> HIDE DEF next
<1>6. PICK f \in [0..n -> All] : Recurs(f, n, Returned(<<>>, <<>>), next)
  <2> HIDE DEF All, n
  <2> QED
    BY <1>1, <1>3, <1>5, RecursionUpTo
<1>7. f[0] = Returned(<<>>, <<>>) /\ \A k \in 1..n : f[k] = OneTurn(f[k - 1], k)
  <2> HIDE DEF All, OneTurn, n
  <2> QED
    BY <1>1, <1>5, <1>6 DEF Recurs
<1>8. f = Body(f)
  <2>1. \A k \in 0..n : f[k] = Body(f)[k]
    <3> SUFFICES ASSUME NEW k \in 0..n PROVE f[k] = Body(f)[k]
      OBVIOUS
    <3>1. CASE k = 0
      BY <1>7, <3>1
    <3>2. CASE k # 0
      <4>1. k \in 1..n
        BY <1>1, <3>2
      <4> QED
        BY <1>7, <3>2, <4>1
    <3> QED
      BY <3>1, <3>2
  <2>2. f = [k \in 0..n |-> f[k]] /\ Body(f) = [k \in 0..n |-> Body(f)[k]]
    BY <1>6
  <2> HIDE DEF Body
  <2> QED
    BY <2>1, <2>2
<1>9. so = Body(so)
  BY <1>8, Zenon
<1> HIDE DEF so
<1>10. so[0] = Returned(<<>>, <<>>) /\ \A k \in 1..n : so[k] = OneTurn(so[k - 1], k)
  <2>1. so[0] = Body(so)[0] /\ \A k \in 1..n : so[k] = Body(so)[k]
    BY <1>9
  <2>2. Body(so)[0] = Returned(<<>>, <<>>) /\ \A k \in 1..n : Body(so)[k] = OneTurn(so[k - 1], k)
    BY <1>1
  <2> HIDE DEF Body
  <2> QED
    BY <2>1, <2>2
<1>11. kept \in [1..n -> Seq(S)]
  <2>1. \A k \in 1..n : KeptBy(sources[k], in) \in Nat
    <3> SUFFICES ASSUME NEW k \in 1..n PROVE KeptBy(sources[k], in) \in Nat
      OBVIOUS
    <3>1. sources[k] \in OccurrenceSources /\ 0 \in Nat
      BY <1>1
    <3> QED
      BY <3>1, FetchedOf
  <2> QED
    BY <1>1, <2>1, RecordsAre
<1>12. PICK all \in [0..n -> Seq(S)] : Flattened(all, kept, n) /\ FlattenSeq(kept) = all[n]
  <2> HIDE DEF kept, n
  <2> QED
    BY <1>1, <1>11, FlattenMeans
<1> DEFINE T == {k \in 0..n : so[k] \in All /\ Gathers(so[k], all[k], in)}
<1>13. 0 \in T
  <2>1. all[0] = <<>>
    BY <1>12 DEF Flattened
  <2>2. Limit(in) \in Nat
    BY OccurrencesAssumption DEF OccurrenceCall, Limit, Lesser
  <2>3. Take(<<>>, Limit(in)) = <<>>
    <3>1. <<>> \in Seq(S) /\ Len(<<>>) <= Limit(in)
      BY <2>2
    <3> QED
      BY <2>2, <3>1, TakeMeans
  <2>4. so[0].value = <<>> /\ so[0].sent = <<>>
    BY <1>10 DEF Returned
  <2>5. Gathers(so[0], all[0], in)
    BY <2>1, <2>3, <2>4 DEF Gathers
  <2> QED
    BY <1>1, <1>3, <1>10, <2>5
<1>14. \A k \in 1..n : k - 1 \in T => k \in T
  <2> SUFFICES ASSUME NEW k \in 1..n, k - 1 \in T PROVE k \in T
    OBVIOUS
  <2>1. so[k - 1] \in All /\ Gathers(so[k - 1], all[k - 1], in) /\ k - 1 \in 0..n
    OBVIOUS
  <2>2. all[k] = all[k - 1] \o Records(sources[k], KeptBy(sources[k], in))
    <3>1. all[k] = all[k - 1] \o kept[k]
      BY <1>12 DEF Flattened
    <3>2. kept[k] = Records(sources[k], KeptBy(sources[k], in))
      OBVIOUS
    <3> QED
      BY <3>1, <3>2
  <2>3. Gathers(OneTurn(so[k - 1], k), all[k - 1] \o Records(sources[k], KeptBy(sources[k], in)), in)
    <3>1. all[k - 1] \in Seq(S) /\ sources[k] \in OccurrenceSources
      BY <1>1, <1>12, <2>1
    <3> QED
      BY <2>1, <3>1, TurnGathers
  <2>4. Gathers(so[k], all[k], in)
    BY <1>10, <2>2, <2>3, Zenon
  <2>5. so[k] \in All
    <3> HIDE DEF All, OneTurn
    <3> QED
      BY <1>4, <1>10, <2>1
  <2> QED
    BY <1>1, <2>4, <2>5
<1> HIDE DEF T
<1>15. n \in T
  <2>1. 0..n \subseteq T
    <3> HIDE DEF n
    <3> QED
      BY <1>1, <1>13, <1>14, UpToInduction
  <2> QED
    BY <1>1, <2>1
<1> QED
  BY <1>2, <1>12, <1>15 DEF T

\* species_occurrences: the first records of all the sources, or none.
LEMMA OccurrencesWhole ==
    ASSUME NEW in, OccurrenceCall(in)
    PROVE  OccurrencesAreWhole(in, SpeciesOccurrences(in))
<1> DEFINE out1 == SpeciesOccurrences(in)
           sources == Selected(in.source)
           all == FlattenSeq([k \in 1..Len(sources) |-> Records(sources[k], KeptBy(sources[k], in))])
<1>1. Limit(in) \in Nat
  BY OccurrencesAssumption DEF OccurrenceCall, Limit, Lesser
<1>2. sources \in Seq(OccurrenceSources)
  <2>1. Merged \in Seq(OccurrenceSources)
    BY DEF Merged, OccurrenceSources
  <2>2. in.source # "omitted" => <<in.source>> \in Seq(OccurrenceSources)
    <3>1. in.source # "omitted" => in.source \in OccurrenceSources
      BY DEF OccurrenceCall
    <3> QED
      BY <3>1
  <2> QED
    BY <2>1, <2>2 DEF Selected
<1> HIDE DEF out1
<1>3. Len(out1.value) <= Limit(in) /\ (out1.reply = "result" => Gathers(out1, all, in))
  <2>1. CASE in.wrong # {} \/ NeedsTaxon(in)
    <3>1. out1 = Refused
      BY <2>1, Zenon DEF SpeciesOccurrences, out1
    <3>2. Refused.value = <<>> /\ Refused.reply = "validation" /\ Len(<<>>) = 0
      BY DEF Refused, Failed, NoValue
    <3> QED
      BY <1>1, <3>1, <3>2
  <2>2. CASE ~(in.wrong # {} \/ NeedsTaxon(in))
    <3>1. out1 = SearchInTurn(in, sources)
      BY <2>2, Zenon DEF SpeciesOccurrences, out1
    <3> HIDE DEF sources
    <3>2. out1 \in Gathering(in) /\ Gathers(out1, all, in)
      BY <1>2, <3>1, LoopGathers
    <3> QED
      BY <3>2 DEF Gathering
  <2> QED
    BY <2>1, <2>2
<1>4. out1.reply = "result" =>
         /\ OnePage(in) => out1.value = Take(all, Limit(in))
         /\ \A i \in DOMAIN out1.sent : in.answers[out1.sent[i]] \in {"ok", "404"}
  BY <1>3 DEF Gathers
<1> QED
  BY <1>3, <1>4, Zenon DEF OccurrencesAreWhole, OnePage, KeptBy, out1

-----------------------------------------------------------------------------
(* geo-vector: the features of every source.                                *)

\* What a payload holds that can be drawn is a list.
LEMMA ParsedAre ==
    ASSUME NEW S, NEW E, NEW source \in S, NEW elements \in Seq(E)
    PROVE  ParsedFeatures(source, elements) \in Seq(S \X E)
<1> DEFINE n == Len(elements)
           Lists == Seq(S \X E)
           With(so, i) == IF elements[i] \in Drawn THEN Append(so, <<source, elements[i]>>) ELSE so
           next == [x \in Lists \X (1..n) |-> With(x[1], x[2])]
           Body(g) == [i \in 0..Len(elements) |->
                         IF i = 0 THEN <<>>
                         ELSE IF elements[i] \in Drawn THEN Append(g[i - 1], <<source, elements[i]>>)
                         ELSE g[i - 1]]
           kept == CHOOSE g : g = Body(g)
<1>1. n \in Nat /\ \A k \in 1..n : elements[k] \in E /\ k - 1 \in 0..n /\ k \in 0..n /\ k # 0
  BY ElementOfSeq
<1>2. ParsedFeatures(source, elements) = kept[n]
  BY Zenon DEF ParsedFeatures
<1>3. <<>> \in Lists
  OBVIOUS
<1>4. \A so \in Lists, k \in 1..n : With(so, k) \in Lists
  <2> SUFFICES ASSUME NEW so \in Lists, NEW k \in 1..n PROVE With(so, k) \in Lists
    OBVIOUS
  <2>1. <<source, elements[k]>> \in S \X E
    BY <1>1
  <2> QED
    BY <2>1, AppendProperties
<1>5. next \in [Lists \X (1..n) -> Lists] /\ \A so \in Lists, k \in 1..n : next[<<so, k>>] = With(so, k)
  <2> HIDE DEF Lists, With, n
  <2> QED
    BY <1>4
<1> HIDE DEF next
<1>6. PICK f \in [0..n -> Lists] : Recurs(f, n, <<>>, next)
  <2> HIDE DEF Lists, n
  <2> QED
    BY <1>1, <1>3, <1>5, RecursionUpTo
<1>7. f[0] = <<>> /\ \A k \in 1..n : f[k] = With(f[k - 1], k)
  <2> HIDE DEF Lists, With, n
  <2> QED
    BY <1>1, <1>5, <1>6 DEF Recurs
<1>8. f = Body(f)
  <2>1. \A k \in 0..n : f[k] = Body(f)[k]
    <3> SUFFICES ASSUME NEW k \in 0..n PROVE f[k] = Body(f)[k]
      OBVIOUS
    <3>1. CASE k = 0
      BY <1>7, <3>1
    <3>2. CASE k # 0
      <4>1. k \in 1..n
        BY <1>1, <3>2
      <4> QED
        BY <1>7, <3>2, <4>1
    <3> QED
      BY <3>1, <3>2
  <2>2. f = [k \in 0..n |-> f[k]] /\ Body(f) = [k \in 0..n |-> Body(f)[k]]
    BY <1>6
  <2> HIDE DEF Body
  <2> QED
    BY <2>1, <2>2
<1>9. kept = Body(kept)
  BY <1>8, Zenon
<1> HIDE DEF kept
<1>10. kept[0] = <<>> /\ \A k \in 1..n : kept[k] = With(kept[k - 1], k)
  <2>1. kept[0] = Body(kept)[0] /\ \A k \in 1..n : kept[k] = Body(kept)[k]
    BY <1>9
  <2>2. Body(kept)[0] = <<>> /\ \A k \in 1..n : Body(kept)[k] = With(kept[k - 1], k)
    BY <1>1
  <2> HIDE DEF Body
  <2> QED
    BY <2>1, <2>2
<1> DEFINE T == {k \in 0..n : kept[k] \in Lists}
<1>11. 0 \in T
  <2>1. kept[0] \in Lists
    <3> HIDE DEF Lists
    <3> QED
      BY <1>3, <1>10, Zenon
  <2>2. 0 \in 0..n
    BY <1>1
  <2> HIDE DEF Lists, n
  <2> QED
    BY <2>1, <2>2
<1>12. \A k \in 1..n : k - 1 \in T => k \in T
  <2> HIDE DEF Lists, With
  <2> QED
    BY <1>1, <1>4, <1>10
<1> HIDE DEF T
<1>13. n \in T
  <2>1. 0..n \subseteq T
    <3> HIDE DEF n
    <3> QED
      BY <1>1, <1>11, <1>12, UpToInduction
  <2> QED
    BY <1>1, <2>1
<1> QED
  BY <1>2, <1>13 DEF T

\* A call of sources S, which hold elements of E.
FeatureCall(in, S, E) ==
    /\ in.sources \in Seq(S)
    /\ \A s \in S : in.holds[s] \in Seq(E) /\ Understood(in.answers[s]) # "result"
OfSource(in, s) == ParsedFeatures(s, in.holds[s])

\* What is known of a call after some sources: all of their features, or whose error.
FetchedSo(in, S, E) ==
    [reply : {"result"} \cup {Understood(in.answers[s]) : s \in S}, sent : Seq(S), value : Seq(S \X E)]
Fetches(so, k, whole, in) ==
    /\ so.reply = "result" => /\ so.value = whole /\ Len(so.sent) = k
                              /\ \A i \in 1..k : in.answers[in.sources[i]] = "ok"
    /\ so.reply # "result" => /\ Len(so.sent) # 0
                              /\ Understood(in.answers[so.sent[Len(so.sent)]]) = so.reply
    /\ Len(so.sent) <= k /\ \A i \in 1..Len(so.sent) : so.sent[i] = in.sources[i]

LEMMA TurnFetches ==
    ASSUME NEW in, NEW S, NEW E, FeatureCall(in, S, E), NEW k \in 1..Len(in.sources),
           NEW so \in FetchedSo(in, S, E)
    PROVE  /\ FetchFeatures(so, in.sources[k], in) \in FetchedSo(in, S, E)
           /\ \A whole \in Seq(S \X E) : Fetches(so, k - 1, whole, in) =>
                 Fetches(FetchFeatures(so, in.sources[k], in), k,
                         whole \o OfSource(in, in.sources[k]), in)
<1> DEFINE s == in.sources[k]
           own == OfSource(in, s)
           then == FetchFeatures(so, s, in)
           sent == Append(so.sent, s)
           both == so.value \o own
<1>1. /\ k \in Nat \ {0} /\ s \in S /\ so.sent \in Seq(S) /\ so.value \in Seq(S \X E)
      /\ so.reply \in {"result"} \cup {Understood(in.answers[q]) : q \in S}
  BY DEF FeatureCall, FetchedSo
<1>2. in.holds[s] \in Seq(E) /\ Understood(in.answers[s]) # "result"
  BY <1>1 DEF FeatureCall
<1> HIDE DEF s
<1>3. own \in Seq(S \X E)
  BY <1>1, <1>2, ParsedAre DEF OfSource
<1>4. /\ sent \in Seq(S) /\ Len(sent) = Len(so.sent) + 1 /\ sent[Len(so.sent) + 1] = s
      /\ \A i \in 1..Len(so.sent) : sent[i] = so.sent[i]
  BY <1>1, AppendProperties
<1>5. both \in Seq(S \X E)
  BY <1>1, <1>3, ConcatProperties
<1> HIDE DEF own, sent, both
<1>6. CASE so.reply # "result"
  <2>1. then = so
    BY <1>6 DEF FetchFeatures
  <2>2. \A whole \in Seq(S \X E) : Fetches(so, k - 1, whole, in) => Fetches(so, k, whole \o own, in)
    BY <1>1, <1>6, LenProperties DEF Fetches
  <2> QED
    BY <2>1, <2>2 DEF s, own
<1>7. CASE so.reply = "result" /\ Understood(in.answers[s]) # "ok"
  <2>1. then = Failed(Understood(in.answers[s]), sent)
    BY <1>7, Zenon DEF FetchFeatures, sent
  <2>2. then.reply = Understood(in.answers[s]) /\ then.sent = sent /\ then.value = <<>>
        /\ then \in FetchedSo(in, S, E)
    <3>1. <<>> \in Seq(S \X E)
      OBVIOUS
    <3> QED
      BY <1>1, <1>4, <2>1, <3>1 DEF Failed, NoValue, FetchedSo
  <2> HIDE DEF then
  <2>3. ASSUME NEW whole \in Seq(S \X E), Fetches(so, k - 1, whole, in)
        PROVE  Fetches(then, k, whole \o own, in)
    <3>1. /\ Len(so.sent) = k - 1 /\ Len(so.sent) \in Nat
          /\ \A i \in 1..Len(so.sent) : so.sent[i] = in.sources[i]
      BY <1>1, <1>7, <2>3 DEF Fetches
    <3>2. Len(sent) = k /\ sent[k] = s
      BY <1>1, <1>4, <3>1
    <3>3. \A i \in 1..k : sent[i] = in.sources[i]
      <4>1. \A i \in 1..k : i = k \/ i \in 1..Len(so.sent)
        BY <1>1, <3>1
      <4> QED
        BY <1>4, <3>1, <3>2, <4>1 DEF s
    <3> QED
      BY <1>1, <1>2, <2>2, <3>2, <3>3 DEF Fetches
  <2> QED
    BY <2>2, <2>3 DEF then, s, own
<1>8. CASE so.reply = "result" /\ Understood(in.answers[s]) = "ok"
  <2>1. then = Returned(both, sent)
    BY <1>8, Zenon DEF FetchFeatures, sent, both, own, OfSource
  <2>2. then.reply = "result" /\ then.sent = sent /\ then.value = both /\ then \in FetchedSo(in, S, E)
    BY <1>4, <1>5, <2>1 DEF Returned, FetchedSo
  <2> HIDE DEF then
  <2>3. ASSUME NEW whole \in Seq(S \X E), Fetches(so, k - 1, whole, in)
        PROVE  Fetches(then, k, whole \o own, in)
    <3>1. /\ Len(so.sent) = k - 1 /\ Len(so.sent) \in Nat /\ so.value = whole
          /\ \A i \in 1..Len(so.sent) : so.sent[i] = in.sources[i]
          /\ \A i \in 1..(k - 1) : in.answers[in.sources[i]] = "ok"
      BY <1>1, <1>8, <2>3 DEF Fetches
    <3>2. Len(sent) = k /\ sent[k] = s
      BY <1>1, <1>4, <3>1
    <3>3. \A i \in 1..k : i = k \/ i \in 1..(k - 1)
      BY <1>1
    <3>4. \A i \in 1..k : sent[i] = in.sources[i]
      BY <1>4, <3>1, <3>2, <3>3 DEF s
    <3>5. in.answers[s] = "ok"
      BY <1>8 DEF Understood
    <3>6. \A i \in 1..k : in.answers[in.sources[i]] = "ok"
      BY <3>1, <3>3, <3>5 DEF s
    <3>7. then.value = whole \o own
      BY <2>2, <3>1, Zenon DEF both
    <3>8. Len(then.sent) = k /\ k <= k /\ \A i \in 1..Len(then.sent) : then.sent[i] = in.sources[i]
      <4>1. then.sent = sent
        BY <2>2
      <4>2. k <= k
        BY <1>1
      <4> HIDE DEF sent
      <4> QED
        BY <3>2, <3>4, <4>1, <4>2
    <3> QED
      BY <2>2, <3>6, <3>7, <3>8, Zenon DEF Fetches
  <2> QED
    BY <2>2, <2>3 DEF then, s, own
<1> QED
  BY <1>6, <1>7, <1>8

\* The loop over the sources has all of their features, or an error of one.
LEMMA LoopFetches ==
    ASSUME NEW in, NEW S, NEW E, FeatureCall(in, S, E)
    PROVE  /\ FetchInTurn(in) \in FetchedSo(in, S, E)
           /\ Fetches(FetchInTurn(in), Len(in.sources),
                      FlattenSeq([k \in 1..Len(in.sources) |-> OfSource(in, in.sources[k])]), in)
<1> DEFINE n == Len(in.sources)
           own == [k \in 1..n |-> OfSource(in, in.sources[k])]
           All == FetchedSo(in, S, E)
           OneTurn(so, k) == FetchFeatures(so, in.sources[k], in)
           next == [x \in All \X (1..n) |-> OneTurn(x[1], x[2])]
           Body(g) == [k \in 0..Len(in.sources) |->
                         IF k = 0 THEN Returned(<<>>, <<>>)
                         ELSE FetchFeatures(g[k - 1], in.sources[k], in)]
           so == CHOOSE g : g = Body(g)
<1>1. n \in Nat /\ \A k \in 1..n : in.sources[k] \in S /\ k - 1 \in 0..n /\ k \in 0..n /\ k # 0
  BY ElementOfSeq DEF FeatureCall
<1>2. FetchInTurn(in) = so[n]
  BY Zenon DEF FetchInTurn
<1>3. Returned(<<>>, <<>>) \in All
  <2>1. <<>> \in Seq(S \X E) /\ <<>> \in Seq(S)
    OBVIOUS
  <2> QED
    BY <2>1 DEF Returned, FetchedSo
<1>4. \A so1 \in All, k \in 1..n : OneTurn(so1, k) \in All
  BY TurnFetches
<1>5. next \in [All \X (1..n) -> All] /\ \A so1 \in All, k \in 1..n : next[<<so1, k>>] = OneTurn(so1, k)
  <2> HIDE DEF All, OneTurn, n
  <2> QED
    BY <1>4
<1> HIDE DEF next
<1>6. PICK f \in [0..n -> All] : Recurs(f, n, Returned(<<>>, <<>>), next)
  <2> HIDE DEF All, n
  <2> QED
    BY <1>1, <1>3, <1>5, RecursionUpTo
<1>7. f[0] = Returned(<<>>, <<>>) /\ \A k \in 1..n : f[k] = OneTurn(f[k - 1], k)
  <2> HIDE DEF All, OneTurn, n
  <2> QED
    BY <1>1, <1>5, <1>6 DEF Recurs
<1>8. f = Body(f)
  <2>1. \A k \in 0..n : f[k] = Body(f)[k]
    <3> SUFFICES ASSUME NEW k \in 0..n PROVE f[k] = Body(f)[k]
      OBVIOUS
    <3>1. CASE k = 0
      BY <1>7, <3>1
    <3>2. CASE k # 0
      <4>1. k \in 1..n
        BY <1>1, <3>2
      <4> QED
        BY <1>7, <3>2, <4>1
    <3> QED
      BY <3>1, <3>2
  <2>2. f = [k \in 0..n |-> f[k]] /\ Body(f) = [k \in 0..n |-> Body(f)[k]]
    BY <1>6
  <2> HIDE DEF Body
  <2> QED
    BY <2>1, <2>2
<1>9. so = Body(so)
  BY <1>8, Zenon
<1> HIDE DEF so
<1>10. so[0] = Returned(<<>>, <<>>) /\ \A k \in 1..n : so[k] = OneTurn(so[k - 1], k)
  <2>1. so[0] = Body(so)[0] /\ \A k \in 1..n : so[k] = Body(so)[k]
    BY <1>9
  <2>2. Body(so)[0] = Returned(<<>>, <<>>) /\ \A k \in 1..n : Body(so)[k] = OneTurn(so[k - 1], k)
    BY <1>1
  <2> HIDE DEF Body
  <2> QED
    BY <2>1, <2>2
<1>11. own \in [1..n -> Seq(S \X E)]
  <2>1. \A k \in 1..n : OfSource(in, in.sources[k]) \in Seq(S \X E)
    <3> SUFFICES ASSUME NEW k \in 1..n PROVE OfSource(in, in.sources[k]) \in Seq(S \X E)
      OBVIOUS
    <3>1. in.sources[k] \in S /\ in.holds[in.sources[k]] \in Seq(E)
      BY <1>1 DEF FeatureCall
    <3> QED
      BY <3>1, ParsedAre DEF OfSource
  <2> QED
    BY <2>1
<1>12. PICK all \in [0..n -> Seq(S \X E)] : Flattened(all, own, n) /\ FlattenSeq(own) = all[n]
  <2> HIDE DEF own, n
  <2> QED
    BY <1>1, <1>11, FlattenMeans
<1> DEFINE T == {k \in 0..n : so[k] \in All /\ Fetches(so[k], k, all[k], in)}
<1>13. 0 \in T
  <2>1. all[0] = <<>>
    BY <1>12 DEF Flattened
  <2>2. so[0].value = <<>> /\ so[0].sent = <<>> /\ so[0].reply = "result" /\ Len(<<>>) = 0
    BY <1>10 DEF Returned
  <2>3. Fetches(so[0], 0, all[0], in)
    BY <2>1, <2>2 DEF Fetches
  <2> QED
    BY <1>1, <1>3, <1>10, <2>3
<1>14. \A k \in 1..n : k - 1 \in T => k \in T
  <2> SUFFICES ASSUME NEW k \in 1..n, k - 1 \in T PROVE k \in T
    OBVIOUS
  <2>1. so[k - 1] \in All /\ Fetches(so[k - 1], k - 1, all[k - 1], in) /\ k - 1 \in 0..n
    OBVIOUS
  <2>2. all[k] = all[k - 1] \o OfSource(in, in.sources[k])
    <3>1. all[k] = all[k - 1] \o own[k]
      BY <1>12 DEF Flattened
    <3>2. own[k] = OfSource(in, in.sources[k])
      OBVIOUS
    <3> QED
      BY <3>1, <3>2
  <2>3. Fetches(OneTurn(so[k - 1], k), k, all[k - 1] \o OfSource(in, in.sources[k]), in)
    <3>1. all[k - 1] \in Seq(S \X E)
      BY <1>12, <2>1
    <3> QED
      BY <2>1, <3>1, TurnFetches
  <2>4. Fetches(so[k], k, all[k], in)
    BY <1>10, <2>2, <2>3, Zenon
  <2>5. so[k] \in All
    <3> HIDE DEF All, OneTurn
    <3> QED
      BY <1>4, <1>10, <2>1
  <2> QED
    BY <1>1, <2>4, <2>5
<1> HIDE DEF T
<1>15. n \in T
  <2>1. 0..n \subseteq T
    <3> HIDE DEF n
    <3> QED
      BY <1>1, <1>13, <1>14, UpToInduction
  <2> QED
    BY <1>1, <2>1
<1> QED
  BY <1>2, <1>12, <1>15 DEF T

\* vector_features: all the features of every source, or the error of the last asked.
LEMMA FeaturesWhole ==
    ASSUME NEW in, NEW S, NEW E, FeatureCall(in, S, E)
    PROVE  AllOrNone(in, VectorFeatures(in))
<1> SUFFICES ASSUME NEW all, all = FetchInTurn(in), NEW out1, out1 = VectorFeatures(in)
             PROVE  AllOrNone(in, out1)
  OBVIOUS
<1> DEFINE whole == FlattenSeq([i \in 1..Len(in.sources) |->
                        ParsedFeatures(in.sources[i], in.holds[in.sources[i]])])
<1>1. all \in FetchedSo(in, S, E) /\ Fetches(all, Len(in.sources), whole, in)
  BY LoopFetches DEF OfSource
<1> HIDE DEF whole
<1>2. \/ out1.reply = "validation"
      \/ out1 = all /\ ~(all.reply = "result" /\ Len(all.value) > MaxFeatures)
  <2>1. CASE in.wrong \cap {"bbox", "area"} # {}
    BY <2>1 DEF VectorFeatures, Refused, Failed
  <2>2. CASE in.wrong \cap {"bbox", "area"} = {} /\ all.reply = "result" /\ Len(all.value) > MaxFeatures
    BY <2>2 DEF VectorFeatures, Failed
  <2>3. CASE in.wrong \cap {"bbox", "area"} = {} /\ ~(all.reply = "result" /\ Len(all.value) > MaxFeatures)
    BY <2>3 DEF VectorFeatures
  <2> QED
    BY <2>1, <2>2, <2>3
<1>3. CASE out1.reply = "validation"
  BY <1>3 DEF AllOrNone, ClientErrors
<1>4. CASE out1 = all /\ ~(all.reply = "result" /\ Len(all.value) > MaxFeatures)
  <2>1. all.value \in Seq(S \X E) /\ all.sent \in Seq(S) /\ in.sources \in Seq(S)
    BY <1>1 DEF FetchedSo, FeatureCall
  <2>2. /\ Len(all.value) \in Nat /\ MaxFeatures \in Nat /\ Len(all.sent) \in Nat /\ Len(in.sources) \in Nat
        /\ DOMAIN in.sources = 1..Len(in.sources) /\ DOMAIN all.sent = 1..Len(all.sent)
    BY <2>1, LenProperties, FeaturesAssumption
  <2>3. all.reply = "result" =>
          /\ all.value = whole /\ Len(whole) <= MaxFeatures
          /\ \A i \in DOMAIN in.sources : in.answers[in.sources[i]] = "ok"
    BY <1>1, <1>4, <2>2 DEF Fetches
  <2>4. all.reply \in ClientErrors =>
          /\ Understood(in.answers[all.sent[Len(all.sent)]]) = all.reply
          /\ IsPrefix(all.sent, in.sources)
    <3>1. "result" \notin ClientErrors
      BY DEF ClientErrors
    <3>2. (\A i \in 1..Len(all.sent) : all.sent[i] = in.sources[i]) /\ Len(all.sent) <= Len(in.sources)
      BY <1>1 DEF Fetches
    <3>3. IsPrefix(all.sent, in.sources)
      BY <2>2, <3>2 DEF IsPrefix
    <3> QED
      BY <1>1, <3>1, <3>3 DEF Fetches
  <2> QED
    BY <1>4, <2>3, <2>4, Zenon DEF AllOrNone, whole
<1> QED
  BY <1>2, <1>3, <1>4

-----------------------------------------------------------------------------
(* geo-weather-climate: requests, ranges and readings.                      *)

\* The requests of a source are one to three, in order.
HopNames == {"archive", "air", "points", "stations", "observations", "data"}
LEMMA RequestsAre ==
    ASSUME NEW source \in WeatherSources
    PROVE  Requests[source] \in Seq(HopNames) /\ Len(Requests[source]) \in 1..3
<1>1. source \in {"open_meteo", "air_quality", "nws", "cdo"}
  BY DEF WeatherSources, Requests
<1>2. CASE source = "open_meteo"
  BY <1>2 DEF Requests, HopNames
<1>3. CASE source = "air_quality"
  BY <1>3 DEF Requests, HopNames
<1>4. CASE source = "nws"
  BY <1>4 DEF Requests, HopNames
<1>5. CASE source = "cdo"
  BY <1>5 DEF Requests, HopNames
<1> QED
  BY <1>1, <1>2, <1>3, <1>4, <1>5

\* A reply is understood as found only where it was, as nothing only where it was so.
LEMMA ReplyMeans ==
    ASSUME NEW source, NEW last \in BOOLEAN, NEW answer, answer # "result"
    PROVE  /\ Reply(source, last, answer) = "found" <=> answer = "found"
           /\ Reply(source, last, answer) = "none" => answer \in {"none", "404", "shape"}
           /\ Reply(source, last, answer) # "result"
<1>1. Understood(answer) = "found" <=> answer = "found"
  BY DEF Understood, BadReplies
<1>2. Understood(answer) = "none" => answer = "none"
  BY DEF Understood, BadReplies
<1>3. Understood(answer) # "result"
  BY DEF Understood, BadReplies
<1> QED
  BY <1>1, <1>2, <1>3 DEF Reply, ParsedHop

\* observations: one record where every request found what the next needs, none where
\* one found nothing, an error where one failed.
LEMMA ObservationsWhole ==
    ASSUME NEW in, in.source \in WeatherSources, \A i \in 1..3 : in.answers[i] # "result"
    PROVE  ObservationsAreWhole(in, ObservationsCall(in))
<1> SUFFICES ASSUME NEW out1, out1 = ObservationsCall(in) PROVE ObservationsAreWhole(in, out1)
  OBVIOUS
<1>1. \/ out1.reply # "result" /\ out1.sent = <<>>
      \/ out1 = FetchAll(in.source, in)
  <2>1. RangeVerdict(in) # "result"
    BY DEF RangeVerdict, Unclassified
  <2> QED
    BY <2>1 DEF ObservationsCall, Failed
<1>2. CASE out1.reply # "result" /\ out1.sent = <<>>
  BY <1>2 DEF ObservationsAreWhole
<1>3. CASE out1 = FetchAll(in.source, in)
  <2> DEFINE source == in.source
             hops == Requests[source]
             Said(i) == Reply(source, i = Len(hops), in.answers[i])
             missed == {i \in 1..Len(hops) : Said(i) # "found"}
             stop == Min(missed)
  <2>1. hops \in Seq(HopNames) /\ Len(hops) \in 1..3
    BY RequestsAre
  <2>2. \A i \in 1..Len(hops) : /\ Said(i) = "found" <=> in.answers[i] = "found"
                                /\ Said(i) = "none" => in.answers[i] \in {"none", "404", "shape"}
                                /\ Said(i) # "result"
    <3> SUFFICES ASSUME NEW i \in 1..Len(hops)
                 PROVE  /\ Said(i) = "found" <=> in.answers[i] = "found"
                        /\ Said(i) = "none" => in.answers[i] \in {"none", "404", "shape"}
                        /\ Said(i) # "result"
      OBVIOUS
    <3>1. in.answers[i] # "result"
      <4>1. i \in 1..3
        <5>1. \A n \in 1..3 : \A k \in 1..n : k \in 1..3
          OBVIOUS
        <5> QED
          BY <2>1, <5>1, Zenon
      <4> QED
        BY <4>1
    <3>2. (i = Len(hops)) \in BOOLEAN
      OBVIOUS
    <3> QED
      BY <3>1, <3>2, ReplyMeans, Zenon
  <2>3. out1 = IF missed = {} THEN Returned(<<source>>, hops)
               ELSE IF Said(stop) = "none" THEN Returned(<<>>, Take(hops, stop))
               ELSE Failed(Said(stop), Take(hops, stop))
    BY <1>3, Zenon DEF FetchAll
  <2> HIDE DEF hops, Said
  <2>4. CASE missed = {}
    <3>1. out1.reply = "result" /\ out1.value = <<source>> /\ out1.sent = hops
      BY <2>3, <2>4 DEF Returned
    <3>2. <<source>> # <<>>
      OBVIOUS
    <3>3. \A i \in 1..Len(hops) : in.answers[i] = "found"
      BY <2>2, <2>4
    <3>4. out1.reply \notin ClientErrors
      BY <3>1 DEF ClientErrors
    <3> QED
      BY <3>1, <3>2, <3>3, <3>4, Zenon DEF ObservationsAreWhole, hops, source
  <2>5. CASE missed # {}
    <3>1. stop \in missed
      <4>1. missed \in SUBSET Nat
        BY <2>1
      <4> HIDE DEF missed
      <4> QED
        BY <2>5, <4>1, MinIsLeast
    <3>2. stop \in 1..Len(hops) /\ Said(stop) # "found"
      BY <3>1
    <3> HIDE DEF stop
    <3>3. Len(Take(hops, stop)) = stop
      <4>1. stop \in Nat /\ Len(Take(hops, stop)) = Lesser(stop, Len(hops))
        BY <2>1, <3>2, TakeMeans
      <4> QED
        BY <2>1, <3>2, <4>1 DEF Lesser
    <3>4. /\ in.answers[stop] # "found" /\ Said(stop) # "result"
          /\ Said(stop) = "none" => in.answers[stop] \in {"none", "404", "shape"}
      BY <2>2, <3>2
    <3>5. CASE Said(stop) = "none"
      <4>1. out1.reply = "result" /\ out1.value = <<>> /\ out1.sent = Take(hops, stop)
        BY <2>3, <2>5, <3>5 DEF Returned
      <4>2. out1.reply \notin ClientErrors
        BY <4>1 DEF ClientErrors
      <4> QED
        BY <3>3, <3>4, <3>5, <4>1, <4>2, Zenon DEF ObservationsAreWhole
    <3>6. CASE Said(stop) # "none"
      <4>1. out1.reply = Said(stop) /\ out1.sent = Take(hops, stop)
        BY <2>3, <2>5, <3>6 DEF Failed
      <4> QED
        BY <3>3, <3>4, <4>1, Zenon DEF ObservationsAreWhole
    <3> QED
      BY <3>5, <3>6
  <2> QED
    BY <2>4, <2>5
<1> QED
  BY <1>1, <1>2, <1>3

\* Whatever the source is asked for has every instant between two stamps of UTC.
LEMMA RangesCovered ==
    ASSUME NEW source, NEW start, NEW end, start.local \in Nat, end.local \in Nat,
           start.offset = 0, end.offset = 0
    PROVE  RangeIsCovered(source, start, end)
<1> DEFINE a == start.local \div DayLength
           b == end.local \div DayLength
<1>1. DayLength \in Nat \ {0}
  BY ObservationsAssumption
<1>2. a \in Int /\ a * DayLength <= start.local
  BY <1>1
<1>3. b \in Int /\ end.local < (b + 1) * DayLength
  BY <1>1
<1>4. ToRfc3339(start) = start.local /\ ToRfc3339(end) = end.local
  BY DEF ToRfc3339
<1>5. DatePart(start) = a /\ DatePart(end) = b
  BY DEF DatePart
<1> DEFINE from == a * DayLength
           upto == (b + 1) * DayLength
<1>6. from \in Int /\ upto \in Int /\ from <= start.local /\ end.local < upto
  BY <1>1, <1>2, <1>3
<1>7. AskedInstants(source, start, end) = IF source = "nws" THEN start.local..end.local ELSE from..(upto - 1)
  BY <1>4, <1>5 DEF AskedInstants
<1> HIDE DEF from, upto
<1>8. start.local..end.local \subseteq from..(upto - 1)
  BY <1>6
<1> QED
  BY <1>4, <1>7, <1>8 DEF RangeIsCovered

\* The rows of a reply, with dates of D.
CdoRows(rows, n, D) == rows \in [1..n -> [date : D, type : {"TMAX", "TMIN"}, value : Nat]]
\* Dates that are each there once, those of the first k rows among them.
DatesSo(dates, rows, k) ==
    /\ \A i, j \in 1..Len(dates) : dates[i] = dates[j] => i = j
    /\ \A m \in 1..k : \E i \in 1..Len(dates) : dates[i] = rows[m].date

\* The dates of a reply are each there once.
LEMMA DatesAre ==
    ASSUME NEW D, NEW rows, NEW n \in Nat, CdoRows(rows, n, D)
    PROVE  CdoDates(rows) \in Seq(D) /\ DatesSo(CdoDates(rows), rows, n)
<1> DEFINE dates == [i \in DOMAIN rows |-> rows[i].date]
<1>1. dates \in [1..n -> D] /\ \A m \in 1..n : dates[m] = rows[m].date
  BY DEF CdoRows
<1>2. CdoDates(rows) = MetInOrder(dates)
  BY Zenon DEF CdoDates
<1> HIDE DEF dates
<1>3. MetInOrder(dates) \in Seq(D) /\ MetSo(MetInOrder(dates), dates, n)
  BY <1>1, MetAre
<1> SUFFICES ASSUME NEW met, met = MetInOrder(dates) PROVE met \in Seq(D) /\ DatesSo(met, rows, n)
  BY <1>2
<1>4. \A m \in 1..n : \E i \in 1..Len(met) : met[i] = rows[m].date
  <2> SUFFICES ASSUME NEW m \in 1..n PROVE \E i \in 1..Len(met) : met[i] = rows[m].date
    OBVIOUS
  <2>1. PICK i \in 1..Len(met) : met[i] = dates[m]
    BY <1>3, Zenon DEF MetSo
  <2> QED
    BY <1>1, <2>1
<1> QED
  BY <1>3, <1>4, Zenon DEF MetSo, DatesSo

\* observations of CDO: every row is in the one record of its date.
LEMMA ReadingsKept ==
    ASSUME NEW D, NEW rows, NEW n \in Nat, CdoRows(rows, n, D)
    PROVE  ReadingsAreKept(rows, ParseCdo(rows))
<1> SUFFICES ASSUME NEW dates, dates = CdoDates(rows), NEW records, records = ParseCdo(rows)
             PROVE  ReadingsAreKept(rows, records)
  OBVIOUS
<1>1. dates \in Seq(D) /\ DatesSo(dates, rows, n)
  BY DatesAre
<1>2. DOMAIN dates = 1..Len(dates) /\ DOMAIN rows = 1..n
  BY <1>1 DEF CdoRows
<1> DEFINE Types(d) == {r.type : r \in {s \in ToSet(rows) : s.date = d}}
           Hits(d, type) == {i \in DOMAIN rows : rows[i].date = d /\ rows[i].type = type}
<1>3. /\ DOMAIN records = 1..Len(dates)
      /\ \A i \in 1..Len(dates) : records[i] = CdoRecord(rows, dates[i])
  BY <1>2 DEF ParseCdo
<1>4. \A d : /\ CdoRecord(rows, d).date = d /\ DOMAIN CdoRecord(rows, d).values = Types(d)
             /\ \A type \in Types(d) : CdoRecord(rows, d).values[type] = rows[Max(Hits(d, type))].value
  BY DEF CdoRecord
<1> HIDE DEF Types
<1>5. \A i, j \in DOMAIN records : records[i].date = records[j].date => i = j
  BY <1>1, <1>3, <1>4 DEF DatesSo
<1>6. \A r \in ToSet(rows) : \E rec \in ToSet(records) : rec.date = r.date /\ r.type \in DOMAIN rec.values
  <2> SUFFICES ASSUME NEW r \in ToSet(rows)
               PROVE  \E rec \in ToSet(records) : rec.date = r.date /\ r.type \in DOMAIN rec.values
    OBVIOUS
  <2>1. PICK k \in 1..n : r = rows[k]
    BY <1>2 DEF ToSet
  <2>2. PICK i \in 1..Len(dates) : dates[i] = r.date
    BY <1>1, <2>1 DEF DatesSo
  <2>3. records[i] \in ToSet(records)
    BY <1>3 DEF ToSet
  <2>4. r.type \in Types(r.date)
    BY DEF Types
  <2>5. records[i].date = r.date /\ DOMAIN records[i].values = Types(r.date)
    BY <1>3, <1>4, <2>2
  <2> QED
    BY <2>3, <2>4, <2>5
<1>7. ASSUME NEW rec \in ToSet(records), NEW type \in DOMAIN rec.values
      PROVE  \E r \in ToSet(rows) : r = [date |-> rec.date, type |-> type, value |-> rec.values[type]]
  <2>1. PICK i \in 1..Len(dates) : rec = CdoRecord(rows, dates[i])
    BY <1>3 DEF ToSet
  <2>2. rec.date = dates[i] /\ type \in Types(dates[i])
    BY <1>4, <1>7, <2>1
  <2>3. rec.values[type] = rows[Max(Hits(dates[i], type))].value
    BY <1>4, <2>1, <2>2
  <2>4. PICK s \in ToSet(rows) : s.date = dates[i] /\ s.type = type
    BY <2>2 DEF Types
  <2>5. PICK k \in 1..n : s = rows[k]
    BY <1>2, <2>4 DEF ToSet
  <2>6. Hits(dates[i], type) \in SUBSET (1..n) /\ Hits(dates[i], type) # {}
    BY <1>2, <2>4, <2>5
  <2>7. Max(Hits(dates[i], type)) \in Hits(dates[i], type)
    <3> HIDE DEF Hits
    <3> QED
      BY <2>6, MaxIsThere
  <2> DEFINE top == Max(Hits(dates[i], type))
  <2>8. top \in 1..n /\ rows[top].date = dates[i] /\ rows[top].type = type
    BY <1>2, <2>7
  <2> HIDE DEF top
  <2>9. rows[top] = [date |-> rows[top].date, type |-> rows[top].type, value |-> rows[top].value]
    BY <2>8 DEF CdoRows
  <2>10. rows[top] \in ToSet(rows)
    BY <1>2, <2>8 DEF ToSet
  <2>11. rec.values[type] = rows[top].value
    BY <2>3 DEF top
  <2> QED
    BY <2>2, <2>8, <2>9, <2>10, <2>11
<1> QED
  BY <1>5, <1>6, <1>7, Zenon DEF ReadingsAreKept

-----------------------------------------------------------------------------
(* Tools in stages.                                                         *)

\* A tool in stages ends at the first that fails, or after the last.
LEMMA StagedEnds ==
    ASSUME NEW W, NEW stages \in Seq(Stages(W)), NEW value
    PROVE  \E k \in 0..Len(stages) :
              /\ Staged(stages, value).sent = Asked(stages, k)
              /\ \/ /\ Staged(stages, value).reply = "result" /\ k = Len(stages)
                    /\ Staged(stages, value).value = value
                 \/ /\ k \in 1..Len(stages) /\ stages[k].says # "ok"
                    /\ Staged(stages, value).reply = stages[k].says
<1> DEFINE hits == {i \in DOMAIN stages : stages[i].says # "ok"}
           bad == IF hits = {} THEN 0 ELSE Min(hits)
<1>1. Staged(stages, value) = IF bad = 0 THEN Returned(value, Asked(stages, Len(stages)))
                              ELSE Failed(stages[bad].says, Asked(stages, bad))
  BY DEF Staged, FirstPos
<1>2. Len(stages) \in Nat /\ DOMAIN stages = 1..Len(stages)
  OBVIOUS
<1>3. CASE hits = {}
  <2>1. Staged(stages, value) = Returned(value, Asked(stages, Len(stages)))
    BY <1>1, <1>3
  <2>2. Len(stages) \in 0..Len(stages)
    BY <1>2
  <2> QED
    BY <2>1, <2>2 DEF Returned
<1>4. CASE hits # {}
  <2>1. hits \in SUBSET Nat /\ \A i \in DOMAIN stages : i # 0
    BY <1>2
  <2>2. bad \in hits
    <3> HIDE DEF hits
    <3> QED
      BY <1>4, <2>1, MinIsLeast
  <2>3. bad # 0 /\ bad \in 1..Len(stages) /\ bad \in 0..Len(stages) /\ stages[bad].says # "ok"
    BY <1>2, <2>2
  <2>4. Staged(stages, value) = Failed(stages[bad].says, Asked(stages, bad))
    BY <1>1, <2>3
  <2>5. Staged(stages, value).reply = stages[bad].says /\ Staged(stages, value).sent = Asked(stages, bad)
    BY <2>4 DEF Failed
  <2> QED
    BY <2>3, <2>5, Zenon
<1> QED
  BY <1>3, <1>4

\* Two stages that ask nobody, and others that do: the names are those of the others.
OthersAsked(stages, W, n) ==
    /\ Asked(stages, 0) = <<>> /\ Asked(stages, 1) = <<>> /\ Asked(stages, 2) = <<>>
    /\ \A k \in 2..n : /\ Asked(stages, k) \in Seq(W) /\ Len(Asked(stages, k)) = k - 2
                      /\ \A j \in 1..(k - 2) : Asked(stages, k)[j] = stages[j + 2].asks
LEMMA AsksAfterTwo ==
    ASSUME NEW W, NEW stages \in Seq(Stages(W)), NEW n \in Nat, n = Len(stages), n >= 2,
           stages[1].asks = "nobody", stages[2].asks = "nobody", \A k \in 3..n : stages[k].asks # "nobody"
    PROVE  OthersAsked(stages, W, n)
<1>1. \A k \in 1..n : Asked(stages, k) = Also(Asked(stages, k - 1), stages[k].asks)
  BY AskedMeans
<1>2. Asked(stages, 0) = <<>> /\ \A k \in 0..n : Asked(stages, k) \in Seq(W)
  BY AskedMeans
<1>3. \A k \in 1..n : stages[k].asks \in W
  BY StageWords
<1>4. 1 \in 1..n /\ 2 \in 1..n /\ 1 - 1 = 0 /\ 2 - 1 = 1 /\ \A k \in 2..n : k \in 0..n
  OBVIOUS
<1>5. Asked(stages, 1) = <<>> /\ Asked(stages, 2) = <<>>
  <2>1. Asked(stages, 1) = Also(Asked(stages, 1 - 1), "nobody") /\ Asked(stages, 2) = Also(Asked(stages, 2 - 1), "nobody")
    BY <1>1, <1>4, Zenon
  <2>2. Asked(stages, 1) = Also(Asked(stages, 0), "nobody") /\ Asked(stages, 2) = Also(Asked(stages, 1), "nobody")
    BY <1>4, <2>1
  <2> QED
    BY <1>2, <2>2 DEF Also
<1> DEFINE Names(k) == /\ Len(Asked(stages, k)) = k - 2
                       /\ \A j \in 1..(k - 2) : Asked(stages, k)[j] = stages[j + 2].asks
           T == {k \in 0..n : k < 2 \/ Names(k)}
<1>6. 0 \in T
  OBVIOUS
<1>7. \A k \in 1..n : k - 1 \in T => k \in T
  <2> SUFFICES ASSUME NEW k \in 1..n, k - 1 \in T, ~(k < 2) PROVE Names(k)
    OBVIOUS
  <2>1. CASE k = 2
    <3>1. Len(<<>>) = 0
      OBVIOUS
    <3> QED
      BY <1>5, <2>1, <3>1
  <2>2. CASE k # 2
    <3>1. k \in 3..n /\ k - 1 \in 0..n /\ Names(k - 1)
      <4> HIDE DEF Names
      <4>1. k \in 3..n /\ ~(k - 1 < 2)
        BY <2>2
      <4> QED
        BY <4>1
    <3> SUFFICES ASSUME NEW before, before = Asked(stages, k - 1), NEW name, name = stages[k].asks,
                        NEW after, after = Asked(stages, k)
                 PROVE  /\ Len(after) = k - 2
                        /\ \A j \in 1..(k - 2) : after[j] = stages[j + 2].asks
      OBVIOUS
    <3>2. before \in Seq(W) /\ name \in W /\ name # "nobody"
      BY <1>2, <1>3, <3>1
    <3>3. after = Append(before, name)
      <4>1. after = Also(before, name)
        BY <1>1, Zenon
      <4> QED
        BY <3>2, <4>1 DEF Also
    <3>4. Len(before) = k - 3 /\ \A j \in 1..(k - 3) : before[j] = stages[j + 2].asks
      <4>1. (k - 1) - 2 = k - 3
        BY <3>1
      <4>2. Len(before) = (k - 1) - 2 /\ \A j \in 1..((k - 1) - 2) : before[j] = stages[j + 2].asks
        BY <3>1, Zenon
      <4> QED
        BY <4>1, <4>2
    <3>5. /\ Len(after) = Len(before) + 1 /\ after[Len(before) + 1] = name
          /\ \A j \in 1..Len(before) : after[j] = before[j]
      BY <3>2, <3>3, AppendProperties
    <3>6. Len(after) = k - 2 /\ after[k - 2] = name
      BY <3>1, <3>4, <3>5
    <3>7. \A j \in 1..(k - 2) : after[j] = stages[j + 2].asks
      <4> SUFFICES ASSUME NEW j \in 1..(k - 2) PROVE after[j] = stages[j + 2].asks
        OBVIOUS
      <4>1. CASE j = k - 2
        <5>1. j + 2 = k
          BY <3>1, <4>1
        <5> QED
          BY <3>6, <4>1, <5>1
      <4>2. CASE j # k - 2
        <5>1. j \in 1..(k - 3)
          BY <3>1, <4>2
        <5> QED
          BY <3>4, <3>5, <5>1
      <4> QED
        BY <4>1, <4>2
    <3> QED
      BY <3>6, <3>7
  <2> QED
    BY <2>1, <2>2
<1>8. 0..n \subseteq T
  <2> HIDE DEF T
  <2> QED
    BY <1>6, <1>7, UpToInduction
<1>9. \A k \in 2..n : Names(k) /\ k \in 0..n
  BY <1>4, <1>8
<1> QED
  BY <1>2, <1>5, <1>9 DEF OthersAsked

-----------------------------------------------------------------------------
(* geo-query and geo-warehouse.                                             *)

InARow(a, b, c) == (a \o b) \o c = a \o (b \o c)
LEMMA ThreeInARow ==
    ASSUME NEW S, NEW a \in Seq(S), NEW b \in Seq(S), NEW c \in Seq(S)
    PROVE  InARow(a, b, c)
  BY ConcatAssociative, SMT DEF InARow

\* The first row of the first page is cut off, and nothing else.
LEMMA HeaderIsCut ==
    ASSUME NEW S, NEW n \in Nat \ {0}, NEW pages \in [1..n -> Seq(S)], Len(pages[1]) # 0,
           pages[1][1] = Header, Header \in S
    PROVE  FlattenSeq(pages) = <<Header>> \o CollectResults(pages)
<1> DEFINE first == SubSeq(pages[1], 2, Len(pages[1]))
           head == <<Header>>
           cut == [i \in 1..n |-> IF i = 1 THEN first ELSE pages[i]]
<1>1. Header \in S /\ head \in Seq(S) /\ Len(head) = 1 /\ head[1] = Header
  OBVIOUS
<1>2. pages[1] \in Seq(S) /\ Len(pages[1]) \in Nat \ {0}
  OBVIOUS
<1>3. /\ first \in Seq(S) /\ Len(first) = Len(pages[1]) - 1
      /\ \A i \in 1..(Len(pages[1]) - 1) : first[i] = pages[1][i + 1]
  <2> DEFINE len == Len(pages[1])
  <2>1. \A i \in 2..len : pages[1][i] \in S
    BY <1>2, ElementOfSeq
  <2>2. len \in Int /\ 2 \in Int /\ len >= 1
    BY <1>2
  <2> HIDE DEF len
  <2> DEFINE part == SubSeq(pages[1], 2, len)
  <2>3. /\ part \in Seq(S) /\ Len(part) = IF 2 <= len THEN len - 2 + 1 ELSE 0
        /\ \A i \in 1..(len - 2 + 1) : part[i] = pages[1][2 + i - 1]
    BY <2>1, <2>2, SubSeqProperties
  <2> HIDE DEF part
  <2>4. Len(part) = len - 1 /\ \A i \in 1..(len - 1) : part[i] = pages[1][i + 1]
    <3>1. len - 2 + 1 = len - 1 /\ \A i \in 1..(len - 1) : 2 + i - 1 = i + 1
      BY <2>2
    <3> QED
      BY <2>2, <2>3, <3>1
  <2> QED
    BY <2>3, <2>4 DEF part, len
<1> HIDE DEF first, head
<1>4. pages[1] = head \o first
  <2> DEFINE both == head \o first
  <2>1. /\ both \in Seq(S) /\ Len(both) = Len(head) + Len(first)
        /\ \A i \in 1..(Len(head) + Len(first)) :
              both[i] = IF i <= Len(head) THEN head[i] ELSE first[i - Len(head)]
    BY <1>1, <1>3, ConcatProperties, Zenon
  <2> HIDE DEF both
  <2>2. Len(both) = Len(pages[1])
    BY <1>1, <1>2, <1>3, <2>1
  <2>3. \A i \in 1..Len(pages[1]) : pages[1][i] = both[i]
    <3> SUFFICES ASSUME NEW i \in 1..Len(pages[1]) PROVE pages[1][i] = both[i]
      OBVIOUS
    <3>1. CASE i = 1
      BY <1>1, <1>2, <1>3, <2>1, <3>1
    <3>2. CASE i # 1
      <4>1. i - 1 \in 1..(Len(pages[1]) - 1) /\ (i - 1) + 1 = i /\ ~(i <= 1)
        BY <1>2, <3>2
      <4>2. both[i] = first[i - 1]
        BY <1>1, <1>2, <1>3, <2>1, <4>1
      <4>3. first[i - 1] = pages[1][i]
        BY <1>3, <4>1
      <4> QED
        BY <4>2, <4>3
    <3> QED
      BY <3>1, <3>2
  <2>4. pages[1] = both
    BY <1>2, <2>1, <2>2, <2>3, SeqEqual
  <2> QED
    BY <2>4 DEF both
<1>5. cut \in [1..n -> Seq(S)]
  BY <1>3
<1>6. CollectResults(pages) = FlattenSeq(cut)
  BY DEF CollectResults, first
<1>7. PICK whole \in [0..n -> Seq(S)] : Flattened(whole, pages, n) /\ FlattenSeq(pages) = whole[n]
  BY FlattenMeans
<1>8. PICK rest \in [0..n -> Seq(S)] : Flattened(rest, cut, n) /\ FlattenSeq(cut) = rest[n]
  <2> HIDE DEF cut
  <2> QED
    BY <1>5, FlattenMeans
<1> DEFINE Both(k) == whole[k] = head \o rest[k]
           T == {k \in 0..n : k = 0 \/ Both(k)}
<1>9. 0 \in T
  OBVIOUS
<1>10. \A k \in 1..n : k - 1 \in T => k \in T
  <2> SUFFICES ASSUME NEW k \in 1..n, k - 1 \in T PROVE Both(k)
    <3> HIDE DEF Both
    <3> QED
      OBVIOUS
  <2>1. /\ whole[k] = whole[k - 1] \o pages[k] /\ rest[k] = rest[k - 1] \o cut[k]
        /\ whole[0] = <<>> /\ rest[0] = <<>>
    BY <1>7, <1>8 DEF Flattened
  <2>2. CASE k = 1
    <3>1. k - 1 = 0
      BY <2>2
    <3>2. whole[k] = pages[1] /\ rest[k] = first
      <4>1. whole[k] = <<>> \o pages[1] /\ rest[k] = <<>> \o first
        BY <2>1, <2>2, <3>1
      <4> QED
        BY <1>2, <1>3, <4>1, ConcatEmptySeq
    <3> QED
      BY <1>4, <3>2
  <2>3. CASE k # 1
    <3>1. Both(k - 1) /\ cut[k] = pages[k] /\ k - 1 \in 0..n
      <4> HIDE DEF Both
      <4> QED
        BY <2>3
    <3>2. rest[k - 1] \in Seq(S) /\ pages[k] \in Seq(S)
      BY <3>1
    <3>3. (head \o rest[k - 1]) \o pages[k] = head \o (rest[k - 1] \o pages[k])
      <4>1. InARow(head, rest[k - 1], pages[k])
        BY <1>1, <3>2, ThreeInARow
      <4> QED
        BY <4>1, Zenon DEF InARow
    <3> QED
      BY <2>1, <3>1, <3>3, Zenon
  <2> QED
    BY <2>2, <2>3
<1>11. 0..n \subseteq T
  <2> HIDE DEF T
  <2> QED
    BY <1>9, <1>10, UpToInduction
<1>12. Both(n)
  <2> HIDE DEF Both
  <2>1. n \in T /\ n # 0
    BY <1>11
  <2> QED
    BY <2>1
<1> QED
  BY <1>6, <1>7, <1>8, <1>12, Zenon DEF head

\* Three sequences one after the other.
Joined(whole, a, b, c) ==
    /\ Len(whole) = Len(a) + Len(b) + Len(c)
    /\ \A k \in 1..Len(a) : whole[k] = a[k]
    /\ \A k \in 1..Len(b) : whole[Len(a) + k] = b[k]
    /\ \A k \in 1..Len(c) : whole[Len(a) + Len(b) + k] = c[k]
LEMMA ThreeParts ==
    ASSUME NEW S, NEW a \in Seq(S), NEW b \in Seq(S), NEW c \in Seq(S)
    PROVE  a \o b \o c \in Seq(S) /\ Joined(a \o b \o c, a, b, c)
<1> DEFINE two == a \o b
           all == two \o c
<1>1. Len(a) \in Nat /\ Len(b) \in Nat /\ Len(c) \in Nat
  OBVIOUS
<1>2. /\ two \in Seq(S) /\ Len(two) = Len(a) + Len(b)
      /\ \A i \in 1..(Len(a) + Len(b)) : two[i] = IF i <= Len(a) THEN a[i] ELSE b[i - Len(a)]
  BY ConcatProperties, Zenon
<1>3. two \in Seq(S)
  BY <1>2
<1> HIDE DEF two
<1>4. /\ all \in Seq(S) /\ Len(all) = Len(two) + Len(c)
      /\ \A i \in 1..(Len(two) + Len(c)) : all[i] = IF i <= Len(two) THEN two[i] ELSE c[i - Len(two)]
  BY <1>3, ConcatProperties, Zenon
<1> HIDE DEF all
<1>5. Len(all) = Len(a) + Len(b) + Len(c)
  BY <1>1, <1>2, <1>4
<1>6. \A k \in 1..Len(a) : all[k] = a[k]
  <2> SUFFICES ASSUME NEW k \in 1..Len(a) PROVE all[k] = a[k]
    OBVIOUS
  <2>1. all[k] = two[k]
    BY <1>1, <1>2, <1>4
  <2>2. two[k] = a[k]
    BY <1>1, <1>2
  <2> QED
    BY <2>1, <2>2
<1>7. \A k \in 1..Len(b) : all[Len(a) + k] = b[k]
  <2> SUFFICES ASSUME NEW k \in 1..Len(b) PROVE all[Len(a) + k] = b[k]
    OBVIOUS
  <2>1. all[Len(a) + k] = two[Len(a) + k]
    BY <1>1, <1>2, <1>4
  <2>2. /\ Len(a) + k \in 1..(Len(a) + Len(b)) /\ ~(Len(a) + k <= Len(a)) /\ (Len(a) + k) - Len(a) = k
    BY <1>1
  <2>3. two[Len(a) + k] = b[k]
    BY <1>2, <2>2
  <2> QED
    BY <2>1, <2>3
<1>8. \A k \in 1..Len(c) : all[Len(a) + Len(b) + k] = c[k]
  <2> SUFFICES ASSUME NEW k \in 1..Len(c) PROVE all[Len(a) + Len(b) + k] = c[k]
    OBVIOUS
  <2> DEFINE i == Len(a) + Len(b) + k
  <2>1. i \in 1..(Len(two) + Len(c)) /\ ~(i <= Len(two)) /\ i - Len(two) = k
    BY <1>1, <1>2
  <2> HIDE DEF i
  <2>2. all[i] = c[k]
    BY <1>4, <2>1
  <2> QED
    BY <2>2 DEF i
<1> QED
  BY <1>4, <1>5, <1>6, <1>7, <1>8, Zenon DEF Joined, all, two

\* A call of an engine: the states it is found in, of which the last is an end, and the
\* pages of its result, of which the first begins with the header.
PollStates == {"RUNNING", "SUCCEEDED", "FAILED", "raises"}
SqlCall(in) ==
    /\ in.engine \in SqlEngines /\ in.states \in Seq(PollStates)
    /\ in.states # <<>> /\ in.states[Len(in.states)] # "RUNNING"
    /\ \E n \in Nat \ {0} : in.pages \in [1..n -> Seq(Nat)]
    /\ Len(in.pages[1]) # 0 /\ in.pages[1][1] = Header

AllErrors == {"ok", "validation", "not-found", "authentication", "upstream", "network"}
LEMMA SaysOfErrors ==
    ASSUME NEW words
    PROVE  /\ Classified(words) \in AllErrors \ {"ok", "network"}
           /\ Classified(words) = "authentication" =>
                 "login" \in words /\ "syntax" \notin words /\ "missing" \notin words
           /\ ApiSays(words) \in AllErrors \ {"ok", "network"}
           /\ ApiSays(words) = "authentication" => "login" \in words
           /\ \A state \in PollStates :
                 /\ PollSays(state, words) \in AllErrors
                 /\ PollSays(state, words) = "authentication" => "login" \in words
                 /\ PollSays(state, words) = "network" => state = "RUNNING"
                 /\ PollSays(state, words) = "ok" => state = "SUCCEEDED"
<1>1. /\ Classified(words) \in AllErrors \ {"ok", "network"}
      /\ Classified(words) = "authentication" =>
            "login" \in words /\ "syntax" \notin words /\ "missing" \notin words
  BY DEF Classified, AllErrors
<1>2. ReasonSays(words) \in AllErrors \ {"ok", "network", "authentication"}
  BY DEF ReasonSays, Classified, AllErrors
<1>3. ApiSays(words) \in AllErrors \ {"ok", "network"} /\ (ApiSays(words) = "authentication" => "login" \in words)
  BY DEF ApiSays, AllErrors
<1>4. ASSUME NEW state \in PollStates
      PROVE  /\ PollSays(state, words) \in AllErrors
             /\ PollSays(state, words) = "authentication" => "login" \in words
             /\ PollSays(state, words) = "network" => state = "RUNNING"
             /\ PollSays(state, words) = "ok" => state = "SUCCEEDED"
  <2>1. CASE state = "raises"
    BY <1>3, <2>1 DEF PollSays
  <2>2. CASE state = "FAILED"
    BY <1>2, <2>2 DEF PollSays
  <2>3. CASE state = "SUCCEEDED"
    BY <2>3 DEF PollSays, AllErrors
  <2>4. CASE state = "RUNNING"
    BY <2>4 DEF PollSays, AllErrors
  <2> QED
    BY <2>1, <2>2, <2>3, <2>4 DEF PollStates
<1> QED
  BY <1>1, <1>3, <1>4

\* A query is asked about so often, and no more, and until it has ended if it does.
LEMMA PollsAreFew ==
    ASSUME NEW in, SqlCall(in), NEW np, np = Len(Polls(in))
    PROVE  /\ Polls(in) \in Seq(PollStates) /\ np \in Nat /\ 1 <= np /\ np <= MaxPolls
           /\ \A i \in 1..np : Polls(in)[i] = in.states[i]
           /\ Polls(in)[np] = "RUNNING" => np = MaxPolls /\ \A i \in 1..np : in.states[i] = "RUNNING"
<1> DEFINE asked == Take(in.states, MaxPolls)
           hits == {i \in DOMAIN asked : asked[i] \in Ended \cup {"raises"}}
           end == IF hits = {} THEN 0 ELSE Min(hits)
<1>1. /\ in.states \in Seq(PollStates) /\ MaxPolls \in Nat \ {0} /\ Len(in.states) \in Nat \ {0}
      /\ in.states[Len(in.states)] # "RUNNING"
  BY SqlAssumption DEF SqlCall
<1>2. /\ asked \in Seq(PollStates) /\ Len(asked) = Lesser(MaxPolls, Len(in.states))
      /\ \A i \in 1..Len(asked) : asked[i] = in.states[i]
  BY <1>1, TakeMeans
<1>3. Polls(in) = IF end = 0 THEN asked ELSE Take(asked, end)
  BY Zenon DEF Polls, FirstPos
<1>4. hits \in SUBSET (1..Len(asked)) /\ hits \in SUBSET Nat
  BY <1>2
<1> HIDE DEF asked
<1>5. Len(asked) \in Nat /\ 1 <= Len(asked) /\ Len(asked) <= MaxPolls
      /\ (Len(asked) = MaxPolls \/ Len(asked) = Len(in.states))
  BY <1>1, <1>2 DEF Lesser
<1>6. CASE hits = {}
  <2>1. Polls(in) = asked /\ np = Len(asked)
    BY <1>3, <1>6
  <2>2. \A i \in 1..Len(asked) : asked[i] = "RUNNING"
    <3>1. \A i \in 1..Len(asked) : asked[i] \in PollStates /\ asked[i] \notin Ended \cup {"raises"}
      BY <1>2, <1>6
    <3> QED
      BY <3>1 DEF PollStates, Ended
  <2>3. Len(asked) = MaxPolls
    BY <1>1, <1>2, <1>5, <2>2
  <2> QED
    BY <1>2, <1>5, <2>1, <2>2, <2>3
<1>7. CASE hits # {}
  <2>1. end \in hits
    <3> HIDE DEF hits
    <3> QED
      BY <1>4, <1>7, MinIsLeast
  <2>2. end \in 1..Len(asked) /\ end # 0 /\ asked[end] # "RUNNING"
    BY <1>4, <2>1 DEF Ended
  <2>3. Polls(in) = Take(asked, end)
    BY <1>3, <2>2
  <2> HIDE DEF end, hits
  <2>4. /\ Take(asked, end) \in Seq(PollStates) /\ Len(Take(asked, end)) = Lesser(end, Len(asked))
        /\ \A i \in 1..Len(Take(asked, end)) : Take(asked, end)[i] = asked[i]
    BY <1>2, <2>2, TakeMeans
  <2>5. np = end
    BY <1>5, <2>2, <2>3, <2>4 DEF Lesser
  <2>6. np \in Nat /\ 1 <= np /\ np <= MaxPolls
    BY <1>1, <1>5, <2>2, <2>5
  <2>7. \A i \in 1..np : Polls(in)[i] = asked[i] /\ i \in 1..Len(asked)
    BY <1>5, <2>2, <2>3, <2>4, <2>5
  <2>8. Polls(in)[np] # "RUNNING" /\ \A i \in 1..np : Polls(in)[i] = in.states[i]
    BY <1>2, <2>2, <2>5, <2>6, <2>7
  <2> QED
    BY <2>3, <2>4, <2>6, <2>8
<1> QED
  BY <1>6, <1>7

\* Athena's stages: two that ask nobody, the start, the polls and the pages.
AthenaWords == {"nobody", "start", "poll", "page"} \cup AllErrors
AthenaSo(in, stages, np) ==
    /\ stages \in Seq(Stages(AthenaWords))
    /\ Len(stages) \in Nat /\ Len(stages) > 3 + np
    /\ stages[1].asks = "nobody" /\ stages[2].asks = "nobody"
    /\ stages[1].says # "network" /\ stages[2].says # "network"
    /\ \A k \in 3..Len(stages) :
          /\ stages[k].asks # "nobody"
          /\ stages[k].asks = "poll" <=> k \in 4..(3 + np)
          /\ stages[k].says = "authentication" => "login" \in in.words
          /\ stages[k].says = "network" => k = 3 + np /\ Polls(in)[np] = "RUNNING"
          /\ stages[k].says = "ok" /\ k = 3 + np => Polls(in)[np] = "SUCCEEDED"
          /\ stages[k].says = "ok" /\ k = Len(stages) => in.fetches
LEMMA AthenaStagesAre ==
    ASSUME NEW in, SqlCall(in), NEW stages, stages = AthenaStages(in), NEW np, np = Len(Polls(in))
    PROVE  AthenaSo(in, stages, np)
<1> DEFINE S == Stages(AthenaWords)
           Say(i) == IF i < np THEN "ok" ELSE PollSays(Polls(in)[i], in.words)
           begun == IF in.opens THEN "ok" ELSE ApiSays(in.words)
           Come(i) == IF i < Len(in.pages) \/ in.fetches THEN "ok" ELSE ApiSays(in.words)
           a == <<CheckThat(in.driver, "upstream"), CheckThat(in.staging, "authentication"),
                  Ask("start", begun)>>
           b == [i \in 1..np |-> Ask("poll", Say(i))]
           c == [i \in DOMAIN in.pages |-> Ask("page", Come(i))]
<1>1. np \in Nat /\ 1 <= np /\ np <= MaxPolls /\ Polls(in) \in Seq(PollStates)
      /\ \A i \in 1..np : Polls(in)[i] \in PollStates
  <2>1. np \in Nat /\ 1 <= np /\ np <= MaxPolls /\ Polls(in) \in Seq(PollStates)
    BY PollsAreFew
  <2>2. \A i \in 1..np : Polls(in)[i] \in PollStates
    BY <2>1, ElementOfSeq
  <2> QED
    BY <2>1, <2>2
<1>2. PICK ng \in Nat \ {0} : in.pages \in [1..ng -> Seq(Nat)]
  BY DEF SqlCall
<1>3. stages = a \o b \o c
  BY Zenon DEF AthenaStages
<1>4. begun \in AllErrors \ {"network"} /\ (begun = "authentication" => "login" \in in.words)
  BY SaysOfErrors DEF AllErrors
<1>5. \A i \in 1..np : /\ Say(i) \in AllErrors
                       /\ Say(i) = "authentication" => "login" \in in.words
                       /\ Say(i) = "network" => i = np /\ Polls(in)[np] = "RUNNING"
                       /\ Say(i) = "ok" /\ i = np => Polls(in)[np] = "SUCCEEDED"
  <2> SUFFICES ASSUME NEW i \in 1..np
               PROVE  /\ Say(i) \in AllErrors
                      /\ Say(i) = "authentication" => "login" \in in.words
                      /\ Say(i) = "network" => i = np /\ Polls(in)[np] = "RUNNING"
                      /\ Say(i) = "ok" /\ i = np => Polls(in)[np] = "SUCCEEDED"
    OBVIOUS
  <2>1. CASE i < np
    BY <1>1, <2>1 DEF AllErrors
  <2>2. CASE ~(i < np)
    <3>1. i = np /\ Say(i) = PollSays(Polls(in)[np], in.words) /\ Polls(in)[np] \in PollStates
      BY <1>1, <2>2
    <3>2. /\ PollSays(Polls(in)[np], in.words) \in AllErrors
          /\ PollSays(Polls(in)[np], in.words) = "authentication" => "login" \in in.words
          /\ PollSays(Polls(in)[np], in.words) = "network" => Polls(in)[np] = "RUNNING"
          /\ PollSays(Polls(in)[np], in.words) = "ok" => Polls(in)[np] = "SUCCEEDED"
      BY <3>1, SaysOfErrors
    <3> HIDE DEF Say
    <3> QED
      BY <3>1, <3>2
  <2> QED
    BY <2>1, <2>2
<1>6. \A i \in 1..ng : /\ Come(i) \in AllErrors \ {"network"}
                       /\ Come(i) = "authentication" => "login" \in in.words
                       /\ Come(i) = "ok" /\ i = ng => in.fetches
  <2>1. Len(in.pages) = ng
    BY <1>2
  <2>2. /\ ApiSays(in.words) \in AllErrors \ {"ok", "network"}
        /\ ApiSays(in.words) = "authentication" => "login" \in in.words
    BY SaysOfErrors
  <2> QED
    BY <1>2, <2>1, <2>2 DEF AllErrors
<1> HIDE DEF begun, Say, Come
<1>7. /\ a \in Seq(S) /\ Len(a) = 3 /\ a[1].asks = "nobody" /\ a[2].asks = "nobody"
      /\ a[1].says # "network" /\ a[2].says # "network" /\ a[3] = Ask("start", begun)
  <2>1. \A holds : /\ CheckThat(holds, "upstream") \in S /\ CheckThat(holds, "upstream").asks = "nobody"
                   /\ CheckThat(holds, "upstream").says # "network"
    BY DEF CheckThat, Check, Stages, AthenaWords, AllErrors
  <2>2. \A holds : /\ CheckThat(holds, "authentication") \in S
                   /\ CheckThat(holds, "authentication").asks = "nobody"
                   /\ CheckThat(holds, "authentication").says # "network"
    BY DEF CheckThat, Check, Stages, AthenaWords, AllErrors
  <2>3. Ask("start", begun) \in S
    BY <1>4 DEF Ask, Stages, AthenaWords
  <2> HIDE DEF S
  <2> QED
    BY <2>1, <2>2, <2>3, FewElements
<1>8. b \in Seq(S) /\ Len(b) = np /\ \A i \in 1..np : b[i] = Ask("poll", Say(i))
  <2>1. \A i \in 1..np : Ask("poll", Say(i)) \in S
    BY <1>5 DEF Ask, Stages, AthenaWords
  <2>2. b \in [1..np -> S]
    <3> HIDE DEF S
    <3> QED
      BY <2>1
  <2> HIDE DEF S
  <2> QED
    BY <1>1, <2>2, FunctionIsSeq
<1>9. c \in Seq(S) /\ Len(c) = ng /\ \A i \in 1..ng : c[i] = Ask("page", Come(i))
  <2>1. \A i \in 1..ng : Ask("page", Come(i)) \in S
    BY <1>6 DEF Ask, Stages, AthenaWords
  <2>2. c \in [1..ng -> S]
    <3> HIDE DEF S
    <3> QED
      BY <1>2, <2>1
  <2>3. \A i \in 1..ng : c[i] = Ask("page", Come(i))
    BY <1>2
  <2> HIDE DEF S, c
  <2> QED
    BY <2>2, <2>3, FunctionIsSeq
<1> HIDE DEF a, b, c, S
<1>10. stages \in Seq(S) /\ Joined(stages, a, b, c)
  <2>1. a \in Seq(S) /\ b \in Seq(S) /\ c \in Seq(S)
    BY <1>7, <1>8, <1>9
  <2>2. a \o b \o c \in Seq(S) /\ Joined(a \o b \o c, a, b, c)
    BY <2>1, ThreeParts, Zenon
  <2> QED
    BY <1>3, <2>2, Zenon
<1>11. /\ Len(stages) = 3 + np + ng
       /\ \A k \in 1..3 : stages[k] = a[k]
       /\ \A k \in 1..np : stages[3 + k] = b[k]
       /\ \A k \in 1..ng : stages[3 + np + k] = c[k]
  BY <1>7, <1>8, <1>9, <1>10, Zenon DEF Joined
<1>12. /\ Len(stages) \in Nat /\ Len(stages) > 3 + np
       /\ stages[1].asks = "nobody" /\ stages[2].asks = "nobody"
       /\ stages[1].says # "network" /\ stages[2].says # "network"
  BY <1>1, <1>7, <1>11
<1>13. ASSUME NEW k \in 3..Len(stages)
       PROVE  /\ stages[k].asks # "nobody"
              /\ stages[k].asks = "poll" <=> k \in 4..(3 + np)
              /\ stages[k].says = "authentication" => "login" \in in.words
              /\ stages[k].says = "network" => k = 3 + np /\ Polls(in)[np] = "RUNNING"
              /\ stages[k].says = "ok" /\ k = 3 + np => Polls(in)[np] = "SUCCEEDED"
              /\ stages[k].says = "ok" /\ k = Len(stages) => in.fetches
  <2>1. CASE k = 3
    <3>1. stages[k].asks = "start" /\ stages[k].says = begun
      BY <1>7, <1>11, <2>1 DEF Ask
    <3>2. k # 3 + np /\ k # Len(stages) /\ k \notin 4..(3 + np)
      BY <1>1, <1>11, <2>1
    <3> QED
      BY <1>4, <3>1, <3>2
  <2>2. CASE k \in 4..(3 + np)
    <3>1. k - 3 \in 1..np /\ 3 + (k - 3) = k
      BY <1>1, <2>2
    <3>2. stages[k] = Ask("poll", Say(k - 3))
      BY <1>8, <1>11, <3>1
    <3>3. stages[k].asks = "poll" /\ stages[k].says = Say(k - 3)
      BY <3>2 DEF Ask
    <3>4. k # Len(stages) /\ (k - 3 = np <=> k = 3 + np)
      BY <1>1, <1>11, <2>2
    <3> QED
      BY <1>5, <2>2, <3>1, <3>3, <3>4
  <2>3. CASE k \in (4 + np)..(3 + np + ng)
    <3>1. k - (3 + np) \in 1..ng /\ 3 + np + (k - (3 + np)) = k
      BY <1>1, <2>3
    <3>2. stages[k] = Ask("page", Come(k - (3 + np)))
      BY <1>9, <1>11, <3>1
    <3>3. stages[k].asks = "page" /\ stages[k].says = Come(k - (3 + np))
      BY <3>2 DEF Ask
    <3>4. k # 3 + np /\ k \notin 4..(3 + np) /\ (k = Len(stages) => k - (3 + np) = ng)
      BY <1>1, <1>11, <2>3
    <3> QED
      BY <1>6, <3>1, <3>3, <3>4
  <2> QED
    BY <1>1, <1>11, <2>1, <2>2, <2>3
<1> QED
  BY <1>10, <1>12, <1>13 DEF S, AthenaSo

\* Athena: no connection is opened, rows are all but the header, polls are bounded.
LEMMA AthenaIsClosed ==
    ASSUME NEW in, SqlCall(in), in.engine = "athena"
    PROVE  ConnectionsAreClosed(in, Staged(AthenaStages(in), CollectResults(in.pages)))
<1> SUFFICES ASSUME NEW stages, stages = AthenaStages(in), NEW np, np = Len(Polls(in)),
                    NEW out1, out1 = Staged(stages, CollectResults(in.pages)), NEW n, n = Len(stages)
             PROVE  ConnectionsAreClosed(in, out1)
  OBVIOUS
<1>1. AthenaSo(in, stages, np)
  BY AthenaStagesAre
<1>2. /\ stages \in Seq(Stages(AthenaWords)) /\ n \in Nat /\ n > 3 + np
      /\ np \in Nat /\ 1 <= np /\ np <= MaxPolls /\ MaxPolls \in Nat
      /\ \A i \in 1..np : Polls(in)[i] = in.states[i]
      /\ Polls(in)[np] = "RUNNING" => np = MaxPolls /\ \A i \in 1..np : in.states[i] = "RUNNING"
  BY <1>1, PollsAreFew, SqlAssumption DEF AthenaSo
<1>3. PICK k \in 0..n :
         /\ out1.sent = Asked(stages, k)
         /\ \/ out1.reply = "result" /\ k = n /\ out1.value = CollectResults(in.pages)
            \/ k \in 1..n /\ stages[k].says # "ok" /\ out1.reply = stages[k].says
  BY <1>2, StagedEnds
<1>4. OthersAsked(stages, AthenaWords, n)
  <2>1. \A i \in 3..n : stages[i].asks # "nobody"
    BY <1>1 DEF AthenaSo
  <2>2. n >= 2 /\ stages[1].asks = "nobody" /\ stages[2].asks = "nobody"
    BY <1>1, <1>2 DEF AthenaSo
  <2> QED
    BY <1>2, <2>1, <2>2, AsksAfterTwo
<1>5. /\ Asked(stages, 0) = <<>> /\ Asked(stages, 1) = <<>> /\ Asked(stages, 2) = <<>>
      /\ \A i \in 2..n : /\ Asked(stages, i) \in Seq(AthenaWords) /\ Len(Asked(stages, i)) = i - 2
                         /\ \A j \in 1..(i - 2) : Asked(stages, i)[j] = stages[j + 2].asks
  BY <1>4, Zenon DEF OthersAsked
<1>6. ~Contains(out1.sent, "open")
  <2>1. \A i \in 0..n : Asked(stages, i) \in Seq(AthenaWords)
    BY <1>2, AskedMeans
  <2>2. out1.sent \in Seq(AthenaWords)
    BY <1>3, <2>1
  <2>3. \A i \in 1..Len(out1.sent) : out1.sent[i] \in AthenaWords
    BY <2>2, ElementOfSeq
  <2>4. "open" \notin AthenaWords
    BY DEF AthenaWords, AllErrors
  <2> QED
    BY <2>3, <2>4 DEF Contains
<1> DEFINE polled == {i \in DOMAIN out1.sent : out1.sent[i] = "poll"}
<1>7. polled \subseteq 2..(np + 1) /\ (k >= 3 + np => polled = 2..(np + 1))
  <2>1. CASE k < 2
    <3>1. out1.sent = <<>>
      BY <1>3, <1>5, <2>1
    <3>2. polled = {} /\ ~(k >= 3 + np)
      BY <1>2, <2>1, <3>1
    <3> QED
      BY <3>2
  <2>2. CASE k >= 2
    <3>1. k \in 2..n
      BY <1>2, <1>3, <2>2
    <3>2. /\ DOMAIN out1.sent = 1..(k - 2)
          /\ \A j \in 1..(k - 2) : out1.sent[j] = stages[j + 2].asks
      BY <1>3, <1>5, <3>1
    <3>3. \A i \in 1..(k - 2) : out1.sent[i] = "poll" <=> i + 2 \in 4..(3 + np)
      <4>1. \A i \in 1..(k - 2) : i + 2 \in 3..n
        BY <1>2, <3>1
      <4> QED
        BY <1>1, <3>2, <4>1 DEF AthenaSo
    <3>4. polled = {i \in 1..(k - 2) : i + 2 \in 4..(3 + np)}
      BY <3>2, <3>3
    <3> HIDE DEF polled
    <3>5. k \in Nat /\ np \in Nat
      BY <1>2, <3>1
    <3>6. \A i \in 1..(k - 2) : i + 2 \in 4..(3 + np) <=> i \in 2..(np + 1)
      BY <3>5
    <3>7. k >= 3 + np => 2..(np + 1) \subseteq 1..(k - 2)
      BY <3>5
    <3> QED
      BY <3>4, <3>6, <3>7
  <2> QED
    BY <1>3, <2>1, <2>2
<1> HIDE DEF polled
<1>8. Cardinality(polled) \in Nat /\ Cardinality(polled) <= np /\ (k >= 3 + np => Cardinality(polled) = np)
  <2>1. IsFiniteSet(2..(np + 1)) /\ Cardinality(2..(np + 1)) = np
    <3> SUFFICES ASSUME NEW top, top = np + 1
                 PROVE  IsFiniteSet(2..top) /\ Cardinality(2..top) = np
      OBVIOUS
    <3>1. 2 \in Int /\ top \in Int
      BY <1>2
    <3>2. /\ IsFiniteSet(2..top)
          /\ Cardinality(2..top) = IF 2 > top THEN 0 ELSE top - 2 + 1
      BY <3>1, FS_Interval
    <3> QED
      BY <1>2, <3>2
  <2>2. Cardinality(polled) <= Cardinality(2..(np + 1)) /\ IsFiniteSet(polled)
    BY <1>7, <2>1, FS_Subset
  <2>3. Cardinality(polled) \in Nat
    BY <2>2, FS_CardinalityType
  <2> QED
    BY <1>7, <2>1, <2>2, <2>3
<1> SUFFICES ASSUME NEW polls, polls = Cardinality(polled) PROVE ConnectionsAreClosed(in, out1)
  OBVIOUS
<1>9. \A i \in 1..n : stages[i].says # "result"
  <2>1. \A i \in 1..n : stages[i].says \in AthenaWords
    BY <1>2, StageWords
  <2> QED
    BY <2>1 DEF AthenaWords, AllErrors
<1>10. out1.reply = "result" => /\ in.states[polls] = "SUCCEEDED" /\ in.fetches
                               /\ FlattenSeq(in.pages) = <<Header>> \o out1.value
  <2> SUFFICES ASSUME out1.reply = "result"
               PROVE  /\ in.states[polls] = "SUCCEEDED" /\ in.fetches
                      /\ FlattenSeq(in.pages) = <<Header>> \o out1.value
    OBVIOUS
  <2>1. out1.value = CollectResults(in.pages) /\ k = n
    BY <1>3, <1>9
  <2>2. \A i \in 1..n : stages[i].says = "ok"
    <3>1. DOMAIN stages = 1..n /\ \A i \in DOMAIN stages : stages[i].says # "result"
      BY <1>2, <1>9, StageWords
    <3> QED
      BY <1>2, <3>1, StagedReturns
  <2>3. polls = np
    BY <1>2, <1>8, <2>1
  <2>4. 3 + np \in 3..n /\ 3 + np \in 1..n /\ n \in 3..n /\ n \in 1..n /\ np \in 1..np
    BY <1>2
  <2>5. Polls(in)[np] = "SUCCEEDED" /\ in.fetches
    BY <1>1, <2>2, <2>4 DEF AthenaSo
  <2>6. PICK ng \in Nat \ {0} : in.pages \in [1..ng -> Seq(Nat)]
    BY DEF SqlCall
  <2>7. Len(in.pages[1]) # 0 /\ in.pages[1][1] = Header /\ Header \in Nat
    BY DEF SqlCall, Header
  <2>8. FlattenSeq(in.pages) = <<Header>> \o CollectResults(in.pages)
    BY <2>6, <2>7, HeaderIsCut, Zenon
  <2>9. FlattenSeq(in.pages) = <<Header>> \o out1.value
    BY <2>1, <2>8, Zenon
  <2>10. in.states[polls] = "SUCCEEDED"
    BY <1>2, <2>3, <2>4, <2>5
  <2> QED
    BY <2>5, <2>9, <2>10
<1>11. out1.reply = "network" => polls = MaxPolls /\ \A i \in 1..polls : in.states[i] = "RUNNING"
  <2> SUFFICES ASSUME out1.reply = "network"
               PROVE  polls = MaxPolls /\ \A i \in 1..polls : in.states[i] = "RUNNING"
    OBVIOUS
  <2>1. k \in 1..n /\ stages[k].says = "network"
    BY <1>3
  <2>2. k # 1 /\ k # 2
    BY <1>1, <2>1 DEF AthenaSo
  <2>3. k \in 3..n
    BY <1>2, <2>1, <2>2
  <2>4. k = 3 + np /\ Polls(in)[np] = "RUNNING"
    BY <1>1, <2>1, <2>3 DEF AthenaSo
  <2> QED
    BY <1>2, <1>8, <2>4
<1>12. polls <= MaxPolls
  BY <1>2, <1>8
<1>13. out1.reply = "authentication" /\ out1.sent # <<>> => "login" \in in.words
  <2> SUFFICES ASSUME out1.reply = "authentication", out1.sent # <<>> PROVE "login" \in in.words
    OBVIOUS
  <2>1. k \in 1..n /\ stages[k].says = "authentication"
    BY <1>3
  <2>2. k # 1 /\ k # 2
    BY <1>3, <1>5
  <2>3. k \in 3..n
    BY <1>2, <2>1, <2>2
  <2> QED
    BY <1>1, <2>1, <2>3 DEF AthenaSo
<1>14. QueryIsAwaited(in, out1)
  BY <1>10, <1>11, <1>12, Zenon DEF QueryIsAwaited, polled
<1>15. in.engine \notin Warehouses
  BY DEF Warehouses
<1> QED
  BY <1>6, <1>13, <1>14, <1>15, Zenon DEF ConnectionsAreClosed

\* An outcome is a record, whatever a tool's stages are.
LEMMA StagedIsRecord ==
    ASSUME NEW stages, NEW value
    PROVE  DOMAIN Staged(stages, value) = {"reply", "sent", "value"}
  BY DEF Staged, Returned, Failed

\* What has been opened is closed last, and nothing else is added.
LEMMA ClosedMeans ==
    ASSUME NEW in, NEW so, NEW W, so.sent \in Seq(W), DOMAIN so = {"reply", "sent", "value"}
    PROVE  /\ Closed(in, so).reply = so.reply
           /\ so.sent = <<>> => Closed(in, so).sent = <<>>
           /\ in.engine # "bigquery" /\ Opened(in, so) =>
                 Closed(in, so).sent[Len(Closed(in, so).sent)] = "close"
           /\ ~Opened(in, so) => Closed(in, so).sent = so.sent
<1> DEFINE shut == Append(so.sent, "close")
<1>1. shut[Len(shut)] = "close"
  <2>1. Len(shut) = Len(so.sent) + 1 /\ shut[Len(so.sent) + 1] = "close"
    <3>1. so.sent \in Seq(W \cup {"close"}) /\ "close" \in W \cup {"close"}
      OBVIOUS
    <3> QED
      BY <3>1, AppendProperties
  <2> HIDE DEF shut
  <2> QED
    BY <2>1
<1>2. CASE in.engine = "bigquery" \/ ~Opened(in, so)
  <2>1. Closed(in, so) = so
    BY <1>2 DEF Closed
  <2> QED
    BY <1>2, <2>1
<1>3. CASE in.engine # "bigquery" /\ Opened(in, so)
  <2>1. Closed(in, so) = [so EXCEPT !.sent = shut]
    BY <1>3 DEF Closed
  <2> HIDE DEF shut
  <2>2. Closed(in, so).reply = so.reply /\ Closed(in, so).sent = shut
    BY <2>1
  <2>3. so.sent # <<>>
    BY <1>3 DEF Opened, Contains
  <2> QED
    BY <1>1, <1>3, <2>2, <2>3
<1> QED
  BY <1>2, <1>3

\* The words of the engines that are connected to.
ShopWords == {"nobody", "open", "extensions", "query", "ok", "validation", "not-found",
              "authentication", "upstream"}
LEMMA ErrorSaysOf ==
    ASSUME NEW in
    PROVE  /\ ErrorSays(in) \in {"validation", "not-found", "authentication", "upstream"}
           /\ in.engine = "duckdb" => ErrorSays(in) # "authentication"
           /\ ErrorSays(in) = "authentication" /\ in.engine \notin {"duckdb", "bigquery"} =>
                 "login" \in in.words /\ "syntax" \notin in.words /\ "missing" \notin in.words
<1>1. /\ Classified(in.words) \in {"validation", "not-found", "authentication", "upstream"}
      /\ Classified(in.words) = "authentication" =>
            "login" \in in.words /\ "syntax" \notin in.words /\ "missing" \notin in.words
  BY DEF Classified
<1>2. DuckDBSays(in.words) \in {"validation", "not-found"}
  BY DEF DuckDBSays
<1>3. BigQuerySays(in.words) \in {"validation", "not-found", "authentication", "upstream"}
  BY DEF BigQuerySays
<1>4. CASE in.engine = "duckdb"
  BY <1>2, <1>4 DEF ErrorSays
<1>5. CASE in.engine = "bigquery"
  BY <1>3, <1>5 DEF ErrorSays
<1>6. CASE in.engine \notin {"duckdb", "bigquery"}
  BY <1>1, <1>6 DEF ErrorSays
<1> QED
  BY <1>4, <1>5, <1>6

\* The query, and the fetching of its rows.
LEMMA QueryStagesAre ==
    ASSUME NEW in
    PROVE  \E queried, fetched :
              /\ QueryStages(in) = <<Ask("query", queried), Check(fetched)>>
              /\ \A says \in {queried, fetched} :
                    /\ says \in {"ok", "validation", "not-found", "authentication", "upstream"}
                    /\ in.engine = "duckdb" => says # "authentication"
                    /\ says = "authentication" /\ in.engine \notin {"duckdb", "bigquery"} =>
                          "login" \in in.words /\ "syntax" \notin in.words /\ "missing" \notin in.words
<1> DEFINE queried == IF in.runs THEN "ok" ELSE ErrorSays(in)
           fetched == IF in.fetches THEN "ok" ELSE IF in.engine = "duckdb" THEN "upstream" ELSE ErrorSays(in)
<1>1. QueryStages(in) = <<Ask("query", queried), Check(fetched)>>
  BY DEF QueryStages
<1>2. \A says \in {queried, fetched} :
         /\ says \in {"ok", "validation", "not-found", "authentication", "upstream"}
         /\ in.engine = "duckdb" => says # "authentication"
         /\ says = "authentication" /\ in.engine \notin {"duckdb", "bigquery"} =>
               "login" \in in.words /\ "syntax" \notin in.words /\ "missing" \notin in.words
  BY ErrorSaysOf
<1> HIDE DEF queried, fetched
<1> QED
  BY <1>1, <1>2

\* A warehouse's connection is opened after its credential is read.
LEMMA WarehouseStagesAre ==
    ASSUME NEW in, in.engine \notin {"duckdb", "bigquery"},
           NEW stages, stages = WarehouseStages(in) \o QueryStages(in)
    PROVE  /\ stages \in Seq(Stages(ShopWords)) /\ Len(stages) = 6
           /\ \A k \in 1..3 : stages[k].asks = "nobody"
           /\ stages[4].asks = "open" /\ stages[5].asks = "query" /\ stages[6].asks = "nobody"
           /\ \A k \in 4..6 : stages[k].says = "authentication" =>
                 "login" \in in.words /\ "syntax" \notin in.words /\ "missing" \notin in.words
<1>1. PICK queried, fetched :
         /\ QueryStages(in) = <<Ask("query", queried), Check(fetched)>>
         /\ \A says \in {queried, fetched} :
               /\ says \in {"ok", "validation", "not-found", "authentication", "upstream"}
               /\ says = "authentication" =>
                     "login" \in in.words /\ "syntax" \notin in.words /\ "missing" \notin in.words
  <2>1. \E queried, fetched :
           /\ QueryStages(in) = <<Ask("query", queried), Check(fetched)>>
           /\ \A says \in {queried, fetched} :
                 /\ says \in {"ok", "validation", "not-found", "authentication", "upstream"}
                 /\ in.engine = "duckdb" => says # "authentication"
                 /\ says = "authentication" /\ in.engine \notin {"duckdb", "bigquery"} =>
                       "login" \in in.words /\ "syntax" \notin in.words /\ "missing" \notin in.words
    BY QueryStagesAre
  <2> QED
    BY <2>1
<1> DEFINE S == Stages(ShopWords)
           opens == IF in.opens THEN "ok" ELSE Classified(in.words)
           a == <<CheckThat(in.credential, "authentication"), CheckThat(in.driver, "upstream"),
                  CheckThat(in.parses, "authentication")>>
           b == <<Ask("open", opens)>>
           c == <<Ask("query", queried), Check(fetched)>>
<1>2. stages = a \o b \o c
  BY <1>1, Zenon DEF WarehouseStages, CredentialStages
<1>3. /\ opens \in {"ok", "validation", "not-found", "authentication", "upstream"}
      /\ opens = "authentication" =>
            "login" \in in.words /\ "syntax" \notin in.words /\ "missing" \notin in.words
  BY DEF Classified
<1> HIDE DEF opens
<1>4. a \in Seq(S) /\ Len(a) = 3 /\ a[1].asks = "nobody" /\ a[2].asks = "nobody" /\ a[3].asks = "nobody"
  <2>1. \A holds : CheckThat(holds, "upstream") \in S /\ CheckThat(holds, "upstream").asks = "nobody"
    BY DEF CheckThat, Check, Stages, ShopWords
  <2>2. /\ \A holds : CheckThat(holds, "authentication") \in S
        /\ \A holds : CheckThat(holds, "authentication").asks = "nobody"
    BY DEF CheckThat, Check, Stages, ShopWords
  <2> HIDE DEF S
  <2> QED
    BY <2>1, <2>2, FewElements
<1>5. b \in Seq(S) /\ Len(b) = 1 /\ b[1] = Ask("open", opens)
  <2>1. Ask("open", opens) \in S
    BY <1>3 DEF Ask, Stages, ShopWords
  <2> HIDE DEF S
  <2> QED
    BY <2>1, FewElements
<1>6. c \in Seq(S) /\ Len(c) = 2 /\ c[1] = Ask("query", queried) /\ c[2] = Check(fetched)
  <2>1. Ask("query", queried) \in S /\ Check(fetched) \in S
    BY <1>1 DEF Ask, Check, Stages, ShopWords
  <2> HIDE DEF S
  <2>2. c \in Seq(S)
    BY <2>1, FewElements
  <2> QED
    BY <2>2
<1> HIDE DEF a, b, c, S
<1>7. stages \in Seq(S) /\ Joined(stages, a, b, c)
  <2>1. a \in Seq(S) /\ b \in Seq(S) /\ c \in Seq(S)
    BY <1>4, <1>5, <1>6
  <2>2. a \o b \o c \in Seq(S) /\ Joined(a \o b \o c, a, b, c)
    BY <2>1, ThreeParts, Zenon
  <2> QED
    BY <1>2, <2>2, Zenon
<1>8. /\ Len(stages) = 3 + 1 + 2
      /\ \A k \in 1..3 : stages[k] = a[k]
      /\ \A k \in 1..1 : stages[3 + k] = b[k]
      /\ \A k \in 1..2 : stages[3 + 1 + k] = c[k]
  BY <1>4, <1>5, <1>6, <1>7, Zenon DEF Joined
<1>9. /\ Len(stages) = 6 /\ \A k \in 1..3 : stages[k].asks = "nobody"
      /\ stages[4] = Ask("open", opens) /\ stages[5] = Ask("query", queried) /\ stages[6] = Check(fetched)
  BY <1>4, <1>5, <1>6, <1>8
<1>10. /\ stages[4].asks = "open" /\ stages[4].says = opens
       /\ stages[5].asks = "query" /\ stages[5].says = queried
       /\ stages[6].asks = "nobody" /\ stages[6].says = fetched
  BY <1>9 DEF Ask, Check
<1>11. \A k \in 4..6 : stages[k].says = "authentication" =>
          "login" \in in.words /\ "syntax" \notin in.words /\ "missing" \notin in.words
  <2>1. \A k \in 4..6 : k = 4 \/ k = 5 \/ k = 6
    OBVIOUS
  <2> QED
    BY <1>1, <1>3, <1>10, <2>1
<1> QED
  BY <1>7, <1>9, <1>10, <1>11 DEF S

LEMMA WarehouseIsClosed ==
    ASSUME NEW in, in.engine \in Warehouses, NEW rows
    PROVE  ConnectionsAreClosed(in, Closed(in, Staged(WarehouseStages(in) \o QueryStages(in), rows)))
<1> SUFFICES ASSUME NEW stages, stages = WarehouseStages(in) \o QueryStages(in),
                    NEW so, so = Staged(stages, rows), NEW out1, out1 = Closed(in, so)
             PROVE  ConnectionsAreClosed(in, out1)
  BY Zenon
<1>1. in.engine # "bigquery" /\ in.engine # "duckdb" /\ in.engine # "athena"
  BY DEF Warehouses
<1>2. /\ stages \in Seq(Stages(ShopWords)) /\ Len(stages) = 6
      /\ \A k \in 1..3 : stages[k].asks = "nobody"
      /\ stages[4].asks = "open" /\ stages[5].asks = "query" /\ stages[6].asks = "nobody"
      /\ \A k \in 4..6 : stages[k].says = "authentication" =>
            "login" \in in.words /\ "syntax" \notin in.words /\ "missing" \notin in.words
  <2>1. in.engine \notin {"duckdb", "bigquery"}
    BY <1>1
  <2> QED
    BY <2>1, WarehouseStagesAre, Zenon
<1>3. PICK k \in 0..6 :
         /\ so.sent = Asked(stages, k)
         /\ \/ so.reply = "result" /\ k = 6
            \/ k \in 1..6 /\ stages[k].says # "ok" /\ so.reply = stages[k].says
  <2>1. \E k \in 0..Len(stages) :
           /\ so.sent = Asked(stages, k)
           /\ \/ so.reply = "result" /\ k = Len(stages) /\ so.value = rows
              \/ k \in 1..Len(stages) /\ stages[k].says # "ok" /\ so.reply = stages[k].says
    <3>1. stages \in Seq(Stages(ShopWords))
      BY <1>2
    <3> QED
      BY <3>1, StagedEnds, Zenon
  <2> QED
    BY <1>2, <2>1
<1>4. /\ Asked(stages, 0) = <<>> /\ Asked(stages, 1) = <<>> /\ Asked(stages, 2) = <<>>
      /\ Asked(stages, 3) = <<>> /\ Asked(stages, 4) = <<"open">>
      /\ \A i \in 0..6 : Asked(stages, i) \in Seq(ShopWords)
      /\ Contains(Asked(stages, 5), "query") /\ Asked(stages, 6) = Asked(stages, 5)
  <2>1. Asked(stages, 0) = <<>> /\ \A i \in 0..6 : Asked(stages, i) \in Seq(ShopWords)
    BY <1>2, AskedMeans
  <2>2. \A i \in 1..6 : Asked(stages, i) = Also(Asked(stages, i - 1), stages[i].asks)
    BY <1>2, AskedMeans
  <2>3. /\ Asked(stages, 1) = Also(Asked(stages, 0), "nobody")
        /\ Asked(stages, 2) = Also(Asked(stages, 1), "nobody")
        /\ Asked(stages, 3) = Also(Asked(stages, 2), "nobody")
        /\ Asked(stages, 4) = Also(Asked(stages, 3), "open")
        /\ Asked(stages, 5) = Also(Asked(stages, 4), "query")
        /\ Asked(stages, 6) = Also(Asked(stages, 5), "nobody")
    <3>1. /\ 1 - 1 = 0 /\ 2 - 1 = 1 /\ 3 - 1 = 2 /\ 4 - 1 = 3 /\ 5 - 1 = 4 /\ 6 - 1 = 5
          /\ 1 \in 1..6 /\ 2 \in 1..6 /\ 3 \in 1..6 /\ 4 \in 1..6 /\ 5 \in 1..6 /\ 6 \in 1..6
          /\ 1 \in 1..3 /\ 2 \in 1..3 /\ 3 \in 1..3
      OBVIOUS
    <3>2. /\ Asked(stages, 1) = Also(Asked(stages, 1 - 1), "nobody")
          /\ Asked(stages, 2) = Also(Asked(stages, 2 - 1), "nobody")
          /\ Asked(stages, 3) = Also(Asked(stages, 3 - 1), "nobody")
      BY <1>2, <2>2, <3>1, Zenon
    <3>3. /\ Asked(stages, 4) = Also(Asked(stages, 4 - 1), "open")
          /\ Asked(stages, 5) = Also(Asked(stages, 5 - 1), "query")
          /\ Asked(stages, 6) = Also(Asked(stages, 6 - 1), "nobody")
      BY <1>2, <2>2, <3>1, Zenon
    <3> QED
      BY <3>1, <3>2, <3>3
  <2>4. /\ Asked(stages, 1) = <<>> /\ Asked(stages, 2) = <<>> /\ Asked(stages, 3) = <<>>
        /\ Asked(stages, 6) = Asked(stages, 5)
    BY <2>1, <2>3 DEF Also
  <2>5. Asked(stages, 4) = <<"open">>
    <3>1. Also(<<>>, "open") = <<"open">>
      BY DEF Also
    <3> QED
      BY <2>3, <2>4, <3>1, Zenon
  <2>6. Asked(stages, 5) = Append(<<"open">>, "query")
    BY <2>3, <2>5 DEF Also
  <2>7. Contains(Append(<<"open">>, "query"), "query")
    BY DEF Contains
  <2> QED
    BY <2>1, <2>4, <2>5, <2>6, <2>7
<1>5. so.sent \in Seq(ShopWords)
  BY <1>3, <1>4
<1>6. /\ out1.reply = so.reply /\ (so.sent = <<>> => out1.sent = <<>>)
      /\ Opened(in, so) => out1.sent[Len(out1.sent)] = "close"
      /\ ~Opened(in, so) => out1.sent = so.sent
  <2>1. DOMAIN so = {"reply", "sent", "value"}
    BY StagedIsRecord
  <2> QED
    BY <1>1, <1>5, <2>1, ClosedMeans
<1>7. Contains(out1.sent, "open") /\ out1.sent # <<"open">> => out1.sent[Len(out1.sent)] = "close"
  <2> SUFFICES ASSUME ~Opened(in, so), Contains(out1.sent, "open") PROVE out1.sent = <<"open">>
    BY <1>6
  <2>1. out1.sent = so.sent /\ ~Contains(so.sent, "query")
    BY <1>1, <1>6 DEF Opened
  <2>2. k # 5 /\ k # 6
    BY <1>3, <1>4, <2>1
  <2>3. k = 4 \/ so.sent = <<>>
    BY <1>3, <1>4, <2>2
  <2>4. ~Contains(<<>>, "open")
    BY DEF Contains
  <2> QED
    BY <1>3, <1>4, <2>1, <2>3, <2>4
<1>8. out1.reply = "authentication" /\ out1.sent # <<>> =>
         "login" \in in.words /\ "syntax" \notin in.words /\ "missing" \notin in.words
  <2> SUFFICES ASSUME out1.reply = "authentication", out1.sent # <<>>
               PROVE  "login" \in in.words /\ "syntax" \notin in.words /\ "missing" \notin in.words
    OBVIOUS
  <2>1. so.reply = "authentication" /\ so.sent # <<>>
    BY <1>6
  <2>2. k \in 1..6 /\ stages[k].says = "authentication"
    BY <1>3, <2>1
  <2>3. k # 1 /\ k # 2 /\ k # 3
    BY <1>3, <1>4, <2>1
  <2>4. k \in 4..6
    BY <2>2, <2>3
  <2> QED
    BY <1>2, <2>2, <2>4
<1> QED
  BY <1>1, <1>7, <1>8, Zenon DEF ConnectionsAreClosed

\* DuckDB's database needs no credential.
LEMMA DuckDBIsClosed ==
    ASSUME NEW in, in.engine = "duckdb", NEW rows
    PROVE  ConnectionsAreClosed(in, Closed(in, Staged(DuckDBStages(in) \o QueryStages(in), rows)))
<1> SUFFICES ASSUME NEW stages, stages = DuckDBStages(in) \o QueryStages(in),
                    NEW so, so = Staged(stages, rows), NEW out1, out1 = Closed(in, so)
             PROVE  ConnectionsAreClosed(in, out1)
  BY Zenon
<1>1. PICK queried, fetched :
         /\ QueryStages(in) = <<Ask("query", queried), Check(fetched)>>
         /\ \A says \in {queried, fetched} :
               says \in {"ok", "validation", "not-found", "upstream"}
  <2>1. \E queried, fetched :
           /\ QueryStages(in) = <<Ask("query", queried), Check(fetched)>>
           /\ \A says \in {queried, fetched} :
                 /\ says \in {"ok", "validation", "not-found", "authentication", "upstream"}
                 /\ in.engine = "duckdb" => says # "authentication"
                 /\ says = "authentication" /\ in.engine \notin {"duckdb", "bigquery"} =>
                       "login" \in in.words /\ "syntax" \notin in.words /\ "missing" \notin in.words
    BY QueryStagesAre
  <2> QED
    BY <2>1
<1> DEFINE S == Stages(ShopWords)
           added == IF in.opens THEN "ok" ELSE "upstream"
           a == <<CheckThat(in.driver, "upstream"), Ask("open", "ok"), Ask("extensions", added)>>
           c == <<Ask("query", queried), Check(fetched)>>
<1>2. stages = a \o c
  BY <1>1, Zenon DEF DuckDBStages
<1>3. added \in {"ok", "upstream"}
  OBVIOUS
<1> HIDE DEF added
<1>4. /\ a \in Seq(S) /\ Len(a) = 3 /\ \A i \in 1..3 : a[i].says # "authentication"
  <2>1. \A holds : /\ CheckThat(holds, "upstream") \in S
                   /\ CheckThat(holds, "upstream").says \in {"ok", "upstream"}
    BY DEF CheckThat, Check, Stages, ShopWords
  <2>2. Ask("open", "ok") \in S /\ Ask("open", "ok").says = "ok"
    BY DEF Ask, Stages, ShopWords
  <2>3. Ask("extensions", added) \in S /\ Ask("extensions", added).says = added
    BY <1>3 DEF Ask, Stages, ShopWords
  <2> HIDE DEF S
  <2>4. a \in Seq(S) /\ Len(a) = 3 /\ a[1].says \in {"ok", "upstream"} /\ a[2].says = "ok" /\ a[3].says = added
    BY <2>1, <2>2, <2>3, FewElements
  <2> QED
    BY <1>3, <2>4
<1>5. c \in Seq(S) /\ Len(c) = 2 /\ c[1].says # "authentication" /\ c[2].says # "authentication"
  <2>1. /\ Ask("query", queried) \in S /\ Ask("query", queried).says = queried
        /\ Check(fetched) \in S /\ Check(fetched).says = fetched
    BY <1>1 DEF Ask, Check, Stages, ShopWords
  <2>2. queried # "authentication" /\ fetched # "authentication"
    BY <1>1
  <2> HIDE DEF S
  <2>3. c \in Seq(S)
    BY <2>1, FewElements
  <2> QED
    BY <2>1, <2>2, <2>3
<1> DEFINE all == a \o c
<1> HIDE DEF a, c, S
<1>6. /\ all \in Seq(S) /\ Len(all) = Len(a) + Len(c)
      /\ \A i \in 1..(Len(a) + Len(c)) : all[i] = IF i <= Len(a) THEN a[i] ELSE c[i - Len(a)]
  BY <1>4, <1>5, ConcatProperties, Zenon
<1>7. stages = all
  BY <1>2
<1> HIDE DEF all
<1>8. \A i \in 1..Len(stages) : stages[i].says # "authentication"
  <2>1. Len(stages) = 5
    <3>1. Len(a) = 3 /\ Len(c) = 2 /\ Len(all) = Len(a) + Len(c)
      BY <1>4, <1>5, <1>6
    <3>2. Len(stages) = 3 + 2
      BY <1>7, <3>1, Zenon
    <3> QED
      BY <3>2
  <2> SUFFICES ASSUME NEW i \in 1..5 PROVE all[i].says # "authentication"
    BY <1>7, <2>1
  <2>2. CASE i <= 3
    BY <1>4, <1>5, <1>6, <2>2
  <2>3. CASE i = 4 \/ i = 5
    BY <1>4, <1>5, <1>6, <2>3
  <2> QED
    BY <2>2, <2>3
<1>9. stages \in Seq(Stages(ShopWords))
  BY <1>6, <1>7 DEF S
<1>10. so.reply # "authentication" /\ so.sent \in Seq(ShopWords)
  <2>1. PICK k \in 0..Len(stages) :
           /\ so.sent = Asked(stages, k)
           /\ \/ so.reply = "result" /\ k = Len(stages) /\ so.value = rows
              \/ k \in 1..Len(stages) /\ stages[k].says # "ok" /\ so.reply = stages[k].says
    BY <1>9, StagedEnds, Zenon
  <2>2. \A k1 \in 0..Len(stages) : Asked(stages, k1) \in Seq(ShopWords)
    BY <1>9, AskedMeans
  <2> QED
    BY <1>8, <2>1, <2>2
<1>11. /\ out1.reply = so.reply
       /\ Opened(in, so) => out1.sent[Len(out1.sent)] = "close"
       /\ ~Opened(in, so) => out1.sent = so.sent
  <2>1. DOMAIN so = {"reply", "sent", "value"}
    BY StagedIsRecord
  <2> QED
    BY <1>10, <2>1, ClosedMeans
<1>12. Contains(out1.sent, "open") => out1.sent[Len(out1.sent)] = "close"
  BY <1>11 DEF Opened
<1>13. out1.reply # "authentication" /\ in.engine # "athena"
  BY <1>10, <1>11
<1> QED
  BY <1>12, <1>13, Zenon DEF ConnectionsAreClosed

\* spatial_sql and warehouse_spatial_sql: what was opened is closed, and rows are rows.
LEMMA ConnectionsClosed ==
    ASSUME NEW in, SqlCall(in)
    PROVE  ConnectionsAreClosed(in, SpatialSqlCall(in))
<1> SUFFICES ASSUME NEW out1, out1 = SpatialSqlCall(in) PROVE ConnectionsAreClosed(in, out1)
  OBVIOUS
<1>1. CASE in.wrong # {} \/ ~in.configured
  <2>1. out1.sent = <<>> /\ out1.reply # "result"
    BY <1>1 DEF SpatialSqlCall, Refused, Failed
  <2>2. ~Contains(<<>>, "open")
    BY DEF Contains
  <2>3. {i \in DOMAIN <<>> : <<>>[i] = "poll"} = {}
    OBVIOUS
  <2>4. Cardinality({i \in DOMAIN out1.sent : out1.sent[i] = "poll"}) = 0
    BY <2>1, <2>3, FS_EmptySet
  <2>5. out1.reply # "network" /\ 0 <= MaxPolls
    BY <1>1, SqlAssumption DEF SpatialSqlCall, Refused, Failed
  <2>6. QueryIsAwaited(in, out1)
    BY <2>1, <2>4, <2>5 DEF QueryIsAwaited
  <2> QED
    BY <2>1, <2>2, <2>6 DEF ConnectionsAreClosed
<1>2. CASE in.wrong = {} /\ in.configured /\ in.engine = "athena"
  <2>1. out1 = Staged(AthenaStages(in), CollectResults(in.pages))
    BY <1>2, Zenon DEF SpatialSqlCall
  <2> QED
    BY <1>2, <2>1, AthenaIsClosed, Zenon
<1>3. CASE in.wrong = {} /\ in.configured /\ in.engine = "bigquery"
  BY <1>3 DEF ConnectionsAreClosed
<1>4. CASE in.wrong = {} /\ in.configured /\ in.engine = "duckdb"
  <2>1. out1 = Closed(in, Staged(DuckDBStages(in) \o QueryStages(in), FlattenSeq(in.pages)))
    BY <1>4 DEF SpatialSqlCall
  <2> QED
    BY <1>4, <2>1, DuckDBIsClosed, Zenon
<1>5. CASE in.wrong = {} /\ in.configured /\ in.engine \in Warehouses
  <2>1. in.engine # "duckdb" /\ in.engine # "bigquery" /\ in.engine # "athena"
    BY <1>5 DEF Warehouses
  <2>2. out1 = Closed(in, Staged(WarehouseStages(in) \o QueryStages(in), FlattenSeq(in.pages)))
    BY <1>5, <2>1 DEF SpatialSqlCall
  <2> QED
    BY <1>5, <2>2, WarehouseIsClosed, Zenon
<1>6. in.engine \in {"duckdb", "athena", "bigquery"} \cup Warehouses
  BY DEF SqlCall, SqlEngines
<1> QED
  BY <1>1, <1>2, <1>3, <1>4, <1>5, <1>6

-----------------------------------------------------------------------------
(* geo-3d: points in tiles, level by level.                                 *)

\* A sample of the points of a node.
SampleSo(kept, node, limit) ==
    /\ kept \subseteq node.idx /\ kept # {}
    /\ node.depth >= MaxDepth => kept = node.idx
    /\ node.depth >= MaxDepth \/ Cardinality(kept) <= limit

\* Places in a set of numbers are not shared.
LEMMA PlacesDiffer ==
    ASSUME NEW n \in Nat, NEW idx \in SUBSET (1..n)
    PROVE  /\ IsFiniteSet(idx)
           /\ \A i \in idx : Place(i, idx) \in Nat
           /\ \A i, k \in idx : Place(i, idx) = Place(k, idx) => i = k
<1>1. IsFiniteSet(1..n)
  BY FS_Interval
<1>2. IsFiniteSet(idx)
  BY <1>1, FS_Subset
<1> DEFINE Below(i) == {k \in idx : k < i}
<1>3. \A i \in idx : IsFiniteSet(Below(i)) /\ Cardinality(Below(i)) \in Nat
  <2> SUFFICES ASSUME NEW i \in idx PROVE IsFiniteSet(Below(i)) /\ Cardinality(Below(i)) \in Nat
    OBVIOUS
  <2>1. Below(i) \in SUBSET idx
    OBVIOUS
  <2> HIDE DEF Below
  <2> QED
    BY <1>2, <2>1, FS_Subset, FS_CardinalityType
<1>4. \A i \in idx : Place(i, idx) = Cardinality(Below(i))
  BY DEF Place
<1>5. ASSUME NEW i \in idx, NEW k \in idx, i < k
      PROVE  Cardinality(Below(i)) # Cardinality(Below(k))
  <2>1. /\ \A j \in idx : j < i => j < k
        /\ ~(i < i)
    BY <1>5
  <2>2. Below(i) \in SUBSET Below(k) /\ i \in Below(k) /\ i \notin Below(i)
    BY <1>5, <2>1, Zenon
  <2> HIDE DEF Below
  <2> QED
    BY <1>3, <2>2, FS_Subset
<1>6. \A i \in idx, k \in idx : i < k \/ k < i \/ i = k
  OBVIOUS
<1> HIDE DEF Below
<1>7. \A i, k \in idx : Place(i, idx) = Place(k, idx) => i = k
  BY <1>4, <1>5, <1>6, Zenon
<1> QED
  BY <1>2, <1>3, <1>4, <1>7

\* No more are kept than there are positions.
LEMMA PositionsAreFew ==
    ASSUME NEW n \in Nat, NEW limit \in Nat \ {0}
    PROVE  LET positions == {(j * n) \div limit : j \in 0..(limit - 1)}
           IN  /\ IsFiniteSet(positions) /\ Cardinality(positions) \in Nat
               /\ Cardinality(positions) <= limit /\ 0 \in positions
<1> DEFINE positions == {(j * n) \div limit : j \in 0..(limit - 1)}
           f == [j \in 0..(limit - 1) |-> (j * n) \div limit]
<1>1. IsFiniteSet(0..(limit - 1)) /\ Cardinality(0..(limit - 1)) = limit
  BY FS_Interval
<1>2. f \in Surjection(0..(limit - 1), positions)
  <2>1. f \in [0..(limit - 1) -> positions]
    OBVIOUS
  <2>2. \A p \in positions : \E j \in 0..(limit - 1) : f[j] = p
    OBVIOUS
  <2> HIDE DEF f, positions
  <2> QED
    BY <2>1, <2>2 DEF Surjection
<1>3. 0 \in positions
  <2>1. 0 \in 0..(limit - 1) /\ 0 * n = 0 /\ 0 \div limit = 0
    OBVIOUS
  <2> QED
    BY <2>1
<1> HIDE DEF f, positions
<1>4. IsFiniteSet(positions) /\ Cardinality(positions) <= limit
  BY <1>1, <1>2, FS_Surjection
<1> QED
  BY <1>3, <1>4, FS_CardinalityType DEF positions

LEMMA SampleMeans ==
    ASSUME NEW n \in Nat, NEW limit \in Nat \ {0}, NEW node, node.idx \in SUBSET (1..n),
           node.idx # {}, node.depth \in Nat
    PROVE  SampleSo(Sample(node, limit), node, limit)
<1> DEFINE idx == node.idx
           positions == {(j * Cardinality(idx)) \div limit : j \in 0..(limit - 1)}
           few == {i \in idx : Place(i, idx) \in positions}
<1>1. IsFiniteSet(idx) /\ Cardinality(idx) \in Nat
  BY PlacesDiffer, FS_CardinalityType
<1>2. CASE IsLeaf(node, limit)
  <2>1. Sample(node, limit) = idx
    BY <1>2 DEF Sample
  <2>2. Cardinality(idx) <= limit \/ node.depth >= MaxDepth
    BY <1>2 DEF IsLeaf
  <2> QED
    BY <2>1, <2>2 DEF SampleSo
<1>3. CASE ~IsLeaf(node, limit)
  <2>1. Sample(node, limit) = few
    BY <1>3 DEF Sample
  <2>2. ~(node.depth >= MaxDepth)
    BY <1>3 DEF IsLeaf
  <2>3. IsFiniteSet(positions) /\ Cardinality(positions) \in Nat /\ Cardinality(positions) <= limit
        /\ 0 \in positions
    BY <1>1, PositionsAreFew
  <2> HIDE DEF positions
  <2>4. few # {}
    <3>1. PICK i \in idx : \A k \in idx : i <= k
      BY LeastOf
    <3>2. {k \in idx : k < i} = {}
      BY <3>1
    <3>3. Place(i, idx) = 0
      BY <3>2, FS_EmptySet DEF Place
    <3> QED
      BY <2>3, <3>3
  <2>5. few \subseteq idx
    OBVIOUS
  <2>6. Cardinality(few) <= limit
    <3> DEFINE g == [i \in few |-> Place(i, idx)]
    <3>1. g \in [few -> positions] /\ \A i, k \in few : g[i] = g[k] => i = k
      BY PlacesDiffer
    <3>2. g \in Injection(few, positions)
      <4> HIDE DEF g, few
      <4> QED
        BY <3>1 DEF Injection, IsInjective
    <3> HIDE DEF g, few
    <3>3. IsFiniteSet(few) /\ Cardinality(few) <= Cardinality(positions)
      BY <2>3, <3>2, FS_Injection
    <3> QED
      BY <2>3, <3>3, FS_CardinalityType
  <2> HIDE DEF few
  <2> QED
    BY <2>1, <2>2, <2>4, <2>5, <2>6 DEF SampleSo
<1> QED
  BY <1>2, <1>3

Cloud(pts, n) == DOMAIN pts = 1..n /\ \A i \in 1..n, a \in Axes : pts[i][a] \in Int
Within(pts, points, lo, hi) == \A i \in points, a \in Axes : lo[a] <= pts[i][a] /\ pts[i][a] <= hi[a]
Nodes(n) == [idx : SUBSET (1..n), lo : [Axes -> Int], hi : [Axes -> Int], depth : Nat]
NodeSo(node, pts, n, d) ==
    /\ node \in Nodes(n) /\ node.idx # {} /\ node.depth = d
    /\ Within(pts, node.idx, node.lo, node.hi)

\* The part of a point is the one of the axes on which it is not below the middle.
UpOf(pts, node, i) == {a \in Axes : pts[i][a] >= Middle(node)[a]}
LEMMA OctantMeans ==
    ASSUME NEW n \in Nat, NEW pts, Cloud(pts, n), NEW d \in Nat, NEW node, NodeSo(node, pts, n, d),
           NEW kept, NEW up \in SUBSET Axes, NEW part, part = Octant(node, pts, kept, up)
    PROVE  /\ part.idx = {i \in node.idx \ kept : UpOf(pts, node, i) = up}
           /\ part.idx # {} => NodeSo(part, pts, n, d + 1)
<1> DEFINE middle == Middle(node)
<1>1. /\ node.idx \in SUBSET (1..n) /\ node.lo \in [Axes -> Int] /\ node.hi \in [Axes -> Int]
      /\ node.depth = d
  BY DEF NodeSo, Nodes
<1>2. middle \in [Axes -> Int]
  <2>1. \A a \in Axes : node.lo[a] + node.hi[a] \in Int
    BY <1>1
  <2>2. \A x \in Int : x \div 2 \in Int
    OBVIOUS
  <2>3. \A a \in Axes : (node.lo[a] + node.hi[a]) \div 2 \in Int
    BY <2>1, <2>2
  <2> QED
    BY <2>3 DEF Middle
<1> HIDE DEF middle
<1> DEFINE lo == [a \in Axes |-> IF a \in up THEN middle[a] ELSE node.lo[a]]
           hi == [a \in Axes |-> IF a \in up THEN node.hi[a] ELSE middle[a]]
           idx == {i \in node.idx \ kept : UpOf(pts, node, i) = up}
<1>3. part = [idx |-> idx, lo |-> lo, hi |-> hi, depth |-> d + 1]
  BY <1>1 DEF Octant, Remaining, UpOf, middle
<1>4. lo \in [Axes -> Int] /\ hi \in [Axes -> Int] /\ idx \in SUBSET (1..n) /\ d + 1 \in Nat
  BY <1>1, <1>2
<1>5. Within(pts, idx, lo, hi)
  <2> SUFFICES ASSUME NEW i \in idx, NEW a \in Axes PROVE lo[a] <= pts[i][a] /\ pts[i][a] <= hi[a]
    BY DEF Within
  <2>1. node.lo[a] <= pts[i][a] /\ pts[i][a] <= node.hi[a]
    BY DEF NodeSo, Within
  <2>2. a \in up <=> pts[i][a] >= middle[a]
    BY DEF UpOf, middle
  <2>3. pts[i][a] \in Int /\ middle[a] \in Int
    BY <1>1, <1>2 DEF Cloud
  <2> QED
    BY <2>1, <2>2, <2>3
<1> HIDE DEF lo, hi, idx
<1>6. part \in Nodes(n) /\ part.depth = d + 1 /\ part.idx = idx /\ part.lo = lo /\ part.hi = hi
  BY <1>3, <1>4 DEF Nodes
<1> QED
  BY <1>5, <1>6 DEF NodeSo, idx

\* The parts of a node have each point that it did not keep once.
PartsSo(parts, left, pts, n, d) ==
    /\ \A part \in parts : NodeSo(part, pts, n, d + 1) /\ part.idx \subseteq left
    /\ \A i \in left : \E part \in parts : i \in part.idx
    /\ \A i \in left, p, q \in parts : i \in p.idx /\ i \in q.idx => p = q
LEMMA OctantsMeans ==
    ASSUME NEW n \in Nat, NEW pts, Cloud(pts, n), NEW d \in Nat, NEW node, NodeSo(node, pts, n, d),
           NEW kept
    PROVE  PartsSo(Octants(node, pts, kept), node.idx \ kept, pts, n, d)
<1> DEFINE parts == Octants(node, pts, kept)
<1>1. \A part \in parts : \E up \in SUBSET Axes : part = Octant(node, pts, kept, up) /\ part.idx # {}
  BY DEF Octants
<1>2. \A up \in SUBSET Axes : Octant(node, pts, kept, up).idx # {} => Octant(node, pts, kept, up) \in parts
  BY DEF Octants
<1> HIDE DEF parts
<1>3. \A up \in SUBSET Axes :
         Octant(node, pts, kept, up).idx = {i \in node.idx \ kept : UpOf(pts, node, i) = up}
  <2> SUFFICES ASSUME NEW up \in SUBSET Axes
               PROVE  Octant(node, pts, kept, up).idx = {i \in node.idx \ kept : UpOf(pts, node, i) = up}
    OBVIOUS
  <2> SUFFICES ASSUME NEW part, part = Octant(node, pts, kept, up)
               PROVE  part.idx = {i \in node.idx \ kept : UpOf(pts, node, i) = up}
    OBVIOUS
  <2> QED
    BY OctantMeans
<1>4. ASSUME NEW part \in parts PROVE NodeSo(part, pts, n, d + 1) /\ part.idx \subseteq node.idx \ kept
  <2>1. PICK up \in SUBSET Axes : part = Octant(node, pts, kept, up) /\ part.idx # {}
    BY <1>1
  <2>2. NodeSo(part, pts, n, d + 1)
    BY <2>1, OctantMeans
  <2>3. part.idx = {i \in node.idx \ kept : UpOf(pts, node, i) = up}
    BY <1>3, <2>1
  <2> QED
    BY <2>2, <2>3
<1>5. ASSUME NEW i \in node.idx \ kept PROVE \E part \in parts : i \in part.idx
  <2>1. UpOf(pts, node, i) \in SUBSET Axes
    BY DEF UpOf
  <2>2. i \in Octant(node, pts, kept, UpOf(pts, node, i)).idx
    BY <1>3, <2>1
  <2> QED
    BY <1>2, <2>1, <2>2
<1>6. ASSUME NEW i \in node.idx \ kept, NEW p \in parts, NEW q \in parts, i \in p.idx, i \in q.idx
      PROVE  p = q
  <2>1. PICK up \in SUBSET Axes : p = Octant(node, pts, kept, up)
    BY <1>1
  <2>2. PICK on \in SUBSET Axes : q = Octant(node, pts, kept, on)
    BY <1>1
  <2>3. UpOf(pts, node, i) = up /\ UpOf(pts, node, i) = on
    BY <1>3, <1>6, <2>1, <2>2
  <2> QED
    BY <2>1, <2>2, <2>3
<1>7. PartsSo(parts, node.idx \ kept, pts, n, d)
  BY <1>4, <1>5, <1>6, Zenon DEF PartsSo
<1> QED
  BY <1>7 DEF parts

\* A tile has points, all in its box and no more than it may have.
TileRecords(n) == [lo : [Axes -> Int], hi : [Axes -> Int], depth : Nat, points : SUBSET (1..n)]
TileSo(t, pts, n, limit) ==
    /\ t \in TileRecords(n) /\ t.points # {}
    /\ Within(pts, t.points, t.lo, t.hi)
    /\ t.depth = MaxDepth \/ Cardinality(t.points) <= limit
OnceInTiles(tiles, n) ==
    \A i \in 1..n, s, t \in tiles : i \in s.points /\ i \in t.points => s = t
OnceInNodes(nodes, n) ==
    \A i \in 1..n, p, q \in nodes : i \in p.idx /\ i \in q.idx => p = q
\* What is so after d levels: each point is in one tile, or in one node to be split.
LevelSo(so, pts, n, limit, d) ==
    /\ \A node \in so.open : NodeSo(node, pts, n, d)
    /\ \A t \in so.tiles : TileSo(t, pts, n, limit)
    /\ \A i \in 1..n : (\E t \in so.tiles : i \in t.points) \/ (\E node \in so.open : i \in node.idx)
    /\ OnceInTiles(so.tiles, n) /\ OnceInNodes(so.open, n)
    /\ \A i \in 1..n, t \in so.tiles, node \in so.open : ~(i \in t.points /\ i \in node.idx)
    /\ d > MaxDepth => so.open = {}

LEMMA TileOfMeans ==
    ASSUME NEW n \in Nat, NEW limit \in Nat \ {0}, NEW pts, NEW d \in Nat, d <= MaxDepth,
           NEW node, NodeSo(node, pts, n, d)
    PROVE  /\ SampleSo(Sample(node, limit), node, limit)
           /\ TileSo(TileOf(node, limit), pts, n, limit)
           /\ TileOf(node, limit).points = Sample(node, limit)
<1>1. MaxDepth \in Nat
  BY TilesAssumption
<1>2. /\ node.idx \in SUBSET (1..n) /\ node.idx # {} /\ node.depth = d
      /\ node.lo \in [Axes -> Int] /\ node.hi \in [Axes -> Int]
  BY DEF NodeSo, Nodes
<1>3. SampleSo(Sample(node, limit), node, limit)
  BY <1>2, SampleMeans
<1> SUFFICES ASSUME NEW kept, kept = Sample(node, limit), NEW t, t = TileOf(node, limit)
             PROVE  TileSo(t, pts, n, limit) /\ t.points = kept
  BY <1>3
<1>4. t.points = kept /\ t.lo = node.lo /\ t.hi = node.hi /\ t.depth = d
  BY <1>2 DEF TileOf
<1>5. kept \subseteq node.idx /\ kept # {}
  BY <1>3 DEF SampleSo
<1>6. Within(pts, kept, node.lo, node.hi)
  BY <1>5 DEF NodeSo, Within
<1>7. d = MaxDepth \/ Cardinality(kept) <= limit
  BY <1>1, <1>2, <1>3 DEF SampleSo
<1>8. t = [lo |-> node.lo, hi |-> node.hi, depth |-> d, points |-> kept]
  BY <1>2 DEF TileOf
<1>9. t \in TileRecords(n)
  BY <1>2, <1>5, <1>8 DEF TileRecords
<1> QED
  BY <1>4, <1>5, <1>6, <1>7, <1>9 DEF TileSo

LEMMA LevelStep ==
    ASSUME NEW n \in Nat, NEW limit \in Nat \ {0}, NEW pts, Cloud(pts, n), NEW d \in Nat,
           d <= MaxDepth, NEW so, LevelSo(so, pts, n, limit, d),
           NEW then, then = Level(so, pts, limit)
    PROVE  LevelSo(then, pts, n, limit, d + 1)
<1> DEFINE Kept(node) == Sample(node, limit)
           Parts(node) == Octants(node, pts, Kept(node))
           Tile(node) == TileOf(node, limit)
<1>1. \A node \in so.open : NodeSo(node, pts, n, d)
  BY DEF LevelSo
<1>2. \A node \in so.open : /\ SampleSo(Kept(node), node, limit)
                            /\ TileSo(Tile(node), pts, n, limit)
                            /\ Tile(node).points = Kept(node)
  BY <1>1, TileOfMeans
<1>3. \A node \in so.open : PartsSo(Parts(node), node.idx \ Kept(node), pts, n, d)
  BY <1>1, OctantsMeans
<1>4. /\ then.open = UNION {Parts(node) : node \in so.open}
      /\ then.tiles = so.tiles \cup {Tile(node) : node \in so.open}
  BY DEF Level
<1> HIDE DEF Kept, Parts, Tile
<1>5. \A p \in then.open : \E node \in so.open : p \in Parts(node)
  BY <1>4
<1>6. \A t \in then.tiles : t \in so.tiles \/ \E node \in so.open : t = Tile(node)
  BY <1>4
<1>7. \A node \in so.open : Tile(node) \in then.tiles /\ Parts(node) \subseteq then.open
  BY <1>4
<1>8. so.tiles \subseteq then.tiles
  BY <1>4
<1>9. \A node \in so.open : Kept(node) \subseteq node.idx
  BY <1>2 DEF SampleSo
<1>10. \A node \in so.open : \A p \in Parts(node) : p.idx \subseteq node.idx \ Kept(node)
  BY <1>3, Zenon DEF PartsSo
<1>11. \A i \in 1..n, node1, node2 \in so.open : i \in node1.idx /\ i \in node2.idx => node1 = node2
  BY DEF LevelSo, OnceInNodes
<1>12. \A i \in 1..n, s, t \in so.tiles : i \in s.points /\ i \in t.points => s = t
  BY DEF LevelSo, OnceInTiles
<1>13. \A i \in 1..n, t \in so.tiles, node \in so.open : ~(i \in t.points /\ i \in node.idx)
  BY Zenon DEF LevelSo
<1>14. \A p \in then.open : NodeSo(p, pts, n, d + 1)
  BY <1>3, <1>5, Zenon DEF PartsSo
<1>15. \A t \in then.tiles : TileSo(t, pts, n, limit)
  <2>1. \A t \in so.tiles : TileSo(t, pts, n, limit)
    BY Zenon DEF LevelSo
  <2> QED
    BY <1>2, <1>6, <2>1, Zenon
<1>16. ASSUME NEW i \in 1..n
       PROVE  (\E t \in then.tiles : i \in t.points) \/ (\E p \in then.open : i \in p.idx)
  <2>1. CASE \E t \in so.tiles : i \in t.points
    BY <1>8, <2>1
  <2>2. CASE \E node \in so.open : i \in node.idx
    <3>1. PICK node \in so.open : i \in node.idx
      BY <2>2
    <3>2. CASE i \in Kept(node)
      BY <1>2, <1>7, <3>2, Zenon
    <3>3. CASE i \notin Kept(node)
      <4>1. i \in node.idx \ Kept(node)
        BY <3>1, <3>3
      <4>2. PICK p \in Parts(node) : i \in p.idx
        BY <1>3, <4>1, Zenon DEF PartsSo
      <4> QED
        BY <1>7, <4>2
    <3> QED
      BY <3>2, <3>3
  <2> QED
    BY <2>1, <2>2, Zenon DEF LevelSo
<1>17. ASSUME NEW i \in 1..n, NEW s \in then.tiles, NEW t \in then.tiles, i \in s.points, i \in t.points
       PROVE  s = t
  <2>1. ASSUME NEW node \in so.open PROVE i \in Tile(node).points => i \in node.idx
    BY <1>2, <1>9
  <2>2. CASE s \in so.tiles /\ t \in so.tiles
    BY <1>12, <1>17, <2>2, Zenon
  <2>3. CASE s \in so.tiles /\ \E node \in so.open : t = Tile(node)
    BY <1>13, <1>17, <2>1, <2>3, Zenon
  <2>4. CASE t \in so.tiles /\ \E node \in so.open : s = Tile(node)
    BY <1>13, <1>17, <2>1, <2>4, Zenon
  <2>5. CASE (\E node \in so.open : s = Tile(node)) /\ (\E node \in so.open : t = Tile(node))
    BY <1>11, <1>17, <2>1, <2>5, Zenon
  <2> QED
    BY <1>6, <2>2, <2>3, <2>4, <2>5, Zenon
<1>18. ASSUME NEW i \in 1..n, NEW p \in then.open, NEW q \in then.open, i \in p.idx, i \in q.idx
       PROVE  p = q
  <2>1. PICK node1 \in so.open : p \in Parts(node1)
    BY <1>5
  <2>2. PICK node2 \in so.open : q \in Parts(node2)
    BY <1>5
  <2>3. i \in node1.idx \ Kept(node1) /\ i \in node2.idx
    BY <1>10, <1>18, <2>1, <2>2
  <2>4. node1 = node2
    BY <1>11, <2>3
  <2> QED
    BY <1>3, <1>18, <2>1, <2>2, <2>3, <2>4, Zenon DEF PartsSo
<1>19. ASSUME NEW i \in 1..n, NEW t \in then.tiles, NEW p \in then.open, i \in t.points, i \in p.idx
       PROVE  FALSE
  <2>1. PICK node \in so.open : p \in Parts(node)
    BY <1>5
  <2>2. i \in node.idx /\ i \notin Kept(node)
    BY <1>10, <1>19, <2>1
  <2>3. t \notin so.tiles
    BY <1>13, <1>19, <2>2
  <2>4. PICK other \in so.open : t = Tile(other)
    BY <1>6, <2>3
  <2>5. i \in Kept(other) /\ i \in other.idx
    BY <1>2, <1>9, <1>19, <2>4
  <2>6. other = node
    BY <1>11, <2>2, <2>5
  <2> QED
    BY <2>2, <2>5, <2>6
<1>20. d + 1 > MaxDepth => then.open = {}
  <2> SUFFICES ASSUME d + 1 > MaxDepth, NEW p \in then.open PROVE FALSE
    OBVIOUS
  <2>1. d >= MaxDepth
    BY TilesAssumption
  <2>2. PICK node \in so.open : p \in Parts(node)
    BY <1>5
  <2>3. node.depth = d
    BY <1>1 DEF NodeSo
  <2>4. Kept(node) = node.idx
    BY <1>2, <2>1, <2>3 DEF SampleSo
  <2>5. p.idx = {}
    BY <1>10, <2>2, <2>4
  <2>6. p.idx # {}
    BY <1>14 DEF NodeSo
  <2> QED
    BY <2>5, <2>6
<1>21. OnceInTiles(then.tiles, n) /\ OnceInNodes(then.open, n)
  BY <1>17, <1>18, Zenon DEF OnceInTiles, OnceInNodes
<1>22. \A i \in 1..n, t \in then.tiles, node \in then.open : ~(i \in t.points /\ i \in node.idx)
  BY <1>19, Zenon
<1> QED
  BY <1>14, <1>15, <1>16, <1>20, <1>21, <1>22, Zenon DEF LevelSo

\* The root of the tree has every point.
Begin(root) == [open |-> {root}, tiles |-> {}]
LEMMA RootLevel ==
    ASSUME NEW n \in Nat, NEW limit, NEW pts, NEW root, NodeSo(root, pts, n, 0), root.idx = 1..n,
           NEW so, so = Begin(root)
    PROVE  LevelSo(so, pts, n, limit, 0)
<1>1. so.open = {root} /\ so.tiles = {}
  BY DEF Begin
<1>2. ~(0 > MaxDepth)
  BY TilesAssumption
<1>3. OnceInTiles(so.tiles, n) /\ OnceInNodes(so.open, n)
  BY <1>1 DEF OnceInTiles, OnceInNodes
<1>4. \A i \in 1..n : \E node \in so.open : i \in node.idx
  BY <1>1
<1> QED
  BY <1>1, <1>2, <1>3, <1>4, Zenon DEF LevelSo

LevelRecords(n) == [open : SUBSET Nodes(n), tiles : SUBSET TileRecords(n)]
LEMMA LevelIsRecord ==
    ASSUME NEW n \in Nat, NEW limit, NEW pts, NEW d, NEW so, LevelSo(so, pts, n, limit, d),
           NEW was, so = Level(was, pts, limit) \/ so = Begin(was)
    PROVE  so \in LevelRecords(n)
<1>1. so = [open |-> so.open, tiles |-> so.tiles]
  BY DEF Level, Begin
<1>2. so.open \subseteq Nodes(n)
  <2>1. \A node \in so.open : NodeSo(node, pts, n, d)
    BY DEF LevelSo
  <2> QED
    BY <2>1 DEF NodeSo
<1>3. so.tiles \subseteq TileRecords(n)
  <2>1. \A t \in so.tiles : TileSo(t, pts, n, limit)
    BY DEF LevelSo
  <2> QED
    BY <2>1 DEF TileSo
<1> QED
  BY <1>1, <1>2, <1>3 DEF LevelRecords

\* After all levels each point is in one tile.
Levels(g, pts, limit, root) ==
    /\ g[0] = Begin(root)
    /\ \A k \in 1..(MaxDepth + 1) : g[k] = Level(g[k - 1], pts, limit)
LEMMA LevelsMean ==
    ASSUME NEW n \in Nat, NEW limit \in Nat \ {0}, NEW pts, Cloud(pts, n),
           NEW root, NodeSo(root, pts, n, 0), root.idx = 1..n,
           NEW g, Levels(g, pts, limit, root)
    PROVE  LevelSo(g[MaxDepth + 1], pts, n, limit, MaxDepth + 1)
<1> DEFINE N == MaxDepth + 1
           T == {k \in 0..N : LevelSo(g[k], pts, n, limit, k)}
<1>1. N \in Nat \ {0} /\ MaxDepth \in Nat
  BY TilesAssumption
<1>2. 0 \in T
  <2>1. g[0] = Begin(root)
    BY DEF Levels
  <2>2. LevelSo(g[0], pts, n, limit, 0)
    BY <2>1, RootLevel
  <2> QED
    BY <1>1, <2>2
<1>3. \A k \in 1..N : k - 1 \in T => k \in T
  <2> SUFFICES ASSUME NEW k \in 1..N, k - 1 \in T PROVE k \in T
    OBVIOUS
  <2>1. LevelSo(g[k - 1], pts, n, limit, k - 1)
    OBVIOUS
  <2>2. g[k] = Level(g[k - 1], pts, limit)
    BY DEF Levels
  <2>3. k - 1 \in Nat /\ k - 1 <= MaxDepth /\ (k - 1) + 1 = k /\ k \in 0..N
    BY <1>1
  <2>4. LevelSo(g[k], pts, n, limit, (k - 1) + 1)
    BY <2>1, <2>2, <2>3, LevelStep
  <2> QED
    BY <2>3, <2>4
<1>4. 0..N \subseteq T
  <2> HIDE DEF T, N
  <2> QED
    BY <1>1, <1>2, <1>3, UpToInduction
<1> QED
  BY <1>1, <1>4

\* There are such levels.
LEMMA LevelsExist ==
    ASSUME NEW n \in Nat, NEW limit \in Nat \ {0}, NEW pts, Cloud(pts, n),
           NEW root, NodeSo(root, pts, n, 0), root.idx = 1..n
    PROVE  \E f : f = [k \in 0..(MaxDepth + 1) |-> f[k]] /\ Levels(f, pts, limit, root)
<1> DEFINE N == MaxDepth + 1
           S == LevelRecords(n)
           Next1(so) == IF Level(so, pts, limit) \in S THEN Level(so, pts, limit) ELSE so
           next == [x \in S \X (1..N) |-> Next1(x[1])]
<1>1. N \in Nat \ {0} /\ MaxDepth \in Nat
  BY TilesAssumption
<1>2. LevelSo(Begin(root), pts, n, limit, 0)
  BY RootLevel
<1>3. Begin(root) \in S
  BY <1>2, LevelIsRecord
<1>4. next \in [S \X (1..N) -> S] /\ \A so \in S, k \in 1..N : next[<<so, k>>] = Next1(so)
  <2>1. \A so \in S : Next1(so) \in S
    OBVIOUS
  <2> HIDE DEF Next1, S, N
  <2> QED
    BY <2>1
<1> HIDE DEF next
<1>5. PICK f \in [0..N -> S] : Recurs(f, N, Begin(root), next)
  <2> HIDE DEF S, N
  <2> QED
    BY <1>1, <1>3, <1>4, RecursionUpTo
<1>6. f[0] = Begin(root) /\ \A k \in 1..N : f[k - 1] \in S /\ f[k] = Next1(f[k - 1])
  <2>1. \A k \in 1..N : k - 1 \in 0..N
    BY <1>1
  <2> HIDE DEF S, N, Next1
  <2> QED
    BY <1>4, <1>5, <2>1 DEF Recurs
<1> DEFINE T == {k \in 0..N : LevelSo(f[k], pts, n, limit, k)}
<1>7. ASSUME NEW k \in 1..N, k - 1 \in T PROVE k \in T /\ f[k] = Level(f[k - 1], pts, limit)
  <2>1. LevelSo(f[k - 1], pts, n, limit, k - 1)
    BY <1>7
  <2>2. k - 1 \in Nat /\ k - 1 <= MaxDepth /\ (k - 1) + 1 = k /\ k \in 0..N
    BY <1>1
  <2> SUFFICES ASSUME NEW then, then = Level(f[k - 1], pts, limit) PROVE k \in T /\ f[k] = then
    OBVIOUS
  <2>3. LevelSo(then, pts, n, limit, (k - 1) + 1)
    BY <2>1, <2>2, LevelStep
  <2>4. then \in S
    BY <2>3, LevelIsRecord
  <2>5. f[k] = then
    BY <1>6, <2>4
  <2> QED
    BY <2>2, <2>3, <2>5
<1>8. 0 \in T
  BY <1>1, <1>2, <1>6
<1>9. 0..N \subseteq T
  <2>1. \A k \in 1..N : k - 1 \in T => k \in T
    BY <1>7
  <2> HIDE DEF T, N
  <2> QED
    BY <1>1, <1>8, <2>1, UpToInduction
<1>10. \A k \in 1..N : f[k] = Level(f[k - 1], pts, limit)
  <2> SUFFICES ASSUME NEW k \in 1..N PROVE f[k] = Level(f[k - 1], pts, limit)
    OBVIOUS
  <2>1. k - 1 \in 0..N
    BY <1>1
  <2>2. k - 1 \in T
    BY <1>9, <2>1
  <2> HIDE DEF T
  <2> QED
    BY <1>7, <2>2
<1>11. f = [k \in 0..N |-> f[k]]
  BY <1>5
<1> QED
  BY <1>6, <1>10, <1>11 DEF Levels

\* The tree that is built has such levels.
LEMMA OctreeLevels ==
    ASSUME NEW n \in Nat, NEW limit \in Nat \ {0}, NEW pts, Cloud(pts, n), NEW perTile,
           limit = IF perTile = 0 THEN Len(pts) ELSE perTile,
           NodeSo(RootOf(pts), pts, n, 0), RootOf(pts).idx = 1..n
    PROVE  \E g : Levels(g, pts, limit, RootOf(pts)) /\ Octree(pts, perTile) = g[MaxDepth + 1].tiles
<1> DEFINE N == MaxDepth + 1
           root == RootOf(pts)
           Body(h) == [d \in 0..(MaxDepth + 1) |->
                         IF d = 0 THEN [open |-> {RootOf(pts)}, tiles |-> {}]
                         ELSE Level(h[d - 1], pts, IF perTile = 0 THEN Len(pts) ELSE perTile)]
           g == CHOOSE h : h = Body(h)
<1>1. N \in Nat \ {0} /\ \A k \in 1..N : k - 1 \in 0..N /\ k \in 0..N /\ k # 0
  BY TilesAssumption
<1>2. Octree(pts, perTile) = g[MaxDepth + 1].tiles
  BY Zenon DEF Octree
<1>3. PICK f : f = [k \in 0..N |-> f[k]] /\ Levels(f, pts, limit, root)
  BY LevelsExist
<1>4. f = Body(f)
  <2>1. \A k \in 0..N : f[k] = Body(f)[k]
    <3> SUFFICES ASSUME NEW k \in 0..N PROVE f[k] = Body(f)[k]
      OBVIOUS
    <3>1. CASE k = 0
      BY <1>1, <1>3, <3>1 DEF Levels, Begin
    <3>2. CASE k # 0
      <4>1. k \in 1..N
        BY <3>2
      <4> QED
        BY <1>1, <1>3, <3>2, <4>1 DEF Levels
    <3> QED
      BY <3>1, <3>2
  <2>2. Body(f) = [k \in 0..N |-> Body(f)[k]]
    OBVIOUS
  <2> HIDE DEF Body, N
  <2> QED
    BY <1>3, <2>1, <2>2
<1>5. g = Body(g)
  <2> HIDE DEF Body
  <2> QED
    BY <1>4, Zenon
<1> HIDE DEF g
<1>6. Levels(g, pts, limit, root)
  <2>1. \A k \in 0..N : g[k] = Body(g)[k]
    BY <1>5
  <2>2. Body(g)[0] = Begin(root) /\ \A k \in 1..N : Body(g)[k] = Level(g[k - 1], pts, limit)
    BY <1>1 DEF Begin
  <2> HIDE DEF Body
  <2>3. 0 \in 0..N
    BY <1>1
  <2> QED
    BY <1>1, <2>1, <2>2, <2>3 DEF Levels
<1> QED
  BY <1>2, <1>6

\* Each point is in one of the tiles, and a tile has what it may have.
Tiled(tiles, pts, n, limit) ==
    /\ \A t \in tiles : TileSo(t, pts, n, limit)
    /\ \A i \in 1..n : \E t \in tiles : i \in t.points
    /\ OnceInTiles(tiles, n)
LEMMA OctreeTiles ==
    ASSUME NEW n \in Nat, NEW limit \in Nat \ {0}, NEW pts, Cloud(pts, n), NEW perTile,
           limit = IF perTile = 0 THEN Len(pts) ELSE perTile,
           NodeSo(RootOf(pts), pts, n, 0), RootOf(pts).idx = 1..n
    PROVE  Tiled(Octree(pts, perTile), pts, n, limit)
<1>1. PICK g : Levels(g, pts, limit, RootOf(pts)) /\ Octree(pts, perTile) = g[MaxDepth + 1].tiles
  BY OctreeLevels
<1>2. LevelSo(g[MaxDepth + 1], pts, n, limit, MaxDepth + 1)
  BY <1>1, LevelsMean
<1>3. g[MaxDepth + 1].open = {}
  <2>1. MaxDepth + 1 > MaxDepth
    BY TilesAssumption
  <2> QED
    BY <1>2, <2>1 DEF LevelSo
<1> QED
  BY <1>1, <1>2, <1>3, Zenon DEF LevelSo, Tiled

\* There are no more tiles than points.
LEMMA TilesAreFinite ==
    ASSUME NEW n \in Nat, NEW limit, NEW pts, NEW tiles, Tiled(tiles, pts, n, limit)
    PROVE  Cardinality(tiles) \in Nat
<1> DEFINE f == [t \in tiles |-> Min(t.points)]
<1>1. \A t \in tiles : t.points \in SUBSET (1..n) /\ t.points # {}
  BY DEF Tiled, TileSo, TileRecords
<1>2. \A t \in tiles : Min(t.points) \in t.points
  <2> SUFFICES ASSUME NEW t \in tiles PROVE Min(t.points) \in t.points
    OBVIOUS
  <2>1. t.points \in SUBSET Nat /\ t.points # {}
    BY <1>1
  <2> QED
    BY <2>1, MinIsLeast
<1>3. f \in [tiles -> 1..n] /\ \A s, t \in tiles : f[s] = f[t] => s = t
  BY <1>1, <1>2 DEF Tiled, OnceInTiles
<1>4. f \in Injection(tiles, 1..n)
  <2> HIDE DEF f
  <2> QED
    BY <1>3 DEF Injection, IsInjective
<1>5. IsFiniteSet(1..n)
  BY FS_Interval
<1> HIDE DEF f
<1> QED
  BY <1>4, <1>5, FS_Injection, FS_CardinalityType

\* The root is a node, for coordinates that are no negative numbers.
LEMMA RootIsNode ==
    ASSUME NEW n \in Nat \ {0}, NEW top \in Nat, NEW pts, DOMAIN pts = 1..n,
           \A i \in 1..n, a \in Axes : pts[i][a] \in 0..top
    PROVE  Cloud(pts, n) /\ NodeSo(RootOf(pts), pts, n, 0) /\ RootOf(pts).idx = 1..n
<1> DEFINE root == RootOf(pts)
           Values(a) == {pts[i][a] : i \in DOMAIN pts}
<1>1. \A a \in Axes : Values(a) \in SUBSET (0..top) /\ Values(a) # {}
  <2>1. 1 \in 1..n
    OBVIOUS
  <2> QED
    BY <2>1
<1>2. \A i \in 1..n, a \in Axes : pts[i][a] \in Values(a)
  OBVIOUS
<1>3. \A a \in Axes : LowOf(pts)[a] = Min(Values(a)) /\ HighOf(pts)[a] = Max(Values(a))
  BY DEF LowOf, HighOf
<1>4. root = [idx |-> 1..n, lo |-> LowOf(pts), hi |-> HighOf(pts), depth |-> 0]
  BY DEF RootOf
<1> HIDE DEF Values, root
<1>5. \A a \in Axes : /\ Min(Values(a)) \in Int /\ Max(Values(a)) \in Int
                      /\ \A v \in Values(a) : Min(Values(a)) <= v /\ v <= Max(Values(a))
  <2> SUFFICES ASSUME NEW a \in Axes
               PROVE  /\ Min(Values(a)) \in Int /\ Max(Values(a)) \in Int
                      /\ \A v \in Values(a) : Min(Values(a)) <= v /\ v <= Max(Values(a))
    OBVIOUS
  <2>1. Values(a) \in SUBSET Nat /\ Values(a) \in SUBSET (0..top) /\ Values(a) # {}
    BY <1>1
  <2>2. Min(Values(a)) \in Values(a) /\ \A v \in Values(a) : Min(Values(a)) <= v
    BY <2>1, MinIsLeast
  <2>3. Max(Values(a)) \in Values(a) /\ \A v \in Values(a) : v <= Max(Values(a))
    BY <2>1, MaxIsGreatest
  <2> QED
    BY <2>1, <2>2, <2>3
<1>6. LowOf(pts) \in [Axes -> Int] /\ HighOf(pts) \in [Axes -> Int]
  <2>1. LowOf(pts) = [a \in Axes |-> LowOf(pts)[a]] /\ HighOf(pts) = [a \in Axes |-> HighOf(pts)[a]]
    BY DEF LowOf, HighOf
  <2> QED
    BY <1>3, <1>5, <2>1
<1>7. root \in Nodes(n) /\ root.idx = 1..n /\ root.idx # {} /\ root.depth = 0
      /\ root.lo = LowOf(pts) /\ root.hi = HighOf(pts)
  <2>1. 1..n \in SUBSET (1..n) /\ 1..n # {} /\ 0 \in Nat
    OBVIOUS
  <2>2. root \in Nodes(n)
    BY <1>4, <1>6, <2>1 DEF Nodes
  <2> QED
    BY <1>4, <2>1, <2>2
<1>8. Within(pts, root.idx, root.lo, root.hi)
  BY <1>2, <1>3, <1>5, <1>7 DEF Within
<1>9. Cloud(pts, n)
  BY DEF Cloud
<1> QED
  BY <1>7, <1>8, <1>9 DEF NodeSo, root

LEMMA HalvingsMean == Halvings[MaxDepth] \in Nat
<1> DEFINE next == [x \in Nat \X (1..MaxDepth) |-> 2 * x[1]]
           Body(g) == [d \in 0..MaxDepth |-> IF d = 0 THEN 1 ELSE 2 * g[d - 1]]
           T == {d \in 0..MaxDepth : Halvings[d] \in Nat}
<1>1. MaxDepth \in Nat /\ \A k \in 1..MaxDepth : k - 1 \in 0..MaxDepth /\ k \in 0..MaxDepth /\ k # 0
  BY TilesAssumption
<1>2. next \in [Nat \X (1..MaxDepth) -> Nat] /\ \A x \in Nat, k \in 1..MaxDepth : next[<<x, k>>] = 2 * x
  OBVIOUS
<1> HIDE DEF next
<1>3. PICK f \in [0..MaxDepth -> Nat] : Recurs(f, MaxDepth, 1, next)
  BY <1>1, <1>2, RecursionUpTo
<1>4. f = Body(f)
  <2>1. f[0] = 1 /\ \A k \in 1..MaxDepth : f[k - 1] \in Nat /\ f[k] = 2 * f[k - 1]
    BY <1>1, <1>2, <1>3 DEF Recurs
  <2>2. \A k \in 0..MaxDepth : k = 0 \/ k \in 1..MaxDepth
    BY <1>1
  <2>3. \A k \in 0..MaxDepth : f[k] = Body(f)[k]
    BY <2>1, <2>2
  <2>4. f = [k \in 0..MaxDepth |-> f[k]] /\ Body(f) = [k \in 0..MaxDepth |-> Body(f)[k]]
    BY <1>3
  <2> HIDE DEF Body
  <2> QED
    BY <2>3, <2>4
<1>5. Halvings = Body(Halvings)
  BY <1>4, Zenon DEF Halvings
<1>6. 0 \in T
  BY <1>1, <1>5
<1>7. \A k \in 1..MaxDepth : k - 1 \in T => k \in T
  <2> SUFFICES ASSUME NEW k \in 1..MaxDepth, Halvings[k - 1] \in Nat PROVE k \in T
    OBVIOUS
  <2>1. Halvings[k] = Body(Halvings)[k]
    BY <1>5
  <2>2. Body(Halvings)[k] = 2 * Halvings[k - 1]
    BY <1>1
  <2>3. Halvings[k] \in Nat
    BY <2>1, <2>2
  <2> QED
    BY <1>1, <2>3
<1> HIDE DEF T
<1>8. 0..MaxDepth \subseteq T
  BY <1>1, <1>6, <1>7, UpToInduction
<1>9. MaxDepth \in T
  BY <1>1, <1>8
<1> QED
  BY <1>9 DEF T

LEMMA ScaledCloud ==
    ASSUME NEW n \in Nat, NEW top \in Nat, NEW points, DOMAIN points = 1..n,
           \A i \in 1..n, a \in Axes : points[i][a] \in 0..top
    PROVE  \E high \in Nat : /\ DOMAIN Scaled(points) = 1..n
                             /\ \A i \in 1..n, a \in Axes : Scaled(points)[i][a] \in 0..high
<1>1. PICK unit \in Nat : unit = Halvings[MaxDepth]
  BY HalvingsMean
<1>2. \A i \in 1..n, a \in Axes : Scaled(points)[i][a] = points[i][a] * unit
  BY <1>1 DEF Scaled
<1>3. DOMAIN Scaled(points) = 1..n
  BY DEF Scaled
<1>4. top * unit \in Nat
  OBVIOUS
<1>5. \A x \in 0..top : x * unit \in 0..(top * unit)
  <2> SUFFICES ASSUME NEW x \in 0..top PROVE x * unit \in 0..(top * unit)
    OBVIOUS
  <2>1. x * unit \in Nat /\ (top - x) * unit \in Nat
    OBVIOUS
  <2>2. (top - x) * unit = top * unit - x * unit
    OBVIOUS
  <2> QED
    BY <1>4, <2>1, <2>2
<1>6. \A i \in 1..n, a \in Axes : Scaled(points)[i][a] \in 0..(top * unit)
  BY <1>2, <1>5
<1> QED
  BY <1>3, <1>4, <1>6

\* The number of tiles that are looked at, up to the cap.
LEMMA WalkCounts ==
    ASSUME NEW tiles, Cardinality(tiles) \in Nat, ~WalkTiles(tiles).truncated
    PROVE  WalkTiles(tiles).tile_count = Cardinality(tiles)
<1>1. /\ WalkTiles(tiles).tile_count = Lesser(Cardinality(tiles), MaxTiles)
      /\ WalkTiles(tiles).truncated <=> Cardinality(tiles) > MaxTiles
  BY Zenon DEF WalkTiles
<1>2. MaxTiles \in Nat
  BY TilesAssumption
<1> QED
  BY <1>1, <1>2 DEF Lesser

\* What a call of points_to_3d_tiles that succeeds has written.
LEMMA TilesWritten ==
    ASSUME NEW in, NEW so, so = PointsTo3dTiles(in), so.reply = "result"
    PROVE  LET tiles == Octree(Scaled(in.points), in.perTile)
           IN  in.points # <<>> /\ so.value.tiles = Cardinality(tiles) /\ so.value.index = tiles
<1> SUFFICES ASSUME NEW tiles, tiles = Octree(Scaled(in.points), in.perTile)
             PROVE  in.points # <<>> /\ so.value.tiles = Cardinality(tiles) /\ so.value.index = tiles
  BY Zenon
<1> DEFINE many == Cardinality(tiles) > MaxOctreeTiles
           room == Lesser(in.disk, MaxOctreeTiles)
           over == many \/ Cardinality(tiles) >= in.disk
           broken == [Failed(IF many /\ room = MaxOctreeTiles THEN "validation" ELSE "upstream", <<>>)
                         EXCEPT !.value = [tiles |-> Lesser(room, Cardinality(tiles)), index |-> {}]]
           written == [tiles |-> Cardinality(tiles), index |-> tiles]
<1>1. so = IF in.points = <<>> THEN Refused ELSE IF in.wrong # {} THEN Refused
           ELSE IF over THEN broken ELSE Returned(written, <<>>)
  BY Zenon DEF PointsTo3dTiles
<1>2. Refused.reply # "result"
  BY DEF Refused, Failed
<1>3. broken.reply # "result"
  BY DEF Failed
<1> HIDE DEF broken, over, written
<1>4. in.points # <<>> /\ so = Returned(written, <<>>)
  BY <1>1, <1>2, <1>3
<1>5. so.value = written
  BY <1>4 DEF Returned
<1> QED
  BY <1>4, <1>5 DEF written

\* What is so of tiles is so of an answer that holds them.
LEMMA TiledIsOnce ==
    ASSUME NEW n \in Nat \ {0}, NEW limit \in Nat \ {0}, NEW pts, Cloud(pts, n), NEW in, NEW so,
           pts = Scaled(in.points), in.perTile = 0 \/ in.perTile = limit,
           NEW tiles, Tiled(tiles, pts, n, limit), so.value.tiles = Cardinality(tiles),
           so.value.index = tiles
    PROVE  EveryPointIsOnce(in, so)
<1>1. \A t \in tiles : /\ t.points \in SUBSET (1..n) /\ t.points # {} /\ t.depth \in Nat
                       /\ t.lo \in [Axes -> Int] /\ t.hi \in [Axes -> Int]
                       /\ Within(pts, t.points, t.lo, t.hi)
                       /\ t.depth = MaxDepth \/ Cardinality(t.points) <= limit
  BY DEF Tiled, TileSo, TileRecords
<1>2. DOMAIN pts = 1..n /\ \A i \in 1..n, a \in Axes : pts[i][a] \in Int
  BY DEF Cloud
<1>3. UNION {t.points : t \in tiles} = 1..n
  <2>1. \A i \in 1..n : \E t \in tiles : i \in t.points
    BY DEF Tiled
  <2> QED
    BY <1>1, <2>1
<1>4. \A t \in tiles, i \in 1..n : i \in t.points => \A s \in tiles \ {t} : i \notin s.points
  BY DEF Tiled, OnceInTiles
<1>5. \A t \in tiles, i \in 1..n : i \in t.points => \A a \in Axes : pts[i][a] \in t.lo[a]..t.hi[a]
  <2> SUFFICES ASSUME NEW t \in tiles, NEW i \in 1..n, i \in t.points, NEW a \in Axes
               PROVE  pts[i][a] \in t.lo[a]..t.hi[a]
    OBVIOUS
  <2>1. t.lo[a] \in Int /\ t.hi[a] \in Int /\ pts[i][a] \in Int
    BY <1>1, <1>2
  <2>2. t.lo[a] <= pts[i][a] /\ pts[i][a] <= t.hi[a]
    BY <1>1 DEF Within
  <2> QED
    BY <2>1, <2>2
<1>6. \A t \in tiles : /\ t.points # {}
                       /\ in.perTile = 0 \/ t.depth = MaxDepth \/ Cardinality(t.points) <= in.perTile
  BY <1>1
<1>7. ~WalkTiles(tiles).truncated => WalkTiles(tiles).tile_count = Cardinality(tiles)
  BY TilesAreFinite, WalkCounts
<1> QED
  BY <1>2, <1>3, <1>4, <1>5, <1>6, <1>7 DEF EveryPointIsOnce

\* Each point of a cloud is written into one tile, however many points there are.
THEOREM PointsAreOnce ==
    ASSUME NEW n \in Nat \ {0}, NEW top \in Nat, NEW in, DOMAIN in.points = 1..n,
           \A i \in 1..n, a \in Axes : in.points[i][a] \in 0..top, in.perTile \in Nat
    PROVE  EveryPointIsOnce(in, PointsTo3dTiles(in))
<1> SUFFICES ASSUME NEW so, so = PointsTo3dTiles(in), so.reply = "result"
             PROVE  EveryPointIsOnce(in, so)
  BY Zenon DEF EveryPointIsOnce
<1> SUFFICES ASSUME NEW pts, pts = Scaled(in.points) PROVE EveryPointIsOnce(in, so)
  OBVIOUS
<1>1. PICK high \in Nat : DOMAIN pts = 1..n /\ \A i \in 1..n, a \in Axes : pts[i][a] \in 0..high
  BY ScaledCloud
<1>2. Cloud(pts, n) /\ NodeSo(RootOf(pts), pts, n, 0) /\ RootOf(pts).idx = 1..n
  BY <1>1, RootIsNode
<1>3. Len(pts) = n
  <2>1. \E f : f = [i \in 1..n |-> [a \in Axes |-> pts[i][a]]] /\ pts = f
    BY <1>1 DEF Scaled
  <2>2. pts \in [1..n -> [Axes -> Int]]
    BY <1>1, <2>1
  <2> QED
    BY <2>2, FunctionIsSeq
<1>4. PICK limit : limit = IF in.perTile = 0 THEN Len(pts) ELSE in.perTile
  OBVIOUS
<1>5. limit \in Nat \ {0}
  BY <1>3, <1>4
<1>6. Tiled(Octree(pts, in.perTile), pts, n, limit)
  BY <1>2, <1>4, <1>5, OctreeTiles
<1>7. so.value.tiles = Cardinality(Octree(pts, in.perTile)) /\ so.value.index = Octree(pts, in.perTile)
  BY TilesWritten, Zenon
<1>8. in.perTile = 0 \/ in.perTile = limit
  BY <1>4
<1> QED
  BY <1>2, <1>5, <1>6, <1>7, <1>8, TiledIsOnce

LEMMA TilesInputsAreOnce ==
    ASSUME NEW in \in TilesInputs
    PROVE  EveryPointIsOnce(in, PointsTo3dTiles(in))
<1>1. PICK n \in 0..3 : in.points \in [1..n -> (0..2) \X (0..1)]
  BY DEF TilesInputs
<1>2. in.perTile \in Nat
  BY DEF TilesInputs
<1>3. CASE n = 0
  <2>1. in.points = <<>>
    BY <1>1, <1>3
  <2>2. PointsTo3dTiles(in).reply # "result"
    BY <2>1, TilesWritten
  <2> QED
    BY <2>2 DEF EveryPointIsOnce
<1>4. CASE n # 0
  <2>1. n \in Nat \ {0} /\ DOMAIN in.points = 1..n
    BY <1>1, <1>4
  <2>2. \A i \in 1..n, a \in Axes : in.points[i][a] \in 0..2
    BY <1>1 DEF Axes
  <2> QED
    BY <1>2, <2>1, <2>2, PointsAreOnce
<1> QED
  BY <1>3, <1>4

-----------------------------------------------------------------------------
(* geo-3d: meshes, and the layout of files.                                 *)

\* The places of a grid, its cells, and the triangles that can be made of them.
Places(h, w) == (0..(h - 1)) \X (0..(w - 1))
Cells(h, w) == (0..(h - 2)) \X (0..(w - 2))
SoundTriangles(grid, h, w) ==
    {t \in [1..3 -> Places(h, w)] : Turn(t) > 0 /\ \A k \in 1..3 : grid[t[k]] # Hole}
\* A triangle of a cell.
LEMMA CornersMean ==
    ASSUME NEW h \in Nat, NEW w \in Nat, NEW cell \in Cells(h, w), NEW j \in 1..2
    PROVE  CellCorners(cell)[j] \in [1..3 -> Places(h, w)] /\ Turn(CellCorners(cell)[j]) > 0
<1> SUFFICES ASSUME NEW r \in 0..(h - 2), NEW c \in 0..(w - 2), r = cell[1], c = cell[2]
             PROVE  CellCorners(cell)[j] \in [1..3 -> Places(h, w)] /\ Turn(CellCorners(cell)[j]) > 0
  BY DEF Cells
<1>1. /\ CellCorners(cell)[1] = <<<<r, c>>, <<r + 1, c>>, <<r, c + 1>>>>
      /\ CellCorners(cell)[2] = <<<<r, c + 1>>, <<r + 1, c>>, <<r + 1, c + 1>>>>
  BY DEF CellCorners
<1>2. {<<r, c>>, <<r + 1, c>>, <<r, c + 1>>, <<r + 1, c + 1>>} \subseteq Places(h, w)
  BY DEF Places
<1>3. CASE j = 1
  <2> SUFFICES ASSUME NEW t, t = <<<<r, c>>, <<r + 1, c>>, <<r, c + 1>>>>
               PROVE  t \in [1..3 -> Places(h, w)] /\ Turn(t) > 0
    BY <1>1, <1>3
  <2>1. t \in [1..3 -> Places(h, w)]
    BY <1>2
  <2>2. Turn(t) = (r + 1 - r) * (c + 1 - c) - (c - c) * (r - r)
    BY DEF Turn
  <2>3. (r + 1 - r) * (c + 1 - c) - (c - c) * (r - r) = 1
    <3>1. r + 1 - r = 1 /\ c + 1 - c = 1 /\ c - c = 0 /\ r - r = 0
      OBVIOUS
    <3> QED
      BY <3>1
  <2> QED
    BY <2>1, <2>2, <2>3
<1>4. CASE j = 2
  <2> SUFFICES ASSUME NEW t, t = <<<<r, c + 1>>, <<r + 1, c>>, <<r + 1, c + 1>>>>
               PROVE  t \in [1..3 -> Places(h, w)] /\ Turn(t) > 0
    BY <1>1, <1>4
  <2>1. t \in [1..3 -> Places(h, w)]
    BY <1>2
  <2>2. Turn(t) = (r + 1 - r) * (c + 1 - (c + 1)) - (c - (c + 1)) * (r + 1 - r)
    BY DEF Turn
  <2>3. (r + 1 - r) * (c + 1 - (c + 1)) - (c - (c + 1)) * (r + 1 - r) = 1
    <3>1. r + 1 - r = 1 /\ c + 1 - (c + 1) = 0 /\ c - (c + 1) = 0 - 1
      OBVIOUS
    <3> QED
      BY <3>1
  <2> QED
    BY <2>1, <2>2, <2>3
<1> QED
  BY <1>3, <1>4

\* The k-th cell.
LEMMA CellAtIs ==
    ASSUME NEW h \in Nat, h >= 2, NEW w \in Nat, w >= 2, NEW k \in 1..((h - 1) * (w - 1))
    PROVE  CellAt(k, w) \in Cells(h, w)
<1> SUFFICES ASSUME NEW n \in Nat \ {0}, n = w - 1, NEW m \in Nat \ {0}, m = h - 1,
                    NEW x \in Nat, x = k - 1, x < m * n
             PROVE  x \div n \in 0..(m - 1) /\ x % n \in 0..(n - 1)
  <2>1. w - 1 \in Nat \ {0} /\ h - 1 \in Nat \ {0} /\ k - 1 \in Nat
    OBVIOUS
  <2>2. (h - 1) * (w - 1) \in Nat
    BY <2>1
  <2>3. k - 1 < (h - 1) * (w - 1)
    BY <2>2
  <2>4. w - 1 - 1 = w - 2 /\ h - 1 - 1 = h - 2
    OBVIOUS
  <2> QED
    BY <2>1, <2>3, <2>4 DEF CellAt, Cells
<1>1. x \div n \in Int /\ (x \div n) * n <= x /\ x < (x \div n + 1) * n
  BY ONLY x \in Nat, n \in Nat \ {0}, DivMeans
<1> SUFFICES ASSUME NEW q \in Int, q = x \div n PROVE q \in 0..(m - 1) /\ x % n \in 0..(n - 1)
  BY <1>1
<1>2. q >= 0
  <2> SUFFICES ASSUME q + 1 <= 0 PROVE FALSE
    OBVIOUS
  <2>1. (q + 1) * n <= 0
    OBVIOUS
  <2> QED
    BY <1>1, <2>1
<1>3. q <= m - 1
  <2> SUFFICES ASSUME m <= q PROVE FALSE
    OBVIOUS
  <2>1. m * n <= q * n /\ m * n \in Int /\ q * n \in Int
    OBVIOUS
  <2> QED
    BY <1>1, <2>1
<1>4. x % n \in 0..(n - 1)
  OBVIOUS
<1> QED
  BY <1>2, <1>3, <1>4

\* All triangles of a mesh are sound.
LEMMA TrianglesAreSound ==
    ASSUME NEW h \in Nat, h >= 2, NEW w \in Nat, w >= 2, NEW grid
    PROVE  Triangles(grid, h, w) \in Seq(SoundTriangles(grid, h, w))
<1> DEFINE S == SoundTriangles(grid, h, w)
           N == (h - 1) * (w - 1)
           seqs == [k \in 1..N |-> CellTriangles(grid, CellAt(k, w))]
<1>1. N \in Nat
  <2>1. w - 1 \in Nat /\ h - 1 \in Nat
    OBVIOUS
  <2> QED
    BY <2>1
<1>2. ASSUME NEW cell \in Cells(h, w) PROVE CellTriangles(grid, cell) \in Seq(S)
  <2> DEFINE Kept(corners) == IF Full(grid, corners) THEN <<corners>> ELSE <<>>
  <2>1. ASSUME NEW j \in 1..2 PROVE Kept(CellCorners(cell)[j]) \in Seq(S)
    <3> SUFFICES ASSUME NEW t, t = CellCorners(cell)[j], Full(grid, t) PROVE t \in S
      OBVIOUS
    <3>1. t \in [1..3 -> Places(h, w)] /\ Turn(t) > 0
      BY <1>2, <2>1, CornersMean
    <3>2. \A k \in 1..3 : grid[t[k]] # Hole
      BY <3>1 DEF Full
    <3> QED
      BY <3>1, <3>2, Zenon DEF SoundTriangles
  <2>2. CellTriangles(grid, cell) = Kept(CellCorners(cell)[1]) \o Kept(CellCorners(cell)[2])
    BY Zenon DEF CellTriangles
  <2> HIDE DEF Kept, S
  <2>3. Kept(CellCorners(cell)[1]) \in Seq(S) /\ Kept(CellCorners(cell)[2]) \in Seq(S)
    <3>1. 1 \in 1..2 /\ 2 \in 1..2
      OBVIOUS
    <3> QED
      BY <2>1, <3>1, Zenon
  <2> QED
    BY <2>2, <2>3, ConcatProperties, Zenon
<1>3. seqs \in [1..N -> Seq(S)]
  <2>1. \A k \in 1..N : CellAt(k, w) \in Cells(h, w)
    BY CellAtIs
  <2> HIDE DEF S, N
  <2> QED
    BY <1>2, <2>1
<1>4. Triangles(grid, h, w) = FlattenSeq(seqs)
  BY Zenon DEF Triangles
<1> HIDE DEF seqs, N, S
<1>5. FlattenSeq(seqs) \in Seq(S)
  BY <1>1, <1>3, FlatElements
<1> QED
  BY <1>4, <1>5, Zenon DEF S

\* A place without data is a corner of a triangle, which is left out for it.
LEMMA HolesAreTold ==
    ASSUME NEW h \in Nat, h >= 2, NEW w \in Nat, w >= 2, NEW grid
    PROVE  HasHoles(grid, h, w) <=> \E p \in Places(h, w) : grid[p] = Hole
<1> DEFINE Missing(cell, k) == \E i \in 1..3 : grid[CellCorners(cell)[k][i]] = Hole
<1>1. HasHoles(grid, h, w) <=> \E cell \in Cells(h, w), k \in 1..2 : Missing(cell, k)
  <2>1. ASSUME NEW cell \in Cells(h, w), NEW k \in 1..2
        PROVE  ~Full(grid, CellCorners(cell)[k]) <=> Missing(cell, k)
    <3>1. DOMAIN CellCorners(cell)[k] = 1..3
      BY CornersMean
    <3> QED
      BY <3>1 DEF Full
  <2> HIDE DEF Missing
  <2> QED
    BY <2>1, Zenon DEF HasHoles, Cells
<1>2. ASSUME NEW cell \in Cells(h, w), NEW k \in 1..2, Missing(cell, k)
      PROVE  \E p \in Places(h, w) : grid[p] = Hole
  <2>1. PICK i \in 1..3 : grid[CellCorners(cell)[k][i]] = Hole
    BY <1>2
  <2>2. CellCorners(cell)[k][i] \in Places(h, w)
    BY <1>2, CornersMean
  <2> QED
    BY <2>1, <2>2
<1>3. ASSUME NEW p \in Places(h, w), grid[p] = Hole
      PROVE  \E cell \in Cells(h, w), k \in 1..2 : Missing(cell, k)
  <2>1. ASSUME NEW r \in 0..(h - 2), NEW c \in 0..(w - 2),
               p \in {<<r, c>>, <<r + 1, c>>, <<r, c + 1>>, <<r + 1, c + 1>>}
        PROVE  \E cell \in Cells(h, w), k \in 1..2 : Missing(cell, k)
    <3>1. /\ CellCorners(<<r, c>>)[1] = <<<<r, c>>, <<r + 1, c>>, <<r, c + 1>>>>
          /\ CellCorners(<<r, c>>)[2] = <<<<r, c + 1>>, <<r + 1, c>>, <<r + 1, c + 1>>>>
      BY DEF CellCorners
    <3>2. Missing(<<r, c>>, 1) \/ Missing(<<r, c>>, 2)
      BY <1>3, <2>1, <3>1
    <3>3. <<r, c>> \in Cells(h, w)
      BY DEF Cells
    <3> QED
      BY <3>2, <3>3
  <2>2. PICK x \in 0..(h - 1), y \in 0..(w - 1) : p = <<x, y>>
    BY DEF Places
  <2>3. \E r \in 0..(h - 2) : x = r \/ x = r + 1
    <3>1. x \in 0..(h - 2) \/ (x - 1 \in 0..(h - 2) /\ x = x - 1 + 1)
      OBVIOUS
    <3> QED
      BY <3>1
  <2>4. \E c \in 0..(w - 2) : y = c \/ y = c + 1
    <3>1. y \in 0..(w - 2) \/ (y - 1 \in 0..(w - 2) /\ y = y - 1 + 1)
      OBVIOUS
    <3> QED
      BY <3>1
  <2>5. PICK r \in 0..(h - 2), c \in 0..(w - 2) : (x = r \/ x = r + 1) /\ (y = c \/ y = c + 1)
    BY <2>3, <2>4
  <2>6. p \in {<<r, c>>, <<r + 1, c>>, <<r, c + 1>>, <<r + 1, c + 1>>}
    BY <2>2, <2>5
  <2> HIDE DEF Missing
  <2> QED
    BY <2>1, <2>6
<1> HIDE DEF Missing
<1> QED
  BY <1>1, <1>2, <1>3, Zenon

\* A number stands for the vertex it was given to.
LEMMA NumberIsThere ==
    ASSUME NEW V, NEW used \in Seq(V), NEW v, \E i \in 1..Len(used) : used[i] = v
    PROVE  NumberOf(used, v) \in DOMAIN used /\ used[NumberOf(used, v)] = v
<1> DEFINE hits == {i \in DOMAIN used : used[i] = v}
<1>1. NumberOf(used, v) = IF hits = {} THEN 0 ELSE Min(hits)
  BY DEF NumberOf, FirstPos
<1>2. DOMAIN used = 1..Len(used) /\ Len(used) \in Nat
  BY LenProperties
<1>3. hits # {} /\ hits \in SUBSET Nat
  BY <1>2
<1>4. \A i \in hits : i \in DOMAIN used /\ used[i] = v
  OBVIOUS
<1> HIDE DEF hits
<1>5. Min(hits) \in hits
  BY <1>3, MinIsLeast
<1> QED
  BY <1>1, <1>3, <1>4, <1>5

\* The mesh of a grid: the numbers of its triangles' corners and what they stand for.
MeshSo(mesh, triangles, V) ==
    /\ mesh.used \in Seq(V) /\ DOMAIN mesh.indices = DOMAIN triangles
    /\ \A i, j \in 1..Len(mesh.used) : mesh.used[i] = mesh.used[j] => i = j
    /\ \A i \in DOMAIN triangles : /\ mesh.indices[i] = [k \in 1..3 |-> mesh.indices[i][k]]
                                   /\ \A k \in 1..3 : /\ mesh.indices[i][k] \in DOMAIN mesh.used
                                                      /\ mesh.used[mesh.indices[i][k]] = triangles[i][k]
    /\ \A m \in 1..Len(mesh.used) : \E i \in DOMAIN triangles, k \in 1..3 : mesh.used[m] = triangles[i][k]
LEMMA MeshMeans ==
    ASSUME NEW h \in Nat, h >= 2, NEW w \in Nat, w >= 2, NEW grid, NEW mesh, mesh = Mesh(grid, h, w)
    PROVE  /\ MeshSo(mesh, Triangles(grid, h, w), Places(h, w))
           /\ mesh.holes = HasHoles(grid, h, w)
<1> SUFFICES ASSUME NEW triangles, triangles = Triangles(grid, h, w)
             PROVE  MeshSo(mesh, triangles, Places(h, w)) /\ mesh.holes = HasHoles(grid, h, w)
  OBVIOUS
<1> DEFINE V == Places(h, w)
           flat == FlattenSeq(triangles)
           used == Numbered(triangles)
           Number(v) == NumberOf(used, v)
<1>1. mesh = [indices |-> [i \in DOMAIN triangles |-> [k \in 1..3 |-> Number(triangles[i][k])]],
              used |-> used, holes |-> HasHoles(grid, h, w)]
  BY Zenon DEF Mesh
<1>2. triangles \in Seq(SoundTriangles(grid, h, w))
  BY TrianglesAreSound
<1>3. PICK n \in Nat : n = Len(triangles) /\ DOMAIN triangles = 1..n
  BY <1>2, LenProperties
<1>4. \A i \in 1..n : triangles[i] \in [1..3 -> V]
  <2>1. \A i \in 1..n : triangles[i] \in SoundTriangles(grid, h, w)
    BY <1>2, <1>3, ElementOfSeq
  <2> QED
    BY <2>1 DEF SoundTriangles
<1>5. \A i \in 1..n : triangles[i] \in Seq(V) /\ Len(triangles[i]) = 3
  BY <1>4, FunctionIsSeq
<1>6. triangles \in [1..n -> Seq(V)]
  <2>1. triangles = [i \in 1..n |-> triangles[i]]
    BY <1>2, <1>3
  <2> HIDE DEF V
  <2> QED
    BY <1>5, <2>1
<1> HIDE DEF V
<1>7. flat \in Seq(V) /\ FlatSo(flat, triangles, n)
  BY <1>6, FlatElements
<1>8. used = MetInOrder(flat)
  BY DEF Numbered
<1> HIDE DEF flat
<1>9. PICK m \in Nat : m = Len(flat) /\ flat \in [1..m -> V]
  BY <1>7, LenProperties
<1>10. used \in Seq(V) /\ MetSo(used, flat, m)
  BY <1>8, <1>9, MetAre
<1> HIDE DEF used
<1>11. ASSUME NEW i \in 1..n, NEW k \in 1..3
       PROVE  Number(triangles[i][k]) \in DOMAIN used /\ used[Number(triangles[i][k])] = triangles[i][k]
  <2>1. k \in 1..Len(triangles[i])
    BY <1>5
  <2>2. PICK j \in 1..m : flat[j] = triangles[i][k]
    BY <1>7, <1>9, <2>1, Zenon DEF FlatSo
  <2>3. \E l \in 1..Len(used) : used[l] = triangles[i][k]
    BY <1>10, <2>2, Zenon DEF MetSo
  <2> QED
    BY <1>10, <2>3, NumberIsThere
<1>12. ASSUME NEW l \in 1..Len(used)
       PROVE  \E i \in 1..n, k \in 1..3 : used[l] = triangles[i][k]
  <2>1. PICK j \in 1..m : used[l] = flat[j]
    BY <1>10, Zenon DEF MetSo
  <2>2. PICK i \in 1..n : \E k \in 1..Len(triangles[i]) : flat[j] = triangles[i][k]
    BY <1>7, <1>9, <2>1, Zenon DEF FlatSo
  <2>3. PICK k \in 1..3 : flat[j] = triangles[i][k]
    BY <1>5, <2>2
  <2> QED
    BY <2>1, <2>3
<1> HIDE DEF Number
<1>13. /\ mesh.used = used /\ mesh.holes = HasHoles(grid, h, w)
       /\ DOMAIN mesh.indices = 1..n
       /\ \A i \in 1..n : mesh.indices[i] = [k \in 1..3 |-> Number(triangles[i][k])]
  BY <1>1, <1>3
<1>14. \A i \in 1..n : /\ mesh.indices[i] = [k \in 1..3 |-> mesh.indices[i][k]]
                       /\ \A k \in 1..3 : mesh.indices[i][k] = Number(triangles[i][k])
  BY <1>13
<1>15. \A i, j \in 1..Len(used) : used[i] = used[j] => i = j
  BY <1>10, Zenon DEF MetSo
<1>16. \A i \in 1..n, k \in 1..3 : /\ mesh.indices[i][k] \in DOMAIN used
                                   /\ used[mesh.indices[i][k]] = triangles[i][k]
  <2> SUFFICES ASSUME NEW i \in 1..n, NEW k \in 1..3
               PROVE  mesh.indices[i][k] \in DOMAIN used /\ used[mesh.indices[i][k]] = triangles[i][k]
    OBVIOUS
  <2>1. mesh.indices[i][k] = Number(triangles[i][k])
    BY <1>14
  <2> QED
    BY <1>11, <2>1
<1>17. MeshSo(mesh, triangles, V)
  <2>1. mesh.used = used /\ DOMAIN mesh.indices = DOMAIN triangles /\ DOMAIN triangles = 1..n
    BY <1>3, <1>13
  <2>2. ASSUME NEW i \in DOMAIN triangles
        PROVE  /\ mesh.indices[i] = [k \in 1..3 |-> mesh.indices[i][k]]
               /\ \A k \in 1..3 : /\ mesh.indices[i][k] \in DOMAIN mesh.used
                                  /\ mesh.used[mesh.indices[i][k]] = triangles[i][k]
    <3>1. mesh.indices[i] = [k \in 1..3 |-> mesh.indices[i][k]]
      BY <1>14, <2>1, Zenon
    <3>2. \A k \in 1..3 : mesh.indices[i][k] \in DOMAIN used /\ used[mesh.indices[i][k]] = triangles[i][k]
      BY <1>16, <2>1
    <3> QED
      BY <2>1, <3>1, <3>2, Zenon
  <2>3. \A i, j \in 1..Len(mesh.used) : mesh.used[i] = mesh.used[j] => i = j
    BY <1>15, <2>1, Zenon
  <2>4. \A m1 \in 1..Len(mesh.used) : \E i \in DOMAIN triangles, k \in 1..3 : mesh.used[m1] = triangles[i][k]
    BY <1>12, <2>1
  <2>5. mesh.used \in Seq(V)
    BY <1>10, <2>1, Zenon
  <2> QED
    BY <2>1, <2>2, <2>3, <2>4, <2>5, Zenon DEF MeshSo
<1> QED
  BY <1>13, <1>17 DEF V

\* A mesh of any grid of two rows and two columns at least is sound.
THEOREM MeshesAreSound ==
    ASSUME NEW h \in Nat, h >= 2, NEW w \in Nat, w >= 2, NEW in, DOMAIN in.grid = Places(h, w),
           NEW so, so.value = Mesh(in.grid, h, w)
    PROVE  MeshIsSound(in, so)
<1> SUFFICES ASSUME NEW mesh, mesh = so.value PROVE MeshIsSound(in, so)
  OBVIOUS
<1> DEFINE grid == in.grid
           V == Places(h, w)
           All == ToSet(mesh.indices)
<1> SUFFICES ASSUME NEW triangles, triangles = Triangles(grid, h, w) PROVE MeshIsSound(in, so)
  OBVIOUS
<1>1. MeshSo(mesh, triangles, V) /\ mesh.holes = HasHoles(grid, h, w)
  BY MeshMeans
<1>2. \A t \in All : \E i \in DOMAIN triangles : t = mesh.indices[i]
  BY <1>1 DEF ToSet, MeshSo
<1>3. \A i \in DOMAIN triangles : mesh.indices[i] \in All
  BY <1>1 DEF ToSet, MeshSo
<1>4. \A i \in DOMAIN triangles : triangles[i] \in SoundTriangles(grid, h, w)
  <2>1. triangles \in Seq(SoundTriangles(grid, h, w))
    BY TrianglesAreSound
  <2> QED
    BY <2>1, ElementOfSeq, LenProperties
<1>5. DOMAIN mesh.used = 1..Len(mesh.used)
  BY <1>1, LenProperties DEF MeshSo
<1>6. mesh.holes <=> \E p \in DOMAIN in.grid : in.grid[p] = Hole
  BY <1>1, HolesAreTold
<1> HIDE DEF V, All
<1>7. ASSUME NEW t \in All
      PROVE  /\ \A k \in 1..3 : t[k] \in DOMAIN mesh.used /\ grid[mesh.used[t[k]]] # Hole
             /\ Turn([k \in 1..3 |-> mesh.used[t[k]]]) > 0
  <2>1. PICK i \in DOMAIN triangles : t = mesh.indices[i]
    BY <1>2
  <2>2. \A k \in 1..3 : t[k] \in DOMAIN mesh.used /\ mesh.used[t[k]] = triangles[i][k]
    BY <1>1, <2>1 DEF MeshSo
  <2>3. /\ triangles[i] = [k \in 1..3 |-> triangles[i][k]] /\ Turn(triangles[i]) > 0
        /\ \A k \in 1..3 : grid[triangles[i][k]] # Hole
    BY <1>4 DEF SoundTriangles
  <2>4. [k \in 1..3 |-> mesh.used[t[k]]] = triangles[i]
    BY <2>2, <2>3
  <2> QED
    BY <2>2, <2>3, <2>4
<1>8. IsInjective(mesh.used)
  BY <1>1, <1>5 DEF MeshSo, IsInjective
<1>9. ASSUME NEW m \in DOMAIN mesh.used PROVE \E t \in All : m \in Range(t)
  <2>1. PICK i \in DOMAIN triangles, k \in 1..3 : mesh.used[m] = triangles[i][k]
    BY <1>1, <1>5 DEF MeshSo
  <2>2. /\ mesh.indices[i][k] \in DOMAIN mesh.used
        /\ mesh.used[mesh.indices[i][k]] = triangles[i][k]
        /\ mesh.indices[i] = [l \in 1..3 |-> mesh.indices[i][l]]
    BY <1>1 DEF MeshSo
  <2>3. mesh.indices[i][k] = m
    BY <1>1, <1>5, <2>1, <2>2 DEF MeshSo
  <2>4. k \in DOMAIN mesh.indices[i]
    BY <2>2
  <2>5. m \in Range(mesh.indices[i])
    BY <2>3, <2>4 DEF Range
  <2> QED
    BY <1>3, <2>5
<1> QED
  BY <1>6, <1>7, <1>8, <1>9, Zenon DEF MeshIsSound, All

LEMMA MeshCallsAreSound ==
    ASSUME NEW in \in MeshInputs
    PROVE  MeshIsSound(in, DemToMesh(in))
<1> DEFINE mesh == Mesh(in.grid, in.height, in.width)
           W == {"nobody", "ok", "validation", "upstream"}
           stages == <<CheckOf(in, {"elevations"}), CheckOf(in, {"bbox", "exaggeration", "output_path"}),
                       CheckThat(mesh.indices # <<>>, "validation"), CheckThat(in.disk > 0, "upstream")>>
<1>1. in.height = 2 /\ in.width = 3 /\ DOMAIN in.grid = (0..1) \X (0..2)
  BY DEF MeshInputs
<1>2. DemToMesh(in) = Staged(stages, mesh)
  BY Zenon DEF DemToMesh
<1> HIDE DEF mesh
<1>3. stages \in [1..4 -> Stages(W)]
  <2>1. \A ps : CheckOf(in, ps) \in Stages(W)
    BY DEF Stages, CheckOf, Check
  <2>2. /\ CheckThat(mesh.indices # <<>>, "validation") \in Stages(W)
        /\ CheckThat(in.disk > 0, "upstream") \in Stages(W)
    BY DEF Stages, CheckThat, Check
  <2> HIDE DEF W
  <2> QED
    BY <2>1, <2>2
<1> HIDE DEF stages
<1>4. stages \in Seq(Stages(W)) /\ \A i \in DOMAIN stages : stages[i].says # "result"
  <2>1. stages \in Seq(Stages(W))
    BY <1>3, FunctionIsSeq
  <2>2. \A i \in DOMAIN stages : stages[i].says \in W
    BY <1>3 DEF Stages
  <2> QED
    BY <2>1, <2>2
<1> HIDE DEF W
<1>5. Staged(stages, mesh).reply = "result" => Staged(stages, mesh).value = mesh
  BY <1>4, StagedReturns
<1> SUFFICES ASSUME NEW so, so = DemToMesh(in), so.reply = "result" PROVE MeshIsSound(in, so)
  BY Zenon DEF MeshIsSound
<1>6. so.value = Mesh(in.grid, 2, 3)
  BY <1>1, <1>2, <1>5 DEF mesh
<1>7. DOMAIN in.grid = Places(2, 3)
  BY <1>1 DEF Places
<1> QED
  BY <1>6, <1>7, MeshesAreSound

\* A padded section ends at its boundary, less than a boundary after its last byte.
PaddedTo(end, offset, length, boundary) ==
    end \in Nat /\ length <= end /\ end < length + boundary /\ (offset + end) % boundary = 0
LEMMA PaddedMeans ==
    ASSUME NEW offset \in Nat, NEW length \in Nat, NEW boundary \in {4, 8}
    PROVE  PaddedTo(Padded(offset, length, boundary), offset, length, boundary)
<1> SUFFICES ASSUME NEW rest, rest = (offset + length) % boundary
             PROVE  PaddedTo(IF rest = 0 THEN length ELSE length + boundary - rest,
                             offset, length, boundary)
  BY DEF Padded
<1>1. CASE boundary = 4
  <2>1. rest \in 0..3
    BY <1>1
  <2>2. CASE rest = 0
    BY <1>1, <2>2 DEF PaddedTo
  <2>3. CASE rest # 0
    <3>1. (offset + (length + 4 - rest)) % 4 = 0
      BY <1>1, <2>1
    <3> QED
      BY <1>1, <2>1, <2>3, <3>1 DEF PaddedTo
  <2> QED
    BY <2>2, <2>3
<1>2. CASE boundary = 8
  <2>1. rest \in 0..7
    BY <1>2
  <2>2. CASE rest = 0
    BY <1>2, <2>2 DEF PaddedTo
  <2>3. CASE rest # 0
    <3>1. (offset + (length + 8 - rest)) % 8 = 0
      BY <1>2, <2>1
    <3> QED
      BY <1>2, <2>1, <2>3, <3>1 DEF PaddedTo
  <2> QED
    BY <2>2, <2>3
<1> QED
  BY <1>1, <1>2

\* Each section of a file begins at its boundary, whatever its size.
LEMMA LayoutsFit ==
    ASSUME NEW table \in Nat, NEW n \in Nat, NEW colors
    PROVE  LayoutFits(table, n, colors)
<1> SUFFICES ASSUME NEW pnts, pnts = PntsLayout(table, n, colors),
                    NEW buffer, buffer = BufferLayout(n, 3 * n),
                    NEW glb, glb = GlbLayout(table, buffer.total)
             PROVE  /\ (PntsHeader + pnts.json) % 8 = 0 /\ pnts.total % 8 = 0
                    /\ pnts.json \in table..(table + 7)
                    /\ pnts.binary - (IF colors THEN 15 * n ELSE 12 * n) \in 0..7
                    /\ buffer.normals % 4 = 0 /\ buffer.indices % 4 = 0
                    /\ buffer.normals >= 12 * n /\ buffer.indices >= 24 * n
                    /\ glb.total % 4 = 0 /\ glb.binary = buffer.total
  BY Zenon DEF LayoutFits
<1>1. /\ (PntsHeader + pnts.json) % 8 = 0 /\ pnts.total % 8 = 0
      /\ pnts.json \in table..(table + 7)
      /\ pnts.binary - (IF colors THEN 15 * n ELSE 12 * n) \in 0..7
  <2> DEFINE data == 12 * n + (IF colors THEN 3 * n ELSE 0)
             json == Padded(PntsHeader, table, 8)
             binary == Padded(PntsHeader + json, data, 8)
  <2>1. pnts.json = json /\ pnts.binary = binary /\ pnts.total = PntsHeader + json + binary
    BY DEF PntsLayout
  <2>2. data \in Nat /\ data = IF colors THEN 15 * n ELSE 12 * n
    OBVIOUS
  <2>3. PntsHeader = 28
    BY DEF PntsHeader
  <2>4. PaddedTo(json, 28, table, 8)
    BY <2>3, PaddedMeans
  <2> HIDE DEF data
  <2>5. PaddedTo(binary, 28 + json, data, 8)
    <3> HIDE DEF json
    <3>1. 28 + json \in Nat
      BY <2>4 DEF PaddedTo
    <3> QED
      BY <2>2, <2>3, <3>1, PaddedMeans
  <2> HIDE DEF json, binary
  <2>6. json \in Nat /\ table <= json /\ json < table + 8 /\ (28 + json) % 8 = 0
    BY <2>4 DEF PaddedTo
  <2>7. binary \in Nat /\ data <= binary /\ binary < data + 8 /\ (28 + json + binary) % 8 = 0
    BY <2>5 DEF PaddedTo
  <2>8. json \in table..(table + 7)
    BY <2>6
  <2>9. binary - data \in 0..7
    BY <2>2, <2>7
  <2> QED
    BY <2>1, <2>2, <2>3, <2>6, <2>7, <2>8, <2>9
<1>2. /\ buffer.normals % 4 = 0 /\ buffer.indices % 4 = 0
      /\ buffer.normals >= 12 * n /\ buffer.indices >= 24 * n
      /\ buffer.total \in Nat /\ buffer.total % 4 = 0
  <2> DEFINE part == Padded(0, 12 * n, 4)
             size == IndexBytes(n) * (3 * n)
             rest == Padded(0, size, 4)
  <2>1. buffer.normals = part /\ buffer.indices = 2 * part /\ buffer.total = 2 * part + rest
    BY DEF BufferLayout
  <2>2. 12 * n \in Nat /\ size \in Nat
    <3>1. IndexBytes(n) = 4 \/ IndexBytes(n) = 2
      BY DEF IndexBytes
    <3> QED
      BY <3>1
  <2> HIDE DEF size
  <2>3. PaddedTo(part, 0, 12 * n, 4) /\ PaddedTo(rest, 0, size, 4)
    BY <2>2, PaddedMeans
  <2> HIDE DEF part, rest
  <2>4. part \in Nat /\ 12 * n <= part /\ (0 + part) % 4 = 0
    BY <2>3 DEF PaddedTo
  <2>5. rest \in Nat /\ (0 + rest) % 4 = 0
    BY <2>3 DEF PaddedTo
  <2>6. part % 4 = 0 /\ rest % 4 = 0
    BY <2>4, <2>5
  <2>7. (2 * part) % 4 = 0 /\ (2 * part + rest) % 4 = 0
    BY <2>4, <2>5, <2>6
  <2>8. 2 * part >= 24 * n
    BY <2>4
  <2> QED
    BY <2>1, <2>4, <2>5, <2>6, <2>7, <2>8
<1>3. glb.total % 4 = 0 /\ glb.binary = buffer.total
  <2> DEFINE json == Padded(0, table, 4)
  <2>1. PaddedTo(json, 0, table, 4)
    BY PaddedMeans
  <2>2. Padded(0, buffer.total, 4) = buffer.total
    <3>1. (0 + buffer.total) % 4 = 0
      BY <1>2
    <3> QED
      BY <3>1 DEF Padded
  <2>3. glb.binary = Padded(0, buffer.total, 4) /\ glb.total = 28 + json + Padded(0, buffer.total, 4)
    BY DEF GlbLayout
  <2> HIDE DEF json
  <2>4. json \in Nat /\ (0 + json) % 4 = 0
    BY <2>1 DEF PaddedTo
  <2>5. \A x, y \in Nat : x % 4 = 0 /\ y % 4 = 0 => (28 + x + y) % 4 = 0
    OBVIOUS
  <2>6. json % 4 = 0
    BY <2>4
  <2> QED
    BY <1>2, <2>2, <2>3, <2>4, <2>5, <2>6
<1> QED
  BY <1>1, <1>2, <1>3

=============================================================================
