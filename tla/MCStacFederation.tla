------------------------- MODULE MCStacFederation ---------------------------
(***************************************************************************)
(* StacFederation with three catalogs and six items: one scene under two   *)
(* ids, another scene, two items without a scene that share an id, and one *)
(* whose properties its scene key cannot be worked out from.               *)
(***************************************************************************)
EXTENDS StacFederation, TLC

CONSTANTS a1, a2, b, n1, n2, bad

MCItems == {a1, a2, b, n1, n2, bad}
MCIdOf == (a1 :> 1) @@ (a2 :> 2) @@ (b :> 3) @@ (n1 :> 4) @@ (n2 :> 4) @@ (bad :> 5)
MCSceneOf ==
    (a1 :> 1) @@ (a2 :> 1) @@ (b :> 2) @@ (n1 :> NoScene) @@ (n2 :> NoScene) @@ (bad :> BadScene)

MCAnswers ==
    {<<>>, <<a1>>, <<a2, b>>, <<n1, a1, b>>, <<n2, a2, n1>>, <<b, bad, a1>>}

MCRequests ==
    [range: {"ok"}, limit: {0, 1, 2, 4, 6}, dedupe: {"scene", "id"}]
        \cup [range: {"malformed", "mixed"}, limit: {0, 2}, dedupe: {"scene"}]
        \cup [range: {"ok"}, limit: {2}, dedupe: {"other"}]
=============================================================================
