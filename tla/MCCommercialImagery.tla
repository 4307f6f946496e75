------------------------ MODULE MCCommercialImagery -------------------------
(***************************************************************************)
(* CommercialImagery with three attempts, searches over one to three pages *)
(* of up to two features, a limit below, at and above the cap of three and *)
(* a page cap of two.                                                      *)
(***************************************************************************)
EXTENDS CommercialImagery

MCPages == {<<>>, <<"scene">>, <<"unusable", "scene">>, <<"scene", "scene">>}
MCPageSets == UNION {[1..n -> MCPages] : n \in 1..3}
=============================================================================
