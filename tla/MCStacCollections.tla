------------------------- MODULE MCStacCollections --------------------------
(***************************************************************************)
(* StacCollections with catalogs of one to three pages of up to three      *)
(* entries and a scan cap of four.                                         *)
(***************************************************************************)
EXTENDS StacCollections

MCPages == UNION {[1..n -> Entries] : n \in 0..3}
MCPageSets ==
    {<<p>> : p \in MCPages}
        \cup {<<p, q>> : p \in MCPages, q \in {<<>>, <<"match">>, <<"match", "other">>, <<"unusable", "match", "match">>}}
        \cup {<<p, <<>>, <<"match", "match">>>> : p \in MCPages}
        \cup {<<p, <<"other", "match">>, <<"match">>>> : p \in MCPages}
=============================================================================
