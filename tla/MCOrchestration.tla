--------------------------- MODULE MCOrchestration --------------------------
(***************************************************************************)
(* Orchestration over a vocabulary registered out of pillar order: two     *)
(* discover capabilities, one with two sources and one that shares one of  *)
(* them, a process capability with a fallback, two analyze capabilities    *)
(* and one that nobody provides.                                           *)
(***************************************************************************)
EXTENDS Orchestration

CONSTANTS a, b, c

MCCapabilities == {"search", "features", "reproject", "embed", "detect", "segment"}
MCKindOf ==
    [x \in MCCapabilities |->
        CASE x \in {"search", "features"} -> "discover"
          [] x = "reproject" -> "process"
          [] OTHER -> "analyze"]
MCPosition ==
    [embed |-> 1, search |-> 2, reproject |-> 3, features |-> 4, detect |-> 5, segment |-> 6]
MCCandidates ==
    [search |-> <<a, b>>, features |-> <<b>>, reproject |-> <<c, a>>,
     embed |-> <<a>>, detect |-> <<b, c>>, segment |-> <<>>]
=============================================================================
