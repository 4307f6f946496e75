-------------------------- MODULE MCSteeringEngine --------------------------
(***************************************************************************)
(* SteeringEngine with three files and up to three workflows: one for all  *)
(* files, one for some, overlapping or not; and directories that do not    *)
(* load.                                                                   *)
(***************************************************************************)
EXTENDS SteeringEngine, FiniteSets

Guide(w, S) == [md |-> TRUE, name |-> w, patterns |-> TRUE, files |-> S]
Other(w) == [md |-> FALSE, name |-> w, patterns |-> FALSE, files |-> {}]
Bare(w) == [md |-> TRUE, name |-> w, patterns |-> FALSE, files |-> {}]

MCFiles == 1..3
MCNames == {"cog", "zonal", "stac"}
MCDirectories ==
    {<<Guide("cog", S), Guide("zonal", T), Other("stac")>> :
        S \in SUBSET MCFiles, T \in {{1, 2}, {2, 3}, MCFiles}}
    \cup {<<Guide("cog", {1, 2}), Guide("zonal", {2, 3}), Guide("stac", S)>> :
            S \in {{1}, {1, 3}, MCFiles}}
    \cup {<<Guide("cog", {1}), Guide("cog", {2})>>, <<Guide("cog", {1}), Bare("zonal")>>, <<>>}
=============================================================================
