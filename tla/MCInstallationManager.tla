------------------------ MODULE MCInstallationManager -----------------------
(***************************************************************************)
(* InstallationManager with three servers: single installs, a set that     *)
(* names geo-common and one server twice, the whole set, and requests with *)
(* a name that is not in the manifest.                                     *)
(***************************************************************************)
EXTENDS InstallationManager

CONSTANTS base, stac, vector, opsServer, other

MCRequests ==
    {<<stac>>, <<vector, base, vector>>, <<stac, vector, opsServer>>, <<stac, other>>}
=============================================================================
