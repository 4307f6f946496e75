------------------------- MODULE MCCredentialManager ------------------------
(***************************************************************************)
(* CredentialManager with a source whose validator is a callable that      *)
(* returns a result or a coroutine, and one that has none and cannot       *)
(* always be read; a secret that is accepted and one that is not.          *)
(***************************************************************************)
EXTENDS CredentialManager

CONSTANTS checked, open, r1, r2, good, bad
=============================================================================
