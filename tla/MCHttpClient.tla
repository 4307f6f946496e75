---------------------------- MODULE MCHttpClient ----------------------------
(***************************************************************************)
(* HttpClient on a policy of four attempts whose backoff 1, 3, 5 reaches   *)
(* its cap, and an upstream that names Retry-After values below, at and    *)
(* above the cap, 0 included (a date in the past is clamped to 0).         *)
(***************************************************************************)
EXTENDS HttpClient

MCRetryAfters == {0, 7, 8}
MCLatencies == {0, 2}
=============================================================================
