--------------------------- MODULE MCRequestBatch ---------------------------
(* Two or three requests, one or two retries, execute followed by          *)
(* retryFailed; cancel() may come at every step.                           *)
EXTENDS RequestBatch
=============================================================================
