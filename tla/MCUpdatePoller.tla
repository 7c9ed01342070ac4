--------------------------- MODULE MCUpdatePoller ---------------------------
(* Four updates make batches that end before, at and after a failure; two   *)
(* restarts let a repeated update be repeated again.                        *)
EXTENDS UpdatePoller
=============================================================================
