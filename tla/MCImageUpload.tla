--------------------------- MODULE MCImageUpload ---------------------------
(* A small instance of ImageUpload: the values of the constants are in the    *)
(* cfg.  Servers are not declared symmetric, since the run checks liveness.   *)
EXTENDS ImageUpload

=============================================================================
