--------------------------- MODULE MCMainThreadLoop ---------------------------
(* Instances of MainThreadLoop for TLC; all constants are model values.    *)
EXTENDS MainThreadLoop
================================================================================
