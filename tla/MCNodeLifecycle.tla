--------------------------- MODULE MCNodeLifecycle ---------------------------
(* Two requests at once on a process with up to two database paths.        *)
EXTENDS NodeLifecycle

CONSTANTS t1, t2, a, m
=============================================================================
