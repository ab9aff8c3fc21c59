--------------------------- MODULE MCIndexManager ---------------------------
(***************************************************************************)
(* IndexManager for TLC: v and w are formatted alike, as "A" and "a" are.  *)
(***************************************************************************)
EXTENDS IndexManager

CONSTANTS a, b, c, v, w, x

MCFormat == [u \in Vals |-> IF u = x THEN "x" ELSE "v"]
MCStrings == {"v", "x"}

=============================================================================
