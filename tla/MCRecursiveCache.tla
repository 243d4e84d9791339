--------------------------- MODULE MCRecursiveCache ---------------------------
(* RecursiveCache with the dependencies of a few keys.                       *)
EXTENDS RecursiveCache, TLC

CONSTANTS ka, kb, kc

(* ka needs kb, which needs nothing.                                         *)
Chained == (ka :> <<kb>>) @@ (kb :> <<>>)

(* ka and kb need each other, after kc, which needs nothing.                 *)
Ring == (ka :> <<kc, kb>>) @@ (kb :> <<kc, ka>>) @@ (kc :> <<>>)

Symmetry == Permutations(Thread)
==============================================================================
