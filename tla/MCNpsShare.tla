------------------------------ MODULE MCNpsShare ------------------------------
(***************************************************************************)
(* A short clause that only a broadened limit lets out, and two alike.     *)
(***************************************************************************)
EXTENDS NpsShare, TLC

CONSTANTS c1, c2, c3

MCSize == c1 :> 1 @@ c2 :> 2 @@ c3 :> 2
MCLbd == c1 :> 3 @@ c2 :> 2 @@ c3 :> 2
Alike == Permutations({c2, c3})
===============================================================================
