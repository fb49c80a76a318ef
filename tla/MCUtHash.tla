------------------------------- MODULE MCUtHash -------------------------------
(***************************************************************************)
(* Five items, two of them with the same key.  The hash values of three of *)
(* them agree in all the bits that pick a bucket, and so do those of the   *)
(* two others, from which the first doubling parts them and no later one.  *)
(***************************************************************************)
EXTENDS UtHash

MCItems == 1 .. 5
MCKeyOf == <<"a", "b", "a", "c", "d">>
MCHashOf == [a |-> 0, b |-> 64, c |-> 1, d |-> 65]
=============================================================================
