-------------------------- MODULE MC_VariableLookup --------------------------
(***************************************************************************)
(* Five names force two doublings, the second of which fails.              *)
(***************************************************************************)
EXTENDS VariableLookup

CONSTANTS n1, n2, n3, n4, n5, v1, v2

SomeNames == {n1, n2, n3, n4, n5}
SomeValues == {v1, v2}
=============================================================================
