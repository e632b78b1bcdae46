-------------------------- MODULE MC_ProgramInput --------------------------
(***************************************************************************)
(* Every command line of up to four words, and every one in the order of   *)
(* the checks, with up to seven options and one of two files for each.     *)
(***************************************************************************)
EXTENDS ProgramInput

MCNames == {"f", "g", "m"} \cup {Checks[k] : k \in 1 .. 6}
MCCommandLines == UNION {[1 .. n -> MCNames] : n \in 0 .. 4}
MCChoices == UNION {[D -> {"f", "g"}] : D \in SUBSET {Checks[k] : k \in 1 .. 7}}
=============================================================================
