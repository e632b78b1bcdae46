--------------------------- MODULE MC_CommandLine ---------------------------
(***************************************************************************)
(* Lines of up to three characters in buffers that grow once, and two      *)
(* lines of history.                                                       *)
(***************************************************************************)
EXTENDS CommandLine

TwoChars == {"a", "b"}
=============================================================================
