---------------------------- MODULE VariableMap ----------------------------
(***************************************************************************)
(* What variablelookup.h promises to the virtual machine, and what the     *)
(* module VirtualMachine takes for granted: the variables of a scope are a *)
(* function from names to values.                                          *)
(***************************************************************************)
CONSTANTS Names, Values, Zero, Garbage

VARIABLES
  map,     \* the variables of the scope
  key,     \* what was last looked up
  value,   \* what the last lookup_get returned
  found    \* what the last lookup_has returned

mapVars == <<map, key, value, found>>

Empty == [n \in {} |-> Zero]

Init == map = Empty /\ key = Garbage /\ value = Zero /\ found = FALSE

Bind(name, v) ==
  /\ map' = [n \in DOMAIN map \cup {name} |-> IF n = name THEN v ELSE map[n]]
  /\ UNCHANGED <<key, value, found>>

Get(name) ==
  /\ key' = name
  /\ value' = IF name \in DOMAIN map THEN map[name] ELSE Zero
  /\ UNCHANGED <<map, found>>

Has(name) ==
  /\ key' = name
  /\ found' = (name \in DOMAIN map)
  /\ UNCHANGED <<map, value>>

Clear == map' = Empty /\ UNCHANGED <<key, value, found>>

Next ==
  \/ \E name \in Names, v \in Values : Bind(name, v)
  \/ \E name \in Names : Get(name) \/ Has(name)
  \/ Clear

Spec == Init /\ [][Next]_mapVars
=============================================================================
