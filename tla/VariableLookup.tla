--------------------------- MODULE VariableLookup ---------------------------
(***************************************************************************)
(* The variables of one scope, as variablelookup.c keeps them: two arrays  *)
(* side by side, searched from the front, doubled together when the names  *)
(* have no room left.                                                      *)
(***************************************************************************)
EXTENDS Integers

CONSTANTS
  Names,        \* identifiers
  Values,       \* values of variables
  Zero,         \* (Value) {0}
  Garbage,      \* what malloc() and realloc() leave in memory
  MaxCapacity   \* bound: realloc() gives no more entries than this

ASSUME ZeroAssumption == Zero \in Values
ASSUME GarbageAssumption == Garbage \notin Names \cup Values
ASSUME CapacityAssumption == MaxCapacity \in Nat

VARIABLES
  capacity,   \* lookup->_name_capacity
  size,       \* lookup->_internal_size
  names,      \* lookup->_names
  values,     \* lookup->_values
  key,        \* lookupkey of the last lookup_get or lookup_has
  value,      \* what the last lookup_get returned
  found,      \* what the last lookup_has returned
  status      \* "live", or "exit" when the process gave up

vars == <<capacity, size, names, values, key, value, found, status>>

-----------------------------------------------------------------------------
Entries(n) == 0 .. n - 1
Fresh(n) == [k \in Entries(n) |-> Garbage]

\* realloc() keeps what was there.
Resized(array, n) == [k \in Entries(n) |-> IF k \in DOMAIN array THEN array[k] ELSE Garbage]

\* The search of lookup_add, lookup_get and lookup_has.
Slots(name) == {k \in Entries(size) : names[k] = name}
First(name) == CHOOSE k \in Slots(name) : \A j \in Slots(name) : k <= j

Live == status = "live"
Full == size = capacity
NewCapacity == IF Full THEN 2 * capacity ELSE capacity

-----------------------------------------------------------------------------
Initial == 2   \* the capacity a lookup is made with

Init ==
  /\ capacity = Initial /\ size = 0
  /\ names = Fresh(Initial) /\ values = Fresh(Initial)
  /\ key = Garbage /\ value = Zero /\ found = FALSE
  /\ status = "live"

\* The head of lookup_add: the arrays are doubled, even for a name that is there.
Grow ==
  /\ Live
  /\ NewCapacity <= MaxCapacity
  /\ capacity' = NewCapacity
  /\ UNCHANGED <<key, value, found, status>>

SetValue(name, v) ==
  /\ Grow
  /\ Slots(name) # {}
  /\ names' = Resized(names, NewCapacity)
  /\ values' = [Resized(values, NewCapacity) EXCEPT ![First(name)] = v]
  /\ UNCHANGED size

\* Mutant: a name is added without looking for it.
AddName_Blindly(name, v) ==
  /\ Grow
  /\ names' = [Resized(names, NewCapacity) EXCEPT ![size] = name]
  /\ values' = [Resized(values, NewCapacity) EXCEPT ![size] = v]
  /\ size' = size + 1

AddName(name, v) ==
  /\ Grow
  /\ Slots(name) = {}
  /\ names' = [Resized(names, NewCapacity) EXCEPT ![size] = name]
  /\ values' = [Resized(values, NewCapacity) EXCEPT ![size] = v]
  /\ size' = size + 1

lookup_add(name, v) == SetValue(name, v) \/ AddName(name, v)

\* "Realloc failure"
ReallocFailure ==
  /\ Live
  /\ NewCapacity > MaxCapacity
  /\ status' = "exit"
  /\ UNCHANGED <<capacity, size, names, values, key, value, found>>

\* Mutant: the search leaves out the last entry.
lookup_get_MissesLast(name) ==
  /\ Live
  /\ value' = IF Slots(name) \ {size - 1} # {} THEN values[First(name)] ELSE Zero
  /\ UNCHANGED <<capacity, size, names, values, found, status>>
  /\ key' = name

lookup_get(name) ==
  /\ Live
  /\ value' = IF Slots(name) # {} THEN values[First(name)] ELSE Zero
  /\ UNCHANGED <<capacity, size, names, values, found, status>>
  /\ key' = name

lookup_has(name) ==
  /\ Live
  /\ found' = (Slots(name) # {})
  /\ UNCHANGED <<capacity, size, names, values, value, status>>
  /\ key' = name

\* OP_EXIT_SCOPE: free_variable_lookup and make_variable_lookup.
Renew ==
  /\ Live
  /\ capacity' = Initial /\ size' = 0
  /\ names' = Fresh(Initial) /\ values' = Fresh(Initial)
  /\ UNCHANGED <<key, value, found, status>>

Rest == ~Live /\ UNCHANGED vars

Next ==
  \/ \E name \in Names, v \in Values : lookup_add(name, v)
  \/ \E name \in Names : lookup_get(name) \/ lookup_has(name)
  \/ Renew \/ ReallocFailure \/ Rest

Spec == Init /\ [][Next]_vars

-----------------------------------------------------------------------------
(* Properties *)

\* Both arrays have the capacity the code believes in, and the entries in use are
\* initialised.
TypeOK ==
  /\ capacity \in Nat \ {0} /\ size \in 0 .. capacity
  /\ names \in [Entries(capacity) -> Names \cup {Garbage}]
  /\ values \in [Entries(capacity) -> Values \cup {Garbage}]
  /\ \A k \in Entries(size) : names[k] \in Names /\ values[k] \in Values
  /\ key \in Names \cup {Garbage} /\ value \in Values /\ found \in BOOLEAN
  /\ status \in {"live", "exit"}

\* A name has one entry, whatever was added before and after each doubling: were
\* there two, an assignment would change one and a reference read the other.
NamesAreUnique ==
  \A j, k \in Entries(size) : names[j] = names[k] => j = k

\* The arrays are a function from names to values, and every operation does to
\* them what it does to the function; giving up changes nothing.
Table == [n \in {names[k] : k \in Entries(size)} |-> values[First(n)]]
Map == INSTANCE VariableMap WITH map <- Table
ImplementsMap == Map!Spec

\* The inductive invariant: adding a name, or doubling the arrays, at whatever size keeps both
\* arrays in step and gives no name a second entry.
IInv == TypeOK /\ NamesAreUnique
=============================================================================
