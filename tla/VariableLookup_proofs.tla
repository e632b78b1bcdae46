----------------------- MODULE VariableLookup_proofs -----------------------
(***************************************************************************)
(* Proofs about the variable lookup, for any number of names, values and   *)
(* entries.                                                                *)
(***************************************************************************)
EXTENDS VariableLookup, TLAPS

-----------------------------------------------------------------------------
(* The search *)

\* While names are unique the search finds the one entry of a name.
LEMMA FirstFindsEntry ==
  ASSUME IInv, NEW k \in Entries(size)
  PROVE  First(names[k]) = k
<1>1. Slots(names[k]) = {k}
  BY DEF IInv, NamesAreUnique, Slots
<1>2. k <= k
  BY DEF Entries, IInv, TypeOK
<1>. QED  BY <1>1, <1>2 DEF First

LEMMA SlotFound ==
  ASSUME IInv, NEW name, Slots(name) # {}
  PROVE  /\ First(name) \in Entries(size)
         /\ names[First(name)] = name
<1>1. PICK k \in Entries(size) : names[k] = name
  BY DEF Slots
<1>. QED  BY <1>1, FirstFindsEntry

\* What the refinement needs to know of the search.
EntriesAreTable ==
  /\ Table = [n \in DOMAIN Table |-> Table[n]]
  /\ DOMAIN Table = {names[k] : k \in Entries(size)}
  /\ \A k \in Entries(size) : Table[names[k]] = values[k]

LEMMA EntriesFound == IInv => EntriesAreTable
BY FirstFindsEntry DEF Table, EntriesAreTable

LEMMA EntriesFoundNext == IInv' => EntriesAreTable'
BY EntriesFound, PTL

LEMMA TableFacts ==
  IInv => /\ Table = [n \in DOMAIN Table |-> Table[n]]
          /\ DOMAIN Table = {names[k] : k \in Entries(size)}
          /\ \A k \in Entries(size) : Table[names[k]] = values[k]
BY EntriesFound DEF EntriesAreTable

LEMMA TableDomain ==
  \A name : name \in DOMAIN Table <=> Slots(name) # {}
BY DEF Table, Slots

-----------------------------------------------------------------------------
(* Type correctness and uniqueness *)

LEMMA InitInvariant == Init => IInv
<1>. SUFFICES ASSUME Init PROVE IInv
  OBVIOUS
<1>. USE DEF Init
<1>1. Entries(size) = {} /\ Entries(capacity) = Entries(Initial)
  BY DEF Entries
<1>2. /\ names \in [Entries(capacity) -> Names \cup {Garbage}]
      /\ values \in [Entries(capacity) -> Values \cup {Garbage}]
  BY <1>1 DEF Fresh
<1>3. capacity \in Nat \ {0} /\ size \in 0 .. capacity
  BY DEF Initial
<1>4. TypeOK
  BY <1>1, <1>2, <1>3, ZeroAssumption DEF TypeOK
<1>5. NamesAreUnique
  BY <1>1 DEF NamesAreUnique
<1>. QED  BY <1>4, <1>5 DEF IInv

LEMMA NewCapacityType ==
  ASSUME TypeOK
  PROVE  /\ NewCapacity \in Nat \ {0}
         /\ capacity <= NewCapacity
         /\ size < NewCapacity
BY DEF TypeOK, NewCapacity, Full

LEMMA ResizedArrays ==
  ASSUME TypeOK
  PROVE  /\ Resized(names, NewCapacity) \in [Entries(NewCapacity) -> Names \cup {Garbage}]
         /\ Resized(values, NewCapacity) \in [Entries(NewCapacity) -> Values \cup {Garbage}]
         /\ \A k \in Entries(size) : /\ k \in Entries(NewCapacity)
                                     /\ Resized(names, NewCapacity)[k] = names[k]
                                     /\ Resized(values, NewCapacity)[k] = values[k]
<1>1. Entries(size) \subseteq Entries(capacity) /\ Entries(capacity) \subseteq Entries(NewCapacity)
  BY NewCapacityType DEF TypeOK, Entries
<1>. QED  BY <1>1 DEF TypeOK, Resized

LEMMA SetValueStep ==
  ASSUME IInv, NEW name \in Names, NEW v \in Values, SetValue(name, v)
  PROVE  IInv'
<1>. USE DEF SetValue, Grow, IInv
<1>1. First(name) \in Entries(size)
  BY SlotFound
<1>2. /\ names' \in [Entries(NewCapacity) -> Names \cup {Garbage}]
      /\ values' \in [Entries(NewCapacity) -> Values \cup {Garbage}]
  BY ResizedArrays
<1>3. \A k \in Entries(size) : /\ names'[k] = names[k]
                               /\ values'[k] = IF k = First(name) THEN v ELSE values[k]
  BY ResizedArrays
<1>4. TypeOK'
  BY <1>2, <1>3, NewCapacityType DEF TypeOK
<1>5. NamesAreUnique'
  BY <1>3 DEF NamesAreUnique
<1>. QED  BY <1>4, <1>5

LEMMA AddNameStep ==
  ASSUME IInv, NEW name \in Names, NEW v \in Values, AddName(name, v)
  PROVE  IInv'
<1>. USE DEF AddName, Grow, IInv
<1>1. size \in Entries(NewCapacity) /\ size \notin Entries(size)
  BY NewCapacityType DEF Entries, TypeOK
<1>2. /\ names' \in [Entries(NewCapacity) -> Names \cup {Garbage}]
      /\ values' \in [Entries(NewCapacity) -> Values \cup {Garbage}]
  BY ResizedArrays
<1>3. \A k \in Entries(size) : names'[k] = names[k] /\ values'[k] = values[k]
  BY <1>1, ResizedArrays
<1>4. names'[size] = name /\ values'[size] = v
  BY <1>1, ResizedArrays
<1>5. Entries(size') = Entries(size) \cup {size}
  BY DEF Entries, TypeOK
<1>6. \A k \in Entries(size) : names[k] # name
  BY DEF Slots
<1>7. TypeOK'
  <2>1. size' \in 0 .. capacity'
    BY NewCapacityType DEF TypeOK
  <2>. QED  BY <1>2, <1>3, <1>4, <1>5, <2>1, NewCapacityType DEF TypeOK
<1>8. NamesAreUnique'
  BY <1>3, <1>4, <1>5, <1>6 DEF NamesAreUnique
<1>. QED  BY <1>7, <1>8

LEMMA QueryStep ==
  ASSUME IInv, NEW name \in Names, lookup_get(name) \/ lookup_has(name)
  PROVE  IInv'
<1>1. Slots(name) # {} => values[First(name)] \in Values
  BY SlotFound DEF IInv, TypeOK
<1>2. value' \in Values /\ found' \in BOOLEAN
  BY <1>1, ZeroAssumption DEF lookup_get, lookup_has, IInv, TypeOK
<1>. QED  BY <1>2 DEF lookup_get, lookup_has, IInv, TypeOK, NamesAreUnique

LEMMA RenewStep == IInv /\ Renew => IInv'
BY DEF Renew, IInv, TypeOK, NamesAreUnique, Entries, Fresh, Initial

LEMMA NextInvariant == IInv /\ [Next]_vars => IInv'
<1>. SUFFICES ASSUME IInv, [Next]_vars PROVE IInv'
  OBVIOUS
<1>1. CASE \E name \in Names, v \in Values : lookup_add(name, v)
  BY <1>1, SetValueStep, AddNameStep DEF lookup_add
<1>2. CASE \E name \in Names : lookup_get(name) \/ lookup_has(name)
  BY <1>2, QueryStep
<1>3. CASE Renew
  BY <1>3, RenewStep
<1>4. CASE ReallocFailure \/ Rest \/ UNCHANGED vars
  BY <1>4 DEF ReallocFailure, Rest, vars, IInv, TypeOK, NamesAreUnique
<1>. QED  BY <1>1, <1>2, <1>3, <1>4 DEF Next

\* The invariant of the arrays: TypeOK alone is not inductive, as SetValue needs the
\* entry it finds to be the only one of its name.
THEOREM Invariant == Spec => []IInv
<1>. QED  BY InitInvariant, NextInvariant, PTL DEF Spec

\* Neither array is ever written or read outside its allocation, and what is read
\* was written before.
THEOREM ArraysStayInStep == Spec => []TypeOK
<1>1. IInv => TypeOK
  BY DEF IInv
<1>. QED  BY <1>1, Invariant, PTL

\* No sequence of additions and doublings gives a name two entries.
THEOREM NamesStayUnique == Spec => []NamesAreUnique
<1>1. IInv => NamesAreUnique
  BY DEF IInv
<1>. QED  BY <1>1, Invariant, PTL

-----------------------------------------------------------------------------
(* The arrays implement the function *)

LEMMA InitMaps == Init => Map!Init
<1>. SUFFICES ASSUME Init PROVE Map!Init
  OBVIOUS
<1>1. Entries(size) = {}
  BY DEF Init, Entries
<1>2. DOMAIN Table = {}
  BY <1>1, InitInvariant, TableFacts
<1>3. Table = Map!Empty
  BY <1>2, InitInvariant, TableFacts DEF Map!Empty
<1>. QED  BY <1>3 DEF Init, Map!Init

LEMMA TableFactsPrimed ==
  IInv' => /\ Table' = [n \in DOMAIN Table' |-> Table'[n]]
           /\ DOMAIN Table' = {names'[k] : k \in Entries(size')}
           /\ \A k \in Entries(size') : Table'[names'[k]] = values'[k]
BY EntriesFoundNext DEF EntriesAreTable

LEMMA SetValueMaps ==
  ASSUME IInv, NEW name \in Names, NEW v \in Values, SetValue(name, v)
  PROVE  Map!Bind(name, v)
<1>. DEFINE Bound == [n \in DOMAIN Table \cup {name} |-> IF n = name THEN v ELSE Table[n]]
<1>1. First(name) \in Entries(size) /\ names[First(name)] = name
  BY SlotFound DEF SetValue
<1>2. \A k \in Entries(size) : /\ names'[k] = names[k]
                               /\ values'[k] = IF k = First(name) THEN v ELSE values[k]
  BY <1>1, ResizedArrays DEF SetValue, Grow, IInv
<1>3. Entries(size') = Entries(size)
  BY DEF SetValue
<1>4. IInv'
  BY SetValueStep
<1>5. DOMAIN Table' = DOMAIN Table \cup {name}
  BY <1>1, <1>2, <1>3, <1>4, TableFacts, TableFactsPrimed
<1>6. ASSUME NEW k \in Entries(size) PROVE Table'[names[k]] = Bound[names[k]]
  <2>1. k = First(name) <=> names[k] = name
    BY <1>1 DEF IInv, NamesAreUnique
  <2>. QED  BY <2>1, <1>2, <1>3, <1>4, TableFacts, TableFactsPrimed
<1>7. DOMAIN Table' = {names[k] : k \in Entries(size)}
  BY <1>2, <1>3, <1>4, TableFactsPrimed
<1>8. Table' = Bound
  <2>. HIDE DEF Bound
  <2>1. Bound = [n \in DOMAIN Bound |-> Bound[n]] /\ DOMAIN Bound = DOMAIN Table'
    BY <1>5 DEF Bound
  <2>. QED  BY <2>1, <1>4, <1>6, <1>7, TableFactsPrimed
<1>. QED  BY <1>8 DEF Map!Bind, SetValue, Grow

LEMMA AddNameMaps ==
  ASSUME IInv, NEW name \in Names, NEW v \in Values, AddName(name, v)
  PROVE  Map!Bind(name, v)
<1>. DEFINE Bound == [n \in DOMAIN Table \cup {name} |-> IF n = name THEN v ELSE Table[n]]
<1>1. size \in Entries(NewCapacity) /\ size \notin Entries(size)
  BY NewCapacityType DEF Entries, IInv, TypeOK
<1>2. \A k \in Entries(size) : names'[k] = names[k] /\ values'[k] = values[k]
  BY <1>1, ResizedArrays DEF AddName, Grow, IInv
<1>3. names'[size] = name /\ values'[size] = v
  BY <1>1, ResizedArrays DEF AddName, Grow, IInv
<1>4. Entries(size') = Entries(size) \cup {size}
  BY DEF AddName, Entries, IInv, TypeOK
<1>5. IInv'
  BY AddNameStep
<1>6. name \notin DOMAIN Table
  BY TableDomain DEF AddName
<1>7. DOMAIN Table' = DOMAIN Table \cup {name}
  BY <1>2, <1>3, <1>4, <1>5, TableFacts, TableFactsPrimed
<1>8. ASSUME NEW n \in DOMAIN Table' PROVE Table'[n] = Bound[n]
  <2>1. CASE n = name
    BY <2>1, <1>3, <1>4, <1>5, TableFactsPrimed
  <2>2. CASE n \in DOMAIN Table
    <3>1. PICK k \in Entries(size) : n = names[k]
      BY <2>2, TableFacts
    <3>. QED  BY <3>1, <1>2, <1>4, <1>5, <1>6, <2>2, TableFacts, TableFactsPrimed
  <2>. QED  BY <2>1, <2>2, <1>7
<1>9. Table' = Bound
  <2>. HIDE DEF Bound
  <2>1. Bound = [n \in DOMAIN Bound |-> Bound[n]] /\ DOMAIN Bound = DOMAIN Table'
    BY <1>7 DEF Bound
  <2>. QED  BY <2>1, <1>5, <1>8, TableFactsPrimed
<1>. QED  BY <1>9 DEF Map!Bind, AddName, Grow

LEMMA SameTable ==
  ASSUME UNCHANGED <<size, names, values>>
  PROVE  Table' = Table
BY DEF Table, First, Slots

LEMMA QueryMaps ==
  ASSUME IInv, NEW name \in Names
  PROVE  /\ lookup_get(name) => Map!Get(name)
         /\ lookup_has(name) => Map!Has(name)
<1>1. Slots(name) # {} => Table[name] = values[First(name)]
  BY SlotFound, TableFacts
<1>2. lookup_get(name) => Map!Get(name)
  BY <1>1, SameTable, TableDomain DEF lookup_get, Map!Get
<1>3. lookup_has(name) => Map!Has(name)
  BY SameTable, TableDomain DEF lookup_has, Map!Has
<1>. QED  BY <1>2, <1>3

LEMMA RenewMaps == IInv /\ Renew => Map!Clear
<1>. SUFFICES ASSUME IInv, Renew PROVE Map!Clear
  OBVIOUS
<1>1. IInv' /\ Entries(size') = {}
  BY RenewStep DEF Renew, Entries
<1>. QED  BY <1>1, TableFactsPrimed, ZenonT(60) DEF Renew, Map!Clear, Map!Empty

LEMMA NextMaps == IInv /\ [Next]_vars => [Map!Next]_(Map!mapVars)
<1>. SUFFICES ASSUME IInv, [Next]_vars PROVE [Map!Next]_(Map!mapVars)
  OBVIOUS
<1>1. ASSUME NEW name \in Names, NEW v \in Values, lookup_add(name, v)
      PROVE  Map!Next
  BY <1>1, SetValueMaps, AddNameMaps DEF lookup_add, Map!Next
<1>2. ASSUME NEW name \in Names, lookup_get(name) \/ lookup_has(name)
      PROVE  Map!Next
  BY <1>2, QueryMaps DEF Map!Next
<1>3. CASE Renew
  BY <1>3, RenewMaps DEF Map!Next
<1>4. CASE ReallocFailure \/ Rest \/ UNCHANGED vars
  BY <1>4, SameTable DEF ReallocFailure, Rest, vars, Map!mapVars
<1>. QED  BY <1>1, <1>2, <1>3, <1>4 DEF Next

\* The arrays behave as a function from names to values: what VirtualMachine takes
\* the variables of a scope to be.
THEOREM LookupImplementsMap == Spec => ImplementsMap
<1>. QED  BY InitMaps, NextMaps, Invariant, PTL DEF Spec, ImplementsMap, Map!Spec
=============================================================================
