------------------------- MODULE ObjectFile_proofs -------------------------
(***************************************************************************)
(* Proofs about ObjectFile: whatever is compiled, on whatever machine, is  *)
(* written in one layout, and the disassembler finds it there again.       *)
(***************************************************************************)
EXTENDS ObjectFile, FiniteSetTheorems, WellFoundedInduction, TLAPS

-----------------------------------------------------------------------------
(* Numbers and sequences *)

LEMMA Least ==
  ASSUME NEW P \in SUBSET Nat, NEW p \in P
  PROVE  \E q \in P : \A r \in P : q <= r
<1>. DEFINE R == OpToRel(<, Nat)
<1>1. IsWellFoundedOn(R, Nat)
  BY NatLessThanWellFounded
<1>2. PICK q \in P : \A y \in Nat : <<y, q>> \in R => y \notin P
  <2>. HIDE DEF R
  <2>. QED  BY <1>1, WFMin
<1>3. \A r \in P : ~(r < q)
  BY <1>2 DEF OpToRel
<1>. QED  BY <1>3

LEMMA Induction ==
  ASSUME NEW P, 0 \in P, \A n \in Nat : n \in P => n + 1 \in P
  PROVE  Nat \subseteq P
<1>1. SUFFICES ASSUME NEW m \in Nat, m \notin P PROVE FALSE
  OBVIOUS
<1>2. PICK q \in Nat \ P : \A r \in Nat \ P : q <= r
  BY <1>1, Least
<1>3. q # 0 /\ q - 1 \in Nat /\ q - 1 \in P
  BY <1>2
<1>. QED  BY <1>2, <1>3

LEMMA Appended ==
  ASSUME NEW S, NEW s \in Seq(S), NEW t \in Seq(S)
  PROVE  /\ s \o t \in Seq(S)
         /\ Len(s \o t) = Len(s) + Len(t)
         /\ \A j \in 1 .. Len(s) : (s \o t)[j] = s[j]
         /\ \A j \in 1 .. Len(t) : (s \o t)[Len(s) + j] = t[j]
OBVIOUS

LEMMA Joins ==
  ASSUME NEW S, NEW s \in Seq(S), NEW t \in Seq(S)
  PROVE  \E c \in Seq(S) : c = s \o t /\ Len(c) = Len(s) + Len(t)
BY Appended

LEMMA OneMore ==
  ASSUME NEW S, NEW s \in Seq(S), NEW e \in S
  PROVE  /\ Append(s, e) \in Seq(S) /\ Len(Append(s, e)) = Len(s) + 1
         /\ \A k \in 1 .. Len(s) : Append(s, e)[k] = s[k]
         /\ Append(s, e)[Len(s) + 1] = e
OBVIOUS

LEMMA Replaced ==
  ASSUME NEW S, NEW s \in Seq(S), NEW i \in 1 .. Len(s), NEW e \in S
  PROVE  /\ [s EXCEPT ![i] = e] \in Seq(S) /\ Len([s EXCEPT ![i] = e]) = Len(s)
         /\ [s EXCEPT ![i] = e][i] = e
         /\ \A k \in 1 .. Len(s) : k # i => [s EXCEPT ![i] = e][k] = s[k]
OBVIOUS

\* The sequence t lies in s from position p on.
Lies(s, p, t) == \A j \in 1 .. Len(t) : s[p + j] = t[j]

LEMMA LiesAppended ==
  ASSUME NEW S, NEW a \in Seq(S), NEW b \in Seq(S), NEW s, NEW p \in Nat
  PROVE  Lies(s, p, a \o b) <=> Lies(s, p, a) /\ Lies(s, p + Len(a), b)
<1>1. PICK c \in Seq(S) : c = a \o b
  BY Appended
<1>2. /\ Len(a) \in Nat /\ Len(b) \in Nat /\ Len(c) = Len(a) + Len(b)
      /\ \A j \in 1 .. Len(a) : c[j] = a[j]
      /\ \A j \in 1 .. Len(b) : c[Len(a) + j] = b[j]
  BY <1>1, Appended
<1>3. ASSUME Lies(s, p, a), Lies(s, p + Len(a), b), NEW j \in 1 .. Len(c)
      PROVE  s[p + j] = c[j]
  <2>1. CASE j <= Len(a)
    <3>1. j \in 1 .. Len(a)
      BY <1>2, <2>1
    <3>. QED  BY <1>2, <1>3, <3>1 DEF Lies
  <2>2. CASE j > Len(a)
    <3>1. j - Len(a) \in 1 .. Len(b) /\ Len(a) + (j - Len(a)) = j /\ p + Len(a) + (j - Len(a)) = p + j
      BY <1>2, <2>2
    <3>2. s[p + Len(a) + (j - Len(a))] = b[j - Len(a)] /\ c[Len(a) + (j - Len(a))] = b[j - Len(a)]
      BY <1>2, <1>3, <3>1 DEF Lies
    <3>. QED  BY <3>1, <3>2
  <2>. QED  BY <1>2, <2>1, <2>2
<1>4. ASSUME Lies(s, p, c), NEW j \in 1 .. Len(a) PROVE s[p + j] = a[j]
  <2>1. j \in 1 .. Len(c)
    BY <1>2
  <2>. QED  BY <1>2, <1>4, <2>1 DEF Lies
<1>5. ASSUME Lies(s, p, c), NEW j \in 1 .. Len(b) PROVE s[p + Len(a) + j] = b[j]
  <2>1. Len(a) + j \in 1 .. Len(c) /\ p + (Len(a) + j) = p + Len(a) + j
    BY <1>2
  <2>2. s[p + (Len(a) + j)] = c[Len(a) + j]
    BY <1>5, <2>1 DEF Lies
  <2>. QED  BY <1>2, <2>1, <2>2
<1>6. Lies(s, p, c) <=> Lies(s, p, a) /\ Lies(s, p + Len(a), b)
  BY <1>3, <1>4, <1>5, Zenon DEF Lies
<1>. QED  BY <1>1, <1>6

LEMMA FlattenIs ==
  ASSUME NEW s, Len(s) \in Nat, Len(s) # 0, NEW f,
         f = [i \in 1 .. Len(s) |-> IF i = 1 THEN s[i] ELSE f[i - 1] \o s[i]]
  PROVE  FlattenSeq(s) = f[Len(s)]
<1>. DEFINE Solves(g) == g = [i \in 1 .. Len(s) |-> IF i = 1 THEN s[i] ELSE g[i - 1] \o s[i]]
            h == CHOOSE g : Solves(g)
<1>1. FlattenSeq(s) = h[Len(s)]
  BY DEF FlattenSeq
<1>2. Solves(f)
  OBVIOUS
<1>3. Solves(h)
  <2>. HIDE DEF Solves
  <2>. QED  BY <1>2
<1>4. ASSUME NEW g, Solves(g), NEW i \in 1 .. Len(s)
      PROVE  g[i] = IF i = 1 THEN s[i] ELSE g[i - 1] \o s[i]
  BY <1>4, Zenon
<1>. DEFINE P == {n \in Nat : \A i \in 1 .. Len(s) : i = n + 1 => h[i] = f[i]}
<1>. HIDE DEF h, Solves
<1>5. 0 \in P
  <2>1. ASSUME NEW i \in 1 .. Len(s), i = 0 + 1 PROVE h[i] = f[i]
    <3>1. i = 1
      BY <2>1
    <3>. QED  BY <1>2, <1>3, <1>4, <3>1, Zenon
  <2>. QED  BY <2>1
<1>6. ASSUME NEW n \in Nat, n \in P PROVE n + 1 \in P
  <2>1. ASSUME NEW i \in 1 .. Len(s), i = (n + 1) + 1 PROVE h[i] = f[i]
    <3>1. i # 1 /\ i - 1 \in 1 .. Len(s) /\ i - 1 = n + 1
      BY <2>1
    <3>2. h[i - 1] = f[i - 1]
      BY <1>6, <3>1
    <3>3. h[i] = h[i - 1] \o s[i]
      BY <1>3, <1>4, <3>1, Zenon
    <3>4. f[i] = f[i - 1] \o s[i]
      BY <1>2, <1>4, <3>1, Zenon
    <3>. QED  BY <3>2, <3>3, <3>4, Zenon
  <2>. QED  BY <2>1
<1>7. Len(s) - 1 \in P
  <2>. HIDE DEF P
  <2>. QED  BY <1>5, <1>6, Induction
<1>8. Len(s) \in 1 .. Len(s) /\ Len(s) = (Len(s) - 1) + 1
  OBVIOUS
<1>9. h[Len(s)] = f[Len(s)]
  BY <1>7, <1>8
<1>. QED  BY <1>1, <1>9, Zenon

LEMMA FlattenBy ==
  ASSUME NEW s, Len(s) \in Nat, Len(s) # 0, NEW F, F[1] = s[1],
         \A m \in 1 .. Len(s) - 1 : F[m + 1] = F[m] \o s[m + 1]
  PROVE  FlattenSeq(s) = F[Len(s)]
<1>. DEFINE f == [i \in 1 .. Len(s) |-> F[i]]
<1>1. ASSUME NEW i \in 1 .. Len(s)
      PROVE  F[i] = IF i = 1 THEN s[i] ELSE f[i - 1] \o s[i]
  <2>1. CASE i = 1
    BY <2>1
  <2>2. CASE i # 1
    <3>1. i - 1 \in 1 .. Len(s) - 1 /\ i - 1 \in 1 .. Len(s) /\ (i - 1) + 1 = i
      BY <2>2
    <3>2. F[(i - 1) + 1] = F[i - 1] \o s[(i - 1) + 1]
      BY <3>1, Zenon
    <3>. QED  BY <2>2, <3>1, <3>2, Zenon
  <2>. QED  BY <2>1, <2>2
<1>2. f = [i \in 1 .. Len(s) |-> IF i = 1 THEN s[i] ELSE f[i - 1] \o s[i]]
  BY <1>1, Zenon
<1>3. f[Len(s)] = F[Len(s)]
  <2>1. Len(s) \in 1 .. Len(s)
    OBVIOUS
  <2>. QED  BY <2>1
<1>. HIDE DEF f
<1>4. FlattenSeq(s) = f[Len(s)]
  BY <1>2, FlattenIs
<1>. QED  BY <1>3, <1>4

LEMMA SameSequence ==
  ASSUME NEW S, NEW s \in Seq(S), NEW t \in Seq(S), Len(s) = Len(t),
         \A j \in 1 .. Len(s) : s[j] = t[j]
  PROVE  s = t
OBVIOUS

LEMMA CutOff ==
  ASSUME NEW S, NEW c \in Seq(S), NEW x \in Seq(S), NEW a \in Nat, NEW b \in Nat,
         b = a + Len(x), b <= Len(c), Lies(c, a, x)
  PROVE  SubSeq(c, 1, b) = SubSeq(c, 1, a) \o x
<1>1. PICK s \in Seq(S) : /\ s = SubSeq(c, 1, a) /\ Len(s) = a
                          /\ \A j \in 1 .. a : s[j] = c[j]
  <2>1. a <= Len(c) /\ Len(c) \in Nat
    OBVIOUS
  <2>2. SubSeq(c, 1, a) \in Seq(S) /\ Len(SubSeq(c, 1, a)) = a
    BY <2>1
  <2>3. \A j \in 1 .. a : SubSeq(c, 1, a)[j] = c[j]
    BY <2>1
  <2>. QED  BY <2>2, <2>3
<1>2. PICK t \in Seq(S) : /\ t = SubSeq(c, 1, b) /\ Len(t) = b
                          /\ \A j \in 1 .. b : t[j] = c[j]
  <2>1. SubSeq(c, 1, b) \in Seq(S) /\ Len(SubSeq(c, 1, b)) = b
    OBVIOUS
  <2>2. \A j \in 1 .. b : SubSeq(c, 1, b)[j] = c[j]
    OBVIOUS
  <2>. QED  BY <2>1, <2>2
<1>3. PICK r \in Seq(S) : /\ r = s \o x /\ Len(r) = b
                          /\ \A j \in 1 .. a : r[j] = s[j]
                          /\ \A j \in 1 .. Len(x) : r[a + j] = x[j]
  <2>1. PICK r : r = s \o x
    OBVIOUS
  <2>2. /\ r \in Seq(S) /\ Len(r) = Len(s) + Len(x)
        /\ \A j \in 1 .. Len(s) : r[j] = s[j]
        /\ \A j \in 1 .. Len(x) : r[Len(s) + j] = x[j]
    BY <2>1, Appended
  <2>3. /\ Len(r) = b /\ \A j \in 1 .. a : r[j] = s[j]
        /\ \A j \in 1 .. Len(x) : r[a + j] = x[j]
    BY <1>1, <2>2
  <2>. QED  BY <2>1, <2>2, <2>3
<1>4. ASSUME NEW j \in 1 .. b PROVE t[j] = r[j]
  <2>1. CASE j <= a
    <3>1. j \in 1 .. a
      BY <2>1
    <3>. QED  BY <1>1, <1>2, <1>3, <3>1
  <2>2. CASE j > a
    <3>1. j - a \in 1 .. Len(x) /\ a + (j - a) = j
      BY <2>2
    <3>2. r[a + (j - a)] = x[j - a] /\ c[a + (j - a)] = x[j - a]
      BY <1>3, <3>1 DEF Lies
    <3>. QED  BY <1>2, <3>1, <3>2
  <2>. QED  BY <2>1, <2>2
<1>5. t = r
  BY <1>2, <1>3, <1>4, SameSequence
<1>. QED  BY <1>1, <1>2, <1>3, <1>5

\* A function that FlattenSeq computes from exists for any sequence.
Partial(s, m, f) == f = [i \in 1 .. m |-> IF i = 1 THEN s[i] ELSE f[i - 1] \o s[i]]

LEMMA PartialOne ==
  ASSUME NEW s, NEW f, f = [i \in 1 .. 1 |-> s[i]]
  PROVE  Partial(s, 1, f) /\ f[1] = s[1]
<1>1. [i \in 1 .. 1 |-> s[i]] = [i \in 1 .. 1 |-> IF i = 1 THEN s[i] ELSE f[i - 1] \o s[i]]
  <2>1. ASSUME NEW i \in 1 .. 1 PROVE i = 1
    OBVIOUS
  <2>2. ASSUME NEW i \in 1 .. 1 PROVE s[i] = IF i = 1 THEN s[i] ELSE f[i - 1] \o s[i]
    BY <2>1, Zenon
  <2>. QED  BY <2>2, Zenon
<1>. QED  BY <1>1 DEF Partial

LEMMA PartialMore ==
  ASSUME NEW s, NEW m \in Nat \ {0}, NEW f, Partial(s, m, f)
  PROVE  \E g : Partial(s, m + 1, g) /\ g[m + 1] = f[m] \o s[m + 1]
<1>. DEFINE g == [i \in 1 .. m + 1 |-> IF i <= m THEN f[i] ELSE f[m] \o s[m + 1]]
<1>1. /\ \A i \in 1 .. m + 1 : i <= m => g[i] = f[i] 
      /\ g[m + 1] = f[m] \o s[m + 1]
  <2>1. m + 1 \in 1 .. m + 1 /\ ~(m + 1 <= m)
    OBVIOUS
  <2>. QED  BY <2>1, Zenon
<1>2. ASSUME NEW i \in 1 .. m + 1
      PROVE  (IF i <= m THEN f[i] ELSE f[m] \o s[m + 1]) = IF i = 1 THEN s[i] ELSE g[i - 1] \o s[i]
  <2>1. ASSUME NEW l \in 1 .. m PROVE f[l] = IF l = 1 THEN s[l] ELSE f[l - 1] \o s[l]
    BY <2>1, Zenon DEF Partial
  <2>2. CASE i = 1
    <3>1. i \in 1 .. m /\ i <= m
      BY <2>2
    <3>. QED  BY <2>1, <2>2, <3>1, Zenon
  <2>3. CASE i # 1 /\ i <= m
    <3>1. i \in 1 .. m /\ i - 1 \in 1 .. m + 1 /\ i - 1 <= m
      BY <2>3
    <3>2. f[i] = f[i - 1] \o s[i]
      BY <2>1, <2>3, <3>1, Zenon
    <3>3. g[i - 1] = f[i - 1]
      BY <1>1, <3>1, Zenon
    <3>. QED  BY <2>3, <3>2, <3>3, Zenon
  <2>4. CASE ~(i <= m)
    <3>1. i = m + 1 /\ i # 1 /\ i - 1 = m /\ m \in 1 .. m + 1 /\ m <= m
      BY <2>4
    <3>2. g[m] = f[m]
      BY <1>1, <3>1, Zenon
    <3>. QED  BY <2>4, <3>1, <3>2, Zenon
  <2>. QED  BY <2>2, <2>3, <2>4
<1>3. Partial(s, m + 1, g)
  BY <1>2, Zenon DEF Partial
<1>. HIDE DEF g
<1>. QED  BY <1>1, <1>3, Zenon

-----------------------------------------------------------------------------
(* Texts that lie one after the other *)

\* The first m texts lie in s from position p on, each with its zero, and e tells how far
\* each reaches.
Spells(s, p, texts, m, e) ==
  /\ e \in [0 .. m -> Nat] /\ e[0] = 0
  /\ \A k \in 1 .. m :
       /\ e[k] = e[k - 1] + Len(texts[k]) + 1
       /\ \A j \in 1 .. Len(texts[k]) : s[p + e[k - 1] + j] = texts[k][j]
       /\ s[p + e[k]] = 0

LEMMA TextIs ==
  ASSUME NEW t \in Seq(Characters)
  PROVE  /\ Text(t) \in Seq(Bytes)
         /\ Len(Text(t)) = Len(t) + 1
         /\ \A j \in 1 .. Len(t) : Text(t)[j] = t[j]
         /\ Text(t)[Len(t) + 1] = 0
BY DEF Text, Characters, Bytes

LEMMA EndsGrow ==
  ASSUME NEW s, NEW p \in Nat, NEW texts \in Seq(Seq(Characters)), NEW m \in 0 .. Len(texts), NEW e,
         Spells(s, p, texts, m, e)
  PROVE  \A i, k \in 0 .. m : i <= k => e[i] <= e[k]
<1>. DEFINE P == {n \in Nat : \A i, k \in 0 .. m : k = i + n => e[i] <= e[k]}
<1>1. 0 \in P
  BY DEF Spells
<1>2. ASSUME NEW n \in Nat, n \in P PROVE n + 1 \in P
  <2>1. ASSUME NEW i \in 0 .. m, NEW k \in 0 .. m, k = i + (n + 1) PROVE e[i] <= e[k]
    <3>1. k \in 1 .. m /\ k - 1 \in 0 .. m /\ k - 1 = i + n
      BY <2>1
    <3>2. e[i] <= e[k - 1]
      BY <1>2, <3>1
    <3>3. Len(texts[k]) \in Nat
      BY <3>1
    <3>4. e[k] = e[k - 1] + Len(texts[k]) + 1 /\ e[k] \in Nat /\ e[k - 1] \in Nat /\ e[i] \in Nat
      BY <3>1 DEF Spells
    <3>. QED  BY <3>2, <3>3, <3>4
  <2>. QED  BY <2>1
<1>3. Nat \subseteq P
  BY <1>1, <1>2, Induction
<1>4. ASSUME NEW i \in 0 .. m, NEW k \in 0 .. m, i <= k PROVE e[i] <= e[k]
  <2>1. k - i \in Nat /\ k = i + (k - i)
    BY <1>4
  <2>2. k - i \in P
    BY <1>3, <2>1
  <2>. QED  BY <2>1, <2>2
<1>. QED  BY <1>4

LEMMA SpellsMore ==
  ASSUME NEW s \in Seq(Bytes), NEW texts \in Seq(Seq(Characters)), NEW m \in Nat, m + 1 <= Len(texts),
         NEW e, Spells(s, 0, texts, m, e), e[m] = Len(s)
  PROVE  \E g : /\ Spells(s \o Text(texts[m + 1]), 0, texts, m + 1, g)
                /\ g[m + 1] = Len(s \o Text(texts[m + 1]))
<1>. DEFINE t == texts[m + 1]
            u == Text(t)
            r == s \o u
            g == [k \in 0 .. m + 1 |-> IF k = m + 1 THEN Len(s) + Len(t) + 1 ELSE e[k]]
<1>0. t \in Seq(Characters) /\ Len(t) \in Nat /\ Len(s) \in Nat
  OBVIOUS
<1>. HIDE DEF t
<1>1. /\ u \in Seq(Bytes) /\ Len(u) = Len(t) + 1 /\ u[Len(t) + 1] = 0
      /\ \A j \in 1 .. Len(t) : u[j] = t[j]
  BY <1>0, TextIs DEF u
<1>. HIDE DEF u
<1>2. /\ r \in Seq(Bytes) /\ Len(r) = Len(s) + Len(t) + 1
      /\ \A j \in 1 .. Len(s) : r[j] = s[j]
      /\ \A j \in 1 .. Len(u) : r[Len(s) + j] = u[j]
  <2>0. u \in Seq(Bytes)
    BY <1>1
  <2>1. /\ r \in Seq(Bytes) /\ Len(r) = Len(s) + Len(u)
        /\ \A j \in 1 .. Len(s) : r[j] = s[j]
        /\ \A j \in 1 .. Len(u) : r[Len(s) + j] = u[j]
    BY <2>0, Appended
  <2>. HIDE DEF r
  <2>. QED  BY <1>0, <1>1, <2>1
<1>. HIDE DEF r
<1>3. /\ g \in [0 .. m + 1 -> Nat] /\ g[0] = 0 /\ g[m + 1] = Len(s) + Len(t) + 1
      /\ \A k \in 0 .. m : g[k] = e[k] /\ e[k] \in Nat
  BY <1>0 DEF Spells
<1>. HIDE DEF g
<1>4. ASSUME NEW k \in 1 .. m
      PROVE  /\ g[k] = g[k - 1] + Len(texts[k]) + 1
             /\ \A j \in 1 .. Len(texts[k]) : r[0 + g[k - 1] + j] = texts[k][j]
             /\ r[0 + g[k]] = 0
  <2>1. k - 1 \in 0 .. m /\ k \in 0 .. m /\ k <= Len(texts) /\ m \in 0 .. m /\ m \in 0 .. Len(texts)
    OBVIOUS
  <2>2. g[k] = e[k] /\ g[k - 1] = e[k - 1] /\ e[k] \in Nat /\ e[k - 1] \in Nat
    BY <1>3, <2>1
  <2>3. e[k] <= Len(s)
    <3>1. \A i, l \in 0 .. m : i <= l => e[i] <= e[l]
      BY <2>1, EndsGrow, Zenon
    <3>. QED  BY <2>1, <3>1
  <2>4. Len(texts[k]) \in Nat
    BY <2>1
  <2>5. /\ e[k] = e[k - 1] + Len(texts[k]) + 1
        /\ \A j \in 1 .. Len(texts[k]) : s[0 + e[k - 1] + j] = texts[k][j]
        /\ s[0 + e[k]] = 0
    BY DEF Spells
  <2>6. ASSUME NEW j \in 1 .. Len(texts[k]) PROVE r[0 + e[k - 1] + j] = texts[k][j]
    <3>1. \A a, b, c, l \in Nat :
             a = b + c + 1 /\ a <= l => \A i \in 1 .. c : 0 + b + i \in 1 .. l
      OBVIOUS
    <3>2. 0 + e[k - 1] + j \in 1 .. Len(s)
      BY <1>0, <2>2, <2>3, <2>4, <2>5, <3>1, Zenon
    <3>. QED  BY <1>2, <2>5, <3>2
  <2>7. 0 + e[k] \in 1 .. Len(s)
    BY <2>2, <2>3, <2>4, <2>5, SMTT(40)
  <2>8. r[0 + e[k]] = 0
    BY <1>2, <2>5, <2>7
  <2>. QED  BY <2>2, <2>5, <2>6, <2>8
<1>5. /\ g[m + 1] = g[m] + Len(t) + 1
      /\ \A j \in 1 .. Len(t) : r[0 + g[m] + j] = t[j]
      /\ r[0 + g[m + 1]] = 0
  <2>1. g[m] = Len(s)
    BY <1>3
  <2>2. ASSUME NEW j \in 1 .. Len(t) PROVE r[0 + g[m] + j] = t[j]
    <3>1. j \in 1 .. Len(u) /\ 0 + g[m] + j = Len(s) + j
      BY <1>0, <1>1, <2>1
    <3>. QED  BY <1>1, <1>2, <3>1
  <2>3. Len(t) + 1 \in 1 .. Len(u) /\ 0 + g[m + 1] = Len(s) + (Len(t) + 1)
    BY <1>0, <1>1, <1>3
  <2>4. r[0 + g[m + 1]] = 0
    BY <1>1, <1>2, <2>3
  <2>. QED  BY <1>0, <1>3, <2>1, <2>2, <2>4
<1>6. ASSUME NEW k \in 1 .. m + 1
      PROVE  /\ g[k] = g[k - 1] + Len(texts[k]) + 1
             /\ \A j \in 1 .. Len(texts[k]) : r[0 + g[k - 1] + j] = texts[k][j]
             /\ r[0 + g[k]] = 0
  <2>1. CASE k = m + 1
    <3>1. k - 1 = m /\ texts[k] = t
      BY <2>1 DEF t
    <3>. QED  BY <1>5, <2>1, <3>1, Zenon
  <2>2. CASE k # m + 1
    BY <1>4, <2>2
  <2>. QED  BY <2>1, <2>2
<1>7. Spells(r, 0, texts, m + 1, g)
  BY <1>3, <1>6, Zenon DEF Spells
<1>. QED  BY <1>2, <1>3, <1>7 DEF r, t, u

LEMMA JoinedIs ==
  ASSUME NEW texts \in Seq(Seq(Characters))
  PROVE  /\ Joined(texts) \in Seq(Bytes)
         /\ \E e : /\ Spells(Joined(texts), 0, texts, Len(texts), e)
                   /\ e[Len(texts)] = Len(Joined(texts))
<1>. DEFINE tx == [k \in 1 .. Len(texts) |-> Text(texts[k])]
            Spelled(s, m) == /\ s \in Seq(Bytes)
                             /\ \E e : Spells(s, 0, texts, m, e) /\ e[m] = Len(s)
<1>1. Joined(texts) = FlattenSeq(tx)
  BY DEF Joined
<1>2. Len(texts) \in Nat /\ Len(tx) = Len(texts) /\ \A k \in 1 .. Len(texts) : tx[k] = Text(texts[k])
  OBVIOUS
<1>3. CASE Len(texts) = 0
  <2>1. tx = <<>>
    BY <1>2, <1>3
  <2>2. FlattenSeq(tx) = <<>>
    BY <1>2, <1>3, <2>1 DEF FlattenSeq
  <2>3. <<>> \in Seq(Bytes) /\ Len(<<>>) = 0
    OBVIOUS
  <2>4. Spells(<<>>, 0, texts, 0, [k \in 0 .. 0 |-> 0]) /\ [k \in 0 .. 0 |-> 0][0] = 0
    BY DEF Spells
  <2>. QED  BY <1>1, <1>3, <2>2, <2>3, <2>4
<1>4. CASE Len(texts) # 0
  <2>. HIDE DEF tx
  <2>1. \A k \in 1 .. Len(texts) : texts[k] \in Seq(Characters) /\ Text(texts[k]) \in Seq(Bytes)
    BY TextIs
  <2>2. ASSUME NEW s \in Seq(Bytes), NEW m \in Nat, m + 1 <= Len(texts), Spelled(s, m)
        PROVE  Spelled(s \o tx[m + 1], m + 1)
    <3>1. PICK e : Spells(s, 0, texts, m, e) /\ e[m] = Len(s)
      BY <2>2
    <3>2. m + 1 \in 1 .. Len(texts)
      BY <1>2, <2>2
    <3>3. \E g : /\ Spells(s \o Text(texts[m + 1]), 0, texts, m + 1, g)
                 /\ g[m + 1] = Len(s \o Text(texts[m + 1]))
      BY <2>2, <3>1, SpellsMore, Zenon
    <3>4. s \o Text(texts[m + 1]) \in Seq(Bytes)
      BY <2>1, <3>2, Appended
    <3>. QED  BY <1>2, <3>2, <3>3, <3>4, Zenon
  <2>. DEFINE P == {m \in Nat : m + 1 <= Len(texts) =>
                                  \E f : Partial(tx, m + 1, f) /\ Spelled(f[m + 1], m + 1)}
  <2>3. 0 \in P
    <3>1. 0 + 1 = 1 /\ 1 <= Len(texts) /\ 1 \in 1 .. Len(texts) /\ 0 \in Nat
      BY <1>2, <1>4
    <3>2. Spelled(<<>>, 0)
      <4>1. <<>> \in Seq(Bytes) /\ Len(<<>>) = 0
        OBVIOUS
      <4>2. Spells(<<>>, 0, texts, 0, [k \in 0 .. 0 |-> 0]) /\ [k \in 0 .. 0 |-> 0][0] = 0
        BY DEF Spells
      <4>. QED  BY <4>1, <4>2
    <3>3. Spelled(<<>> \o tx[1], 1)
      <4>1. <<>> \in Seq(Bytes)
        OBVIOUS
      <4>. HIDE DEF Spelled
      <4>. QED  BY <2>2, <3>1, <3>2, <4>1
    <3>4. <<>> \o tx[1] = tx[1]
      <4>1. tx[1] \in Seq(Bytes)
        BY <1>2, <2>1, <3>1
      <4>. QED  BY <4>1
    <3>5. PICK f : f = [i \in 1 .. 1 |-> tx[i]]
      OBVIOUS
    <3>6. Partial(tx, 1, f) /\ f[1] = tx[1]
      BY <3>5, PartialOne
    <3>7. Spelled(f[1], 1)
      <4>. HIDE DEF Spelled
      <4>. QED  BY <3>3, <3>4, <3>6
    <3>. HIDE DEF Spelled
    <3>. QED  BY <3>1, <3>6, <3>7
  <2>4. ASSUME NEW m \in Nat, m \in P PROVE m + 1 \in P
    <3>. HIDE DEF Spelled
    <3>1. PICK k \in Nat \ {0} : k = m + 1
      OBVIOUS
    <3>2. SUFFICES ASSUME k + 1 <= Len(texts)
                   PROVE  \E f : Partial(tx, k + 1, f) /\ Spelled(f[k + 1], k + 1)
      BY <3>1
    <3>3. k \in Nat /\ k <= Len(texts)
      BY <1>2, <3>2
    <3>4. PICK f : Partial(tx, k, f) /\ Spelled(f[k], k)
      BY <2>4, <3>1, <3>3
    <3>6. PICK g : Partial(tx, k + 1, g) /\ g[k + 1] = f[k] \o tx[k + 1]
      BY <3>4, PartialMore, Zenon
    <3>7. f[k] \in Seq(Bytes)
      BY <3>4 DEF Spelled
    <3>8. Spelled(f[k] \o tx[k + 1], k + 1)
      BY <2>2, <3>2, <3>3, <3>4, <3>7, Zenon
    <3>. QED  BY <3>6, <3>8, Zenon
  <2>5. Nat \subseteq P
    <3>. HIDE DEF P
    <3>. QED  BY <2>3, <2>4, Induction
  <2>6. PICK n \in Nat : n + 1 = Len(texts)
    <3>1. Len(texts) - 1 \in Nat /\ (Len(texts) - 1) + 1 = Len(texts)
      BY <1>2, <1>4
    <3>. QED  BY <3>1
  <2>7. PICK f : Partial(tx, Len(texts), f) /\ Spelled(f[Len(texts)], Len(texts))
    <3>. HIDE DEF Spelled
    <3>1. n \in P /\ n + 1 <= Len(texts)
      BY <1>2, <2>5, <2>6
    <3>. QED  BY <2>6, <3>1
  <2>8. FlattenSeq(tx) = f[Len(texts)]
    <3>1. Len(tx) \in Nat /\ Len(tx) # 0
      BY <1>2, <1>4
    <3>2. f = [i \in 1 .. Len(tx) |-> IF i = 1 THEN tx[i] ELSE f[i - 1] \o tx[i]]
      BY <1>2, <2>7, Zenon DEF Partial
    <3>3. FlattenSeq(tx) = f[Len(tx)]
      BY <3>1, <3>2, FlattenIs
    <3>. QED  BY <1>2, <3>3
  <2>. QED  BY <1>1, <2>7, <2>8, Zenon
<1>. QED  BY <1>3, <1>4

-----------------------------------------------------------------------------
(* Where texts end *)

Zeros(s, p, q) == {r \in p .. q - 1 : s[r + 1] = 0}

\* EndAt, in any sequence.
Ends(s, n, p, q) == (q = p \/ s[q] = 0) /\ Cardinality(Zeros(s, p, q)) = n

LEMMA EndAtIs ==
  ASSUME NEW n, NEW p \in Nat, NEW q \in Nat
  PROVE  EndAt(n, p, q) <=> Ends(content, n, p, q)
<1>1. (q - 1) + 1 = q
  OBVIOUS
<1>. QED  BY <1>1 DEF EndAt, Ends, Zeros, ByteAt

LEMMA ZerosFinite ==
  ASSUME NEW s, NEW p \in Nat, NEW q \in Nat
  PROVE  IsFiniteSet(Zeros(s, p, q)) /\ Cardinality(Zeros(s, p, q)) \in Nat
<1>1. IsFiniteSet(p .. q - 1)
  BY FS_Interval
<1>2. Zeros(s, p, q) \subseteq p .. q - 1
  BY DEF Zeros
<1>3. IsFiniteSet(Zeros(s, p, q))
  BY <1>1, <1>2, FS_Subset
<1>. QED  BY <1>3, FS_CardinalityType

LEMMA ZerosGrow ==
  ASSUME NEW s, NEW p \in Nat, NEW q \in Nat, NEW r \in Nat, p <= q, q < r, s[r] = 0
  PROVE  Cardinality(Zeros(s, p, q)) < Cardinality(Zeros(s, p, r))
<1>1. Zeros(s, p, q) \subseteq Zeros(s, p, r) /\ r - 1 \in Zeros(s, p, r) /\ r - 1 \notin Zeros(s, p, q)
  <2>1. r - 1 \in p .. r - 1 /\ (r - 1) + 1 = r /\ r - 1 \notin p .. q - 1
    OBVIOUS
  <2>. QED  BY <2>1 DEF Zeros
<1>2. IsFiniteSet(Zeros(s, p, r))
  BY ZerosFinite
<1>3. Zeros(s, p, q) # Zeros(s, p, r)
  BY <1>1
<1>. QED  BY <1>1, <1>2, <1>3, FS_Subset, ZerosFinite

LEMMA EndsUnique ==
  ASSUME NEW s, NEW n, NEW p \in Nat, NEW q \in Nat, NEW r \in Nat, p <= q, p <= r,
         Ends(s, n, p, q), Ends(s, n, p, r)
  PROVE  q = r
<1>1. CASE q < r
  BY <1>1, ZerosGrow, ZerosFinite DEF Ends
<1>2. CASE r < q
  BY <1>2, ZerosGrow, ZerosFinite DEF Ends
<1>. QED  BY <1>1, <1>2

LEMMA EndsAgree ==
  ASSUME NEW s, NEW t, NEW n, NEW p \in Nat, NEW q \in Nat,
         \A j \in p + 1 .. q : s[j] = t[j], p <= q, Ends(s, n, p, q)
  PROVE  Ends(t, n, p, q)
<1>1. ASSUME NEW r \in p .. q - 1 PROVE s[r + 1] = t[r + 1]
  OBVIOUS
<1>2. Zeros(s, p, q) = Zeros(t, p, q)
  BY <1>1 DEF Zeros
<1>3. q = p \/ t[q] = 0
  BY DEF Ends
<1>. QED  BY <1>2, <1>3 DEF Ends

LEMMA EndsNext ==
  ASSUME NEW s, NEW n \in Nat, NEW p \in Nat, NEW q \in Nat, NEW l \in Nat, p <= q, Ends(s, n, p, q),
         \A j \in 1 .. l : s[q + j] # 0, s[q + l + 1] = 0
  PROVE  Ends(s, n + 1, p, q + l + 1)
<1>1. q + l \notin Zeros(s, p, q)
  BY DEF Zeros
<1>2. ASSUME NEW r \in p .. (q + l + 1) - 1
      PROVE  s[r + 1] = 0 <=> r \in Zeros(s, p, q) \/ r = q + l
  <2>1. CASE r \in p .. q - 1
    BY <2>1 DEF Zeros
  <2>2. CASE r = q + l
    BY <2>2
  <2>3. CASE r \in q .. q + l - 1
    <3>1. r + 1 - q \in 1 .. l /\ q + (r + 1 - q) = r + 1
      BY <2>3
    <3>2. s[r + 1] # 0
      BY <3>1
    <3>. QED  BY <2>3, <3>2 DEF Zeros
  <2>. QED  BY <2>1, <2>2, <2>3
<1>3. q + l \in p .. (q + l + 1) - 1 /\ \A r \in p .. q - 1 : r \in p .. (q + l + 1) - 1
  OBVIOUS
<1>4. Zeros(s, p, q + l + 1) = Zeros(s, p, q) \cup {q + l}
  <2>1. Zeros(s, p, q) \subseteq p .. q - 1
    BY DEF Zeros
  <2>2. Zeros(s, p, q + l + 1) = {r \in p .. (q + l + 1) - 1 : s[r + 1] = 0}
    BY DEF Zeros
  <2>. QED  BY <1>2, <1>3, <2>1, <2>2, Zenon
<1>5. Cardinality(Zeros(s, p, q + l + 1)) = n + 1
  BY <1>1, <1>4, ZerosFinite, FS_AddElement DEF Ends
<1>. QED  BY <1>5 DEF Ends

LEMMA SpellsEnds ==
  ASSUME NEW s, NEW p \in Nat, NEW texts \in Seq(Seq(Characters)), NEW m \in 0 .. Len(texts), NEW e,
         Spells(s, p, texts, m, e)
  PROVE  \A k \in 0 .. m : Ends(s, k, p, p + e[k])
<1>. DEFINE P == {k \in Nat : k <= m => Ends(s, k, p, p + e[k])}
<1>1. 0 \in P
  <2>1. e[0] = 0 /\ p + e[0] = p
    BY DEF Spells
  <2>2. Zeros(s, p, p) = {}
    BY DEF Zeros
  <2>. QED  BY <2>1, <2>2, FS_EmptySet DEF Ends
<1>2. ASSUME NEW k \in Nat, k \in P PROVE k + 1 \in P
  <2>1. SUFFICES ASSUME k + 1 <= m PROVE Ends(s, k + 1, p, p + e[k + 1])
    OBVIOUS
  <2>2. k + 1 \in 1 .. m /\ k \in 0 .. m /\ (k + 1) - 1 = k /\ k + 1 \in 1 .. Len(texts) /\ k <= m
    BY <2>1
  <2>3. Ends(s, k, p, p + e[k])
    BY <1>2, <2>2
  <2>4. PICK l : l = Len(texts[k + 1])
    OBVIOUS
  <2>5. l \in Nat /\ \A j \in 1 .. l : texts[k + 1][j] # 0
    <3>1. PICK t \in Seq(Characters) : t = texts[k + 1]
      BY <2>2
    <3>2. Len(t) \in Nat /\ \A j \in 1 .. Len(t) : t[j] \in Characters
      OBVIOUS
    <3>3. \A c \in Characters : c # 0
      BY DEF Characters
    <3>. QED  BY <2>4, <3>1, <3>2, <3>3
  <2>6. /\ e[k + 1] = e[k] + l + 1 /\ e[k] \in Nat
        /\ \A j \in 1 .. l : s[p + e[k] + j] = texts[k + 1][j]
        /\ s[p + e[k + 1]] = 0
    BY <2>2, <2>4 DEF Spells
  <2>7. p + e[k + 1] = (p + e[k]) + l + 1 /\ p + e[k] \in Nat /\ p <= p + e[k]
    BY <2>5, <2>6, SMTT(40)
  <2>8. \A j \in 1 .. l : s[(p + e[k]) + j] # 0
    BY <2>5, <2>6
  <2>9. PICK q \in Nat : q = p + e[k]
    BY <2>7
  <2>10. Ends(s, k + 1, p, q + l + 1)
    <3>1. /\ Ends(s, k, p, q) /\ p <= q /\ s[q + l + 1] = 0
          /\ \A j \in 1 .. l : s[q + j] # 0
      BY <2>3, <2>6, <2>7, <2>8, <2>9
    <3>. QED  BY <2>5, <3>1, EndsNext
  <2>. QED  BY <2>7, <2>9, <2>10
<1>3. Nat \subseteq P
  <2>. HIDE DEF P
  <2>. QED  BY <1>1, <1>2, Induction
<1>. QED  BY <1>3

-----------------------------------------------------------------------------
(* Instructions *)

Distant == JumpOps \cup {"OP_DEC_FUNCTION"}

\* What two bytes hold.
Distances == {n \in Nat : n < 65536}

\* The type of an entry.
Entries ==
  [at : Nat, op : ToSet(OpCodes), number : Seq(Bytes), n : Distances, goto : Int,
   texts : Seq(Seq(Characters)), types : Seq(Bytes), rets : Seq(Bytes)]
IsRecord(i) ==
  i = [at |-> i.at, op |-> i.op, number |-> i.number, n |-> i.n, goto |-> i.goto,
       texts |-> i.texts, types |-> i.types, rets |-> i.rets]

\* What the compiler can tell of an instruction.
Shaped(i) ==
  /\ i \in Entries
  /\ IF i.op = "OP_NUMBER" THEN Len(i.number) = 8 ELSE i.number = <<>>
  /\ i.op \in TextOps => Len(i.texts) = 1
  /\ i.op \notin TextOps \cup {"OP_DEC_FUNCTION"} => i.texts = <<>>
  /\ IF i.op = "OP_DEC_FUNCTION"
     THEN Len(i.texts) = Len(i.types) + 1 /\ Len(i.types) < 256 /\ Len(i.rets) < 256
     ELSE i.types = <<>> /\ i.rets = <<>>
  /\ i.op \notin Distant => i.n = 0 /\ i.goto = 0

Code(i, two) == <<Opcode[i.op]>> \o Operands(i, two)

LEMMA EntryFields ==
  ASSUME NEW i \in Entries
  PROVE  /\ IsRecord(i)
         /\ i.at \in Nat /\ i.op \in ToSet(OpCodes) /\ i.number \in Seq(Bytes)
         /\ i.n \in Distances /\ i.goto \in Int /\ i.texts \in Seq(Seq(Characters))
         /\ i.types \in Seq(Bytes) /\ i.rets \in Seq(Bytes)
<1>. PICK O, X, B, D : O = ToSet(OpCodes) /\ X = Seq(Seq(Characters)) /\ B = Seq(Bytes) /\ D = Distances
  OBVIOUS
<1>1. i \in [at : Nat, op : O, number : B, n : D, goto : Int, texts : X, types : B, rets : B]
  BY DEF Entries
<1>2. i.at \in Nat /\ i.op \in O /\ i.number \in B /\ i.n \in D /\ i.goto \in Int
      /\ i.texts \in X /\ i.types \in B /\ i.rets \in B
  BY <1>1
<1>3. IsRecord(i)
  BY <1>1 DEF IsRecord
<1>. QED  BY <1>2, <1>3

LEMMA EntryIn ==
  ASSUME NEW at \in Nat, NEW op \in ToSet(OpCodes), NEW number \in Seq(Bytes), NEW n \in Distances,
         NEW goto \in Int, NEW texts \in Seq(Seq(Characters)), NEW types \in Seq(Bytes),
         NEW rets \in Seq(Bytes)
  PROVE  [at |-> at, op |-> op, number |-> number, n |-> n, goto |-> goto,
          texts |-> texts, types |-> types, rets |-> rets] \in Entries
BY DEF Entries

LEMMA Fields ==
  ASSUME NEW i, Shaped(i)
  PROVE  /\ IsRecord(i)
         /\ i.at \in Nat /\ i.op \in ToSet(OpCodes) /\ i.number \in Seq(Bytes)
         /\ i.n \in Distances /\ i.goto \in Int /\ i.texts \in Seq(Seq(Characters))
         /\ i.types \in Seq(Bytes) /\ i.rets \in Seq(Bytes)
<1>1. i \in Entries
  BY DEF Shaped
<1>. QED  BY <1>1, EntryFields

LEMMA Kinds ==
  /\ "OP_NUMBER" \notin TextOps \cup JumpOps \cup SimpleOps \cup {"OP_DEC_FUNCTION", "unknown"}
  /\ "OP_DEC_FUNCTION" \notin TextOps \cup JumpOps \cup SimpleOps \cup {"unknown"}
  /\ "unknown" \notin TextOps \cup JumpOps
  /\ TextOps \cap JumpOps = {} /\ TextOps \cap SimpleOps = {} /\ JumpOps \cap SimpleOps = {}
  /\ \A op \in ToSet(OpCodes) :
       op \in TextOps \cup JumpOps \cup SimpleOps \cup {"OP_NUMBER", "OP_DEC_FUNCTION"}
BY DEF TextOps, JumpOps, ForwardOps, SimpleOps

LEMMA OpcodeIs ==
  ASSUME NEW op \in ToSet(OpCodes)
  PROVE  /\ Opcode[op] \in Bytes /\ Opcode[op] < Len(OpCodes)
         /\ OpCodes[Opcode[op] + 1] = op
<1>1. Len(OpCodes) = 30
  BY DEF OpCodes
<1>2. ToSet(OpCodes) = {OpCodes[k] : k \in 1 .. Len(OpCodes)}
  BY DEF ToSet, OpCodes
<1>3. PICK c : c = CHOOSE k \in 1 .. Len(OpCodes) : OpCodes[k] = op
  OBVIOUS
<1>4. c \in 1 .. Len(OpCodes) /\ OpCodes[c] = op
  BY <1>2, <1>3, Zenon
<1>5. Opcode[op] = c - 1
  BY <1>3 DEF Opcode
<1>. QED  BY <1>1, <1>4, <1>5 DEF Bytes

LEMMA TwoBytesIs ==
  ASSUME NEW n \in Distances
  PROVE  /\ TwoBytes(n) \in Seq(Bytes) /\ Len(TwoBytes(n)) = 2
         /\ 256 * TwoBytes(n)[1] + TwoBytes(n)[2] = n
<1>1. n \div 256 \in Bytes /\ n % 256 \in Bytes /\ 256 * (n \div 256) + (n % 256) = n
  BY DEF Bytes, Distances
<1>. QED  BY <1>1 DEF TwoBytes

LEMMA OperandsAre ==
  ASSUME NEW i, i.op \in ToSet(OpCodes), NEW two
  PROVE  /\ i.op = "OP_NUMBER" => Operands(i, two) = i.number
         /\ i.op \in TextOps => Operands(i, two) = Text(i.texts[1])
         /\ i.op \in JumpOps => Operands(i, two) = two
         /\ i.op \in SimpleOps => Operands(i, two) = <<>>
         /\ i.op = "OP_DEC_FUNCTION" => Operands(i, two) =
              two \o Text(i.texts[1]) \o <<Len(i.types)>> \o i.types \o Joined(Tail(i.texts))
                \o <<Len(i.rets)>> \o i.rets
BY Kinds, Zenon DEF Operands

\* A function's header lies in s at an offset: its name, types and names of parameters, and
\* types of results; e tells how far the names reach.
Header(s, at, i, e) ==
  LET t == i.texts[1]
      n == Len(i.types)
      a == at + 4 + Len(t)
      r == a + 1 + n + e[n]
  IN  /\ \A j \in 1 .. Len(t) : s[at + 3 + j] = t[j]
      /\ s[a] = 0
      /\ s[a + 1] = n
      /\ \A j \in 1 .. n : s[a + 1 + j] = i.types[j]
      /\ Spells(s, a + 1 + n, Tail(i.texts), n, e)
      /\ s[r + 1] = Len(i.rets)
      /\ \A j \in 1 .. Len(i.rets) : s[r + 1 + j] = i.rets[j]

\* Where the header ends.
HeaderEnd(at, i, e) == at + 6 + Len(i.texts[1]) + Len(i.types) + e[Len(i.types)] + Len(i.rets)

LEMMA NamesAre ==
  ASSUME NEW i, Shaped(i), i.op = "OP_DEC_FUNCTION"
  PROVE  /\ i.texts[1] \in Seq(Characters) /\ Len(i.texts[1]) \in Nat
         /\ Tail(i.texts) \in Seq(Seq(Characters))
         /\ Len(Tail(i.texts)) = Len(i.types)
         /\ i.types \in Seq(Bytes) /\ i.rets \in Seq(Bytes)
         /\ Len(i.types) \in Bytes /\ Len(i.rets) \in Bytes
         /\ \A k \in 1 .. Len(i.types) : Tail(i.texts)[k] = i.texts[k + 1]
<1>1. PICK texts \in Seq(Seq(Characters)) : texts = i.texts
  BY Fields, Zenon
<1>2. i.types \in Seq(Bytes) /\ i.rets \in Seq(Bytes) /\ Len(i.types) \in Nat /\ Len(i.rets) \in Nat
  <2>1. i.types \in Seq(Bytes) /\ i.rets \in Seq(Bytes)
    BY Fields, Zenon
  <2>2. \A t \in Seq(Bytes) : Len(t) \in Nat
    OBVIOUS
  <2>. QED  BY <2>1, <2>2
<1>3. Len(texts) = Len(i.types) + 1 /\ Len(i.types) < 256 /\ Len(i.rets) < 256
  BY <1>1 DEF Shaped
<1>4. Len(i.types) \in Bytes /\ Len(i.rets) \in Bytes
  <2>1. \A n \in Nat : n < 256 => n \in Bytes
    BY DEF Bytes
  <2>. QED  BY <1>2, <1>3, <2>1, Zenon
<1>5. Len(texts) # 0 /\ texts[1] \in Seq(Characters)
  BY <1>2, <1>3
<1>6. /\ Tail(texts) \in Seq(Seq(Characters)) /\ Len(Tail(texts)) = Len(texts) - 1
      /\ \A k \in 1 .. Len(texts) - 1 : Tail(texts)[k] = texts[k + 1]
  BY <1>5
<1>. QED  BY <1>1, <1>2, <1>3, <1>4, <1>5, <1>6

LEMMA SpellsShift ==
  ASSUME NEW t, NEW texts \in Seq(Seq(Characters)), NEW m \in 0 .. Len(texts), NEW e,
         Spells(t, 0, texts, m, e), Len(t) \in Nat, e[m] = Len(t),
         NEW s, NEW p \in Nat, Lies(s, p, t)
  PROVE  Spells(s, p, texts, m, e)
<1>1. ASSUME NEW k \in 1 .. m
      PROVE  /\ \A j \in 1 .. Len(texts[k]) : s[p + e[k - 1] + j] = texts[k][j]
             /\ s[p + e[k]] = 0
  <2>1. \A i, l \in 0 .. m : i <= l => e[i] <= e[l]
    <3>1. 0 \in Nat
      OBVIOUS
    <3>. QED  BY <3>1, EndsGrow
  <2>2. k \in 0 .. m /\ m \in 0 .. m /\ k - 1 \in 0 .. m /\ k <= m
    OBVIOUS
  <2>3. e[k] \in Nat /\ e[k - 1] \in Nat /\ e[k] <= Len(t)
    BY <2>1, <2>2 DEF Spells
  <2>4. Len(texts[k]) \in Nat
    BY <2>2
  <2>5. /\ e[k] = e[k - 1] + Len(texts[k]) + 1
        /\ \A j \in 1 .. Len(texts[k]) : t[0 + e[k - 1] + j] = texts[k][j]
        /\ t[0 + e[k]] = 0
    BY DEF Spells
  <2>6. \A j \in 1 .. Len(t) : s[p + j] = t[j]
    BY DEF Lies
  <2>7. ASSUME NEW j \in 1 .. Len(texts[k]) PROVE s[p + e[k - 1] + j] = texts[k][j]
    <3>1. PICK b, c, l \in Nat : b = e[k - 1] /\ c = Len(texts[k]) /\ l = Len(t)
      BY <2>3, <2>4
    <3>2. /\ e[k - 1] + j \in 1 .. Len(t) /\ p + (e[k - 1] + j) = p + e[k - 1] + j
          /\ 0 + e[k - 1] + j = e[k - 1] + j
      <4>1. j \in 1 .. c /\ b + c + 1 <= l
        BY <2>3, <2>5, <3>1
      <4>2. b + j \in 1 .. l /\ p + (b + j) = p + b + j /\ 0 + b + j = b + j
        BY <4>1
      <4>. QED  BY <3>1, <4>2, Zenon
    <3>3. s[p + (e[k - 1] + j)] = t[e[k - 1] + j]
      BY <2>6, <3>2, Zenon
    <3>4. t[0 + e[k - 1] + j] = texts[k][j]
      BY <2>5, Zenon
    <3>. QED  BY <3>2, <3>3, <3>4, Zenon
  <2>8. s[p + e[k]] = 0
    <3>1. e[k] \in 1 .. Len(t) /\ 0 + e[k] = e[k]
      BY <2>3, <2>4, <2>5, SMTT(40)
    <3>. QED  BY <2>5, <2>6, <3>1
  <2>. QED  BY <2>7, <2>8
<1>. QED  BY <1>1 DEF Spells

LEMMA HeaderBytes ==
  ASSUME NEW i, Shaped(i), i.op = "OP_DEC_FUNCTION", NEW two \in Seq(Bytes), Len(two) = 2
  PROVE  /\ Operands(i, two) \in Seq(Bytes)
         /\ Len(Operands(i, two)) = 5 + Len(i.texts[1]) + Len(i.types)
                                      + Len(Joined(Tail(i.texts))) + Len(i.rets)
         /\ \A s : \A p \in Nat : Lies(s, p, Operands(i, two)) <=>
              /\ Lies(s, p, two)
              /\ Lies(s, p + 2, Text(i.texts[1]))
              /\ Lies(s, p + 3 + Len(i.texts[1]), <<Len(i.types)>>)
              /\ Lies(s, p + 4 + Len(i.texts[1]), i.types)
              /\ Lies(s, p + 4 + Len(i.texts[1]) + Len(i.types), Joined(Tail(i.texts)))
              /\ Lies(s, p + 4 + Len(i.texts[1]) + Len(i.types) + Len(Joined(Tail(i.texts))),
                      <<Len(i.rets)>>)
              /\ Lies(s, p + 5 + Len(i.texts[1]) + Len(i.types) + Len(Joined(Tail(i.texts))), i.rets)
<1>1. PICK b \in Seq(Bytes) : b = Text(i.texts[1]) /\ Len(b) = Len(i.texts[1]) + 1
  BY NamesAre, TextIs
<1>2. PICK c \in Seq(Bytes) : c = <<Len(i.types)>> /\ Len(c) = 1
  <2>1. PICK n \in Bytes : n = Len(i.types)
    BY NamesAre
  <2>2. <<n>> \in Seq(Bytes) /\ Len(<<n>>) = 1
    OBVIOUS
  <2>. QED  BY <2>1, <2>2, Zenon
<1>3. PICK d \in Seq(Bytes) : d = i.types
  BY NamesAre
<1>4. PICK f \in Seq(Bytes) : f = Joined(Tail(i.texts))
  BY NamesAre, JoinedIs
<1>5. PICK g \in Seq(Bytes) : g = <<Len(i.rets)>> /\ Len(g) = 1
  <2>1. PICK n \in Bytes : n = Len(i.rets)
    BY NamesAre
  <2>2. <<n>> \in Seq(Bytes) /\ Len(<<n>>) = 1
    OBVIOUS
  <2>. QED  BY <2>1, <2>2, Zenon
<1>6. PICK h \in Seq(Bytes) : h = i.rets
  BY NamesAre
<1>7. Operands(i, two) = two \o b \o c \o d \o f \o g \o h
  <2>1. i.op \in ToSet(OpCodes)
    BY Fields
  <2>2. Operands(i, two) =
              two \o Text(i.texts[1]) \o <<Len(i.types)>> \o i.types \o Joined(Tail(i.texts))
                \o <<Len(i.rets)>> \o i.rets
    BY <2>1, OperandsAre, Zenon
  <2>. QED  BY <1>1, <1>2, <1>3, <1>4, <1>5, <1>6, <2>2, Zenon
<1>8. Len(b) \in Nat /\ Len(d) \in Nat /\ Len(f) \in Nat /\ Len(h) \in Nat
  OBVIOUS
<1>9. PICK s2 \in Seq(Bytes) : s2 = two \o b /\ Len(s2) = Len(two) + Len(b)
  BY Joins, Zenon
<1>10. PICK s3 \in Seq(Bytes) : s3 = s2 \o c /\ Len(s3) = Len(s2) + Len(c)
  BY Joins, Zenon
<1>11. PICK s4 \in Seq(Bytes) : s4 = s3 \o d /\ Len(s4) = Len(s3) + Len(d)
  BY Joins, Zenon
<1>12. PICK s5 \in Seq(Bytes) : s5 = s4 \o f /\ Len(s5) = Len(s4) + Len(f)
  BY Joins, Zenon
<1>13. PICK s6 \in Seq(Bytes) : s6 = s5 \o g /\ Len(s6) = Len(s5) + Len(g)
  BY Joins, Zenon
<1>14. PICK s7 \in Seq(Bytes) : s7 = s6 \o h /\ Len(s7) = Len(s6) + Len(h)
  BY Joins, Zenon
<1>15. Operands(i, two) = s7
  BY <1>7, <1>9, <1>10, <1>11, <1>12, <1>13, <1>14, Zenon
<1>16. ASSUME NEW s, NEW p \in Nat
       PROVE  Lies(s, p, s7) <=>
                /\ Lies(s, p, two) /\ Lies(s, p + 2, b) /\ Lies(s, p + Len(s2), c)
                /\ Lies(s, p + Len(s3), d) /\ Lies(s, p + Len(s4), f)
                /\ Lies(s, p + Len(s5), g) /\ Lies(s, p + Len(s6), h)
  <2>1. Lies(s, p, s7) <=> Lies(s, p, s6) /\ Lies(s, p + Len(s6), h)
    BY <1>14, LiesAppended
  <2>2. Lies(s, p, s6) <=> Lies(s, p, s5) /\ Lies(s, p + Len(s5), g)
    BY <1>13, LiesAppended
  <2>3. Lies(s, p, s5) <=> Lies(s, p, s4) /\ Lies(s, p + Len(s4), f)
    BY <1>12, LiesAppended
  <2>4. Lies(s, p, s4) <=> Lies(s, p, s3) /\ Lies(s, p + Len(s3), d)
    BY <1>11, LiesAppended
  <2>5. Lies(s, p, s3) <=> Lies(s, p, s2) /\ Lies(s, p + Len(s2), c)
    BY <1>10, LiesAppended
  <2>6. Lies(s, p, s2) <=> Lies(s, p, two) /\ Lies(s, p + Len(two), b)
    BY <1>9, LiesAppended
  <2>7. Len(two) = 2
    OBVIOUS
  <2>. QED  BY <2>1, <2>2, <2>3, <2>4, <2>5, <2>6, <2>7, Zenon
<1>17. PICK l \in Nat : l = Len(i.texts[1])
  BY NamesAre
<1>18. /\ Len(s2) = 3 + l /\ Len(s3) = 4 + l /\ Len(s4) = 4 + l + Len(d)
       /\ Len(s5) = 4 + l + Len(d) + Len(f) /\ Len(s6) = 5 + l + Len(d) + Len(f)
       /\ Len(s7) = 5 + l + Len(d) + Len(f) + Len(h)
  <2>1. Len(two) = 2 /\ Len(b) = l + 1 /\ Len(c) = 1 /\ Len(g) = 1
    BY <1>1, <1>2, <1>5, <1>17, Zenon
  <2>2. /\ Len(s2) = Len(two) + Len(b) /\ Len(s3) = Len(s2) + Len(c) /\ Len(s4) = Len(s3) + Len(d)
        /\ Len(s5) = Len(s4) + Len(f) /\ Len(s6) = Len(s5) + Len(g) /\ Len(s7) = Len(s6) + Len(h)
    BY <1>9, <1>10, <1>11, <1>12, <1>13, <1>14, Zenon
  <2>. QED  BY <1>8, <2>1, <2>2
<1>19. ASSUME NEW s, NEW p \in Nat
       PROVE  Lies(s, p, s7) <=>
                /\ Lies(s, p, two) /\ Lies(s, p + 2, b) /\ Lies(s, p + 3 + l, c)
                /\ Lies(s, p + 4 + l, d) /\ Lies(s, p + 4 + l + Len(d), f)
                /\ Lies(s, p + 4 + l + Len(d) + Len(f), g)
                /\ Lies(s, p + 5 + l + Len(d) + Len(f), h)
  <2>1. /\ p + Len(s2) = p + 3 + l /\ p + Len(s3) = p + 4 + l /\ p + Len(s4) = p + 4 + l + Len(d)
        /\ p + Len(s5) = p + 4 + l + Len(d) + Len(f) /\ p + Len(s6) = p + 5 + l + Len(d) + Len(f)
    BY <1>8, <1>18
  <2>. QED  BY <1>16, <2>1, Zenon
<1>. QED  BY <1>1, <1>2, <1>3, <1>4, <1>5, <1>6, <1>15, <1>17, <1>18, <1>19, Zenon

LEMMA HeaderLies ==
  ASSUME NEW i, Shaped(i), i.op = "OP_DEC_FUNCTION", NEW two \in Seq(Bytes), Len(two) = 2,
         NEW s, NEW at \in Nat, Lies(s, at + 1, Operands(i, two))
  PROVE  \E e \in [0 .. Len(i.types) -> Nat] :
            /\ Header(s, at, i, e)
            /\ HeaderEnd(at, i, e) = at + 1 + Len(Operands(i, two))
<1>1. PICK names \in Seq(Seq(Characters)) : names = Tail(i.texts) /\ Len(names) = Len(i.types)
  BY NamesAre
<1>2. PICK f \in Seq(Bytes) : f = Joined(names)
  BY JoinedIs
<1>3. PICK e : Spells(f, 0, names, Len(names), e) /\ e[Len(names)] = Len(f)
  BY <1>2, JoinedIs
<1>4. PICK t \in Seq(Characters) : t = i.texts[1]
  BY NamesAre
<1>5. PICK types \in Seq(Bytes) : types = i.types
  BY NamesAre
<1>6. PICK rets \in Seq(Bytes) : rets = i.rets
  BY NamesAre
<1>7. Len(t) \in Nat /\ Len(types) \in Nat /\ Len(f) \in Nat /\ Len(rets) \in Nat
  OBVIOUS
<1>8. /\ Lies(s, at + 1 + 2, Text(t))
      /\ Lies(s, at + 1 + 3 + Len(t), <<Len(types)>>)
      /\ Lies(s, at + 1 + 4 + Len(t), types)
      /\ Lies(s, at + 1 + 4 + Len(t) + Len(types), f)
      /\ Lies(s, at + 1 + 4 + Len(t) + Len(types) + Len(f), <<Len(rets)>>)
      /\ Lies(s, at + 1 + 5 + Len(t) + Len(types) + Len(f), rets)
  <2>1. at + 1 \in Nat
    OBVIOUS
  <2>. QED  BY <1>1, <1>2, <1>4, <1>5, <1>6, <2>1, HeaderBytes, Zenon
<1>9. PICK a \in Nat : a = at + 4 + Len(t)
  BY <1>7
<1>10. (\A j \in 1 .. Len(t) : s[at + 3 + j] = t[j]) /\ s[a] = 0
  <2>1. /\ Len(Text(t)) = Len(t) + 1 /\ Text(t)[Len(t) + 1] = 0
        /\ \A j \in 1 .. Len(t) : Text(t)[j] = t[j]
    BY TextIs
  <2>2. \A j \in 1 .. Len(t) + 1 : s[at + 1 + 2 + j] = Text(t)[j]
    BY <1>8, <2>1, Zenon DEF Lies
  <2>3. ASSUME NEW j \in 1 .. Len(t) PROVE s[at + 3 + j] = t[j]
    <3>1. j \in 1 .. Len(t) + 1 /\ at + 1 + 2 + j = at + 3 + j
      BY <1>7
    <3>. QED  BY <2>1, <2>2, <3>1
  <2>4. Len(t) + 1 \in 1 .. Len(t) + 1 /\ at + 1 + 2 + (Len(t) + 1) = a
    BY <1>7, <1>9
  <2>5. s[a] = 0
    BY <2>1, <2>2, <2>4
  <2>. QED  BY <2>3, <2>5
<1>11. s[a + 1] = Len(types)
  <2>1. at + 1 + 3 + Len(t) + 1 = a + 1
    BY <1>7, <1>9
  <2>2. s[at + 1 + 3 + Len(t) + 1] = <<Len(types)>>[1]
    BY <1>8 DEF Lies
  <2>. QED  BY <2>1, <2>2
<1>12. \A j \in 1 .. Len(types) : s[a + 1 + j] = types[j]
  <2>1. at + 1 + 4 + Len(t) = a + 1
    BY <1>7, <1>9
  <2>. QED  BY <1>8, <2>1 DEF Lies
<1>13. Spells(s, a + 1 + Len(types), names, Len(types), e) /\ e \in [0 .. Len(types) -> Nat]
  <2>1. PICK p \in Nat : p = a + 1 + Len(types)
    BY <1>7
  <2>2. at + 1 + 4 + Len(t) + Len(types) = p
    BY <1>7, <1>9, <2>1
  <2>3. Lies(s, p, f)
    BY <1>8, <2>2
  <2>4. Len(names) \in 0 .. Len(names)
    OBVIOUS
  <2>5. Spells(s, p, names, Len(names), e)
    BY <1>3, <1>7, <2>3, <2>4, SpellsShift
  <2>6. e \in [0 .. Len(names) -> Nat]
    BY <1>3 DEF Spells
  <2>. QED  BY <1>1, <1>5, <2>1, <2>5, <2>6
<1>14. PICK r \in Nat : r = a + 1 + Len(types) + e[Len(types)]
  <2>1. e[Len(types)] \in Nat
    <3>1. Len(types) \in 0 .. Len(types)
      BY <1>7
    <3>. QED  BY <1>13, <3>1, Zenon
  <2>. QED  BY <1>7, <2>1
<1>15. e[Len(types)] = Len(f)
  BY <1>1, <1>3, <1>5
<1>16. s[r + 1] = Len(rets)
  <2>1. at + 1 + 4 + Len(t) + Len(types) + Len(f) + 1 = r + 1
    BY <1>7, <1>9, <1>14, <1>15
  <2>2. s[at + 1 + 4 + Len(t) + Len(types) + Len(f) + 1] = <<Len(rets)>>[1]
    BY <1>8 DEF Lies
  <2>. QED  BY <2>1, <2>2
<1>17. \A j \in 1 .. Len(rets) : s[r + 1 + j] = rets[j]
  <2>1. at + 1 + 5 + Len(t) + Len(types) + Len(f) = r + 1
    BY <1>7, <1>9, <1>14, <1>15
  <2>. QED  BY <1>8, <2>1 DEF Lies
<1>18. Header(s, at, i, e)
  BY <1>1, <1>4, <1>5, <1>6, <1>9, <1>10, <1>11, <1>12, <1>13, <1>14, <1>16, <1>17, Zenon DEF Header
<1>19. HeaderEnd(at, i, e) = at + 1 + Len(Operands(i, two))
  <2>1. Len(Operands(i, two)) = 5 + Len(t) + Len(types) + Len(f) + Len(rets)
    BY <1>1, <1>2, <1>4, <1>5, <1>6, HeaderBytes, Zenon
  <2>2. HeaderEnd(at, i, e) = at + 6 + Len(t) + Len(types) + Len(f) + Len(rets)
    BY <1>4, <1>5, <1>6, <1>15 DEF HeaderEnd
  <2>. QED  BY <1>7, <2>1, <2>2
<1>20. e \in [0 .. Len(i.types) -> Nat]
  BY <1>5, <1>13
<1>. QED  BY <1>18, <1>19, <1>20

-----------------------------------------------------------------------------
(* Encoded instructions *)

LEMMA OperandsTyped ==
  ASSUME NEW i, Shaped(i), NEW two \in Seq(Bytes), Len(two) = 2
  PROVE  Operands(i, two) \in Seq(Bytes) /\ Len(Operands(i, two)) \in Nat
<1>1. i.op \in ToSet(OpCodes)
  BY Fields
<1>2. CASE i.op = "OP_NUMBER"
  <2>1. PICK d \in Seq(Bytes) : d = i.number
    BY Fields, Zenon
  <2>2. Operands(i, two) = d
    BY <1>1, <1>2, <2>1, OperandsAre, Zenon
  <2>. QED  BY <2>2
<1>3. CASE i.op \in TextOps
  <2>1. PICK texts \in Seq(Seq(Characters)) : texts = i.texts
    BY Fields, Zenon
  <2>2. Len(texts) = 1
    BY <1>3, <2>1 DEF Shaped
  <2>3. texts[1] \in Seq(Characters)
    BY <2>2
  <2>4. Text(texts[1]) \in Seq(Bytes)
    BY <2>3, TextIs
  <2>5. Operands(i, two) = Text(texts[1])
    BY <1>1, <1>3, <2>1, OperandsAre, Zenon
  <2>. QED  BY <2>4, <2>5
<1>4. CASE i.op \in JumpOps
  <2>1. Operands(i, two) = two
    BY <1>1, <1>4, OperandsAre, Zenon
  <2>. QED  BY <2>1
<1>5. CASE i.op \in SimpleOps
  <2>1. Operands(i, two) = <<>>
    BY <1>1, <1>5, OperandsAre, Zenon
  <2>. QED  BY <2>1
<1>6. CASE i.op = "OP_DEC_FUNCTION"
  <2>1. Operands(i, two) \in Seq(Bytes)
    BY <1>6, HeaderBytes
  <2>. QED  BY <2>1
<1>. QED  BY <1>1, <1>2, <1>3, <1>4, <1>5, <1>6, Kinds

LEMMA CodeIs ==
  ASSUME NEW i, Shaped(i), NEW two \in Seq(Bytes), Len(two) = 2
  PROVE  /\ Code(i, two) \in Seq(Bytes)
         /\ Len(Code(i, two)) = 1 + Len(Operands(i, two))
         /\ \A s : \A p \in Nat : Lies(s, p, Code(i, two)) <=>
              s[p + 1] = Opcode[i.op] /\ Lies(s, p + 1, Operands(i, two))
<1>1. PICK c \in Bytes : c = Opcode[i.op]
  BY Fields, OpcodeIs
<1>2. PICK o \in Seq(Bytes) : o = Operands(i, two)
  BY OperandsTyped
<1>3. <<c>> \in Seq(Bytes) /\ Len(<<c>>) = 1
  OBVIOUS
<1>4. Code(i, two) = <<c>> \o o
  BY <1>1, <1>2 DEF Code
<1>5. <<c>> \o o \in Seq(Bytes) /\ Len(<<c>> \o o) = 1 + Len(o)
  BY <1>3, Appended
<1>6. ASSUME NEW s, NEW p \in Nat
      PROVE  Lies(s, p, <<c>> \o o) <=> s[p + 1] = c /\ Lies(s, p + 1, o)
  <2>1. Lies(s, p, <<c>> \o o) <=> Lies(s, p, <<c>>) /\ Lies(s, p + 1, o)
    BY <1>3, LiesAppended
  <2>2. Lies(s, p, <<c>>) <=> s[p + 1] = c
    BY DEF Lies
  <2>. QED  BY <2>1, <2>2
<1>. QED  BY <1>1, <1>2, <1>4, <1>5, <1>6, Zenon

\* The place of an instruction does not depend on its distance.
LEMMA SameWidth ==
  ASSUME NEW i, Shaped(i), NEW j, Shaped(j),
         j.op = i.op, j.texts = i.texts, j.types = i.types, j.rets = i.rets, j.number = i.number,
         NEW two \in Seq(Bytes), Len(two) = 2, NEW new \in Seq(Bytes), Len(new) = 2
  PROVE  Len(Code(j, new)) = Len(Code(i, two))
<1>1. i.op \in ToSet(OpCodes)
  BY Fields
<1>2. Len(Operands(j, new)) = Len(Operands(i, two))
  <2>1. CASE i.op = "OP_DEC_FUNCTION"
    <3>1. Len(Operands(i, two)) = 5 + Len(i.texts[1]) + Len(i.types)
                                      + Len(Joined(Tail(i.texts))) + Len(i.rets)
      BY <2>1, HeaderBytes, Zenon
    <3>2. Len(Operands(j, new)) = 5 + Len(j.texts[1]) + Len(j.types)
                                      + Len(Joined(Tail(j.texts))) + Len(j.rets)
      BY <2>1, HeaderBytes, Zenon
    <3>. QED  BY <3>1, <3>2, Zenon
  <2>2. CASE i.op \in JumpOps
    <3>1. Operands(i, two) = two /\ Operands(j, new) = new
      BY <1>1, <2>2, OperandsAre, Zenon
    <3>. QED  BY <3>1
  <2>3. CASE i.op \notin Distant
    <3>1. Operands(j, new) = Operands(i, two)
      BY <1>1, <2>3, OperandsAre, Kinds, ZenonT(60) DEF Distant
    <3>. QED  BY <3>1
  <2>. QED  BY <2>1, <2>2, <2>3 DEF Distant
<1>. QED  BY <1>2, CodeIs

\* Two sequences are the same behind a position.
SameBehind(r, s, q) == \A x \in Nat : x > q => r[x] = s[x]

LEMMA LiesShift ==
  ASSUME NEW S, NEW t \in Seq(S), NEW s, NEW r, NEW p \in Nat, NEW q \in Nat, q <= p,
         SameBehind(r, s, q), Lies(s, p, t)
  PROVE  Lies(r, p, t)
<1>1. ASSUME NEW j \in 1 .. Len(t) PROVE r[p + j] = t[j]
  <2>1. p + j \in Nat /\ p + j > q
    OBVIOUS
  <2>2. r[p + j] = s[p + j]
    BY <2>1, Zenon DEF SameBehind
  <2>. QED  BY <2>2 DEF Lies
<1>. QED  BY <1>1 DEF Lies

\* A distance can be replaced by another one without touching anything else.
LEMMA PatchedCode ==
  ASSUME NEW i, Shaped(i), i.op \in Distant, NEW j, Shaped(j),
         j.op = i.op, j.texts = i.texts, j.types = i.types, j.rets = i.rets,
         NEW two \in Seq(Bytes), Len(two) = 2, NEW new \in Seq(Bytes), Len(new) = 2,
         NEW s, NEW r, NEW p \in Nat,
         Lies(s, p, Code(i, two)),
         r[p + 1] = s[p + 1], r[p + 2] = new[1], r[p + 3] = new[2],
         SameBehind(r, s, p + 3)
  PROVE  Lies(r, p, Code(j, new))
<1>1. s[p + 1] = Opcode[i.op] /\ Lies(s, p + 1, Operands(i, two)) /\ p + 1 \in Nat
  BY CodeIs
<1>2. Lies(r, p + 1, new)
  <2>1. ASSUME NEW k \in 1 .. Len(new) PROVE r[p + 1 + k] = new[k]
    <3>1. k = 1 \/ k = 2
      OBVIOUS
    <3>. QED  BY <3>1
  <2>. QED  BY <2>1 DEF Lies
<1>3. Lies(r, p + 1, Operands(j, new))
  <2>1. CASE i.op \in JumpOps
    <3>1. i.op \in ToSet(OpCodes)
      BY Fields
    <3>2. Operands(j, new) = new
      BY <2>1, <3>1, OperandsAre, Zenon
    <3>. QED  BY <1>2, <3>2
  <2>2. CASE i.op = "OP_DEC_FUNCTION"
    <3>0. j.op = "OP_DEC_FUNCTION"
      BY <2>2
    <3>1. PICK b \in Seq(Bytes) : b = Text(i.texts[1])
      BY <2>2, NamesAre, TextIs
    <3>2. PICK f \in Seq(Bytes) : f = Joined(Tail(i.texts))
      BY <2>2, NamesAre, JoinedIs
    <3>3. PICK n \in Bytes, m \in Bytes : n = Len(i.types) /\ m = Len(i.rets)
      BY <2>2, NamesAre
    <3>4. PICK l \in Nat : l = Len(i.texts[1])
      BY <2>2, NamesAre
    <3>5. PICK d \in Seq(Bytes), h \in Seq(Bytes) : d = i.types /\ h = i.rets
      BY <2>2, NamesAre
    <3>6. /\ Lies(s, p + 1 + 2, b) /\ Lies(s, p + 1 + 3 + l, <<n>>) /\ Lies(s, p + 1 + 4 + l, d)
          /\ Lies(s, p + 1 + 4 + l + n, f) /\ Lies(s, p + 1 + 4 + l + n + Len(f), <<m>>)
          /\ Lies(s, p + 1 + 5 + l + n + Len(f), h)
      BY <1>1, <2>2, <3>1, <3>2, <3>3, <3>4, <3>5, HeaderBytes, Zenon
    <3>7. <<n>> \in Seq(Bytes) /\ <<m>> \in Seq(Bytes) /\ n \in Nat /\ Len(f) \in Nat /\ p + 3 \in Nat
      BY DEF Bytes
    <3>8. /\ Lies(r, p + 1 + 2, b) /\ Lies(r, p + 1 + 3 + l, <<n>>) /\ Lies(r, p + 1 + 4 + l, d)
          /\ Lies(r, p + 1 + 4 + l + n, f) /\ Lies(r, p + 1 + 4 + l + n + Len(f), <<m>>)
          /\ Lies(r, p + 1 + 5 + l + n + Len(f), h)
      <4>1. ASSUME NEW q \in Nat, q >= p + 3, NEW t \in Seq(Bytes), Lies(s, q, t)
            PROVE  Lies(r, q, t)
        <5>1. p + 3 <= q
          BY <4>1
        <5>. QED  BY <3>7, <4>1, <5>1, LiesShift
      <4>2. \A a, c \in Nat : a = p + c /\ c >= 3 => a \in Nat /\ a >= p + 3
        OBVIOUS
      <4>3. /\ p + 1 + 2 \in Nat /\ p + 1 + 2 >= p + 3
            /\ p + 1 + 3 + l \in Nat /\ p + 1 + 3 + l >= p + 3
            /\ p + 1 + 4 + l \in Nat /\ p + 1 + 4 + l >= p + 3
            /\ p + 1 + 4 + l + n \in Nat /\ p + 1 + 4 + l + n >= p + 3
            /\ p + 1 + 4 + l + n + Len(f) \in Nat /\ p + 1 + 4 + l + n + Len(f) >= p + 3
            /\ p + 1 + 5 + l + n + Len(f) \in Nat /\ p + 1 + 5 + l + n + Len(f) >= p + 3
        BY <3>7
      <4>. QED  BY <3>6, <3>7, <4>1, <4>3, Zenon
    <3>9. /\ Text(j.texts[1]) = b /\ Joined(Tail(j.texts)) = f /\ Len(j.types) = n /\ Len(j.rets) = m
          /\ j.types = d /\ j.rets = h /\ Len(j.texts[1]) = l
      BY <3>1, <3>2, <3>3, <3>4, <3>5, Zenon
    <3>. QED  BY <1>1, <1>2, <3>0, <3>8, <3>9, HeaderBytes, Zenon
  <2>. QED  BY <2>1, <2>2 DEF Distant
<1>. QED  BY <1>1, <1>3, CodeIs

-----------------------------------------------------------------------------
(* The layout of a chunk *)

\* The bytes of an instruction while the offsets in P wait for their distances.
Two(i, P) == IF i.at \in P THEN <<255, 255>> ELSE TwoBytes(i.n)
Enc(i, P) == Code(i, Two(i, P))

\* Where the k-th of the instructions w begins, and where the last one ends.
Begin(c, w, k) == IF k <= Len(w) THEN w[k].at ELSE Len(c)

\* The bytes of c are those of the instructions w, one after the other.
Laid(c, w, P) ==
  /\ c \in Seq(Bytes) /\ w \in Seq(Entries)
  /\ Begin(c, w, 1) = 0
  /\ \A k \in 1 .. Len(w) :
       /\ Shaped(w[k])
       /\ Begin(c, w, k + 1) = w[k].at + Len(Enc(w[k], P))
       /\ Lies(c, w[k].at, Enc(w[k], P))
       /\ w[k].at \in P => w[k].op \in Distant
       /\ w[k].op \in Distant /\ w[k].at \notin P =>
            w[k].goto = Target(w[k].at, w[k].op, w[k].n)
  /\ P \subseteq {w[k].at : k \in 1 .. Len(w)}

LEMMA TwoIs ==
  ASSUME NEW i, Shaped(i), NEW P
  PROVE  Two(i, P) \in Seq(Bytes) /\ Len(Two(i, P)) = 2
<1>1. <<255, 255>> \in Seq(Bytes) /\ Len(<<255, 255>>) = 2
  BY DEF Bytes
<1>2. TwoBytes(i.n) \in Seq(Bytes) /\ Len(TwoBytes(i.n)) = 2
  BY Fields, TwoBytesIs
<1>. QED  BY <1>1, <1>2, Zenon DEF Two

LEMMA EncIs ==
  ASSUME NEW i, Shaped(i), NEW P
  PROVE  /\ Enc(i, P) \in Seq(Bytes) /\ Len(Enc(i, P)) \in Nat \ {0}
         /\ Len(Enc(i, P)) = 1 + Len(Operands(i, Two(i, P)))
         /\ \A s : \A p \in Nat : Lies(s, p, Enc(i, P)) <=>
              s[p + 1] = Opcode[i.op] /\ Lies(s, p + 1, Operands(i, Two(i, P)))
<1>1. PICK two \in Seq(Bytes) : two = Two(i, P) /\ Len(two) = 2
  BY TwoIs
<1>2. Len(Operands(i, two)) \in Nat
  BY <1>1, OperandsTyped
<1>3. \A n \in Nat : 1 + n \in Nat \ {0}
  OBVIOUS
<1>4. Len(Code(i, two)) \in Nat \ {0}
  BY <1>1, <1>2, <1>3, CodeIs, Zenon
<1>5. Enc(i, P) = Code(i, two)
  BY <1>1 DEF Enc
<1>. QED  BY <1>1, <1>4, <1>5, CodeIs, Zenon

LEMMA BeginNext ==
  ASSUME NEW c, NEW w, NEW P, Laid(c, w, P)
  PROVE  /\ Len(w) \in Nat /\ Len(c) \in Nat /\ Begin(c, w, Len(w) + 1) = Len(c)
         /\ \A k \in 1 .. Len(w) : Begin(c, w, k) = w[k].at
         /\ \A k \in 1 .. Len(w) + 1 : Begin(c, w, k) \in Nat
         /\ \A k \in 1 .. Len(w) : Begin(c, w, k) < Begin(c, w, k + 1)
<1>1. Len(w) \in Nat /\ Len(c) \in Nat
  BY DEF Laid
<1>2. Begin(c, w, Len(w) + 1) = Len(c) /\ \A k \in 1 .. Len(w) : Begin(c, w, k) = w[k].at
  BY <1>1 DEF Begin
<1>3. \A k \in 1 .. Len(w) : w[k].at \in Nat
  BY Fields, Zenon DEF Laid
<1>4. \A k \in 1 .. Len(w) + 1 : k \in 1 .. Len(w) \/ k = Len(w) + 1
  BY <1>1
<1>5. \A k \in 1 .. Len(w) + 1 : Begin(c, w, k) \in Nat
  BY <1>1, <1>2, <1>3, <1>4, Zenon
<1>6. ASSUME NEW k \in 1 .. Len(w) PROVE Begin(c, w, k) < Begin(c, w, k + 1)
  <2>1. PICK n \in Nat \ {0} : n = Len(Enc(w[k], P))
    BY EncIs, Zenon DEF Laid
  <2>2. Begin(c, w, k + 1) = w[k].at + n
    BY <2>1, Zenon DEF Laid
  <2>3. w[k].at \in Nat /\ Begin(c, w, k) = w[k].at
    BY <1>2, <1>3
  <2>. QED  BY <2>2, <2>3
<1>. QED  BY <1>1, <1>2, <1>5, <1>6

LEMMA BeginGrows ==
  ASSUME NEW c, NEW w, NEW P, Laid(c, w, P)
  PROVE  \A i, k \in 1 .. Len(w) + 1 : i < k => Begin(c, w, i) < Begin(c, w, k)
<1>. DEFINE b(k) == Begin(c, w, k)
            T == {n \in Nat : \A i, k \in 1 .. Len(w) + 1 : k = i + 1 + n => b(i) < b(k)}
<1>. HIDE DEF b
<1>0. /\ Len(w) \in Nat /\ \A k \in 1 .. Len(w) + 1 : b(k) \in Nat
      /\ \A k \in 1 .. Len(w) : b(k) < b(k + 1)
  BY BeginNext DEF b
<1>1. 0 \in T
  <2>1. ASSUME NEW i \in 1 .. Len(w) + 1, NEW k \in 1 .. Len(w) + 1, k = i + 1 + 0 PROVE b(i) < b(k)
    <3>1. i \in 1 .. Len(w) /\ k = i + 1
      BY <1>0, <2>1
    <3>. QED  BY <1>0, <3>1
  <2>. QED  BY <2>1
<1>2. ASSUME NEW n \in Nat, n \in T PROVE n + 1 \in T
  <2>1. ASSUME NEW i \in 1 .. Len(w) + 1, NEW k \in 1 .. Len(w) + 1, k = i + 1 + (n + 1)
        PROVE  b(i) < b(k)
    <3>1. k - 1 \in 1 .. Len(w) /\ k - 1 \in 1 .. Len(w) + 1 /\ (k - 1) + 1 = k /\ k - 1 = i + 1 + n
      BY <1>0, <2>1
    <3>2. b(i) < b(k - 1)
      BY <1>2, <3>1
    <3>3. b(k - 1) < b((k - 1) + 1)
      BY <1>0, <3>1
    <3>. QED  BY <1>0, <3>1, <3>2, <3>3
  <2>. QED  BY <2>1
<1>3. Nat \subseteq T
  <2>. HIDE DEF T
  <2>. QED  BY <1>1, <1>2, Induction
<1>4. ASSUME NEW i \in 1 .. Len(w) + 1, NEW k \in 1 .. Len(w) + 1, i < k PROVE b(i) < b(k)
  <2>1. k - i - 1 \in Nat /\ k = i + 1 + (k - i - 1)
    BY <1>4
  <2>2. k - i - 1 \in T
    BY <1>3, <2>1
  <2>. QED  BY <2>1, <2>2
<1>. QED  BY <1>4 DEF b

\* No two instructions are at one place, and all are inside.
LEMMA PlacesDiffer ==
  ASSUME NEW c, NEW w, NEW P, Laid(c, w, P)
  PROVE  /\ \A i, k \in 1 .. Len(w) : w[i].at = w[k].at => i = k
         /\ \A k \in 1 .. Len(w) : w[k].at < Len(c)
         /\ \A k \in 1 .. Len(w) + 1 : Begin(c, w, k) <= Len(c)
<1>0. /\ Len(w) \in Nat /\ Len(c) \in Nat /\ Begin(c, w, Len(w) + 1) = Len(c)
      /\ \A k \in 1 .. Len(w) : Begin(c, w, k) = w[k].at
      /\ \A k \in 1 .. Len(w) + 1 : Begin(c, w, k) \in Nat
  BY BeginNext
<1>1. \A i, k \in 1 .. Len(w) + 1 : i < k => Begin(c, w, i) < Begin(c, w, k)
  BY BeginGrows
<1>2. ASSUME NEW i \in 1 .. Len(w), NEW k \in 1 .. Len(w), w[i].at = w[k].at PROVE i = k
  <2>1. i \in 1 .. Len(w) + 1 /\ k \in 1 .. Len(w) + 1
    BY <1>0
  <2>2. ~(i < k) /\ ~(k < i)
    BY <1>0, <1>1, <1>2, <2>1
  <2>. QED  BY <2>2
<1>3. ASSUME NEW k \in 1 .. Len(w) PROVE w[k].at < Len(c)
  <2>1. k \in 1 .. Len(w) + 1 /\ Len(w) + 1 \in 1 .. Len(w) + 1 /\ k < Len(w) + 1
    BY <1>0
  <2>. QED  BY <1>0, <1>1, <2>1
<1>4. ASSUME NEW k \in 1 .. Len(w) + 1 PROVE Begin(c, w, k) <= Len(c)
  <2>1. k \in 1 .. Len(w) \/ k = Len(w) + 1
    BY <1>0
  <2>. QED  BY <1>0, <1>3, <2>1
<1>. QED  BY <1>2, <1>3, <1>4

LEMMA Places ==
  ASSUME NEW c, NEW w, NEW P, Laid(c, w, P)
  PROVE  /\ Len(w) \in Nat /\ Len(c) \in Nat /\ Begin(c, w, Len(w) + 1) = Len(c)
         /\ \A k \in 1 .. Len(w) :
              Begin(c, w, k) = w[k].at /\ w[k].at \in Nat /\ w[k].at < Len(c)
         /\ \A k \in 1 .. Len(w) + 1 : Begin(c, w, k) \in Nat /\ Begin(c, w, k) <= Len(c)
<1>1. \A k \in 1 .. Len(w) : k \in 1 .. Len(w) + 1
  BY BeginNext
<1>2. /\ Len(w) \in Nat /\ Len(c) \in Nat /\ Begin(c, w, Len(w) + 1) = Len(c)
      /\ \A k \in 1 .. Len(w) : Begin(c, w, k) = w[k].at
      /\ \A k \in 1 .. Len(w) + 1 : Begin(c, w, k) \in Nat
  BY BeginNext
<1>3. /\ \A k \in 1 .. Len(w) : w[k].at < Len(c)
      /\ \A k \in 1 .. Len(w) + 1 : Begin(c, w, k) <= Len(c)
  BY PlacesDiffer
<1>4. \A k \in 1 .. Len(w) : w[k].at \in Nat
  BY <1>1, <1>2
<1>. QED  BY <1>2, <1>3, <1>4

LEMMA LaidEmpty == Laid(<<>>, <<>>, {})
<1>1. <<>> \in Seq(Bytes) /\ <<>> \in Seq(Entries) /\ Len(<<>>) = 0
  OBVIOUS
<1>2. Begin(<<>>, <<>>, 1) = 0
  BY <1>1 DEF Begin
<1>3. 1 .. Len(<<>>) = {}
  BY <1>1
<1>. QED  BY <1>1, <1>2, <1>3, Zenon DEF Laid

\* An instruction is appended.
LEMMA LaidGrow ==
  ASSUME NEW c, NEW w, NEW P, Laid(c, w, P), NEW e, Shaped(e), e.at = Len(c), NEW Q,
         \/ Q = P
         \/ Q = P \cup {Len(c)} /\ e.op \in Distant,
         e.op \in Distant /\ e.at \notin Q => e.goto = Target(e.at, e.op, e.n)
  PROVE  Laid(c \o Enc(e, Q), Append(w, e), Q)
<1>1. PICK b \in Seq(Bytes) : b = Enc(e, Q) /\ Len(b) \in Nat \ {0}
  BY EncIs
<1>2. PICK d \in Seq(Bytes) : /\ d = c \o b /\ Len(d) = Len(c) + Len(b)
                              /\ \A j \in 1 .. Len(c) : d[j] = c[j]
                              /\ \A j \in 1 .. Len(b) : d[Len(c) + j] = b[j]
  <2>1. c \in Seq(Bytes)
    BY DEF Laid
  <2>2. PICK d : d = c \o b
    OBVIOUS
  <2>3. /\ d \in Seq(Bytes) /\ Len(d) = Len(c) + Len(b)
        /\ \A j \in 1 .. Len(c) : d[j] = c[j]
        /\ \A j \in 1 .. Len(b) : d[Len(c) + j] = b[j]
    BY <2>1, <2>2, Appended
  <2>. QED  BY <2>2, <2>3
<1>3. PICK v \in Seq(Entries) : /\ v = Append(w, e) /\ Len(v) = Len(w) + 1
                                /\ \A k \in 1 .. Len(w) : v[k] = w[k]
                                /\ v[Len(w) + 1] = e
  <2>1. w \in Seq(Entries) /\ e \in Entries
    BY DEF Laid, Shaped
  <2>2. PICK v : v = Append(w, e)
    OBVIOUS
  <2>3. /\ v \in Seq(Entries) /\ Len(v) = Len(w) + 1
        /\ \A k \in 1 .. Len(w) : v[k] = w[k]
        /\ v[Len(w) + 1] = e
    <3>. PICK E : E = Entries
      OBVIOUS
    <3>1. w \in Seq(E) /\ e \in E
      BY <2>1
    <3>. QED  BY <2>2, <3>1, OneMore
  <2>. QED  BY <2>2, <2>3
<1>4. /\ Len(w) \in Nat /\ Len(c) \in Nat /\ Begin(c, w, Len(w) + 1) = Len(c)
      /\ \A k \in 1 .. Len(w) : Begin(c, w, k) = w[k].at /\ w[k].at \in Nat /\ w[k].at < Len(c)
      /\ \A k \in 1 .. Len(w) + 1 : Begin(c, w, k) \in Nat /\ Begin(c, w, k) <= Len(c)
  BY Places, Zenon
<1>5. \A k \in 1 .. Len(w) + 1 : Begin(d, v, k) = Begin(c, w, k)
  <2>1. ASSUME NEW k \in 1 .. Len(w) PROVE Begin(d, v, k) = Begin(c, w, k)
    <3>1. k <= Len(v) /\ k <= Len(w)
      BY <1>3, <1>4
    <3>. QED  BY <1>3, <3>1 DEF Begin
  <2>2. Begin(d, v, Len(w) + 1) = Begin(c, w, Len(w) + 1)
    <3>1. Len(w) + 1 <= Len(v)
      BY <1>3, <1>4
    <3>. QED  BY <1>3, <1>4, <3>1 DEF Begin
  <2>3. \A k \in 1 .. Len(w) + 1 : k \in 1 .. Len(w) \/ k = Len(w) + 1
    BY <1>4
  <2>. QED  BY <2>1, <2>2, <2>3
<1>6. Begin(d, v, Len(w) + 2) = Len(d)
  <2>1. ~(Len(w) + 2 <= Len(v))
    BY <1>3, <1>4
  <2>. QED  BY <2>1 DEF Begin
<1>7. ASSUME NEW k \in 1 .. Len(w)
      PROVE  /\ Shaped(v[k])
             /\ Begin(d, v, k + 1) = v[k].at + Len(Enc(v[k], Q))
             /\ Lies(d, v[k].at, Enc(v[k], Q))
             /\ v[k].at \in Q => v[k].op \in Distant
             /\ v[k].op \in Distant /\ v[k].at \notin Q =>
                  v[k].goto = Target(v[k].at, v[k].op, v[k].n)
  <2>1. v[k] = w[k] /\ k + 1 \in 1 .. Len(w) + 1
    BY <1>3, <1>4
  <2>2. w[k].at \in Q <=> w[k].at \in P
    <3>1. w[k].at # Len(c)
      BY <1>4
    <3>. QED  BY <3>1
  <2>3. Enc(w[k], Q) = Enc(w[k], P)
    BY <2>2, Zenon DEF Enc, Two
  <2>4. /\ Shaped(w[k])
        /\ Begin(c, w, k + 1) = w[k].at + Len(Enc(w[k], P))
        /\ Lies(c, w[k].at, Enc(w[k], P))
        /\ w[k].at \in P => w[k].op \in Distant
        /\ w[k].op \in Distant /\ w[k].at \notin P =>
             w[k].goto = Target(w[k].at, w[k].op, w[k].n)
    BY DEF Laid
  <2>5. Lies(d, w[k].at, Enc(w[k], P))
    <3>1. PICK x \in Seq(Bytes) : x = Enc(w[k], P)
      BY <2>4, EncIs
    <3>2. PICK a \in Nat : a = w[k].at
      BY <1>4
    <3>3. a + Len(x) <= Len(c)
      BY <1>4, <2>1, <2>4, <3>1, <3>2
    <3>4. ASSUME NEW j \in 1 .. Len(x) PROVE d[a + j] = x[j]
      <4>1. a + j \in 1 .. Len(c)
        BY <1>4, <3>3
      <4>2. c[a + j] = x[j]
        BY <2>4, <3>1, <3>2 DEF Lies
      <4>. QED  BY <1>2, <4>1, <4>2
    <3>. QED  BY <3>1, <3>2, <3>4 DEF Lies
  <2>6. Begin(d, v, k + 1) = Begin(c, w, k + 1)
    BY <1>5, <2>1
  <2>. QED  BY <2>1, <2>2, <2>3, <2>4, <2>5, <2>6, Zenon
<1>8. LET k == Len(w) + 1
      IN  /\ Shaped(v[k])
          /\ Begin(d, v, k + 1) = v[k].at + Len(Enc(v[k], Q))
          /\ Lies(d, v[k].at, Enc(v[k], Q))
          /\ v[k].at \in Q => v[k].op \in Distant
          /\ v[k].op \in Distant /\ v[k].at \notin Q =>
               v[k].goto = Target(v[k].at, v[k].op, v[k].n)
  <2>1. (Len(w) + 1) + 1 = Len(w) + 2
    BY <1>4
  <2>2. Begin(d, v, (Len(w) + 1) + 1) = Len(c) + Len(b)
    BY <1>2, <1>6, <2>1
  <2>3. Lies(d, Len(c), b)
    BY <1>2, Zenon DEF Lies
  <2>4. e.at \in Q => e.op \in Distant
    <3>1. Len(c) \notin P
      <4>1. ASSUME NEW k \in 1 .. Len(w) PROVE w[k].at # Len(c)
        BY <1>4
      <4>. QED  BY <4>1, Zenon DEF Laid
    <3>. QED  BY <3>1
  <2>. QED  BY <1>1, <1>3, <2>2, <2>3, <2>4, Zenon
<1>9. Begin(d, v, 1) = 0
  <2>1. 1 \in 1 .. Len(w) + 1
    BY <1>4
  <2>. QED  BY <1>5, <2>1 DEF Laid
<1>10. Q \subseteq {v[k].at : k \in 1 .. Len(v)}
  <2>1. \A k \in 1 .. Len(w) : k \in 1 .. Len(v)
    BY <1>3, <1>4
  <2>2. Len(w) + 1 \in 1 .. Len(v)
    BY <1>3, <1>4
  <2>3. ASSUME NEW q \in P PROVE \E k \in 1 .. Len(v) : q = v[k].at
    <3>1. PICK k \in 1 .. Len(w) : q = w[k].at
      BY DEF Laid
    <3>. QED  BY <1>3, <2>1, <3>1
  <2>4. Len(c) = v[Len(w) + 1].at
    BY <1>3
  <2>. QED  BY <2>2, <2>3, <2>4
<1>11. \A k \in 1 .. Len(v) : k \in 1 .. Len(w) \/ k = Len(w) + 1
  BY <1>3, <1>4
<1>12. Laid(d, v, Q)
  BY <1>7, <1>8, <1>9, <1>10, <1>11, Zenon DEF Laid
<1>. QED  BY <1>1, <1>2, <1>3, <1>12

LEMMA LeadingIs ==
  ASSUME NEW i, Shaped(i), i.op \in Distant, NEW n \in Distances, NEW e, e = Leading(i, n)
  PROVE  /\ Shaped(e) /\ e.n = n /\ e.goto = Target(i.at, i.op, n)
         /\ e.at = i.at /\ e.op = i.op /\ e.number = i.number /\ e.texts = i.texts
         /\ e.types = i.types /\ e.rets = i.rets
<1>1. PICK at, op, number, m, goto, texts, types, rets :
        /\ at = i.at /\ op = i.op /\ number = i.number /\ m = i.n /\ goto = i.goto
        /\ texts = i.texts /\ types = i.types /\ rets = i.rets
  OBVIOUS
<1>2. i = [at |-> at, op |-> op, number |-> number, n |-> m, goto |-> goto,
           texts |-> texts, types |-> types, rets |-> rets]
  BY <1>1, Fields, Zenon DEF IsRecord
<1>3. PICK t : t = Target(at, op, n)
  OBVIOUS
<1>4. Leading(i, n) = [at |-> at, op |-> op, number |-> number, n |-> n, goto |-> t,
                       texts |-> texts, types |-> types, rets |-> rets]
  <2>1. Leading(i, n) = [i EXCEPT !.n = n, !.goto = t]
    BY <1>1, <1>3, Zenon DEF Leading
  <2>. QED  BY <1>2, <2>1
<1>5. PICK j : j = [at |-> at, op |-> op, number |-> number, n |-> n, goto |-> t,
                    texts |-> texts, types |-> types, rets |-> rets]
  OBVIOUS
<1>6. /\ j.at = at /\ j.op = op /\ j.number = number /\ j.n = n /\ j.goto = t
      /\ j.texts = texts /\ j.types = types /\ j.rets = rets
  BY <1>5
<1>7. t \in Int
  <2>1. at \in Nat /\ n \in Nat
    <3>1. n \in Nat
      BY DEF Distances
    <3>. QED  BY <1>1, <3>1, Fields, Zenon
  <2>2. at - n \in Int /\ at + 1 + n \in Int /\ at + n \in Int
    BY <2>1
  <2>. QED  BY <1>3, <2>2, Zenon DEF Target
<1>8. j \in Entries
  BY <1>1, <1>5, <1>7, Fields, EntryIn, Zenon
<1>9. Shaped(j)
  BY <1>1, <1>6, <1>8, Zenon DEF Shaped
<1>. QED  BY <1>1, <1>3, <1>4, <1>5, <1>6, <1>9, Zenon

LEMMA DistantWidth ==
  ASSUME NEW i, Shaped(i), i.op \in Distant, NEW P
  PROVE  Len(Enc(i, P)) \in Nat /\ Len(Enc(i, P)) >= 3
<1>1. PICK two \in Seq(Bytes) : two = Two(i, P) /\ Len(two) = 2
  BY TwoIs
<1>2. Len(Operands(i, two)) \in Nat /\ Len(Operands(i, two)) >= 2
  <2>1. CASE i.op \in JumpOps
    <3>1. i.op \in ToSet(OpCodes)
      BY Fields
    <3>2. Operands(i, two) = two
      BY <2>1, <3>1, OperandsAre, Zenon
    <3>3. Len(two) \in Nat /\ Len(two) >= 2
      BY <1>1
    <3>. QED  BY <3>2, <3>3, Zenon
  <2>2. CASE i.op = "OP_DEC_FUNCTION"
    <3>1. PICK f \in Seq(Bytes) : f = Joined(Tail(i.texts))
      BY <2>2, NamesAre, JoinedIs
    <3>2. PICK x, y, z, l \in Nat :
            x = Len(i.texts[1]) /\ y = Len(i.types) /\ z = Len(i.rets) /\ l = Len(f)
      <4>1. Len(i.texts[1]) \in Nat /\ Len(i.types) \in Nat /\ Len(i.rets) \in Nat /\ Len(f) \in Nat
        BY <2>2, NamesAre DEF Bytes
      <4>. QED  BY <4>1, Zenon
    <3>3. Len(Operands(i, two)) = 5 + x + y + l + z
      BY <1>1, <2>2, <3>1, <3>2, HeaderBytes, Zenon
    <3>. QED  BY <3>3
  <2>. QED  BY <2>1, <2>2 DEF Distant
<1>3. Len(Enc(i, P)) = 1 + Len(Operands(i, two))
  BY <1>1, EncIs
<1>. QED  BY <1>2, <1>3

\* The distance of an instruction is filled in.
LEMMA LaidPatch ==
  ASSUME NEW c, NEW w, NEW P, Laid(c, w, P), NEW i \in 1 .. Len(w), w[i].at \in P,
         NEW n \in Distances,
         NEW d \in Seq(Bytes), Len(d) = Len(c),
         d[w[i].at + 2] = TwoBytes(n)[1], d[w[i].at + 3] = TwoBytes(n)[2],
         \A x \in 1 .. Len(c) : x # w[i].at + 2 /\ x # w[i].at + 3 => d[x] = c[x],
         NEW v \in Seq(Entries), Len(v) = Len(w), v[i] = Leading(w[i], n),
         \A k \in 1 .. Len(w) : k # i => v[k] = w[k]
  PROVE  Laid(d, v, P \ {w[i].at})
<1>. DEFINE Q == P \ {w[i].at}
<1>1. /\ Len(w) \in Nat /\ Len(c) \in Nat /\ Begin(c, w, Len(w) + 1) = Len(c)
      /\ \A k \in 1 .. Len(w) : Begin(c, w, k) = w[k].at /\ w[k].at \in Nat /\ w[k].at < Len(c)
      /\ \A k \in 1 .. Len(w) + 1 : Begin(c, w, k) \in Nat /\ Begin(c, w, k) <= Len(c)
  BY Places, Zenon
<1>2. PICK a \in Nat : a = w[i].at
  BY <1>1
<1>3. PICK two \in Seq(Bytes) : two = TwoBytes(n) /\ Len(two) = 2
  BY TwoBytesIs
<1>4. Shaped(w[i]) /\ w[i].op \in Distant
  BY DEF Laid
<1>5. PICK e : e = v[i]
  OBVIOUS
<1>6. /\ Shaped(e) /\ e.at = a /\ e.op = w[i].op /\ e.number = w[i].number
      /\ e.texts = w[i].texts /\ e.types = w[i].types /\ e.rets = w[i].rets
      /\ e.n = n /\ e.goto = Target(a, w[i].op, n)
  <2>1. e = Leading(w[i], n)
    BY <1>5
  <2>2. PICK old : old = w[i]
    OBVIOUS
  <2>3. Shaped(old) /\ old.op \in Distant /\ old.at = a /\ e = Leading(old, n)
    BY <1>2, <1>4, <2>1, <2>2
  <2>4. /\ Shaped(e) /\ e.n = n /\ e.goto = Target(old.at, old.op, n)
        /\ e.at = old.at /\ e.op = old.op /\ e.number = old.number /\ e.texts = old.texts
        /\ e.types = old.types /\ e.rets = old.rets
    BY <2>3, LeadingIs
  <2>. QED  BY <2>2, <2>3, <2>4, Zenon
<1>7. \A k \in 1 .. Len(w) : v[k].at = w[k].at
  BY <1>2, <1>5, <1>6
<1>8. w[i].at + Len(Enc(w[i], P)) = Begin(c, w, i + 1) /\ Lies(c, w[i].at, Enc(w[i], P))
  BY DEF Laid
<1>9. a + 3 <= Begin(c, w, i + 1) /\ Begin(c, w, i + 1) \in Nat /\ a + 3 <= Len(c)
  <2>1. PICK l \in Nat : l = Len(Enc(w[i], P)) /\ l >= 3
    BY <1>4, DistantWidth
  <2>2. i + 1 \in 1 .. Len(w) + 1
    BY <1>1
  <2>3. PICK b \in Nat : b = Begin(c, w, i + 1) /\ b <= Len(c)
    BY <1>1, <2>2
  <2>4. a + l = b
    BY <1>2, <1>8, <2>1, <2>3, ZenonT(30)
  <2>5. a \in Nat
    BY <1>1, <1>2
  <2>6. a + 3 <= b /\ a + 3 <= Len(c)
    BY <2>1, <2>3, <2>4, <2>5
  <2>. QED  BY <2>3, <2>6
<1>10. /\ d[a + 2] = two[1] /\ d[a + 3] = two[2]
       /\ \A x \in 1 .. Len(c) : x # a + 2 /\ x # a + 3 => d[x] = c[x]
  BY <1>2, <1>3, Zenon
<1>11. ASSUME NEW k \in 1 .. Len(w) + 1 PROVE Begin(d, v, k) = Begin(c, w, k)
  <2>1. CASE k <= Len(w)
    <3>1. k \in 1 .. Len(w)
      BY <1>1, <2>1
    <3>. QED  BY <1>7, <2>1, <3>1, Zenon DEF Begin
  <2>2. CASE ~(k <= Len(w))
    BY <2>2, Zenon DEF Begin
  <2>. QED  BY <2>1, <2>2
<1>12. ASSUME NEW k \in 1 .. Len(w), k # i
       PROVE  /\ Shaped(v[k])
              /\ Begin(d, v, k + 1) = v[k].at + Len(Enc(v[k], Q))
              /\ Lies(d, v[k].at, Enc(v[k], Q))
              /\ v[k].at \in Q => v[k].op \in Distant
              /\ v[k].op \in Distant /\ v[k].at \notin Q =>
                   v[k].goto = Target(v[k].at, v[k].op, v[k].n)
  <2>1. v[k] = w[k] /\ k + 1 \in 1 .. Len(w) + 1
    BY <1>1, <1>12
  <2>2. w[k].at # w[i].at
    BY <1>12, PlacesDiffer
  <2>3. Enc(w[k], Q) = Enc(w[k], P)
    BY <2>2, Zenon DEF Enc, Two
  <2>4. /\ Shaped(w[k])
        /\ Begin(c, w, k + 1) = w[k].at + Len(Enc(w[k], P))
        /\ Lies(c, w[k].at, Enc(w[k], P))
        /\ w[k].at \in P => w[k].op \in Distant
        /\ w[k].op \in Distant /\ w[k].at \notin P =>
             w[k].goto = Target(w[k].at, w[k].op, w[k].n)
    BY Zenon DEF Laid
  <2>5. Lies(d, w[k].at, Enc(w[k], P))
    <3>1. PICK x \in Seq(Bytes) : x = Enc(w[k], P)
      BY <2>4, EncIs
    <3>2. PICK b \in Nat : b = w[k].at
      BY <1>1
    <3>3. PICK m, l, y \in Nat : m = Begin(c, w, k + 1) /\ l = Len(x) /\ y = Begin(c, w, i + 1)
      <4>1. Begin(c, w, k + 1) \in Nat /\ Len(x) \in Nat
        BY <1>1, <2>1
      <4>. QED  BY <1>9, <4>1, Zenon
    <3>4. m = b + l /\ m <= Len(c)
      BY <1>1, <2>1, <2>4, <3>1, <3>2, <3>3
    <3>5. m <= a \/ a + 3 <= b
      <4>1. i + 1 \in 1 .. Len(w) + 1 /\ i \in 1 .. Len(w) + 1 /\ k \in 1 .. Len(w) + 1
        BY <1>1
      <4>2. Begin(c, w, i) = a /\ Begin(c, w, k) = b
        BY <1>1, <1>2, <3>2
      <4>3. CASE k < i
        <5>1. k + 1 = i \/ k + 1 < i
          BY <4>3
        <5>2. k + 1 < i => m < a
          BY <2>1, <3>3, <4>1, <4>2, BeginGrows, Zenon
        <5>. QED  BY <3>3, <4>2, <5>1, <5>2
      <4>4. CASE i < k
        <5>1. i + 1 = k \/ i + 1 < k
          BY <4>4
        <5>2. i + 1 < k => y < b
          BY <3>3, <4>1, <4>2, BeginGrows, Zenon
        <5>. QED  BY <1>9, <3>3, <4>2, <5>1, <5>2, SMTT(40)
      <4>. QED  BY <1>12, <4>3, <4>4
    <3>6. ASSUME NEW j \in 1 .. Len(x) PROVE d[b + j] = x[j]
      <4>0. j \in 1 .. l
        BY <3>3
      <4>1. b + j \in 1 .. Len(c) /\ b + j # a + 2 /\ b + j # a + 3
        BY <1>1, <3>4, <3>5, <4>0, SMTT(40)
      <4>2. c[b + j] = x[j]
        BY <2>4, <3>1, <3>2, Zenon DEF Lies
      <4>. QED  BY <1>10, <4>1, <4>2, Zenon
    <3>. QED  BY <3>1, <3>2, <3>6, Zenon DEF Lies
  <2>6. Begin(d, v, k + 1) = Begin(c, w, k + 1)
    BY <1>11, <2>1
  <2>7. w[k].at \in Q <=> w[k].at \in P
    BY <2>2
  <2>. QED  BY <2>1, <2>3, <2>4, <2>5, <2>6, <2>7, Zenon
<1>13. /\ Shaped(v[i])
       /\ Begin(d, v, i + 1) = v[i].at + Len(Enc(v[i], Q))
       /\ Lies(d, v[i].at, Enc(v[i], Q))
       /\ v[i].at \in Q => v[i].op \in Distant
       /\ v[i].op \in Distant /\ v[i].at \notin Q =>
            v[i].goto = Target(v[i].at, v[i].op, v[i].n)
  <2>1. a \notin Q
    BY <1>2
  <2>2. Enc(e, Q) = Code(e, two)
    BY <1>3, <1>6, <2>1, Zenon DEF Enc, Two
  <2>3. PICK t2 \in Seq(Bytes) : t2 = Two(w[i], P) /\ Len(t2) = 2
    BY <1>4, TwoIs
  <2>4. Enc(w[i], P) = Code(w[i], t2)
    BY <2>3 DEF Enc
  <2>5. Len(Code(e, two)) = Len(Code(w[i], t2))
    <3>1. Shaped(w[i])
      BY <1>4
    <3>. QED  BY <1>3, <1>6, <2>3, <3>1, SameWidth
  <2>6. i + 1 \in 1 .. Len(w) + 1
    BY <1>1
  <2>7. Begin(d, v, i + 1) = a + Len(Enc(e, Q))
    BY <1>2, <1>8, <1>11, <2>2, <2>4, <2>5, <2>6, Zenon
  <2>8. Lies(d, a, Code(e, two))
    <3>1. PICK y \in Seq(Bytes) : y = Code(e, two)
      BY <1>3, <1>6, CodeIs
    <3>2. PICK l \in Nat : l = Len(y)
      OBVIOUS
    <3>3. a + l <= Len(c)
      BY <1>1, <1>2, <1>8, <2>4, <2>5, <2>6, <3>1, <3>2
    <3>4. PICK r : r = [x \in Nat |-> IF x \in 1 .. Len(c) THEN d[x] ELSE c[x]]
      OBVIOUS
    <3>5. \A x \in Nat : (x \in 1 .. Len(c) => r[x] = d[x]) /\ (x \notin 1 .. Len(c) => r[x] = c[x])
      BY <3>4
    <3>6. a + 1 \in 1 .. Len(c) /\ a + 2 \in 1 .. Len(c) /\ a + 3 \in 1 .. Len(c)
          /\ a + 1 \in Nat /\ a + 2 \in Nat /\ a + 3 \in Nat /\ a + 1 # a + 2 /\ a + 1 # a + 3
      BY <1>1, <1>9, SMTT(40)
    <3>7. r[a + 1] = c[a + 1] /\ r[a + 2] = two[1] /\ r[a + 3] = two[2]
      BY <1>10, <3>5, <3>6, Zenon
    <3>8. SameBehind(r, c, a + 3)
      <4>1. ASSUME NEW x \in Nat, x > a + 3 PROVE r[x] = c[x]
        <5>1. x # a + 2 /\ x # a + 3
          BY <4>1
        <5>. QED  BY <1>10, <3>5, <5>1, Zenon
      <4>. QED  BY <4>1, Zenon DEF SameBehind
    <3>9. Lies(r, a, Code(e, two))
      <4>1. Lies(c, a, Code(w[i], t2))
        BY <1>2, <1>8, <2>4
      <4>2. Shaped(w[i]) /\ w[i].op \in Distant /\ Shaped(e)
        BY <1>4, <1>6
      <4>3. PICK old : old = w[i]
        OBVIOUS
      <4>4. /\ Shaped(old) /\ old.op \in Distant /\ Shaped(e) /\ Lies(c, a, Code(old, t2))
            /\ e.op = old.op /\ e.texts = old.texts /\ e.types = old.types /\ e.rets = old.rets
        BY <1>6, <4>1, <4>2, <4>3
      <4>. HIDE DEF Q
      <4>. QED  BY <1>3, <2>3, <3>7, <3>8, <4>4, PatchedCode
    <3>10. ASSUME NEW j \in 1 .. Len(y) PROVE d[a + j] = y[j]
      <4>0. j \in 1 .. l
        BY <3>2
      <4>1. a + j \in 1 .. Len(c) /\ a + j \in Nat
        BY <1>1, <3>3, <4>0
      <4>2. r[a + j] = y[j]
        BY <3>1, <3>9, Zenon DEF Lies
      <4>. QED  BY <3>5, <4>1, <4>2, Zenon
    <3>. QED  BY <3>1, <3>10, Zenon DEF Lies
  <2>. QED  BY <1>5, <1>6, <2>1, <2>2, <2>7, <2>8, Zenon
<1>14. Begin(d, v, 1) = 0
  <2>1. 1 \in 1 .. Len(w) + 1
    BY <1>1
  <2>. QED  BY <1>11, <2>1, Zenon DEF Laid
<1>15. Q \subseteq {v[k].at : k \in 1 .. Len(v)}
  <2>1. ASSUME NEW q \in Q PROVE \E k \in 1 .. Len(v) : q = v[k].at
    <3>1. PICK k \in 1 .. Len(w) : q = w[k].at
      BY DEF Laid
    <3>. QED  BY <1>7, <3>1, Zenon
  <2>. QED  BY <2>1
<1>16. \A k \in 1 .. Len(v) : k = i \/ (k \in 1 .. Len(w) /\ k # i)
  BY Zenon
<1>. QED  BY <1>12, <1>13, <1>14, <1>15, <1>16, Zenon DEF Laid

\* A chunk is its instructions, one after the other.
LEMMA LaidIs ==
  ASSUME NEW c, NEW w, NEW P, Laid(c, w, P)
  PROVE  c = FlattenSeq([k \in 1 .. Len(w) |-> Enc(w[k], P)])
<1>. DEFINE tx == [k \in 1 .. Len(w) |-> Enc(w[k], P)]
            F == [k \in 1 .. Len(w) |-> SubSeq(c, 1, Begin(c, w, k + 1))]
<1>1. /\ Len(w) \in Nat /\ Len(c) \in Nat /\ Begin(c, w, Len(w) + 1) = Len(c)
      /\ \A k \in 1 .. Len(w) :
              Begin(c, w, k) = w[k].at /\ w[k].at \in Nat /\ w[k].at < Len(c)
      /\ \A k \in 1 .. Len(w) + 1 : Begin(c, w, k) \in Nat /\ Begin(c, w, k) <= Len(c)
  BY Places, Zenon
<1>2. c \in Seq(Bytes) /\ Begin(c, w, 1) = 0
  BY Zenon DEF Laid
<1>3. Len(tx) = Len(w) /\ Len(tx) \in Nat /\ \A k \in 1 .. Len(w) : tx[k] = Enc(w[k], P)
  BY <1>1
<1>4. CASE Len(w) = 0
  <2>1. tx = <<>>
    BY <1>3, <1>4
  <2>2. FlattenSeq(tx) = <<>>
    BY <1>3, <1>4, <2>1 DEF FlattenSeq
  <2>3. Len(c) = 0
    BY <1>1, <1>2, <1>4
  <2>4. c = <<>>
    BY <1>2, <2>3
  <2>. QED  BY <2>2, <2>4
<1>5. CASE Len(w) # 0
  <2>1. ASSUME NEW k \in 1 .. Len(w)
        PROVE  SubSeq(c, 1, Begin(c, w, k + 1)) = SubSeq(c, 1, Begin(c, w, k)) \o tx[k]
    <3>1. PICK x \in Seq(Bytes) : x = tx[k]
      BY <1>3, EncIs, Zenon DEF Laid
    <3>2. k \in 1 .. Len(w) + 1 /\ k + 1 \in 1 .. Len(w) + 1
      BY <1>1
    <3>3. PICK a, b \in Nat : a = Begin(c, w, k) /\ b = Begin(c, w, k + 1) /\ b <= Len(c)
      BY <1>1, <3>2, Zenon
    <3>4. b = a + Len(x) /\ Lies(c, a, x)
      BY <1>1, <1>3, <3>1, <3>3, Zenon DEF Laid
    <3>5. SubSeq(c, 1, b) = SubSeq(c, 1, a) \o x
      BY <1>2, <3>3, <3>4, CutOff
    <3>. QED  BY <3>1, <3>3, <3>5, Zenon
  <2>. HIDE DEF tx
  <2>2. F[1] = tx[1]
    <3>1. 1 \in 1 .. Len(w) /\ 1 \in Nat /\ 1 + 1 = 2
      BY <1>1, <1>5
    <3>2. SubSeq(c, 1, Begin(c, w, 1)) = <<>>
      BY <1>2
    <3>3. SubSeq(c, 1, Begin(c, w, 2)) = <<>> \o tx[1]
      BY <2>1, <3>1, <3>2, Zenon
    <3>4. <<>> \o tx[1] = tx[1]
      <4>1. PICK x \in Seq(Bytes) : x = tx[1]
        BY <1>3, <3>1, EncIs, Zenon DEF Laid
      <4>2. <<>> \o x = x
        OBVIOUS
      <4>. QED  BY <4>1, <4>2, Zenon
    <3>5. F[1] = SubSeq(c, 1, Begin(c, w, 1 + 1))
      BY <3>1, Zenon
    <3>. QED  BY <3>1, <3>3, <3>4, <3>5, Zenon
  <2>3. ASSUME NEW m \in 1 .. Len(w) - 1 PROVE F[m + 1] = F[m] \o tx[m + 1]
    <3>1. m \in 1 .. Len(w) /\ m + 1 \in 1 .. Len(w)
      BY <1>1
    <3>. QED  BY <2>1, <3>1, Zenon
  <2>4. FlattenSeq(tx) = F[Len(w)]
    <3>. HIDE DEF F
    <3>. QED  BY <1>3, <1>5, <2>2, <2>3, FlattenBy
  <2>5. F[Len(w)] = SubSeq(c, 1, Len(c))
    <3>1. Len(w) \in 1 .. Len(w)
      BY <1>1, <1>5
    <3>. QED  BY <1>1, <3>1, Zenon
  <2>6. SubSeq(c, 1, Len(c)) = c
    BY <1>2
  <2>. QED  BY <2>4, <2>5, <2>6 DEF tx
<1>. QED  BY <1>4, <1>5

-----------------------------------------------------------------------------
(* What is read *)

LEMMA ReversedTwice ==
  ASSUME NEW S, NEW s \in Seq(S)
  PROVE  Reverse(s) \in Seq(S) /\ Len(Reverse(s)) = Len(s) /\ Reverse(Reverse(s)) = s
<1>1. PICK n \in Nat : n = Len(s)
  OBVIOUS
<1>2. PICK r : r = Reverse(s)
  OBVIOUS
<1>3. r = [k \in 1 .. n |-> s[(n - k) + 1]]
  BY <1>1, <1>2 DEF Reverse
<1>4. \A k \in 1 .. n : (n - k) + 1 \in 1 .. n /\ (n - ((n - k) + 1)) + 1 = k
  OBVIOUS
<1>5. \A k \in 1 .. n : s[k] \in S
  BY <1>1
<1>6. r \in [1 .. n -> S]
  BY <1>3, <1>4, <1>5
<1>7. r \in Seq(S) /\ Len(r) = n
  BY <1>6
<1>8. PICK t : t = Reverse(r)
  OBVIOUS
<1>9. t = [k \in 1 .. n |-> r[(n - k) + 1]]
  BY <1>7, <1>8 DEF Reverse
<1>10. \A k \in 1 .. n : t[k] = s[k]
  <2>1. ASSUME NEW k \in 1 .. n PROVE t[k] = s[k]
    <3>1. PICK l \in 1 .. n : l = (n - k) + 1 /\ (n - l) + 1 = k
      BY <1>4
    <3>2. t[k] = r[l] /\ r[l] = s[(n - l) + 1]
      BY <1>3, <1>9, <3>1
    <3>. QED  BY <3>1, <3>2
  <2>. QED  BY <2>1
<1>11. t \in [1 .. n -> S]
  <2>1. \A k \in 1 .. n : t[k] \in S
    BY <1>5, <1>10
  <2>. QED  BY <1>9, <2>1
<1>12. t \in Seq(S) /\ Len(t) = n
  BY <1>11
<1>13. t = s
  BY <1>1, <1>10, <1>12, SameSequence
<1>. QED  BY <1>1, <1>2, <1>7, <1>8, <1>13

\* What is written has one byte order, and what is read is what was written.
LEMMA OneOrder ==
  ASSUME NEW b \in Seq(Bytes)
  PROVE  Stored(b) = b /\ Loaded(b) = b
<1>1. Reverse(Reverse(b)) = b
  BY ReversedTwice
<1>2. CASE order = "big"
  BY <1>2, Zenon DEF Stored, Loaded, transpose, InMemory
<1>3. CASE order # "big"
  BY <1>1, <1>3, Zenon DEF Stored, Loaded, transpose, InMemory
<1>. QED  BY <1>2, <1>3

LEMMA SliceIs ==
  ASSUME NEW S, content \in Seq(S), NEW p \in Nat, NEW t \in Seq(S),
         p + Len(t) <= Len(content), Lies(content, p, t)
  PROVE  Slice(p, Len(t)) = t
<1>1. PICK s : s = SubSeq(content, p + 1, p + Len(t))
  OBVIOUS
<1>2. s \in Seq(S) /\ Len(s) = Len(t)
  BY <1>1
<1>3. \A j \in 1 .. Len(t) : s[j] = t[j]
  <2>1. ASSUME NEW j \in 1 .. Len(t) PROVE s[j] = t[j]
    <3>1. s[j] = content[p + j]
      BY <1>1
    <3>2. content[p + j] = t[j]
      BY DEF Lies
    <3>. QED  BY <3>1, <3>2
  <2>. QED  BY <2>1
<1>4. s = t
  BY <1>2, <1>3, SameSequence
<1>. QED  BY <1>1, <1>4 DEF Slice

LEMMA BehindIs ==
  ASSUME NEW n, NEW p \in Nat, Len(content) \in Nat, HasTexts(n, p)
  PROVE  /\ Behind(n, p) \in Nat /\ p <= Behind(n, p) /\ Behind(n, p) <= Len(content)
         /\ Ends(content, n, p, Behind(n, p))
<1>1. PICK q : q = Behind(n, p)
  OBVIOUS
<1>2. q \in p .. Len(content) /\ EndAt(n, p, q)
  BY <1>1, Zenon DEF Behind, HasTexts
<1>3. q \in Nat /\ p <= q /\ q <= Len(content)
  BY <1>2
<1>4. Ends(content, n, p, q)
  BY <1>2, <1>3, EndAtIs
<1>. QED  BY <1>1, <1>3, <1>4

LEMMA BehindOnly ==
  ASSUME NEW n, NEW p \in Nat, Len(content) \in Nat, NEW q \in Nat, p <= q, q <= Len(content),
         Ends(content, n, p, q)
  PROVE  HasTexts(n, p) /\ Behind(n, p) = q
<1>1. q \in p .. Len(content) /\ EndAt(n, p, q)
  BY EndAtIs
<1>2. HasTexts(n, p)
  BY <1>1 DEF HasTexts
<1>. QED  BY <1>2, BehindIs, EndsUnique

\* Where texts end in two sequences that agree as far as z.
LEMMA FoundInBoth ==
  ASSUME NEW s, NEW c, NEW z \in Nat, \A j \in 1 .. z : s[j] = c[j], NEW n,
         NEW p \in Nat, NEW q \in Nat, NEW r \in Nat, p <= q, p <= r,
         Ends(s, n, p, q), Ends(c, n, p, r)
  PROVE  q = r \/ (q > z /\ r > z)
<1>1. CASE q <= z
  <2>1. \A j \in p + 1 .. q : s[j] = c[j]
    <3>1. \A j \in p + 1 .. q : j \in 1 .. z
      BY <1>1
    <3>. QED  BY <3>1
  <2>2. Ends(c, n, p, q)
    BY <2>1, EndsAgree
  <2>. QED  BY <2>2, EndsUnique
<1>2. CASE r <= z
  <2>1. \A j \in p + 1 .. r : c[j] = s[j]
    <3>1. \A j \in p + 1 .. r : j \in 1 .. z
      BY <1>2
    <3>. QED  BY <3>1
  <2>2. Ends(s, n, p, r)
    BY <2>1, EndsAgree
  <2>. QED  BY <2>2, EndsUnique
<1>. QED  BY <1>1, <1>2

\* The first zero from p on ends a text.
LEMMA ZeroEnds ==
  ASSUME NEW s, NEW p \in Nat, NEW z \in Nat, p < z, s[z] = 0
  PROVE  \E q \in Nat : p < q /\ q <= z /\ Ends(s, 1, p, q)
<1>. DEFINE Z == {q \in Nat : p < q /\ q <= z /\ s[q] = 0}
<1>1. PICK q \in Z : \A r \in Z : q <= r
  <2>1. z \in Z /\ Z \in SUBSET Nat
    OBVIOUS
  <2>. HIDE DEF Z
  <2>. QED  BY <2>1, Least
<1>2. PICK l \in Nat : q = p + l + 1
  <2>1. q - p - 1 \in Nat /\ q = p + (q - p - 1) + 1
    BY <1>1
  <2>. QED  BY <2>1
<1>3. \A j \in 1 .. l : s[p + j] # 0
  <2>1. ASSUME NEW j \in 1 .. l, s[p + j] = 0 PROVE FALSE
    <3>1. p + j \in Z /\ p + j < q
      BY <1>1, <1>2, <2>1
    <3>. QED  BY <1>1, <3>1
  <2>. QED  BY <2>1
<1>4. Ends(s, 0, p, p)
  <2>1. Zeros(s, p, p) = {}
    BY DEF Zeros
  <2>. QED  BY <2>1, FS_EmptySet DEF Ends
<1>5. Ends(s, 0 + 1, p, p + l + 1)
  <2>1. 0 \in Nat /\ p <= p /\ s[p + l + 1] = 0
    BY <1>1, <1>2
  <2>. QED  BY <1>3, <1>4, <2>1, EndsNext
<1>6. 0 + 1 = 1
  OBVIOUS
<1>. QED  BY <1>1, <1>2, <1>5, <1>6

\* Where an instruction ends whose distance is known.
End(i) == i.at + Len(Enc(i, {}))

\* The disassembler is at an instruction of the compiler, perhaps in a file that lacks its
\* last bytes.
Meets(i) ==
  /\ Shaped(i)
  /\ content \in Seq(Bytes) /\ size \in Nat /\ size <= Len(content)
  /\ \/ Len(content) = size + 1 /\ content[size + 1] = 0
     \/ Len(content) = size /\ End(i) <= size
  /\ \A j \in 1 .. size : content[j] = code[j]
  /\ position = i.at /\ position < size
  /\ Lies(code, position, Enc(i, {}))

LEMMA Met ==
  ASSUME NEW i, Meets(i)
  PROVE  /\ position \in Nat /\ End(i) \in Nat /\ Len(content) \in Nat /\ size \in Nat
         /\ position < size /\ size <= Len(content)
         /\ Instruction = i.op /\ i.op \in ToSet(OpCodes)
         /\ \E two \in Seq(Bytes) :
              /\ two = TwoBytes(i.n) /\ Len(two) = 2
              /\ Operands(i, two) \in Seq(Bytes)
              /\ End(i) = position + 1 + Len(Operands(i, two))
              /\ Lies(code, position + 1, Operands(i, two))
<1>1. Shaped(i) /\ position = i.at /\ position \in Nat /\ i.op \in ToSet(OpCodes) /\ i.n \in Distances
  BY Fields, Zenon DEF Meets
<1>2. PICK two \in Seq(Bytes) : two = TwoBytes(i.n) /\ Len(two) = 2
  BY <1>1, TwoBytesIs
<1>3. Two(i, {}) = two
  BY <1>2 DEF Two
<1>4. PICK o \in Seq(Bytes) : o = Operands(i, two)
  BY <1>1, <1>2, OperandsTyped
<1>5. Len(Enc(i, {})) = 1 + Len(o)
  BY <1>1, <1>3, <1>4, EncIs
<1>6. code[position + 1] = Opcode[i.op] /\ Lies(code, position + 1, o)
  <2>1. Lies(code, position, Enc(i, {}))
    BY DEF Meets
  <2>2. \A s : \A p \in Nat : Lies(s, p, Enc(i, {})) <=>
          s[p + 1] = Opcode[i.op] /\ Lies(s, p + 1, Operands(i, Two(i, {})))
    BY <1>1, EncIs
  <2>. QED  BY <1>1, <1>3, <1>4, <2>1, <2>2, Zenon
<1>7. End(i) = position + 1 + Len(o) /\ End(i) \in Nat
  BY <1>1, <1>5 DEF End
<1>8. content \in Seq(Bytes) /\ size \in Nat /\ size <= Len(content) /\ position < size
  BY Zenon DEF Meets
<1>9. Len(content) \in Nat
  BY <1>8
<1>10. content[position + 1] = code[position + 1]
  <2>1. position + 1 \in 1 .. size
    BY <1>1, <1>8
  <2>. QED  BY <2>1, Zenon DEF Meets
<1>11. Instruction = i.op
  <2>1. Current = Opcode[i.op]
    BY <1>6, <1>10 DEF Current, ByteAt
  <2>2. Current < Len(OpCodes) /\ OpCodes[Current + 1] = i.op
    BY <1>1, <2>1, OpcodeIs
  <2>. QED  BY <2>2 DEF Instruction
<1>. QED  BY <1>1, <1>2, <1>4, <1>6, <1>7, <1>8, <1>9, <1>11, Zenon

\* What lies inside the part that was kept can be read.
LEMMA MetLies ==
  ASSUME NEW i, Meets(i), NEW S, NEW t \in Seq(S), NEW p \in Nat, Lies(code, p, t), p + Len(t) <= size
  PROVE  Lies(content, p, t)
<1>1. ASSUME NEW j \in 1 .. Len(t) PROVE content[p + j] = t[j]
  <2>1. p + j \in 1 .. size
    BY DEF Meets
  <2>2. content[p + j] = code[p + j]
    BY <2>1, Zenon DEF Meets
  <2>3. code[p + j] = t[j]
    BY Zenon DEF Lies
  <2>. QED  BY <2>2, <2>3
<1>. QED  BY <1>1 DEF Lies

LEMMA MetSlice ==
  ASSUME NEW i, Meets(i), NEW t \in Seq(Bytes), NEW p \in Nat, Lies(code, p, t), p + Len(t) <= size
  PROVE  Slice(p, Len(t)) = t
<1>1. Lies(content, p, t)
  BY MetLies
<1>2. content \in Seq(Bytes) /\ p + Len(t) <= Len(content)
  <2>1. size \in Nat /\ size <= Len(content) /\ Len(content) \in Nat /\ Len(t) \in Nat
    BY Met
  <2>2. content \in Seq(Bytes)
    BY DEF Meets
  <2>. QED  BY <2>1, <2>2
<1>. QED  BY <1>1, <1>2, SliceIs

LEMMA MetByte ==
  ASSUME NEW i, Meets(i), NEW p \in Nat, p < size
  PROVE  ByteAt(p) = code[p + 1] /\ Allocated(p) /\ ByteAt(p) \in Bytes
<1>1. p + 1 \in 1 .. size /\ p < Len(content) /\ p + 1 \in 1 .. Len(content)
  BY Met
<1>2. content[p + 1] \in Bytes
  BY <1>1 DEF Meets
<1>3. content[p + 1] = code[p + 1]
  BY <1>1, Zenon DEF Meets
<1>. QED  BY <1>1, <1>2, <1>3 DEF ByteAt, Allocated

LEMMA MetTexts ==
  ASSUME NEW i, Meets(i), NEW n, NEW p \in Nat, NEW e \in Nat, p <= e, Ends(code, n, p, e)
  PROVE  /\ e <= size => HasTexts(n, p) /\ Behind(n, p) = e
         /\ HasTexts(n, p) => \/ Behind(n, p) = e
                              \/ Behind(n, p) > size /\ e > size
<1>0. Len(content) \in Nat /\ size \in Nat /\ size <= Len(content)
  BY Met
<1>1. ASSUME e <= size PROVE HasTexts(n, p) /\ Behind(n, p) = e
  <2>1. ASSUME NEW j \in p + 1 .. e PROVE code[j] = content[j]
    <3>1. j \in 1 .. size
      BY <1>0, <1>1
    <3>. QED  BY <3>1, Zenon DEF Meets
  <2>2. Ends(content, n, p, e)
    BY <2>1, EndsAgree
  <2>3. e <= Len(content)
    BY <1>0, <1>1
  <2>. QED  BY <1>0, <2>2, <2>3, BehindOnly
<1>2. ASSUME HasTexts(n, p) PROVE Behind(n, p) = e \/ (Behind(n, p) > size /\ e > size)
  <2>1. PICK q \in Nat : q = Behind(n, p) /\ p <= q /\ Ends(content, n, p, q)
    BY <1>0, <1>2, BehindIs
  <2>2. \A j \in 1 .. size : content[j] = code[j]
    BY DEF Meets
  <2>3. q = e \/ (q > size /\ e > size)
    BY <1>0, <2>1, <2>2, FoundInBoth
  <2>. QED  BY <2>1, <2>3
<1>. QED  BY <1>1, <1>2

LEMMA OneText ==
  ASSUME NEW s, NEW p \in Nat, NEW t \in Seq(Characters), \A j \in 1 .. Len(t) : s[p + j] = t[j],
         s[p + Len(t) + 1] = 0
  PROVE  Ends(s, 1, p, p + Len(t) + 1)
<1>1. Ends(s, 0, p, p)
  <2>1. Zeros(s, p, p) = {}
    BY DEF Zeros
  <2>. QED  BY <2>1, FS_EmptySet DEF Ends
<1>2. PICK l \in Nat : l = Len(t)
  OBVIOUS
<1>3. \A j \in 1 .. l : s[p + j] # 0
  <2>1. \A j \in 1 .. l : t[j] \in Characters
    BY <1>2
  <2>2. \A c \in Characters : c # 0
    BY DEF Characters
  <2>. QED  BY <1>2, <2>1, <2>2
<1>4. Ends(s, 0 + 1, p, p + l + 1)
  <2>1. 0 \in Nat /\ p <= p /\ s[p + l + 1] = 0
    BY <1>2
  <2>. QED  BY <1>1, <1>2, <1>3, <2>1, EndsNext
<1>5. 0 + 1 = 1
  OBVIOUS
<1>. QED  BY <1>2, <1>4, <1>5

LEMMA NumberRead ==
  ASSUME NEW i, Meets(i), i.op = "OP_NUMBER"
  PROVE  /\ End(i) = position + 9
         /\ End(i) <= size => /\ Allocated(position + 8)
                              /\ Loaded(Slice(position + 1, 8)) = i.number
<1>1. PICK two \in Seq(Bytes) : /\ two = TwoBytes(i.n) /\ Len(two) = 2
                                /\ End(i) = position + 1 + Len(Operands(i, two))
                                /\ Lies(code, position + 1, Operands(i, two))
  BY Met
<1>2. PICK d \in Seq(Bytes) : d = i.number /\ Len(d) = 8
  BY Fields DEF Meets, Shaped
<1>3. Operands(i, two) = d
  BY <1>2, Met, OperandsAre, Zenon
<1>4. position \in Nat /\ size \in Nat /\ size <= Len(content) /\ Len(content) \in Nat
  BY Met
<1>5. End(i) = position + 9
  <2>1. End(i) = position + 1 + Len(d)
    BY <1>1, <1>3, Zenon
  <2>. QED  BY <1>2, <1>4, <2>1
<1>6. ASSUME End(i) <= size
      PROVE  Allocated(position + 8) /\ Loaded(Slice(position + 1, 8)) = i.number
  <2>1. position + 1 \in Nat /\ position + 1 + Len(d) <= size
    BY <1>2, <1>4, <1>5, <1>6
  <2>2. Slice(position + 1, Len(d)) = d
    BY <1>1, <1>3, <2>1, MetSlice
  <2>3. Loaded(d) = d
    BY OneOrder
  <2>4. position + 8 < Len(content)
    BY <1>4, <1>5, <1>6
  <2>. QED  BY <1>2, <2>2, <2>3, <2>4 DEF Allocated
<1>. QED  BY <1>5, <1>6

LEMMA DistanceRead ==
  ASSUME NEW i, Meets(i), NEW two \in Seq(Bytes), two = TwoBytes(i.n), Len(two) = 2,
         Lies(code, position + 1, two), position + 3 <= size
  PROVE  UInt16At(position + 1) = i.n
<1>1. position + 1 \in Nat /\ position + 1 + Len(two) <= size
  BY Met
<1>2. Slice(position + 1, Len(two)) = two
  BY <1>1, MetSlice
<1>3. Loaded(two) = two
  BY OneOrder
<1>4. i.n \in Distances
  BY Fields, Zenon DEF Meets
<1>5. 256 * two[1] + two[2] = i.n
  BY <1>4, TwoBytesIs
<1>6. Loaded(Slice(position + 1, 2)) = two
  BY <1>2, <1>3
<1>. QED  BY <1>5, <1>6, Zenon DEF UInt16At

LEMMA JumpRead ==
  ASSUME NEW i, Meets(i), i.op \in JumpOps
  PROVE  /\ End(i) = position + 3
         /\ End(i) <= size => /\ Allocated(position + 2)
                              /\ UInt16At(position + 1) = i.n
<1>1. PICK two \in Seq(Bytes) : /\ two = TwoBytes(i.n) /\ Len(two) = 2
                                /\ End(i) = position + 1 + Len(Operands(i, two))
                                /\ Lies(code, position + 1, Operands(i, two))
  BY Met
<1>2. Operands(i, two) = two
  BY Met, OperandsAre, Zenon
<1>3. position \in Nat /\ size \in Nat /\ size <= Len(content) /\ Len(content) \in Nat
  BY Met
<1>4. End(i) = position + 3
  <2>1. End(i) = position + 1 + Len(two)
    BY <1>1, <1>2, Zenon
  <2>. QED  BY <1>1, <1>3, <2>1
<1>5. ASSUME End(i) <= size PROVE Allocated(position + 2) /\ UInt16At(position + 1) = i.n
  <2>1. position + 3 <= size /\ position + 2 < Len(content)
    BY <1>3, <1>4, <1>5
  <2>2. UInt16At(position + 1) = i.n
    BY <1>1, <1>2, <2>1, DistanceRead
  <2>. QED  BY <2>1, <2>2 DEF Allocated
<1>. QED  BY <1>4, <1>5

LEMMA TextRead ==
  ASSUME NEW i, Meets(i), i.op \in TextOps
  PROVE  /\ HasTexts(1, position + 1)
         /\ Behind(1, position + 1) = End(i) \/ (Behind(1, position + 1) > size /\ End(i) > size)
         /\ End(i) <= size => Between(position + 1, End(i)) = i.texts[1]
<1>1. PICK two \in Seq(Bytes) : /\ two = TwoBytes(i.n) /\ Len(two) = 2
                                /\ End(i) = position + 1 + Len(Operands(i, two))
                                /\ Lies(code, position + 1, Operands(i, two))
  BY Met
<1>2. PICK t \in Seq(Characters) : t = i.texts[1]
  <2>1. PICK x \in Seq(Seq(Characters)) : x = i.texts /\ Len(x) = 1
    BY Fields DEF Meets, Shaped
  <2>. QED  BY <2>1
<1>3. Operands(i, two) = Text(t)
  BY <1>2, Met, OperandsAre, Zenon
<1>4. position \in Nat /\ size \in Nat /\ size <= Len(content) /\ Len(content) \in Nat
      /\ position < size /\ Len(t) \in Nat
  BY Met
<1>5. /\ Len(Text(t)) = Len(t) + 1 /\ Text(t)[Len(t) + 1] = 0
      /\ \A j \in 1 .. Len(t) : Text(t)[j] = t[j]
  BY TextIs
<1>6. PICK p \in Nat : p = position + 1
  BY <1>4
<1>7. End(i) = p + Len(t) + 1 /\ End(i) \in Nat /\ p <= End(i)
  BY <1>1, <1>3, <1>4, <1>5, <1>6
<1>8. (\A j \in 1 .. Len(t) : code[p + j] = t[j]) /\ code[p + Len(t) + 1] = 0
  <2>1. \A j \in 1 .. Len(t) + 1 : code[p + j] = Text(t)[j]
    BY <1>1, <1>3, <1>5, <1>6, Zenon DEF Lies
  <2>2. Len(t) + 1 \in 1 .. Len(t) + 1 /\ p + (Len(t) + 1) = p + Len(t) + 1
        /\ \A j \in 1 .. Len(t) : j \in 1 .. Len(t) + 1
    BY <1>4
  <2>. QED  BY <1>5, <2>1, <2>2
<1>9. Ends(code, 1, p, End(i))
  BY <1>7, <1>8, OneText
<1>10. HasTexts(1, p)
  <2>1. CASE Len(content) = size + 1 /\ content[size + 1] = 0
    <3>1. size + 1 \in Nat /\ p < size + 1
      BY <1>4, <1>6
    <3>2. PICK q \in Nat : p < q /\ q <= size + 1 /\ Ends(content, 1, p, q)
      BY <2>1, <3>1, ZeroEnds
    <3>3. p <= q /\ q <= Len(content)
      BY <2>1, <3>2
    <3>. QED  BY <1>4, <3>2, <3>3, BehindOnly
  <2>2. CASE End(i) <= size
    BY <1>7, <1>9, <2>2, MetTexts
  <2>. QED  BY <2>1, <2>2 DEF Meets
<1>11. Behind(1, p) = End(i) \/ (Behind(1, p) > size /\ End(i) > size)
  BY <1>7, <1>9, <1>10, MetTexts
<1>12. ASSUME End(i) <= size PROVE Between(p, End(i)) = t
  <2>1. t \in Seq(Bytes)
    BY DEF Characters, Bytes
  <2>2. Lies(code, p, t)
    BY <1>8 DEF Lies
  <2>3. p + Len(t) <= size /\ End(i) - p - 1 = Len(t)
    BY <1>4, <1>7, <1>12
  <2>4. Slice(p, Len(t)) = t
    BY <2>1, <2>2, <2>3, MetSlice
  <2>. QED  BY <2>3, <2>4 DEF Between
<1>. QED  BY <1>2, <1>6, <1>10, <1>11, <1>12

\* Where the parts of a function's header lie: behind its name at a, n types and n names, up
\* to r, and m types.
Spots(i, a, n, r, m) ==
  /\ a \in Nat /\ n \in Nat /\ r \in Nat /\ m \in Nat
  /\ position + 3 < a /\ a + 1 + n <= r
  /\ Ends(code, 1, position + 3, a) /\ code[a + 1] = n
  /\ Ends(code, n, a + 1 + n, r) /\ code[r + 1] = m
  /\ End(i) = r + 1 + m

LEMMA SpellsBound ==
  ASSUME NEW s, NEW p \in Nat, NEW texts \in Seq(Seq(Characters)), NEW n \in Nat, n = Len(texts), NEW e,
         Spells(s, p, texts, n, e)
  PROVE  /\ e[n] \in Nat
         /\ \A k \in 0 .. n : e[k] \in Nat /\ e[k] <= e[n] /\ Ends(s, k, p, p + e[k])
<1>1. n \in 0 .. Len(texts) /\ n \in 0 .. n
  OBVIOUS
<1>2. \A k \in 0 .. n : e[k] \in Nat
  BY DEF Spells
<1>3. \A q, o \in 0 .. n : q <= o => e[q] <= e[o]
  BY <1>1, EndsGrow
<1>4. \A k \in 0 .. n : Ends(s, k, p, p + e[k])
  BY <1>1, SpellsEnds
<1>5. \A k \in 0 .. n : k <= n
  OBVIOUS
<1>. QED  BY <1>1, <1>2, <1>3, <1>4, <1>5, Zenon

LEMMA HeaderPlaces ==
  ASSUME NEW i, Meets(i), i.op = "OP_DEC_FUNCTION"
  PROVE  \E a, n, r, m : \E e :
           /\ Spots(i, a, n, r, m)
           /\ Len(i.types) = n /\ Len(i.rets) = m /\ Len(Tail(i.texts)) = n
           /\ a = position + 4 + Len(i.texts[1]) /\ r = a + 1 + n + e[n]
           /\ Lies(code, position + 1, TwoBytes(i.n))
           /\ Lies(code, position + 3, i.texts[1])
           /\ Lies(code, a + 1, i.types)
           /\ Spells(code, a + 1 + n, Tail(i.texts), n, e)
           /\ Lies(code, r + 1, i.rets)
<1>0. position \in Nat /\ End(i) \in Nat
  BY Met
<1>1. PICK two \in Seq(Bytes) : /\ two = TwoBytes(i.n) /\ Len(two) = 2
                                /\ Operands(i, two) \in Seq(Bytes)
                                /\ End(i) = position + 1 + Len(Operands(i, two))
                                /\ Lies(code, position + 1, Operands(i, two))
  BY Met
<1>2. Shaped(i) /\ i.op = "OP_DEC_FUNCTION"
  BY DEF Meets
<1>3. PICK e \in [0 .. Len(i.types) -> Nat] : Header(code, position, i, e) /\ HeaderEnd(position, i, e) = End(i)
  BY <1>0, <1>1, <1>2, HeaderLies
<1>4. PICK n, m, y \in Nat : n = Len(i.types) /\ m = Len(i.rets) /\ y = Len(i.texts[1])
  <2>1. Len(i.types) \in Bytes /\ Len(i.rets) \in Bytes /\ Len(i.texts[1]) \in Nat
    BY <1>2, NamesAre
  <2>2. \A b \in Bytes : b \in Nat
    BY DEF Bytes
  <2>. QED  BY <2>1, <2>2, Zenon
<1>5. PICK l \in Nat : l = e[n]
  BY <1>3, <1>4
<1>6. PICK a, r \in Nat : a = position + 4 + y /\ r = a + 1 + n + l
  BY <1>0
<1>7. /\ \A j \in 1 .. y : code[position + 3 + j] = i.texts[1][j]
      /\ code[a] = 0
      /\ code[a + 1] = n
      /\ \A j \in 1 .. n : code[a + 1 + j] = i.types[j]
      /\ Spells(code, a + 1 + n, Tail(i.texts), n, e)
      /\ code[r + 1] = m
      /\ \A j \in 1 .. m : code[r + 1 + j] = i.rets[j]
  BY <1>3, <1>4, <1>5, <1>6, Zenon DEF Header
<1>8. End(i) = r + 1 + m
  <2>1. End(i) = position + 6 + y + n + l + m
    BY <1>3, <1>4, <1>5, Zenon DEF HeaderEnd
  <2>2. position + 6 + y + n + l + m = r + 1 + m
    BY <1>0, <1>6
  <2>. QED  BY <2>1, <2>2
<1>9. Ends(code, 1, position + 3, a) /\ position + 3 < a
  <2>1. PICK p \in Nat : p = position + 3
    BY <1>0
  <2>2. p + y + 1 = a /\ p < a
    BY <1>0, <1>6, <2>1
  <2>3. PICK t \in Seq(Characters) : t = i.texts[1] /\ Len(t) = y
    BY <1>2, <1>4, NamesAre, Zenon
  <2>4. (\A j \in 1 .. Len(t) : code[p + j] = t[j]) /\ code[p + Len(t) + 1] = 0
    BY <1>7, <2>1, <2>2, <2>3, Zenon
  <2>5. Ends(code, 1, p, p + Len(t) + 1)
    BY <2>4, OneText
  <2>. QED  BY <2>1, <2>2, <2>3, <2>5, Zenon
<1>10. PICK names \in Seq(Seq(Characters)) : names = Tail(i.texts) /\ Len(names) = n
  BY <1>2, <1>4, NamesAre, Zenon
<1>11. Ends(code, n, a + 1 + n, r)
  <2>1. PICK p \in Nat : p = a + 1 + n
    OBVIOUS
  <2>2. n \in 0 .. n
    OBVIOUS
  <2>3. Spells(code, p, names, n, e)
    BY <1>7, <1>10, <2>1
  <2>4. Ends(code, n, p, p + e[n])
    BY <1>10, <2>2, <2>3, SpellsBound
  <2>. QED  BY <1>5, <1>6, <2>1, <2>4, Zenon
<1>12. a + 1 + n <= r
  BY <1>6
<1>13. Spots(i, a, n, r, m)
  BY <1>7, <1>8, <1>9, <1>11, <1>12, Zenon DEF Spots
<1>14. Lies(code, position + 1, TwoBytes(i.n))
  <2>1. position + 1 \in Nat
    BY <1>0
  <2>. QED  BY <1>1, <1>2, <2>1, HeaderBytes, Zenon
<1>15. Lies(code, position + 3, i.texts[1]) /\ Lies(code, a + 1, i.types) /\ Lies(code, r + 1, i.rets)
  BY <1>4, <1>7, Zenon DEF Lies
<1>. QED  BY <1>4, <1>5, <1>6, <1>7, <1>10, <1>13, <1>14, <1>15, Zenon

\* The end of a header is found, or the end of the file was passed.
LEMMA HeaderFound ==
  ASSUME NEW i, Meets(i), NEW a, NEW n, NEW r, NEW m, Spots(i, a, n, r, m), HeaderAllocated,
         NEW to, to = Rarity + 1 + ByteAt(Rarity)
  PROVE  to = End(i) \/ (to > size /\ End(i) > size)
<1>0. /\ position \in Nat /\ End(i) \in Nat /\ Len(content) \in Nat /\ size \in Nat
      /\ position < size /\ size <= Len(content)
  BY Met
<1>1. /\ a \in Nat /\ n \in Nat /\ r \in Nat /\ m \in Nat
      /\ position + 3 < a /\ a + 1 + n <= r /\ End(i) = r + 1 + m
  BY DEF Spots
<1>2. \A p \in Nat : p < Len(content) => ByteAt(p) \in Nat
  <2>1. ASSUME NEW p \in Nat, p < Len(content) PROVE ByteAt(p) \in Nat
    <3>1. p + 1 \in 1 .. Len(content)
      BY <1>0, <2>1
    <3>2. content[p + 1] \in Bytes
      BY <3>1 DEF Meets
    <3>3. \A b \in Bytes : b \in Nat
      BY DEF Bytes
    <3>. QED  BY <3>2, <3>3 DEF ByteAt
  <2>. QED  BY <2>1
<1>3. PICK p \in Nat : p = Name /\ p < a /\ Ends(code, 1, p, a)
  BY <1>0, <1>1 DEF Spots, Name
<1>4. PICK x \in Nat : x = Arity /\ (x = a \/ (x > size /\ a > size))
  <2>1. HasTexts(1, p)
    BY <1>3 DEF HeaderAllocated
  <2>2. Behind(1, p) \in Nat
    BY <1>0, <2>1, BehindIs
  <2>3. Behind(1, p) = a \/ (Behind(1, p) > size /\ a > size)
    <3>1. p <= a
      BY <1>1, <1>3
    <3>. QED  BY <1>1, <1>3, <2>1, <3>1, MetTexts
  <2>. QED  BY <1>3, <2>2, <2>3 DEF Arity
<1>5. PICK y \in Nat : y = ByteAt(x)
  BY <1>2, <1>4 DEF HeaderAllocated, Allocated
<1>6. PICK z \in Nat : z = Names /\ z = x + 1 + y
  BY <1>4, <1>5 DEF Names
<1>7. HasTexts(y, z)
  BY <1>4, <1>5, <1>6 DEF HeaderAllocated
<1>8. PICK v \in Nat : v = Rarity /\ v >= z /\ v = Behind(y, z)
  <2>1. Behind(y, z) \in Nat /\ Behind(y, z) >= z
    BY <1>0, <1>7, BehindIs
  <2>. QED  BY <1>4, <1>5, <1>6, <2>1 DEF Rarity
<1>9. PICK u \in Nat : u = ByteAt(v)
  BY <1>2, <1>8 DEF HeaderAllocated, Allocated
<1>10. to = v + 1 + u
  BY <1>8, <1>9
<1>11. CASE x >= size
  <2>1. a >= size
    BY <1>0, <1>1, <1>4, <1>11
  <2>. QED  BY <1>0, <1>1, <1>6, <1>8, <1>10, <1>11, <2>1
<1>12. CASE x < size
  <2>1. x = a /\ a < size
    BY <1>0, <1>1, <1>4, <1>12
  <2>2. y = n /\ z = a + 1 + n
    <3>1. ByteAt(a) = code[a + 1]
      BY <1>1, <2>1, MetByte
    <3>. QED  BY <1>5, <1>6, <2>1, <3>1 DEF Spots
  <2>3. v = r \/ (v > size /\ r > size)
    <3>1. z <= r /\ Ends(code, y, z, r)
      BY <1>1, <2>2 DEF Spots
    <3>. QED  BY <1>1, <1>7, <1>8, <3>1, MetTexts
  <2>4. CASE v < size
    <3>1. v = r
      BY <1>0, <1>1, <2>3, <2>4
    <3>2. u = m
      <4>1. ByteAt(r) = code[r + 1]
        BY <1>1, <2>4, <3>1, MetByte
      <4>. QED  BY <1>9, <3>1, <4>1 DEF Spots
    <3>. QED  BY <1>1, <1>10, <3>1, <3>2
  <2>5. CASE v >= size
    <3>1. r >= size
      BY <1>0, <1>1, <2>3, <2>5
    <3>. QED  BY <1>0, <1>1, <1>10, <2>5, <3>1
  <2>. QED  BY <1>0, <2>4, <2>5
<1>. QED  BY <1>0, <1>11, <1>12

\* The parts of a header that was kept are in their places.
LEMMA HeaderWhole ==
  ASSUME NEW i, Meets(i), NEW a, NEW n, NEW r, NEW m, Spots(i, a, n, r, m), End(i) <= size
  PROVE  /\ HeaderAllocated /\ Arity = a /\ ByteAt(a) = n /\ Names = a + 1 + n
         /\ Rarity = r /\ ByteAt(r) = m
<1>0. /\ position \in Nat /\ End(i) \in Nat /\ Len(content) \in Nat /\ size \in Nat
      /\ position < size /\ size <= Len(content)
  BY Met
<1>1. /\ a \in Nat /\ n \in Nat /\ r \in Nat /\ m \in Nat
      /\ position + 3 < a /\ a + 1 + n <= r /\ End(i) = r + 1 + m
  BY DEF Spots
<1>2. a < size /\ r < size /\ r + m < size /\ r + m \in Nat /\ a <= size /\ r <= size
  BY <1>0, <1>1
<1>3. HasTexts(1, Name) /\ Arity = a
  <2>1. PICK p \in Nat : p = Name /\ p <= a /\ Ends(code, 1, p, a)
    BY <1>0, <1>1 DEF Spots, Name
  <2>2. HasTexts(1, p) /\ Behind(1, p) = a
    BY <1>1, <1>2, <2>1, MetTexts
  <2>. QED  BY <2>1, <2>2 DEF Arity
<1>4. ByteAt(a) = n /\ Allocated(a)
  BY <1>1, <1>2, MetByte DEF Spots
<1>5. PICK z \in Nat : z = Names /\ z = a + 1 + n
  BY <1>1, <1>3, <1>4 DEF Names
<1>6. HasTexts(n, z) /\ Behind(n, z) = r
  <2>1. z <= r /\ Ends(code, n, z, r)
    BY <1>1, <1>5 DEF Spots
  <2>. QED  BY <1>1, <1>2, <2>1, MetTexts
<1>7. Rarity = r
  BY <1>3, <1>4, <1>5, <1>6 DEF Rarity
<1>8. ByteAt(r) = m /\ Allocated(r)
  BY <1>1, <1>2, MetByte DEF Spots
<1>9. Allocated(r + m)
  BY <1>2, MetByte
<1>10. HeaderAllocated
  BY <1>3, <1>4, <1>5, <1>6, <1>7, <1>8, <1>9 DEF HeaderAllocated
<1>. QED  BY <1>3, <1>4, <1>5, <1>7, <1>8, <1>10

LEMMA NamesRead ==
  ASSUME NEW i, Meets(i), NEW p \in Nat, NEW names \in Seq(Seq(Characters)), NEW n \in Nat,
         n = Len(names), NEW e, Spells(code, p, names, n, e), p + e[n] <= size
  PROVE  [k \in 1 .. n |-> Between(Behind(k - 1, p), Behind(k, p))] = names
<1>0. size \in Nat
  BY Met
<1>1. PICK l \in Nat : l = e[n]
  BY SpellsBound
<1>2. ASSUME NEW k \in 0 .. n PROVE Behind(k, p) = p + e[k]
  <2>1. PICK x \in Nat : x = e[k] /\ x <= l /\ Ends(code, k, p, p + x)
    BY <1>1, SpellsBound, Zenon
  <2>2. p + x \in Nat /\ p <= p + x /\ p + x <= size
    BY <1>0, <1>1, <2>1, SMTT(40)
  <2>3. Behind(k, p) = p + x
    BY <2>1, <2>2, MetTexts
  <2>. QED  BY <2>1, <2>3
<1>3. ASSUME NEW k \in 1 .. n PROVE Between(Behind(k - 1, p), Behind(k, p)) = names[k]
  <2>1. k \in 0 .. n /\ k - 1 \in 0 .. n /\ k \in 1 .. Len(names)
    OBVIOUS
  <2>2. PICK c \in Seq(Characters) : c = names[k]
    BY <2>1
  <2>3. PICK x, y, d \in Nat : x = e[k - 1] /\ y = e[k] /\ y <= l /\ d = Len(c)
    <3>1. e[k - 1] \in Nat /\ e[k] \in Nat /\ e[k] <= l
      BY <1>1, <2>1, SpellsBound, Zenon
    <3>2. Len(c) \in Nat
      OBVIOUS
    <3>. QED  BY <3>1, <3>2, Zenon
  <2>4. y = x + d + 1 /\ \A j \in 1 .. d : code[p + x + j] = c[j]
    BY <2>2, <2>3, Zenon DEF Spells
  <2>5. Behind(k - 1, p) = p + x /\ Behind(k, p) = p + y
    BY <1>2, <2>1, <2>3
  <2>6. p + x + d <= size /\ (p + y) - (p + x) - 1 = d /\ p + x \in Nat
    <3>1. p + l <= size /\ y = x + d + 1 /\ y <= l
      BY <1>1, <2>3, <2>4, Zenon
    <3>. QED  BY <1>0, <3>1
  <2>7. c \in Seq(Bytes)
    BY DEF Characters, Bytes
  <2>8. Lies(code, p + x, c)
    BY <2>3, <2>4, Zenon DEF Lies
  <2>9. Slice(p + x, d) = c
    BY <2>3, <2>6, <2>7, <2>8, MetSlice
  <2>. QED  BY <2>2, <2>5, <2>6, <2>9, Zenon DEF Between
<1>4. [k \in 1 .. n |-> Between(Behind(k - 1, p), Behind(k, p))] = [k \in 1 .. n |-> names[k]]
  BY <1>3, Zenon
<1>5. [k \in 1 .. n |-> names[k]] = names
  OBVIOUS
<1>. QED  BY <1>4, <1>5, Zenon

LEMMA HeadAndTail ==
  ASSUME NEW S, NEW x \in Seq(S), Len(x) # 0
  PROVE  <<x[1]>> \o Tail(x) = x
<1>1. PICK n \in Nat : n + 1 = Len(x)
  <2>1. Len(x) - 1 \in Nat /\ (Len(x) - 1) + 1 = Len(x)
    OBVIOUS
  <2>. QED  BY <2>1
<1>2. PICK s \in Seq(S) : s = <<x[1]>> /\ Len(s) = 1 /\ s[1] = x[1]
  <2>1. x[1] \in S
    OBVIOUS
  <2>2. \A y \in S : <<y>> \in Seq(S) /\ Len(<<y>>) = 1 /\ <<y>>[1] = y
    OBVIOUS
  <2>3. <<x[1]>> \in Seq(S) /\ Len(<<x[1]>>) = 1 /\ <<x[1]>>[1] = x[1]
    BY <2>1, <2>2, Zenon
  <2>. QED  BY <2>3, Zenon
<1>3. PICK t \in Seq(S) : t = Tail(x) /\ Len(t) = n /\ \A k \in 1 .. n : t[k] = x[k + 1]
  <2>1. Tail(x) \in Seq(S) /\ Len(Tail(x)) = n /\ \A k \in 1 .. n : Tail(x)[k] = x[k + 1]
    BY <1>1
  <2>. QED  BY <2>1
<1>4. PICK y : y = s \o t
  OBVIOUS
<1>5. /\ y \in Seq(S) /\ Len(y) = 1 + n
      /\ \A j \in 1 .. 1 : y[j] = s[j]
      /\ \A j \in 1 .. n : y[1 + j] = t[j]
  <2>1. /\ y \in Seq(S) /\ Len(y) = Len(s) + Len(t)
        /\ \A j \in 1 .. Len(s) : y[j] = s[j]
        /\ \A j \in 1 .. Len(t) : y[Len(s) + j] = t[j]
    BY <1>4, Appended
  <2>. QED  BY <1>2, <1>3, <2>1
<1>6. ASSUME NEW j \in 1 .. n + 1 PROVE y[j] = x[j]
  <2>1. CASE j = 1
    BY <1>2, <1>5, <2>1
  <2>2. CASE j # 1
    <3>1. j - 1 \in 1 .. n /\ 1 + (j - 1) = j /\ (j - 1) + 1 = j
      BY <2>2
    <3>2. y[1 + (j - 1)] = t[j - 1] /\ t[j - 1] = x[(j - 1) + 1]
      BY <1>3, <1>5, <3>1
    <3>. QED  BY <3>1, <3>2
  <2>. QED  BY <2>1, <2>2
<1>7. Len(y) = Len(x) /\ \A j \in 1 .. Len(y) : y[j] = x[j]
  BY <1>1, <1>5, <1>6
<1>8. y = x
  BY <1>5, <1>7, SameSequence
<1>. QED  BY <1>2, <1>3, <1>4, <1>8, Zenon

\* A function's header is found wherever the file ends: its parts in their places, or the
\* end of the file.
LEMMA HeaderRead ==
  ASSUME NEW i, Meets(i), i.op = "OP_DEC_FUNCTION"
  PROVE  /\ HeaderAllocated => \A to : to = Rarity + 1 + ByteAt(Rarity) =>
                                 to = End(i) \/ (to > size /\ End(i) > size)
         /\ End(i) <= size => /\ HeaderAllocated
                              /\ HeaderEntry(Arity, Names, Rarity) =
                                   Leading([This EXCEPT !.texts = i.texts, !.types = i.types,
                                                        !.rets = i.rets], i.n)
<1>1. PICK a, n, r, m : \E e :
           /\ Spots(i, a, n, r, m)
           /\ Len(i.types) = n /\ Len(i.rets) = m /\ Len(Tail(i.texts)) = n
           /\ a = position + 4 + Len(i.texts[1]) /\ r = a + 1 + n + e[n]
           /\ Lies(code, position + 1, TwoBytes(i.n))
           /\ Lies(code, position + 3, i.texts[1])
           /\ Lies(code, a + 1, i.types)
           /\ Spells(code, a + 1 + n, Tail(i.texts), n, e)
           /\ Lies(code, r + 1, i.rets)
  BY HeaderPlaces
<1>2. PICK e :
           /\ Spots(i, a, n, r, m)
           /\ Len(i.types) = n /\ Len(i.rets) = m /\ Len(Tail(i.texts)) = n
           /\ a = position + 4 + Len(i.texts[1]) /\ r = a + 1 + n + e[n]
           /\ Lies(code, position + 1, TwoBytes(i.n))
           /\ Lies(code, position + 3, i.texts[1])
           /\ Lies(code, a + 1, i.types)
           /\ Spells(code, a + 1 + n, Tail(i.texts), n, e)
           /\ Lies(code, r + 1, i.rets)
  BY <1>1
<1>3. ASSUME HeaderAllocated, NEW to, to = Rarity + 1 + ByteAt(Rarity)
      PROVE  to = End(i) \/ (to > size /\ End(i) > size)
  BY <1>2, <1>3, HeaderFound
<1>4. ASSUME End(i) <= size
      PROVE  /\ HeaderAllocated
             /\ HeaderEntry(Arity, Names, Rarity) =
                  Leading([This EXCEPT !.texts = i.texts, !.types = i.types, !.rets = i.rets], i.n)
  <2>0. Shaped(i) /\ position \in Nat /\ size \in Nat
    BY Met DEF Meets
  <2>1. /\ HeaderAllocated /\ Arity = a /\ ByteAt(a) = n /\ Names = a + 1 + n
        /\ Rarity = r /\ ByteAt(r) = m
    BY <1>2, <1>4, HeaderWhole
  <2>2. /\ a \in Nat /\ n \in Nat /\ r \in Nat /\ m \in Nat
        /\ position + 3 < a /\ a + 1 + n <= r /\ End(i) = r + 1 + m
    BY <1>2 DEF Spots
  <2>3. Between(Name, a) = i.texts[1]
    <3>1. PICK t \in Seq(Characters), y \in Nat : t = i.texts[1] /\ y = Len(t)
      <4>1. i.texts[1] \in Seq(Characters) /\ Len(i.texts[1]) \in Nat
        BY <2>0, NamesAre
      <4>. QED  BY <4>1, Zenon
    <3>2. t \in Seq(Bytes)
      BY DEF Characters, Bytes
    <3>3. Lies(code, position + 3, t) /\ a = position + 4 + y
      BY <1>2, <3>1
    <3>4. position + 3 \in Nat /\ position + 3 + y <= size /\ a - (position + 3) - 1 = y
      <4>1. PICK q \in Nat : q = position
        BY <2>0
      <4>2. a = q + 4 + y /\ r + 1 + m <= size
        BY <1>4, <2>2, <3>3, <4>1, Zenon
      <4>3. q + 3 \in Nat /\ q + 3 + y <= size /\ a - (q + 3) - 1 = y
        BY <2>0, <2>2, <4>2
      <4>. QED  BY <4>1, <4>3, Zenon
    <3>5. Slice(position + 3, y) = t
      BY <3>1, <3>2, <3>3, <3>4, MetSlice
    <3>. QED  BY <3>1, <3>4, <3>5 DEF Between, Name
  <2>4. [k \in 1 .. n |-> Between(Behind(k - 1, Names), Behind(k, Names))] = Tail(i.texts)
    <3>1. PICK names \in Seq(Seq(Characters)) : names = Tail(i.texts) /\ Len(names) = n
      BY <1>2, <2>0, NamesAre, Zenon
    <3>2. PICK p \in Nat : p = Names /\ p = a + 1 + n
      BY <2>1, <2>2
    <3>3. Spells(code, p, names, n, e)
      BY <1>2, <3>1, <3>2
    <3>4. p + e[n] <= size
      <4>1. p + e[n] = r
        BY <1>2, <3>2
      <4>. QED  BY <1>4, <2>0, <2>2, <4>1
    <3>5. [k \in 1 .. n |-> Between(Behind(k - 1, p), Behind(k, p))] = names
      BY <2>2, <3>1, <3>3, <3>4, NamesRead
    <3>. QED  BY <3>1, <3>2, <3>5, Zenon
  <2>5. <<i.texts[1]>> \o Tail(i.texts) = i.texts
    <3>1. PICK x \in Seq(Seq(Characters)) : x = i.texts
      BY <2>0, Fields
    <3>2. Len(x) # 0
      <4>1. Len(x) = n + 1
        BY <1>2, <2>0, <3>1 DEF Shaped
      <4>. QED  BY <2>2, <4>1
    <3>3. <<x[1]>> \o Tail(x) = x
      BY <3>2, HeadAndTail
    <3>. QED  BY <3>1, <3>3, Zenon
  <2>6. Slice(a + 1, n) = i.types
    <3>1. PICK t \in Seq(Bytes) : t = i.types /\ Len(t) = n
      BY <1>2, <2>0, NamesAre, Zenon
    <3>2. Lies(code, a + 1, t) /\ a + 1 \in Nat /\ a + 1 + Len(t) <= size
      <4>1. a + 1 \in Nat /\ a + 1 + n <= size
        BY <1>4, <2>0, <2>2
      <4>. QED  BY <1>2, <3>1, <4>1
    <3>. QED  BY <3>1, <3>2, MetSlice
  <2>7. Slice(r + 1, m) = i.rets
    <3>1. PICK t \in Seq(Bytes) : t = i.rets /\ Len(t) = m
      BY <1>2, <2>0, NamesAre, Zenon
    <3>2. Lies(code, r + 1, t) /\ r + 1 \in Nat /\ r + 1 + Len(t) <= size
      <4>1. r + 1 \in Nat /\ r + 1 + m <= size
        BY <1>4, <2>0, <2>2
      <4>. QED  BY <1>2, <3>1, <4>1
    <3>. QED  BY <3>1, <3>2, MetSlice
  <2>8. UInt16At(position + 1) = i.n
    <3>1. PICK two \in Seq(Bytes) : two = TwoBytes(i.n) /\ Len(two) = 2
      BY Met
    <3>2. position + 3 <= size
      BY <1>4, <2>0, <2>2
    <3>. QED  BY <1>2, <3>1, <3>2, DistanceRead
  <2>9. HeaderEntry(a, Names, r) =
           Leading([This EXCEPT !.texts = <<Between(Name, a)>> \o
                                 [k \in 1 .. n |-> Between(Behind(k - 1, Names), Behind(k, Names))],
                                !.types = Slice(a + 1, n),
                                !.rets = Slice(r + 1, m)], UInt16At(position + 1))
    BY <2>1, Zenon DEF HeaderEntry
  <2>. QED  BY <2>1, <2>3, <2>4, <2>5, <2>6, <2>7, <2>8, <2>9, Zenon
<1>. QED  BY <1>3, <1>4, Zenon

\* The entry of an instruction that was read is the instruction.
LEMMA EntryRead ==
  ASSUME NEW i, Shaped(i), position = i.at, Instruction = i.op,
         i.op \in Distant => i.goto = Target(i.at, i.op, i.n)
  PROVE  /\ i.op \in SimpleOps => This = i
         /\ i.op = "OP_NUMBER" => [This EXCEPT !.number = i.number] = i
         /\ i.op \in TextOps => [This EXCEPT !.texts = <<i.texts[1]>>] = i
         /\ i.op \in JumpOps => Leading(This, i.n) = i
         /\ i.op = "OP_DEC_FUNCTION" =>
              Leading([This EXCEPT !.texts = i.texts, !.types = i.types, !.rets = i.rets], i.n) = i
<1>1. PICK at, op, number, n, goto, texts, types, rets :
        /\ at = i.at /\ op = i.op /\ number = i.number /\ n = i.n /\ goto = i.goto
        /\ texts = i.texts /\ types = i.types /\ rets = i.rets
  OBVIOUS
<1>2. i = [at |-> at, op |-> op, number |-> number, n |-> n, goto |-> goto,
           texts |-> texts, types |-> types, rets |-> rets]
  BY <1>1, Fields, Zenon DEF IsRecord
<1>3. This = [at |-> at, op |-> op, number |-> <<>>, n |-> 0, goto |-> 0,
              texts |-> <<>>, types |-> <<>>, rets |-> <<>>]
  BY <1>1, Zenon DEF This, Entry
<1>4. /\ op = "OP_NUMBER" \/ number = <<>>
      /\ op \in TextOps => texts = <<texts[1]>>
      /\ op \notin TextOps \cup {"OP_DEC_FUNCTION"} => texts = <<>>
      /\ op = "OP_DEC_FUNCTION" \/ (types = <<>> /\ rets = <<>>)
      /\ op \notin Distant => n = 0 /\ goto = 0
      /\ op \in Distant => goto = Target(at, op, n)
  <2>1. op \in TextOps => texts = <<texts[1]>>
    <3>1. ASSUME op \in TextOps PROVE texts = <<texts[1]>>
      <4>1. PICK x \in Seq(Seq(Characters)) : x = texts /\ Len(x) = 1
        BY <1>1, <3>1, Fields DEF Shaped
      <4>2. PICK c \in Seq(Characters) : c = x[1]
        BY <4>1
      <4>3. <<c>> \in Seq(Seq(Characters)) /\ Len(<<c>>) = 1 /\ <<c>>[1] = c
        OBVIOUS
      <4>4. \A j \in 1 .. Len(x) : x[j] = <<c>>[j]
        <5>1. \A j \in 1 .. Len(x) : j = 1
          BY <4>1
        <5>. QED  BY <4>2, <4>3, <5>1, Zenon
      <4>5. x = <<c>>
        BY <4>1, <4>3, <4>4, SameSequence
      <4>. QED  BY <4>1, <4>2, <4>5, Zenon
    <3>. QED  BY <3>1
  <2>. QED  BY <1>1, <2>1, Zenon DEF Shaped
<1>5. ASSUME op \in SimpleOps PROVE This = i
  <2>1. number = <<>> /\ texts = <<>> /\ types = <<>> /\ rets = <<>> /\ n = 0 /\ goto = 0
    BY <1>4, <1>5, Kinds, Zenon DEF Distant
  <2>. QED  BY <1>2, <1>3, <2>1, Zenon
<1>6. ASSUME op = "OP_NUMBER" PROVE [This EXCEPT !.number = number] = i
  <2>1. texts = <<>> /\ types = <<>> /\ rets = <<>> /\ n = 0 /\ goto = 0
    BY <1>4, <1>6, Kinds, Zenon DEF Distant
  <2>2. i = [at |-> at, op |-> op, number |-> number, n |-> 0, goto |-> 0,
             texts |-> <<>>, types |-> <<>>, rets |-> <<>>]
    BY <1>2, <2>1, Zenon
  <2>. QED  BY <1>3, <2>2
<1>7. ASSUME op \in TextOps PROVE [This EXCEPT !.texts = <<texts[1]>>] = i
  <2>1. number = <<>> /\ types = <<>> /\ rets = <<>> /\ n = 0 /\ goto = 0 /\ texts = <<texts[1]>>
    BY <1>4, <1>7, Kinds, Zenon DEF Distant
  <2>2. i = [at |-> at, op |-> op, number |-> <<>>, n |-> 0, goto |-> 0,
             texts |-> <<texts[1]>>, types |-> <<>>, rets |-> <<>>]
    BY <1>2, <2>1, Zenon
  <2>3. PICK x : x = <<texts[1]>>
    OBVIOUS
  <2>4. [This EXCEPT !.texts = x] = i
    BY <1>3, <2>2, <2>3
  <2>. QED  BY <2>3, <2>4
<1>8. ASSUME op \in JumpOps PROVE Leading(This, n) = i
  <2>1. number = <<>> /\ texts = <<>> /\ types = <<>> /\ rets = <<>> /\ goto = Target(at, op, n)
    BY <1>4, <1>8, Kinds, Zenon DEF Distant
  <2>2. i = [at |-> at, op |-> op, number |-> <<>>, n |-> n, goto |-> goto,
             texts |-> <<>>, types |-> <<>>, rets |-> <<>>]
    BY <1>2, <2>1, Zenon
  <2>3. This.at = at /\ This.op = op
    BY <1>3
  <2>4. Leading(This, n) = [This EXCEPT !.n = n, !.goto = goto]
    BY <2>1, <2>3, Zenon DEF Leading
  <2>. QED  BY <1>3, <2>2, <2>4
<1>9. ASSUME op = "OP_DEC_FUNCTION"
      PROVE  Leading([This EXCEPT !.texts = texts, !.types = types, !.rets = rets], n) = i
  <2>1. number = <<>> /\ goto = Target(at, op, n)
    BY <1>4, <1>9, Kinds, Zenon DEF Distant
  <2>2. PICK j : j = [This EXCEPT !.texts = texts, !.types = types, !.rets = rets]
    OBVIOUS
  <2>3. j = [at |-> at, op |-> op, number |-> <<>>, n |-> 0, goto |-> 0,
             texts |-> texts, types |-> types, rets |-> rets]
    BY <1>3, <2>2
  <2>4. j.at = at /\ j.op = op
    BY <2>3
  <2>5. Leading(j, n) = [j EXCEPT !.n = n, !.goto = goto]
    BY <2>1, <2>4, Zenon DEF Leading
  <2>6. i = [at |-> at, op |-> op, number |-> <<>>, n |-> n, goto |-> goto,
             texts |-> texts, types |-> types, rets |-> rets]
    BY <1>2, <2>1, Zenon
  <2>7. Leading(j, n) = i
    BY <2>3, <2>5, <2>6
  <2>. QED  BY <2>2, <2>7
<1>. QED  BY <1>1, <1>5, <1>6, <1>7, <1>8, <1>9, Zenon

\* Whatever is filled in, an entry tells its offset and its opcode.
LEMMA EntryKnows ==
  ASSUME NEW x, NEW n
  PROVE  /\ This.at = position /\ This.op = Instruction
         /\ LET e == [This EXCEPT !.number = x] IN e.at = position /\ e.op = Instruction
         /\ LET e == [This EXCEPT !.texts = x] IN e.at = position /\ e.op = Instruction
         /\ LET e == Leading(This, n) IN e.at = position /\ e.op = Instruction
BY DEF This, Entry, Leading

-----------------------------------------------------------------------------
(* The invariant *)

Statuses == {"compiling", "exit", "stored", "listing", "listed", "wild"}

Typed ==
  /\ order \in Orders /\ status \in Statuses
  /\ file \in Seq(Bytes) /\ content \in Seq(Bytes)
  /\ size \in Nat /\ size <= Len(content)
  /\ position \in Nat /\ position <= Len(content)
  /\ \E S : listing \in Seq(S)

\* The chunk is laid out, and nothing waits for its distance when the compiler is done.
Written ==
  /\ Laid(code, written, pending)
  /\ status \notin {"compiling", "exit"} => pending = {}

\* The disassembler has not started.
Waiting ==
  status \in {"compiling", "exit", "stored"} =>
    content = <<>> /\ size = 0 /\ position = 0 /\ listing = <<>>

\* The file has the first bytes of the chunk.
Kept == status = "stored" /\ written # <<>> => \E k \in 0 .. Len(code) : file = SubSeq(code, 1, k)

\* What was listed so far is what was written, up to where the disassembler is; or the last
\* entry is of an instruction that the file has only a part of.
Agrees ==
  /\ Len(listing) <= Len(written)
  /\ \A k \in 1 .. Len(listing) :
       /\ k < Len(listing) => listing[k] = written[k]
       /\ listing[k].at = written[k].at /\ listing[k].op = written[k].op
  /\ \/ /\ position = Begin(code, written, Len(listing) + 1)
        /\ Len(listing) > 0 => listing[Len(listing)] = written[Len(listing)]
     \/ /\ Len(listing) > 0 /\ position >= size
        /\ Begin(code, written, Len(listing) + 1) > size

\* The disassembler was given the chunk, or a file and the zero behind it.
Given ==
  status \in {"listing", "listed", "wild"} =>
    /\ \/ Len(content) = size + 1 /\ content[size + 1] = 0
       \/ written # <<>> /\ Len(content) = size /\ size = Len(code)
    /\ written # <<>> => /\ size <= Len(code)
                         /\ \A j \in 1 .. size : content[j] = code[j]
                         /\ Agrees

Outcome ==
  /\ status = "listed" => position >= size
  /\ status = "wild" => Instruction \notin TextOps /\ (written # <<>> => size < Len(code))

IInv == Typed /\ Written /\ Waiting /\ Kept /\ Given /\ Outcome

LEMMA IInvInit == Init => IInv
<1>. SUFFICES ASSUME Init PROVE IInv
  OBVIOUS
<1>0. <<>> \in Seq(Bytes) /\ Len(<<>>) = 0
  OBVIOUS
<1>1. /\ order \in Orders /\ code = <<>> /\ written = <<>> /\ pending = {}
      /\ content = <<>> /\ size = 0 /\ position = 0 /\ listing = <<>>
      /\ status \in {"compiling", "stored"} /\ file \in Seq(Bytes)
  BY <1>0, BytesAssumption, Zenon DEF Init
<1>2. Typed
  BY <1>0, <1>1 DEF Typed, Statuses
<1>3. Written
  BY <1>1, LaidEmpty, Zenon DEF Written
<1>4. Waiting
  BY <1>1 DEF Waiting
<1>5. Kept
  BY <1>1 DEF Kept
<1>6. Given /\ Outcome
  BY <1>1 DEF Given, Outcome
<1>. QED  BY <1>2, <1>3, <1>4, <1>5, <1>6 DEF IInv

-----------------------------------------------------------------------------
(* Compiling *)

\* A step of the compiler keeps everything but the layout.
LEMMA Compiling ==
  ASSUME IInv, status = "compiling", Laid(code, written, pending)',
         UNCHANGED <<order, file, content, size, position, listing>>,
         status' \in {"compiling", "exit"}
  PROVE  IInv'
<1>1. Typed'
  BY DEF IInv, Typed, Statuses
<1>2. Written'
  BY DEF Written
<1>3. Waiting'
  BY DEF IInv, Waiting
<1>4. Kept' /\ Given' /\ Outcome'
  BY DEF Kept, Given, Outcome
<1>. QED  BY <1>1, <1>2, <1>3, <1>4, Zenon DEF IInv

LEMMA Associative ==
  ASSUME NEW S, NEW s \in Seq(S), NEW t \in Seq(S), NEW u \in Seq(S)
  PROVE  (s \o t) \o u = s \o (t \o u)
OBVIOUS

LEMMA Emitted ==
  ASSUME IInv, NEW e, Shaped(e), e.at = Len(code), NEW operands, Emit(e, operands),
         \/ pending' = pending
         \/ pending' = pending \cup {Len(code)} /\ e.op \in Distant,
         e.op \in Distant /\ e.at \notin pending' => e.goto = Target(e.at, e.op, e.n),
         operands = Operands(e, Two(e, pending'))
  PROVE  IInv'
<1>1. Laid(code, written, pending) /\ code \in Seq(Bytes)
  BY DEF IInv, Written, Laid
<1>2. /\ status = "compiling" /\ status' = "compiling"
      /\ code' = code \o <<Opcode[e.op]>> \o operands
      /\ written' = Append(written, e)
      /\ UNCHANGED <<order, file, content, size, position, listing>>
  BY DEF Emit
<1>3. PICK c \in Bytes : c = Opcode[e.op]
  BY Fields, OpcodeIs
<1>4. PICK o \in Seq(Bytes) : o = operands
  BY TwoIs, OperandsTyped
<1>5. Enc(e, pending') = <<c>> \o o
  BY <1>3, <1>4, Zenon DEF Enc, Code
<1>6. code' = code \o Enc(e, pending')
  <2>1. <<c>> \in Seq(Bytes)
    OBVIOUS
  <2>2. (code \o <<c>>) \o o = code \o (<<c>> \o o)
    BY <1>1, <2>1, Associative
  <2>. QED  BY <1>2, <1>3, <1>4, <1>5, <2>2, Zenon
<1>7. Laid(code \o Enc(e, pending'), Append(written, e), pending')
  <2>1. PICK Q : Q = pending'
    OBVIOUS
  <2>2. /\ Q = pending \/ (Q = pending \cup {Len(code)} /\ e.op \in Distant)
        /\ e.op \in Distant /\ e.at \notin Q => e.goto = Target(e.at, e.op, e.n)
    BY <2>1, Zenon
  <2>3. Laid(code \o Enc(e, Q), Append(written, e), Q)
    BY <1>1, <2>2, LaidGrow
  <2>. QED  BY <2>1, <2>3, Zenon
<1>8. Laid(code, written, pending)'
  <2>1. Laid(code', written', pending')
    BY <1>2, <1>6, <1>7, Zenon
  <2>. QED  BY <2>1 DEF Laid, Begin, Enc, Code, Two, Shaped, Operands, Lies, Target
<1>. QED  BY <1>2, <1>8, Compiling

LEMMA EntryMade ==
  ASSUME NEW e, IsRecord(e), e.at \in Nat, e.op \in ToSet(OpCodes), e.number \in Seq(Bytes),
         e.n \in Distances, e.goto \in Int, e.texts \in Seq(Seq(Characters)),
         e.types \in Seq(Bytes), e.rets \in Seq(Bytes)
  PROVE  e \in Entries
<1>1. e \in Entries <=> [at |-> e.at, op |-> e.op, number |-> e.number, n |-> e.n, goto |-> e.goto,
                         texts |-> e.texts, types |-> e.types, rets |-> e.rets] \in Entries
  BY Zenon DEF IsRecord
<1>. QED  BY <1>1, EntryIn, Zenon

LEMMA OpCodesAre ==
  /\ "OP_NUMBER" \in ToSet(OpCodes) /\ "OP_DEC_FUNCTION" \in ToSet(OpCodes)
  /\ "OP_LOOP" \in ToSet(OpCodes) /\ "OP_LOOP" \in JumpOps
  /\ SimpleOps \subseteq ToSet(OpCodes) /\ TextOps \subseteq ToSet(OpCodes)
  /\ ForwardOps \subseteq ToSet(OpCodes) /\ ForwardOps \subseteq JumpOps
<1>1. ToSet(OpCodes) = {"OP_RETURN", "OP_NUMBER", "OP_STRING", "OP_NEGATE", "OP_ADD", "OP_SUBTRACT",
             "OP_MULTIPLY", "OP_DIVIDE", "OP_MODULO", "OP_TRUE", "OP_FALSE", "OP_EQUALS",
             "OP_GREATER", "OP_LESSER", "OP_NOT", "OP_AND", "OP_OR", "OP_XOR",
             "OP_DEF_VARIABLE", "OP_SET_VARIABLE", "OP_GET_VARIABLE", "OP_POP",
             "OP_ENTER_SCOPE", "OP_EXIT_SCOPE", "OP_PRINT", "OP_JUMP", "OP_JUMP_IF_FALSE",
             "OP_LOOP", "OP_DEC_FUNCTION", "OP_FUNCTION_CALL"}
  BY DEF ToSet, OpCodes
<1>2. SimpleOps \subseteq ToSet(OpCodes)
  BY DEF SimpleOps
<1>. QED  BY <1>1, <1>2 DEF TextOps, JumpOps, ForwardOps

LEMMA Nothing ==
  /\ <<>> \in Seq(Bytes) /\ <<>> \in Seq(Seq(Characters)) /\ 0 \in Distances /\ 0 \in Int
BY DEF Distances

LEMMA EmitByteKeeps ==
  ASSUME IInv, NEW op \in SimpleOps, EmitByte(op)
  PROVE  IInv'
<1>0. code \in Seq(Bytes) /\ Len(code) \in Nat /\ op \in ToSet(OpCodes)
  BY OpCodesAre DEF IInv, Written, Laid
<1>1. PICK e : e = Here(op)
  OBVIOUS
<1>2. e = [at |-> Len(code), op |-> op, number |-> <<>>, n |-> 0, goto |-> 0,
           texts |-> <<>>, types |-> <<>>, rets |-> <<>>]
  BY <1>1 DEF Here, Entry
<1>3. op \notin TextOps \cup {"OP_NUMBER", "OP_DEC_FUNCTION"} \cup JumpOps
  BY Kinds
<1>4. Shaped(e) /\ e.at = Len(code) /\ e.op = op /\ op \notin Distant
  <2>1. op \notin Distant /\ op # "OP_NUMBER" /\ op \notin TextOps /\ op # "OP_DEC_FUNCTION"
    BY <1>3 DEF Distant
  <2>2. /\ e.at = Len(code) /\ e.op = op /\ e.number = <<>> /\ e.n = 0
        /\ e.goto = 0 /\ e.texts = <<>> /\ e.types = <<>> /\ e.rets = <<>>
    BY <1>2
  <2>3. IsRecord(e)
    BY <1>2, <2>2, Zenon DEF IsRecord
  <2>4. e \in Entries
    BY <2>2, <2>3, <1>0, Nothing, EntryMade, Zenon
  <2>. QED  BY <2>1, <2>2, <2>4, Zenon DEF Shaped
<1>5. Operands(e, Two(e, pending')) = <<>>
  BY <1>0, <1>4, OperandsAre, Zenon
<1>6. Emit(e, <<>>) /\ pending' = pending
  BY <1>1 DEF EmitByte
<1>. QED  BY <1>4, <1>5, <1>6, Emitted

LEMMA EmitDoubleKeeps ==
  ASSUME IInv, NEW d \in Doubles, EmitDouble(d)
  PROVE  IInv'
<1>0. code \in Seq(Bytes) /\ Len(code) \in Nat /\ d \in Seq(Bytes) /\ Len(d) = 8
  BY BytesAssumption DEF IInv, Written, Laid
<1>1. PICK e : e = [Here("OP_NUMBER") EXCEPT !.number = d]
  OBVIOUS
<1>2. e = [at |-> Len(code), op |-> "OP_NUMBER", number |-> d, n |-> 0, goto |-> 0,
           texts |-> <<>>, types |-> <<>>, rets |-> <<>>]
  BY <1>1 DEF Here, Entry
<1>3. "OP_NUMBER" \notin Distant /\ "OP_NUMBER" \notin TextOps
  BY Kinds DEF Distant
<1>4. Shaped(e) /\ e.at = Len(code) /\ e.op = "OP_NUMBER" /\ e.number = d
  <2>1. "OP_NUMBER" # "OP_DEC_FUNCTION"
    OBVIOUS
  <2>2. /\ e.at = Len(code) /\ e.op = "OP_NUMBER" /\ e.number = d /\ e.n = 0
        /\ e.goto = 0 /\ e.texts = <<>> /\ e.types = <<>> /\ e.rets = <<>>
    BY <1>2
  <2>3. IsRecord(e)
    BY <1>2, <2>2, Zenon DEF IsRecord
  <2>4. e \in Entries
    BY <2>2, <2>3, <1>0, Nothing, OpCodesAre, EntryMade, Zenon
  <2>. QED  BY <1>0, <1>3, <2>1, <2>2, <2>4, Zenon DEF Shaped
<1>5. Operands(e, Two(e, pending')) = Stored(d)
  BY <1>0, <1>4, OperandsAre, OpCodesAre, OneOrder, Zenon
<1>6. Emit(e, Stored(d)) /\ pending' = pending
  BY <1>1 DEF EmitDouble
<1>. QED  BY <1>3, <1>4, <1>5, <1>6, Emitted

LEMMA EmitStringKeeps ==
  ASSUME IInv, NEW op \in TextOps, NEW t \in Texts, EmitString(op, t)
  PROVE  IInv'
<1>0. code \in Seq(Bytes) /\ Len(code) \in Nat /\ op \in ToSet(OpCodes) /\ t \in Seq(Characters)
  BY OpCodesAre, BytesAssumption DEF IInv, Written, Laid
<1>1. PICK x \in Seq(Seq(Characters)) : x = <<t>> /\ Len(x) = 1 /\ x[1] = t
  <2>1. <<t>> \in Seq(Seq(Characters)) /\ Len(<<t>>) = 1 /\ <<t>>[1] = t
    BY <1>0
  <2>. QED  BY <2>1, Zenon
<1>2. PICK e : e = [Here(op) EXCEPT !.texts = x]
  OBVIOUS
<1>3. e = [at |-> Len(code), op |-> op, number |-> <<>>, n |-> 0, goto |-> 0,
           texts |-> x, types |-> <<>>, rets |-> <<>>]
  BY <1>2 DEF Here, Entry
<1>4. op \notin Distant /\ op # "OP_NUMBER" /\ op # "OP_DEC_FUNCTION"
  BY Kinds DEF Distant
<1>5. Shaped(e) /\ e.at = Len(code) /\ e.op = op /\ e.texts = x
  <2>1. /\ e.at = Len(code) /\ e.op = op /\ e.number = <<>> /\ e.n = 0
        /\ e.goto = 0 /\ e.texts = x /\ e.types = <<>> /\ e.rets = <<>>
    BY <1>3
  <2>2. IsRecord(e)
    BY <1>3, <2>1, Zenon DEF IsRecord
  <2>3. e \in Entries
    BY <2>1, <2>2, <1>0, Nothing, EntryMade, Zenon
  <2>. QED  BY <1>1, <1>4, <2>1, <2>3, Zenon DEF Shaped
<1>6. Operands(e, Two(e, pending')) = Text(t)
  BY <1>0, <1>1, <1>5, OperandsAre, Zenon
<1>7. Emit(e, Text(t)) /\ pending' = pending
  BY <1>1, <1>2, Zenon DEF EmitString
<1>. QED  BY <1>4, <1>5, <1>6, <1>7, Emitted

LEMMA EmitJumpKeeps ==
  ASSUME IInv, NEW op \in ForwardOps, EmitJump(op)
  PROVE  IInv'
<1>0. code \in Seq(Bytes) /\ Len(code) \in Nat /\ op \in ToSet(OpCodes) /\ op \in JumpOps
  BY OpCodesAre DEF IInv, Written, Laid
<1>1. PICK e : e = Here(op)
  OBVIOUS
<1>2. e = [at |-> Len(code), op |-> op, number |-> <<>>, n |-> 0, goto |-> 0,
           texts |-> <<>>, types |-> <<>>, rets |-> <<>>]
  BY <1>1 DEF Here, Entry
<1>3. op \in Distant /\ op \notin TextOps /\ op # "OP_NUMBER" /\ op # "OP_DEC_FUNCTION"
  BY <1>0, Kinds DEF Distant
<1>4. Shaped(e) /\ e.at = Len(code) /\ e.op = op
  <2>1. /\ e.at = Len(code) /\ e.op = op /\ e.number = <<>> /\ e.n = 0
        /\ e.goto = 0 /\ e.texts = <<>> /\ e.types = <<>> /\ e.rets = <<>>
    BY <1>2
  <2>2. IsRecord(e)
    BY <1>2, <2>1, Zenon DEF IsRecord
  <2>3. e \in Entries
    BY <2>1, <2>2, <1>0, Nothing, EntryMade, Zenon
  <2>. QED  BY <1>3, <2>1, <2>3, Zenon DEF Shaped
<1>5. Emit(e, <<255, 255>>) /\ pending' = pending \cup {Len(code)}
  BY <1>1 DEF EmitJump
<1>6. e.at \in pending'
  BY <1>4, <1>5
<1>7. Operands(e, Two(e, pending')) = <<255, 255>>
  <2>1. Two(e, pending') = <<255, 255>>
    BY <1>6, Zenon DEF Two
  <2>. QED  BY <1>0, <1>4, <2>1, OperandsAre, Zenon
<1>. QED  BY <1>3, <1>4, <1>5, <1>6, <1>7, Emitted

\* A distance that is not too long fits in two bytes.
LEMMA Measured ==
  ASSUME IInv, NEW k \in 1 .. Len(written)
  PROVE  /\ Len(code) \in Nat /\ written[k].at \in Nat /\ written[k].at < Len(code)
         /\ Distance(written[k].at) <= JumpMax => Distance(written[k].at) \in Distances
         /\ Length(k) <= JumpMax => Length(k) \in Distances
<1>1. Laid(code, written, pending)
  BY DEF IInv, Written
<1>2. PICK a, l \in Nat : a = written[k].at /\ l = Len(code) /\ a < l
  BY <1>1, Places, Zenon
<1>3. \A d \in Nat : d <= JumpMax => d \in Distances
  BY JumpMaxAssumption DEF Distances
<1>4. l - a \in Nat /\ l - a - 0 \in Nat /\ l - a - 1 \in Nat
  BY <1>2
<1>5. Distance(written[k].at) = l - a
  BY <1>2, Zenon DEF Distance
<1>6. Length(k) = l - a - (IF written[k].op = "OP_DEC_FUNCTION" THEN 1 ELSE 0)
  BY <1>5, Zenon DEF Length
<1>7. Length(k) \in Nat
  BY <1>4, <1>6, Zenon
<1>. QED  BY <1>2, <1>3, <1>4, <1>5, <1>7, Zenon

LEMMA EmitLoopKeeps ==
  ASSUME IInv, NEW k \in 1 .. Len(written), EmitLoop(k)
  PROVE  IInv'
<1>0. code \in Seq(Bytes) /\ Len(code) \in Nat /\ Laid(code, written, pending)
  BY DEF IInv, Written, Laid
<1>1. PICK n \in Distances : n = Distance(written[k].at)
  BY Measured DEF EmitLoop
<1>2. PICK b : b = Here("OP_LOOP")
  OBVIOUS
<1>3. b = [at |-> Len(code), op |-> "OP_LOOP", number |-> <<>>, n |-> 0, goto |-> 0,
           texts |-> <<>>, types |-> <<>>, rets |-> <<>>]
  BY <1>2 DEF Here, Entry
<1>4. /\ "OP_LOOP" \in Distant /\ "OP_LOOP" \notin TextOps
      /\ "OP_LOOP" # "OP_NUMBER" /\ "OP_LOOP" # "OP_DEC_FUNCTION"
  BY OpCodesAre, Kinds DEF Distant
<1>5. Shaped(b) /\ b.at = Len(code) /\ b.op = "OP_LOOP"
  <2>1. /\ b.at = Len(code) /\ b.op = "OP_LOOP" /\ b.number = <<>> /\ b.n = 0
        /\ b.goto = 0 /\ b.texts = <<>> /\ b.types = <<>> /\ b.rets = <<>>
    BY <1>3
  <2>2. IsRecord(b)
    BY <1>3, <2>1, Zenon DEF IsRecord
  <2>3. b \in Entries
    BY <2>1, <2>2, <1>0, Nothing, OpCodesAre, EntryMade, Zenon
  <2>. QED  BY <1>4, <2>1, <2>3, Zenon DEF Shaped
<1>6. PICK e : e = Leading(b, n)
  OBVIOUS
<1>7. Shaped(e) /\ e.n = n /\ e.goto = Target(e.at, e.op, e.n) /\ e.at = Len(code) /\ e.op = "OP_LOOP"
  BY <1>4, <1>5, <1>6, LeadingIs
<1>8. Emit(e, Stored(TwoBytes(n))) /\ pending' = pending
  BY <1>1, <1>2, <1>6, Zenon DEF EmitLoop
<1>9. e.at \notin pending'
  <2>1. ASSUME NEW q \in pending PROVE q # Len(code)
    <3>1. PICK l \in 1 .. Len(written) : q = written[l].at
      BY <1>0 DEF Laid
    <3>. QED  BY <3>1, Measured
  <2>. QED  BY <1>7, <1>8, <2>1, Zenon
<1>10. Operands(e, Two(e, pending')) = Stored(TwoBytes(n))
  <2>1. Two(e, pending') = TwoBytes(n)
    BY <1>7, <1>9, Zenon DEF Two
  <2>2. Stored(TwoBytes(n)) = TwoBytes(n)
    BY TwoBytesIs, OneOrder
  <2>. QED  BY <1>7, <2>1, <2>2, OperandsAre, OpCodesAre, Zenon
<1>. QED  BY <1>4, <1>7, <1>8, <1>10, Emitted

LEMMA HeadersAre ==
  ASSUME NEW f \in Headers
  PROVE  /\ <<f.name>> \o f.names \in Seq(Seq(Characters)) /\ Len(<<f.name>> \o f.names) = Len(f.types) + 1
         /\ (<<f.name>> \o f.names)[1] = f.name /\ Tail(<<f.name>> \o f.names) = f.names
         /\ f.types \in Seq(Bytes) /\ f.rets \in Seq(Bytes)
         /\ Len(f.types) < 256 /\ Len(f.rets) < 256
<1>1. /\ f.name \in Seq(Characters) /\ f.names \in Seq(Seq(Characters))
      /\ f.types \in Seq(Types) /\ f.rets \in Seq(Types)
      /\ Len(f.names) = Len(f.types) /\ Len(f.types) < 256 /\ Len(f.rets) < 256
  BY HeadersAssumption
<1>2. f.types \in Seq(Bytes) /\ f.rets \in Seq(Bytes)
  <2>1. \A t \in Seq(Types) : t \in Seq(Bytes)
    BY DEF Types, Bytes
  <2>. QED  BY <1>1, <2>1, Zenon
<1>3. PICK x, names : x = f.name /\ names = f.names
  OBVIOUS
<1>4. x \in Seq(Characters) /\ names \in Seq(Seq(Characters)) /\ Len(names) = Len(f.types)
  BY <1>1, <1>3
<1>5. /\ <<x>> \o names \in Seq(Seq(Characters)) /\ Len(<<x>> \o names) = Len(names) + 1
      /\ (<<x>> \o names)[1] = x
  BY <1>4
<1>6. Tail(<<x>> \o names) = names
  BY <1>4
<1>. QED  BY <1>1, <1>2, <1>3, <1>4, <1>5, <1>6, Zenon

LEMMA EmitHeaderKeeps ==
  ASSUME IInv, NEW f \in Headers, EmitHeader(f)
  PROVE  IInv'
<1>0. code \in Seq(Bytes) /\ Len(code) \in Nat
  BY DEF IInv, Written, Laid
<1>1. PICK x \in Seq(Seq(Characters)) :
        x = <<f.name>> \o f.names /\ Len(x) = Len(f.types) + 1 /\ x[1] = f.name /\ Tail(x) = f.names
  BY HeadersAre, Zenon
<1>2. PICK types \in Seq(Bytes), rets \in Seq(Bytes) :
        types = f.types /\ rets = f.rets /\ Len(types) < 256 /\ Len(rets) < 256
  BY HeadersAre, Zenon
<1>3. PICK e : e = [Here("OP_DEC_FUNCTION") EXCEPT !.texts = x, !.types = types, !.rets = rets]
  OBVIOUS
<1>4. e = [at |-> Len(code), op |-> "OP_DEC_FUNCTION", number |-> <<>>, n |-> 0, goto |-> 0,
           texts |-> x, types |-> types, rets |-> rets]
  BY <1>3 DEF Here, Entry
<1>5. "OP_DEC_FUNCTION" \in Distant /\ "OP_DEC_FUNCTION" \notin TextOps /\ "OP_DEC_FUNCTION" # "OP_NUMBER"
  BY Kinds DEF Distant
<1>6. /\ Shaped(e) /\ e.at = Len(code) /\ e.op = "OP_DEC_FUNCTION"
      /\ e.texts = x /\ e.types = types /\ e.rets = rets
  <2>1. /\ e.at = Len(code) /\ e.op = "OP_DEC_FUNCTION" /\ e.number = <<>>
        /\ e.n = 0 /\ e.goto = 0 /\ e.texts = x /\ e.types = types /\ e.rets = rets
    BY <1>4
  <2>2. IsRecord(e)
    BY <1>4, <2>1, Zenon DEF IsRecord
  <2>3. e \in Entries
    BY <2>1, <2>2, <1>0, Nothing, OpCodesAre, EntryMade, Zenon
  <2>4. Len(x) = Len(types) + 1
    BY <1>1, <1>2, Zenon
  <2>. QED  BY <1>2, <1>5, <2>1, <2>3, <2>4, Zenon DEF Shaped
<1>7. /\ Emit(e, <<255, 255>> \o Text(f.name) \o <<Len(f.types)>> \o f.types \o Joined(f.names)
                   \o <<Len(f.rets)>> \o f.rets)
      /\ pending' = pending \cup {Len(code)}
  BY <1>1, <1>2, <1>3, Zenon DEF EmitHeader
<1>8. e.at \in pending'
  BY <1>6, <1>7
<1>9. Operands(e, Two(e, pending')) =
        <<255, 255>> \o Text(f.name) \o <<Len(f.types)>> \o f.types \o Joined(f.names)
          \o <<Len(f.rets)>> \o f.rets
  <2>1. Two(e, pending') = <<255, 255>>
    BY <1>8, Zenon DEF Two
  <2>2. Operands(e, <<255, 255>>) =
          <<255, 255>> \o Text(e.texts[1]) \o <<Len(e.types)>> \o e.types \o Joined(Tail(e.texts))
            \o <<Len(e.rets)>> \o e.rets
    BY <1>6, OperandsAre, OpCodesAre, ZenonT(60)
  <2>3. e.texts[1] = f.name /\ Tail(e.texts) = f.names /\ e.types = f.types /\ e.rets = f.rets
    BY <1>1, <1>2, <1>6, Zenon
  <2>. QED  BY <2>1, <2>2, <2>3, ZenonT(60)
<1>. QED  BY <1>5, <1>6, <1>7, <1>8, <1>9, Emitted, Zenon

\* One sequence is the other, but for one element, or for the two behind an opcode.
Elsewhere(v, w, i) == \A k \in 1 .. Len(w) : k # i => v[k] = w[k]
Repaired(d, c, at, two) ==
  /\ Len(d) = Len(c) /\ d[at + 2] = two[1] /\ d[at + 3] = two[2]
  /\ \A x \in 1 .. Len(c) : x # at + 2 /\ x # at + 3 => d[x] = c[x]

LEMMA LaidPatched ==
  ASSUME NEW c, NEW w, NEW P, Laid(c, w, P), NEW i \in 1 .. Len(w), NEW at \in P, at = w[i].at,
         NEW n \in Distances,
         NEW d \in Seq(Bytes), Repaired(d, c, at, TwoBytes(n)),
         NEW v \in Seq(Entries), Len(v) = Len(w), v[i] = Leading(w[i], n), Elsewhere(v, w, i)
  PROVE  Laid(d, v, P \ {at})
<1>1. /\ Len(d) = Len(c) /\ d[w[i].at + 2] = TwoBytes(n)[1] /\ d[w[i].at + 3] = TwoBytes(n)[2]
      /\ \A x \in 1 .. Len(c) : x # w[i].at + 2 /\ x # w[i].at + 3 => d[x] = c[x]
  BY Zenon DEF Repaired
<1>2. \A k \in 1 .. Len(w) : k # i => v[k] = w[k]
  BY Zenon DEF Elsewhere
<1>3. w[i].at \in P
  BY Zenon
<1>4. Laid(d, v, P \ {w[i].at})
  BY <1>1, <1>2, <1>3, LaidPatch
<1>. QED  BY <1>4, Zenon

LEMMA PatchKeeps ==
  ASSUME IInv, NEW k \in 1 .. Len(written), Patch(k)
  PROVE  IInv'
<1>0. code \in Seq(Bytes) /\ written \in Seq(Entries) /\ Laid(code, written, pending)
  BY DEF IInv, Written, Laid
<1>1. PICK a, l \in Nat : a = written[k].at /\ l = Len(code) /\ a < l
  BY Measured, Zenon
<1>2. PICK n \in Distances : n = Length(k)
  BY Measured DEF Patch
<1>3. /\ status = "compiling" /\ a \in pending
      /\ code' = Patched(a, n)
      /\ written' = [written EXCEPT ![k] = Leading(@, n)]
      /\ pending' = pending \ {a}
      /\ UNCHANGED <<order, file, content, size, position, listing, status>>
  BY <1>1, <1>2, Zenon DEF Patch
<1>4. Shaped(written[k]) /\ written[k].op \in Distant
  BY <1>0, <1>1, <1>3, Zenon DEF Laid
<1>5. PICK e : e = Leading(written[k], n)
  OBVIOUS
<1>6. e \in Entries
  BY <1>4, <1>5, LeadingIs DEF Shaped
<1>7. PICK v : v = [written EXCEPT ![k] = e]
  OBVIOUS
<1>8. /\ v \in Seq(Entries) /\ Len(v) = Len(written) /\ v[k] = e
      /\ \A j \in 1 .. Len(written) : j # k => v[j] = written[j]
  <2>1. PICK E : E = Entries
    OBVIOUS
  <2>. QED  BY <1>0, <1>6, <1>7, <2>1, Replaced
<1>9. written' = v
  BY <1>3, <1>5, <1>7
<1>10. PICK two \in Seq(Bytes) : two = TwoBytes(n) /\ Len(two) = 2 /\ Stored(TwoBytes(n)) = two
  BY TwoBytesIs, OneOrder
<1>11. PICK d : d = [j \in 1 .. l |-> IF j \in {a + 2, a + 3} THEN two[j - a - 1] ELSE code[j]]
  OBVIOUS
<1>12. code' = d
  BY <1>1, <1>3, <1>10, <1>11, Zenon DEF Patched
<1>13. a + 3 <= l
  <2>1. PICK w \in Nat : w = Len(Enc(written[k], pending)) /\ w >= 3
    BY <1>4, DistantWidth
  <2>2. Begin(code, written, k + 1) = a + w
    BY <1>0, <1>1, <2>1, Zenon DEF Laid
  <2>3. k + 1 \in 1 .. Len(written) + 1
    BY <1>0
  <2>4. Begin(code, written, k + 1) <= l
    BY <1>0, <1>1, <2>3, Places
  <2>. QED  BY <2>1, <2>2, <2>4
<1>14. /\ d \in Seq(Bytes) /\ Len(d) = l
       /\ d[a + 2] = two[1] /\ d[a + 3] = two[2]
       /\ \A x \in 1 .. l : x # a + 2 /\ x # a + 3 => d[x] = code[x]
  <2>1. two[1] \in Bytes /\ two[2] \in Bytes
    <3>1. 1 \in 1 .. Len(two) /\ 2 \in 1 .. Len(two)
      BY <1>10
    <3>. QED  BY <3>1
  <2>2. \A x \in 1 .. l : code[x] \in Bytes
    BY <1>0, <1>1
  <2>3. a + 2 \in 1 .. l /\ a + 3 \in 1 .. l /\ (a + 2) - a - 1 = 1 /\ (a + 3) - a - 1 = 2
    BY <1>13
  <2>4. d[a + 2] = two[1] /\ d[a + 3] = two[2]
    BY <1>11, <2>3, Zenon
  <2>5. \A x \in 1 .. l : x # a + 2 /\ x # a + 3 => d[x] = code[x]
    BY <1>11
  <2>6. \A x \in 1 .. l : d[x] \in Bytes
    BY <2>1, <2>2, <2>4, <2>5, Zenon
  <2>7. d \in [1 .. l -> Bytes]
    <3>1. d = [x \in 1 .. l |-> d[x]]
      BY <1>11, Zenon
    <3>. QED  BY <2>6, <3>1, Zenon
  <2>8. d \in Seq(Bytes) /\ Len(d) = l
    BY <2>7
  <2>. QED  BY <2>4, <2>5, <2>8
<1>15. Laid(d, v, pending \ {a})
  <2>1. Repaired(d, code, a, TwoBytes(n))
    BY <1>1, <1>10, <1>14, Zenon DEF Repaired
  <2>2. Elsewhere(v, written, k)
    BY <1>8, Zenon DEF Elsewhere
  <2>3. a \in pending /\ d \in Seq(Bytes) /\ v[k] = Leading(written[k], n)
    BY <1>3, <1>5, <1>8, <1>14, Zenon
  <2>4. v \in Seq(Entries) /\ Len(v) = Len(written)
    BY <1>8
  <2>. QED  BY <1>0, <1>1, <2>1, <2>2, <2>3, <2>4, LaidPatched
<1>16. Laid(code, written, pending)'
  <2>1. Laid(code', written', pending')
    BY <1>3, <1>9, <1>12, <1>15, Zenon
  <2>. QED  BY <2>1 DEF Laid, Begin, Enc, Code, Two, Shaped, Operands, Lies, Target
<1>. QED  BY <1>3, <1>16, Compiling

LEMMA TooFarKeeps ==
  ASSUME IInv, NEW k \in 1 .. Len(written), TooFar(k)
  PROVE  IInv'
<1>1. /\ status = "compiling" /\ status' = "exit"
      /\ UNCHANGED <<order, code, written, pending, file, content, size, position, listing>>
  BY DEF TooFar
<1>2. Laid(code, written, pending)
  BY DEF IInv, Written
<1>3. Laid(code, written, pending)'
  <2>1. Laid(code', written', pending')
    BY <1>1, <1>2, Zenon
  <2>. QED  BY <2>1 DEF Laid, Begin, Enc, Code, Two, Shaped, Operands, Lies, Target
<1>. QED  BY <1>1, <1>3, Compiling

-----------------------------------------------------------------------------
(* Files *)

LEMMA LaidStays ==
  ASSUME Laid(code, written, pending), UNCHANGED <<code, written, pending>>
  PROVE  Laid(code, written, pending)'
<1>1. Laid(code', written', pending')
  BY Zenon
<1>. QED  BY <1>1 DEF Laid, Begin, Enc, Code, Two, Shaped, Operands, Lies, Target

\* Before anything is listed, the disassembler is where the chunk begins.
LEMMA AgreesFirst ==
  ASSUME Laid(code, written, pending), listing = <<>>, position = 0, UNCHANGED <<code, written, position, listing>>
  PROVE  Agrees'
<1>1. Len(written) \in Nat /\ Begin(code, written, 1) = 0
  BY Zenon, Places DEF Laid
<1>2. Len(listing) = 0
  OBVIOUS
<1>3. Agrees
  <2>1. \A k \in 1 .. Len(listing) : FALSE
    BY <1>2
  <2>2. Len(listing) <= Len(written) /\ Len(listing) + 1 = 1 /\ ~(Len(listing) > 0)
    BY <1>1, <1>2
  <2>. QED  BY <1>1, <2>1, <2>2, Zenon DEF Agrees
<1>. QED  BY <1>3 DEF Agrees, Begin

LEMMA SerializeKeeps ==
  ASSUME IInv, NEW k \in 0 .. Len(code), Serialize(k)
  PROVE  IInv'
<1>1. /\ status = "compiling" /\ pending = {} /\ file' = SubSeq(code, 1, k) /\ status' = "stored"
      /\ UNCHANGED <<order, code, written, pending, content, size, position, listing>>
  BY DEF Serialize, Complete
<1>2. Laid(code, written, pending) /\ code \in Seq(Bytes)
  BY DEF IInv, Written, Laid
<1>3. SubSeq(code, 1, k) \in Seq(Bytes)
  BY <1>2
<1>4. Typed'
  BY <1>1, <1>3 DEF IInv, Typed, Statuses
<1>5. Written'
  BY <1>1, <1>2, LaidStays DEF Written
<1>6. Waiting'
  BY <1>1 DEF IInv, Waiting
<1>7. Kept'
  BY <1>1, Zenon DEF Kept
<1>8. Given' /\ Outcome'
  BY <1>1 DEF Given, Outcome
<1>. QED  BY <1>4, <1>5, <1>6, <1>7, <1>8, Zenon DEF IInv

LEMMA ListMemoryKeeps ==
  ASSUME IInv, ListMemory
  PROVE  IInv'
<1>1. /\ status = "compiling" /\ pending = {} /\ written # <<>>
      /\ content' = code /\ size' = Len(code) /\ status' = "listing"
      /\ UNCHANGED <<order, code, written, pending, file, position, listing>>
  BY DEF ListMemory, Complete
<1>2. Laid(code, written, pending) /\ code \in Seq(Bytes) /\ Len(code) \in Nat
  BY DEF IInv, Written, Laid
<1>3. position = 0 /\ listing = <<>>
  BY <1>1 DEF IInv, Waiting
<1>4. Typed'
  BY <1>1, <1>2, <1>3 DEF IInv, Typed, Statuses
<1>5. Written'
  BY <1>1, <1>2, LaidStays DEF Written
<1>6. Agrees'
  BY <1>1, <1>2, <1>3, AgreesFirst
<1>7. Given'
  <2>1. /\ written' # <<>> /\ Len(content') = size' /\ size' = Len(code')
        /\ \A j \in 1 .. size' : content'[j] = code'[j]
    BY <1>1, Zenon
  <2>2. size' <= Len(code')
    BY <1>1, <1>2
  <2>. QED  BY <1>6, <2>1, <2>2, Zenon DEF Given
<1>8. Waiting' /\ Kept' /\ Outcome'
  BY <1>1 DEF Waiting, Kept, Outcome
<1>. QED  BY <1>4, <1>5, <1>7, <1>8, Zenon DEF IInv

LEMMA ListFileKeeps ==
  ASSUME IInv, NEW o \in Orders, ListFile(o)
  PROVE  IInv'
<1>1. /\ status = "stored" /\ order' = o /\ content' = file \o <<0>> /\ size' = Len(file)
      /\ status' = "listing" /\ UNCHANGED <<code, written, pending, file, position, listing>>
  BY DEF ListFile
<1>2. Laid(code, written, pending) /\ code \in Seq(Bytes) /\ Len(code) \in Nat
  BY DEF IInv, Written, Laid
<1>3. position = 0 /\ listing = <<>> /\ pending = {}
  BY <1>1 DEF IInv, Waiting, Written
<1>4. file \in Seq(Bytes) /\ Len(file) \in Nat
  BY DEF IInv, Typed
<1>5. /\ content' \in Seq(Bytes) /\ Len(content') = Len(file) + 1 /\ content'[Len(file) + 1] = 0
      /\ \A j \in 1 .. Len(file) : content'[j] = file[j]
  <2>1. <<0>> \in Seq(Bytes) /\ Len(<<0>>) = 1 /\ <<0>>[1] = 0
    BY DEF Bytes
  <2>2. PICK zero \in Seq(Bytes) : zero = <<0>> /\ Len(zero) = 1 /\ zero[1] = 0
    BY <2>1, Zenon
  <2>3. /\ content' \in Seq(Bytes) /\ Len(content') = Len(file) + Len(zero)
        /\ \A j \in 1 .. Len(file) : content'[j] = file[j]
        /\ \A j \in 1 .. Len(zero) : content'[Len(file) + j] = zero[j]
    BY <1>1, <1>4, <2>2, Appended
  <2>4. 1 \in 1 .. Len(zero)
    BY <2>2
  <2>. QED  BY <2>2, <2>3, <2>4, Zenon
<1>6. Typed'
  BY <1>1, <1>3, <1>4, <1>5 DEF IInv, Typed, Statuses
<1>7. Written'
  BY <1>1, <1>2, <1>3, LaidStays DEF Written
<1>8. Agrees'
  BY <1>1, <1>2, <1>3, AgreesFirst
<1>9. ASSUME written # <<>>
      PROVE  Len(file) <= Len(code) /\ \A j \in 1 .. Len(file) : content'[j] = code[j]
  <2>1. PICK k \in 0 .. Len(code) : file = SubSeq(code, 1, k)
    BY <1>1, <1>9 DEF IInv, Kept
  <2>2. Len(file) = k /\ \A j \in 1 .. k : file[j] = code[j]
    BY <1>2, <2>1
  <2>. QED  BY <1>2, <1>5, <2>2
<1>10. Given'
  <2>1. size' = Len(file) /\ code' = code /\ written' = written
    BY <1>1
  <2>2. Len(content') = size' + 1 /\ content'[size' + 1] = 0
    BY <1>5, <2>1
  <2>3. written' # <<>> => size' <= Len(code') /\ \A j \in 1 .. size' : content'[j] = code'[j]
    BY <1>9, <2>1, Zenon
  <2>. QED  BY <1>8, <2>2, <2>3, Zenon DEF Given
<1>11. Waiting' /\ Kept' /\ Outcome'
  BY <1>1 DEF Waiting, Kept, Outcome
<1>. QED  BY <1>6, <1>7, <1>10, <1>11, Zenon DEF IInv

-----------------------------------------------------------------------------
(* Listing *)

\* While there is something to list, the disassembler is at the next instruction of the
\* compiler, if the chunk came from it.
LEMMA MeetsNow ==
  ASSUME IInv, status = "listing", position < size, written # <<>>
  PROVE  /\ Len(listing) \in Nat /\ Len(listing) + 1 \in 1 .. Len(written)
         /\ Meets(written[Len(listing) + 1])
         /\ End(written[Len(listing) + 1]) = Begin(code, written, Len(listing) + 2)
         /\ End(written[Len(listing) + 1]) <= Len(code)
         /\ written[Len(listing) + 1].op \in Distant =>
              written[Len(listing) + 1].goto = Target(written[Len(listing) + 1].at,
                                 written[Len(listing) + 1].op, written[Len(listing) + 1].n)
         /\ \A k \in 1 .. Len(listing) : listing[k] = written[k]
<1>0. /\ Laid(code, written, pending) /\ pending = {}
      /\ content \in Seq(Bytes) /\ size \in Nat /\ size <= Len(content) /\ position \in Nat
      /\ Len(content) \in Nat
  BY DEF IInv, Written, Typed
<1>1. PICK n \in Nat : n = Len(listing)
  <2>1. PICK S : listing \in Seq(S)
    BY DEF IInv, Typed
  <2>. QED  BY <2>1
<1>2. /\ \/ Len(content) = size + 1 /\ content[size + 1] = 0
         \/ Len(content) = size /\ size = Len(code)
      /\ size <= Len(code) /\ \A j \in 1 .. size : content[j] = code[j]
      /\ Agrees
  BY DEF IInv, Given
<1>3. /\ n <= Len(written) /\ position = Begin(code, written, n + 1)
      /\ n > 0 => listing[n] = written[n]
      /\ \A k \in 1 .. n : k < n => listing[k] = written[k]
  <2>1. ~(position >= size)
    BY <1>0
  <2>. QED  BY <1>1, <1>2, <2>1, Zenon DEF Agrees
<1>4. /\ Len(written) \in Nat /\ Len(code) \in Nat /\ Begin(code, written, Len(written) + 1) = Len(code)
      /\ \A k \in 1 .. Len(written) + 1 : Begin(code, written, k) \in Nat /\ Begin(code, written, k) <= Len(code)
  BY <1>0, Places, Zenon
<1>5. n + 1 \in 1 .. Len(written)
  <2>1. n # Len(written)
    <3>1. ASSUME n = Len(written) PROVE position = Len(code)
      BY <1>3, <1>4, <3>1, Zenon
    <3>. QED  BY <1>0, <1>2, <1>4, <3>1
  <2>. QED  BY <1>3, <1>4, <2>1
<1>6. PICK i : i = written[n + 1]
  OBVIOUS
<1>7. /\ Shaped(i) /\ position = i.at /\ Begin(code, written, n + 1 + 1) = i.at + Len(Enc(i, {}))
      /\ Lies(code, i.at, Enc(i, {}))
      /\ i.op \in Distant /\ i.at \notin {} => i.goto = Target(i.at, i.op, i.n)
  <2>1. PICK m \in 1 .. Len(written) : m = n + 1 /\ written[m] = i
    BY <1>5, <1>6
  <2>2. /\ Shaped(written[m]) /\ Begin(code, written, m) = written[m].at
        /\ Begin(code, written, m + 1) = written[m].at + Len(Enc(written[m], pending))
        /\ Lies(code, written[m].at, Enc(written[m], pending))
        /\ written[m].op \in Distant /\ written[m].at \notin pending =>
             written[m].goto = Target(written[m].at, written[m].op, written[m].n)
    <3>1. Begin(code, written, m) = written[m].at
      BY <1>0, Places, Zenon
    <3>. QED  BY <1>0, <3>1, Zenon DEF Laid
  <2>3. position = Begin(code, written, m)
    BY <1>3, <2>1, Zenon
  <2>. QED  BY <1>0, <2>1, <2>2, <2>3, Zenon
<1>8. End(i) = Begin(code, written, n + 2) /\ End(i) <= Len(code)
  <2>1. n + 1 + 1 = n + 2 /\ n + 2 \in 1 .. Len(written) + 1
    BY <1>4, <1>5
  <2>. QED  BY <1>4, <1>7, <2>1, Zenon DEF End
<1>9. Meets(i)
  <2>1. \/ Len(content) = size + 1 /\ content[size + 1] = 0
        \/ Len(content) = size /\ End(i) <= size
    BY <1>2, <1>8, Zenon
  <2>. QED  BY <1>0, <1>2, <1>7, <2>1, Zenon DEF Meets
<1>10. \A k \in 1 .. n : listing[k] = written[k]
  <2>1. ASSUME NEW k \in 1 .. n PROVE listing[k] = written[k]
    <3>1. k < n \/ (k = n /\ n > 0)
      OBVIOUS
    <3>. QED  BY <1>3, <3>1, Zenon
  <2>. QED  BY <2>1, Zenon
<1>. QED  BY <1>1, <1>5, <1>6, <1>7, <1>8, <1>9, <1>10, Zenon

\* An entry that tells an instruction of the compiler, or that is the last one of a file in
\* which the instruction is not whole.
Told(entry, to, i) ==
  /\ entry.at = i.at /\ entry.op = i.op
  /\ to = End(i) \/ (to > size /\ End(i) > size)
  /\ End(i) <= size => entry = i

LEMMA ListKeeps ==
  ASSUME IInv, status = "listing", position < size, NEW entry, NEW to \in Nat, to <= Len(content),
         List(entry, to), written # <<>> => Told(entry, to, written[Len(listing) + 1])
  PROVE  IInv'
<1>0. /\ Laid(code, written, pending) /\ pending = {} /\ size \in Nat
  BY DEF IInv, Written, Typed
<1>1. /\ listing' = Append(listing, entry) /\ position' = to
      /\ UNCHANGED <<order, code, written, pending, file, content, size, status>>
  BY DEF List
<1>2. PICK S : listing \in Seq(S)
  BY DEF IInv, Typed
<1>3. PICK n \in Nat : n = Len(listing)
  BY <1>2
<1>4. /\ listing' \in Seq(S \cup {entry}) /\ Len(listing') = n + 1 /\ listing'[n + 1] = entry
      /\ \A k \in 1 .. n : listing'[k] = listing[k]
  <2>1. PICK T : T = S \cup {entry}
    OBVIOUS
  <2>2. listing \in Seq(T) /\ entry \in T
    BY <1>2, <2>1
  <2>3. /\ Append(listing, entry) \in Seq(T) /\ Len(Append(listing, entry)) = Len(listing) + 1
        /\ Append(listing, entry)[Len(listing) + 1] = entry
        /\ \A k \in 1 .. Len(listing) : Append(listing, entry)[k] = listing[k]
    BY <2>2
  <2>. QED  BY <1>1, <1>3, <2>1, <2>3, Zenon
<1>5. Typed'
  <2>1. \E R : listing' \in Seq(R)
    BY <1>4, Zenon
  <2>2. order' \in Orders /\ status' \in Statuses /\ file' \in Seq(Bytes) /\ content' \in Seq(Bytes)
        /\ size' \in Nat /\ size' <= Len(content') /\ position' \in Nat /\ position' <= Len(content')
    BY <1>1, Zenon DEF IInv, Typed
  <2>. QED  BY <2>1, <2>2, Zenon DEF Typed
<1>6. Written'
  BY <1>0, <1>1, LaidStays DEF Written
<1>7. ASSUME written # <<>> PROVE Agrees'
  <2>1. PICK i : i = written[n + 1]
    OBVIOUS
  <2>2. /\ n + 1 \in 1 .. Len(written) /\ End(i) = Begin(code, written, n + 2)
        /\ \A k \in 1 .. n : listing[k] = written[k]
    BY <1>3, <1>7, <2>1, MeetsNow, Zenon
  <2>3. /\ entry.at = i.at /\ entry.op = i.op
        /\ to = End(i) \/ (to > size /\ End(i) > size)
        /\ End(i) <= size => entry = i
    BY <1>3, <1>7, <2>1, Zenon DEF Told
  <2>4. n + 1 <= Len(written) /\ n + 1 + 1 = n + 2 /\ n + 1 > 0
    BY <2>2
  <2>5. ASSUME NEW k \in 1 .. n + 1
        PROVE  /\ k < n + 1 => listing'[k] = written[k]
               /\ listing'[k].at = written[k].at /\ listing'[k].op = written[k].op
    <3>1. k \in 1 .. n \/ (k = n + 1 /\ ~(k < n + 1))
      OBVIOUS
    <3>. QED  BY <1>4, <2>1, <2>2, <2>3, <3>1, Zenon
  <2>6. \/ /\ to = Begin(code, written, n + 1 + 1)
           /\ n + 1 > 0 => listing'[n + 1] = written[n + 1]
        \/ n + 1 > 0 /\ to >= size /\ Begin(code, written, n + 1 + 1) > size
    <3>0. PICK z : z = End(i)
      OBVIOUS
    <3>1. z \in Nat
      <4>1. n + 2 \in 1 .. Len(written) + 1
        BY <2>2
      <4>2. Begin(code, written, n + 2) \in Nat
        BY <1>0, <4>1, Places, Zenon
      <4>. QED  BY <2>2, <3>0, <4>2, Zenon
    <3>2. CASE z <= size
      <4>1. ~(z > size)
        BY <1>0, <3>1, <3>2
      <4>. QED  BY <1>4, <2>1, <2>2, <2>3, <2>4, <3>0, <3>2, <4>1, Zenon
    <3>3. CASE ~(z <= size)
      <4>1. z > size /\ to >= size
        BY <1>0, <2>3, <3>0, <3>1, <3>3
      <4>. QED  BY <2>2, <2>4, <3>0, <4>1, Zenon
    <3>. QED  BY <3>2, <3>3
  <2>7. code' = code /\ written' = written /\ size' = size
    BY <1>1
  <2>. QED  BY <1>1, <1>4, <2>4, <2>5, <2>6, <2>7, Zenon DEF Agrees, Begin
<1>8. Given'
  <2>1. /\ \/ Len(content) = size + 1 /\ content[size + 1] = 0
           \/ written # <<>> /\ Len(content) = size /\ size = Len(code)
        /\ written # <<>> => size <= Len(code) /\ \A j \in 1 .. size : content[j] = code[j]
    BY DEF IInv, Given
  <2>2. code' = code /\ written' = written /\ size' = size /\ content' = content
    BY <1>1
  <2>. QED  BY <1>7, <2>1, <2>2, Zenon DEF Given
<1>9. Waiting' /\ Kept' /\ Outcome'
  BY <1>1 DEF Waiting, Kept, Outcome
<1>. QED  BY <1>5, <1>6, <1>8, <1>9, Zenon DEF IInv

\* The instruction of the compiler that is listed next.
LEMMA Upcoming ==
  ASSUME IInv, status = "listing", position < size, written # <<>>
  PROVE  \E i : /\ i = written[Len(listing) + 1]
                /\ Meets(i) /\ Shaped(i) /\ i.at = position /\ i.op = Instruction
                /\ i.op \in ToSet(OpCodes) /\ End(i) \in Nat /\ End(i) <= Len(code)
                /\ i.op \in Distant => i.goto = Target(i.at, i.op, i.n)
<1>1. PICK i : i = written[Len(listing) + 1]
  OBVIOUS
<1>2. /\ Meets(i) /\ End(i) <= Len(code)
      /\ i.op \in Distant => i.goto = Target(i.at, i.op, i.n)
  BY <1>1, MeetsNow, Zenon
<1>3. Shaped(i) /\ i.at = position
  BY <1>2, Zenon DEF Meets
<1>4. i.op = Instruction /\ i.op \in ToSet(OpCodes) /\ End(i) \in Nat
  BY <1>2, Met, Zenon
<1>. QED  BY <1>1, <1>2, <1>3, <1>4, Zenon

LEMMA Located ==
  ASSUME IInv
  PROVE  /\ position \in Nat /\ size \in Nat /\ content \in Seq(Bytes) /\ Len(content) \in Nat
         /\ size <= Len(content)
BY DEF IInv, Typed

LEMMA Unknown == "unknown" \notin ToSet(OpCodes) /\ SimpleOps \cap Distant = {}
<1>1. "unknown" \notin ToSet(OpCodes)
  BY DEF ToSet, OpCodes
<1>2. \A op \in SimpleOps : op \notin Distant
  BY Kinds DEF Distant
<1>. QED  BY <1>1, <1>2

LEMMA ListByteKeeps ==
  ASSUME IInv, ListByte
  PROVE  IInv'
<1>1. /\ status = "listing" /\ position < size /\ Instruction \in SimpleOps \cup {"unknown"}
      /\ List(This, position + 1)
  BY DEF ListByte, Reading
<1>2. position + 1 \in Nat /\ position + 1 <= Len(content)
  BY <1>1, Located
<1>3. ASSUME written # <<>> PROVE Told(This, position + 1, written[Len(listing) + 1])
  <2>1. PICK i : /\ i = written[Len(listing) + 1]
                 /\ Meets(i) /\ Shaped(i) /\ i.at = position /\ i.op = Instruction
                 /\ i.op \in ToSet(OpCodes) /\ End(i) \in Nat /\ End(i) <= Len(code)
                 /\ i.op \in Distant => i.goto = Target(i.at, i.op, i.n)
    BY <1>1, <1>3, Upcoming
  <2>2. i.op \in SimpleOps
    BY <1>1, <2>1, Unknown, Zenon
  <2>3. This = i
    BY <2>1, <2>2, EntryRead, Zenon
  <2>4. End(i) = position + 1
    <3>1. PICK two \in Seq(Bytes) : End(i) = position + 1 + Len(Operands(i, two))
      BY <2>1, Met, Zenon
    <3>2. Operands(i, two) = <<>>
      BY <2>1, <2>2, OperandsAre, Zenon
    <3>3. Len(<<>>) = 0
      OBVIOUS
    <3>4. End(i) = position + 1 + 0
      BY <3>1, <3>2, <3>3, Zenon
    <3>. QED  BY <1>2, <3>4, Located
  <2>. QED  BY <2>1, <2>3, <2>4, Zenon DEF Told
<1>. QED  BY <1>1, <1>2, <1>3, ListKeeps

LEMMA ListNumberKeeps ==
  ASSUME IInv, ListNumber
  PROVE  IInv'
<1>1. PICK x : x = Loaded(Slice(position + 1, 8))
  OBVIOUS
<1>2. PICK entry : entry = [This EXCEPT !.number = x]
  OBVIOUS
<1>3. /\ status = "listing" /\ position < size /\ Instruction = "OP_NUMBER"
      /\ Allocated(position + 8) /\ List(entry, position + 9)
  BY <1>1, <1>2 DEF ListNumber, Reading
<1>4. position + 9 \in Nat /\ position + 9 <= Len(content)
  BY <1>3, Located DEF Allocated
<1>5. ASSUME written # <<>> PROVE Told(entry, position + 9, written[Len(listing) + 1])
  <2>1. PICK i : /\ i = written[Len(listing) + 1]
                 /\ Meets(i) /\ Shaped(i) /\ i.at = position /\ i.op = Instruction
                 /\ i.op \in ToSet(OpCodes) /\ End(i) \in Nat /\ End(i) <= Len(code)
                 /\ i.op \in Distant => i.goto = Target(i.at, i.op, i.n)
    BY <1>3, <1>5, Upcoming
  <2>2. End(i) = position + 9 /\ (End(i) <= size => x = i.number)
    BY <1>1, <1>3, <2>1, NumberRead, Zenon
  <2>3. [This EXCEPT !.number = i.number] = i
    BY <1>3, <2>1, EntryRead, Zenon
  <2>4. End(i) <= size => entry = i
    BY <1>2, <2>2, <2>3, Zenon
  <2>5. entry.at = position /\ entry.op = Instruction
    BY <1>2, EntryKnows, Zenon
  <2>. QED  BY <2>1, <2>2, <2>4, <2>5, Zenon DEF Told
<1>. QED  BY <1>3, <1>4, <1>5, ListKeeps

LEMMA ListTextKeeps ==
  ASSUME IInv, ListText
  PROVE  IInv'
<1>1. PICK next : next = Behind(1, position + 1)
  OBVIOUS
<1>2. PICK x : x = <<Between(position + 1, next)>>
  OBVIOUS
<1>3. PICK entry : entry = [This EXCEPT !.texts = x]
  OBVIOUS
<1>4. /\ status = "listing" /\ position < size /\ Instruction \in TextOps
      /\ HasTexts(1, position + 1) /\ List(entry, next)
  BY <1>1, <1>2, <1>3 DEF ListText, Reading
<1>5. next \in Nat /\ next <= Len(content)
  <2>1. position + 1 \in Nat /\ Len(content) \in Nat
    BY Located
  <2>. QED  BY <1>1, <1>4, <2>1, BehindIs
<1>6. ASSUME written # <<>> PROVE Told(entry, next, written[Len(listing) + 1])
  <2>1. PICK i : /\ i = written[Len(listing) + 1]
                 /\ Meets(i) /\ Shaped(i) /\ i.at = position /\ i.op = Instruction
                 /\ i.op \in ToSet(OpCodes) /\ End(i) \in Nat /\ End(i) <= Len(code)
                 /\ i.op \in Distant => i.goto = Target(i.at, i.op, i.n)
    BY <1>4, <1>6, Upcoming
  <2>2. /\ next = End(i) \/ (next > size /\ End(i) > size)
        /\ End(i) <= size => Between(position + 1, End(i)) = i.texts[1]
    BY <1>1, <1>4, <2>1, TextRead, Zenon
  <2>3. [This EXCEPT !.texts = <<i.texts[1]>>] = i
    BY <1>4, <2>1, EntryRead, Zenon
  <2>4. ASSUME End(i) <= size PROVE entry = i
    <3>1. next = End(i)
      BY <2>1, <2>2, <2>4, Located
    <3>. QED  BY <1>2, <1>3, <2>2, <2>3, <2>4, <3>1, Zenon
  <2>5. entry.at = position /\ entry.op = Instruction
    BY <1>3, EntryKnows, Zenon
  <2>. QED  BY <2>1, <2>2, <2>4, <2>5, Zenon DEF Told
<1>. QED  BY <1>4, <1>5, <1>6, ListKeeps

LEMMA ListJumpKeeps ==
  ASSUME IInv, ListJump
  PROVE  IInv'
<1>1. PICK n : n = UInt16At(position + 1)
  OBVIOUS
<1>2. PICK entry : entry = Leading(This, n)
  OBVIOUS
<1>3. /\ status = "listing" /\ position < size /\ Instruction \in JumpOps
      /\ Allocated(position + 2) /\ List(entry, position + 3)
  BY <1>1, <1>2 DEF ListJump, Reading
<1>4. position + 3 \in Nat /\ position + 3 <= Len(content)
  BY <1>3, Located DEF Allocated
<1>5. ASSUME written # <<>> PROVE Told(entry, position + 3, written[Len(listing) + 1])
  <2>1. PICK i : /\ i = written[Len(listing) + 1]
                 /\ Meets(i) /\ Shaped(i) /\ i.at = position /\ i.op = Instruction
                 /\ i.op \in ToSet(OpCodes) /\ End(i) \in Nat /\ End(i) <= Len(code)
                 /\ i.op \in Distant => i.goto = Target(i.at, i.op, i.n)
    BY <1>3, <1>5, Upcoming
  <2>2. i.op \in JumpOps
    BY <1>3, <2>1, Zenon
  <2>3. End(i) = position + 3 /\ (End(i) <= size => n = i.n)
    BY <1>1, <2>1, <2>2, JumpRead, Zenon
  <2>4. Leading(This, i.n) = i
    BY <2>1, <2>2, EntryRead, Zenon
  <2>5. End(i) <= size => entry = i
    BY <1>2, <2>3, <2>4, Zenon
  <2>6. entry.at = position /\ entry.op = Instruction
    BY <1>2, EntryKnows, Zenon
  <2>. QED  BY <2>1, <2>3, <2>5, <2>6, Zenon DEF Told
<1>. QED  BY <1>3, <1>4, <1>5, ListKeeps

LEMMA BytesAreNumbers == \A b \in Bytes : b \in Nat
BY DEF Bytes

\* The parts of a header that is there are where the disassembler may read.
LEMMA HeaderSafe ==
  ASSUME position \in Nat, content \in Seq(Bytes), HeaderAllocated
  PROVE  /\ Rarity + 1 + ByteAt(Rarity) \in Nat
         /\ Rarity + 1 + ByteAt(Rarity) <= Len(content)
<1>0. Len(content) \in Nat /\ \A p \in Nat : Allocated(p) => ByteAt(p) \in Nat
  <2>1. ASSUME NEW p \in Nat, Allocated(p) PROVE ByteAt(p) \in Nat
    <3>1. p + 1 \in 1 .. Len(content)
      BY <2>1 DEF Allocated
    <3>2. content[p + 1] \in Bytes
      BY <3>1
    <3>. QED  BY <3>2, BytesAreNumbers, Zenon DEF ByteAt
  <2>. QED  BY <2>1
<1>1. PICK a : a = Arity
  OBVIOUS
<1>2. a \in Nat
  <2>1. Name \in Nat
    BY DEF Name
  <2>. QED  BY <1>0, <1>1, <2>1, BehindIs DEF Arity, HeaderAllocated
<1>3. PICK n \in Nat : n = ByteAt(a)
  BY <1>0, <1>1, <1>2 DEF HeaderAllocated
<1>4. PICK p \in Nat : p = Names
  BY <1>1, <1>2, <1>3 DEF Names
<1>5. PICK r \in Nat : r = Rarity
  <2>1. HasTexts(n, p) /\ Rarity = Behind(n, p)
    BY <1>1, <1>3, <1>4, Zenon DEF HeaderAllocated, Rarity
  <2>. QED  BY <1>0, <2>1, BehindIs
<1>6. PICK m \in Nat : m = ByteAt(r) /\ r + m < Len(content)
  <2>1. Allocated(r) /\ Allocated(r + ByteAt(r))
    BY <1>5, Zenon DEF HeaderAllocated
  <2>. QED  BY <1>0, <2>1 DEF Allocated
<1>7. r + 1 + m \in Nat /\ r + 1 + m <= Len(content)
  BY <1>0, <1>6
<1>. QED  BY <1>5, <1>6, <1>7, Zenon

LEMMA ListHeaderKeeps ==
  ASSUME IInv, ListHeader
  PROVE  IInv'
<1>1. PICK entry : entry = HeaderEntry(Arity, Names, Rarity)
  OBVIOUS
<1>2. PICK to : to = Rarity + 1 + ByteAt(Rarity)
  OBVIOUS
<1>3. /\ status = "listing" /\ position < size /\ Instruction = "OP_DEC_FUNCTION"
      /\ HeaderAllocated /\ List(entry, to)
  BY <1>1, <1>2, Zenon DEF ListHeader, Reading
<1>4. to \in Nat /\ to <= Len(content)
  BY <1>2, <1>3, Located, HeaderSafe, Zenon
<1>5. ASSUME written # <<>> PROVE Told(entry, to, written[Len(listing) + 1])
  <2>1. PICK i : /\ i = written[Len(listing) + 1]
                 /\ Meets(i) /\ Shaped(i) /\ i.at = position /\ i.op = Instruction
                 /\ i.op \in ToSet(OpCodes) /\ End(i) \in Nat /\ End(i) <= Len(code)
                 /\ i.op \in Distant => i.goto = Target(i.at, i.op, i.n)
    BY <1>3, <1>5, Upcoming
  <2>2. i.op = "OP_DEC_FUNCTION"
    BY <1>3, <2>1, Zenon
  <2>3. /\ to = End(i) \/ (to > size /\ End(i) > size)
        /\ End(i) <= size => entry = Leading([This EXCEPT !.texts = i.texts, !.types = i.types,
                                                          !.rets = i.rets], i.n)
    BY <1>1, <1>2, <1>3, <2>1, <2>2, HeaderRead, Zenon
  <2>4. Leading([This EXCEPT !.texts = i.texts, !.types = i.types, !.rets = i.rets], i.n) = i
    BY <2>1, <2>2, EntryRead, Zenon
  <2>5. End(i) <= size => entry = i
    BY <2>3, <2>4, Zenon
  <2>6. entry.at = position /\ entry.op = Instruction
    <3>1. PICK x, y, z, n :
            /\ x = <<Between(Name, Arity)>> \o
                     [k \in 1 .. ByteAt(Arity) |-> Between(Behind(k - 1, Names), Behind(k, Names))]
            /\ y = Slice(Arity + 1, ByteAt(Arity))
            /\ z = Slice(Rarity + 1, ByteAt(Rarity))
            /\ n = UInt16At(position + 1)
      OBVIOUS
    <3>2. entry = Leading([This EXCEPT !.texts = x, !.types = y, !.rets = z], n)
      BY <1>1, <3>1, Zenon DEF HeaderEntry
    <3>. QED  BY <3>2 DEF This, Entry, Leading
  <2>. QED  BY <2>1, <2>3, <2>5, <2>6, Zenon DEF Told
<1>. QED  BY <1>3, <1>4, <1>5, ListKeeps

\* A step that leaves everything but the status, which may tell how the listing ended.
LEMMA StatusKeeps ==
  ASSUME IInv, UNCHANGED <<order, code, written, pending, file, content, size, position, listing>>,
         \/ status' = status
         \/ status = "listing" /\ status' = "listed" /\ position >= size
         \/ /\ status = "listing" /\ status' = "wild" /\ Instruction \notin TextOps
            /\ written # <<>> => size < Len(code)
  PROVE  IInv'
<1>1. Typed'
  BY DEF IInv, Typed, Statuses
<1>2. Written'
  <2>1. Laid(code, written, pending)
    BY DEF IInv, Written
  <2>2. Laid(code, written, pending)'
    BY <2>1, LaidStays
  <2>. QED  BY <2>2 DEF IInv, Written
<1>3. Waiting' /\ Kept'
  BY DEF IInv, Waiting, Kept
<1>4. Given'
  <2>1. Agrees => Agrees'
    BY DEF Agrees, Begin
  <2>. QED  BY <2>1 DEF IInv, Given
<1>5. Outcome'
  <2>1. Instruction' = Instruction
    BY DEF Instruction, Current, ByteAt
  <2>. QED  BY <2>1 DEF IInv, Outcome
<1>. QED  BY <1>1, <1>2, <1>3, <1>4, <1>5, Zenon DEF IInv

\* Only what a file lacks is read past its end, and never a text.
LEMMA WildKeeps ==
  ASSUME IInv, Wild
  PROVE  IInv'
<1>1. /\ status = "listing" /\ position < size /\ status' = "wild"
      /\ UNCHANGED <<order, code, written, pending, file, content, size, position, listing>>
  BY DEF Wild, Reading
<1>2. /\ "OP_NUMBER" \notin TextOps /\ "OP_DEC_FUNCTION" \notin TextOps
      /\ \A op \in JumpOps : op \notin TextOps
  BY DEF JumpOps, ForwardOps, TextOps
<1>3. ASSUME Instruction \in TextOps PROVE HasTexts(1, position + 1)
  <2>1. CASE written # <<>>
    <3>1. PICK i : Meets(i) /\ i.op = Instruction
      BY <1>1, <2>1, Upcoming
    <3>. QED  BY <1>3, <3>1, TextRead, Zenon
  <2>2. CASE written = <<>>
    <3>1. Len(content) = size + 1 /\ content[size + 1] = 0
      BY <1>1, <2>2 DEF IInv, Given
    <3>2. PICK p, z \in Nat : p = position + 1 /\ z = size + 1 /\ p < z /\ Len(content) = z
      BY <1>1, <3>1, Located
    <3>3. PICK q \in Nat : p < q /\ q <= z /\ Ends(content, 1, p, q)
      BY <3>1, <3>2, ZeroEnds
    <3>4. p <= q /\ q <= Len(content) /\ Len(content) \in Nat
      BY <3>2, <3>3
    <3>5. HasTexts(1, p)
      BY <3>3, <3>4, BehindOnly
    <3>. QED  BY <3>2, <3>5
  <2>. QED  BY <2>1, <2>2
<1>4. ASSUME written # <<>>, ~(size < Len(code))
      PROVE  /\ Instruction = "OP_NUMBER" => Allocated(position + 8)
             /\ Instruction \in JumpOps => Allocated(position + 2)
             /\ Instruction = "OP_DEC_FUNCTION" => HeaderAllocated
  <2>1. PICK i : Meets(i) /\ i.op = Instruction /\ End(i) \in Nat /\ End(i) <= Len(code)
    BY <1>1, <1>4, Upcoming
  <2>2. End(i) <= size
    <3>1. Len(code) \in Nat
      BY DEF IInv, Written, Laid
    <3>. QED  BY <1>4, <2>1, <3>1, Located
  <2>. QED  BY <2>1, <2>2, NumberRead, JumpRead, HeaderRead, Zenon
<1>5. Instruction \notin TextOps
  BY <1>2, <1>3, Zenon DEF Wild, Reading
<1>6. written # <<>> => size < Len(code)
  BY <1>4, <1>5, Zenon DEF Wild, Reading
<1>. QED  BY <1>1, <1>5, <1>6, StatusKeeps

LEMMA IInvNext == IInv /\ [Next]_vars => IInv'
<1>. SUFFICES ASSUME IInv, [Next]_vars PROVE IInv'
  OBVIOUS
<1>1. CASE Compile
  <2>1. ASSUME NEW op \in SimpleOps \cap Ops, EmitByte(op) PROVE IInv'
    BY <2>1, EmitByteKeeps
  <2>2. ASSUME NEW d \in Doubles, EmitDouble(d) PROVE IInv'
    BY <2>2, EmitDoubleKeeps
  <2>3. ASSUME NEW op \in TextOps \cap Ops, NEW t \in Texts, EmitString(op, t) PROVE IInv'
    BY <2>3, EmitStringKeeps
  <2>4. ASSUME NEW op \in ForwardOps \cap Ops, EmitJump(op) PROVE IInv'
    BY <2>4, EmitJumpKeeps
  <2>5. ASSUME NEW f \in Headers, EmitHeader(f) PROVE IInv'
    BY <2>5, EmitHeaderKeeps
  <2>6. ASSUME NEW k \in 1 .. Len(written), EmitLoop(k) \/ Patch(k) \/ TooFar(k) PROVE IInv'
    BY <2>6, EmitLoopKeeps, PatchKeeps, TooFarKeeps
  <2>. QED  BY <1>1, <2>1, <2>2, <2>3, <2>4, <2>5, <2>6, Zenon DEF Compile
<1>2. CASE Keep
  BY <1>2, ListMemoryKeeps, SerializeKeeps DEF Keep
<1>3. ASSUME NEW o \in Orders, ListFile(o) PROVE IInv'
  BY <1>3, ListFileKeeps
<1>4. CASE Disassemble
  <2>1. CASE EndListing
    BY <2>1, StatusKeeps DEF EndListing
  <2>. QED  BY <1>4, <2>1, ListByteKeeps, ListNumberKeeps, ListTextKeeps, ListJumpKeeps,
            ListHeaderKeeps, WildKeeps, Zenon DEF Disassemble
<1>5. CASE UNCHANGED vars
  BY <1>5, StatusKeeps DEF vars
<1>. QED  BY <1>1, <1>2, <1>3, <1>4, <1>5, Zenon DEF Next, Ended

\* However the steps of the compiler, of the files and of the disassembler follow one another,
\* the chunk is laid out as it was written, and what is listed agrees with it.
THEOREM Invariant == Spec => []IInv
<1>1. Init => IInv
  BY IInvInit
<1>2. IInv /\ [Next]_vars => IInv'
  BY IInvNext
<1>. QED  BY <1>1, <1>2, PTL DEF Spec

-----------------------------------------------------------------------------
(* What follows from it *)

\* compiler.c and debugging.c: every variable has its type in every state, and the pointer of the
\* disassembler never passes the end of what was allocated.
THEOREM TypeCorrect == Spec => []TypeOK
<1>1. IInv => TypeOK
  <2>. SUFFICES ASSUME IInv PROVE TypeOK
    OBVIOUS
  <2>1. /\ order \in Orders /\ file \in Seq(Bytes) /\ content \in Seq(Bytes) /\ size <= Len(content)
        /\ status \in {"compiling", "exit", "stored", "listing", "listed", "wild"}
    BY DEF IInv, Typed, Statuses
  <2>2. position \in 0 .. Len(content)
    BY DEF IInv, Typed
  <2>3. code \in Seq(Bytes) /\ pending \subseteq {written[k].at : k \in 1 .. Len(written)}
    BY DEF IInv, Written, Laid
  <2>. QED  BY <2>1, <2>2, <2>3, Zenon DEF TypeOK
<1>. QED  BY <1>1, Invariant, PTL

\* emitDouble, emitLoop, patchJump and functionDefinition: what they write does not depend on
\* the byte order of the machine, and no patch of a distance disturbs another instruction.
THEOREM ChunksAlwaysPortable == Spec => []ChunksArePortable
<1>1. IInv => ChunksArePortable
  <2>. SUFFICES ASSUME IInv PROVE ChunksArePortable
    OBVIOUS
  <2>1. Laid(code, written, pending)
    BY DEF IInv, Written
  <2>2. code = FlattenSeq([k \in 1 .. Len(written) |-> Enc(written[k], pending)])
    BY <2>1, LaidIs
  <2>. QED  BY <2>2, Zenon DEF ChunksArePortable, Encoded, Enc, Code, Two
<1>. QED  BY <1>1, Invariant, PTL

\* disassembleChunk of a chunk in memory or of a whole file, on any machine: each entry is the
\* instruction that was compiled, and when the listing is at its end nothing is missing.
THEOREM WholeChunksAreListed == Spec => []ListsWhatWasWritten
<1>1. IInv => ListsWhatWasWritten
  <2>. SUFFICES ASSUME IInv, Whole
                PROVE  /\ listing = SubSeq(written, 1, Len(listing))
                       /\ status = "listed" => listing = written
                       /\ status # "wild"
    BY DEF ListsWhatWasWritten
  <2>1. /\ status \in {"listing", "listed", "wild"} /\ written # <<>> /\ size = Len(code)
        /\ Laid(code, written, pending) /\ written \in Seq(Entries) /\ Agrees
    BY DEF Whole, Listing, IInv, Written, Given, Laid
  <2>2. PICK n \in Nat : n = Len(listing)
    <3>1. PICK S : listing \in Seq(S)
      BY DEF IInv, Typed
    <3>. QED  BY <3>1
  <2>3. PICK S : listing \in Seq(S)
    BY DEF IInv, Typed
  <2>4. /\ Len(written) \in Nat /\ Len(code) \in Nat
        /\ \A k \in 1 .. Len(written) : Begin(code, written, k) = written[k].at /\ written[k].at < Len(code)
        /\ \A k \in 1 .. Len(written) + 1 : Begin(code, written, k) \in Nat /\ Begin(code, written, k) <= Len(code)
    BY <2>1, Places, Zenon
  <2>5. n <= Len(written) /\ n + 1 \in 1 .. Len(written) + 1
    BY <2>1, <2>2, <2>4 DEF Agrees
  <2>6. position = Begin(code, written, n + 1) /\ (n > 0 => listing[n] = written[n])
    <3>1. PICK b \in Nat : b = Begin(code, written, n + 1) /\ b <= Len(code)
      BY <2>4, <2>5, Zenon
    <3>2. ~(b > size)
      BY <2>1, <2>4, <3>1
    <3>. QED  BY <2>1, <2>2, <3>1, <3>2, Zenon DEF Agrees
  <2>7. \A k \in 1 .. n : listing[k] = written[k]
    <3>1. ASSUME NEW k \in 1 .. n PROVE listing[k] = written[k]
      <4>1. k < n \/ (k = n /\ n > 0)
        OBVIOUS
      <4>. QED  BY <2>1, <2>2, <2>6, <4>1, Zenon DEF Agrees
    <3>. QED  BY <3>1, Zenon
  <2>8. listing = SubSeq(written, 1, n)
    <3>1. PICK T : T = S \cup Entries
      OBVIOUS
    <3>2. listing \in Seq(T) /\ written \in Seq(T)
      BY <2>1, <2>3, <3>1
    <3>3. PICK w : w = SubSeq(written, 1, n)
      OBVIOUS
    <3>4. w \in Seq(T) /\ Len(w) = n /\ \A k \in 1 .. n : w[k] = written[k]
      BY <2>4, <2>5, <3>2, <3>3
    <3>5. Len(listing) = Len(w) /\ \A k \in 1 .. Len(listing) : listing[k] = w[k]
      BY <2>2, <2>7, <3>4, Zenon
    <3>6. listing = w
      BY <3>2, <3>4, <3>5, SameSequence
    <3>. QED  BY <3>3, <3>6, Zenon
  <2>9. ASSUME status = "listed" PROVE listing = written
    <3>1. position >= size
      BY <2>9 DEF IInv, Outcome
    <3>2. n = Len(written)
      <4>1. ASSUME n + 1 \in 1 .. Len(written) PROVE FALSE
        <5>1. position = written[n + 1].at /\ written[n + 1].at < Len(code) /\ position \in Nat
          BY <2>4, <2>5, <2>6, <4>1, Zenon
        <5>. QED  BY <2>1, <2>4, <3>1, <5>1
      <4>. QED  BY <2>4, <2>5, <4>1
    <3>3. PICK E : E = Entries
      OBVIOUS
    <3>4. SubSeq(written, 1, Len(written)) = written
      BY <2>1, <3>3
    <3>. QED  BY <2>8, <3>2, <3>4, Zenon
  <2>10. status # "wild"
    <3>1. ~(size < Len(code))
      BY <2>1, <2>4
    <3>. QED  BY <2>1, <3>1, Zenon DEF IInv, Outcome
  <2>. QED  BY <2>2, <2>8, <2>9, <2>10, Zenon
<1>. QED  BY <1>1, Invariant, PTL

\* disassembleChunk of a file that lacks its last bytes: all entries but the last are the
\* instructions that were compiled, and the last is of the right kind at the right place; a text
\* is never read past the end of any file.
THEOREM CutFilesAreListedTruly == Spec => []CutFilesListAPrefix
<1>1. IInv => CutFilesListAPrefix
  BY DEF IInv, Given, Agrees, Outcome, CutFilesListAPrefix, Listing
<1>. QED  BY <1>1, Invariant, PTL
=============================================================================
