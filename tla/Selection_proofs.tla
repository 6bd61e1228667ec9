------------------------------- MODULE Selection_proofs ------------------------------
(***************************************************************************)
(* Induction over sets of natural numbers instead of over predicates, and  *)
(* what it proves of Selected: its elements are those of the list at the   *)
(* selected positions, each once and in their order.                       *)
(***************************************************************************)
EXTENDS Selection, WellFoundedInduction, TLAPS

\* Every set of natural numbers but the empty one has a least element.
LEMMA LeastElement ==
  ASSUME NEW S \in SUBSET Nat, S # {}
  PROVE  \E m \in S : \A n \in S : m <= n
<1> DEFINE Less == OpToRel(<, Nat)
<1>1. IsWellFoundedOn(Less, Nat)
  BY NatLessThanWellFounded
<1>2. \E m \in S : \A n \in S : <<n, m>> \notin Less
  <2> HIDE DEF Less
  <2> QED
    BY <1>1, WFMin
<1>3. \A m, n \in S : <<n, m>> \notin Less => m <= n
  BY DEF OpToRel
<1> QED
  BY <1>2, <1>3

\* Induction: a set with 0 and with the successors of its elements has all of them.
LEMMA SetInduction ==
  ASSUME NEW S, 0 \in S, \A n \in Nat : n \in S => n + 1 \in S
  PROVE  Nat \subseteq S
<1> SUFFICES ASSUME Nat \ S # {} PROVE FALSE
  OBVIOUS
<1>1. PICK m \in Nat \ S : \A n \in Nat \ S : m <= n
  BY LeastElement
<1>2. m # 0 /\ m - 1 \in Nat
  OBVIOUS
<1>3. m - 1 \in S
  BY <1>1, <1>2
<1> QED
  BY <1>1, <1>2, <1>3

-----------------------------------------------------------------------------
\* The recursive function exists, and is the one that its definition describes.
LEMMA SelectedUpToDef ==
  ASSUME NEW X, NEW s \in Seq(X), NEW S
  PROVE  SelectedUpTo(s, S) =
           [n \in 0..Len(s) |->
              IF n = 0 THEN <<>>
              ELSE IF s[n] \in S THEN Append(SelectedUpTo(s, S)[n - 1], s[n])
                   ELSE SelectedUpTo(s, S)[n - 1]]
<1> DEFINE Next(g, n) == IF n = 0 THEN <<>>
                         ELSE IF s[n] \in S THEN Append(g[n - 1], s[n]) ELSE g[n - 1]
           Defines(g, m) == g = [n \in 0..m |-> Next(g, n)]
           Upto == {m \in Nat : \E g : Defines(g, m)}
<1>1. 0 \in Upto
  <2>1. Defines([n \in 0..0 |-> <<>>], 0)
    OBVIOUS
  <2> QED
    BY <2>1
<1>2. ASSUME NEW m \in Nat, m \in Upto PROVE m + 1 \in Upto
  <2>1. PICK g : Defines(g, m)
    BY <1>2
  <2> DEFINE h == [n \in 0..m + 1 |-> IF n = m + 1 THEN Next(g, n) ELSE g[n]]
  <2>2. \A n \in 0..m + 1 : n # 0 => n - 1 \in 0..m /\ h[n - 1] = g[n - 1]
    OBVIOUS
  <2>3. \A n \in 0..m + 1 : Next(h, n) = Next(g, n)
    <3> HIDE DEF h
    <3> QED
      BY <2>2
  <2>4. \A n \in 0..m + 1 : h[n] = Next(g, n)
    <3>1. \A n \in 0..m : g[n] = Next(g, n)
      <4> HIDE DEF Next
      <4> QED
        BY <2>1
    <3> HIDE DEF Next
    <3> QED
      BY <3>1
  <2>5. Defines(h, m + 1)
    <3>1. h = [n \in 0..m + 1 |-> h[n]]
      OBVIOUS
    <3> HIDE DEF h, Next
    <3> QED
      BY <2>3, <2>4, <3>1
  <2> HIDE DEF h
  <2> QED
    BY <2>5
<1>3. Len(s) \in Upto
  <2> HIDE DEF Upto
  <2> QED
    BY <1>1, <1>2, SetInduction
<1> QED
  BY <1>3 DEF SelectedUpTo

LEMMA SelectedUpToStep ==
  ASSUME NEW X, NEW s \in Seq(X), NEW S
  PROVE  /\ SelectedUpTo(s, S)[0] = <<>>
         /\ \A n \in 1..Len(s) :
              SelectedUpTo(s, S)[n] =
                IF s[n] \in S THEN Append(SelectedUpTo(s, S)[n - 1], s[n])
                ELSE SelectedUpTo(s, S)[n - 1]
<1> DEFINE f == SelectedUpTo(s, S)
<1>1. f = [n \in 0..Len(s) |->
              IF n = 0 THEN <<>>
              ELSE IF s[n] \in S THEN Append(f[n - 1], s[n]) ELSE f[n - 1]]
  BY SelectedUpToDef
<1> HIDE DEF f
<1>2. 0 \in 0..Len(s) /\ \A n \in 1..Len(s) : n \in 0..Len(s) /\ n # 0
  OBVIOUS
<1>3. f[0] = <<>>
  BY <1>1, <1>2
<1>4. \A n \in 1..Len(s) : f[n] = IF s[n] \in S THEN Append(f[n - 1], s[n]) ELSE f[n - 1]
  BY <1>1, <1>2
<1> QED
  BY <1>3, <1>4 DEF f

\* What is selected of equal beginnings, by tests that agree on them, is equal.
LEMMA SelectedAlike ==
  ASSUME NEW X, NEW s \in Seq(X), NEW S, NEW t \in Seq(X), NEW T, NEW m \in Nat,
         m <= Len(s), m <= Len(t),
         \A i \in 1..m : s[i] = t[i] /\ (s[i] \in S <=> t[i] \in T)
  PROVE  \A n \in 0..m : SelectedUpTo(s, S)[n] = SelectedUpTo(t, T)[n]
<1> DEFINE f == SelectedUpTo(s, S)
           g == SelectedUpTo(t, T)
           Alike == {n \in Nat : n <= m => f[n] = g[n]}
<1>1. /\ f[0] = <<>> /\ g[0] = <<>>
      /\ \A n \in 1..Len(s) :
           f[n] = IF s[n] \in S THEN Append(f[n - 1], s[n]) ELSE f[n - 1]
      /\ \A n \in 1..Len(t) :
           g[n] = IF t[n] \in T THEN Append(g[n - 1], t[n]) ELSE g[n - 1]
  BY SelectedUpToStep
<1> HIDE DEF f, g
<1>2. 0 \in Alike
  BY <1>1
<1>3. ASSUME NEW n \in Nat, n \in Alike PROVE n + 1 \in Alike
  <2> SUFFICES ASSUME n + 1 <= m PROVE f[n + 1] = g[n + 1]
    OBVIOUS
  <2>1. n + 1 \in 1..m /\ n + 1 \in 1..Len(s) /\ n + 1 \in 1..Len(t) /\ (n + 1) - 1 = n
    OBVIOUS
  <2>2. f[n] = g[n]
    BY <1>3
  <2> QED
    BY <1>1, <2>1, <2>2
<1>4. Nat \subseteq Alike
  <2> HIDE DEF Alike
  <2> QED
    BY <1>2, <1>3, SetInduction
<1> QED
  BY <1>4 DEF f, g

LEMMA SelectedOfNothing == ASSUME NEW S PROVE Selected(<<>>, S) = <<>>
<1>1. <<>> \in Seq({})
  OBVIOUS
<1> QED
  BY <1>1, SelectedUpToStep DEF Selected

\* The last element of a list decides for itself only.
LEMMA SelectedOfAppend ==
  ASSUME NEW X, NEW s \in Seq(X), NEW x \in X, NEW S
  PROVE  Selected(Append(s, x), S) =
           IF x \in S THEN Append(Selected(s, S), x) ELSE Selected(s, S)
<1> DEFINE t == Append(s, x)
<1>1. /\ t \in Seq(X) /\ Len(t) = Len(s) + 1 /\ Len(s) \in Nat /\ t[Len(s) + 1] = x
      /\ \A i \in 1..Len(s) : t[i] = s[i]
  OBVIOUS
<1> HIDE DEF t
<1>2. SelectedUpTo(t, S)[Len(s)] = SelectedUpTo(s, S)[Len(s)]
  BY <1>1, SelectedAlike
<1>3. SelectedUpTo(t, S)[Len(s) + 1] =
        IF t[Len(s) + 1] \in S THEN Append(SelectedUpTo(t, S)[Len(s)], t[Len(s) + 1])
        ELSE SelectedUpTo(t, S)[Len(s)]
  <2>1. Len(s) + 1 \in 1..Len(t) /\ (Len(s) + 1) - 1 = Len(s)
    BY <1>1
  <2> QED
    BY <1>1, <2>1, SelectedUpToStep
<1> QED
  BY <1>1, <1>2, <1>3 DEF Selected, t

\* Tests that agree on the elements of a list select the same.
LEMMA SelectedBySame ==
  ASSUME NEW X, NEW s \in Seq(X), NEW S, NEW T,
         \A i \in 1..Len(s) : s[i] \in S <=> s[i] \in T
  PROVE  Selected(s, S) = Selected(s, T)
BY SelectedAlike DEF Selected

-----------------------------------------------------------------------------
\* at names the positions, in a list of which the first n elements have been looked at,
\* of the elements that r consists of.
SelectedFrom(at, r, s, S, n) ==
  /\ at \in [1..Len(r) -> 1..n]
  /\ \A j, k \in 1..Len(r) : j < k => at[j] < at[k]
  /\ \A k \in 1..Len(r) : r[k] = s[at[k]] /\ s[at[k]] \in S
  /\ \A i \in 1..n : s[i] \in S => \E k \in 1..Len(r) : at[k] = i

LEMMA SelectedAt ==
  ASSUME NEW X, NEW s \in Seq(X), NEW S
  PROVE  /\ Selected(s, S) \in Seq(X)
         /\ \E at : SelectedFrom(at, Selected(s, S), s, S, Len(s))
<1> DEFINE f == SelectedUpTo(s, S)
           Fine == {n \in Nat : n <= Len(s) =>
                      f[n] \in Seq(X) /\ \E at : SelectedFrom(at, f[n], s, S, n)}
<1>1. /\ f[0] = <<>>
      /\ \A n \in 1..Len(s) :
           f[n] = IF s[n] \in S THEN Append(f[n - 1], s[n]) ELSE f[n - 1]
  BY SelectedUpToStep
<1> HIDE DEF f
<1>2. 0 \in Fine
  <2>1. SelectedFrom([k \in 1..0 |-> 0], <<>>, s, S, 0)
    BY DEF SelectedFrom
  <2>2. f[0] \in Seq(X) /\ \E at : SelectedFrom(at, f[0], s, S, 0)
    BY <1>1, <2>1
  <2> QED
    BY <2>2
<1>3. ASSUME NEW n \in Nat, n \in Fine PROVE n + 1 \in Fine
  <2> SUFFICES ASSUME n + 1 <= Len(s)
               PROVE  /\ f[n + 1] \in Seq(X)
                      /\ \E at : SelectedFrom(at, f[n + 1], s, S, n + 1)
    OBVIOUS
  <2>1. /\ f[n] \in Seq(X) /\ n + 1 \in 1..Len(s) /\ s[n + 1] \in X
        /\ f[n + 1] = IF s[n + 1] \in S THEN Append(f[n], s[n + 1]) ELSE f[n]
    BY <1>1, <1>3
  <2>2. PICK at : SelectedFrom(at, f[n], s, S, n)
    BY <1>3
  <2>3. CASE s[n + 1] \notin S
    <3>1. SelectedFrom(at, f[n], s, S, n + 1)
      BY <2>1, <2>2, <2>3 DEF SelectedFrom
    <3> QED
      BY <2>1, <2>3, <3>1
  <2>4. CASE s[n + 1] \in S
    <3> DEFINE r == f[n + 1]
               l == Len(f[n])
               new == [k \in 1..l + 1 |-> IF k = l + 1 THEN n + 1 ELSE at[k]]
    <3>1. /\ r \in Seq(X) /\ l \in Nat /\ Len(r) = l + 1 /\ r[l + 1] = s[n + 1]
          /\ \A k \in 1..l : r[k] = f[n][k]
      BY <2>1, <2>4
    <3>2. /\ new[l + 1] = n + 1 /\ \A k \in 1..l : new[k] = at[k]
          /\ DOMAIN new = 1..l + 1 /\ new = [k \in 1..l + 1 |-> new[k]]
      BY <3>1
    <3>3. /\ at \in [1..l -> 1..n] /\ \A j, k \in 1..l : j < k => at[j] < at[k]
          /\ \A k \in 1..l : f[n][k] = s[at[k]] /\ s[at[k]] \in S
          /\ \A i \in 1..n : s[i] \in S => \E k \in 1..l : at[k] = i
      BY <2>2 DEF SelectedFrom
    <3> HIDE DEF r, l, new
    <3>4. /\ l + 1 \in 1..l + 1 /\ \A k \in 1..l : k \in 1..l + 1 /\ k < l + 1
          /\ \A k \in 1..l + 1 : k \in 1..l \/ k = l + 1
          /\ \A k \in 1..l : at[k] \in 1..n /\ new[k] \in 1..n
          /\ \A i \in 1..n + 1 : i \in 1..n \/ i = n + 1
          /\ n + 1 \in 1..n + 1 /\ \A i \in 1..n : i \in 1..n + 1 /\ i < n + 1
      <4>1. \A k \in 1..l : at[k] \in 1..n
        BY <3>3
      <4>2. \A k \in 1..l : new[k] = at[k]
        BY <3>2
      <4> QED
        BY <3>1, <4>1, <4>2
    <3>5. new \in [1..l + 1 -> 1..n + 1]
      <4>1. \A k \in 1..l + 1 : new[k] \in 1..n + 1
        <5>1. new[l + 1] = n + 1
          BY <3>2
        <5> QED
          BY <3>4, <5>1
      <4> QED
        BY <3>2, <4>1
    <3>6. ASSUME NEW j \in 1..l + 1, NEW k \in 1..l + 1, j < k PROVE new[j] < new[k]
      <4>1. j \in 1..l
        BY <3>1, <3>6
      <4>2. CASE k \in 1..l
        BY <3>2, <3>3, <3>6, <4>1, <4>2
      <4>3. CASE k = l + 1
        <5>1. new[j] \in 1..n /\ new[k] = n + 1
          BY <3>2, <3>4, <4>1, <4>3
        <5> QED
          BY <3>4, <5>1
      <4> QED
        BY <3>4, <4>2, <4>3
    <3>7. ASSUME NEW k \in 1..l + 1 PROVE r[k] = s[new[k]] /\ s[new[k]] \in S
      <4>1. CASE k \in 1..l
        BY <3>1, <3>2, <3>3, <4>1
      <4>2. CASE k = l + 1
        BY <2>4, <3>1, <3>2, <4>2
      <4> QED
        BY <3>4, <4>1, <4>2
    <3>8. ASSUME NEW i \in 1..n + 1, s[i] \in S PROVE \E k \in 1..l + 1 : new[k] = i
      <4>1. CASE i \in 1..n
        <5>1. PICK k \in 1..l : at[k] = i
          BY <3>3, <3>8, <4>1
        <5>2. k \in 1..l + 1 /\ new[k] = i
          BY <3>2, <3>4, <5>1
        <5> QED
          BY <5>2
      <4>2. CASE i = n + 1
        BY <3>2, <3>4, <4>2
      <4> QED
        BY <3>4, <4>1, <4>2
    <3>9. SelectedFrom(new, r, s, S, n + 1)
      BY <3>1, <3>5, <3>6, <3>7, <3>8 DEF SelectedFrom
    <3> QED
      BY <3>1, <3>9 DEF r
  <2> QED
    BY <2>3, <2>4
<1>4. Len(s) \in Fine
  <2> HIDE DEF Fine
  <2> QED
    BY <1>2, <1>3, SetInduction
<1> QED
  BY <1>4 DEF Selected, f

\* The selected elements are those of the list that are in the set, and no element is
\* selected twice of a list that has none twice.
LEMMA SelectedElements ==
  ASSUME NEW X, NEW s \in Seq(X), NEW S
  PROVE  LET r == Selected(s, S)
         IN  /\ r \in Seq(X)
             /\ \A x : (\E k \in 1..Len(r) : r[k] = x) <=> x \in S /\ \E i \in 1..Len(s) : s[i] = x
             /\ (\A i, j \in 1..Len(s) : s[i] = s[j] => i = j) =>
                  \A i, j \in 1..Len(r) : r[i] = r[j] => i = j
<1> DEFINE r == Selected(s, S)
<1>1. r \in Seq(X)
  BY SelectedAt
<1>2. PICK at : SelectedFrom(at, r, s, S, Len(s))
  BY SelectedAt
<1> HIDE DEF r
<1>3. \A x : (\E k \in 1..Len(r) : r[k] = x) <=> x \in S /\ \E i \in 1..Len(s) : s[i] = x
  <2>1. ASSUME NEW k \in 1..Len(r)
        PROVE  r[k] \in S /\ at[k] \in 1..Len(s) /\ s[at[k]] = r[k]
    BY <1>2 DEF SelectedFrom
  <2>2. ASSUME NEW i \in 1..Len(s), s[i] \in S PROVE \E k \in 1..Len(r) : r[k] = s[i]
    BY <1>2, <2>2 DEF SelectedFrom
  <2> QED
    BY <2>1, <2>2
<1>4. ASSUME \A i, j \in 1..Len(s) : s[i] = s[j] => i = j,
             NEW i \in 1..Len(r), NEW j \in 1..Len(r), r[i] = r[j]
      PROVE  i = j
  <2>1. at[i] = at[j]
    BY <1>2, <1>4 DEF SelectedFrom
  <2>2. at[i] \in Int /\ ~(i < j) /\ ~(j < i)
    BY <1>2, <2>1 DEF SelectedFrom
  <2> QED
    BY <1>1, <2>2
<1> QED
  BY <1>1, <1>3, <1>4 DEF r
======================================================================================
