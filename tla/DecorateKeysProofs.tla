------------------------- MODULE DecorateKeysProofs -------------------------
(***************************************************************************)
(* Proofs about DecorateKeys, for lines of any length, any keys and any    *)
(* SIZE_MAX.                                                               *)
(***************************************************************************)
EXTENDS DecorateKeys, FiniteSetTheorems, SequenceTheorems,
        WellFoundedInduction, TLAPS

-----------------------------------------------------------------------------
(* Numbers and sets of numbers.                                            *)

LEMMA LeastNumber ==
  ASSUME NEW S \in SUBSET Nat, S # {}
  PROVE  \E x \in S : \A y \in S : x <= y
  <1> DEFINE LT == {ss \in Nat \X Nat : ss[1] < ss[2]}
  <1>1. IsWellFoundedOn(LT, Nat)
    BY NatLessThanWellFounded DEF OpToRel
  <1>2. PICK x \in S : \A y \in S : ~ (<<y, x>> \in LT)
    <2> HIDE DEF LT
    <2> QED BY <1>1, WFMin
  <1>3. ASSUME NEW y \in S PROVE x <= y
    <2>1. x \in Nat /\ y \in Nat /\ ~ (<<y, x>> \in LT)
      BY <1>2
    <2>2. ~ (y < x)
      BY <2>1
    <2> QED BY <2>1, <2>2
  <1> QED BY <1>3

-----------------------------------------------------------------------------
(* Scanning.                                                               *)

LEMMA LeastIs == \A m, n \in Int : /\ m <= n => Least(m, n) = m
                                   /\ n <= m => Least(m, n) = n
  BY DEF Least

LEMMA LeastType == \A m, n \in Int : /\ Least(m, n) \in Int
                                     /\ Least(m, n) <= m /\ Least(m, n) <= n
                                     /\ Least(m, n) \in {m, n}
  BY DEF Least

(* The least stop, if there is one.                                        *)
LEMMA FirstStop ==
  ASSUME NEW p \in Nat, NEW lim \in Nat,
         NEW stops, stops \subseteq p .. lim - 1, stops # {},
         NEW q, q = CHOOSE n \in stops : \A r \in stops : n <= r
  PROVE  /\ q \in p .. lim - 1 /\ q \in stops
         /\ \A r \in p .. q - 1 : r \in p .. lim - 1 /\ r \notin stops
PROOF
  <1>1. stops \in SUBSET Nat
    OBVIOUS
  <1>2. \E n \in stops : \A r \in stops : n <= r
    BY <1>1, LeastNumber
  <1>3. q \in stops /\ \A r \in stops : q <= r
    BY <1>2
  <1>4. q \in p .. lim - 1
    BY <1>3
  <1>5. ASSUME NEW r \in p .. q - 1
        PROVE  r \in p .. lim - 1 /\ r \notin stops
    <2>1. q \in Int /\ r \in Int
      BY <1>4
    <2>2. p <= r /\ r < q /\ q <= lim - 1
      BY <1>4, <1>5, <2>1
    <2> QED BY <1>3, <2>1, <2>2
  <1> QED BY <1>3, <1>4, <1>5

LEMMA PastBlanksIs ==
  ASSUME NEW t, NEW lim \in Nat, NEW p \in 0 .. lim
  PROVE  LET q == PastBlanks(t, p, lim)
         IN  /\ q \in p .. lim
             /\ \A r \in p .. q - 1 : t[r + 1] = Blank
             /\ q < lim => t[q + 1] # Blank
PROOF
  <1> DEFINE stops == {q \in p .. lim - 1 : ~IsBlank(Char(t, q))}
             least == CHOOSE q \in stops : \A r \in stops : q <= r
  <1>1. PastBlanks(t, p, lim) = IF stops = {} THEN Most(p, lim) ELSE least
    BY DEF PastBlanks, Past
  <1>2. Most(p, lim) = lim
    BY DEF Most
  <1>3. CASE stops = {}
    <2>1. \A r \in p .. lim - 1 : t[r + 1] = Blank
      BY <1>3 DEF IsBlank, Char
    <2> HIDE DEF stops
    <2>2. PastBlanks(t, p, lim) = lim
      BY <1>1, <1>2, <1>3
    <2> QED BY <2>1, <2>2
  <1>4. CASE stops # {}
    <2>1. stops \subseteq p .. lim - 1
      OBVIOUS
    <2>2. PICK q : q = CHOOSE n \in stops : \A r \in stops : n <= r
      OBVIOUS
    <2>0. p \in Nat
      OBVIOUS
    <2>3. /\ q \in p .. lim - 1 /\ q \in stops
          /\ \A r \in p .. q - 1 : r \in p .. lim - 1 /\ r \notin stops
      <3> HIDE DEF stops
      <3> QED BY <1>4, <2>0, <2>1, <2>2, FirstStop
    <2>4. ~IsBlank(Char(t, q))
      BY <2>3
    <2>5. \A r \in p .. q - 1 : t[r + 1] = Blank
      BY <2>3 DEF IsBlank, Char
    <2>6. PastBlanks(t, p, lim) = q
      <3> HIDE DEF stops
      <3> QED BY <1>1, <1>4, <2>2
    <2> QED BY <2>3, <2>4, <2>5, <2>6 DEF IsBlank, Char
  <1> QED BY <1>3, <1>4

WordEnd(t, p, lim) == Past(t, p, lim, NotBlank)

LEMMA PastWordIs ==
  ASSUME NEW t, NEW lim \in Nat, NEW p \in 0 .. lim
  PROVE  LET q == WordEnd(t, p, lim)
         IN  /\ q \in p .. lim
             /\ \A r \in p .. q - 1 : t[r + 1] # Blank
             /\ q < lim => t[q + 1] = Blank
PROOF
  <1> DEFINE stops == {q \in p .. lim - 1 : ~NotBlank(Char(t, q))}
             least == CHOOSE q \in stops : \A r \in stops : q <= r
  <1>1. WordEnd(t, p, lim) = IF stops = {} THEN Most(p, lim) ELSE least
    BY DEF WordEnd, Past
  <1>2. Most(p, lim) = lim
    BY DEF Most
  <1>3. CASE stops = {}
    <2>1. \A r \in p .. lim - 1 : t[r + 1] # Blank
      BY <1>3 DEF NotBlank, Char
    <2> HIDE DEF stops
    <2>2. WordEnd(t, p, lim) = lim
      BY <1>1, <1>2, <1>3
    <2> QED BY <2>1, <2>2
  <1>4. CASE stops # {}
    <2>1. stops \subseteq p .. lim - 1
      OBVIOUS
    <2>2. PICK q : q = CHOOSE n \in stops : \A r \in stops : n <= r
      OBVIOUS
    <2>0. p \in Nat
      OBVIOUS
    <2>3. /\ q \in p .. lim - 1 /\ q \in stops
          /\ \A r \in p .. q - 1 : r \in p .. lim - 1 /\ r \notin stops
      <3> HIDE DEF stops
      <3> QED BY <1>4, <2>0, <2>1, <2>2, FirstStop
    <2>4. ~NotBlank(Char(t, q))
      BY <2>3
    <2>5. \A r \in p .. q - 1 : t[r + 1] # Blank
      BY <2>3 DEF NotBlank, Char
    <2>6. WordEnd(t, p, lim) = q
      <3> HIDE DEF stops
      <3> QED BY <1>1, <1>4, <2>2
    <2> QED BY <2>3, <2>4, <2>5, <2>6 DEF NotBlank, Char
  <1> QED BY <1>3, <1>4

LEMMA PastTabIs ==
  ASSUME NEW t, NEW lim \in Nat, NEW p \in 0 .. lim, NEW tab, tab # NoTab
  PROVE  LET q == PastField(tab, t, p, lim)
         IN  /\ q \in p .. lim
             /\ \A r \in p .. q - 1 : t[r + 1] # tab
             /\ q < lim => t[q + 1] = tab
PROOF
  <1> DEFINE stops == {q \in p .. lim - 1 : ~(Char(t, q) # tab)}
             least == CHOOSE q \in stops : \A r \in stops : q <= r
  <1>1. PastField(tab, t, p, lim) = IF stops = {} THEN Most(p, lim) ELSE least
    BY DEF PastField, Past
  <1>2. Most(p, lim) = lim
    BY DEF Most
  <1>3. CASE stops = {}
    <2>1. \A r \in p .. lim - 1 : t[r + 1] # tab
      BY <1>3 DEF Char
    <2> HIDE DEF stops
    <2>2. PastField(tab, t, p, lim) = lim
      BY <1>1, <1>2, <1>3
    <2> QED BY <2>1, <2>2
  <1>4. CASE stops # {}
    <2>1. stops \subseteq p .. lim - 1
      OBVIOUS
    <2>2. PICK q : q = CHOOSE n \in stops : \A r \in stops : n <= r
      OBVIOUS
    <2>0. p \in Nat
      OBVIOUS
    <2>3. /\ q \in p .. lim - 1 /\ q \in stops
          /\ \A r \in p .. q - 1 : r \in p .. lim - 1 /\ r \notin stops
      <3> HIDE DEF stops
      <3> QED BY <1>4, <2>0, <2>1, <2>2, FirstStop
    <2>4. ~(Char(t, q) # tab)
      BY <2>3
    <2>5. \A r \in p .. q - 1 : t[r + 1] # tab
      BY <2>3 DEF Char
    <2>6. PastField(tab, t, p, lim) = q
      <3> HIDE DEF stops
      <3> QED BY <1>1, <1>4, <2>2
    <2> QED BY <2>3, <2>4, <2>5, <2>6 DEF Char
  <1> QED BY <1>3, <1>4

-----------------------------------------------------------------------------
(* The members of a set of numbers, by how many are smaller.               *)

Below(S, p) == {q \in S : q < p}

LEMMA BelowSize ==
  ASSUME NEW S \in SUBSET Nat, IsFiniteSet(S), NEW p
  PROVE  /\ IsFiniteSet(Below(S, p)) /\ Cardinality(Below(S, p)) \in Nat
         /\ Cardinality(Below(S, p)) <= Cardinality(S)
         /\ Cardinality(S) \in Nat
PROOF
  <1>1. Below(S, p) \subseteq S
    BY DEF Below
  <1> QED BY <1>1, FS_Subset, FS_CardinalityType

LEMMA BelowGrows ==
  ASSUME NEW S \in SUBSET Nat, IsFiniteSet(S), NEW p \in Int, NEW r \in Int, p <= r
  PROVE  Cardinality(Below(S, p)) <= Cardinality(Below(S, r))
PROOF
  <1>1. \A q \in S : q \in Int
    OBVIOUS
  <1>2. \A q \in Below(S, p) : q \in Below(S, r)
    BY <1>1 DEF Below
  <1>3. IsFiniteSet(Below(S, r))
    BY BelowSize
  <1> QED BY <1>2, <1>3, FS_Subset

(* One more is smaller than the next member.                               *)
LEMMA BelowNext ==
  ASSUME NEW S \in SUBSET Nat, IsFiniteSet(S), NEW p \in S, NEW r \in Int, p < r,
         \A s \in S : ~(p < s /\ s < r)
  PROVE  /\ Below(S, r) = Below(S, p) \cup {p}
         /\ Cardinality(Below(S, r)) = Cardinality(Below(S, p)) + 1
PROOF
  <1>1. \A q \in S : q \in Int
    OBVIOUS
  <1>2. \A q : q \in Below(S, r) <=> q \in Below(S, p) \cup {p}
    <2> TAKE q
    <2>1. ASSUME q \in Below(S, r) PROVE q \in Below(S, p) \cup {p}
      <3>1. q \in S /\ q < r /\ ~(p < q)
        BY <2>1 DEF Below
      <3> QED BY <1>1, <3>1 DEF Below
    <2>2. ASSUME q \in Below(S, p) \cup {p} PROVE q \in Below(S, r)
      BY <1>1, <2>2 DEF Below
    <2> QED BY <2>1, <2>2
  <1>3. p \notin Below(S, p)
    BY <1>1 DEF Below
  <1>4. IsFiniteSet(Below(S, p))
    BY BelowSize
  <1>5. Below(S, r) = Below(S, p) \cup {p}
    BY <1>2
  <1> QED BY <1>3, <1>4, <1>5, FS_AddElement

LEMMA BelowLess ==
  ASSUME NEW S \in SUBSET Nat, IsFiniteSet(S), NEW p \in S
  PROVE  /\ Cardinality(Below(S, p)) + 1 <= Cardinality(S)
         /\ \A r \in Int : p < r =>
              Cardinality(Below(S, p)) + 1 <= Cardinality(Below(S, r))
PROOF
  <1>1. \A q \in S : q \in Int
    OBVIOUS
  <1>2. /\ IsFiniteSet(Below(S, p)) /\ Cardinality(Below(S, p)) \in Nat
        /\ p \notin Below(S, p)
    BY <1>1, BelowSize DEF Below
  <1>3. Cardinality(Below(S, p) \cup {p}) = Cardinality(Below(S, p)) + 1
    BY <1>2, FS_AddElement
  <1>4. ASSUME NEW T, IsFiniteSet(T), \A q \in Below(S, p) \cup {p} : q \in T
        PROVE  Cardinality(Below(S, p)) + 1 <= Cardinality(T)
    BY <1>3, <1>4, FS_Subset
  <1>5. \A q \in Below(S, p) \cup {p} : q \in S
    BY DEF Below
  <1>6. ASSUME NEW r \in Int, p < r
        PROVE  \A q \in Below(S, p) \cup {p} : q \in Below(S, r)
    BY <1>1, <1>6 DEF Below
  <1>7. \A r : IsFiniteSet(Below(S, r))
    BY BelowSize
  <1> QED BY <1>4, <1>5, <1>6, <1>7

(* No two members have the same number of smaller ones.                    *)
LEMMA PlaceIsUnique ==
  ASSUME NEW S \in SUBSET Nat, IsFiniteSet(S), NEW p \in S, NEW r \in S,
         Cardinality(Below(S, p)) = Cardinality(Below(S, r))
  PROVE  p = r
PROOF
  <1>1. ASSUME NEW i \in S, NEW k \in S, i < k
        PROVE  Cardinality(Below(S, i)) # Cardinality(Below(S, k))
    <2>0. \A m \in S : m \in Int
      OBVIOUS
    <2>1. /\ \A m \in Below(S, i) : m \in Below(S, k)
          /\ i \in Below(S, k) /\ i \notin Below(S, i)
      BY <1>1, <2>0 DEF Below
    <2>2. IsFiniteSet(Below(S, k))
      BY BelowSize
    <2> QED BY <2>1, <2>2, FS_Subset
  <1>2. p \in Int /\ r \in Int
    OBVIOUS
  <1>3. p < r \/ r < p \/ p = r
    BY <1>2
  <1> QED BY <1>1, <1>3

LEMMA AtPlace ==
  ASSUME NEW S \in SUBSET Nat, IsFiniteSet(S), NEW p \in S
  PROVE  (CHOOSE r \in S : Cardinality(Below(S, r)) = Cardinality(Below(S, p))) = p
PROOF
  <1>1. \A r \in S : Cardinality(Below(S, r)) = Cardinality(Below(S, p)) => r = p
    BY PlaceIsUnique
  <1> QED BY <1>1

LEMMA PlaceExists ==
  ASSUME NEW L \in Nat, NEW S \in SUBSET (0 .. L), NEW k \in Nat, k < Cardinality(S)
  PROVE  \E p \in S : Cardinality(Below(S, p)) = k
PROOF
  <1> DEFINE Bad == {x \in Nat : Cardinality(Below(S, x)) > k}
  <1>1. S \in SUBSET Nat /\ IsFiniteSet(S) /\ \A q \in S : q \in Int /\ 0 <= q /\ q <= L
    <2>1. \A q \in S : q \in 0 .. L
      OBVIOUS
    <2>2. IsFiniteSet(0 .. L)
      BY FS_Interval
    <2>3. IsFiniteSet(S)
      BY <2>2, FS_Subset
    <2> QED BY <2>1, <2>3
  <1>2. L + 1 \in Bad
    <2>1. \A q \in S : q < L + 1
      BY <1>1
    <2>2. Below(S, L + 1) = S
      BY <2>1 DEF Below
    <2> QED BY <2>2
  <1>3. PICK x \in Bad : \A y \in Bad : x <= y
    <2>1. Bad \in SUBSET Nat /\ Bad # {}
      BY <1>2
    <2> HIDE DEF Bad
    <2> QED BY <2>1, LeastNumber
  <1>4. x \in Nat /\ Cardinality(Below(S, x)) > k
    BY <1>3
  <1>5. x # 0
    <2>1. ASSUME x = 0 PROVE FALSE
      <3>0. \A q \in S : ~(q < x)
        BY <1>1, <2>1
      <3>1. Below(S, x) = {}
        BY <3>0 DEF Below
      <3>2. Cardinality(Below(S, x)) = 0
        BY <3>1, FS_EmptySet
      <3> QED BY <1>4, <3>2
    <2> QED BY <2>1
  <1>6. x - 1 \in Nat /\ x - 1 \notin Bad
    BY <1>3, <1>4, <1>5
  <1>7. ~(Cardinality(Below(S, x - 1)) > k)
    BY <1>6
  <1> HIDE DEF Bad
  <1>8. \A s \in S : ~(x - 1 < s /\ s < x)
    BY <1>1, <1>4
  <1>9. x - 1 \in S
    <2>1. ASSUME x - 1 \notin S PROVE FALSE
      <3>0. \A q \in S : q < x <=> q < x - 1
        BY <1>1, <1>4, <2>1
      <3>1. Below(S, x) = Below(S, x - 1)
        BY <3>0 DEF Below
      <3> QED BY <1>4, <1>7, <3>1
    <2> QED BY <2>1
  <1>10. Cardinality(Below(S, x)) = Cardinality(Below(S, x - 1)) + 1
    BY <1>1, <1>4, <1>8, <1>9, BelowNext
  <1>11. Cardinality(Below(S, x - 1)) \in Nat
    BY <1>1, BelowSize
  <1>12. Cardinality(Below(S, x - 1)) = k
    BY <1>4, <1>7, <1>10, <1>11
  <1> QED BY <1>9, <1>12

-----------------------------------------------------------------------------
(* Where fields start.                                                     *)

SepLen(tab) == IF tab # NoTab THEN 1 ELSE 0

LEMMA StartsAre ==
  ASSUME NEW tab, NEW t, Len(t) \in Nat
  PROVE  LET S == FieldStarts(tab, t)
         IN  /\ S \subseteq 0 .. Len(t) /\ S \in SUBSET Nat /\ IsFiniteSet(S)
             /\ 0 \in S
             /\ Cardinality(S) \in Nat /\ Cardinality(S) <= Len(t) + 1
             /\ \A p \in S : Cardinality(Below(S, p)) <= p
PROOF
  <1> DEFINE S == FieldStarts(tab, t)
  <1>1. S \subseteq 0 .. Len(t) /\ 0 \in S
    BY DEF FieldStarts
  <1> HIDE DEF S
  <1>2. IsFiniteSet(0 .. Len(t)) /\ Cardinality(0 .. Len(t)) = Len(t) + 1
    <2>1. 0 \in Int /\ Len(t) \in Int /\ 0 <= Len(t)
      OBVIOUS
    <2>2. IsFiniteSet(0 .. Len(t)) /\ Cardinality(0 .. Len(t)) = Len(t) - 0 + 1
      BY <2>1, FS_Interval
    <2> QED BY <2>2
  <1>3. S \in SUBSET Nat /\ IsFiniteSet(S)
    <2>1. \A q \in S : q \in 0 .. Len(t)
      BY <1>1
    <2>2. IsFiniteSet(S)
      BY <1>1, <1>2, FS_Subset
    <2> QED BY <2>1, <2>2
  <1>4. Cardinality(S) \in Nat /\ Cardinality(S) <= Len(t) + 1
    <2>1. Cardinality(S) \in Nat
      BY <1>3, FS_CardinalityType
    <2>2. Cardinality(S) <= Cardinality(0 .. Len(t))
      BY <1>1, <1>2, FS_Subset
    <2> QED BY <1>2, <2>1, <2>2
  <1>5. ASSUME NEW p \in S PROVE Cardinality(Below(S, p)) <= p
    <2>1. p \in Nat /\ \A q \in S : q \in Nat
      BY <1>3
    <2>2. \A q \in Below(S, p) : q \in 0 .. p - 1
      BY <2>1 DEF Below
    <2>3. IsFiniteSet(0 .. p - 1) /\ Cardinality(0 .. p - 1) = p
      <3>1. /\ IsFiniteSet(0 .. p - 1)
            /\ Cardinality(0 .. p - 1) = IF 0 > p - 1 THEN 0 ELSE (p - 1) - 0 + 1
        <4>1. 0 \in Int /\ p - 1 \in Int
          BY <2>1
        <4> QED BY <4>1, FS_Interval, Zenon
      <3> QED BY <2>1, <3>1
    <2>4. Below(S, p) \subseteq 0 .. p - 1
      BY <2>2
    <2>5. Cardinality(Below(S, p)) <= Cardinality(0 .. p - 1)
      BY <2>3, <2>4, FS_Subset
    <2> QED BY <2>3, <2>5
  <1> QED BY <1>1, <1>3, <1>4, <1>5 DEF S

(* What is scanned is a text that begins like the line.                    *)
Begins(t, u, lim) ==
  /\ Len(t) \in Nat /\ Len(u) \in Nat /\ lim \in Nat
  /\ lim <= Len(u) /\ Len(u) <= Len(t)
  /\ \A r \in 0 .. lim - 1 : t[r + 1] = u[r + 1]

(* One field further, or at the limit.                                     *)
LEMMA NextField ==
  ASSUME NEW tab, NEW t, NEW u, NEW lim, Begins(t, u, lim),
         NEW p \in FieldStarts(tab, u), p < lim
  PROVE  LET q == PastField(tab, t, p, lim)
             S == FieldStarts(tab, u)
         IN  /\ q \in p .. lim
             /\ q < lim => /\ q + SepLen(tab) \in S /\ p < q + SepLen(tab)
                           /\ \A s \in S : ~(p < s /\ s < q + SepLen(tab))
             /\ q = lim => \A s \in S : p < s => lim + SepLen(tab) <= s
PROOF
  <1> DEFINE S == FieldStarts(tab, u)
  <1>1. PICK q : q = PastField(tab, t, p, lim)
    OBVIOUS
  <1>2. /\ lim \in Nat /\ Len(u) \in Nat /\ lim <= Len(u)
        /\ \A r \in 0 .. lim - 1 : t[r + 1] = u[r + 1]
    BY DEF Begins
  <1>3. p \in Nat /\ p \in 0 .. lim /\ \A s \in S : s \in 0 .. Len(u)
    BY <1>2, StartsAre
  <1>4. CASE tab # NoTab
    <2>1. /\ q \in p .. lim
          /\ \A r \in p .. q - 1 : t[r + 1] # tab
          /\ q < lim => t[q + 1] = tab
      BY <1>1, <1>2, <1>3, <1>4, PastTabIs
    <2>2. SepLen(tab) = 1 /\ q \in Nat
      BY <1>2, <1>3, <1>4, <2>1 DEF SepLen
    <2>3. \A s : s \in S <=> s = 0 \/ (s \in 1 .. Len(u) /\ u[s] = tab)
      BY <1>4 DEF FieldStarts
    <2> HIDE DEF S
    <2>4. ASSUME NEW s \in S, p < s PROVE q + 1 <= s
      <3>1. s \in 1 .. Len(u) /\ u[s] = tab /\ s - 1 \in Nat
        BY <1>3, <2>3, <2>4
      <3>2. ASSUME s < q + 1 PROVE FALSE
        <4>1. s - 1 \in p .. q - 1 /\ s - 1 \in 0 .. lim - 1 /\ (s - 1) + 1 = s
          BY <1>2, <1>3, <2>1, <2>2, <2>4, <3>1, <3>2
        <4>2. t[s] # tab /\ t[s] = u[s]
          BY <1>2, <2>1, <4>1
        <4> QED BY <3>1, <4>2
      <3> QED BY <2>2, <3>1, <3>2
    <2>5. q < lim => q + 1 \in S
      <3>1. ASSUME q < lim PROVE q + 1 \in S
        <4>1. q \in 0 .. lim - 1 /\ q + 1 \in 1 .. Len(u)
          BY <1>2, <2>2, <3>1
        <4> QED BY <1>2, <2>1, <2>3, <3>1, <4>1
      <3> QED BY <3>1
    <2>6. p < q + 1
      BY <1>3, <2>1, <2>2
    <2>7. \A s \in S : s \in Nat
      BY <1>3
    <2>8. \A s \in S : ~(p < s /\ s < q + 1)
      BY <2>2, <2>4, <2>7
    <2> QED BY <1>1, <2>1, <2>2, <2>4, <2>5, <2>6, <2>8 DEF S
  <1>5. CASE tab = NoTab
    <2>1. PICK w : w = PastBlanks(t, p, lim)
      OBVIOUS
    <2>2. /\ w \in p .. lim
          /\ \A r \in p .. w - 1 : t[r + 1] = Blank
          /\ w < lim => t[w + 1] # Blank
      <3>1. lim \in Nat /\ p \in 0 .. lim
        BY <1>2, <1>3
      <3> QED BY <2>1, <3>1, PastBlanksIs, Zenon
    <2>3. w \in 0 .. lim /\ q = WordEnd(t, w, lim)
      <3>1. q = WordEnd(t, w, lim)
        BY <1>1, <1>5, <2>1 DEF PastField, WordEnd
      <3> QED BY <1>2, <1>3, <2>2, <3>1
    <2>4. /\ q \in w .. lim
          /\ \A r \in w .. q - 1 : t[r + 1] # Blank
          /\ q < lim => t[q + 1] = Blank
      BY <1>2, <2>3, PastWordIs
    <2>5. SepLen(tab) = 0 /\ q \in Nat /\ w \in Nat /\ p <= w /\ w <= q /\ q <= lim
      BY <1>2, <1>3, <1>5, <2>2, <2>3, <2>4 DEF SepLen
    <2>6. \A s : s \in S <=> \/ s = 0
                             \/ /\ s \in 1 .. Len(u) /\ s < Len(u)
                                /\ u[s] # Blank /\ u[s + 1] = Blank
      BY <1>5 DEF FieldStarts
    <2> HIDE DEF S
    <2>7. ASSUME NEW s \in S, p < s PROVE q <= s
      <3>1. /\ s \in 1 .. Len(u) /\ s < Len(u) /\ s \in Nat
            /\ u[s] # Blank /\ u[s + 1] = Blank
        BY <1>3, <2>6, <2>7
      <3>2. ASSUME s < q PROVE FALSE
        <4>1. s - 1 \in 0 .. lim - 1 /\ (s - 1) + 1 = s /\ s \in 0 .. lim - 1
          BY <1>2, <2>5, <3>1, <3>2
        <4>2. t[s] # Blank /\ t[s + 1] = Blank
          BY <1>2, <3>1, <4>1
        <4>3. CASE s <= w
          <5>1. s - 1 \in p .. w - 1
            BY <1>3, <2>5, <2>7, <3>1, <4>3
          <5> QED BY <2>2, <4>1, <4>2, <5>1
        <4>4. CASE ~(s <= w)
          <5>1. s \in w .. q - 1
            BY <2>5, <3>1, <3>2, <4>4
          <5> QED BY <2>4, <4>2, <5>1
        <4> QED BY <4>3, <4>4
      <3> QED BY <2>5, <3>1, <3>2
    <2>8. ASSUME q < lim PROVE q \in S /\ p < q
      <3>1. w # q
        BY <2>2, <2>4, <2>8
      <3>2. /\ q - 1 \in w .. q - 1 /\ q - 1 \in 0 .. lim - 1 /\ (q - 1) + 1 = q
            /\ q \in 0 .. lim - 1 /\ q \in 1 .. Len(u) /\ q < Len(u) /\ p < q
        BY <1>2, <1>3, <2>5, <2>8, <3>1
      <3>3. u[q] # Blank /\ u[q + 1] = Blank
        BY <1>2, <2>4, <2>8, <3>2
      <3> QED BY <2>6, <3>2, <3>3
    <2>9. \A s \in S : s \in Nat
      BY <1>3
    <2>10. \A s \in S : ~(p < s /\ s < q)
      BY <2>5, <2>7, <2>9
    <2>11. q \in p .. lim
      BY <1>2, <1>3, <2>5
    <2>12. lim + 0 = lim /\ q + 0 = q
      BY <1>2, <2>5
    <2> QED BY <1>1, <2>5, <2>7, <2>8, <2>10, <2>11, <2>12 DEF S
  <1> QED BY <1>4, <1>5

(* The position p is where field i + 1 starts, or the limit if that is     *)
(* before it.                                                              *)
At(tab, u, lim, i, p) ==
  LET S == FieldStarts(tab, u)
  IN  /\ p \in 0 .. lim
      /\ \/ p \in S /\ Cardinality(Below(S, p)) = i
         \/ p = lim /\ Cardinality(Below(S, lim)) <= i

(* One turn of the loops of begfield and limfield.                         *)
Turn(tab, t, lim, n, over, i, p) ==
  LET q == PastField(tab, t, p, lim)
  IN  IF tab # NoTab /\ q < lim /\ (i < n \/ over) THEN q + 1 ELSE q

LEMMA AtLimit ==
  ASSUME NEW tab, NEW t, NEW lim \in Nat
  PROVE  PastField(tab, t, lim, lim) = lim
PROOF
  <1>1. lim \in 0 .. lim
    OBVIOUS
  <1>2. CASE tab # NoTab
    <2>1. PastField(tab, t, lim, lim) \in lim .. lim
      BY <1>1, <1>2, PastTabIs, Zenon
    <2> QED BY <2>1
  <1>3. CASE tab = NoTab
    <2>1. PastBlanks(t, lim, lim) \in lim .. lim
      BY <1>1, PastBlanksIs, Zenon
    <2>2. PastBlanks(t, lim, lim) = lim
      BY <2>1
    <2>3. WordEnd(t, lim, lim) \in lim .. lim
      BY <1>1, PastWordIs, Zenon
    <2>4. PastField(tab, t, lim, lim) = WordEnd(t, PastBlanks(t, lim, lim), lim)
      BY <1>3 DEF PastField, WordEnd
    <2> QED BY <2>2, <2>3, <2>4
  <1> QED BY <1>2, <1>3

LEMMA TurnAt ==
  ASSUME NEW tab, NEW t, NEW u, NEW lim, Begins(t, u, lim), NEW n \in Nat,
         NEW over \in BOOLEAN, NEW i \in Nat, NEW p, At(tab, u, lim, i, p),
         tab = NoTab \/ i + 1 < n \/ over
  PROVE  At(tab, u, lim, i + 1, Turn(tab, t, lim, n, over, i + 1, p))
PROOF
  <1> DEFINE S == FieldStarts(tab, u)
  <1>1. PICK q : q = PastField(tab, t, p, lim)
    OBVIOUS
  <1>2. PICK r : r = Turn(tab, t, lim, n, over, i + 1, p)
    OBVIOUS
  <1>3. /\ lim \in Nat /\ Len(u) \in Nat /\ p \in 0 .. lim /\ lim <= Len(u)
        /\ S \in SUBSET Nat /\ IsFiniteSet(S)
        /\ \A x : Cardinality(Below(S, x)) \in Nat
    <2>1. lim \in Nat /\ Len(u) \in Nat /\ lim <= Len(u)
      BY DEF Begins
    <2>2. S \in SUBSET Nat /\ IsFiniteSet(S)
      BY <2>1, StartsAre
    <2>3. \A x : Cardinality(Below(S, x)) \in Nat
      BY <2>2, BelowSize
    <2> QED BY <2>1, <2>2, <2>3 DEF At
  <1>4. \/ p \in S /\ Cardinality(Below(S, p)) = i
        \/ p = lim /\ Cardinality(Below(S, lim)) <= i
    BY DEF At
  <1>5. r = IF tab # NoTab /\ q < lim THEN q + 1 ELSE q
    BY <1>1, <1>2 DEF Turn
  <1>6. CASE p = lim
    <2>1. r = lim
      BY <1>1, <1>3, <1>5, <1>6, AtLimit
    <2>2. Cardinality(Below(S, lim)) <= i + 1
      BY <1>3, <1>4, <1>6
    <2>3. lim \in 0 .. lim
      BY <1>3
    <2> QED BY <1>2, <2>1, <2>2, <2>3 DEF At
  <1>7. CASE p # lim
    <2>1. p \in S /\ Cardinality(Below(S, p)) = i /\ p < lim
      BY <1>3, <1>4, <1>7
    <2>2. /\ q \in p .. lim
          /\ q < lim => /\ q + SepLen(tab) \in S /\ p < q + SepLen(tab)
                        /\ \A s \in S : ~(p < s /\ s < q + SepLen(tab))
          /\ q = lim => \A s \in S : p < s => lim + SepLen(tab) <= s
      BY <1>1, <2>1, NextField, Zenon
    <2>3. q \in Nat /\ SepLen(tab) \in {0, 1} /\ q <= lim
      BY <1>3, <2>2 DEF SepLen
    <2>4. CASE q < lim
      <3>1. r = q + SepLen(tab)
        BY <1>5, <2>3, <2>4 DEF SepLen
      <3>2. r \in 0 .. lim /\ r \in Int
        BY <1>3, <2>3, <2>4, <3>1
      <3>3. r \in S /\ p < r /\ \A s \in S : ~(p < s /\ s < r)
        BY <2>2, <2>4, <3>1
      <3>4. Cardinality(Below(S, r)) = i + 1
        <4> HIDE DEF S
        <4> QED BY <1>3, <2>1, <3>2, <3>3, BelowNext
      <3> QED BY <1>2, <3>2, <3>3, <3>4 DEF At
    <2>5. CASE q = lim
      <3>1. r = lim
        BY <1>3, <1>5, <2>5
      <3>2. \A s \in S : ~(p < s /\ s < lim)
        <4>1. \A s \in S : s \in Nat
          BY <1>3
        <4> HIDE DEF S
        <4> QED BY <1>3, <2>2, <2>3, <2>5, <4>1
      <3>3. Cardinality(Below(S, lim)) = i + 1
        <4> HIDE DEF S
        <4> QED BY <1>3, <2>1, <3>2, BelowNext
      <3>4. lim \in 0 .. lim
        BY <1>3
      <3> QED BY <1>2, <3>1, <3>3, <3>4 DEF At
    <2> QED BY <1>3, <2>3, <2>4, <2>5
  <1> QED BY <1>6, <1>7

(* The positions after each turn.                                          *)
Steps(f, tab, t, lim, n, over, m) ==
  f = [i \in 0 .. m |-> IF i = 0 THEN 0
                        ELSE Turn(tab, t, lim, n, over, i, f[i - 1])]

LEMMA StepsExist ==
  ASSUME NEW tab, NEW t, NEW lim, NEW n, NEW over, NEW m \in Nat
  PROVE  \E f : Steps(f, tab, t, lim, n, over, m)
PROOF
  <1> DEFINE Made(k) == \E f : Steps(f, tab, t, lim, n, over, k)
             Bad == {k \in Nat : ~Made(k)}
             Next1(i, p) == Turn(tab, t, lim, n, over, i, p)
  <1> SUFFICES ASSUME ~Made(m) PROVE FALSE
    OBVIOUS
  <1>1. PICK k \in Bad : \A j \in Bad : k <= j
    <2>1. Bad \in SUBSET Nat /\ Bad # {}
      OBVIOUS
    <2> HIDE DEF Bad
    <2> QED BY <2>1, LeastNumber
  <1>2. k \in Nat /\ ~Made(k)
    BY <1>1
  <1>3. k # 0
    <2> DEFINE z == [i \in 0 .. 0 |-> 0]
    <2>1. z = [i \in 0 .. 0 |-> z[i]]
          /\ \A i \in 0 .. 0 : z[i] = IF i = 0 THEN 0 ELSE Next1(i, z[i - 1])
      <3> HIDE DEF Next1
      <3> QED OBVIOUS
    <2> HIDE DEF z
    <2>2. Steps(z, tab, t, lim, n, over, 0)
      BY <2>1 DEF Steps
    <2> QED BY <1>2, <2>2
  <1>4. k - 1 \in Nat /\ k - 1 \notin Bad
    <2> HIDE DEF Made
    <2> QED BY <1>1, <1>2, <1>3
  <1>5. PICK f : Steps(f, tab, t, lim, n, over, k - 1)
    BY <1>4
  <1> DEFINE g == [i \in 0 .. k |-> IF i < k THEN f[i] ELSE Next1(i, f[i - 1])]
  <1>6. ASSUME NEW i \in 0 .. k
        PROVE  g[i] = IF i = 0 THEN 0 ELSE Next1(i, g[i - 1])
    <2>1. CASE i = k
      <3>1. k - 1 \in 0 .. k /\ k - 1 < k
        BY <1>2, <1>3
      <3> HIDE DEF Next1
      <3> QED BY <1>3, <2>1, <3>1
    <2>2. CASE i # k
      <3>1. i \in 0 .. k - 1 /\ i < k
        BY <1>2, <2>2
      <3>2. i # 0 => i - 1 \in 0 .. k /\ i - 1 < k
        BY <1>2, <3>1
      <3>3. f[i] = IF i = 0 THEN 0 ELSE Next1(i, f[i - 1])
        BY <1>5, <3>1, Zenon DEF Steps
      <3> HIDE DEF Next1
      <3> QED BY <3>1, <3>2, <3>3
    <2> QED BY <2>1, <2>2
  <1>7. g = [i \in 0 .. k |-> g[i]]
    OBVIOUS
  <1> HIDE DEF g
  <1>8. Steps(g, tab, t, lim, n, over, k)
    BY <1>6, <1>7 DEF Steps
  <1> QED BY <1>2, <1>8

LEMMA FieldsIs ==
  ASSUME NEW tab, NEW t, NEW lim, NEW n \in Nat, NEW over, Len(t) \in Nat
  PROVE  \E f : /\ Steps(f, tab, t, lim, n, over, Least(n, Len(t)))
                /\ Fields(tab, t, lim, n, over) = f[Least(n, Len(t))]
PROOF
  <1> DEFINE F == CHOOSE f : Steps(f, tab, t, lim, n, over, Least(n, Len(t)))
  <1>1. Least(n, Len(t)) \in Nat
    BY DEF Least
  <1>2. Steps(F, tab, t, lim, n, over, Least(n, Len(t)))
    BY <1>1, StepsExist
  <1>3. Fields(tab, t, lim, n, over) = F[Least(n, Len(t))]
    BY DEF Fields, Steps, Turn
  <1> QED BY <1>2, <1>3

(* The turns taken lead to where the next field starts.                    *)
LEMMA StepsAt ==
  ASSUME NEW tab, NEW t, NEW u, NEW lim, Begins(t, u, lim), NEW n \in Nat,
         NEW over \in BOOLEAN, NEW m \in Nat, NEW f,
         Steps(f, tab, t, lim, n, over, m), NEW k \in 0 .. m,
         tab = NoTab \/ k < n \/ over
  PROVE  At(tab, u, lim, k, f[k])
PROOF
  <1> DEFINE Bad == {i \in 0 .. k : ~At(tab, u, lim, i, f[i])}
  <1> SUFFICES ASSUME Bad # {} PROVE FALSE
    <2>1. k \in 0 .. k
      OBVIOUS
    <2> QED BY <2>1
  <1>1. PICK i \in Bad : \A j \in Bad : i <= j
    <2>1. Bad \in SUBSET Nat
      OBVIOUS
    <2> HIDE DEF Bad
    <2> QED BY <2>1, LeastNumber
  <1>2. i \in Nat /\ i <= k /\ k <= m /\ ~At(tab, u, lim, i, f[i])
    BY <1>1
  <1>3. \A j \in 0 .. m : f[j] = IF j = 0 THEN 0
                                 ELSE Turn(tab, t, lim, n, over, j, f[j - 1])
    BY Zenon DEF Steps
  <1>4. i # 0
    <2>1. ASSUME i = 0 PROVE FALSE
      <3>1. f[0] = 0 /\ 0 \in 0 .. m
        <4>1. 0 \in 0 .. m
          OBVIOUS
        <4> QED BY <1>3, <4>1
      <3> DEFINE S == FieldStarts(tab, u)
      <3>2. lim \in Nat /\ 0 \in S /\ \A s \in S : s \in Nat
        BY StartsAre DEF Begins
      <3>3. Below(S, 0) = {}
        <4>1. \A s \in S : ~(s < 0)
          BY <3>2
        <4> HIDE DEF S
        <4> QED BY <4>1 DEF Below
      <3>4. Cardinality(Below(S, 0)) = 0 /\ 0 \in 0 .. lim
        BY <3>2, <3>3, FS_EmptySet
      <3> QED BY <1>2, <2>1, <3>1, <3>2, <3>4 DEF At
    <2> QED BY <2>1
  <1>5. /\ i - 1 \in 0 .. k /\ i - 1 \notin Bad /\ i \in 0 .. m
        /\ i - 1 \in Nat /\ (i - 1) + 1 = i
    <2> HIDE DEF Bad
    <2>1. \A j \in Bad : i <= j
      BY <1>1
    <2> QED BY <1>2, <1>4, <2>1
  <1>6. At(tab, u, lim, i - 1, f[i - 1])
    BY <1>5
  <1>7. tab = NoTab \/ i < n \/ over
    BY <1>2
  <1>8. At(tab, u, lim, i, Turn(tab, t, lim, n, over, i, f[i - 1]))
    BY <1>5, <1>6, <1>7, TurnAt, ZenonT(60)
  <1>9. f[i] = Turn(tab, t, lim, n, over, i, f[i - 1])
    BY <1>3, <1>4, <1>5
  <1> QED BY <1>2, <1>8, <1>9

LEMMA FieldStartIs ==
  ASSUME NEW tab, NEW u, Len(u) \in Nat, NEW f \in Nat \ {0}
  PROVE  LET S == FieldStarts(tab, u)
         IN  /\ FieldStart(tab, u, f) \in 0 .. Len(u)
             /\ f <= Cardinality(S) =>
                  /\ FieldStart(tab, u, f) \in S
                  /\ Cardinality(Below(S, FieldStart(tab, u, f))) = f - 1
             /\ ~(f <= Cardinality(S)) => FieldStart(tab, u, f) = Len(u)
PROOF
  <1> DEFINE S == FieldStarts(tab, u)
             p == CHOOSE p \in S : Cardinality({q \in S : q < p}) = f - 1
  <1>1. /\ S \subseteq 0 .. Len(u) /\ Cardinality(S) \in Nat
        /\ S \in SUBSET (0 .. Len(u))
    BY StartsAre
  <1>2. FieldStart(tab, u, f) = IF f > Cardinality(S) THEN Len(u) ELSE p
    BY DEF FieldStart
  <1>3. CASE f <= Cardinality(S)
    <2>1. f - 1 \in Nat /\ f - 1 < Cardinality(S)
      BY <1>1, <1>3
    <2>2. \E x \in S : Cardinality(Below(S, x)) = f - 1
      <3> HIDE DEF S
      <3> QED BY <1>1, <2>1, PlaceExists
    <2>3. p \in S /\ Cardinality(Below(S, p)) = f - 1
      <3> HIDE DEF S
      <3> QED BY <2>2 DEF Below
    <2>4. FieldStart(tab, u, f) = p
      <3> HIDE DEF S, p
      <3> QED BY <1>1, <1>2, <1>3
    <2> HIDE DEF p
    <2> QED BY <1>1, <1>3, <2>3, <2>4
  <1>4. CASE ~(f <= Cardinality(S))
    <2>1. FieldStart(tab, u, f) = Len(u)
      <3> HIDE DEF S, p
      <3> QED BY <1>1, <1>2, <1>4
    <2> HIDE DEF p
    <2> QED BY <1>4, <2>1
  <1> QED BY <1>3, <1>4

(* The field that starts at p.                                             *)
LEMMA StartOf ==
  ASSUME NEW tab, NEW u, Len(u) \in Nat, NEW p \in FieldStarts(tab, u)
  PROVE  FieldStart(tab, u, Cardinality(Below(FieldStarts(tab, u), p)) + 1) = p
PROOF
  <1> DEFINE S == FieldStarts(tab, u)
             c == Cardinality(Below(S, p))
  <1>1. S \in SUBSET Nat /\ IsFiniteSet(S) /\ p \in S
    BY StartsAre
  <1> HIDE DEF S
  <1>2. c \in Nat /\ Cardinality(S) \in Nat
    BY <1>1, BelowSize
  <1>3. c + 1 <= Cardinality(S)
    BY <1>1, BelowLess
  <1>4. /\ FieldStart(tab, u, c + 1) \in S
        /\ Cardinality(Below(S, FieldStart(tab, u, c + 1))) = (c + 1) - 1
    <2>1. c + 1 \in Nat \ {0}
      BY <1>2
    <2> QED BY <1>3, <2>1, FieldStartIs DEF S
  <1>5. (c + 1) - 1 = c
    BY <1>2
  <1>6. FieldStart(tab, u, c + 1) = p
    <2>1. PICK r : r = FieldStart(tab, u, c + 1)
      OBVIOUS
    <2>2. r \in S /\ Cardinality(Below(S, p)) = Cardinality(Below(S, r))
      BY <1>4, <1>5, <2>1
    <2> QED BY <1>1, <2>1, <2>2, PlaceIsUnique
  <1> QED BY <1>6 DEF S

LEMMA ScannedStart ==
  ASSUME NEW tab, NEW u, Len(u) \in Nat, NEW lim \in Nat, lim <= Len(u),
         NEW n \in Nat, NEW p, At(tab, u, lim, n, p)
  PROVE  p = Least(FieldStart(tab, u, n + 1), lim)
PROOF
  <1> DEFINE S == FieldStarts(tab, u)
             s == FieldStart(tab, u, n + 1)
  <1>1. /\ p \in 0 .. lim
        /\ \/ p \in S /\ Cardinality(Below(S, p)) = n
           \/ p = lim /\ Cardinality(Below(S, lim)) <= n
    BY DEF At
  <1>2. /\ S \in SUBSET Nat /\ IsFiniteSet(S) /\ s \in 0 .. Len(u)
        /\ n + 1 <= Cardinality(S) =>
             s \in S /\ Cardinality(Below(S, s)) = (n + 1) - 1
        /\ ~(n + 1 <= Cardinality(S)) => s = Len(u)
    <2>1. n + 1 \in Nat \ {0}
      OBVIOUS
    <2> QED BY <2>1, StartsAre, FieldStartIs, Zenon
  <1>3. CASE p \in S /\ Cardinality(Below(S, p)) = n
    <2>1. s = p
      BY <1>3, StartOf
    <2> QED BY <1>1, <2>1 DEF Least
  <1>4. CASE p = lim /\ Cardinality(Below(S, lim)) <= n
    <2>1. lim <= s
      <3>1. ASSUME s < lim PROVE FALSE
        <4> HIDE DEF S, s
        <4>1. n + 1 <= Cardinality(S)
          BY <1>2, <3>1
        <4>2. s \in S /\ Cardinality(Below(S, s)) = n /\ s \in Nat
          BY <1>2, <4>1
        <4>5. Cardinality(Below(S, s)) + 1 <= Cardinality(Below(S, lim))
          BY <1>2, <3>1, <4>2, BelowLess
        <4>6. Cardinality(Below(S, lim)) \in Nat
          BY <1>2, BelowSize
        <4> QED BY <1>4, <4>2, <4>5, <4>6
      <3> HIDE DEF s
      <3> QED BY <1>2, <3>1
    <2>2. Least(s, lim) = lim
      <3> HIDE DEF s
      <3> QED BY <1>2, <2>1, LeastIs
    <2> QED BY <1>4, <2>2
  <1> QED BY <1>1, <1>3, <1>4

(* Where the turns end when there are more fields to pass than characters. *)
LEMMA ScannedAll ==
  ASSUME NEW tab, NEW t, NEW u, NEW lim, Begins(t, u, lim), NEW n \in Nat,
         Len(t) < n, NEW p, At(tab, u, lim, Len(t), p)
  PROVE  p = lim /\ At(tab, u, lim, n, p)
PROOF
  <1> DEFINE S == FieldStarts(tab, u)
  <1>1. /\ lim \in Nat /\ Len(u) \in Nat /\ Len(t) \in Nat
        /\ lim <= Len(u) /\ Len(u) <= Len(t)
    BY DEF Begins
  <1>2. /\ p \in 0 .. lim
        /\ \/ p \in S /\ Cardinality(Below(S, p)) = Len(t)
           \/ p = lim /\ Cardinality(Below(S, lim)) <= Len(t)
    BY DEF At
  <1>3. /\ S \in SUBSET Nat /\ IsFiniteSet(S) /\ Cardinality(S) <= Len(u) + 1
        /\ \A q \in S : Cardinality(Below(S, q)) <= q
    BY <1>1, StartsAre
  <1> HIDE DEF S
  <1>4. p = lim
    BY <1>1, <1>2, <1>3
  <1>5. Cardinality(Below(S, lim)) <= n
    <2>1. /\ Cardinality(Below(S, lim)) \in Nat /\ Cardinality(S) \in Nat
          /\ Cardinality(Below(S, lim)) <= Cardinality(S)
      BY <1>3, BelowSize
    <2> QED BY <1>1, <1>3, <2>1
  <1> QED BY <1>2, <1>4, <1>5 DEF At, S

(* begfield stops at the start of a field.                                 *)
LEMMA FieldsAreStarts ==
  ASSUME NEW tab, NEW t, NEW u, NEW lim, Begins(t, u, lim), NEW n \in Nat,
         NEW over \in BOOLEAN, over \/ tab = NoTab
  PROVE  Fields(tab, t, lim, n, over) = Least(FieldStart(tab, u, n + 1), lim)
PROOF
  <1> DEFINE m == Least(n, Len(t))
  <1>1. lim \in Nat /\ Len(u) \in Nat /\ Len(t) \in Nat /\ lim <= Len(u)
    BY DEF Begins
  <1>2. m \in Nat /\ m \in 0 .. m /\ (m = n \/ (m = Len(t) /\ Len(t) < n))
    BY <1>1 DEF Least
  <1>3. PICK f : /\ Steps(f, tab, t, lim, n, over, m)
                 /\ Fields(tab, t, lim, n, over) = f[m]
    BY <1>1, FieldsIs
  <1> HIDE DEF m
  <1>4. At(tab, u, lim, m, f[m])
    BY <1>2, <1>3, StepsAt
  <1>5. At(tab, u, lim, n, f[m])
    BY <1>2, <1>4, ScannedAll
  <1> QED BY <1>1, <1>3, <1>5, ScannedStart

(* limfield stops at the end of a field.                                   *)
LEMMA FieldsAreEnds ==
  ASSUME NEW tab, NEW t, NEW u, NEW lim, Begins(t, u, lim), NEW n \in Nat \ {0},
         NEW over \in BOOLEAN, ~over
  PROVE  Fields(tab, t, lim, n, over) = Least(FieldEnd(tab, u, n), lim)
PROOF
  <1> DEFINE S == FieldStarts(tab, u)
             next == FieldStart(tab, u, n + 1)
             m == Least(n, Len(t))
  <1>1. /\ lim \in Nat /\ Len(u) \in Nat /\ Len(t) \in Nat
        /\ lim <= Len(u) /\ Len(u) <= Len(t)
    BY DEF Begins
  <1>2. /\ S \in SUBSET Nat /\ IsFiniteSet(S) /\ Cardinality(S) \in Nat
        /\ Cardinality(S) <= Len(u) + 1
        /\ \A s \in S : s \in 0 .. Len(u)
    BY <1>1, StartsAre
  <1>3. /\ next \in 0 .. Len(u)
        /\ n + 1 <= Cardinality(S) =>
             next \in S /\ Cardinality(Below(S, next)) = (n + 1) - 1
        /\ ~(n + 1 <= Cardinality(S)) => next = Len(u)
    <2>1. n + 1 \in Nat \ {0}
      OBVIOUS
    <2> QED BY <1>1, <2>1, FieldStartIs, Zenon
  <1>4. FieldEnd(tab, u, n) = IF n + 1 <= Cardinality(S) THEN next - SepLen(tab)
                              ELSE Len(u)
    <2>1. n >= Cardinality(S) <=> ~(n + 1 <= Cardinality(S))
      BY <1>2
    <2> QED BY <2>1, Zenon DEF FieldEnd, SepLen
  <1>5. CASE tab = NoTab
    <2>1. FieldEnd(tab, u, n) = next
      <3>1. SepLen(tab) = 0
        BY <1>5 DEF SepLen
      <3> HIDE DEF S, next
      <3> QED BY <1>1, <1>3, <1>4, <3>1
    <2> QED BY <1>5, <2>1, FieldsAreStarts
  <1>6. CASE tab # NoTab /\ Len(t) < n
    <2>1. m = Len(t) /\ m \in Nat /\ m \in 0 .. m /\ m < n
      BY <1>1, <1>6 DEF Least
    <2>2. PICK f : /\ Steps(f, tab, t, lim, n, over, m)
                   /\ Fields(tab, t, lim, n, over) = f[m]
      BY <1>1, FieldsIs
    <2> HIDE DEF m
    <2>3. At(tab, u, lim, m, f[m])
      BY <2>1, <2>2, StepsAt
    <2>4. f[m] = lim
      BY <1>6, <2>1, <2>3, ScannedAll
    <2>5. FieldEnd(tab, u, n) = Len(u)
      <3> HIDE DEF S
      <3> QED BY <1>1, <1>2, <1>4, <1>6
    <2> QED BY <1>1, <2>2, <2>4, <2>5, LeastIs
  <1>7. CASE tab # NoTab /\ ~(Len(t) < n)
    <2>1. m = n /\ m \in Nat /\ m \in 0 .. m /\ n - 1 \in 0 .. m /\ n - 1 < n
          /\ n - 1 \in Nat
      BY <1>1, <1>7 DEF Least
    <2>2. PICK f : /\ Steps(f, tab, t, lim, n, over, m)
                   /\ Fields(tab, t, lim, n, over) = f[m]
      BY <1>1, FieldsIs
    <2> HIDE DEF m
    <2>3. PICK p : p = f[n - 1]
      OBVIOUS
    <2>4. At(tab, u, lim, n - 1, p)
      BY <2>1, <2>2, <2>3, StepsAt
    <2>5. PICK q : q = PastField(tab, t, p, lim)
      OBVIOUS
    <2>6. f[m] = q
      <3>1. f[m] = IF m = 0 THEN 0 ELSE Turn(tab, t, lim, n, over, m, f[m - 1])
        BY <2>1, <2>2, Zenon DEF Steps
      <3>2. f[m] = Turn(tab, t, lim, n, over, n, p)
        BY <2>1, <2>3, <3>1
      <3> QED BY <2>5, <3>2 DEF Turn
    <2>7. p \in 0 .. lim /\ SepLen(tab) = 1
      BY <1>7, <2>4 DEF At, SepLen
    <2>8. CASE p < lim
      <3>1. p \in S /\ Cardinality(Below(S, p)) = n - 1
        BY <2>4, <2>7, <2>8 DEF At
      <3>2. /\ q \in p .. lim
            /\ q < lim => /\ q + SepLen(tab) \in S /\ p < q + SepLen(tab)
                          /\ \A s \in S : ~(p < s /\ s < q + SepLen(tab))
            /\ q = lim => \A s \in S : p < s => lim + SepLen(tab) <= s
        BY <2>5, <2>8, <3>1, NextField, Zenon
      <3>3. q \in Nat /\ q <= lim
        BY <2>7, <3>2
      <3>4. CASE q < lim
        <4>1. Cardinality(Below(S, q + 1)) = (n - 1) + 1
          <5>1. q + 1 \in Int
            BY <3>3
          <5> HIDE DEF S
          <5> QED BY <1>2, <2>7, <3>1, <3>2, <3>4, <5>1, BelowNext
        <4>2. next = q + 1
          <5>1. (n - 1) + 1 = n
            OBVIOUS
          <5> QED BY <1>1, <2>7, <3>2, <3>4, <4>1, <5>1, StartOf
        <4>3. n + 1 <= Cardinality(S)
          <5>1. q + 1 \in S
            BY <2>7, <3>2, <3>4
          <5>2. Cardinality(Below(S, q + 1)) + 1 <= Cardinality(S)
            <6> HIDE DEF S
            <6> QED BY <1>2, <5>1, BelowLess
          <5> HIDE DEF S
          <5> QED BY <1>2, <4>1, <5>2
        <4>4. FieldEnd(tab, u, n) = q
          <5> HIDE DEF S, next
          <5> QED BY <1>4, <2>7, <3>3, <4>2, <4>3
        <4> QED BY <1>1, <2>2, <2>6, <3>3, <3>4, <4>4, LeastIs
      <3>5. CASE q = lim
        <4>1. lim <= FieldEnd(tab, u, n)
          <5>1. CASE n + 1 <= Cardinality(S)
            <6>1. next \in S /\ Cardinality(Below(S, next)) = n
              <7> HIDE DEF S, next
              <7> QED BY <1>3, <5>1
            <6>2. p < next
              <7>1. p \in Nat /\ next \in Nat
                BY <1>2, <3>1, <6>1
              <7>2. ASSUME next <= p PROVE FALSE
                <8>1. Cardinality(Below(S, next)) <= Cardinality(Below(S, p))
                  <9> HIDE DEF S, next
                  <9> QED BY <1>2, <7>1, <7>2, BelowGrows
                <8> HIDE DEF S, next
                <8> QED BY <3>1, <6>1, <8>1
              <7> HIDE DEF next
              <7> QED BY <7>1, <7>2
            <6>3. lim + 1 <= next
              BY <2>7, <3>2, <3>5, <6>1, <6>2
            <6> HIDE DEF S, next
            <6> QED BY <1>1, <1>3, <1>4, <2>7, <5>1, <6>3
          <5>2. CASE ~(n + 1 <= Cardinality(S))
            <6> HIDE DEF S
            <6> QED BY <1>1, <1>4, <5>2
          <5> QED BY <5>1, <5>2
        <4>2. FieldEnd(tab, u, n) \in Int
          <5> HIDE DEF S, next
          <5> QED BY <1>1, <1>3, <1>4, <2>7
        <4> QED BY <1>1, <2>2, <2>6, <3>5, <4>1, <4>2, LeastIs
      <3> QED BY <1>1, <3>3, <3>4, <3>5
    <2>9. CASE p = lim
      <3>1. q = lim
        BY <1>1, <2>5, <2>9, AtLimit
      <3>2. p = Least(FieldStart(tab, u, (n - 1) + 1), lim)
        BY <1>1, <2>1, <2>4, ScannedStart
      <3>3. FieldStart(tab, u, n) \in 0 .. Len(u) /\ lim <= FieldStart(tab, u, n)
        <4>1. FieldStart(tab, u, n) \in 0 .. Len(u)
          BY <1>1, FieldStartIs
        <4>2. (n - 1) + 1 = n
          OBVIOUS
        <4> QED BY <1>1, <2>9, <3>2, <4>1, <4>2 DEF Least
      <3>4. lim <= FieldEnd(tab, u, n) /\ FieldEnd(tab, u, n) \in Int
        <4>1. CASE n + 1 <= Cardinality(S)
          <5>1. /\ FieldStart(tab, u, n) \in S
                /\ Cardinality(Below(S, FieldStart(tab, u, n))) = n - 1
            <6>1. n <= Cardinality(S)
              <7> HIDE DEF S
              <7> QED BY <1>2, <4>1
            <6> QED BY <1>1, <6>1, FieldStartIs
          <5>2. next \in S /\ Cardinality(Below(S, next)) = n
            <6> HIDE DEF S, next
            <6> QED BY <1>3, <4>1
          <5>3. FieldStart(tab, u, n) < next
            <6> DEFINE b == FieldStart(tab, u, n)
            <6>1. b \in Nat /\ next \in Nat
              BY <1>2, <5>1, <5>2
            <6>2. ASSUME next <= b PROVE FALSE
              <7>1. Cardinality(Below(S, next)) <= Cardinality(Below(S, b))
                <8> HIDE DEF S, next, b
                <8> QED BY <1>2, <6>1, <6>2, BelowGrows
              <7> HIDE DEF S, next
              <7> QED BY <5>1, <5>2, <7>1
            <6> HIDE DEF next, b
            <6>3. b < next
              BY <6>1, <6>2
            <6> QED BY <6>3 DEF b
          <5> HIDE DEF S, next
          <5> QED BY <1>1, <1>3, <1>4, <2>7, <3>3, <4>1, <5>3
        <4>2. CASE ~(n + 1 <= Cardinality(S))
          <5> HIDE DEF S
          <5> QED BY <1>1, <1>4, <4>2
        <4> QED BY <4>1, <4>2
      <3> QED BY <1>1, <2>2, <2>6, <3>1, <3>4, LeastIs
    <2> QED BY <1>1, <2>7, <2>8, <2>9
  <1> QED BY <1>5, <1>6, <1>7

LEMMA FieldEndType ==
  ASSUME NEW tab, NEW u, Len(u) \in Nat, NEW f \in Nat \ {0}
  PROVE  FieldEnd(tab, u, f) \in 0 .. Len(u)
PROOF
  <1> DEFINE S == FieldStarts(tab, u)
             next == FieldStart(tab, u, f + 1)
  <1>1. /\ S \in SUBSET Nat /\ IsFiniteSet(S) /\ Cardinality(S) \in Nat
        /\ \A p \in S : Cardinality(Below(S, p)) <= p
    BY StartsAre
  <1>2. FieldEnd(tab, u, f) = IF f >= Cardinality(S) THEN Len(u)
                              ELSE next - IF tab = NoTab THEN 0 ELSE 1
    BY DEF FieldEnd
  <1>3. CASE f >= Cardinality(S)
    BY <1>2, <1>3
  <1>4. CASE ~(f >= Cardinality(S))
    <2>1. f + 1 \in Nat \ {0} /\ f + 1 <= Cardinality(S)
      BY <1>1, <1>4
    <2>2. next \in 0 .. Len(u) /\ next \in S
          /\ Cardinality(Below(S, next)) = (f + 1) - 1
      BY <2>1, FieldStartIs, Zenon
    <2> HIDE DEF S, next
    <2>3. next >= 1
      BY <1>1, <2>2
    <2> QED BY <1>2, <1>4, <2>2, <2>3
  <1> QED BY <1>3, <1>4

-----------------------------------------------------------------------------
(* begfield and limfield find the places that SortKey defines.             *)

LEMMA AfterBlanksIs ==
  ASSUME NEW u, Len(u) \in Nat, NEW p \in 0 .. Len(u)
  PROVE  /\ AfterBlanks(u, p) \in p .. Len(u)
         /\ \A r \in p + 1 .. AfterBlanks(u, p) : u[r] = Blank
         /\ AfterBlanks(u, p) = Len(u) \/ u[AfterBlanks(u, p) + 1] # Blank
PROOF
  <1> DEFINE Is(q) == /\ \A r \in p + 1 .. q : u[r] = Blank
                      /\ q = Len(u) \/ u[q + 1] # Blank
  <1>1. PICK w : w = PastBlanks(u, p, Len(u))
    OBVIOUS
  <1>2. /\ w \in p .. Len(u)
        /\ \A r \in p .. w - 1 : u[r + 1] = Blank
        /\ w < Len(u) => u[w + 1] # Blank
    BY <1>1, PastBlanksIs, Zenon
  <1>3. ASSUME NEW r \in p + 1 .. w PROVE u[r] = Blank
    <2>1. r - 1 \in p .. w - 1 /\ (r - 1) + 1 = r
      BY <1>2
    <2> QED BY <1>2, <2>1
  <1>4. w = Len(u) \/ u[w + 1] # Blank
    BY <1>2
  <1>5. \E q \in p .. Len(u) : Is(q)
    BY <1>2, <1>3, <1>4
  <1>6. AfterBlanks(u, p) = CHOOSE q \in p .. Len(u) : Is(q)
    BY DEF AfterBlanks
  <1>7. AfterBlanks(u, p) \in p .. Len(u) /\ Is(AfterBlanks(u, p))
    <2> HIDE DEF Is
    <2> QED BY <1>5, <1>6
  <1> QED BY <1>7

LEMMA AfterBlanksUnique ==
  ASSUME NEW u, Len(u) \in Nat, NEW p \in 0 .. Len(u), NEW q \in p .. Len(u),
         \A r \in p + 1 .. q : u[r] = Blank, q = Len(u) \/ u[q + 1] # Blank
  PROVE  AfterBlanks(u, p) = q
PROOF
  <1>1. PICK a : a = AfterBlanks(u, p)
    OBVIOUS
  <1>2. /\ a \in p .. Len(u)
        /\ \A r \in p + 1 .. a : u[r] = Blank
        /\ a = Len(u) \/ u[a + 1] # Blank
    BY <1>1, AfterBlanksIs
  <1>3. ASSUME a < q PROVE FALSE
    <2>1. a + 1 \in p + 1 .. q /\ a # Len(u)
      BY <1>2, <1>3
    <2> QED BY <1>2, <2>1
  <1>4. ASSUME q < a PROVE FALSE
    <2>1. q + 1 \in p + 1 .. a /\ q # Len(u)
      BY <1>2, <1>4
    <2> QED BY <1>2, <2>1
  <1>5. a \in Int /\ q \in Int
    BY <1>2
  <1> QED BY <1>1, <1>3, <1>4, <1>5

LEMMA BlanksPassed ==
  ASSUME NEW t, NEW u, NEW lim, Begins(t, u, lim), NEW p \in 0 .. Len(u)
  PROVE  PastBlanks(t, Least(p, lim), lim) = Least(AfterBlanks(u, p), lim)
PROOF
  <1> DEFINE z == Least(p, lim)
  <1>1. PICK a : a = AfterBlanks(u, p)
    OBVIOUS
  <1>2. PICK w : w = PastBlanks(t, z, lim)
    OBVIOUS
  <1>3. /\ lim \in Nat /\ Len(u) \in Nat /\ lim <= Len(u)
        /\ \A r \in 0 .. lim - 1 : t[r + 1] = u[r + 1]
    BY DEF Begins
  <1>4. /\ a \in p .. Len(u)
        /\ \A r \in p + 1 .. a : u[r] = Blank
        /\ a = Len(u) \/ u[a + 1] # Blank
    BY <1>1, <1>3, AfterBlanksIs
  <1>5. z \in 0 .. lim /\ z \in {p, lim} /\ (p < lim => z = p) /\ (lim <= p => z = lim)
    BY <1>3 DEF Least
  <1> HIDE DEF z
  <1>6. /\ w \in z .. lim
        /\ \A r \in z .. w - 1 : t[r + 1] = Blank
        /\ w < lim => t[w + 1] # Blank
    BY <1>2, <1>3, <1>5, PastBlanksIs, ZenonT(40)
  <1>7. CASE w < lim
    <2>1. p < lim /\ z = p /\ w \in Nat /\ p <= w
      BY <1>3, <1>5, <1>6, <1>7
    <2>2. u[w + 1] # Blank
      <3>1. w \in 0 .. lim - 1
        BY <1>3, <1>7, <2>1
      <3> QED BY <1>3, <1>6, <1>7, <3>1
    <2>3. ASSUME NEW r \in p + 1 .. w PROVE u[r] = Blank
      <3>1. r - 1 \in z .. w - 1 /\ r - 1 \in 0 .. lim - 1 /\ (r - 1) + 1 = r
        BY <1>3, <1>7, <2>1
      <3> QED BY <1>3, <1>6, <3>1
    <2>4. w \in p .. Len(u)
      BY <1>3, <1>7, <2>1
    <2>5. a = w
      BY <1>1, <1>3, <2>2, <2>3, <2>4, AfterBlanksUnique
    <2> QED BY <1>1, <1>2, <1>3, <1>7, <2>1, <2>5, LeastIs DEF z
  <1>8. CASE w = lim
    <2>1. lim <= a
      <3>1. ASSUME a < lim PROVE FALSE
        <4>1. a \in z .. w - 1 /\ a \in 0 .. lim - 1 /\ a # Len(u)
          BY <1>3, <1>4, <1>5, <1>8, <3>1
        <4> QED BY <1>3, <1>4, <1>6, <4>1
      <3> QED BY <1>3, <1>4, <3>1
    <2> QED BY <1>1, <1>2, <1>3, <1>4, <1>8, <2>1, LeastIs DEF z
  <1> QED BY <1>3, <1>5, <1>6, <1>7, <1>8

(* What a key of struct keyfield means, as a key of sort.                  *)
Means(key, k) ==
  /\ key.sword \in Nat /\ key.schar \in Nat
  /\ k.f = key.sword + 1 /\ k.c = key.schar + 1
  /\ key.skipsblanks \in BOOLEAN /\ k.b = key.skipsblanks
  /\ \/ key.eword = SizeMax /\ key.echar = 0 /\ k.e = None
     \/ /\ key.eword \in 0 .. SizeMax - 1 /\ key.echar \in Nat
        /\ k.e = key.eword + 1 /\ k.d = key.echar
        /\ key.skipeblanks \in BOOLEAN /\ k.eb = key.skipeblanks

LEMMA LeastOfSum ==
  ASSUME NEW lim \in Nat, NEW c \in Nat, NEW x \in Nat, NEW len \in Nat, lim <= len
  PROVE  Least(lim, c + Least(x, lim))
           = Least(IF c + x > len THEN len ELSE c + x, lim)
  BY DEF Least

LEMMA BegFieldIs ==
  ASSUME NEW tab, NEW t, NEW u, NEW len \in Nat,
         Begins(t, u, Most(len - 1, 0)), NEW key, NEW k, Means(key, k)
  PROVE  /\ BegField(tab, t, len, key) = Least(KeyStart(tab, u, k), Most(len - 1, 0))
         /\ KeyStart(tab, u, k) \in 0 .. Len(u)
PROOF
  <1> DEFINE lim == Most(len - 1, 0)
             s == FieldStart(tab, u, k.f)
             c == key.schar
             x == IF key.skipsblanks THEN AfterBlanks(u, s) ELSE s
             p == Fields(tab, t, lim, key.sword, TRUE)
  <1>1. lim \in Nat /\ Len(u) \in Nat /\ lim <= Len(u)
    BY DEF Begins
  <1>2. /\ key.sword \in Nat /\ c \in Nat /\ k.f = key.sword + 1
        /\ k.c = c + 1 /\ key.skipsblanks \in BOOLEAN /\ k.b = key.skipsblanks
        /\ k.f \in Nat \ {0}
    BY DEF Means
  <1>3. s \in 0 .. Len(u)
    BY <1>1, <1>2, FieldStartIs
  <1>4. PICK over \in BOOLEAN : over = TRUE
    OBVIOUS
  <1>5. p = Fields(tab, t, lim, key.sword, over)
    BY <1>4, Zenon
  <1>6. p = Least(s, lim)
    <2>1. Begins(t, u, lim) /\ key.sword \in Nat
      BY <1>2
    <2> HIDE DEF lim
    <2>2. Fields(tab, t, lim, key.sword, over)
            = Least(FieldStart(tab, u, key.sword + 1), lim)
      <3>1. over \/ tab = NoTab
        BY <1>4
      <3> QED BY <2>1, <3>1, FieldsAreStarts, SMTT(30)
    <2>3. k.f = key.sword + 1
      BY <1>2
    <2> QED BY <1>5, <2>2, <2>3, Zenon
  <1>7. x \in 0 .. Len(u)
    <2> HIDE DEF s
    <2>1. AfterBlanks(u, s) \in s .. Len(u)
      BY <1>1, <1>3, AfterBlanksIs
    <2> QED BY <1>1, <1>3, <2>1
  <1>8. (IF key.skipsblanks THEN PastBlanks(t, p, lim) ELSE p) = Least(x, lim)
    <2> HIDE DEF s, p, lim
    <2>1. PastBlanks(t, p, lim) = Least(AfterBlanks(u, s), lim)
      BY <1>3, <1>6, BlanksPassed DEF lim
    <2> QED BY <1>2, <1>6, <2>1
  <1>9. BegField(tab, t, len, key) = Least(lim, c + Least(x, lim))
    <2>1. BegField(tab, t, len, key)
            = Least(lim, c + IF key.skipsblanks THEN PastBlanks(t, p, lim) ELSE p)
      BY DEF BegField
    <2> HIDE DEF lim, p, x, c
    <2> QED BY <1>8, <2>1
  <1>10. KeyStart(tab, u, k) = IF c + x > Len(u) THEN Len(u) ELSE c + x
    <2>1. KeyStart(tab, u, k)
            = InLine(u, k.c - 1 + IF k.b THEN AfterBlanks(u, s) ELSE s)
      BY DEF KeyStart
    <2>2. k.c - 1 = c
      BY <1>2
    <2> HIDE DEF s, c
    <2>3. KeyStart(tab, u, k) = InLine(u, c + x)
      BY <1>2, <2>1, <2>2
    <2> HIDE DEF x
    <2> QED BY <2>3 DEF InLine
  <1>11. x \in Nat /\ c \in Nat
    BY <1>2, <1>7
  <1> HIDE DEF x, c, lim
  <1>12. KeyStart(tab, u, k) \in 0 .. Len(u)
    BY <1>1, <1>10, <1>11
  <1>13. Least(lim, c + Least(x, lim))
           = Least(IF c + x > Len(u) THEN Len(u) ELSE c + x, lim)
    BY <1>1, <1>11, LeastOfSum
  <1> QED BY <1>9, <1>10, <1>12, <1>13 DEF lim

LEMMA LimFieldIs ==
  ASSUME NEW tab, NEW t, NEW u, NEW len \in Nat,
         Begins(t, u, Most(len - 1, 0)), NEW key, NEW k, Means(key, k),
         key.eword # SizeMax
  PROVE  /\ LimField(tab, t, len, key) = Least(KeyEnd(tab, u, k), Most(len - 1, 0))
         /\ KeyEnd(tab, u, k) \in 0 .. Len(u)
PROOF
  <1> DEFINE lim == Most(len - 1, 0)
             s == FieldStart(tab, u, k.e)
             c == key.echar
             x == IF key.skipeblanks THEN AfterBlanks(u, s) ELSE s
  <1>1. lim \in Nat /\ Len(u) \in Nat /\ lim <= Len(u)
    BY DEF Begins
  <1>2. /\ key.eword \in 0 .. SizeMax - 1 /\ c \in Nat /\ k.e = key.eword + 1
        /\ k.d = c /\ key.skipeblanks \in BOOLEAN /\ k.eb = key.skipeblanks
        /\ k.e \in Nat \ {0} /\ k.e # None
        /\ Plus(key.eword, 1) = k.e /\ key.eword \in Nat
    <2>1. /\ key.eword \in 0 .. SizeMax - 1 /\ c \in Nat /\ k.e = key.eword + 1
          /\ k.d = c /\ key.skipeblanks \in BOOLEAN /\ k.eb = key.skipeblanks
      BY DEF Means
    <2>2. SizeMax \in Nat
      BY DecorateKeysAssumption
    <2>3. key.eword \in Nat /\ k.e \in Nat \ {0}
      BY <2>1, <2>2
    <2>4. (key.eword + 1) % (SizeMax + 1) = key.eword + 1
      BY <2>1, <2>2
    <2> QED BY <2>1, <2>3, <2>4 DEF Plus, None
  <1>3. CASE c = 0
    <2>1. PICK over \in BOOLEAN : ~over
      OBVIOUS
    <2>2. LimField(tab, t, len, key) = Fields(tab, t, lim, k.e, c # 0)
      <3>1. LimField(tab, t, len, key) = Fields(tab, t, lim, Plus(key.eword, 1), c # 0)
        BY <1>3, Zenon DEF LimField
      <3> QED BY <1>2, <3>1, Zenon
    <2>3. (c # 0) = over
      BY <1>3, <2>1
    <2>4. LimField(tab, t, len, key) = Fields(tab, t, lim, k.e, over)
      BY <2>2, <2>3, Zenon
    <2>5. LimField(tab, t, len, key) = Least(FieldEnd(tab, u, k.e), lim)
      <3> HIDE DEF lim
      <3> QED BY <1>2, <2>1, <2>4, FieldsAreEnds DEF lim
    <2>6. KeyEnd(tab, u, k) = FieldEnd(tab, u, k.e)
      BY <1>2, <1>3 DEF KeyEnd
    <2>7. FieldEnd(tab, u, k.e) \in 0 .. Len(u)
      BY <1>1, <1>2, FieldEndType
    <2> QED BY <2>5, <2>6, <2>7
  <1>4. CASE c # 0
    <2> DEFINE p == Fields(tab, t, lim, key.eword, c # 0)
    <2>1. PICK over \in BOOLEAN : over
      OBVIOUS
    <2>2. p = Fields(tab, t, lim, key.eword, over)
      <3>1. (c # 0) = over
        BY <1>4, <2>1
      <3> QED BY <3>1, Zenon
    <2>3. p = Least(s, lim)
      <3>1. Begins(t, u, lim) /\ key.eword \in Nat
        BY <1>2
      <3> HIDE DEF lim
      <3>2. Fields(tab, t, lim, key.eword, over)
              = Least(FieldStart(tab, u, key.eword + 1), lim)
        <4>1. over \/ tab = NoTab
          BY <2>1
        <4> QED BY <3>1, <4>1, FieldsAreStarts, SMTT(30)
      <3>3. k.e = key.eword + 1
        BY <1>2
      <3> QED BY <2>2, <3>2, <3>3, Zenon
    <2>4. s \in 0 .. Len(u)
      BY <1>1, <1>2, FieldStartIs
    <2>5. x \in 0 .. Len(u)
      <3> HIDE DEF s
      <3>1. AfterBlanks(u, s) \in s .. Len(u)
        BY <1>1, <2>4, AfterBlanksIs
      <3> QED BY <1>1, <2>4, <3>1
    <2>6. (IF key.skipeblanks THEN PastBlanks(t, p, lim) ELSE p) = Least(x, lim)
      <3> HIDE DEF s, p, lim
      <3>1. PastBlanks(t, p, lim) = Least(AfterBlanks(u, s), lim)
        BY <2>3, <2>4, BlanksPassed DEF lim
      <3> QED BY <1>2, <2>3, <3>1
    <2>7. LimField(tab, t, len, key) = Least(lim, c + Least(x, lim))
      <3>1. LimField(tab, t, len, key)
              = Least(lim, c + IF key.skipeblanks THEN PastBlanks(t, p, lim) ELSE p)
        BY <1>4, Zenon DEF LimField
      <3> HIDE DEF lim, p, x, c
      <3> QED BY <2>6, <3>1
    <2>8. KeyEnd(tab, u, k) = IF c + x > Len(u) THEN Len(u) ELSE c + x
      <3>1. KeyEnd(tab, u, k)
              = InLine(u, k.d + IF k.eb THEN AfterBlanks(u, s) ELSE s)
        BY <1>2, <1>4 DEF KeyEnd
      <3> HIDE DEF s, c
      <3>2. KeyEnd(tab, u, k) = InLine(u, c + x)
        BY <1>2, <3>1
      <3> HIDE DEF x
      <3> QED BY <3>2 DEF InLine
    <2>9. x \in Nat /\ c \in Nat
      BY <1>2, <2>5
    <2> HIDE DEF x, c, lim
    <2>10. KeyEnd(tab, u, k) \in 0 .. Len(u)
      BY <1>1, <2>8, <2>9
    <2>11. Least(lim, c + Least(x, lim))
             = Least(IF c + x > Len(u) THEN Len(u) ELSE c + x, lim)
      BY <1>1, <2>9, LeastOfSum
    <2> QED BY <2>7, <2>8, <2>10, <2>11 DEF lim
  <1> QED BY <1>3, <1>4

-----------------------------------------------------------------------------
(* The keys that are converted.                                            *)

ConvertedOf(ks) == {k \in 1 .. Len(ks) : Converted(ks[k])}

LEMMA ConvertedAre ==
  ASSUME NEW ks, Len(ks) \in Nat
  PROVE  LET S == ConvertedOf(ks)
         IN  /\ S \in SUBSET Nat /\ IsFiniteSet(S) /\ S \in SUBSET (0 .. Len(ks))
             /\ \A k \in S : k \in 1 .. Len(ks)
             /\ Cardinality(S) \in Nat
             /\ Below(S, Len(ks) + 1) = S
PROOF
  <1> DEFINE S == ConvertedOf(ks)
  <1>1. \A k \in S : k \in 1 .. Len(ks)
    BY DEF ConvertedOf
  <1> HIDE DEF S
  <1>2. IsFiniteSet(1 .. Len(ks))
    <2>1. 1 \in Int /\ Len(ks) \in Int
      OBVIOUS
    <2> QED BY <2>1, FS_Interval
  <1>3. IsFiniteSet(S)
    BY <1>1, <1>2, FS_Subset
  <1>4. \A k \in S : k \in Nat /\ k \in 0 .. Len(ks) /\ k < Len(ks) + 1
    BY <1>1
  <1>5. Below(S, Len(ks) + 1) = S
    BY <1>4 DEF Below
  <1> QED BY <1>1, <1>3, <1>4, <1>5, FS_CardinalityType DEF S

(* The loop of insert_decorate_key.                                        *)
SavedBy(f, ks, m) ==
  f = [i \in 0 .. m |-> IF i = 0 THEN << >>
                        ELSE IF Converted(ks[i]) THEN Append(f[i - 1], ks[i])
                        ELSE f[i - 1]]

LEMMA SavedExists ==
  ASSUME NEW ks, NEW m \in Nat
  PROVE  \E f : SavedBy(f, ks, m)
PROOF
  <1> DEFINE Made(k) == \E f : SavedBy(f, ks, k)
             Bad == {k \in Nat : ~Made(k)}
             Next1(i, s) == IF Converted(ks[i]) THEN Append(s, ks[i]) ELSE s
  <1> SUFFICES ASSUME ~Made(m) PROVE FALSE
    OBVIOUS
  <1>1. PICK k \in Bad : \A j \in Bad : k <= j
    <2>1. Bad \in SUBSET Nat /\ Bad # {}
      OBVIOUS
    <2> HIDE DEF Bad
    <2> QED BY <2>1, LeastNumber
  <1>2. k \in Nat /\ ~Made(k)
    BY <1>1
  <1>3. k # 0
    <2> DEFINE z == [i \in 0 .. 0 |-> << >>]
    <2>1. z = [i \in 0 .. 0 |-> z[i]]
          /\ \A i \in 0 .. 0 : z[i] = IF i = 0 THEN << >> ELSE Next1(i, z[i - 1])
      <3> HIDE DEF Next1
      <3> QED OBVIOUS
    <2> HIDE DEF z
    <2>2. SavedBy(z, ks, 0)
      BY <2>1 DEF SavedBy
    <2> QED BY <1>2, <2>2
  <1>4. k - 1 \in Nat /\ k - 1 \notin Bad
    <2> HIDE DEF Made
    <2> QED BY <1>1, <1>2, <1>3
  <1>5. PICK f : SavedBy(f, ks, k - 1)
    BY <1>4
  <1> DEFINE g == [i \in 0 .. k |-> IF i < k THEN f[i] ELSE Next1(i, f[i - 1])]
  <1>6. ASSUME NEW i \in 0 .. k
        PROVE  g[i] = IF i = 0 THEN << >> ELSE Next1(i, g[i - 1])
    <2>1. CASE i = k
      <3>1. k - 1 \in 0 .. k /\ k - 1 < k
        BY <1>2, <1>3
      <3> HIDE DEF Next1
      <3> QED BY <1>3, <2>1, <3>1
    <2>2. CASE i # k
      <3>1. i \in 0 .. k - 1 /\ i < k
        BY <1>2, <2>2
      <3>2. i # 0 => i - 1 \in 0 .. k /\ i - 1 < k
        BY <1>2, <3>1
      <3>3. f[i] = IF i = 0 THEN << >> ELSE Next1(i, f[i - 1])
        BY <1>5, <3>1, Zenon DEF SavedBy
      <3> HIDE DEF Next1
      <3> QED BY <3>1, <3>2, <3>3
    <2> QED BY <2>1, <2>2
  <1>7. g = [i \in 0 .. k |-> g[i]]
    OBVIOUS
  <1> HIDE DEF g
  <1>8. SavedBy(g, ks, k)
    BY <1>6, <1>7 DEF SavedBy
  <1> QED BY <1>2, <1>8

(* The converted keys among the first n stand at their places.             *)
Kept(ks, n, s) ==
  /\ Len(s) = Cardinality(Below(ConvertedOf(ks), n + 1))
  /\ \A k \in ConvertedOf(ks) :
       k <= n => s[Cardinality(Below(ConvertedOf(ks), k)) + 1] = ks[k]

LEMMA SavedKept ==
  ASSUME NEW T, NEW ks \in Seq(T), NEW n \in 0 .. Len(ks)
  PROVE  Saved(ks, n) \in Seq(T) /\ Kept(ks, n, Saved(ks, n))
PROOF
  <1> DEFINE S == ConvertedOf(ks)
             F == CHOOSE f : SavedBy(f, ks, n)
             Good(i) == F[i] \in Seq(T) /\ Kept(ks, i, F[i])
             Bad == {i \in 0 .. n : ~Good(i)}
  <1>0. Len(ks) \in Nat /\ n \in Nat
    OBVIOUS
  <1>1. SavedBy(F, ks, n)
    BY <1>0, SavedExists
  <1>2. Saved(ks, n) = F[n]
    BY DEF Saved, SavedBy
  <1>3. /\ S \in SUBSET Nat /\ IsFiniteSet(S)
        /\ \A k \in S : k \in 1 .. Len(ks) /\ k \in Int
    BY <1>0, ConvertedAre
  <1>4. \A i \in 0 .. n : F[i] = IF i = 0 THEN << >>
                                 ELSE IF Converted(ks[i]) THEN Append(F[i - 1], ks[i])
                                 ELSE F[i - 1]
    <2> HIDE DEF F
    <2> QED BY <1>1, Zenon DEF SavedBy
  <1> HIDE DEF F
  <1> SUFFICES ASSUME Bad # {} PROVE FALSE
    <2>1. n \in 0 .. n
      BY <1>0
    <2>2. Good(n)
      BY <2>1
    <2> QED BY <1>2, <2>2
  <1>5. PICK i \in Bad : \A j \in Bad : i <= j
    <2>1. Bad \in SUBSET Nat
      OBVIOUS
    <2> HIDE DEF Bad
    <2> QED BY <2>1, LeastNumber
  <1>6. i \in 0 .. n /\ ~Good(i)
    BY <1>5
  <1>7. i # 0
    <2> SUFFICES ASSUME i = 0 PROVE FALSE
      OBVIOUS
    <2>1. F[0] = << >>
      BY <1>4, <1>6
    <2>2. \A k \in S : ~(k < 0 + 1) /\ ~(k <= 0)
      BY <1>3
    <2>3. Below(S, 0 + 1) = {}
      <3> HIDE DEF S
      <3> QED BY <2>2 DEF Below
    <2>4. Cardinality(Below(S, 0 + 1)) = 0
      BY <2>3, FS_EmptySet
    <2>5. Kept(ks, 0, << >>)
      BY <2>2, <2>4 DEF Kept
    <2> QED BY <1>6, <2>1, <2>5
  <1>8. /\ i - 1 \in 0 .. n /\ i - 1 \notin Bad /\ i \in 1 .. Len(ks)
        /\ i - 1 \in Nat /\ (i - 1) + 1 = i
    <2> HIDE DEF Bad
    <2> QED BY <1>5, <1>6, <1>7
  <1>9. PICK s : s = F[i - 1]
    OBVIOUS
  <1>10. s \in Seq(T) /\ Kept(ks, i - 1, s)
    BY <1>8, <1>9
  <1>11. F[i] = IF Converted(ks[i]) THEN Append(s, ks[i]) ELSE s
    BY <1>4, <1>6, <1>7, <1>9
  <1>12. /\ Len(s) = Cardinality(Below(S, i))
         /\ \A k \in S : k <= i - 1 => s[Cardinality(Below(S, k)) + 1] = ks[k]
    BY <1>8, <1>10 DEF Kept
  <1>13. ks[i] \in T
    BY <1>8
  <1>14. CASE Converted(ks[i])
    <2>1. i \in S
      BY <1>8, <1>14 DEF ConvertedOf
    <2>2. \A r \in S : ~(i < r /\ r < i + 1)
      BY <1>3, <1>8
    <2>3. Cardinality(Below(S, i + 1)) = Cardinality(Below(S, i)) + 1
      <3> HIDE DEF S
      <3> QED BY <1>3, <1>8, <2>1, <2>2, BelowNext
    <2> DEFINE w == Append(s, ks[i])
    <2>4. /\ w \in Seq(T) /\ Len(w) = Len(s) + 1 /\ w[Len(s) + 1] = ks[i]
          /\ \A m \in 1 .. Len(s) : w[m] = s[m]
      BY <1>10, <1>13
    <2>5. ASSUME NEW k \in S, k <= i
          PROVE  w[Cardinality(Below(S, k)) + 1] = ks[k]
      <3>1. CASE k = i
        BY <1>12, <2>4, <3>1
      <3>2. CASE k # i
        <4> HIDE DEF S, w
        <4>1. k <= i - 1 /\ k < i
          BY <1>3, <1>8, <2>5, <3>2
        <4>2. /\ Cardinality(Below(S, k)) + 1 <= Cardinality(Below(S, i))
              /\ Cardinality(Below(S, k)) \in Nat
          BY <1>3, <1>8, <4>1, BelowLess, BelowSize
        <4>3. Cardinality(Below(S, k)) + 1 \in 1 .. Len(s)
          BY <1>10, <1>12, <4>2
        <4> QED BY <1>12, <2>4, <4>1, <4>3
      <3> QED BY <3>1, <3>2
    <2>6. Kept(ks, i, w)
      <3> HIDE DEF w
      <3> QED BY <1>12, <2>3, <2>4, <2>5 DEF Kept
    <2> QED BY <1>6, <1>11, <1>14, <2>4, <2>6
  <1>15. CASE ~Converted(ks[i])
    <2>1. i \notin S
      BY <1>15 DEF ConvertedOf
    <2>2. \A k \in S : (k < i + 1 <=> k < i) /\ (k <= i => k <= i - 1)
      <3> HIDE DEF S
      <3> QED BY <1>3, <1>8, <2>1
    <2>3. Below(S, i + 1) = Below(S, i)
      <3> HIDE DEF S
      <3> QED BY <2>2 DEF Below
    <2>4. Kept(ks, i, s)
      BY <1>12, <2>2, <2>3 DEF Kept
    <2> QED BY <1>6, <1>10, <1>11, <1>15, <2>4
  <1> QED BY <1>14, <1>15

LEMMA CountIs ==
  ASSUME NEW T, NEW ks \in Seq(T)
  PROVE  /\ Saved(ks, Len(ks)) \in Seq(T)
         /\ Count(ks) = Cardinality(ConvertedOf(ks))
         /\ \A k \in ConvertedOf(ks) :
              /\ Before(ks, k) = Cardinality(Below(ConvertedOf(ks), k))
              /\ Saved(ks, Len(ks))[Before(ks, k) + 1] = ks[k]
PROOF
  <1> DEFINE S == ConvertedOf(ks)
  <1>1. Len(ks) \in Nat /\ Len(ks) \in 0 .. Len(ks)
    OBVIOUS
  <1>2. Below(S, Len(ks) + 1) = S /\ \A k \in S : k \in 1 .. Len(ks)
    BY <1>1, ConvertedAre
  <1>3. Saved(ks, Len(ks)) \in Seq(T) /\ Kept(ks, Len(ks), Saved(ks, Len(ks)))
    BY <1>1, SavedKept
  <1>4. Count(ks) = Cardinality(S)
    BY <1>2, <1>3 DEF Kept, Count
  <1>5. ASSUME NEW k \in S
        PROVE  /\ Before(ks, k) = Cardinality(Below(S, k))
               /\ Saved(ks, Len(ks))[Before(ks, k) + 1] = ks[k]
    <2>1. k - 1 \in 0 .. Len(ks) /\ (k - 1) + 1 = k /\ k <= Len(ks)
      BY <1>1, <1>2
    <2>2. Kept(ks, k - 1, Saved(ks, k - 1))
      BY <2>1, SavedKept
    <2>3. Before(ks, k) = Cardinality(Below(S, k))
      BY <2>1, <2>2 DEF Kept, Before
    <2> QED BY <1>3, <2>1, <2>3 DEF Kept
  <1> QED BY <1>3, <1>4, <1>5

-----------------------------------------------------------------------------
(* The keys of a command line, and what they mean.                         *)

Given(j) == [i \in 1 .. Len(j.keys) |-> KeyOf(j.keys[i])]

AskedIn(j, i) == [j.keys[i] EXCEPT !.c = IF @ = Absent THEN 1 ELSE @]

ConvertedIn(j) == {i \in DOMAIN j.keys : j.keys[i].conv # AsText}

WantedIn(j, i) ==
  LET k == CHOOSE k \in ConvertedIn(j) :
             Cardinality({h \in ConvertedIn(j) : h < k}) = i - 1
  IN  [AskedIn(j, k) EXCEPT !.b = TRUE, !.eb = TRUE]

Valid(j) == \A i \in 1 .. Len(j.keys) : ~BadPosition(j.keys[i])

LEMMA WantedUnfolds == \A i : Wanted(i) = WantedIn(job, i)
  BY DEF Wanted, WantedIn, ConvertedKeys, ConvertedIn, Asked, AskedIn

LEMMA KeyMeans ==
  ASSUME NEW arg \in KeyType, ~BadPosition(arg),
         NEW key, key = [KeyOf(arg) EXCEPT !.skipsblanks = TRUE, !.skipeblanks = TRUE],
         NEW k, k = [[arg EXCEPT !.c = IF @ = Absent THEN 1 ELSE @]
                       EXCEPT !.b = TRUE, !.eb = TRUE]
  PROVE  /\ Means(key, k) /\ key.conv = arg.conv /\ k.conv = arg.conv
         /\ k.e = Absent <=> key.eword = SizeMax
PROOF
  <1>1. SizeMax \in Nat /\ SizeMax # 0
    BY DecorateKeysAssumption
  <1>2. /\ arg.f \in 1 .. SizeMax
        /\ arg.c = Absent \/ arg.c \in 1 .. SizeMax
        /\ arg.e = Absent \/ arg.e \in 1 .. SizeMax
        /\ arg.d \in 0 .. SizeMax
    BY <1>1 DEF KeyType, BadPosition
  <1>3. /\ key.sword = Pred(arg.f)
        /\ key.schar = IF arg.c = Absent THEN 0 ELSE Pred(arg.c)
        /\ key.eword = IF arg.e = Absent THEN SizeMax ELSE Pred(arg.e)
        /\ key.echar = IF arg.e = Absent THEN 0 ELSE arg.d
        /\ key.conv = arg.conv
    BY DEF KeyOf
  <1>4. key.skipsblanks = TRUE /\ key.skipeblanks = TRUE
    BY DEF KeyOf
  <1>5. /\ k.f = arg.f /\ k.e = arg.e /\ k.d = arg.d /\ k.conv = arg.conv
        /\ k.c = IF arg.c = Absent THEN 1 ELSE arg.c
    BY DEF KeyType
  <1>6. k.b = TRUE /\ k.eb = TRUE
    BY DEF KeyType
  <1>7. /\ key.sword \in Nat /\ k.f = key.sword + 1
    BY <1>1, <1>2, <1>3, <1>5 DEF Pred
  <1>8. /\ key.schar \in Nat /\ k.c = key.schar + 1
    BY <1>1, <1>2, <1>3, <1>5 DEF Pred, Absent, None
  <1>9. key.skipsblanks \in BOOLEAN /\ k.b = key.skipsblanks
    BY <1>4, <1>6, Zenon
  <1>10. key.skipeblanks \in BOOLEAN /\ k.eb = key.skipeblanks
    BY <1>4, <1>6, Zenon
  <1>11. CASE arg.e = Absent
    <2>1. key.eword = SizeMax /\ key.echar = 0 /\ k.e = Absent
      BY <1>3, <1>5, <1>11
    <2> QED BY <1>3, <1>5, <1>7, <1>8, <1>9, <2>1, Zenon DEF Means, Absent
  <1>12. CASE arg.e # Absent
    <2>1. key.eword = arg.e - 1 /\ key.echar = arg.d /\ arg.e \in 1 .. SizeMax
      BY <1>2, <1>3, <1>12 DEF Pred
    <2>2. key.eword \in 0 .. SizeMax - 1 /\ key.echar \in Nat
      BY <1>1, <1>2, <2>1
    <2>3. k.e = key.eword + 1 /\ k.d = key.echar
      BY <1>1, <1>5, <2>1
    <2>4. key.eword # SizeMax
      BY <1>1, <2>2
    <2> QED BY <1>3, <1>5, <1>7, <1>8, <1>9, <1>10, <1>12, <2>2, <2>3, <2>4, Zenon
            DEF Means
  <1> QED BY <1>11, <1>12

LEMMA GivenIs ==
  ASSUME NEW j \in Jobs
  PROVE  /\ j.keys \in Seq(KeyType) /\ Len(j.keys) \in Nat \ {0}
         /\ Given(j) \in Seq({KeyOf(a) : a \in KeyType})
         /\ Len(Given(j)) = Len(j.keys)
         /\ \A i \in 1 .. Len(j.keys) : /\ j.keys[i] \in KeyType
                                        /\ Given(j)[i] = KeyOf(j.keys[i])
         /\ ConvertedOf(Given(j)) = ConvertedIn(j)
PROOF
  <1>1. j.keys \in Seq(KeyType) /\ j.keys # << >>
    BY DecorateKeysAssumption
  <1>2. Len(j.keys) \in Nat \ {0} /\ DOMAIN j.keys = 1 .. Len(j.keys)
        /\ \A i \in 1 .. Len(j.keys) : j.keys[i] \in KeyType
    BY <1>1
  <1>3. /\ Given(j) \in Seq({KeyOf(a) : a \in KeyType})
        /\ Len(Given(j)) = Len(j.keys)
        /\ \A i \in 1 .. Len(j.keys) : Given(j)[i] = KeyOf(j.keys[i])
    <2>1. \A i \in 1 .. Len(j.keys) : KeyOf(j.keys[i]) \in {KeyOf(a) : a \in KeyType}
      BY <1>2
    <2> QED BY <1>2, <2>1 DEF Given
  <1>4. ASSUME NEW i \in 1 .. Len(j.keys)
        PROVE  Converted(Given(j)[i]) <=> j.keys[i].conv # AsText
    <2>1. Given(j)[i] = KeyOf(j.keys[i])
      BY <1>3
    <2>2. KeyOf(j.keys[i]).conv = j.keys[i].conv
      BY DEF KeyOf
    <2> QED BY <2>1, <2>2, Zenon DEF Converted
  <1>5. ConvertedOf(Given(j)) = ConvertedIn(j)
    BY <1>2, <1>3, <1>4 DEF ConvertedOf, ConvertedIn
  <1> QED BY <1>1, <1>2, <1>3, <1>5

(* The i-th key that is converted.                                         *)
LEMMA WantedIs ==
  ASSUME NEW j \in Jobs, Valid(j)
  PROVE  LET keys == ToConvert(Given(j))
         IN  /\ DOMAIN keys = 1 .. Count(Given(j)) /\ Count(Given(j)) \in Nat
             /\ Len(keys) = Count(Given(j))
             /\ \A i \in 1 .. Count(Given(j)) :
                  \E k \in ConvertedIn(j) :
                    /\ Before(Given(j), k) = i - 1
                    /\ WantedIn(j, i) = [AskedIn(j, k) EXCEPT !.b = TRUE, !.eb = TRUE]
                    /\ keys[i] = [Given(j)[k] EXCEPT !.skipsblanks = TRUE,
                                                     !.skipeblanks = TRUE]
                    /\ Means(keys[i], WantedIn(j, i))
                    /\ keys[i].conv = WantedIn(j, i).conv
                    /\ keys[i].conv = j.keys[k].conv
                    /\ WantedIn(j, i).e = Absent <=> keys[i].eword = SizeMax
PROOF
  <1> DEFINE ks == Given(j)
             S == ConvertedIn(j)
             saved == Saved(ks, Len(ks))
             keys == ToConvert(ks)
  <1>1. /\ ks \in Seq({KeyOf(a) : a \in KeyType}) /\ Len(ks) \in Nat
        /\ Len(ks) = Len(j.keys)
        /\ S = ConvertedOf(ks)
        /\ \A i \in 1 .. Len(j.keys) : j.keys[i] \in KeyType /\ ks[i] = KeyOf(j.keys[i])
    BY GivenIs
  <1>2. /\ saved \in Seq({KeyOf(a) : a \in KeyType})
        /\ Count(ks) = Cardinality(S)
        /\ \A k \in S : /\ Before(ks, k) = Cardinality(Below(S, k))
                        /\ saved[Before(ks, k) + 1] = ks[k]
    <2> HIDE DEF ks, S
    <2> QED BY <1>1, CountIs
  <1>3. /\ S \in SUBSET Nat /\ IsFiniteSet(S) /\ S \in SUBSET (0 .. Len(ks))
        /\ Cardinality(S) \in Nat /\ \A k \in S : k \in 1 .. Len(ks)
    <2> HIDE DEF ks, S
    <2> QED BY <1>1, ConvertedAre
  <1>4. Len(saved) = Count(ks)
    BY DEF Count
  <1>5. /\ DOMAIN keys = 1 .. Count(ks) /\ Count(ks) \in Nat
        /\ Len(keys) = Count(ks)
    <2> DEFINE Blanks(i) == [saved[i] EXCEPT !.skipsblanks = TRUE, !.skipeblanks = TRUE]
    <2>1. keys = [i \in DOMAIN saved |-> Blanks(i)]
      BY DEF ToConvert
    <2>2. DOMAIN saved = 1 .. Count(ks) /\ Count(ks) \in Nat
      <3> HIDE DEF ks, saved, keys, S, Blanks
      <3> QED BY <1>2, <1>3, <1>4
    <2> HIDE DEF ks, saved, keys, S, Blanks
    <2>3. keys = [i \in 1 .. Count(ks) |-> Blanks(i)]
      BY <2>1, <2>2
    <2> QED BY <2>2, <2>3
  <1>7. ASSUME NEW i \in 1 .. Count(ks)
        PROVE  \E k \in S :
                    /\ Before(ks, k) = i - 1
                    /\ WantedIn(j, i) = [AskedIn(j, k) EXCEPT !.b = TRUE, !.eb = TRUE]
                    /\ keys[i] = [ks[k] EXCEPT !.skipsblanks = TRUE,
                                               !.skipeblanks = TRUE]
                    /\ Means(keys[i], WantedIn(j, i))
                    /\ keys[i].conv = WantedIn(j, i).conv
                    /\ keys[i].conv = j.keys[k].conv
                    /\ WantedIn(j, i).e = Absent <=> keys[i].eword = SizeMax
    <2>1. i - 1 \in Nat /\ i - 1 < Cardinality(S)
      <3> HIDE DEF ks, S
      <3> QED BY <1>2, <1>3
    <2>2. PICK k \in S : Cardinality(Below(S, k)) = i - 1
      <3> HIDE DEF ks, S
      <3> QED BY <1>1, <1>3, <2>1, PlaceExists
    <2>3. k \in 1 .. Len(j.keys)
      <3> HIDE DEF ks, S
      <3> QED BY <1>1, <1>3
    <2>4. (CHOOSE r \in S : Cardinality(Below(S, r)) = Cardinality(Below(S, k))) = k
      <3> HIDE DEF S
      <3> QED BY <1>3, AtPlace
    <2>5. WantedIn(j, i) = [AskedIn(j, k) EXCEPT !.b = TRUE, !.eb = TRUE]
      <3>1. WantedIn(j, i)
              = [AskedIn(j, CHOOSE r \in S : Cardinality(Below(S, r)) = i - 1)
                   EXCEPT !.b = TRUE, !.eb = TRUE]
        BY DEF WantedIn, Below
      <3>2. (CHOOSE r \in S : Cardinality(Below(S, r)) = i - 1) = k
        <4> HIDE DEF S
        <4> QED BY <2>2, <2>4
      <3> QED BY <3>1, <3>2, Zenon
    <2>6. Before(ks, k) = i - 1 /\ saved[i] = ks[k]
      <3>1. Before(ks, k) = i - 1 /\ saved[(i - 1) + 1] = ks[k]
        <4> HIDE DEF ks, S, saved
        <4> QED BY <1>2, <2>2
      <3>2. (i - 1) + 1 = i
        OBVIOUS
      <3> HIDE DEF ks, S, saved
      <3> QED BY <3>1, <3>2
    <2>7. keys[i] = [ks[k] EXCEPT !.skipsblanks = TRUE, !.skipeblanks = TRUE]
      <3>1. keys = [m \in DOMAIN saved |-> [saved[m] EXCEPT !.skipsblanks = TRUE,
                                                           !.skipeblanks = TRUE]]
        BY DEF ToConvert
      <3>2. i \in DOMAIN saved
        <4> HIDE DEF ks, S, saved, keys
        <4> QED BY <1>2, <1>4
      <3> HIDE DEF ks, S, saved, keys
      <3> QED BY <2>6, <3>1, <3>2
    <2>8. ks[k] = KeyOf(j.keys[k]) /\ j.keys[k] \in KeyType /\ ~BadPosition(j.keys[k])
      BY <1>1, <2>3 DEF Valid
    <2> HIDE DEF ks, keys, S
    <2>9. /\ Means(keys[i], WantedIn(j, i)) /\ keys[i].conv = j.keys[k].conv
          /\ WantedIn(j, i).conv = j.keys[k].conv
          /\ WantedIn(j, i).e = Absent <=> keys[i].eword = SizeMax
      <3>1. keys[i] = [KeyOf(j.keys[k]) EXCEPT !.skipsblanks = TRUE, !.skipeblanks = TRUE]
        BY <2>7, <2>8, Zenon
      <3>2. WantedIn(j, i) = [[j.keys[k] EXCEPT !.c = IF @ = Absent THEN 1 ELSE @]
                                EXCEPT !.b = TRUE, !.eb = TRUE]
        BY <2>5, Zenon DEF AskedIn
      <3> DEFINE arg == j.keys[k]
      <3>3. arg \in KeyType /\ ~BadPosition(arg)
        BY <2>8
      <3>4. \A key, w :
              /\ key = [KeyOf(arg) EXCEPT !.skipsblanks = TRUE, !.skipeblanks = TRUE]
              /\ w = [[arg EXCEPT !.c = IF @ = Absent THEN 1 ELSE @]
                         EXCEPT !.b = TRUE, !.eb = TRUE]
              => /\ Means(key, w) /\ key.conv = arg.conv /\ w.conv = arg.conv
                 /\ w.e = Absent <=> key.eword = SizeMax
        <4> HIDE DEF arg
        <4> QED BY <3>3, KeyMeans, ZenonT(60)
      <3> QED BY <3>1, <3>2, <3>4, Zenon
    <2> QED BY <2>5, <2>6, <2>7, <2>9
  <1> QED BY <1>5, <1>7

-----------------------------------------------------------------------------
(* What is cut from the line.                                              *)

LEMMA LineIs ==
  ASSUME line \in Lines
  PROVE  /\ line \in Seq(Range(line)) /\ EOL \notin Range(line)
         /\ Len(line) \in Nat /\ Len(Text) = Len(line) + 1
         /\ Text \in Seq(Range(line) \cup {EOL})
         /\ Text[Len(line) + 1] = EOL
         /\ \A m \in 0 .. Len(line) : Begins(Text, line, m)
PROOF
  <1>1. line \in Seq(Range(line)) /\ EOL \notin Range(line)
    BY DecorateKeysAssumption
  <1>2. Len(line) \in Nat
    BY <1>1
  <1>3. line \in Seq(Range(line) \cup {EOL})
    <2> DEFINE R == Range(line)
    <2>1. line \in Seq(R)
      BY <1>1
    <2> HIDE DEF R
    <2>2. line \in Seq(R \cup {EOL})
      BY <2>1
    <2> QED BY <2>2 DEF R
  <1>4. /\ Text \in Seq(Range(line) \cup {EOL}) /\ Len(Text) = Len(line) + 1
        /\ Text[Len(line) + 1] = EOL
        /\ \A r \in 1 .. Len(line) : Text[r] = line[r]
    <2> DEFINE C == Range(line) \cup {EOL}
    <2>1. line \in Seq(C) /\ EOL \in C
      BY <1>3
    <2> HIDE DEF C
    <2>2. /\ Text \in Seq(C) /\ Len(Text) = Len(line) + 1
          /\ Text[Len(line) + 1] = EOL
          /\ \A r \in 1 .. Len(line) : Text[r] = line[r]
      BY <2>1 DEF Text
    <2> QED BY <2>2 DEF C
  <1>5. ASSUME NEW m \in 0 .. Len(line)
        PROVE  Begins(Text, line, m)
    <2>1. \A r \in 0 .. m - 1 : Text[r + 1] = line[r + 1]
      BY <1>2, <1>4
    <2> QED BY <1>2, <1>4, <2>1 DEF Begins
  <1> QED BY <1>1, <1>2, <1>4, <1>5

LEMMA CutIs ==
  ASSUME line \in Lines, NEW beg \in 0 .. Len(line), NEW lim \in 0 .. Len(line)
  PROVE  Cut(beg, lim) = SubSeq(line, beg + 1, lim)
PROOF
  <1>1. /\ line \in Seq(Range(line)) /\ Len(line) \in Nat
        /\ Len(Text) = Len(line) + 1 /\ Text \in Seq(Range(line) \cup {EOL})
        /\ Begins(Text, line, Len(line))
    BY LineIs
  <1>2. \A r \in 1 .. Len(line) : Text[r] = line[r]
    <2>1. \A r \in 0 .. Len(line) - 1 : Text[r + 1] = line[r + 1]
      BY <1>1 DEF Begins
    <2>2. ASSUME NEW r \in 1 .. Len(line) PROVE Text[r] = line[r]
      <3>1. r - 1 \in 0 .. Len(line) - 1 /\ (r - 1) + 1 = r
        BY <1>1
      <3> QED BY <2>1, <3>1
    <2> QED BY <2>2
  <1> DEFINE t == Text
             l == line
             m == Most(beg, lim)
             a == SubSeq(t, beg + 1, m)
             b == SubSeq(l, beg + 1, lim)
  <1>3. m \in beg .. Len(line) /\ (beg <= lim => m = lim) /\ (lim <= beg => m = beg)
    BY <1>1 DEF Most
  <1>4. Cut(beg, lim) = a
    BY DEF Cut
  <1>5. CASE lim <= beg
    <2>1. a = << >>
      <3> HIDE DEF t, m
      <3> QED BY <1>1, <1>3, <1>5
    <2>2. b = << >>
      <3> HIDE DEF l
      <3> QED BY <1>1, <1>5
    <2> QED BY <1>4, <2>1, <2>2
  <1>6. CASE beg < lim
    <2>1. m = lim
      BY <1>3, <1>6
    <2>2. \A r \in beg + 1 .. lim : t[r] = l[r]
      BY <1>1, <1>2
    <2> DEFINE n == lim - beg
    <2>3. /\ a = [i \in 1 .. n |-> t[beg + i]]
          /\ b = [i \in 1 .. n |-> l[beg + i]]
      <3>1. n = (lim - (beg + 1)) + 1
        BY <1>1
      <3>2. \A i \in 1 .. n : ((beg + 1) + i) - 1 = beg + i
        BY <1>1
      <3> HIDE DEF t, l
      <3> QED BY <1>1, <2>1, <3>1, <3>2, <1>6
    <2>4. \A i \in 1 .. n : t[beg + i] = l[beg + i]
      <3>1. \A i \in 1 .. n : beg + i \in beg + 1 .. lim
        BY <1>1
      <3> HIDE DEF t, l, n
      <3> QED BY <2>2, <3>1
    <2> QED BY <1>4, <2>3, <2>4
  <1> QED BY <1>1, <1>5, <1>6

LEMMA NoLimit ==
  ASSUME NEW tab, NEW t, Len(t) \in Nat, NEW len, NEW key, key.eword = SizeMax,
         key.echar = 0
  PROVE  LimField(tab, t, len, key) = 0
PROOF
  <1>1. Plus(key.eword, 1) = 0
    <2>1. SizeMax \in Nat
      BY DecorateKeysAssumption
    <2> QED BY <2>1 DEF Plus
  <1> DEFINE lim == Most(len - 1, 0)
  <1>2. PICK over \in BOOLEAN : over = (key.echar # 0)
    OBVIOUS
  <1>3. LimField(tab, t, len, key) = Fields(tab, t, lim, 0, over)
    <2>1. LimField(tab, t, len, key)
            = Fields(tab, t, lim, Plus(key.eword, 1), key.echar # 0)
      BY Zenon DEF LimField
    <2> QED BY <1>1, <1>2, <2>1, Zenon
  <1>4. Least(0, Len(t)) = 0
    BY DEF Least
  <1>5. \E f : Steps(f, tab, t, lim, 0, over, 0) /\ Fields(tab, t, lim, 0, over) = f[0]
    <2>1. 0 \in Nat
      OBVIOUS
    <2> HIDE DEF lim
    <2>2. \E f : /\ Steps(f, tab, t, lim, 0, over, Least(0, Len(t)))
                 /\ Fields(tab, t, lim, 0, over) = f[Least(0, Len(t))]
      BY <2>1, FieldsIs
    <2> QED BY <1>4, <2>2
  <1> HIDE DEF lim
  <1>6. PICK f : Steps(f, tab, t, lim, 0, over, 0) /\ Fields(tab, t, lim, 0, over) = f[0]
    BY <1>5
  <1>7. f[0] = 0
    <2>1. 0 \in 0 .. 0
      OBVIOUS
    <2> QED BY <1>6, <2>1, Zenon DEF Steps
  <1> QED BY <1>3, <1>6, <1>7

(* Where the text of a key lies in the line.                               *)
LEMMA KeyLies ==
  ASSUME line \in Lines, NEW tab, NEW key, NEW k, Means(key, k)
  PROVE  /\ KeyStart(tab, line, k) \in 0 .. Len(line)
         /\ KeyEnd(tab, line, k) \in 0 .. Len(line)
         /\ k.e = Absent <=> key.eword = SizeMax
         /\ k.e = Absent => KeyEnd(tab, line, k) = Len(line)
PROOF
  <1>1. /\ Len(line) \in Nat /\ Begins(Text, line, Len(line))
        /\ Len(line) + 1 \in Nat
    <2>1. Len(line) \in Nat
      BY LineIs
    <2>2. Len(line) \in 0 .. Len(line)
      BY <2>1
    <2> QED BY <2>1, <2>2, LineIs
  <1>2. Most((Len(line) + 1) - 1, 0) = Len(line)
    BY <1>1 DEF Most
  <1>3. Begins(Text, line, Most((Len(line) + 1) - 1, 0))
    BY <1>1, <1>2
  <1>4. KeyStart(tab, line, k) \in 0 .. Len(line)
    BY <1>1, <1>3, BegFieldIs
  <1>5. k.e = Absent <=> key.eword = SizeMax
    BY DecorateKeysAssumption DEF Means, Absent, None
  <1>6. CASE key.eword = SizeMax
    <2>1. KeyEnd(tab, line, k) = Len(line)
      BY <1>5, <1>6 DEF KeyEnd, Absent
    <2> QED BY <1>1, <1>4, <1>5, <2>1
  <1>7. CASE key.eword # SizeMax
    <2>1. KeyEnd(tab, line, k) \in 0 .. Len(line)
      BY <1>1, <1>3, <1>7, LimFieldIs
    <2> QED BY <1>4, <1>5, <1>7, <2>1
  <1> QED BY <1>6, <1>7

(* The first key.                                                          *)
LEMMA FirstText ==
  ASSUME line \in Lines, NEW key, NEW k, Means(key, k), NEW tab
  PROVE  LET beg == BegField(tab, Text, Len(line) + 1, key)
             lim == LimField(tab, Text, Len(line) + 1, key)
         IN  /\ beg < lim => Cut(beg, lim) = KeyText(tab, line, k)
             /\ beg >= lim =>
                  IF k.e = Absent THEN Cut(beg, Len(line)) = KeyText(tab, line, k)
                  ELSE KeyText(tab, line, k) = << >>
             /\ beg \in 0 .. Len(line) /\ lim \in 0 .. Len(line)
PROOF
  <1> DEFINE beg == BegField(tab, Text, Len(line) + 1, key)
             lim == LimField(tab, Text, Len(line) + 1, key)
             start == KeyStart(tab, line, k)
             end == KeyEnd(tab, line, k)
  <1>1. /\ Len(line) \in Nat /\ Len(line) + 1 \in Nat /\ Begins(Text, line, Len(line))
        /\ line \in Seq(Range(line)) /\ Len(Text) \in Nat
    <2>1. Len(line) \in Nat /\ line \in Seq(Range(line)) /\ Len(Text) = Len(line) + 1
      BY LineIs
    <2>2. Len(line) \in 0 .. Len(line)
      BY <2>1
    <2> QED BY <2>1, <2>2, LineIs
  <1>2. Most((Len(line) + 1) - 1, 0) = Len(line)
    BY <1>1 DEF Most
  <1>3. Begins(Text, line, Most((Len(line) + 1) - 1, 0))
    BY <1>1, <1>2
  <1>4. /\ start \in 0 .. Len(line) /\ end \in 0 .. Len(line)
        /\ k.e = Absent <=> key.eword = SizeMax
        /\ k.e = Absent => end = Len(line)
    BY KeyLies
  <1>5. beg = start
    <2>1. beg = Least(start, Len(line))
      BY <1>1, <1>2, <1>3, BegFieldIs
    <2> HIDE DEF beg, start
    <2> QED BY <1>1, <1>4, <2>1, LeastIs
  <1>6. KeyText(tab, line, k) = SubSeq(line, start + 1, end)
    BY DEF KeyText
  <1>7. CASE k.e = Absent
    <2>1. lim = 0
      <3>1. key.eword = SizeMax /\ key.echar = 0
        BY <1>4, <1>7 DEF Means
      <3> QED BY <1>1, <3>1, NoLimit
    <2>2. Len(line) \in 0 .. Len(line)
      BY <1>1
    <2> HIDE DEF beg, lim, start, end
    <2>3. Cut(beg, Len(line)) = SubSeq(line, start + 1, end)
      BY <1>4, <1>5, <1>7, <2>2, CutIs
    <2>4. beg >= lim /\ ~(beg < lim) /\ lim \in 0 .. Len(line)
      BY <1>1, <1>4, <1>5, <2>1
    <2> QED BY <1>4, <1>5, <1>6, <1>7, <2>3, <2>4 DEF beg, lim
  <1>8. CASE k.e # Absent
    <2>1. lim = end
      <3>1. lim = Least(end, Len(line))
        <4>1. key.eword # SizeMax
          BY <1>4, <1>8
        <4>2. LimField(tab, Text, Len(line) + 1, key)
                = Least(KeyEnd(tab, line, k), Most((Len(line) + 1) - 1, 0))
          <5>1. PICK len : len = Len(line) + 1
            OBVIOUS
          <5>2. len \in Nat /\ Begins(Text, line, Most(len - 1, 0))
            BY <1>1, <1>3, <5>1
          <5>3. LimField(tab, Text, len, key)
                  = Least(KeyEnd(tab, line, k), Most(len - 1, 0))
            BY <4>1, <5>2, LimFieldIs
          <5> QED BY <5>1, <5>3
        <4> QED BY <1>2, <4>2, Zenon
      <3> HIDE DEF lim, end
      <3> QED BY <1>1, <1>4, <3>1, LeastIs
    <2> HIDE DEF beg, lim, start, end
    <2>2. Cut(beg, lim) = SubSeq(line, start + 1, end)
      BY <1>4, <1>5, <2>1, CutIs
    <2>3. beg >= lim => SubSeq(line, start + 1, end) = << >>
      BY <1>1, <1>4, <1>5, <2>1
    <2> QED BY <1>4, <1>5, <1>6, <1>8, <2>1, <2>2, <2>3 DEF beg, lim
  <1> QED BY <1>7, <1>8

(* A later key.                                                            *)
LEMMA NextText ==
  ASSUME line \in Lines, NEW key, NEW k, Means(key, k), NEW tab,
         NEW len \in {Len(line), Len(line) + 1},
         len = Len(line) => KeyEnd(tab, line, k) # Len(line)
  PROVE  Cut(BegField(tab, Text, len, key),
             IF key.eword = SizeMax THEN len - 1 ELSE LimField(tab, Text, len, key))
           = KeyText(tab, line, k)
PROOF
  <1> DEFINE beg == BegField(tab, Text, len, key)
             lim == IF key.eword = SizeMax THEN len - 1
                    ELSE LimField(tab, Text, len, key)
             start == KeyStart(tab, line, k)
             end == KeyEnd(tab, line, k)
             m == Most(len - 1, 0)
  <1>1. /\ Len(line) \in Nat /\ Len(line) + 1 \in Nat
        /\ line \in Seq(Range(line))
        /\ \A n \in 0 .. Len(line) : Begins(Text, line, n)
    <2>1. Len(line) \in Nat /\ line \in Seq(Range(line))
      BY LineIs
    <2> QED BY <2>1, LineIs
  <1>2. len \in Nat /\ m \in 0 .. Len(line) /\ (len = Len(line) + 1 => m = Len(line))
        /\ (len = Len(line) => m = IF Len(line) = 0 THEN 0 ELSE Len(line) - 1)
    BY <1>1 DEF Most
  <1>3. Begins(Text, line, Most(len - 1, 0))
    BY <1>1, <1>2
  <1>4. /\ start \in 0 .. Len(line) /\ end \in 0 .. Len(line)
        /\ k.e = Absent <=> key.eword = SizeMax
        /\ k.e = Absent => end = Len(line)
    BY KeyLies
  <1>5. beg = Least(start, m)
    BY <1>2, <1>3, BegFieldIs
  <1>6. KeyText(tab, line, k) = SubSeq(line, start + 1, end)
    BY DEF KeyText
  <1>7. ASSUME key.eword # SizeMax
        PROVE  lim = Least(end, m)
    BY <1>2, <1>3, <1>7, LimFieldIs
  <1> HIDE DEF beg, start, end, m
  <1>8. CASE len = Len(line) + 1
    <2>1. beg = start
      BY <1>1, <1>2, <1>4, <1>5, <1>8, LeastIs
    <2>2. lim = end
      <3>1. CASE key.eword = SizeMax
        BY <1>1, <1>4, <1>8, <3>1
      <3>2. CASE key.eword # SizeMax
        <4> HIDE DEF lim
        <4> QED BY <1>1, <1>2, <1>4, <1>7, <1>8, <3>2, LeastIs
      <3> QED BY <3>1, <3>2
    <2> HIDE DEF lim
    <2>3. Cut(beg, lim) = SubSeq(line, start + 1, end)
      BY <1>4, <2>1, <2>2, CutIs
    <2> QED BY <1>6, <2>3 DEF beg, lim
  <1>9. CASE len = Len(line)
    <2>1. end # Len(line)
      BY <1>9 DEF end
    <2>2. key.eword # SizeMax /\ end < Len(line) /\ m = Len(line) - 1
      BY <1>1, <1>2, <1>4, <1>9, <2>1
    <2>3. lim = end
      <3>1. lim = Least(end, m)
        BY <1>7, <2>2
      <3> HIDE DEF lim
      <3> QED BY <1>1, <1>2, <1>4, <2>2, <3>1, LeastIs
    <2> HIDE DEF lim
    <2>4. Cut(beg, lim) = SubSeq(line, beg + 1, end) /\ beg \in 0 .. Len(line)
      <3>1. beg \in 0 .. Len(line)
        BY <1>1, <1>2, <1>4, <1>5 DEF Least
      <3> QED BY <1>4, <2>3, <3>1, CutIs
    <2>5. SubSeq(line, beg + 1, end) = SubSeq(line, start + 1, end)
      <3>1. CASE start <= m
        <4>1. beg = start
          BY <1>2, <1>4, <1>5, <3>1, LeastIs
        <4> QED BY <4>1
      <3>2. CASE m < start
        <4>1. beg = m /\ end <= m
          BY <1>1, <1>2, <1>4, <1>5, <2>2, <3>2, LeastIs
        <4>2. SubSeq(line, beg + 1, end) = << >> /\ SubSeq(line, start + 1, end) = << >>
          BY <1>1, <1>2, <1>4, <3>2, <4>1
        <4> QED BY <4>2
      <3>3. start <= m \/ m < start
        BY <1>1, <1>2, <1>4
      <3> QED BY <3>1, <3>2, <3>3
    <2> QED BY <1>6, <2>4, <2>5 DEF beg, lim
  <1> QED BY <1>8, <1>9

-----------------------------------------------------------------------------
(* The texts handed to the conversions.                                    *)

Chars == Range(line) \cup {EOL}

KeyRecords == {KeyOf(a) : a \in KeyType}

(* The text of the i-th key to be converted, with the two exceptions of    *)
(* ConvertsTheKey.                                                         *)
GoodText(j, l, i, t) ==
  \/ IF i = 1 THEN /\ WantedIn(j, 1).e # Absent
                   /\ KeyText(j.tab, l, WantedIn(j, 1)) = << >>
     ELSE /\ \/ WantedIn(j, 1).e = Absent
             \/ KeyText(j.tab, l, WantedIn(j, 1)) = << >>
          /\ KeyEnd(j.tab, l, WantedIn(j, i)) = Len(l)
  \/ t = KeyText(j.tab, l, WantedIn(j, i))

(* The keys as they are read.                                              *)
KeysParsed ==
  /\ job \in Jobs /\ line \in Lines
  /\ status \in {"options", "refused", "decorating", "failed", "sorting", "done"}
  /\ status \in {"options", "refused"} => texts = << >>
  /\ status = "options" =>
       /\ keylist \in Seq(KeyRecords) /\ Len(keylist) <= Len(job.keys)
       /\ \A i \in 1 .. Len(keylist) : /\ keylist[i] = KeyOf(job.keys[i])
                                       /\ ~BadPosition(job.keys[i])
       /\ decorated = << >> /\ length = Len(line) + 1

Adjusted == status \in {"decorating", "failed", "sorting", "done"}

(* The keys after adjust_key_fields.                                       *)
KeysAdjusted ==
  Adjusted => /\ Valid(job)
              /\ keylist = [i \in 1 .. Len(job.keys) |-> Moved(Given(job), i)]
              /\ decorate_keylist = ToConvert(Given(job))
              /\ Count(Given(job)) # 0

(* The first key alone decides whether the last character is missing.      *)
TextsCut ==
  Adjusted =>
    /\ texts \in Seq(Seq(Chars)) /\ Len(texts) <= Count(Given(job))
    /\ status = "decorating" => Len(texts) < Count(Given(job))
    /\ status \in {"sorting", "done"} => Len(texts) = Count(Given(job))
    /\ length \in {Len(line), Len(line) + 1}
    /\ texts = << >> => length = Len(line) + 1
    /\ length = Len(line) => \/ WantedIn(job, 1).e = Absent
                             \/ KeyText(job.tab, line, WantedIn(job, 1)) = << >>
    /\ \A i \in DOMAIN texts : GoodText(job, line, i, texts[i])

LEMMA ConvertsTheKeyIs ==
  ConvertsTheKey <=> \A i \in DOMAIN texts : GoodText(job, line, i, texts[i])
PROOF
  <1>1. \A i : Wanted(i) = WantedIn(job, i)
    BY WantedUnfolds
  <1>2. /\ FirstIsWhole <=> WantedIn(job, 1).e = Absent
        /\ \A i : WantedText(i) = KeyText(job.tab, line, WantedIn(job, i))
    BY <1>1 DEF FirstIsWhole, WantedText
  <1> QED BY <1>1, <1>2 DEF ConvertsTheKey, GoodText

(* begfield and limfield stay within the record.                           *)
LEMMA CutType ==
  ASSUME line \in Lines, NEW len \in {Len(line), Len(line) + 1}, NEW tab,
         NEW key, NEW k, Means(key, k)
  PROVE  LET beg == BegField(tab, Text, len, key)
         IN  /\ beg \in 0 .. Len(line)
             /\ Cut(beg, IF key.eword = SizeMax THEN len - 1
                         ELSE LimField(tab, Text, len, key)) \in Seq(Chars)
PROOF
  <1> DEFINE beg == BegField(tab, Text, len, key)
             lim == IF key.eword = SizeMax THEN len - 1
                    ELSE LimField(tab, Text, len, key)
             m == Most(len - 1, 0)
  <1>1. /\ Len(line) \in Nat /\ Text \in Seq(Chars) /\ Len(Text) = Len(line) + 1
        /\ \A n \in 0 .. Len(line) : Begins(Text, line, n)
    BY LineIs DEF Chars
  <1>2. len \in Nat /\ m \in 0 .. Len(line)
    BY <1>1 DEF Most
  <1>3. Begins(Text, line, Most(len - 1, 0))
    BY <1>1, <1>2
  <1>4. beg \in 0 .. Len(line)
    <2>1. /\ beg = Least(KeyStart(tab, line, k), m)
          /\ KeyStart(tab, line, k) \in 0 .. Len(line)
      BY <1>2, <1>3, BegFieldIs
    <2> HIDE DEF beg, m
    <2> QED BY <1>1, <1>2, <2>1 DEF Least
  <1>5. lim \in Int /\ lim <= Len(line)
    <2>1. CASE key.eword = SizeMax
      BY <1>1, <1>2, <2>1
    <2>2. CASE key.eword # SizeMax
      <3>1. /\ LimField(tab, Text, len, key) = Least(KeyEnd(tab, line, k), m)
            /\ KeyEnd(tab, line, k) \in 0 .. Len(line)
        BY <1>2, <1>3, <2>2, LimFieldIs
      <3>2. lim = Least(KeyEnd(tab, line, k), m)
        BY <2>2, <3>1
      <3> HIDE DEF lim, m
      <3> QED BY <1>1, <1>2, <3>1, <3>2 DEF Least
    <2> QED BY <2>1, <2>2
  <1> HIDE DEF beg, lim
  <1>6. Most(beg, lim) \in 0 .. Len(line)
    BY <1>1, <1>4, <1>5 DEF Most
  <1>7. Cut(beg, lim) \in Seq(Chars)
    BY <1>1, <1>4, <1>6 DEF Cut
  <1> QED BY <1>4, <1>7 DEF beg, lim

(* One conversion.                                                         *)
LEMMA ConvertKeeps ==
  ASSUME KeysParsed, KeysAdjusted, TextsCut, status = "decorating",
         UNCHANGED <<job, line, keylist, decorate_keylist>>,
         NEW t \in Seq(Chars), Convert(t),
         GoodText(job, line, Len(texts) + 1, t),
         length' \in {Len(line), Len(line) + 1},
         length' = Len(line) => \/ WantedIn(job, 1).e = Absent
                                \/ KeyText(job.tab, line, WantedIn(job, 1)) = << >>
  PROVE  KeysParsed' /\ KeysAdjusted' /\ TextsCut'
PROOF
  <1>1. /\ Adjusted /\ job \in Jobs /\ line \in Lines /\ Valid(job)
        /\ keylist = [i \in 1 .. Len(job.keys) |-> Moved(Given(job), i)]
        /\ decorate_keylist = ToConvert(Given(job)) /\ Count(Given(job)) # 0
        /\ texts \in Seq(Seq(Chars)) /\ Len(texts) < Count(Given(job))
        /\ \A i \in DOMAIN texts : GoodText(job, line, i, texts[i])
    BY DEF Adjusted, KeysParsed, KeysAdjusted, TextsCut
  <1>2. Count(Given(job)) \in Nat /\ Len(decorate_keylist) = Count(Given(job))
    BY <1>1, WantedIs
  <1>3. /\ texts' = Append(texts, t)
        /\ \/ status' = "failed"
           \/ status' = "sorting" /\ Len(texts) + 1 = Len(decorate_keylist)
           \/ status' = "decorating" /\ Len(texts) + 1 # Len(decorate_keylist)
    BY DEF Convert
  <1>4. /\ texts' \in Seq(Seq(Chars)) /\ Len(texts') = Len(texts) + 1
        /\ texts'[Len(texts) + 1] = t /\ texts' # << >>
        /\ DOMAIN texts' = 1 .. Len(texts) + 1
        /\ \A i \in 1 .. Len(texts) : texts'[i] = texts[i]
    <2> DEFINE C == Seq(Chars)
    <2>1. texts \in Seq(C) /\ t \in C
      BY <1>1
    <2> HIDE DEF C
    <2>2. /\ texts' \in Seq(C) /\ Len(texts') = Len(texts) + 1
          /\ texts'[Len(texts) + 1] = t /\ texts' # << >>
          /\ DOMAIN texts' = 1 .. Len(texts) + 1
          /\ \A i \in 1 .. Len(texts) : texts'[i] = texts[i]
      BY <1>3, <2>1
    <2> QED BY <2>2 DEF C
  <1>5. Len(texts) \in Nat /\ DOMAIN texts = 1 .. Len(texts)
    <2> DEFINE C == Seq(Chars)
    <2>1. texts \in Seq(C)
      BY <1>1
    <2> HIDE DEF C
    <2> QED BY <2>1
  <1>6. \A i \in DOMAIN texts' : GoodText(job, line, i, texts'[i])
    <2> TAKE i \in DOMAIN texts'
    <2>1. i \in 1 .. Len(texts) \/ i = Len(texts) + 1
      BY <1>4, <1>5
    <2> QED BY <1>1, <1>4, <1>5, <2>1
  <1>7. Adjusted'
    BY <1>3 DEF Adjusted
  <1>8. KeysParsed'
    BY <1>1, <1>3 DEF KeysParsed
  <1>9. KeysAdjusted'
    <2>1. job' = job /\ keylist' = keylist /\ decorate_keylist' = decorate_keylist
      OBVIOUS
    <2> QED BY <1>1, <1>7, <2>1 DEF KeysAdjusted
  <1>10. TextsCut'
    <2>1. Chars' = Chars
      BY DEF Chars
    <2>2. /\ Len(texts') <= Count(Given(job))
          /\ status' = "decorating" => Len(texts') < Count(Given(job))
          /\ status' \in {"sorting", "done"} => Len(texts') = Count(Given(job))
      BY <1>1, <1>2, <1>3, <1>4, <1>5
    <2>3. job' = job /\ line' = line
      OBVIOUS
    <2> QED BY <1>4, <1>6, <1>7, <2>1, <2>2, <2>3 DEF TextsCut
  <1> QED BY <1>8, <1>9, <1>10

TextsInv == KeysParsed /\ KeysAdjusted /\ TextsCut

LEMMA TextsInit ==
  ASSUME Init
  PROVE  TextsInv
PROOF
  <1>1. job \in Jobs /\ line \in Lines
    BY DEF Init
  <1>2. job.keys \in Seq(KeyType)
    BY <1>1, GivenIs
  <1>3. keylist = << >> /\ texts = << >> /\ decorated = << >>
        /\ length = Len(line) + 1 /\ status = "options"
    BY DEF Init
  <1>4. keylist \in Seq(KeyRecords) /\ Len(keylist) = 0 /\ Len(job.keys) \in Nat
    <2> HIDE DEF KeyRecords
    <2> QED BY <1>2, <1>3
  <1>5. KeysParsed
    BY <1>1, <1>3, <1>4 DEF KeysParsed
  <1>6. ~Adjusted
    BY <1>3 DEF Adjusted
  <1> QED BY <1>5, <1>6 DEF TextsInv, KeysAdjusted, TextsCut

LEMMA ParseKeeps ==
  ASSUME TextsInv, ParseKey
  PROVE  TextsInv'
PROOF
  <1>1. /\ job \in Jobs /\ line \in Lines /\ texts = << >>
        /\ keylist \in Seq(KeyRecords) /\ Len(keylist) < Len(job.keys)
        /\ \A i \in 1 .. Len(keylist) : /\ keylist[i] = KeyOf(job.keys[i])
                                        /\ ~BadPosition(job.keys[i])
        /\ decorated = << >> /\ length = Len(line) + 1
    BY DEF ParseKey, TextsInv, KeysParsed
  <1>2. /\ job' = job /\ line' = line /\ texts' = texts /\ decorated' = decorated
        /\ length' = length
    BY DEF ParseKey
  <1> DEFINE arg == job.keys[Len(keylist) + 1]
  <1>3. Len(keylist) \in Nat /\ job.keys \in Seq(KeyType) /\ Len(job.keys) \in Nat
    <2>1. Len(keylist) \in Nat
      <3> HIDE DEF KeyRecords
      <3> QED BY <1>1
    <2>2. job.keys \in Seq(KeyType) /\ Len(job.keys) \in Nat
      BY <1>1, GivenIs
    <2> QED BY <2>1, <2>2
  <1>4. CASE BadPosition(arg)
    <2>1. status' = "refused"
      BY <1>4 DEF ParseKey
    <2>2. KeysParsed' /\ ~Adjusted'
      BY <1>1, <1>2, <2>1 DEF KeysParsed, Adjusted
    <2> QED BY <2>2 DEF TextsInv, KeysAdjusted, TextsCut
  <1>5. CASE ~BadPosition(arg)
    <2>1. /\ keylist' = Append(keylist, KeyOf(arg)) /\ status' = "options"
      BY <1>5 DEF ParseKey
    <2>2. KeyOf(arg) \in KeyRecords
      <3>1. Len(keylist) + 1 \in 1 .. Len(job.keys)
        BY <1>1, <1>3
      <3>2. arg \in KeyType
        <4> HIDE DEF KeyType
        <4> QED BY <1>3, <3>1
      <3> QED BY <3>2 DEF KeyRecords
    <2> DEFINE n == Len(keylist)
               c == KeyOf(arg)
    <2>3. /\ keylist' \in Seq(KeyRecords) /\ Len(keylist') = n + 1
          /\ keylist'[n + 1] = c
          /\ \A i \in 1 .. n : keylist'[i] = keylist[i]
      <3> HIDE DEF KeyRecords, c
      <3> QED BY <1>1, <2>1, <2>2 DEF c
    <2>4. ASSUME NEW i \in 1 .. Len(keylist')
          PROVE  keylist'[i] = KeyOf(job.keys[i]) /\ ~BadPosition(job.keys[i])
      <3>1. i \in 1 .. n \/ i = n + 1
        BY <1>3, <2>3
      <3> HIDE DEF n, c
      <3>2. CASE i \in 1 .. n
        BY <1>1, <2>3, <3>2 DEF n
      <3>3. CASE i = n + 1
        <4>1. c = KeyOf(job.keys[n + 1]) /\ ~BadPosition(job.keys[n + 1])
          BY <1>5 DEF c, n
        <4> QED BY <2>3, <3>3, <4>1
      <3> QED BY <3>1, <3>2, <3>3
    <2>5. Len(keylist') <= Len(job.keys)
      BY <1>1, <1>3, <2>3
    <2>6. KeysParsed' /\ ~Adjusted'
      BY <1>1, <1>2, <2>1, <2>3, <2>4, <2>5 DEF KeysParsed, Adjusted
    <2> QED BY <2>6 DEF TextsInv, KeysAdjusted, TextsCut
  <1> QED BY <1>4, <1>5

LEMMA AdjustKeeps ==
  ASSUME TextsInv, AdjustKeys
  PROVE  TextsInv'
PROOF
  <1>1. /\ job \in Jobs /\ line \in Lines /\ texts = << >>
        /\ keylist \in Seq(KeyRecords) /\ Len(keylist) = Len(job.keys)
        /\ \A i \in 1 .. Len(keylist) : /\ keylist[i] = KeyOf(job.keys[i])
                                        /\ ~BadPosition(job.keys[i])
        /\ length = Len(line) + 1
    BY DEF AdjustKeys, TextsInv, KeysParsed
  <1>2. /\ job' = job /\ line' = line /\ texts' = texts /\ length' = length
        /\ status' = IF Count(keylist) = 0 THEN "refused" ELSE "decorating"
    BY DEF AdjustKeys
  <1>3. /\ Len(job.keys) \in Nat /\ DOMAIN keylist = 1 .. Len(job.keys)
        /\ keylist = Given(job)
    <2>1. Len(job.keys) \in Nat
      BY <1>1, GivenIs
    <2>2. DOMAIN keylist = 1 .. Len(job.keys)
          /\ keylist = [i \in 1 .. Len(job.keys) |-> keylist[i]]
      <3> HIDE DEF KeyRecords
      <3> QED BY <1>1
    <2>3. \A i \in 1 .. Len(job.keys) : keylist[i] = KeyOf(job.keys[i])
      BY <1>1
    <2> QED BY <2>1, <2>2, <2>3 DEF Given
  <1>4. KeysParsed'
    BY <1>1, <1>2 DEF KeysParsed
  <1>5. CASE Count(keylist) = 0
    <2>1. ~Adjusted'
      BY <1>2, <1>5 DEF Adjusted
    <2> QED BY <1>4, <2>1 DEF TextsInv, KeysAdjusted, TextsCut
  <1>6. CASE Count(keylist) # 0
    <2>1. status' = "decorating"
      BY <1>2, <1>6
    <2>2. Valid(job)
      BY <1>1, <1>3 DEF Valid
    <2>3. keylist' = [i \in 1 .. Len(job.keys) |-> Moved(Given(job), i)]
      <3>1. keylist' = [i \in DOMAIN keylist |-> Moved(keylist, i)]
        BY DEF AdjustKeys
      <3> QED BY <1>3, <3>1, Zenon
    <2>4. decorate_keylist' = ToConvert(Given(job))
      <3>1. decorate_keylist' = ToConvert(keylist)
        BY DEF AdjustKeys
      <3> QED BY <1>3, <3>1, Zenon
    <2>5. Count(Given(job)) \in Nat /\ Count(Given(job)) # 0
      <3>1. Count(Given(job)) \in Nat
        BY <1>1, <2>2, WantedIs
      <3> QED BY <1>3, <1>6, <3>1
    <2>6. KeysAdjusted'
      BY <1>2, <2>2, <2>3, <2>4, <2>5 DEF KeysAdjusted
    <2>7. texts' = << >> /\ Len(texts') = 0 /\ texts' \in Seq(Seq(Chars'))
          /\ DOMAIN texts' = {}
      <3> HIDE DEF Chars
      <3> QED BY <1>1, <1>2
    <2>8. Len(line) \in Nat
      BY <1>1, LineIs
    <2>9. TextsCut'
      BY <1>1, <1>2, <2>1, <2>5, <2>7, <2>8 DEF TextsCut
    <2> QED BY <1>4, <2>6, <2>9 DEF TextsInv
  <1> QED BY <1>5, <1>6

LEMMA FirstKeeps ==
  ASSUME TextsInv, ConvertFirst
  PROVE  TextsInv'
PROOF
  <1>1. /\ job \in Jobs /\ line \in Lines /\ Valid(job) /\ texts = << >>
        /\ decorate_keylist = ToConvert(Given(job)) /\ status = "decorating"
        /\ Len(texts) < Count(Given(job)) /\ length = Len(line) + 1
    BY DEF ConvertFirst, TextsInv, KeysParsed, KeysAdjusted, TextsCut, Adjusted
  <1> DEFINE key == decorate_keylist[1]
             k == WantedIn(job, 1)
             beg == BegField(job.tab, Text, length, key)
             lim == LimField(job.tab, Text, length, key)
             chomped == IF length > 0 /\ Char(Text, length - 1) = EOL
                        THEN length - 1 ELSE length
  <1>2. Means(key, k) /\ Len(texts) = 0
    <2>1. Count(Given(job)) \in Nat
      BY <1>1, WantedIs
    <2>2. Len(texts) = 0
      BY <1>1
    <2>3. 1 \in 1 .. Count(Given(job))
      BY <1>1, <2>1, <2>2
    <2> QED BY <1>1, <2>2, <2>3, WantedIs
  <1>3. Len(line) \in Nat /\ Text[Len(line) + 1] = EOL /\ Text \in Seq(Chars)
        /\ Len(Text) = Len(line) + 1
    BY <1>1, LineIs DEF Chars
  <1>4. chomped = Len(line)
    BY <1>1, <1>3 DEF Char
  <1>5. /\ beg < lim => Cut(beg, lim) = KeyText(job.tab, line, k)
        /\ beg >= lim =>
             IF k.e = Absent THEN Cut(beg, Len(line)) = KeyText(job.tab, line, k)
             ELSE KeyText(job.tab, line, k) = << >>
        /\ beg \in 0 .. Len(line) /\ lim \in 0 .. Len(line)
    <2> HIDE DEF key, k
    <2> QED BY <1>1, <1>2, FirstText
  <1>6. UNCHANGED <<job, line, keylist, decorate_keylist>>
    BY DEF ConvertFirst
  <1>7. \/ beg >= lim /\ length' = chomped /\ Convert(Cut(beg, chomped))
        \/ ~(beg >= lim) /\ length' = length /\ Convert(Cut(beg, lim))
    BY DEF ConvertFirst
  <1> HIDE DEF beg, lim, chomped, key
  <1>8. ASSUME NEW q \in 0 .. Len(line)
        PROVE  Cut(beg, q) \in Seq(Chars)
    <2>1. Most(beg, q) \in 0 .. Len(line)
      BY <1>3, <1>5 DEF Most
    <2> QED BY <1>3, <1>5, <2>1 DEF Cut
  <1>9. CASE beg >= lim
    <2>1. length' = Len(line) /\ Convert(Cut(beg, Len(line)))
      BY <1>4, <1>5, <1>7, <1>9
    <2>2. Cut(beg, Len(line)) \in Seq(Chars)
      BY <1>3, <1>8
    <2>3. \/ k.e = Absent /\ Cut(beg, Len(line)) = KeyText(job.tab, line, k)
          \/ k.e # Absent /\ KeyText(job.tab, line, k) = << >>
      BY <1>5, <1>9
    <2>4. GoodText(job, line, Len(texts) + 1, Cut(beg, Len(line)))
      BY <1>2, <2>3 DEF GoodText
    <2>5. k.e = Absent \/ KeyText(job.tab, line, k) = << >>
      BY <2>3
    <2> QED BY <1>1, <1>6, <2>1, <2>2, <2>4, <2>5, ConvertKeeps DEF TextsInv
  <1>10. CASE ~(beg >= lim)
    <2>1. length' = Len(line) + 1 /\ Convert(Cut(beg, lim))
      BY <1>1, <1>7, <1>10
    <2>2. Cut(beg, lim) \in Seq(Chars)
      BY <1>5, <1>8
    <2>3. Cut(beg, lim) = KeyText(job.tab, line, k)
      BY <1>3, <1>5, <1>10
    <2>4. GoodText(job, line, Len(texts) + 1, Cut(beg, lim))
      BY <1>2, <2>3 DEF GoodText
    <2>5. length' # Len(line)
      BY <1>3, <2>1
    <2> QED BY <1>1, <1>6, <2>1, <2>2, <2>4, <2>5, ConvertKeeps DEF TextsInv
  <1> QED BY <1>9, <1>10

LEMMA NextKeeps ==
  ASSUME TextsInv, ConvertNext
  PROVE  TextsInv'
PROOF
  <1> DEFINE i == Len(texts) + 1
             key == decorate_keylist[i]
             k == WantedIn(job, i)
             t == Cut(BegField(job.tab, Text, length, key),
                      IF key.eword = SizeMax THEN length - 1
                      ELSE LimField(job.tab, Text, length, key))
  <1>1. /\ job \in Jobs /\ line \in Lines /\ Valid(job) /\ texts # << >>
        /\ decorate_keylist = ToConvert(Given(job)) /\ status = "decorating"
        /\ Len(texts) < Count(Given(job)) /\ length \in {Len(line), Len(line) + 1}
        /\ texts \in Seq(Seq(Chars))
        /\ length = Len(line) => \/ WantedIn(job, 1).e = Absent
                                 \/ KeyText(job.tab, line, WantedIn(job, 1)) = << >>
    BY DEF ConvertNext, TextsInv, KeysParsed, KeysAdjusted, TextsCut, Adjusted
  <1>2. Len(texts) \in Nat /\ i # 1
    <2> DEFINE C == Seq(Chars)
    <2>1. texts \in Seq(C)
      BY <1>1
    <2> HIDE DEF C
    <2> QED BY <1>1, <2>1
  <1>3. Means(key, k)
    <2>1. Count(Given(job)) \in Nat
      BY <1>1, WantedIs
    <2>2. i \in 1 .. Count(Given(job))
      BY <1>1, <1>2, <2>1
    <2> HIDE DEF i
    <2> QED BY <1>1, <2>2, WantedIs
  <1>4. UNCHANGED <<job, line, keylist, decorate_keylist>> /\ length' = length
        /\ Convert(t)
    BY DEF ConvertNext
  <1> HIDE DEF i, key, k
  <1>5. t \in Seq(Chars)
    BY <1>1, <1>3, CutType
  <1>6. GoodText(job, line, i, t)
    <2>1. CASE length = Len(line) /\ KeyEnd(job.tab, line, k) = Len(line)
      BY <1>1, <1>2, <2>1 DEF GoodText, k
    <2>2. CASE ~(length = Len(line) /\ KeyEnd(job.tab, line, k) = Len(line))
      <3>1. t = KeyText(job.tab, line, k)
        BY <1>1, <1>3, <2>2, NextText
      <3> HIDE DEF t
      <3> QED BY <3>1 DEF GoodText, k
    <2> QED BY <2>1, <2>2
  <1> HIDE DEF t
  <1>7. GoodText(job, line, Len(texts) + 1, t)
    BY <1>6 DEF i
  <1> QED BY <1>1, <1>4, <1>5, <1>7, ConvertKeeps DEF TextsInv

LEMMA UndecorateKeeps ==
  ASSUME TextsInv, Undecorate
  PROVE  TextsInv'
PROOF
  <1>1. /\ status = "sorting" /\ status' = "done" /\ Adjusted /\ Adjusted'
        /\ job' = job /\ line' = line /\ keylist' = keylist
        /\ decorate_keylist' = decorate_keylist /\ length' = length
        /\ texts' = texts
    BY DEF Undecorate, Adjusted
  <1>2. KeysParsed'
    BY <1>1 DEF TextsInv, KeysParsed
  <1>3. KeysAdjusted'
    BY <1>1 DEF TextsInv, KeysAdjusted
  <1>4. Chars' = Chars
    BY <1>1 DEF Chars
  <1>5. TextsCut'
    BY <1>1, <1>4 DEF TextsInv, TextsCut
  <1> QED BY <1>2, <1>3, <1>5 DEF TextsInv

LEMMA StutterKeeps ==
  ASSUME TextsInv, UNCHANGED vars
  PROVE  TextsInv'
PROOF
  <1>1. /\ job' = job /\ line' = line /\ keylist' = keylist
        /\ decorate_keylist' = decorate_keylist /\ length' = length
        /\ texts' = texts /\ decorated' = decorated /\ status' = status
    BY DEF vars
  <1>2. Chars' = Chars /\ Adjusted' = Adjusted
    BY <1>1 DEF Chars, Adjusted
  <1> QED BY <1>1, <1>2 DEF TextsInv, KeysParsed, KeysAdjusted, TextsCut

LEMMA TextsStep ==
  ASSUME TextsInv, [Next]_vars
  PROVE  TextsInv'
  BY ParseKeeps, AdjustKeeps, FirstKeeps, NextKeeps, UndecorateKeeps, StutterKeeps
     DEF Next, Stopped

LEMMA TextsAlways == Spec => []TextsInv
  <1>1. Init => TextsInv
    BY TextsInit
  <1>2. TextsInv /\ [Next]_vars => TextsInv'
    BY TextsStep
  <1> QED BY <1>1, <1>2, PTL DEF Spec

(* Each conversion is given the text of its key, as the positions of sort  *)
(* define it, however the scans of begfield and limfield find it: but for  *)
(* a first key whose text is empty, and for later keys that reach the end  *)
(* of the line after a first key that is empty or has no end.              *)
(* (decorate_fields, begfield, limfield)                                   *)
THEOREM KeysAreConverted == Spec => []ConvertsTheKey
  <1>1. TextsInv => ConvertsTheKey
    <2> SUFFICES ASSUME TextsInv PROVE ConvertsTheKey
      OBVIOUS
    <2>1. CASE Adjusted
      BY <2>1, ConvertsTheKeyIs DEF TextsInv, TextsCut
    <2>2. CASE ~Adjusted
      <3>1. texts = << >>
        BY <2>2 DEF TextsInv, KeysParsed, Adjusted
      <3> QED BY <3>1 DEF ConvertsTheKey
    <2> QED BY <2>1, <2>2
  <1> QED BY <1>1, TextsAlways, PTL

-----------------------------------------------------------------------------
(* What is printed before the line: the conversions, each followed by a    *)
(* separator.  The k-th ends at at[k].                                     *)

Laid(d, outs, n, at, sep) ==
  /\ at \in [0 .. n -> 0 .. Len(d)] /\ at[0] = 0 /\ at[n] = Len(d)
  /\ \A k \in 1 .. n :
       /\ Len(outs[k]) \in Nat
       /\ at[k] = at[k - 1] + Len(outs[k]) + 1
       /\ d[at[k]] = sep
       /\ \A r \in 1 .. Len(outs[k]) : d[at[k - 1] + r] = outs[k][r]

LEMMA LaidNext ==
  ASSUME NEW G, NEW d \in Seq(G), NEW out \in Seq(G), NEW sep \in G, NEW n \in Nat,
         NEW outs, NEW more, NEW at, Laid(d, outs, n, at, sep),
         \A k \in 1 .. n : more[k] = outs[k], more[n + 1] = out
  PROVE  \E next : Laid(d \o Append(out, sep), more, n + 1, next, sep)
PROOF
  <1> DEFINE e == d \o Append(out, sep)
             next == [k \in 0 .. n + 1 |-> IF k <= n THEN at[k] ELSE Len(e)]
  <1>1. /\ at \in [0 .. n -> 0 .. Len(d)] /\ at[0] = 0 /\ at[n] = Len(d)
        /\ \A k \in 1 .. n :
             /\ Len(outs[k]) \in Nat
             /\ at[k] = at[k - 1] + Len(outs[k]) + 1
             /\ d[at[k]] = sep
             /\ \A r \in 1 .. Len(outs[k]) : d[at[k - 1] + r] = outs[k][r]
    BY DEF Laid
  <1>2. Len(d) \in Nat /\ Len(out) \in Nat
    OBVIOUS
  <1>3. /\ Len(e) = Len(d) + Len(out) + 1
        /\ e[Len(e)] = sep
        /\ \A r \in 1 .. Len(out) : e[Len(d) + r] = out[r]
        /\ \A r \in 1 .. Len(d) : e[r] = d[r]
    <2> DEFINE w == Append(out, sep)
    <2>1. /\ w \in Seq(G) /\ Len(w) = Len(out) + 1 /\ w[Len(out) + 1] = sep
          /\ \A r \in 1 .. Len(out) : w[r] = out[r]
      OBVIOUS
    <2> HIDE DEF w
    <2>2. /\ Len(d \o w) = Len(d) + Len(w)
          /\ \A r \in 1 .. Len(d) : (d \o w)[r] = d[r]
          /\ \A r \in 1 .. Len(w) : (d \o w)[Len(d) + r] = w[r]
      <3>1. \A i \in 1 .. Len(d) + Len(w) :
              (d \o w)[i] = IF i <= Len(d) THEN d[i] ELSE w[i - Len(d)]
        BY <2>1, ConcatProperties
      <3>2. Len(d \o w) = Len(d) + Len(w)
        BY <2>1, SMTT(40)
      <3>3. ASSUME NEW r \in 1 .. Len(w)
            PROVE  (d \o w)[Len(d) + r] = w[r]
        <4>1. /\ Len(d) + r \in 1 .. Len(d) + Len(w) /\ ~(Len(d) + r <= Len(d))
              /\ (Len(d) + r) - Len(d) = r
          BY <1>2, <2>1
        <4> QED BY <3>1, <4>1
      <3>4. \A r \in 1 .. Len(d) : (d \o w)[r] = d[r]
        BY <1>2, <2>1, <3>1
      <3> QED BY <3>2, <3>3, <3>4
    <2>3. e = d \o w
      BY DEF w
    <2> HIDE DEF e
    <2>4. Len(out) + 1 \in 1 .. Len(w) /\ Len(d) + (Len(out) + 1) = Len(e)
      BY <1>2, <2>1, <2>2, <2>3
    <2> QED BY <1>2, <2>1, <2>2, <2>3, <2>4
  <1> HIDE DEF e
  <1>4. /\ next \in [0 .. n + 1 -> 0 .. Len(e)]
        /\ next[n + 1] = Len(e)
        /\ \A k \in 0 .. n : next[k] = at[k] /\ at[k] \in 0 .. Len(d)
    BY <1>1, <1>2, <1>3
  <1>5. ASSUME NEW k \in 1 .. n + 1
        PROVE  /\ Len(more[k]) \in Nat
               /\ next[k] = next[k - 1] + Len(more[k]) + 1
               /\ e[next[k]] = sep
               /\ \A r \in 1 .. Len(more[k]) : e[next[k - 1] + r] = more[k][r]
    <2> HIDE DEF next
    <2>1. CASE k \in 1 .. n
      <3>1. /\ next[k] = at[k] /\ next[k - 1] = at[k - 1] /\ more[k] = outs[k]
            /\ at[k] \in 0 .. Len(d) /\ at[k - 1] \in 0 .. Len(d)
        <4>1. k \in 0 .. n /\ k - 1 \in 0 .. n
          BY <2>1
        <4> QED BY <1>4, <2>1, <4>1
      <3>2. /\ Len(outs[k]) \in Nat
            /\ at[k] = at[k - 1] + Len(outs[k]) + 1
            /\ d[at[k]] = sep
            /\ \A r \in 1 .. Len(outs[k]) : d[at[k - 1] + r] = outs[k][r]
        BY <1>1, <2>1
      <3>3. at[k] \in 1 .. Len(d)
        BY <1>2, <3>1, <3>2
      <3>4. ASSUME NEW r \in 1 .. Len(outs[k])
            PROVE  e[at[k - 1] + r] = outs[k][r]
        <4>1. at[k - 1] + r \in 1 .. Len(d)
          BY <1>2, <3>1, <3>2, SMTT(40)
        <4> QED BY <1>3, <3>2, <4>1
      <3> QED BY <1>3, <3>1, <3>2, <3>3, <3>4
    <2>2. CASE k = n + 1
      <3>1. next[k] = Len(e) /\ next[k - 1] = Len(d) /\ more[k] = out
        <4>1. k - 1 = n /\ n \in 0 .. n
          BY <2>2
        <4> QED BY <1>1, <1>4, <2>2, <4>1
      <3> QED BY <1>2, <1>3, <3>1
    <2> QED BY <2>1, <2>2
  <1>6. next[0] = 0
    BY <1>1, <1>4
  <1> HIDE DEF next
  <1>7. Laid(e, more, n + 1, next, sep)
    BY <1>4, <1>5, <1>6 DEF Laid
  <1> QED BY <1>7 DEF e

SepOf(tab) == IF tab = NoTab THEN Blank ELSE tab

(* Every conversion is one field.                                          *)
Clean(tab, outs, n) ==
  \A k \in 1 .. n : /\ Len(outs[k]) >= 1
                    /\ \A r \in 1 .. Len(outs[k]) : /\ outs[k][r] # Blank
                                                    /\ outs[k][r] # tab

(* Where the field behind the k-th conversion starts.                      *)
CutAt(tab, at, k) == IF k = 0 THEN 0 ELSE at[k] - 1 + SepLen(tab)

LEMMA CutsAre ==
  ASSUME NEW tab, NEW d, NEW outs, NEW n \in Nat, NEW at,
         Laid(d, outs, n, at, SepOf(tab)), Clean(tab, outs, n), Len(d) \in Nat,
         NEW l, Len(l) \in Nat, Len(d) <= Len(l), \A i \in 1 .. Len(d) : l[i] = d[i]
  PROVE  \A k \in 0 .. n :
           /\ CutAt(tab, at, k) \in FieldStarts(tab, l)
           /\ Cardinality(Below(FieldStarts(tab, l), CutAt(tab, at, k))) = k
PROOF
  <1> DEFINE S == FieldStarts(tab, l)
             Good(k) == /\ CutAt(tab, at, k) \in S
                        /\ Cardinality(Below(S, CutAt(tab, at, k))) = k
             Bad == {k \in 0 .. n : ~Good(k)}
  <1>1. /\ at \in [0 .. n -> 0 .. Len(d)] /\ at[0] = 0 /\ at[n] = Len(d)
        /\ \A k \in 1 .. n :
             /\ Len(outs[k]) \in Nat
             /\ at[k] = at[k - 1] + Len(outs[k]) + 1
             /\ d[at[k]] = SepOf(tab)
             /\ \A r \in 1 .. Len(outs[k]) : d[at[k - 1] + r] = outs[k][r]
    BY DEF Laid
  <1>2. /\ S \in SUBSET Nat /\ IsFiniteSet(S) /\ 0 \in S /\ \A s \in S : s \in Nat
    BY StartsAre
  <1>3. S = {0} \cup {p \in 1 .. Len(l) :
                        IF tab # NoTab THEN l[p] = tab
                        ELSE p < Len(l) /\ l[p] # Blank /\ l[p + 1] = Blank}
    BY DEF FieldStarts
  <1> HIDE DEF S
  <1> SUFFICES ASSUME Bad # {} PROVE FALSE
    BY DEF S
  <1>4. PICK k \in Bad : \A m \in Bad : k <= m
    <2>1. Bad \in SUBSET Nat
      OBVIOUS
    <2> HIDE DEF Bad
    <2> QED BY <2>1, LeastNumber
  <1>5. k \in 0 .. n /\ ~Good(k)
    BY <1>4
  <1>6. k # 0
    <2>1. \A s \in S : ~(s < 0)
      BY <1>2
    <2>2. Below(S, 0) = {}
      BY <2>1 DEF Below
    <2>3. CutAt(tab, at, 0) = 0 /\ Cardinality(Below(S, 0)) = 0
      BY <2>2, FS_EmptySet DEF CutAt
    <2> QED BY <1>2, <1>5, <2>3
  <1>7. k \in 1 .. n /\ k - 1 \in 0 .. n /\ k - 1 \notin Bad
    <2> HIDE DEF Bad
    <2> QED BY <1>4, <1>5, <1>6
  <1> DEFINE a == at[k - 1]
             b == at[k]
             c == CutAt(tab, at, k)
             prev == CutAt(tab, at, k - 1)
             out == outs[k]
  <1>8. prev \in S /\ Cardinality(Below(S, prev)) = k - 1
    BY <1>7
  <1>9. /\ a \in 0 .. Len(d) /\ b \in 1 .. Len(d) /\ Len(out) \in Nat /\ Len(out) >= 1
        /\ b = a + Len(out) + 1
        /\ l[b] = SepOf(tab)
    <2>1. a \in 0 .. Len(d) /\ b \in 0 .. Len(d)
      BY <1>1, <1>7
    <2>2. /\ Len(out) \in Nat /\ Len(out) >= 1 /\ b = a + Len(out) + 1
          /\ d[b] = SepOf(tab)
      BY <1>1, <1>7 DEF Clean
    <2>3. b \in 1 .. Len(d)
      BY <2>1, <2>2
    <2> QED BY <2>1, <2>2, <2>3
  <1> HIDE DEF a, b, out
  <1>10. \A r \in a + 1 .. b - 1 : l[r] # Blank /\ l[r] # tab /\ r \in 1 .. Len(l)
    <2> TAKE r \in a + 1 .. b - 1
    <2>1. r - a \in 1 .. Len(out) /\ a + (r - a) = r /\ r \in 1 .. Len(d)
      BY <1>9, SMTT(40)
    <2>2. d[a + (r - a)] = out[r - a]
      BY <1>1, <1>7, <2>1 DEF a, out
    <2>3. out[r - a] # Blank /\ out[r - a] # tab
      BY <1>7, <2>1 DEF Clean, out
    <2> QED BY <2>1, <2>2, <2>3
  <1>11. /\ c = b - 1 + SepLen(tab)
         /\ prev = IF k = 1 THEN 0 ELSE a - 1 + SepLen(tab)
         /\ k = 1 => a = 0
    <2>1. (k = 1 <=> k - 1 = 0) /\ k # 0
      BY <1>7
    <2> QED BY <1>1, <2>1 DEF CutAt, a, b, c, prev
  <1>12. prev \in Nat
    BY <1>2, <1>8
  <1> HIDE DEF c, prev
  <1>13. CASE tab # NoTab
    <2>1. c = b /\ prev = a /\ l[b] = tab
      BY <1>9, <1>11, <1>13 DEF SepLen, SepOf
    <2>2. c \in S /\ prev < c
      BY <1>3, <1>9, <1>13, <2>1
    <2>3. \A s \in S : ~(prev < s /\ s < c)
      <3> SUFFICES ASSUME NEW s \in S, prev < s, s < c PROVE FALSE
        OBVIOUS
      <3>1. s \in a + 1 .. b - 1 /\ s # 0
        BY <1>2, <1>9, <2>1
      <3>2. l[s] = tab
        BY <1>3, <1>13, <3>1
      <3> QED BY <1>10, <3>1, <3>2
    <2>4. Cardinality(Below(S, c)) = (k - 1) + 1
      BY <1>2, <1>8, <2>2, <2>3, BelowNext
    <2> QED BY <1>5, <2>2, <2>4 DEF c
  <1>14. CASE tab = NoTab
    <2>1. c = b - 1 /\ l[b] = Blank /\ prev = IF k = 1 THEN 0 ELSE a - 1
      BY <1>9, <1>11, <1>14 DEF SepLen, SepOf
    <2>2. c \in a + 1 .. b - 1 /\ c + 1 = b
      BY <1>9, <2>1
    <2>3. c \in S /\ prev < c
      <3>1. c \in 1 .. Len(l) /\ c < Len(l) /\ l[c] # Blank /\ l[c + 1] = Blank
        BY <1>9, <1>10, <2>1, <2>2
      <3>2. prev < c
        BY <1>9, <1>11, <2>1, <2>2
      <3> QED BY <1>3, <1>14, <3>1, <3>2
    <2>4. \A s \in S : ~(prev < s /\ s < c)
      <3> SUFFICES ASSUME NEW s \in S, prev < s, s < c PROVE FALSE
        OBVIOUS
      <3>1. s + 1 \in a + 1 .. b - 1 /\ s # 0
        BY <1>2, <1>9, <1>11, <1>12, <2>1
      <3>2. l[s + 1] = Blank
        BY <1>3, <1>14, <3>1
      <3> QED BY <1>10, <3>1, <3>2
    <2>5. Cardinality(Below(S, c)) = (k - 1) + 1
      BY <1>2, <1>8, <2>3, <2>4, BelowNext
    <2> QED BY <1>5, <2>3, <2>5 DEF c
  <1> QED BY <1>13, <1>14

(* A field starts where its number of starts are smaller.                  *)
LEMMA StartAtPlace ==
  ASSUME NEW tab, NEW l, Len(l) \in Nat, NEW k \in Nat, NEW p \in FieldStarts(tab, l),
         Cardinality(Below(FieldStarts(tab, l), p)) = k
  PROVE  FieldStart(tab, l, k + 1) = p /\ k + 1 <= Cardinality(FieldStarts(tab, l))
PROOF
  <1> DEFINE S == FieldStarts(tab, l)
             q == FieldStart(tab, l, k + 1)
  <1>1. S \in SUBSET Nat /\ IsFiniteSet(S)
    BY StartsAre
  <1>2. k + 1 <= Cardinality(S)
    <2> HIDE DEF S
    <2>1. p \in S /\ Cardinality(Below(S, p)) = k
      BY DEF S
    <2> QED BY <1>1, <2>1, BelowLess
  <1>3. q \in S /\ Cardinality(Below(S, q)) = (k + 1) - 1
    <2>1. k + 1 \in Nat \ {0}
      OBVIOUS
    <2> QED BY <1>2, <2>1, FieldStartIs, Zenon
  <1>4. Cardinality(Below(S, q)) = Cardinality(Below(S, p))
    <2> HIDE DEF q, S
    <2>1. Cardinality(Below(S, p)) = k
      BY DEF S
    <2> QED BY <1>3, <2>1
  <1>5. p \in S
    OBVIOUS
  <1> HIDE DEF q, S
  <1>6. p = q
    BY <1>1, <1>3, <1>4, <1>5, PlaceIsUnique
  <1> QED BY <1>2, <1>6 DEF q, S

-----------------------------------------------------------------------------
(* A text behind another one.                                              *)

Behind(l, u, off) ==
  /\ off \in Nat /\ Len(u) \in Nat /\ Len(l) = off + Len(u)
  /\ \A r \in 1 .. Len(u) : l[off + r] = u[r]

LEMMA BehindIs ==
  ASSUME NEW G, NEW d \in Seq(G), NEW u \in Seq(G)
  PROVE  /\ d \o u \in Seq(G)
         /\ Behind(d \o u, u, Len(d))
         /\ \A r \in 1 .. Len(d) : (d \o u)[r] = d[r]
PROOF
  <1>1. /\ d \o u \in Seq(G) /\ Len(d \o u) = Len(d) + Len(u)
        /\ \A i \in 1 .. Len(d) + Len(u) :
             (d \o u)[i] = IF i <= Len(d) THEN d[i] ELSE u[i - Len(d)]
    BY ConcatProperties
  <1>2. Len(d) \in Nat /\ Len(u) \in Nat
    OBVIOUS
  <1>3. ASSUME NEW r \in 1 .. Len(u) PROVE (d \o u)[Len(d) + r] = u[r]
    <2>1. /\ Len(d) + r \in 1 .. Len(d) + Len(u) /\ ~(Len(d) + r <= Len(d))
          /\ (Len(d) + r) - Len(d) = r
      BY <1>2
    <2> QED BY <1>1, <2>1
  <1>4. \A r \in 1 .. Len(d) : (d \o u)[r] = d[r]
    BY <1>1, <1>2
  <1> QED BY <1>1, <1>2, <1>3, <1>4 DEF Behind

Part(t, a, b) == SubSeq(t, a + 1, b)

LEMMA PartBehind ==
  ASSUME NEW G, NEW l \in Seq(G), NEW u \in Seq(G), NEW off, Behind(l, u, off),
         NEW a \in 0 .. Len(u), NEW b \in 0 .. Len(u),
         NEW first, first = off + a, NEW last, last = off + b
  PROVE  Part(l, first, last) = Part(u, a, b)
PROOF
  <1> SUFFICES SubSeq(l, off + a + 1, off + b) = SubSeq(u, a + 1, b)
    BY DEF Part
  <1>1. /\ off \in Nat /\ Len(u) \in Nat /\ Len(l) = off + Len(u)
        /\ \A r \in 1 .. Len(u) : l[off + r] = u[r]
    BY DEF Behind
  <1>2. CASE b <= a
    <2>1. SubSeq(u, a + 1, b) = << >>
      BY <1>1, <1>2
    <2>2. SubSeq(l, off + a + 1, off + b) = << >>
      BY <1>1, <1>2
    <2> QED BY <2>1, <2>2
  <1>3. CASE a < b
    <2> DEFINE n == b - a
               x == SubSeq(l, off + a + 1, off + b)
               y == SubSeq(u, a + 1, b)
    <2>1. \A i \in 1 .. n : /\ (off + a + 1) + i - 1 = off + (a + i)
                            /\ (a + 1) + i - 1 = a + i
                            /\ a + i \in 1 .. Len(u)
      BY <1>1
    <2>2. /\ x = [i \in 1 .. n |-> l[off + (a + i)]]
          /\ y = [i \in 1 .. n |-> u[a + i]]
      <3>1. /\ n = ((off + b) - (off + a + 1)) + 1 /\ n = (b - (a + 1)) + 1
            /\ off + a + 1 \in 1 .. Len(l) /\ off + b \in 1 .. Len(l)
            /\ a + 1 \in 1 .. Len(u) /\ b \in 1 .. Len(u)
        BY <1>1, <1>3
      <3>2. /\ x = [i \in 1 .. n |-> l[(off + a + 1) + i - 1]]
            /\ y = [i \in 1 .. n |-> u[(a + 1) + i - 1]]
        BY <3>1, SMTT(60)
      <3> HIDE DEF n, x, y
      <3> QED BY <2>1, <3>2
    <2>3. \A i \in 1 .. n : l[off + (a + i)] = u[a + i]
      BY <1>1, <2>1
    <2> QED BY <2>2, <2>3
  <1> QED BY <1>1, <1>2, <1>3

LEMMA BlanksBehind ==
  ASSUME NEW l, NEW u, NEW off, Behind(l, u, off), NEW p \in 0 .. Len(u)
  PROVE  AfterBlanks(l, off + p) = off + AfterBlanks(u, p)
PROOF
  <1> DEFINE a == AfterBlanks(u, p)
  <1>1. /\ off \in Nat /\ Len(u) \in Nat /\ Len(l) = off + Len(u)
        /\ \A r \in 1 .. Len(u) : l[off + r] = u[r]
    BY DEF Behind
  <1>2. /\ a \in p .. Len(u)
        /\ \A r \in p + 1 .. a : u[r] = Blank
        /\ a = Len(u) \/ u[a + 1] # Blank
    BY <1>1, AfterBlanksIs
  <1> HIDE DEF a
  <1>3. off + p \in 0 .. Len(l) /\ off + a \in off + p .. Len(l) /\ Len(l) \in Nat
    BY <1>1, <1>2
  <1>4. ASSUME NEW r \in off + p + 1 .. off + a PROVE l[r] = Blank
    <2>1. r - off \in p + 1 .. a /\ r - off \in 1 .. Len(u) /\ off + (r - off) = r
      BY <1>1, <1>2
    <2> QED BY <1>1, <1>2, <2>1
  <1>5. off + a = Len(l) \/ l[off + a + 1] # Blank
    <2>1. CASE a = Len(u)
      BY <1>1, <2>1
    <2>2. CASE a # Len(u)
      <3>1. a + 1 \in 1 .. Len(u) /\ off + a + 1 = off + (a + 1)
        BY <1>1, <1>2, <2>2
      <3> QED BY <1>1, <1>2, <2>2, <3>1
    <2> QED BY <2>1, <2>2
  <1>6. AfterBlanks(l, off + p) = off + a
    BY <1>3, <1>4, <1>5, AfterBlanksUnique
  <1> QED BY <1>6 DEF a

-----------------------------------------------------------------------------
(* The decorated line.                                                     *)

Glyphs == Chars \cup {Digit[m] : m \in Nat} \cup {Separator}

Outputs == [i \in 1 .. Len(texts) |-> Output(decorate_keylist[i].conv, texts[i])]

DecorationLaid ==
  status \in {"decorating", "sorting", "done"} =>
    /\ decorated \in Seq(Glyphs)
    /\ \E at : Laid(decorated, Outputs, Len(texts), at, Separator)

Undecorated ==
  status = "done" =>
    LET l == decorated \o line
        p == BegField(job.tab, l, Len(l), SkipKey(Len(decorate_keylist)))
    IN  undecorated = SubSeq(l, p + 1, Len(l))

LineInv == TextsInv /\ DecorationLaid /\ Undecorated

LEMMA ConvertLays ==
  ASSUME LineInv, TextsInv', status = "decorating", NEW t, Convert(t),
         UNCHANGED <<job, line, decorate_keylist>>
  PROVE  DecorationLaid'
PROOF
  <1> SUFFICES ASSUME status' # "failed" PROVE DecorationLaid'
    BY DEF DecorationLaid
  <1> DEFINE n == Len(texts)
             conv == decorate_keylist[n + 1].conv
             out == Output(conv, t)
             C == Seq(Chars)
  <1>1. /\ decorated \in Seq(Glyphs)
        /\ \E at : Laid(decorated, Outputs, n, at, Separator)
    BY DEF LineInv, TextsInv, TextsCut, Adjusted, DecorationLaid
  <1>2. texts' = Append(texts, t) /\ decorated' = decorated \o Append(out, Separator)
        /\ status' \in {"decorating", "sorting"}
    BY DEF Convert
  <1>3. texts \in Seq(C) /\ texts' \in Seq(C)
    <2>1. Chars' = Chars
      BY DEF Chars
    <2>2. Adjusted'
      BY <1>2 DEF Adjusted
    <2> QED BY <2>1, <2>2 DEF LineInv, TextsInv, TextsCut, Adjusted
  <1>4. /\ n \in Nat /\ Len(texts') = n + 1 /\ texts'[n + 1] = t /\ t \in C
        /\ \A i \in 1 .. n : texts'[i] = texts[i]
    <2> HIDE DEF C
    <2>1. /\ n \in Nat /\ Len(texts') = n + 1 /\ texts'[n + 1] = t
          /\ \A i \in 1 .. n : texts'[i] = texts[i]
      BY <1>2, <1>3
    <2>2. n + 1 \in 1 .. Len(texts')
      BY <2>1
    <2>3. texts'[n + 1] \in C
      <3> HIDE DEF n
      <3> QED BY <1>3, <2>2
    <2> QED BY <2>1, <2>3
  <1>5. out \in Seq(Glyphs) /\ Separator \in Glyphs
    <2>1. Len(t) \in Nat /\ t \in Seq(Chars)
      BY <1>4
    <2>2. {Digit[0], Digit[Len(t)]} \subseteq Glyphs /\ Chars \subseteq Glyphs
          /\ Separator \in Glyphs
      BY <2>1 DEF Glyphs
    <2>3. <<Digit[0], Digit[Len(t)]>> \in Seq(Glyphs)
      <3> HIDE DEF Glyphs
      <3> QED BY <2>2
    <2>4. t \in Seq(Glyphs)
      <3> HIDE DEF Glyphs, Chars
      <3> QED BY <2>1, <2>2
    <2> QED BY <2>2, <2>3, <2>4 DEF Output
  <1>6. Glyphs' = Glyphs /\ Separator' = Separator
    BY DEF Glyphs, Chars, Separator
  <1>7. /\ \A i \in 1 .. n : Outputs'[i] = Outputs[i]
        /\ Outputs'[n + 1] = out
    <2>1. Outputs' = [i \in 1 .. n + 1 |-> Output(decorate_keylist[i].conv, texts'[i])]
      BY <1>4, Zenon DEF Outputs, Output
    <2>2. Outputs = [i \in 1 .. n |-> Output(decorate_keylist[i].conv, texts[i])]
      BY DEF Outputs
    <2>3. \A i \in 1 .. n : i \in 1 .. n + 1
      BY <1>4
    <2>4. n + 1 \in 1 .. n + 1
      BY <1>4
    <2>5. \A i \in 1 .. n + 1 : Outputs'[i] = Output(decorate_keylist[i].conv, texts'[i])
      BY <2>1, Zenon
    <2>6. \A i \in 1 .. n : Outputs[i] = Output(decorate_keylist[i].conv, texts[i])
      BY <2>2, Zenon
    <2>7. ASSUME NEW i \in 1 .. n PROVE Outputs'[i] = Outputs[i]
      <3>1. texts'[i] = texts[i]
        BY <1>4
      <3> QED BY <2>3, <2>5, <2>6, <3>1, Zenon
    <2>8. Outputs'[n + 1] = out
      <3>1. texts'[n + 1] = t
        BY <1>4
      <3> QED BY <2>4, <2>5, <3>1, Zenon
    <2> QED BY <2>7, <2>8
  <1>8. PICK at : Laid(decorated, Outputs, n, at, Separator)
    BY <1>1
  <1>9. \E next : Laid(decorated \o Append(out, Separator), Outputs', n + 1, next,
                       Separator)
    <2>1. \A i \in 1 .. n : Outputs'[i] = Outputs[i]
      BY <1>7
    <2> HIDE DEF n, out, Glyphs
    <2> QED BY <1>1, <1>4, <1>5, <1>7, <1>8, <2>1, LaidNext DEF n
  <1>10. decorated' \in Seq(Glyphs)
    <2> HIDE DEF Glyphs, out
    <2> QED BY <1>1, <1>2, <1>5
  <1> QED BY <1>2, <1>4, <1>6, <1>9, <1>10 DEF DecorationLaid

LEMMA LineInit ==
  ASSUME Init
  PROVE  LineInv
PROOF
  <1>1. TextsInv
    BY TextsInit
  <1>2. status = "options"
    BY DEF Init
  <1> QED BY <1>1, <1>2 DEF LineInv, DecorationLaid, Undecorated

LEMMA LineStep ==
  ASSUME LineInv, [Next]_vars
  PROVE  LineInv'
PROOF
  <1>1. TextsInv'
    BY TextsStep DEF LineInv
  <1>2. ASSUME ParseKey PROVE LineInv'
    <2>1. status' \in {"options", "refused"}
      BY <1>2 DEF ParseKey
    <2> QED BY <1>1, <2>1 DEF LineInv, DecorationLaid, Undecorated
  <1>3. ASSUME AdjustKeys PROVE LineInv'
    <2>1. /\ status' \in {"decorating", "refused"} /\ decorated' = << >>
          /\ texts' = << >>
      BY <1>3 DEF AdjustKeys, LineInv, TextsInv, KeysParsed
    <2> DEFINE at == [k \in 0 .. 0 |-> 0]
    <2>2. Laid(<< >>, Outputs', 0, at, Separator')
      <3>1. /\ at \in [0 .. 0 -> 0 .. 0] /\ at[0] = 0 /\ 1 .. 0 = {} /\ Len(<< >>) = 0
        OBVIOUS
      <3> HIDE DEF at
      <3> QED BY <3>1 DEF Laid
    <2>3. decorated' \in Seq(Glyphs') /\ Len(texts') = 0
      <3> HIDE DEF Glyphs
      <3> QED BY <2>1
    <2>4. Laid(decorated', Outputs', Len(texts'), at, Separator')
      BY <2>1, <2>2, <2>3, Zenon
    <2>5. DecorationLaid'
      BY <2>3, <2>4 DEF DecorationLaid
    <2> QED BY <1>1, <2>1, <2>5 DEF LineInv, Undecorated
  <1>4. ASSUME NEW t, Convert(t), status = "decorating",
               UNCHANGED <<job, line, decorate_keylist>>
        PROVE  LineInv'
    <2>1. DecorationLaid'
      BY <1>1, <1>4, ConvertLays
    <2>2. status' # "done"
      BY <1>4 DEF Convert
    <2> QED BY <1>1, <2>1, <2>2 DEF LineInv, Undecorated
  <1>5. ASSUME ConvertFirst PROVE LineInv'
    BY <1>4, <1>5 DEF ConvertFirst
  <1>6. ASSUME ConvertNext PROVE LineInv'
    BY <1>4, <1>6 DEF ConvertNext
  <1>7. ASSUME Undecorate PROVE LineInv'
    <2>1. /\ status = "sorting" /\ status' = "done" /\ decorated' = decorated
          /\ texts' = texts /\ decorate_keylist' = decorate_keylist
          /\ job' = job /\ line' = line
      BY <1>7 DEF Undecorate
    <2>2. Glyphs' = Glyphs /\ Separator' = Separator /\ Outputs' = Outputs
      BY <2>1, Zenon DEF Glyphs, Chars, Separator, Outputs, Output
    <2>3. DecorationLaid'
      BY <2>1, <2>2 DEF LineInv, DecorationLaid
    <2>4. Undecorated'
      BY <1>7, <2>1 DEF Undecorate, Undecorated
    <2> QED BY <1>1, <2>3, <2>4 DEF LineInv
  <1>8. ASSUME UNCHANGED vars PROVE LineInv'
    <2>1. /\ status' = status /\ decorated' = decorated /\ undecorated' = undecorated
          /\ texts' = texts /\ decorate_keylist' = decorate_keylist
          /\ job' = job /\ line' = line
      BY <1>8 DEF vars
    <2>2. Glyphs' = Glyphs /\ Separator' = Separator /\ Outputs' = Outputs
      BY <2>1, Zenon DEF Glyphs, Chars, Separator, Outputs, Output
    <2>3. DecorationLaid'
      BY <2>1, <2>2 DEF LineInv, DecorationLaid
    <2>4. Undecorated'
      BY <2>1 DEF LineInv, Undecorated
    <2> QED BY <1>1, <2>3, <2>4 DEF LineInv
  <1> QED BY <1>2, <1>3, <1>5, <1>6, <1>7, <1>8 DEF Next, Stopped

LEMMA LineAlways == Spec => []LineInv
  <1>1. Init => LineInv
    BY LineInit
  <1>2. LineInv /\ [Next]_vars => LineInv'
    BY LineStep
  <1> QED BY <1>1, <1>2, PTL DEF Spec

(* The decorated line when all the conversions are made.                   *)
LEMMA WhenDecorated ==
  ASSUME LineInv, status \in {"sorting", "done"}, Tidy
  PROVE  /\ job \in Jobs /\ line \in Lines /\ Valid(job)
         /\ Separator = SepOf(job.tab)
         /\ Len(texts) \in Nat \ {0} /\ Len(texts) = Count(Given(job))
         /\ Len(decorate_keylist) = Len(texts)
         /\ decorated \in Seq(Glyphs) /\ line \in Seq(Glyphs)
         /\ Outputs \in Seq(Seq(Glyphs))
         /\ Clean(job.tab, Outputs, Len(texts))
         /\ \E at : Laid(decorated, Outputs, Len(texts), at, SepOf(job.tab))
PROOF
  <1> DEFINE n == Len(texts)
  <1>1. /\ Adjusted /\ job \in Jobs /\ line \in Lines /\ Valid(job)
        /\ decorate_keylist = ToConvert(Given(job)) /\ Count(Given(job)) # 0
        /\ texts \in Seq(Seq(Chars)) /\ Len(texts) = Count(Given(job))
        /\ decorated \in Seq(Glyphs)
        /\ \E at : Laid(decorated, Outputs, n, at, Separator)
    BY DEF LineInv, TextsInv, KeysParsed, KeysAdjusted, TextsCut, DecorationLaid, Adjusted
  <1>2. Len(decorate_keylist) = n /\ n \in Nat \ {0}
    <2>1. Count(Given(job)) \in Nat /\ Len(decorate_keylist) = Count(Given(job))
      BY <1>1, WantedIs
    <2> QED BY <1>1, <2>1
  <1>3. Separator = SepOf(job.tab)
    BY DEF Separator, SepOf
  <1>4. line \in Seq(Glyphs)
    <2>1. line \in Seq(Range(line)) /\ Range(line) \subseteq Glyphs
      BY <1>1, LineIs DEF Glyphs, Chars
    <2> DEFINE R == Range(line)
    <2> HIDE DEF Glyphs, R
    <2>2. line \in Seq(R) /\ R \subseteq Glyphs
      BY <2>1 DEF R
    <2> QED BY <2>2
  <1>5. ASSUME NEW k \in 1 .. n
        PROVE  /\ Outputs[k] \in Seq(Glyphs) /\ k \in DOMAIN texts
               /\ Outputs[k] = Output(decorate_keylist[k].conv, texts[k])
    <2> DEFINE C == Seq(Chars)
    <2>1. texts[k] \in C /\ k \in DOMAIN texts
      <3>1. texts \in Seq(C)
        BY <1>1
      <3> HIDE DEF C
      <3> QED BY <3>1
    <2>2. Outputs[k] = Output(decorate_keylist[k].conv, texts[k])
      BY DEF Outputs
    <2> DEFINE t == texts[k]
    <2>3. t \in Seq(Chars) /\ Len(t) \in Nat
      BY <2>1
    <2> HIDE DEF t
    <2>4. {Digit[0], Digit[Len(t)]} \subseteq Glyphs /\ Chars \subseteq Glyphs
      BY <2>3 DEF Glyphs
    <2>5. <<Digit[0], Digit[Len(t)]>> \in Seq(Glyphs) /\ t \in Seq(Glyphs)
      <3> HIDE DEF Glyphs, Chars
      <3> QED BY <2>3, <2>4
    <2>6. Output(decorate_keylist[k].conv, t) \in Seq(Glyphs)
      BY <2>5 DEF Output
    <2> QED BY <2>1, <2>2, <2>6 DEF t
  <1>6. Outputs \in Seq(Seq(Glyphs))
    <2> DEFINE C == Seq(Glyphs)
    <2>1. \A k \in 1 .. n : Outputs[k] \in C
      BY <1>5
    <2>2. Outputs = [k \in 1 .. n |-> Outputs[k]]
      BY DEF Outputs
    <2> HIDE DEF C
    <2>3. Outputs \in Seq(C)
      BY <1>2, <2>1, <2>2
    <2> QED BY <2>3 DEF C
  <1>7. Clean(job.tab, Outputs, n)
    <2> SUFFICES ASSUME NEW k \in 1 .. n
                 PROVE  /\ Len(Outputs[k]) >= 1
                        /\ \A r \in 1 .. Len(Outputs[k]) :
                             Outputs[k][r] # Blank /\ Outputs[k][r] # job.tab
      BY DEF Clean
    <2> DEFINE o == Outputs[k]
    <2>1. o # << >> /\ Range(o) \cap {Blank, job.tab} = {}
      BY <1>5 DEF Tidy
    <2>2. o \in Seq(Glyphs)
      BY <1>5
    <2> HIDE DEF o
    <2>3. Len(o) >= 1
      <3> HIDE DEF Glyphs
      <3> QED BY <2>1, <2>2
    <2>4. \A r \in 1 .. Len(o) : o[r] \in Range(o)
      <3>1. DOMAIN o = 1 .. Len(o)
        <4> HIDE DEF Glyphs
        <4> QED BY <2>2
      <3> QED BY <3>1 DEF Range
    <2> QED BY <2>1, <2>3, <2>4 DEF o
  <1> QED BY <1>1, <1>2, <1>3, <1>4, <1>6, <1>7

LEMMA RestoredIs ==
  ASSUME LineInv
  PROVE  Restored
PROOF
  <1> DEFINE a == AfterBlanks(line, 0)
             text == SubSeq(line, a + 1, Len(line))
             n == Len(texts)
             tab == job.tab
             l == decorated \o line
             D == Len(decorated)
  <1> SUFFICES ASSUME status = "done", Tidy, text # << >> PROVE undecorated = text
    BY DEF Restored
  <1>1. /\ job \in Jobs /\ line \in Lines
        /\ n \in Nat \ {0} /\ Len(decorate_keylist) = n
        /\ decorated \in Seq(Glyphs) /\ line \in Seq(Glyphs)
        /\ Clean(tab, Outputs, n)
        /\ \E at : Laid(decorated, Outputs, n, at, SepOf(tab))
    BY WhenDecorated
  <1>2. PICK at : Laid(decorated, Outputs, n, at, SepOf(tab))
    BY <1>1
  <1>3. /\ l \in Seq(Glyphs) /\ Behind(l, line, D)
        /\ \A r \in 1 .. D : l[r] = decorated[r]
    <2> HIDE DEF Glyphs
    <2> QED BY <1>1, BehindIs
  <1>4. D \in Nat /\ Len(line) \in Nat /\ Len(l) = D + Len(line) /\ Len(l) \in Nat
    <2>1. D \in Nat
      <3> HIDE DEF Glyphs
      <3> QED BY <1>1
    <2> QED BY <1>3, <2>1 DEF Behind
  <1>5. a \in 0 .. Len(line) /\ a < Len(line)
    <2>1. a \in 0 .. Len(line)
      BY <1>4, AfterBlanksIs
    <2>2. a # Len(line)
      <3> HIDE DEF a
      <3>1. a = Len(line) => text = << >>
        <4> HIDE DEF Glyphs
        <4> QED BY <1>1, <1>4
      <3> QED BY <3>1
    <2> HIDE DEF a
    <2> QED BY <1>4, <2>1, <2>2
  <1> DEFINE cut == CutAt(tab, at, n)
  <1>6. FieldStart(tab, l, n + 1) = cut /\ cut \in 0 .. D
    <2> HIDE DEF l, D, n, tab
    <2>1. D <= Len(l)
      BY <1>4
    <2>2. /\ cut \in FieldStarts(tab, l)
          /\ Cardinality(Below(FieldStarts(tab, l), cut)) = n
      <3>1. n \in 0 .. n /\ n \in Nat
        BY <1>1
      <3>2. /\ Len(decorated) \in Nat /\ Len(decorated) <= Len(l)
            /\ \A r \in 1 .. Len(decorated) : l[r] = decorated[r]
        BY <1>3, <1>4, <2>1 DEF D
      <3> QED BY <1>1, <1>2, <1>4, <3>1, <3>2, CutsAre, SMTT(40)
    <2>3. FieldStart(tab, l, n + 1) = cut
      <3>1. n \in Nat
        BY <1>1
      <3> QED BY <1>4, <2>2, <3>1, StartAtPlace
    <2>4. at[n] = D /\ at[n] = at[n - 1] + Len(Outputs[n]) + 1 /\ n # 0
          /\ at[n - 1] \in Nat /\ Len(Outputs[n]) \in Nat
      <3>1. n \in Nat /\ n # 0 /\ n \in 1 .. n /\ n \in 0 .. n /\ n - 1 \in 0 .. n
        BY <1>1
      <3>2. /\ at \in [0 .. n -> 0 .. D] /\ at[n] = D
            /\ \A k \in 1 .. n : /\ Len(Outputs[k]) \in Nat
                                  /\ at[k] = at[k - 1] + Len(Outputs[k]) + 1
        BY <1>2 DEF Laid, D
      <3>3. at[n - 1] \in 0 .. D
        BY <3>1, <3>2
      <3> QED BY <3>1, <3>2, <3>3
    <2>5. cut = at[n] - 1 + SepLen(tab)
      BY <2>4 DEF CutAt
    <2> HIDE DEF cut
    <2>6. cut \in 0 .. D
      BY <1>4, <2>4, <2>5, SMTT(40) DEF SepLen
    <2> QED BY <2>3, <2>6
  <1>7. cut = IF tab = NoTab THEN D - 1 ELSE D
    <2>1. at[n] = D /\ n # 0
      BY <1>1, <1>2 DEF Laid
    <2> HIDE DEF D, n, tab
    <2> QED BY <1>4, <2>1 DEF CutAt, SepLen
  <1>8. tab = NoTab => l[D] = Blank /\ D # 0
    <2>1. at[n] = D /\ n # 0 /\ decorated[at[n]] = SepOf(tab)
      BY <1>1, <1>2 DEF Laid
    <2> HIDE DEF D, n, tab, l
    <2>2. tab = NoTab => D # 0
      <3> HIDE DEF cut
      <3> QED BY <1>4, <1>6, <1>7
    <2> QED BY <1>3, <1>4, <2>1, <2>2 DEF SepOf
  <1>9. AfterBlanks(l, cut) = D + a
    <2>1. AfterBlanks(l, D + 0) = D + a
      <3> HIDE DEF l, D
      <3>1. 0 \in 0 .. Len(line)
        BY <1>4
      <3> QED BY <1>3, <3>1, BlanksBehind
    <2>2. CASE tab # NoTab
      <3> HIDE DEF l, D, a
      <3> QED BY <1>4, <1>7, <2>1, <2>2
    <2>3. CASE tab = NoTab
      <3>1. AfterBlanks(l, D) = D + a
        <4> HIDE DEF l, D, a
        <4> QED BY <1>4, <2>1
      <3> HIDE DEF l, D, a, tab, cut
      <3>2. /\ D + a \in D .. Len(l)
            /\ \A r \in D + 1 .. D + a : l[r] = Blank
            /\ D + a = Len(l) \/ l[D + a + 1] # Blank
        <4>1. D \in 0 .. Len(l)
          BY <1>4
        <4> QED BY <1>4, <3>1, <4>1, AfterBlanksIs
      <3>3. cut \in 0 .. Len(l) /\ cut = D - 1 /\ D + a \in cut .. Len(l)
        BY <1>4, <1>5, <1>6, <1>7, <2>3
      <3>4. ASSUME NEW r \in cut + 1 .. D + a PROVE l[r] = Blank
        <4>1. r = D \/ r \in D + 1 .. D + a
          BY <1>4, <1>5, <3>3
        <4> QED BY <1>8, <2>3, <3>2, <4>1
      <3> QED BY <1>4, <3>2, <3>3, <3>4, AfterBlanksUnique
    <2> QED BY <2>2, <2>3
  <1> DEFINE k == [f |-> n + 1, c |-> 1, b |-> TRUE, e |-> 1, d |-> 0, eb |-> FALSE]
             key == SkipKey(n)
  <1>10. Means(key, k)
    <2>1. /\ key.sword = n /\ key.schar = 0 /\ key.eword = 0 /\ key.echar = 0
          /\ k.f = n + 1 /\ k.c = 1 /\ k.e = 1 /\ k.d = 0
      BY DEF SkipKey
    <2>2. key.skipsblanks = TRUE /\ key.skipeblanks = FALSE /\ k.b = TRUE /\ k.eb = FALSE
      BY DEF SkipKey
    <2>3. /\ key.skipsblanks \in BOOLEAN /\ k.b = key.skipsblanks
          /\ key.skipeblanks \in BOOLEAN /\ k.eb = key.skipeblanks
      BY <2>2, Zenon
    <2>4. SizeMax \in Nat \ {0}
      BY DecorateKeysAssumption
    <2> HIDE DEF key, k, n
    <2>5. /\ key.sword \in Nat /\ key.schar \in Nat
          /\ k.f = key.sword + 1 /\ k.c = key.schar + 1
          /\ key.eword \in 0 .. SizeMax - 1 /\ key.echar \in Nat
          /\ k.e = key.eword + 1 /\ k.d = key.echar
      BY <1>1, <2>1, <2>4
    <2> QED BY <2>3, <2>5, Zenon DEF Means
  <1>11. KeyStart(tab, l, k) = D + a
    <2>1. k.f = n + 1 /\ k.c - 1 = 0
      OBVIOUS
    <2>2. k.b = TRUE
      OBVIOUS
    <2>3. KeyStart(tab, l, k)
            = InLine(l, (k.c - 1) + AfterBlanks(l, FieldStart(tab, l, k.f)))
      BY <2>2, Zenon DEF KeyStart
    <2>4. KeyStart(tab, l, k) = InLine(l, 0 + AfterBlanks(l, cut))
      BY <1>6, <2>1, <2>3, Zenon
    <2>5. KeyStart(tab, l, k) = InLine(l, 0 + (D + a))
      BY <1>9, <2>4, Zenon
    <2> HIDE DEF k, l, D, a
    <2> QED BY <1>4, <1>5, <2>5 DEF InLine
  <1>12. BegField(tab, l, Len(l), key) = D + a
    <2> HIDE DEF l, k, key, D, a
    <2>1. Most(Len(l) - 1, 0) = Len(l) - 1 /\ D + a <= Len(l) - 1
          /\ Len(l) - 1 \in Nat
      BY <1>4, <1>5 DEF Most
    <2>2. Begins(l, l, Most(Len(l) - 1, 0))
      BY <1>4, <2>1 DEF Begins
    <2>3. BegField(tab, l, Len(l), key)
            = Least(KeyStart(tab, l, k), Most(Len(l) - 1, 0))
      <3>1. PICK len : len = Len(l)
        OBVIOUS
      <3>2. len \in Nat /\ Begins(l, l, Most(len - 1, 0))
        BY <1>4, <2>2, <3>1
      <3>3. BegField(tab, l, len, key) = Least(KeyStart(tab, l, k), Most(len - 1, 0))
        <4> HIDE DEF tab
        <4> QED BY <1>10, <3>2, BegFieldIs
      <3> QED BY <3>1, <3>3
    <2> QED BY <1>4, <1>5, <1>11, <2>1, <2>3, LeastIs
  <1>13. undecorated = SubSeq(l, D + a + 1, D + Len(line))
    <2>1. undecorated = SubSeq(l, BegField(tab, l, Len(l), SkipKey(Len(decorate_keylist))) + 1,
                               Len(l))
      BY DEF LineInv, Undecorated
    <2> QED BY <1>1, <1>4, <1>12, <2>1
  <1> HIDE DEF l, D, a, Glyphs
  <1>14. Len(line) \in 0 .. Len(line)
    BY <1>4
  <1>15. SubSeq(l, D + a + 1, D + Len(line)) = SubSeq(line, a + 1, Len(line))
    <2>1. l \in Seq(Glyphs) /\ line \in Seq(Glyphs) /\ Behind(l, line, D)
          /\ a \in 0 .. Len(line)
      BY <1>1, <1>3, <1>5
    <2>2. PICK first, last : first = D + a /\ last = D + Len(line)
      OBVIOUS
    <2>3. Part(l, first, last) = Part(line, a, Len(line))
      BY <1>14, <2>1, <2>2, PartBehind
    <2> QED BY <2>2, <2>3 DEF Part
  <1> QED BY <1>13, <1>15 DEF a

(* The line comes back without its leading blanks, whatever the keys and   *)
(* the line are, when each conversion is one field and the line is not     *)
(* blank: what is skipped is exactly what was printed before it.           *)
(* (undecorate_file)                                                       *)
THEOREM LinesComeBack == Spec => []Restored
  <1>1. LineInv => Restored
    BY RestoredIs
  <1> QED BY <1>1, LineAlways, PTL

-----------------------------------------------------------------------------
(* Fields behind other fields.                                             *)

(* From m on S has the members of T, off further on, behind n others.      *)
Moves(S, T, off, n, m) ==
  /\ S \in SUBSET Nat /\ T \in SUBSET Nat /\ IsFiniteSet(S) /\ IsFiniteSet(T)
  /\ off \in Nat /\ n \in Nat /\ m \in Nat
  /\ Cardinality(Below(S, off + m)) = n + Cardinality(Below(T, m))
  /\ \A s \in Nat : s >= m => (s \in T <=> off + s \in S)

LEMMA BelowMoves ==
  ASSUME NEW S, NEW T, NEW off, NEW n, NEW m, Moves(S, T, off, n, m)
  PROVE  \A q \in Nat : q >= m =>
           Cardinality(Below(S, off + q)) = n + Cardinality(Below(T, q))
PROOF
  <1>0. /\ S \in SUBSET Nat /\ T \in SUBSET Nat /\ IsFiniteSet(S) /\ IsFiniteSet(T)
        /\ off \in Nat /\ n \in Nat /\ m \in Nat
        /\ Cardinality(Below(S, off + m)) = n + Cardinality(Below(T, m))
        /\ \A s \in Nat : s >= m => (s \in T <=> off + s \in S)
    BY DEF Moves
  <1> DEFINE Good(q) == Cardinality(Below(S, off + q)) = n + Cardinality(Below(T, q))
             Bad == {q \in Nat : q >= m /\ ~Good(q)}
  <1> SUFFICES ASSUME Bad # {} PROVE FALSE
    OBVIOUS
  <1>1. PICK q \in Bad : \A r \in Bad : q <= r
    <2>1. Bad \in SUBSET Nat
      OBVIOUS
    <2> HIDE DEF Bad
    <2> QED BY <2>1, LeastNumber
  <1>2. q \in Nat /\ q >= m /\ ~Good(q)
    BY <1>1
  <1>3. q # m
    BY <1>0, <1>2
  <1>4. q - 1 \in Nat /\ q - 1 >= m /\ q - 1 \notin Bad
    <2> HIDE DEF Bad
    <2> QED BY <1>0, <1>1, <1>2, <1>3
  <1> DEFINE p == q - 1
  <1>5. /\ p \in Nat /\ p >= m /\ q = p + 1 /\ off + q = (off + p) + 1
        /\ off + p \in Nat
    BY <1>0, <1>2, <1>4
  <1>6. Good(p)
    BY <1>4
  <1> HIDE DEF p, Bad
  <1>7. \A x \in S \cup T : x \in Nat
    BY <1>0
  <1>8. /\ Cardinality(Below(S, off + p)) \in Nat
        /\ Cardinality(Below(T, p)) \in Nat
    BY <1>0, BelowSize
  <1>9. CASE p \in T
    <2>1. off + p \in S
      BY <1>0, <1>5, <1>9
    <2>2. /\ \A s \in T : ~(p < s /\ s < p + 1)
          /\ \A s \in S : ~(off + p < s /\ s < (off + p) + 1)
      BY <1>0, <1>5, <1>7
    <2>3. Cardinality(Below(T, p + 1)) = Cardinality(Below(T, p)) + 1
      BY <1>0, <1>5, <1>9, <2>2, BelowNext
    <2>4. Cardinality(Below(S, (off + p) + 1)) = Cardinality(Below(S, off + p)) + 1
      <3>1. PICK x : x = off + p
        OBVIOUS
      <3>2. /\ x \in S /\ x + 1 \in Int /\ x < x + 1
            /\ \A s \in S : ~(x < s /\ s < x + 1)
        BY <1>5, <2>1, <2>2, <3>1
      <3>3. Cardinality(Below(S, x + 1)) = Cardinality(Below(S, x)) + 1
        BY <1>0, <3>2, BelowNext
      <3> QED BY <3>1, <3>3
    <2>5. Cardinality(Below(S, off + q)) = Cardinality(Below(S, off + p)) + 1
      BY <1>5, <2>4
    <2>6. Cardinality(Below(T, q)) = Cardinality(Below(T, p)) + 1
      BY <1>5, <2>3
    <2> QED BY <1>0, <1>2, <1>6, <1>8, <2>5, <2>6
  <1>10. CASE p \notin T
    <2>1. off + p \notin S
      BY <1>0, <1>5, <1>10
    <2>2. Below(T, q) = Below(T, p)
      <3>1. \A s \in T : s < q <=> s < p
        BY <1>0, <1>5, <1>7, <1>10
      <3> QED BY <3>1 DEF Below
    <2>3. Below(S, off + q) = Below(S, off + p)
      <3>1. \A s \in S : s < off + q <=> s < off + p
        BY <1>0, <1>5, <1>7, <2>1
      <3> QED BY <3>1 DEF Below
    <2> QED BY <1>2, <1>6, <2>2, <2>3
  <1> QED BY <1>9, <1>10

LEMMA StartsBehind ==
  ASSUME NEW tab, NEW l, NEW u, NEW off, Behind(l, u, off), NEW q \in Nat \ {0}
  PROVE  q \in FieldStarts(tab, u) <=> off + q \in FieldStarts(tab, l)
PROOF
  <1>1. /\ off \in Nat /\ Len(u) \in Nat /\ Len(l) = off + Len(u)
        /\ \A r \in 1 .. Len(u) : l[off + r] = u[r]
    BY DEF Behind
  <1>2. /\ q \in 1 .. Len(u) <=> off + q \in 1 .. Len(l)
        /\ q < Len(u) <=> off + q < Len(l)
        /\ off + q # 0 /\ q # 0
    BY <1>1
  <1>3. q \in 1 .. Len(u) => l[off + q] = u[q]
    BY <1>1
  <1>4. q < Len(u) => l[off + q + 1] = u[q + 1]
    <2>1. q < Len(u) => q + 1 \in 1 .. Len(u) /\ off + (q + 1) = off + q + 1
      BY <1>1
    <2> QED BY <1>1, <2>1
  <1> DEFINE x == off + q
  <1>5. CASE tab # NoTab
    <2>1. q \in FieldStarts(tab, u) <=> q \in 1 .. Len(u) /\ u[q] = tab
      BY <1>2, <1>5 DEF FieldStarts
    <2>2. x \in FieldStarts(tab, l) <=> x \in 1 .. Len(l) /\ l[x] = tab
      BY <1>2, <1>5 DEF FieldStarts
    <2> QED BY <1>2, <1>3, <2>1, <2>2
  <1>6. CASE tab = NoTab
    <2>1. q \in FieldStarts(tab, u) <=>
            q \in 1 .. Len(u) /\ q < Len(u) /\ u[q] # Blank /\ u[q + 1] = Blank
      BY <1>2, <1>6 DEF FieldStarts
    <2>2. x \in FieldStarts(tab, l) <=>
            x \in 1 .. Len(l) /\ x < Len(l) /\ l[x] # Blank /\ l[x + 1] = Blank
      BY <1>2, <1>6 DEF FieldStarts
    <2> QED BY <1>2, <1>3, <1>4, <2>1, <2>2
  <1> QED BY <1>5, <1>6

(* From the position m of u on, n fields more are in front in l.           *)
Shifts(tab, l, u, off, n, m) ==
  /\ Behind(l, u, off) /\ n \in Nat /\ m \in {0, 1}
  /\ Cardinality(Below(FieldStarts(tab, l), off + m))
       = n + Cardinality(Below(FieldStarts(tab, u), m))
  /\ m = 0 => off \in FieldStarts(tab, l)

LEMMA FieldsShift ==
  ASSUME NEW tab, NEW l, NEW u, NEW off, NEW n, NEW m, Shifts(tab, l, u, off, n, m),
         NEW f \in Nat \ {0}
  PROVE  /\ m = 0 \/ f > 1 =>
              FieldStart(tab, l, f + n) = off + FieldStart(tab, u, f)
         /\ FieldEnd(tab, l, f + n) = off + FieldEnd(tab, u, f)
PROOF
  <1> DEFINE S == FieldStarts(tab, l)
             T == FieldStarts(tab, u)
  <1>1. /\ off \in Nat /\ Len(u) \in Nat /\ Len(l) = off + Len(u) /\ Len(l) \in Nat
        /\ n \in Nat /\ m \in {0, 1} /\ Behind(l, u, off)
    BY DEF Shifts, Behind
  <1>2. /\ S \in SUBSET Nat /\ IsFiniteSet(S) /\ Cardinality(S) \in Nat
        /\ T \in SUBSET Nat /\ IsFiniteSet(T) /\ Cardinality(T) \in Nat
        /\ 0 \in T
    BY <1>1, StartsAre
  <1>3. \A s \in Nat : s >= m => (s \in T <=> off + s \in S)
    <2> TAKE s \in Nat
    <2>1. CASE s = 0
      <3>1. s >= m => off \in S
        BY <1>1, <2>1 DEF Shifts
      <3>2. off + s = off
        BY <1>1, <2>1
      <3> QED BY <1>2, <2>1, <3>1, <3>2
    <2>2. CASE s # 0
      <3>1. s \in Nat \ {0}
        BY <2>2
      <3> QED BY <1>1, <3>1, StartsBehind
    <2> QED BY <2>1, <2>2
  <1>4. \A q \in Nat : q >= m =>
          Cardinality(Below(S, off + q)) = n + Cardinality(Below(T, q))
    <2>1. Cardinality(Below(S, off + m)) = n + Cardinality(Below(T, m))
      BY DEF Shifts
    <2>2. m \in Nat /\ off \in Nat /\ n \in Nat
      BY <1>1
    <2>3. S \in SUBSET Nat /\ T \in SUBSET Nat /\ IsFiniteSet(S) /\ IsFiniteSet(T)
      BY <1>2
    <2> HIDE DEF S, T
    <2>4. Moves(S, T, off, n, m)
      BY <1>3, <2>1, <2>2, <2>3 DEF Moves
    <2> QED BY <2>4, BelowMoves
  <1>5. Cardinality(S) = n + Cardinality(T)
    <2>1. /\ \A s \in S : s \in 0 .. Len(l)
          /\ \A s \in T : s \in 0 .. Len(u)
      BY <1>1, StartsAre
    <2> HIDE DEF S, T
    <2>2. Len(u) + 1 \in Nat /\ Len(u) + 1 >= m /\ off + (Len(u) + 1) = Len(l) + 1
      BY <1>1
    <2>3. /\ \A s \in S : s < Len(l) + 1
          /\ \A s \in T : s < Len(u) + 1
      BY <1>1, <2>1
    <2>4. Below(S, Len(l) + 1) = S /\ Below(T, Len(u) + 1) = T
      BY <2>3 DEF Below
    <2>5. Cardinality(Below(S, off + (Len(u) + 1)))
            = n + Cardinality(Below(T, Len(u) + 1))
      BY <1>4, <2>2
    <2> QED BY <2>2, <2>4, <2>5
  <1>6. ASSUME NEW h \in Nat \ {0}, m = 0 \/ h > 1
        PROVE  FieldStart(tab, l, h + n) = off + FieldStart(tab, u, h)
    <2> DEFINE q == FieldStart(tab, u, h)
    <2>1. /\ q \in 0 .. Len(u)
          /\ h <= Cardinality(T) => q \in T /\ Cardinality(Below(T, q)) = h - 1
          /\ ~(h <= Cardinality(T)) => q = Len(u)
      BY <1>1, FieldStartIs, Zenon
    <2>2. /\ h + n \in Nat \ {0} /\ (h + n) - 1 \in Nat /\ ((h + n) - 1) + 1 = h + n
          /\ h <= Cardinality(T) <=> h + n <= Cardinality(S)
      BY <1>1, <1>2, <1>5
    <2> HIDE DEF S, T, q
    <2>3. CASE h <= Cardinality(T)
      <3>1. q \in Nat /\ q >= m
        <4>1. q \in Nat
          BY <1>2, <2>1, <2>3
        <4>2. ASSUME m = 1, q = 0 PROVE FALSE
          <5>1. \A s \in T : ~(s < 0)
            BY <1>2
          <5>2. Below(T, 0) = {}
            BY <5>1 DEF Below
          <5>3. Cardinality(Below(T, q)) = 0
            BY <4>2, <5>2, FS_EmptySet
          <5> QED BY <1>6, <2>1, <2>3, <4>2, <5>3
        <4> QED BY <1>1, <4>1, <4>2
      <3>2. off + q \in S
        BY <1>3, <2>1, <2>3, <3>1
      <3>3. Cardinality(Below(S, off + q)) = (h + n) - 1
        BY <1>1, <1>4, <2>1, <2>3, <3>1
      <3>4. PICK x, k : x = off + q /\ k = (h + n) - 1
        OBVIOUS
      <3>5. k \in Nat /\ x \in FieldStarts(tab, l)
            /\ Cardinality(Below(FieldStarts(tab, l), x)) = k
        BY <2>2, <3>2, <3>3, <3>4 DEF S
      <3>6. FieldStart(tab, l, k + 1) = x
        BY <1>1, <3>5, StartAtPlace
      <3> QED BY <2>2, <3>4, <3>6 DEF q
    <2>4. CASE ~(h <= Cardinality(T))
      <3>1. ~(h + n <= Cardinality(S))
        BY <2>2, <2>4
      <3>2. PICK g : g = h + n
        OBVIOUS
      <3>3. g \in Nat \ {0} /\ ~(g <= Cardinality(FieldStarts(tab, l)))
        BY <2>2, <3>1, <3>2 DEF S
      <3>4. FieldStart(tab, l, g) = Len(l)
        BY <1>1, <3>3, FieldStartIs
      <3> QED BY <1>1, <2>1, <2>4, <3>2, <3>4 DEF q
    <2> QED BY <2>3, <2>4
  <1>7. FieldEnd(tab, l, f + n) = off + FieldEnd(tab, u, f)
    <2> DEFINE sep == IF tab = NoTab THEN 0 ELSE 1
    <2>1. FieldEnd(tab, u, f) = IF f >= Cardinality(T) THEN Len(u)
                                ELSE FieldStart(tab, u, f + 1) - sep
      BY DEF FieldEnd
    <2>2. FieldEnd(tab, l, f + n) = IF f + n >= Cardinality(S) THEN Len(l)
                                    ELSE FieldStart(tab, l, (f + n) + 1) - sep
      BY DEF FieldEnd
    <2>3. f >= Cardinality(T) <=> f + n >= Cardinality(S)
      <3> HIDE DEF S, T
      <3> QED BY <1>1, <1>2, <1>5
    <2>4. /\ f + 1 \in Nat \ {0} /\ f + 1 > 1 /\ (f + n) + 1 = (f + 1) + n
      BY <1>1
    <2>5. FieldStart(tab, l, (f + n) + 1) = off + FieldStart(tab, u, f + 1)
      <3>1. FieldStart(tab, l, (f + 1) + n) = off + FieldStart(tab, u, f + 1)
        BY <1>6, <2>4
      <3> QED BY <2>4, <3>1
    <2>6. FieldStart(tab, u, f + 1) \in Int
      <3>1. PICK g : g = f + 1
        OBVIOUS
      <3>2. FieldStart(tab, u, g) \in 0 .. Len(u)
        BY <1>1, <2>4, <3>1, FieldStartIs
      <3> QED BY <1>1, <3>1, <3>2
    <2> HIDE DEF S, T
    <2> QED BY <1>1, <2>1, <2>2, <2>3, <2>5, <2>6
  <1> QED BY <1>6, <1>7

(* A key selects the same text when both its fields are moved.             *)
MovedBy(k2, k, n) ==
  /\ k.f \in Nat \ {0} /\ k2.f = k.f + n
  /\ k.c \in Nat \ {0} /\ k2.c = k.c
  /\ k.b \in BOOLEAN /\ k2.b = k.b
  /\ \/ k.e = None /\ k2.e = None
     \/ /\ k.e \in Nat \ {0} /\ k2.e = k.e + n
        /\ k.d \in Nat /\ k2.d = k.d
        /\ k.eb \in BOOLEAN /\ k2.eb = k.eb

LEMMA KeysShift ==
  ASSUME NEW tab, NEW l, NEW u, NEW off, NEW n, NEW m, Shifts(tab, l, u, off, n, m),
         NEW G, l \in Seq(G), u \in Seq(G), NEW k2, NEW k, MovedBy(k2, k, n),
         m = 0 \/ (k.f > 1 /\ ~(k.e = 1 /\ k.d > 0))
  PROVE  KeyText(tab, l, k2) = KeyText(tab, u, k)
PROOF
  <1>1. /\ off \in Nat /\ Len(u) \in Nat /\ Len(l) = off + Len(u) /\ Len(l) \in Nat
        /\ n \in Nat /\ Behind(l, u, off)
    BY DEF Shifts, Behind
  <1>2. /\ k.f \in Nat \ {0} /\ k2.f = k.f + n
        /\ k.c \in Nat \ {0} /\ k2.c = k.c
        /\ k.b \in BOOLEAN /\ k2.b = k.b
    BY DEF MovedBy
  <1>3. \A p \in 0 .. Len(u) : /\ AfterBlanks(l, off + p) = off + AfterBlanks(u, p)
                               /\ AfterBlanks(u, p) \in 0 .. Len(u)
    <2> TAKE p \in 0 .. Len(u)
    <2>1. AfterBlanks(l, off + p) = off + AfterBlanks(u, p)
      BY <1>1, BlanksBehind
    <2>2. AfterBlanks(u, p) \in p .. Len(u)
      BY <1>1, AfterBlanksIs
    <2> QED BY <1>1, <2>1, <2>2
  <1>4. \A x \in Nat : /\ InLine(l, off + x) = off + InLine(u, x)
                       /\ InLine(u, x) \in 0 .. Len(u)
    BY <1>1 DEF InLine
  <1> DEFINE s == FieldStart(tab, u, k.f)
             xs == IF k.b THEN AfterBlanks(u, s) ELSE s
             a == KeyStart(tab, u, k)
  <1>5. KeyStart(tab, l, k2) = off + a /\ a \in 0 .. Len(u)
    <2>1. FieldStart(tab, l, k2.f) = off + s /\ s \in 0 .. Len(u)
      <3>1. FieldStart(tab, l, k.f + n) = off + FieldStart(tab, u, k.f)
        BY <1>2, FieldsShift
      <3>2. FieldStart(tab, u, k.f) \in 0 .. Len(u)
        BY <1>1, <1>2, FieldStartIs
      <3> QED BY <1>2, <3>1, <3>2
    <2>2. AfterBlanks(l, off + s) = off + AfterBlanks(u, s)
          /\ AfterBlanks(u, s) \in 0 .. Len(u)
      BY <1>3, <2>1
    <2>3. a = InLine(u, k.c - 1 + xs)
      BY DEF KeyStart
    <2>4. KeyStart(tab, l, k2)
            = InLine(l, k2.c - 1 + IF k2.b THEN AfterBlanks(l, off + s) ELSE off + s)
      <3>1. KeyStart(tab, l, k2)
              = InLine(l, k2.c - 1 + IF k2.b THEN AfterBlanks(l, FieldStart(tab, l, k2.f))
                                     ELSE FieldStart(tab, l, k2.f))
        BY DEF KeyStart
      <3> QED BY <2>1, <3>1, Zenon
    <2> HIDE DEF s, a
    <2>5. xs \in Nat /\ (IF k2.b THEN AfterBlanks(l, off + s) ELSE off + s) = off + xs
      BY <1>1, <1>2, <2>1, <2>2
    <2> HIDE DEF xs
    <2>6. k.c - 1 + xs \in Nat /\ k2.c - 1 + (off + xs) = off + (k.c - 1 + xs)
      <3>1. PICK c \in Nat \ {0} : k.c = c /\ k2.c = c
        BY <1>2
      <3>2. off \in Nat /\ xs \in Nat
        BY <1>1, <2>5
      <3>3. c - 1 + xs \in Nat /\ c - 1 + (off + xs) = off + (c - 1 + xs)
        BY ONLY <3>2
      <3> QED BY <3>1, <3>3
    <2>7. KeyStart(tab, l, k2) = InLine(l, off + (k.c - 1 + xs))
      <3>1. KeyStart(tab, l, k2) = InLine(l, k2.c - 1 + (off + xs))
        BY <2>4, <2>5, Zenon
      <3> QED BY <2>6, <3>1
    <2> QED BY <1>4, <2>3, <2>6, <2>7
  <1> DEFINE b == KeyEnd(tab, u, k)
  <1>6. KeyEnd(tab, l, k2) = off + b /\ b \in 0 .. Len(u)
    <2>1. CASE k.e = None /\ k2.e = None
      <3>1. b = Len(u) /\ KeyEnd(tab, l, k2) = Len(l)
        BY <2>1 DEF KeyEnd
      <3> QED BY <1>1, <3>1
    <2>2. CASE /\ k.e \in Nat \ {0} /\ k2.e = k.e + n
               /\ k.d \in Nat /\ k2.d = k.d
               /\ k.eb \in BOOLEAN /\ k2.eb = k.eb
      <3>0. k.e # None /\ k2.e # None
        BY <1>1, <2>2 DEF None
      <3>1. CASE k.d = 0
        <4>1. b = FieldEnd(tab, u, k.e) /\ KeyEnd(tab, l, k2) = FieldEnd(tab, l, k2.e)
          BY <2>2, <3>0, <3>1 DEF KeyEnd
        <4>2. FieldEnd(tab, l, k.e + n) = off + FieldEnd(tab, u, k.e)
          BY <2>2, FieldsShift
        <4>3. FieldEnd(tab, u, k.e) \in 0 .. Len(u)
          BY <1>1, <2>2, FieldEndType
        <4> QED BY <2>2, <4>1, <4>2, <4>3
      <3>2. CASE k.d # 0
        <4> DEFINE t == FieldStart(tab, u, k.e)
                   xt == IF k.eb THEN AfterBlanks(u, t) ELSE t
        <4>1. FieldStart(tab, l, k2.e) = off + t /\ t \in 0 .. Len(u)
          <5>1. m = 0 \/ k.e > 1
            BY <2>2, <3>2
          <5>2. FieldStart(tab, l, k.e + n) = off + FieldStart(tab, u, k.e)
            BY <2>2, <5>1, FieldsShift
          <5>3. FieldStart(tab, u, k.e) \in 0 .. Len(u)
            BY <1>1, <2>2, FieldStartIs
          <5> QED BY <2>2, <5>2, <5>3
        <4>2. AfterBlanks(l, off + t) = off + AfterBlanks(u, t)
              /\ AfterBlanks(u, t) \in 0 .. Len(u)
          BY <1>3, <4>1
        <4>3. b = InLine(u, k.d + xt)
          BY <2>2, <3>0, <3>2 DEF KeyEnd
        <4>4. KeyEnd(tab, l, k2)
                = InLine(l, k2.d + IF k2.eb THEN AfterBlanks(l, off + t) ELSE off + t)
          <5>1. KeyEnd(tab, l, k2)
                  = InLine(l, k2.d + IF k2.eb THEN AfterBlanks(l, FieldStart(tab, l, k2.e))
                                     ELSE FieldStart(tab, l, k2.e))
            BY <2>2, <3>0, <3>2 DEF KeyEnd
          <5> QED BY <4>1, <5>1, Zenon
        <4> HIDE DEF t, b
        <4>5. xt \in Nat /\ (IF k2.eb THEN AfterBlanks(l, off + t) ELSE off + t) = off + xt
          BY <1>1, <2>2, <4>1, <4>2
        <4> HIDE DEF xt
        <4>6. k.d + xt \in Nat /\ k2.d + (off + xt) = off + (k.d + xt)
          BY <1>1, <2>2, <4>5
        <4>7. KeyEnd(tab, l, k2) = InLine(l, off + (k.d + xt))
          <5>1. KeyEnd(tab, l, k2) = InLine(l, k2.d + (off + xt))
            BY <4>4, <4>5, Zenon
          <5> QED BY <4>6, <5>1
        <4> QED BY <1>4, <4>3, <4>6, <4>7
      <3> QED BY <3>1, <3>2
    <2> QED BY <2>1, <2>2 DEF MovedBy
  <1>7. /\ KeyText(tab, u, k) = Part(u, a, b)
        /\ KeyText(tab, l, k2) = Part(l, KeyStart(tab, l, k2), KeyEnd(tab, l, k2))
    BY DEF KeyText, Part
  <1> HIDE DEF a, b
  <1>8. PICK first, last : first = off + a /\ last = off + b
    OBVIOUS
  <1>9. Part(l, first, last) = Part(u, a, b)
    BY <1>1, <1>5, <1>6, <1>8, PartBehind
  <1> QED BY <1>5, <1>6, <1>7, <1>8, <1>9

(* The blank that ends the conversions is the only thing a key can see     *)
(* before the line, if it begins with field 1.                             *)
LEMMA BlankInFront ==
  ASSUME NEW G, NEW u \in Seq(G), Blank \in G
  PROVE  Shifts(NoTab, <<Blank>> \o u, u, 1, 0, 1)
PROOF
  <1> DEFINE l == <<Blank>> \o u
             S == FieldStarts(NoTab, l)
             T == FieldStarts(NoTab, u)
  <1>1. <<Blank>> \in Seq(G) /\ Len(<<Blank>>) = 1 /\ <<Blank>>[1] = Blank
    OBVIOUS
  <1>2. /\ Behind(l, u, 1) /\ l[1] = Blank
    <2> DEFINE one == <<Blank>>
    <2>1. one \in Seq(G) /\ Len(one) = 1 /\ one[1] = Blank
      BY <1>1
    <2> HIDE DEF one
    <2>2. Behind(one \o u, u, Len(one)) /\ \A r \in 1 .. Len(one) : (one \o u)[r] = one[r]
      BY <2>1, BehindIs
    <2> QED BY <2>1, <2>2 DEF one
  <1> HIDE DEF l
  <1>3. Len(u) \in Nat /\ Len(l) \in Nat
    BY <1>2 DEF Behind
  <1>4. /\ S \in SUBSET Nat /\ 0 \in S /\ \A s \in S : s \in Nat
        /\ T \in SUBSET Nat /\ 0 \in T /\ \A s \in T : s \in Nat
    BY <1>3, StartsAre
  <1>5. 1 \notin S
    BY <1>2 DEF FieldStarts
  <1> HIDE DEF S, T
  <1>6. Below(S, 1 + 1) = {0}
    <2>1. \A s \in S : s < 1 + 1 <=> s = 0
      BY <1>4, <1>5
    <2> QED BY <1>4, <2>1 DEF Below
  <1>7. Below(T, 1) = {0}
    <2>1. \A s \in T : s < 1 <=> s = 0
      BY <1>4
    <2> QED BY <1>4, <2>1 DEF Below
  <1>8. Cardinality({0}) = 1
    BY FS_Singleton
  <1>9. Cardinality(Below(S, 1 + 1)) = 0 + Cardinality(Below(T, 1))
    <2>1. Cardinality(Below(S, 1 + 1)) = 1 /\ Cardinality(Below(T, 1)) = 1
      BY <1>6, <1>7, <1>8, Zenon
    <2> QED BY <2>1
  <1>10. 1 + 1 = 2
    OBVIOUS
  <1>11. Cardinality(Below(S, 2)) = 0 + Cardinality(Below(T, 1))
    BY <1>9, <1>10
  <1> QED BY <1>2, <1>9, <1>11 DEF Shifts, S, T, l

-----------------------------------------------------------------------------
(* The keys sort is given, on the decorated line.                          *)

LEMMA PlusIs ==
  ASSUME NEW n \in Nat, NEW m \in Nat, n + m <= SizeMax
  PROVE  Plus(n, m) = n + m
PROOF
  <1>1. SizeMax \in Nat
    BY DecorateKeysAssumption
  <1>2. PICK s, w : s = n + m /\ w = SizeMax + 1
    OBVIOUS
  <1>3. s \in Nat /\ w \in Nat /\ s < w
    BY <1>1, <1>2
  <1>4. s % w = s
    BY ONLY <1>3
  <1> QED BY <1>2, <1>4 DEF Plus

(* A key without a conversion is moved behind the conversions.             *)
LEMMA KeyMoved ==
  ASSUME NEW ks, NEW i, NEW arg \in KeyType, ~BadPosition(arg), ks[i] = KeyOf(arg),
         arg.conv = AsText, NEW n \in Nat, Count(ks) = n,
         arg.f + n <= SizeMax, arg.e + n <= SizeMax,
         NEW k, k = [arg EXCEPT !.c = IF @ = Absent THEN 1 ELSE @]
  PROVE  MovedBy(Printed(Moved(ks, i)), k, n)
PROOF
  <1>1. SizeMax \in Nat /\ SizeMax # 0
    BY DecorateKeysAssumption
  <1>2. /\ arg.f \in 1 .. SizeMax
        /\ arg.c = Absent \/ arg.c \in 1 .. SizeMax
        /\ arg.e = Absent \/ arg.e \in 1 .. SizeMax
        /\ arg.d \in 0 .. SizeMax
    BY <1>1 DEF KeyType, BadPosition
  <1>3. arg.b \in BOOLEAN /\ arg.eb \in BOOLEAN
    BY DEF KeyType
  <1>4. /\ k.f = arg.f /\ k.e = arg.e /\ k.d = arg.d
        /\ k.c = IF arg.c = Absent THEN 1 ELSE arg.c
    BY DEF KeyType
  <1>5. k.b = arg.b /\ k.eb = arg.eb
    BY Zenon DEF KeyType
  <1> DEFINE key == ks[i]
             moved == Moved(ks, i)
  <1>6. /\ key.sword = Pred(arg.f)
        /\ key.schar = IF arg.c = Absent THEN 0 ELSE Pred(arg.c)
        /\ key.eword = IF arg.e = Absent THEN SizeMax ELSE Pred(arg.e)
        /\ key.echar = IF arg.e = Absent THEN 0 ELSE arg.d
        /\ key.conv = arg.conv
    BY DEF KeyOf
  <1>7. key.skipsblanks = arg.b /\ (arg.e # Absent => key.skipeblanks = arg.eb)
    <2>1. KeyOf(arg).skipsblanks = arg.b
      BY Zenon DEF KeyOf
    <2>2. KeyOf(arg).skipeblanks = (arg.e # Absent /\ arg.eb)
      BY Zenon DEF KeyOf
    <2> QED BY <1>3, <2>1, <2>2, Zenon
  <1>8. moved = [key EXCEPT !.sword = Plus(@, n),
                            !.eword = IF @ = SizeMax THEN @ ELSE Plus(@, n)]
    BY <1>6, Zenon DEF Moved, Converted
  <1>9. /\ moved.sword = Plus(key.sword, n) /\ moved.schar = key.schar
        /\ moved.eword = IF key.eword = SizeMax THEN SizeMax ELSE Plus(key.eword, n)
        /\ moved.echar = key.echar
    BY <1>8 DEF KeyOf
  <1>10. moved.skipsblanks = key.skipsblanks /\ moved.skipeblanks = key.skipeblanks
    BY <1>8, Zenon DEF KeyOf
  <1> HIDE DEF moved, key
  <1> DEFINE k2 == Printed(moved)
  <1>11. /\ k2.f = Plus(moved.sword, 1) /\ k2.c = Plus(moved.schar, 1)
         /\ k2.e = IF moved.eword = SizeMax THEN Absent ELSE Plus(moved.eword, 1)
         /\ k2.d = moved.echar
    BY DEF Printed
  <1>12. k2.b = moved.skipsblanks /\ k2.eb = moved.skipeblanks
    BY Zenon DEF Printed
  <1> HIDE DEF k2
  <1>13. k.f \in Nat \ {0} /\ k2.f = k.f + n
    <2>1. key.sword = arg.f - 1 /\ arg.f - 1 \in Nat /\ (arg.f - 1) + n <= SizeMax
      BY <1>1, <1>2, <1>6 DEF Pred
    <2>2. moved.sword = (arg.f - 1) + n
      BY <1>9, <2>1, PlusIs
    <2>3. PICK s \in Nat : s = (arg.f - 1) + n
      BY <2>1
    <2>4. s + 1 <= SizeMax /\ s + 1 = arg.f + n
      BY <1>1, <1>2, <2>3
    <2>5. Plus(s, 1) = s + 1
      BY <2>4, PlusIs
    <2> QED BY <1>2, <1>4, <1>11, <2>2, <2>3, <2>4, <2>5
  <1>14. k.c \in Nat \ {0} /\ k2.c = k.c
    <2>1. PICK s \in Nat : s = key.schar /\ s + 1 = k.c /\ s + 1 <= SizeMax
      BY <1>1, <1>2, <1>4, <1>6 DEF Pred, Absent, None
    <2>2. Plus(s, 1) = s + 1
      BY <2>1, PlusIs
    <2> QED BY <1>9, <1>11, <2>1, <2>2
  <1>15. k.b \in BOOLEAN /\ k2.b = k.b
    BY <1>3, <1>5, <1>7, <1>10, <1>12, Zenon
  <1>16. CASE arg.e = Absent
    <2>1. key.eword = SizeMax
      BY <1>6, <1>16
    <2>2. k.e = None /\ k2.e = None
      BY <1>4, <1>9, <1>11, <1>16, <2>1 DEF Absent
    <2> QED BY <1>13, <1>14, <1>15, <2>2, Zenon DEF MovedBy, k2, moved
  <1>17. CASE arg.e # Absent
    <2>1. /\ key.eword = arg.e - 1 /\ arg.e - 1 \in Nat /\ (arg.e - 1) + n <= SizeMax
          /\ key.eword # SizeMax
      BY <1>1, <1>2, <1>6, <1>17 DEF Pred
    <2>2. moved.eword = (arg.e - 1) + n
      BY <1>9, <2>1, PlusIs
    <2>3. PICK s \in Nat : s = (arg.e - 1) + n
      BY <2>1
    <2>4. s + 1 <= SizeMax /\ s + 1 = arg.e + n /\ s # SizeMax
      BY <1>1, <1>2, <1>17, <2>3
    <2>5. Plus(s, 1) = s + 1
      BY <2>4, PlusIs
    <2>6. k.e \in Nat \ {0} /\ k2.e = k.e + n
      BY <1>2, <1>4, <1>11, <1>17, <2>2, <2>3, <2>4, <2>5
    <2>7. k.d \in Nat /\ k2.d = k.d
      BY <1>1, <1>2, <1>4, <1>6, <1>9, <1>11, <1>17
    <2>8. k.eb \in BOOLEAN /\ k2.eb = k.eb
      BY <1>3, <1>5, <1>7, <1>10, <1>12, <1>17, Zenon
    <2> QED BY <1>13, <1>14, <1>15, <2>6, <2>7, <2>8, Zenon DEF MovedBy, k2, moved
  <1> QED BY <1>16, <1>17

(* What the keys without a conversion see before the line.                 *)
FrontBlank(tab) == IF tab = NoTab THEN <<Blank>> ELSE << >>

(* The line with this front begins where the conversions end, and the      *)
(* conversions are the fields before it.                                   *)
FrontStarts(at) ==
  LET tab == job.tab
      n   == Len(texts)
      l   == decorated \o line
      u   == FrontBlank(tab) \o line
  IN  /\ Laid(decorated, Outputs, n, at, SepOf(tab))
      /\ Behind(l, line, Len(decorated))
      /\ \A r \in 1 .. Len(decorated) : l[r] = decorated[r]
      /\ l \in Seq(Glyphs) /\ u \in Seq(Glyphs)
      /\ Shifts(tab, l, u, CutAt(tab, at, n), n, 0)
      /\ \A k \in 0 .. n : /\ FieldStart(tab, l, k + 1) = CutAt(tab, at, k)
                           /\ k + 1 <= Cardinality(FieldStarts(tab, l))

LEMMA FrontBehind ==
  ASSUME LineInv, status \in {"sorting", "done"}, Tidy
  PROVE  \E at : FrontStarts(at)
PROOF
  <1> DEFINE n == Len(texts)
             tab == job.tab
             front == FrontBlank(tab)
             l == decorated \o line
             u == front \o line
             D == Len(decorated)
  <1>1. /\ job \in Jobs /\ line \in Lines /\ n \in Nat \ {0}
        /\ decorated \in Seq(Glyphs) /\ line \in Seq(Glyphs)
        /\ Clean(tab, Outputs, n) /\ Separator = SepOf(tab)
        /\ \E at : Laid(decorated, Outputs, n, at, SepOf(tab))
    BY WhenDecorated
  <1>2. PICK at : Laid(decorated, Outputs, n, at, SepOf(tab))
    BY <1>1
  <1>3. /\ l \in Seq(Glyphs) /\ Behind(l, line, D)
        /\ \A r \in 1 .. D : l[r] = decorated[r]
    <2> HIDE DEF Glyphs
    <2> QED BY <1>1, BehindIs
  <1>4. D \in Nat /\ Len(line) \in Nat /\ Len(l) = D + Len(line) /\ Len(l) \in Nat
    <2>1. D \in Nat
      <3> HIDE DEF Glyphs
      <3> QED BY <1>1
    <2> QED BY <1>3, <2>1 DEF Behind
  <1>5. /\ front \in Seq(Glyphs) /\ Len(front) = (IF tab = NoTab THEN 1 ELSE 0)
        /\ tab = NoTab => front[1] = Blank
    <2>1. tab = NoTab => Blank \in Glyphs
      BY <1>1 DEF Glyphs, SepOf
    <2> HIDE DEF Glyphs, tab
    <2> QED BY <2>1 DEF FrontBlank
  <1>6. u \in Seq(Glyphs) /\ Behind(u, line, Len(front))
        /\ \A r \in 1 .. Len(front) : u[r] = front[r]
    <2> DEFINE G == Glyphs
    <2>1. front \in Seq(G) /\ line \in Seq(G)
      BY <1>1, <1>5
    <2> HIDE DEF G, front
    <2>2. /\ front \o line \in Seq(G) /\ Behind(front \o line, line, Len(front))
          /\ \A r \in 1 .. Len(front) : (front \o line)[r] = front[r]
      BY <2>1, BehindIs
    <2> QED BY <2>2 DEF G
  <1> HIDE DEF l, u, front, D, n, tab
  <1>7. ASSUME NEW k \in 0 .. n
        PROVE  /\ CutAt(tab, at, k) \in FieldStarts(tab, l)
               /\ Cardinality(Below(FieldStarts(tab, l), CutAt(tab, at, k))) = k
               /\ FieldStart(tab, l, k + 1) = CutAt(tab, at, k)
               /\ k + 1 <= Cardinality(FieldStarts(tab, l))
    <2>1. D <= Len(l)
      BY <1>4
    <2>2. /\ CutAt(tab, at, k) \in FieldStarts(tab, l)
          /\ Cardinality(Below(FieldStarts(tab, l), CutAt(tab, at, k))) = k
      BY <1>1, <1>2, <1>3, <1>4, <2>1, CutsAre DEF D
    <2>3. k \in Nat
      BY <1>1
    <2> QED BY <1>4, <2>2, <2>3, StartAtPlace
  <1> DEFINE off == CutAt(tab, at, n)
  <1>8. /\ D # 0 /\ off = (IF tab = NoTab THEN D - 1 ELSE D)
        /\ decorated[D] = SepOf(tab)
    <2>1. at[n] = D /\ n # 0 /\ decorated[at[n]] = SepOf(tab)
          /\ at[n] = at[n - 1] + Len(Outputs[n]) + 1
          /\ at[n - 1] \in Nat /\ Len(Outputs[n]) \in Nat
      BY <1>1, <1>2, <1>4 DEF Laid, D
    <2> QED BY <1>4, <2>1 DEF CutAt, SepLen
  <1> HIDE DEF off
  <1>9. Behind(l, u, off)
    <2>1. CASE tab # NoTab
      <3>1. off = D /\ Len(front) = 0
        BY <1>5, <1>8, <2>1
      <3>2. /\ Len(u) = 0 + Len(line)
            /\ \A r \in 1 .. Len(line) : u[0 + r] = line[r]
        BY <1>6, <3>1 DEF Behind
      <3>3. Len(u) = Len(line) /\ \A r \in 1 .. Len(line) : u[r] = line[r]
        BY <1>4, <3>2
      <3> QED BY <1>3, <1>4, <3>1, <3>3 DEF Behind
    <2>2. CASE tab = NoTab
      <3>1. off = D - 1 /\ Len(front) = 1 /\ off \in Nat
        BY <1>4, <1>5, <1>8, <2>2
      <3>2. /\ Len(u) = 1 + Len(line) /\ u[1] = Blank
            /\ \A r \in 1 .. Len(line) : u[1 + r] = line[r]
        BY <1>5, <1>6, <2>2, <3>1 DEF Behind
      <3>3. l[D] = Blank
        BY <1>3, <1>4, <1>8, <2>2 DEF SepOf
      <3>4. ASSUME NEW r \in 1 .. Len(u) PROVE l[off + r] = u[r]
        <4>1. CASE r = 1
          <5>1. off + r = D
            BY <1>4, <3>1, <4>1
          <5> QED BY <3>2, <3>3, <4>1, <5>1
        <4>2. CASE r # 1
          <5>1. PICK s \in 1 .. Len(line) : r = 1 + s
            <6>1. r - 1 \in 1 .. Len(line) /\ r = 1 + (r - 1)
              BY <1>4, <3>2, <4>2
            <6> QED BY <6>1
          <5>2. off + r = D + s
            BY <1>4, <3>1, <5>1
          <5>3. l[D + s] = line[s]
            BY <1>3 DEF Behind
          <5> QED BY <3>2, <5>1, <5>2, <5>3
        <4> QED BY <4>1, <4>2
      <3> QED BY <1>4, <3>1, <3>2, <3>4 DEF Behind
    <2> QED BY <2>1, <2>2
  <1>10. Shifts(tab, l, u, off, n, 0)
    <2>1. n \in 0 .. n /\ n \in Nat
      BY <1>1
    <2>2. off \in FieldStarts(tab, l) /\ Cardinality(Below(FieldStarts(tab, l), off)) = n
      BY <1>7, <2>1 DEF off
    <2>3. off \in Nat /\ off + 0 = off /\ Len(u) \in Nat
      BY <1>9 DEF Behind
    <2>4. Cardinality(Below(FieldStarts(tab, u), 0)) = 0
      <3>1. FieldStarts(tab, u) \in SUBSET Nat
        BY <2>3, StartsAre
      <3> DEFINE T == FieldStarts(tab, u)
      <3> HIDE DEF T
      <3>2. T \in SUBSET Nat
        BY <3>1 DEF T
      <3>3. \A q \in T : ~(q < 0)
        BY <3>2
      <3>4. Below(T, 0) = {}
        BY <3>3 DEF Below
      <3> QED BY <3>4, FS_EmptySet DEF T
    <2>5. Cardinality(Below(FieldStarts(tab, l), off + 0))
            = n + Cardinality(Below(FieldStarts(tab, u), 0))
      BY <2>1, <2>2, <2>3, <2>4
    <2> QED BY <1>9, <2>1, <2>2, <2>5 DEF Shifts
  <1>11. \A k \in 0 .. n : /\ FieldStart(tab, l, k + 1) = CutAt(tab, at, k)
                           /\ k + 1 <= Cardinality(FieldStarts(tab, l))
    BY <1>7
  <1>12. FrontStarts(at)
    BY <1>2, <1>3, <1>6, <1>10, <1>11, Zenon DEF FrontStarts, l, u, front, D, n, tab, off
  <1> QED BY <1>12

LEMMA KeyCount ==
  ASSUME job \in Jobs
  PROVE  /\ ConvertedKeys = ConvertedOf(Given(job))
         /\ ConvertedKeys \in SUBSET Nat /\ IsFiniteSet(ConvertedKeys)
         /\ Cardinality(ConvertedKeys) = Count(Given(job)) /\ Count(Given(job)) \in Nat
         /\ \A k \in ConvertedKeys :
              Before(Given(job), k) = Cardinality(Below(ConvertedKeys, k))
PROOF
  <1> DEFINE ks == Given(job)
  <1>1. /\ ks \in Seq({KeyOf(a) : a \in KeyType}) /\ Len(ks) \in Nat
        /\ ConvertedKeys = ConvertedOf(ks)
    BY GivenIs DEF ConvertedKeys, ConvertedIn
  <1> HIDE DEF ks
  <1>2. /\ Count(ks) = Cardinality(ConvertedKeys)
        /\ \A k \in ConvertedKeys : Before(ks, k) = Cardinality(Below(ConvertedKeys, k))
    BY <1>1, CountIs
  <1>3. ConvertedKeys \in SUBSET Nat /\ IsFiniteSet(ConvertedKeys)
        /\ Cardinality(ConvertedKeys) \in Nat
    BY <1>1, ConvertedAre
  <1> QED BY <1>1, <1>2, <1>3 DEF ks

LEMMA SortedIs ==
  ASSUME LineInv, status \in {"sorting", "done"}
  PROVE  /\ DOMAIN keylist = 1 .. Len(job.keys)
         /\ \A i \in 1 .. Len(job.keys) :
              Sorted(i) = KeyText(job.tab, decorated \o line,
                                  Printed(Moved(Given(job), i)))
PROOF
  <1>1. keylist = [i \in 1 .. Len(job.keys) |-> Moved(Given(job), i)]
    BY DEF LineInv, TextsInv, KeysAdjusted, Adjusted
  <1> QED BY <1>1 DEF Sorted

(* A key without a conversion selects on the decorated line what it        *)
(* selects on the line.                                                    *)
LEMMA KeyStays ==
  ASSUME LineInv, status \in {"sorting", "done"}, Tidy,
         NEW i \in 1 .. Len(job.keys), job.keys[i].conv = AsText, Represented(i)
  PROVE  /\ Sorted(i) = KeyText(job.tab, FrontBlank(job.tab) \o line, Asked(i))
         /\ Asked(i).f > 1 /\ ~(Asked(i).e = 1 /\ Asked(i).d > 0)
              => Sorted(i) = KeyText(job.tab, line, Asked(i))
PROOF
  <1> DEFINE n == Len(texts)
             tab == job.tab
             l == decorated \o line
             u == FrontBlank(tab) \o line
             arg == job.keys[i]
             k == Asked(i)
             k2 == Printed(Moved(Given(job), i))
  <1>1. /\ job \in Jobs /\ line \in Lines /\ Valid(job)
        /\ n \in Nat \ {0} /\ n = Count(Given(job))
        /\ line \in Seq(Glyphs) /\ Separator = SepOf(tab)
    BY WhenDecorated
  <1>2. arg \in KeyType /\ ~BadPosition(arg) /\ Given(job)[i] = KeyOf(arg)
    BY <1>1, GivenIs DEF Valid
  <1>3. arg.f + n <= SizeMax /\ arg.e + n <= SizeMax
    BY <1>1, KeyCount DEF Represented
  <1>4. MovedBy(k2, k, n)
    <2>1. k = [arg EXCEPT !.c = IF @ = Absent THEN 1 ELSE @]
      BY DEF Asked
    <2>2. n \in Nat /\ Count(Given(job)) = n /\ arg.conv = AsText
      BY <1>1
    <2> DEFINE ks == Given(job)
    <2>3. ks[i] = KeyOf(arg) /\ Count(ks) = n
      BY <1>2, <2>2
    <2> HIDE DEF ks, arg, n, k
    <2>4. MovedBy(Printed(Moved(ks, i)), k, n)
      BY <1>2, <1>3, <2>1, <2>2, <2>3, KeyMoved
    <2> QED BY <2>4 DEF ks
  <1>5. PICK at : FrontStarts(at)
    BY FrontBehind
  <1>6. PICK off : Shifts(tab, l, u, off, n, 0) /\ l \in Seq(Glyphs) /\ u \in Seq(Glyphs)
    BY <1>5 DEF FrontStarts
  <1>7. Sorted(i) = KeyText(tab, l, k2)
    BY SortedIs
  <1> HIDE DEF l, u, k, k2, n, tab, arg
  <1>8. KeyText(tab, l, k2) = KeyText(tab, u, k)
    <2>1. PICK m : m = 0
      OBVIOUS
    <2>2. Shifts(tab, l, u, off, n, m)
      BY <1>6, <2>1
    <2> DEFINE G == Glyphs
    <2>3. l \in Seq(G) /\ u \in Seq(G)
      BY <1>6
    <2> HIDE DEF G
    <2> QED BY <1>4, <2>1, <2>2, <2>3, KeysShift
  <1>9. ASSUME k.f > 1, ~(k.e = 1 /\ k.d > 0)
        PROVE  KeyText(tab, u, k) = KeyText(tab, line, k)
    <2>1. CASE tab # NoTab
      <3>1. u = line
        <4>1. u = << >> \o line
          BY <2>1 DEF u, FrontBlank, tab
        <4> HIDE DEF Glyphs
        <4> QED BY <1>1, <4>1
      <3> QED BY <3>1
    <2>2. CASE tab = NoTab
      <3> DEFINE G == Glyphs
      <3>1. Blank \in G /\ line \in Seq(G)
        BY <1>1, <2>2 DEF Glyphs, SepOf
      <3>2. u \in Seq(G) /\ u = <<Blank>> \o line
        BY <1>6, <2>2 DEF u, FrontBlank, tab
      <3> HIDE DEF G
      <3>3. Shifts(NoTab, <<Blank>> \o line, line, 1, 0, 1)
        BY <3>1, BlankInFront
      <3>4. PICK o, z, m : o = 1 /\ z = 0 /\ m = 1
        OBVIOUS
      <3>5. Shifts(tab, u, line, o, z, m)
        BY <2>2, <3>2, <3>3, <3>4
      <3>6. MovedBy(k, k, z)
        BY <1>4, <3>4 DEF MovedBy
      <3>7. m = 0 \/ (k.f > 1 /\ ~(k.e = 1 /\ k.d > 0))
        BY <1>9
      <3>8. u \in Seq(G) /\ line \in Seq(G)
        BY <3>1, <3>2
      <3> HIDE DEF G
      <3>9. PICK k1 : k1 = k
        OBVIOUS
      <3>10. MovedBy(k1, k, z)
        BY <3>6, <3>9
      <3>11. KeyText(tab, u, k1) = KeyText(tab, line, k)
        BY <3>5, <3>7, <3>8, <3>10, KeysShift
      <3> QED BY <3>9, <3>11
    <2> QED BY <2>1, <2>2
  <1> QED BY <1>7, <1>8, <1>9 DEF k, u, tab

LEMMA PartIs ==
  ASSUME NEW G, NEW l \in Seq(G), NEW w \in Seq(G), NEW a \in Nat, NEW b,
         b = a + Len(w), b <= Len(l), \A r \in 1 .. Len(w) : l[a + r] = w[r]
  PROVE  Part(l, a, b) = w
PROOF
  <1> DEFINE p == SubSeq(l, a + 1, b)
  <1>1. b \in Nat /\ Len(w) \in Nat /\ Len(l) \in Nat
    OBVIOUS
  <1>2. p \in Seq(G) /\ Len(p) = Len(w)
    BY <1>1
  <1>3. ASSUME NEW r \in 1 .. Len(w) PROVE p[r] = w[r]
    <2>1. p[r] = l[(a + 1) + r - 1]
      BY <1>1
    <2>2. (a + 1) + r - 1 = a + r
      BY <1>1
    <2> HIDE DEF p
    <2> QED BY <2>1, <2>2
  <1> HIDE DEF p
  <1>4. p = w
    BY <1>1, <1>2, <1>3
  <1> QED BY <1>4 DEF Part, p

(* Between two cuts lies a conversion, with the blank before it if blanks  *)
(* separate the fields.                                                    *)
IsPiece(at, m, a, b, l, w) ==
  /\ FrontStarts(at) /\ Outputs \in Seq(Seq(Glyphs))
  /\ Len(texts) \in Nat /\ m \in 1 .. Len(texts)
  /\ a = CutAt(job.tab, at, m - 1) /\ b = at[m] - 1 /\ l = decorated \o line
  /\ w = (IF m > 1 THEN FrontBlank(job.tab) ELSE << >>) \o Outputs[m]

LEMMA Piece ==
  ASSUME NEW at, NEW m, NEW a, NEW b, NEW l, NEW w, IsPiece(at, m, a, b, l, w)
  PROVE  Part(l, a, b) = w
PROOF
  <1>0. PICK n \in Nat : /\ n = Len(texts) /\ m \in 1 .. n
                         /\ FrontStarts(at) /\ Outputs \in Seq(Seq(Glyphs))
    BY DEF IsPiece
  <1> USE <1>0
  <1> DEFINE tab == job.tab
             D == Len(decorated)
             f == IF m > 1 THEN FrontBlank(tab) ELSE << >>
             o == Outputs[m]
  <1>1. /\ Laid(decorated, Outputs, n, at, SepOf(tab)) /\ Behind(l, line, D)
        /\ \A r \in 1 .. D : l[r] = decorated[r]
        /\ l \in Seq(Glyphs)
    BY DEF FrontStarts, IsPiece
  <1>2. Outputs[m] \in Seq(Glyphs)
    <2> DEFINE C == Seq(Glyphs)
    <2>1. Outputs \in Seq(C) /\ Len(Outputs) = n
      <3>1. Outputs \in Seq(C) /\ DOMAIN Outputs = 1 .. n
        BY DEF Outputs
      <3> HIDE DEF C
      <3> QED BY <3>1
    <2> HIDE DEF C
    <2>2. Outputs[m] \in C
      BY <2>1
    <2> QED BY <2>2 DEF C
  <1>3. /\ at[m - 1] \in 0 .. D /\ at[m] \in 0 .. D
        /\ at[m] = at[m - 1] + Len(o) + 1 /\ at[0] = 0
        /\ Len(o) \in Nat
        /\ \A r \in 1 .. Len(o) : decorated[at[m - 1] + r] = o[r]
        /\ m > 1 => decorated[at[m - 1]] = SepOf(tab)
    <2>1. /\ at \in [0 .. n -> 0 .. D] /\ at[0] = 0
          /\ \A k \in 1 .. n :
               /\ Len(Outputs[k]) \in Nat
               /\ at[k] = at[k - 1] + Len(Outputs[k]) + 1
               /\ decorated[at[k]] = SepOf(tab)
               /\ \A r \in 1 .. Len(Outputs[k]) :
                    decorated[at[k - 1] + r] = Outputs[k][r]
      BY <1>1 DEF Laid
    <2>2. m - 1 \in 0 .. n /\ m \in 0 .. n /\ (m > 1 => m - 1 \in 1 .. n)
      OBVIOUS
    <2> HIDE DEF D, tab, f
    <2>3. at[m - 1] \in 0 .. D /\ at[m] \in 0 .. D
      BY <2>1, <2>2
    <2> QED BY <2>1, <2>2, <2>3
  <1>4. m > 1 => at[m - 1] >= 1
    <2>1. m > 1 => /\ at[m - 1] = at[(m - 1) - 1] + Len(Outputs[m - 1]) + 1
                   /\ at[(m - 1) - 1] \in 0 .. D /\ Len(Outputs[m - 1]) \in Nat
      <3>1. /\ at \in [0 .. n -> 0 .. D]
            /\ \A k \in 1 .. n : /\ Len(Outputs[k]) \in Nat
                                  /\ at[k] = at[k - 1] + Len(Outputs[k]) + 1
        BY <1>1 DEF Laid
      <3> HIDE DEF D, tab, f, o
      <3> SUFFICES ASSUME m > 1
                   PROVE  /\ at[m - 1] = at[(m - 1) - 1] + Len(Outputs[m - 1]) + 1
                          /\ at[(m - 1) - 1] \in 0 .. D /\ Len(Outputs[m - 1]) \in Nat
        OBVIOUS
      <3>2. PICK p : p = m - 1
        OBVIOUS
      <3>3. p \in 1 .. n /\ p - 1 \in 0 .. n
        BY <3>2
      <3>4. /\ at[p] = at[p - 1] + Len(Outputs[p]) + 1
            /\ at[p - 1] \in 0 .. D /\ Len(Outputs[p]) \in Nat
        BY <3>1, <3>3
      <3> QED BY <3>2, <3>4
    <2> QED BY <2>1
  <1>5. D \in Nat /\ Len(l) \in Nat /\ D <= Len(l)
    BY <1>1, <1>3 DEF Behind
  <1>6. tab = NoTab /\ m > 1 => Blank \in Glyphs
    <2>1. tab = NoTab /\ m > 1 => Blank = l[at[m - 1]] /\ at[m - 1] \in 1 .. Len(l)
      <3> HIDE DEF D, f, o, tab
      <3> SUFFICES ASSUME tab = NoTab, m > 1
                   PROVE  Blank = l[at[m - 1]] /\ at[m - 1] \in 1 .. Len(l)
        OBVIOUS
      <3>1. PICK e \in 1 .. D : e = at[m - 1]
        BY <1>3, <1>4, <1>5
      <3>2. decorated[e] = Blank
        BY <1>3, <3>1 DEF SepOf
      <3>3. l[e] = decorated[e]
        BY <1>1
      <3> QED BY <1>5, <3>1, <3>2, <3>3
    <2> HIDE DEF Glyphs
    <2> QED BY <1>1, <2>1
  <1>7. /\ f \in Seq(Glyphs) /\ Len(f) = (IF tab = NoTab /\ m > 1 THEN 1 ELSE 0)
        /\ tab = NoTab /\ m > 1 => f[1] = Blank
    <2> HIDE DEF Glyphs, tab
    <2> QED BY <1>6 DEF FrontBlank
  <1> HIDE DEF f, o, D, tab
  <1>8. /\ w \in Seq(Glyphs) /\ Len(w) = Len(f) + Len(o)
        /\ \A r \in 1 .. Len(f) : w[r] = f[r]
        /\ \A r \in 1 .. Len(o) : w[Len(f) + r] = o[r]
    <2>1. f \in Seq(Glyphs) /\ o \in Seq(Glyphs) /\ w = f \o o
      BY <1>2, <1>7 DEF o, f, tab, IsPiece
    <2> HIDE DEF Glyphs
    <2> QED BY <2>1
  <1>9. a + Len(f) = at[m - 1] /\ a \in Nat
    <2>1. a = IF m - 1 = 0 THEN 0 ELSE at[m - 1] - 1 + SepLen(tab)
      BY DEF IsPiece, CutAt, tab
    <2>2. CASE m = 1
      BY <1>3, <1>7, <2>1, <2>2
    <2>3. CASE m # 1
      <3>1. a = at[m - 1] - 1 + SepLen(tab) /\ m > 1
        BY <2>1, <2>3
      <3>2. PICK s \in Nat : s = at[m - 1] /\ s >= 1
        BY <1>3, <1>4, <3>1
      <3>3. a = s - 1 + SepLen(tab)
        BY <3>1, <3>2
      <3>4. Len(f) = IF tab = NoTab THEN 1 ELSE 0
        BY <1>7, <3>1
      <3> QED BY <3>2, <3>3, <3>4 DEF SepLen
    <2> QED BY <2>2, <2>3
  <1>10. b = a + Len(w) /\ b <= Len(l) /\ b \in Nat /\ Len(w) \in Nat
    <2>1. PICK s \in Nat : s = at[m - 1] /\ a + Len(f) = s
      BY <1>3, <1>9
    <2>2. PICK e \in 0 .. D : e = at[m] /\ e = s + Len(o) + 1
      BY <1>3, <2>1
    <2>3. b = e - 1
      BY <2>2 DEF IsPiece
    <2>4. Len(w) = Len(f) + Len(o) /\ Len(f) \in Nat /\ Len(o) \in Nat
      BY <1>3, <1>7, <1>8
    <2>5. PICK lf \in Nat, lo \in Nat, lw \in Nat :
            lf = Len(f) /\ lo = Len(o) /\ lw = Len(w) /\ lw = lf + lo
      <3>1. Len(w) \in Nat
        BY ONLY <2>4
      <3> QED BY ONLY <2>4, <3>1, Zenon
    <2>6. /\ a + lf = s /\ e = s + lo + 1 /\ b = e - 1 /\ lw = lf + lo
          /\ a \in Nat /\ s \in Nat /\ D \in Nat /\ e \in 0 .. D
          /\ lf \in Nat /\ lo \in Nat
      BY <1>5, <1>9, <2>1, <2>2, <2>3, <2>5
    <2>7. b = a + lw /\ b \in Nat /\ b <= D
      BY ONLY <2>6
    <2> QED BY <1>5, <2>5, <2>7
  <1>11. ASSUME NEW r \in 1 .. Len(w) PROVE l[a + r] = w[r]
    <2>1. CASE r <= Len(f)
      <3>1. tab = NoTab /\ m > 1 /\ r = 1 /\ Len(f) = 1
        BY <1>7, <2>1
      <3>2. w[r] = Blank
        <4>1. f[1] = Blank
          BY <1>7, <3>1
        <4>2. r \in 1 .. Len(f)
          BY <3>1
        <4> QED BY <1>8, <3>1, <4>1, <4>2
      <3>3. a + r = at[m - 1] /\ at[m - 1] \in 1 .. D
        BY <1>3, <1>4, <1>9, <3>1
      <3> QED BY <1>1, <1>3, <3>1, <3>2, <3>3 DEF SepOf
    <2>2. CASE ~(r <= Len(f))
      <3>1. PICK s \in 1 .. Len(o) : r = Len(f) + s
        <4>1. r - Len(f) \in 1 .. Len(o) /\ r = Len(f) + (r - Len(f))
          BY <1>3, <1>7, <1>8, <2>2
        <4> QED BY <4>1
      <3>2. a + r = at[m - 1] + s /\ at[m - 1] + s \in 1 .. D
        <4>1. PICK p \in Nat : p = at[m - 1] /\ a + Len(f) = p
          BY <1>3, <1>9
        <4>2. PICK e \in 0 .. D : e = p + Len(o) + 1
          BY <1>3, <4>1
        <4>3. Len(f) \in Nat
          BY <1>7
        <4>4. PICK lf \in Nat, lo \in Nat : lf = Len(f) /\ lo = Len(o)
          BY <1>3, <4>3
        <4>5. /\ a + lf = p /\ e = p + lo + 1 /\ s \in 1 .. lo /\ r = lf + s
              /\ a \in Nat /\ p \in Nat /\ D \in Nat /\ e \in 0 .. D
              /\ lf \in Nat /\ lo \in Nat
          BY <1>5, <1>9, <3>1, <4>1, <4>2, <4>4
        <4>6. a + r = p + s /\ p + s \in 1 .. D
          BY ONLY <4>5
        <4> QED BY <4>1, <4>6
      <3> QED BY <1>1, <1>3, <1>8, <3>1, <3>2
    <2> QED BY <2>1, <2>2
  <1>12. Part(l, a, b) = w
    <2> DEFINE G == Glyphs
    <2>1. l \in Seq(G) /\ w \in Seq(G)
      BY <1>1, <1>8
    <2> HIDE DEF G
    <2> QED BY <1>9, <1>10, <1>11, <2>1, PartIs
  <1> QED BY <1>12

(* A converted key, with an end and without characters, is given to sort   *)
(* as the field of its conversion.                                         *)
WholeField(k, m) ==
  /\ k.f = m /\ k.c = 1 /\ k.b = FALSE
  /\ k.e = m /\ k.e # None /\ k.d = 0

LEMMA KeyReplaced ==
  ASSUME NEW ks, NEW i, NEW arg \in KeyType, ~BadPosition(arg), ks[i] = KeyOf(arg),
         arg.conv # AsText, NEW m \in Nat, Before(ks, i) + 1 = m,
         Before(ks, i) \in Nat, m <= SizeMax,
         arg.c = Absent \/ ~(arg.c > 1), ~(arg.d > 0), arg.e # Absent,
         NEW k, k = Printed(Moved(ks, i))
  PROVE  WholeField(k, m)
PROOF
  <1>1. SizeMax \in Nat /\ SizeMax # 0
    BY DecorateKeysAssumption
  <1>2. /\ arg.c = Absent \/ arg.c = 1
        /\ arg.e \in 1 .. SizeMax /\ arg.d = 0 /\ arg.b \in BOOLEAN
    BY <1>1 DEF KeyType, BadPosition
  <1>3. ~arg.b
    BY DEF BadPosition
  <1> DEFINE key == ks[i]
             moved == Moved(ks, i)
             idx == Before(ks, i)
  <1>4. /\ key.schar = IF arg.c = Absent THEN 0 ELSE Pred(arg.c)
        /\ key.eword = IF arg.e = Absent THEN SizeMax ELSE Pred(arg.e)
        /\ key.echar = IF arg.e = Absent THEN 0 ELSE arg.d
        /\ key.conv = arg.conv
    BY DEF KeyOf
  <1>5. key.skipsblanks = FALSE
    <2>1. KeyOf(arg).skipsblanks = arg.b
      BY Zenon DEF KeyOf
    <2>2. arg.b = FALSE
      BY <1>2, <1>3, Zenon
    <2> QED BY <2>1, <2>2, Zenon
  <1>6. key.schar = 0 /\ key.eword # SizeMax /\ key.echar = 0
    BY <1>1, <1>2, <1>4 DEF Pred, Absent, None
  <1>7. moved = [key EXCEPT !.sword = idx, !.conv = AsText,
                            !.eword = IF @ = SizeMax THEN @ ELSE idx]
    BY <1>4, Zenon DEF Moved, Converted
  <1>8. /\ moved.sword = idx /\ moved.schar = key.schar /\ moved.echar = key.echar
        /\ moved.eword = IF key.eword = SizeMax THEN SizeMax ELSE idx
    BY <1>7 DEF KeyOf
  <1>9. moved.skipsblanks = key.skipsblanks
    BY <1>7, Zenon DEF KeyOf
  <1> HIDE DEF moved, key, idx
  <1>10. /\ k.f = Plus(moved.sword, 1) /\ k.c = Plus(moved.schar, 1)
         /\ k.e = IF moved.eword = SizeMax THEN Absent ELSE Plus(moved.eword, 1)
         /\ k.d = moved.echar
    BY DEF Printed, moved
  <1>11. k.b = moved.skipsblanks
    BY Zenon DEF Printed, moved
  <1>12. PICK h \in Nat : h = idx /\ h + 1 = m /\ h + 1 <= SizeMax /\ h # SizeMax
    BY <1>1 DEF idx
  <1>13. Plus(h, 1) = m
    BY <1>12, PlusIs
  <1>14. Plus(0, 1) = 1
    <2>1. PICK z \in Nat : z = 0 /\ z + 1 = 1 /\ z + 1 <= SizeMax
      BY <1>1
    <2>2. Plus(z, 1) = z + 1
      BY <2>1, PlusIs
    <2> QED BY <2>1, <2>2
  <1>15. k.f = m /\ k.c = 1 /\ k.d = 0
    BY <1>6, <1>8, <1>10, <1>12, <1>13, <1>14
  <1>16. k.e = m
    BY <1>6, <1>8, <1>10, <1>12, <1>13
  <1>17. m # None
    BY DEF None
  <1>18. k.b = FALSE
    BY <1>5, <1>9, <1>11, Zenon
  <1> QED BY <1>15, <1>16, <1>17, <1>18, Zenon DEF WholeField

(* Such a key selects one field.                                           *)
LEMMA OneField ==
  ASSUME NEW tab, NEW l, Len(l) \in Nat, NEW m \in Nat \ {0},
         NEW next, next = m + 1, next <= Cardinality(FieldStarts(tab, l)),
         NEW k, WholeField(k, m)
  PROVE  KeyText(tab, l, k)
           = Part(l, FieldStart(tab, l, m),
                  FieldStart(tab, l, next) - IF tab = NoTab THEN 0 ELSE 1)
PROOF
  <1> DEFINE s == FieldStart(tab, l, m)
  <1>0. k.f = m /\ k.c = 1 /\ k.b = FALSE /\ k.e = m /\ k.e # None /\ k.d = 0
    BY Zenon DEF WholeField
  <1>1. s \in 0 .. Len(l)
    BY FieldStartIs
  <1>2. KeyStart(tab, l, k) = s
    <2>1. k.c - 1 = 0
      BY <1>0
    <2>2. KeyStart(tab, l, k) = InLine(l, (k.c - 1) + s)
      BY <1>0, Zenon DEF KeyStart
    <2>3. KeyStart(tab, l, k) = InLine(l, 0 + s)
      BY <2>1, <2>2, Zenon
    <2> HIDE DEF s
    <2> QED BY <1>1, <2>3 DEF InLine
  <1>3. KeyEnd(tab, l, k) = FieldEnd(tab, l, m)
    BY <1>0, Zenon DEF KeyEnd
  <1>4. ~(m >= Cardinality(FieldStarts(tab, l)))
    <2>1. FieldStarts(tab, l) \in SUBSET Nat /\ Cardinality(FieldStarts(tab, l)) \in Nat
      BY StartsAre
    <2> QED BY <2>1
  <1>5. FieldEnd(tab, l, m) = FieldStart(tab, l, m + 1) - IF tab = NoTab THEN 0 ELSE 1
    BY <1>4, Zenon DEF FieldEnd
  <1>6. KeyText(tab, l, k) = Part(l, KeyStart(tab, l, k), KeyEnd(tab, l, k))
    BY DEF KeyText, Part
  <1> QED BY <1>2, <1>3, <1>5, <1>6, Zenon

(* The conversion the i-th key asks for is that of its own text.           *)
LEMMA OwnConversion ==
  ASSUME LineInv, status \in {"sorting", "done"}, Tidy, NEW i \in ConvertedKeys,
         NEW m, m = Before(Given(job), i) + 1
  PROVE  /\ m \in 1 .. Len(texts)
         /\ Outputs[m] = Output(job.keys[i].conv, texts[m])
         /\ Cardinality({h \in ConvertedKeys : h <= i}) = m
         /\ Before(Given(job), i) \in Nat
PROOF
  <1> DEFINE S == ConvertedKeys
             ks == Given(job)
             n == Len(texts)
             b == Before(ks, i)
  <1>1. /\ job \in Jobs /\ Valid(job) /\ n \in Nat \ {0} /\ n = Count(ks)
        /\ decorate_keylist = ToConvert(ks)
    BY WhenDecorated DEF LineInv, TextsInv, KeysAdjusted, Adjusted
  <1>2. /\ S \in SUBSET Nat /\ IsFiniteSet(S) /\ Cardinality(S) = n
        /\ \A k \in S : Before(ks, k) = Cardinality(Below(S, k))
    BY <1>1, KeyCount
  <1>3. \A j \in 1 .. n : \E k \in S : /\ Before(ks, k) = j - 1
                                       /\ decorate_keylist[j].conv = job.keys[k].conv
    <2>1. ConvertedIn(job) = S
      BY DEF ConvertedIn, ConvertedKeys
    <2>2. \A j \in 1 .. Count(ks) :
            \E k \in ConvertedIn(job) : /\ Before(ks, k) = j - 1
                                        /\ ToConvert(ks)[j].conv = job.keys[k].conv
      <3> TAKE j \in 1 .. Count(ks)
      <3>1. job \in Jobs /\ Valid(job)
        BY <1>1
      <3> DEFINE keys == ToConvert(ks)
      <3>2. \E k \in ConvertedIn(job) :
               /\ Before(ks, k) = j - 1
               /\ WantedIn(job, j) = [AskedIn(job, k) EXCEPT !.b = TRUE, !.eb = TRUE]
               /\ keys[j] = [ks[k] EXCEPT !.skipsblanks = TRUE, !.skipeblanks = TRUE]
               /\ Means(keys[j], WantedIn(job, j))
               /\ keys[j].conv = WantedIn(job, j).conv
               /\ keys[j].conv = job.keys[k].conv
               /\ WantedIn(job, j).e = Absent <=> keys[j].eword = SizeMax
        BY <3>1, WantedIs, Zenon
      <3> HIDE DEF keys, ks
      <3>3. PICK k \in ConvertedIn(job) : /\ Before(ks, k) = j - 1
                                         /\ keys[j].conv = job.keys[k].conv
        BY <3>2, Zenon
      <3> QED BY <3>3, Zenon DEF keys
    <2> HIDE DEF S, ks, n
    <2> QED BY <1>1, <2>1, <2>2, Zenon
  <1> HIDE DEF S, ks, n
  <1>4. b = Cardinality(Below(S, i)) /\ b \in Nat /\ b + 1 <= n /\ i \in S /\ i \in Nat
    <2>1. i \in S
      BY DEF S
    <2>2. Cardinality(Below(S, i)) + 1 <= n /\ Cardinality(Below(S, i)) \in Nat
      BY <1>2, <2>1, BelowLess, BelowSize
    <2> QED BY <1>2, <2>1, <2>2
  <1> HIDE DEF b
  <1>5. m = b + 1 /\ m \in 1 .. n
    BY <1>1, <1>4 DEF b, ks
  <1>6. Cardinality({h \in S : h <= i}) = m
    <2>1. PICK r : r = i + 1 /\ r \in Int /\ i < r
      BY <1>4
    <2>2. \A s \in S : ~(i < s /\ s < r)
      BY <1>2, <1>4, <2>1
    <2>3. Cardinality(Below(S, r)) = Cardinality(Below(S, i)) + 1
      BY <1>2, <1>4, <2>1, <2>2, BelowNext
    <2>4. \A h \in S : h < r <=> h <= i
      BY <1>2, <1>4, <2>1
    <2>5. Below(S, r) = {h \in S : h <= i}
      BY <2>4 DEF Below
    <2> QED BY <1>4, <1>5, <2>3, <2>5
  <1>7. Outputs[m] = Output(job.keys[i].conv, texts[m])
    <2>1. PICK k \in S : Before(ks, k) = m - 1
                         /\ decorate_keylist[m].conv = job.keys[k].conv
      BY <1>3, <1>5
    <2>2. Cardinality(Below(S, k)) = Cardinality(Below(S, i))
      BY <1>2, <1>4, <1>5, <2>1
    <2>3. k = i
      BY <1>2, <1>4, <2>2, PlaceIsUnique
    <2>4. Outputs[m] = Output(decorate_keylist[m].conv, texts[m])
      BY <1>5 DEF Outputs, n
    <2> QED BY <2>1, <2>3, <2>4
  <1> QED BY <1>4, <1>5, <1>6, <1>7 DEF S, ks, n, b

(* A converted key selects its conversion on the decorated line.           *)
LEMMA KeySelectsIt ==
  ASSUME LineInv, status \in {"sorting", "done"}, Tidy,
         NEW i \in 1 .. Len(job.keys), job.keys[i].conv # AsText, Represented(i),
         ~(Asked(i).c > 1), ~(Asked(i).d > 0), Asked(i).e # Absent,
         NEW m, m = Cardinality({h \in ConvertedKeys : h <= i})
  PROVE  Sorted(i) = (IF m > 1 THEN FrontBlank(job.tab) ELSE << >>)
                       \o Output(Asked(i).conv, texts[m])
PROOF
  <1> DEFINE n == Len(texts)
             tab == job.tab
             l == decorated \o line
             arg == job.keys[i]
             ks == Given(job)
             k == Printed(Moved(ks, i))
  <1>1. /\ job \in Jobs /\ line \in Lines /\ Valid(job)
        /\ n \in Nat \ {0} /\ n = Count(ks)
        /\ Outputs \in Seq(Seq(Glyphs))
    BY WhenDecorated
  <1>2. arg \in KeyType /\ ~BadPosition(arg) /\ ks[i] = KeyOf(arg)
    BY <1>1, GivenIs DEF Valid
  <1>3. Asked(i).conv = arg.conv /\ Asked(i).d = arg.d /\ Asked(i).e = arg.e
        /\ Asked(i).c = IF arg.c = Absent THEN 1 ELSE arg.c
    BY <1>2 DEF Asked, KeyType
  <1>4. i \in ConvertedKeys
    <2>1. DOMAIN job.keys = 1 .. Len(job.keys)
      BY <1>1, GivenIs
    <2> QED BY <2>1 DEF ConvertedKeys
  <1>5. /\ m = Before(ks, i) + 1 /\ m \in 1 .. n /\ Before(ks, i) \in Nat
        /\ Outputs[m] = Output(arg.conv, texts[m])
    <2>1. PICK o : o = Before(ks, i) + 1
      OBVIOUS
    <2> QED BY <1>4, <2>1, OwnConversion
  <1>6. m <= SizeMax /\ m \in Nat \ {0}
    <2>1. arg.f \in Nat /\ SizeMax \in Nat
      BY <1>2, DecorateKeysAssumption DEF KeyType
    <2>2. arg.f + n <= SizeMax
      BY <1>1, KeyCount DEF Represented
    <2> HIDE DEF arg, n
    <2> QED BY <1>1, <1>5, <2>1, <2>2
  <1>7. WholeField(k, m)
    <2>1. arg.c = Absent \/ ~(arg.c > 1)
      BY <1>3
    <2>2. ~(arg.d > 0) /\ arg.e # Absent /\ arg.conv # AsText
      BY <1>3
    <2>3. m \in Nat /\ Before(ks, i) + 1 = m
      BY <1>5, <1>6
    <2>4. k = Printed(Moved(ks, i))
      OBVIOUS
    <2> HIDE DEF ks, arg, n, k
    <2>5. PICK o : o = m /\ o \in Nat /\ Before(ks, i) + 1 = o /\ o <= SizeMax
      BY <1>6, <2>3
    <2>6. WholeField(k, o)
      BY <1>2, <1>5, <2>1, <2>2, <2>4, <2>5, KeyReplaced
    <2> QED BY <2>5, <2>6
  <1>8. PICK at : FrontStarts(at)
    BY FrontBehind
  <1>9. /\ l \in Seq(Glyphs)
        /\ \A j \in 0 .. n : /\ FieldStart(tab, l, j + 1) = CutAt(tab, at, j)
                             /\ j + 1 <= Cardinality(FieldStarts(tab, l))
    BY <1>8 DEF FrontStarts
  <1>10. Len(l) \in Nat
    <2> HIDE DEF Glyphs, l
    <2> QED BY <1>9
  <1>11. Sorted(i) = KeyText(tab, l, k)
    BY SortedIs
  <1> HIDE DEF n, l, arg, ks, k
  <1>12. PICK p : p = m - 1
    OBVIOUS
  <1>13. p \in 0 .. n /\ m \in 0 .. n /\ p + 1 = m
    BY <1>1, <1>5, <1>12
  <1>14. PICK next : /\ next = m + 1
                     /\ FieldStart(tab, l, m) = CutAt(tab, at, p)
                     /\ FieldStart(tab, l, next) = CutAt(tab, at, m)
                     /\ next <= Cardinality(FieldStarts(tab, l))
    BY <1>9, <1>13
  <1>15. KeyText(tab, l, k)
           = Part(l, FieldStart(tab, l, m),
                  FieldStart(tab, l, next) - IF tab = NoTab THEN 0 ELSE 1)
    <2> HIDE DEF tab
    <2> QED BY <1>6, <1>7, <1>10, <1>14, OneField
  <1>16. PICK a, b : a = CutAt(tab, at, p) /\ b = at[m] - 1
    OBVIOUS
  <1>17. CutAt(tab, at, m) - (IF tab = NoTab THEN 0 ELSE 1) = b
    <2>1. CutAt(tab, at, m) = at[m] - 1 + SepLen(tab)
      BY <1>6 DEF CutAt
    <2>2. at[m] \in Int
      <3>1. at \in [0 .. n -> 0 .. Len(decorated)]
        BY <1>8 DEF FrontStarts, Laid, n
      <3> QED BY <1>13, <3>1
    <2> QED BY <1>16, <2>1, <2>2 DEF SepLen
  <1>18. KeyText(tab, l, k) = Part(l, a, b)
    BY <1>14, <1>15, <1>16, <1>17
  <1>19. Part(l, a, b) = (IF m > 1 THEN FrontBlank(tab) ELSE << >>) \o Outputs[m]
    <2>1. n \in Nat /\ n = Len(texts) /\ m \in 1 .. n
      BY <1>1, <1>5 DEF n
    <2>2. a = CutAt(job.tab, at, m - 1) /\ b = at[m] - 1
      BY <1>12, <1>16
    <2>3. PICK w : IsPiece(at, m, a, b, l, w)
      BY <1>1, <1>8, <2>1, <2>2, Zenon DEF IsPiece, l
    <2>4. Part(l, a, b) = w
      BY <2>3, Piece
    <2> QED BY <2>3, <2>4 DEF IsPiece
  <1> QED BY <1>3, <1>5, <1>11, <1>18, <1>19

LEMMA ComparesTheKey ==
  ASSUME LineInv
  PROVE  SortComparesTheKey
PROOF
  <1> SUFFICES ASSUME status \in {"sorting", "done"}, Tidy,
                      NEW i \in DOMAIN keylist, Represented(i)
               PROVE  LET asked == Asked(i)
                          front == IF job.tab = NoTab THEN <<Blank>> ELSE << >>
                          n     == Cardinality({h \in ConvertedKeys : h <= i})
                      IN  IF asked.conv = AsText
                          THEN /\ Sorted(i) = KeyText(job.tab, front \o line, asked)
                               /\ asked.f > 1 /\ ~(asked.e = 1 /\ asked.d > 0)
                                    => Sorted(i) = KeyText(job.tab, line, asked)
                          ELSE \/ asked.c > 1 \/ asked.d > 0 \/ asked.e = Absent
                               \/ Sorted(i) = (IF n > 1 THEN front ELSE << >>)
                                                \o Output(asked.conv, texts[n])
    BY DEF SortComparesTheKey
  <1>1. i \in 1 .. Len(job.keys)
    BY SortedIs
  <1>2. Asked(i).conv = job.keys[i].conv
    <2>1. job \in Jobs
      BY WhenDecorated
    <2>2. job.keys[i] \in KeyType
      BY <1>1, <2>1, GivenIs
    <2> QED BY <2>2 DEF Asked, KeyType
  <1>3. FrontBlank(job.tab) = IF job.tab = NoTab THEN <<Blank>> ELSE << >>
    BY DEF FrontBlank
  <1>4. CASE Asked(i).conv = AsText
    <2>1. /\ Sorted(i) = KeyText(job.tab, FrontBlank(job.tab) \o line, Asked(i))
          /\ Asked(i).f > 1 /\ ~(Asked(i).e = 1 /\ Asked(i).d > 0)
               => Sorted(i) = KeyText(job.tab, line, Asked(i))
      BY <1>1, <1>2, <1>4, KeyStays
    <2> QED BY <1>3, <1>4, <2>1, Zenon
  <1>5. CASE Asked(i).conv # AsText
    <2> SUFFICES ASSUME ~(Asked(i).c > 1), ~(Asked(i).d > 0), Asked(i).e # Absent
                 PROVE  LET front == IF job.tab = NoTab THEN <<Blank>> ELSE << >>
                            n     == Cardinality({h \in ConvertedKeys : h <= i})
                        IN  Sorted(i) = (IF n > 1 THEN front ELSE << >>)
                                          \o Output(Asked(i).conv, texts[n])
      BY <1>5, Zenon
    <2>1. PICK m : m = Cardinality({h \in ConvertedKeys : h <= i})
      OBVIOUS
    <2>2. Sorted(i) = (IF m > 1 THEN FrontBlank(job.tab) ELSE << >>)
                        \o Output(Asked(i).conv, texts[m])
      BY <1>1, <1>2, <1>5, <2>1, KeySelectsIt
    <2> QED BY <1>3, <2>1, <2>2, Zenon
  <1> QED BY <1>4, <1>5

(* On the decorated line every key of sort selects what the user asked for *)
(* of the line, or the conversion asked for, whatever the keys and the     *)
(* conversions are, when each conversion is one field and the moved        *)
(* numbers do not wrap.  (adjust_key_fields, debug_keyfield)               *)
THEOREM SortReadsTheKeys == Spec => []SortComparesTheKey
  <1>1. LineInv => SortComparesTheKey
    BY ComparesTheKey
  <1> QED BY <1>1, LineAlways, PTL
=============================================================================
