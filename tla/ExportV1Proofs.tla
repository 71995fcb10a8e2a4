--------------------------- MODULE ExportV1Proofs ---------------------------
(***************************************************************************)
(* Proofs about ExportV1: the file Stream writes, for any IDs, frames and  *)
(* calls.                                                                  *)
(***************************************************************************)
EXTENDS ExportV1, TLAPS, FiniteSetTheorems, WellFoundedInduction

Frames == 1..MaxFrame

Fired == [by : Ids, frame : Frames]
Unit  == [join : Frames, delete : Frames \union {FrameForever},
          states : Seq(Frames), fired : Seq(Fired)]
PlacedEvent  == [frame : Frames, type : PlacedEventTypes]
PlacedObject == [join : Frames, events : Seq(PlacedEvent)]
Projectile   == [firer : Ids, frame : Frames, bullet : BOOLEAN, path : Seq(Frames),
                 hits : Seq(Frames)]

\* The fired events of a record are those of the unit with its ID.
OwnShots(u, i) == \A s \in DOMAIN u.fired : u.fired[s].by = i

\* The units of a recording.
UnitsOf(d) ==
    /\ d.units \in [Kinds -> [Ids -> Unit \union {None}]]
    /\ \A k \in Kinds, i \in Ids :
          d.units[k][i] # None => OwnShots(d.units[k][i], i)

\* The rest of it.  The markers matter to no theorem.
ThingsOf(d) ==
    /\ d.events \in [Range(EventSlices) -> Seq(Frames)]
    /\ d.placed \in [PlacedIds -> PlacedObject \union {None}]
    /\ d.projectiles \in Seq(Projectile)

-----------------------------------------------------------------------------
(* Greatest elements *)

\* A set of numbers that is not empty has a least one.
LEMMA LeastNumber ==
    ASSUME NEW T, T \subseteq Nat, T # {}
    PROVE  \E n \in T : \A m \in T : n <= m
<1> DEFINE less == {p \in Nat \X Nat : p[1] < p[2]}
<1>1. IsWellFoundedOn(less, Nat)
    BY NatLessThanWellFounded, Zenon DEF OpToRel
<1>2. \A m, n \in Nat : <<m, n>> \notin less => n <= m
    OBVIOUS
<1> HIDE DEF less
<1>3. PICK n \in T : \A m \in T : ~(<<m, n>> \in less)
    BY <1>1, WFMin, Zenon
<1> QED
    BY <1>2, <1>3

\* The maximum of a bounded set of numbers is its greatest member.
LEMMA MaxIsGreatest ==
    ASSUME NEW N \in Nat, NEW S, S \subseteq 0..N, S # {}
    PROVE  Max(S) \in S /\ \A x \in S : Max(S) >= x
<1> DEFINE below == {n \in Nat : \E x \in S : n = N - x}
<1>1. below # {}
  <2>1. PICK x \in S : TRUE
    OBVIOUS
  <2>2. N - x \in below
    BY <2>1
  <2> QED
    BY <2>2
<1>2. PICK n \in below : \A m \in below : n <= m
    BY <1>1, LeastNumber, Zenon
<1>3. PICK g \in S : n = N - g
    BY <1>2
<1>4. ASSUME NEW x \in S
      PROVE  g >= x
  <2>1. N - x \in below
    OBVIOUS
  <2>2. n <= N - x
    BY <1>2, <2>1
  <2> QED
    BY <1>3, <2>2
<1> QED
    BY <1>4 DEF Max

-----------------------------------------------------------------------------
(* The numbers of a set in order *)

Ascending(s, S) ==
    /\ s \in [1..Cardinality(S) -> S]
    /\ Range(s) = S
    /\ \A m, n \in 1..Cardinality(S) : m < n => s[m] < s[n]

\* Every set of numbers below b can be put in order.
LEMMA CanBeOrdered ==
    ASSUME NEW b \in Nat, NEW S, S \subseteq 0..(b - 1)
    PROVE  IsFiniteSet(S) /\ \E s : Ascending(s, S)
<1> DEFINE Ordered(c) == \A T : T \subseteq 0..(c - 1) =>
                                   IsFiniteSet(T) /\ \E s : Ascending(s, T)
           bad == {c \in Nat : ~Ordered(c)}
<1>1. Ordered(0)
  <2> SUFFICES ASSUME NEW T, T \subseteq 0..(0 - 1)
               PROVE  IsFiniteSet(T) /\ \E s : Ascending(s, T)
    OBVIOUS
  <2>0. T = {}
    OBVIOUS
  <2>1. T = {} /\ IsFiniteSet(T) /\ Cardinality(T) = 0
    BY <2>0, FS_EmptySet
  <2>2. Ascending(<<>>, T)
    BY <2>1 DEF Ascending, Range
  <2> QED
    BY <2>1, <2>2
<1>2. ASSUME NEW c \in Nat, Ordered(c)
      PROVE  Ordered(c + 1)
  <2>0. (c + 1) - 1 = c
    OBVIOUS
  <2> SUFFICES ASSUME NEW T, T \subseteq 0..c
               PROVE  IsFiniteSet(T) /\ \E s : Ascending(s, T)
    BY <2>0
  <2>1. CASE c \notin T
    <3>1. T \subseteq 0..(c - 1)
      BY <2>1
    <3> QED
      BY <1>2, <3>1
  <2>2. CASE c \in T
    <3> DEFINE U == T \ {c}
               k == Cardinality(U)
    <3>1. U \subseteq 0..(c - 1)
      OBVIOUS
    <3>2. IsFiniteSet(U) /\ \E u : Ascending(u, U)
      BY <1>2, <3>1
    <3>3. PICK u : Ascending(u, U)
      BY <3>2
    <3>4. T = U \union {c} /\ c \notin U
      BY <2>2
    <3> HIDE DEF U
    <3>5. k \in Nat /\ IsFiniteSet(T) /\ Cardinality(T) = k + 1
      BY <3>2, <3>4, FS_CardinalityType, FS_AddElement
    <3> HIDE DEF k
    <3>6. /\ u \in [1..k -> U] /\ Range(u) = U
          /\ \A m, n \in 1..k : m < n => u[m] < u[n]
      BY <3>3 DEF Ascending, k
    <3> DEFINE s == [m \in 1..(k + 1) |-> IF m = k + 1 THEN c ELSE u[m]]
    <3>7. s \in [1..(k + 1) -> T]
      BY <3>4, <3>5, <3>6
    <3>8. /\ s[k + 1] = c /\ k + 1 \in 1..(k + 1)
          /\ \A m \in 1..k : m \in 1..(k + 1) /\ s[m] = u[m]
      BY <3>5
    <3>9. ASSUME NEW x \in T
          PROVE  \E m \in 1..(k + 1) : s[m] = x
      <4>1. CASE x = c
        BY <3>8, <4>1
      <4>2. CASE x \in U
        <5>1. PICK m \in 1..k : u[m] = x
          BY <3>6, <4>2 DEF Range
        <5> QED
          BY <3>8, <5>1
      <4> QED
        BY <3>4, <4>1, <4>2
    <3>10. Range(s) = T
      BY <3>7, <3>9 DEF Range
    <3>11. ASSUME NEW m \in 1..(k + 1), NEW n \in 1..(k + 1), m < n
           PROVE  s[m] < s[n]
      <4>1. m \in 1..k /\ s[m] = u[m] /\ u[m] \in U
        BY <3>5, <3>6, <3>8, <3>11
      <4>2. CASE n = k + 1
        <5>1. u[m] \in 0..(c - 1)
          BY <3>1, <4>1
        <5> QED
          BY <1>2, <3>8, <4>1, <4>2, <5>1
      <4>3. CASE n \in 1..k
        BY <3>6, <3>8, <3>11, <4>1, <4>3
      <4> QED
        BY <3>5, <4>2, <4>3
    <3> HIDE DEF s
    <3>12. Ascending(s, T)
      BY <3>5, <3>7, <3>10, <3>11 DEF Ascending
    <3> QED
      BY <3>5, <3>12
  <2> QED
    BY <2>1, <2>2
<1> HIDE DEF Ordered
<1>3. bad = {}
  <2> SUFFICES ASSUME bad # {}
               PROVE  FALSE
    OBVIOUS
  <2>1. PICK c \in bad : \A e \in bad : c <= e
    <3>1. bad \subseteq Nat
      OBVIOUS
    <3> QED
      BY <3>1, LeastNumber, Zenon
  <2>2. c \in Nat /\ ~Ordered(c) /\ c # 0
    BY <1>1, <2>1
  <2>3. c - 1 \in Nat /\ c - 1 \notin bad /\ (c - 1) + 1 = c
    BY <2>1, <2>2
  <2>4. Ordered(c - 1)
    BY <2>3
  <2> QED
    BY <1>2, <2>2, <2>3, <2>4
<1>4. Ordered(b)
    BY <1>3
<1> QED
    BY <1>4 DEF Ordered

\* A bounded set of numbers can be listed in order (the sorted keys of a map).
LEMMA InOrderIs ==
    ASSUME NEW N \in Nat, NEW S, S \subseteq 0..N
    PROVE  /\ IsFiniteSet(S) /\ Cardinality(S) \in Nat
           /\ Ascending(InOrder(S), S)
<1>1. N + 1 \in Nat /\ S \subseteq 0..((N + 1) - 1)
    OBVIOUS
<1>2. IsFiniteSet(S) /\ \E s : Ascending(s, S)
    BY <1>1, CanBeOrdered
<1>3. Ascending(InOrder(S), S)
    BY <1>2 DEF Ascending, InOrder
<1> QED
    BY <1>2, <1>3, FS_CardinalityType

-----------------------------------------------------------------------------
(* Sequences put end to end *)

\* The recursion of FlattenSeq has a value for every n.
LEMMA FlattenExists ==
    ASSUME NEW ss, NEW n \in Nat
    PROVE  \E g : g = [i \in 1..n |-> IF i = 1 THEN ss[i] ELSE g[i-1] \o ss[i]]
<1> DEFINE Ends(c) == \E g : g = [i \in 1..c |-> IF i = 1 THEN ss[i]
                                                 ELSE g[i-1] \o ss[i]]
           bad == {c \in Nat : ~Ends(c)}
<1>1. Ends(0)
  <2>1. <<>> = [i \in 1..0 |-> IF i = 1 THEN ss[i] ELSE <<>>[i-1] \o ss[i]]
    OBVIOUS
  <2> QED
    BY <2>1
<1>2. ASSUME NEW c \in Nat, Ends(c)
      PROVE  Ends(c + 1)
  <2>1. PICK g : g = [i \in 1..c |-> IF i = 1 THEN ss[i] ELSE g[i-1] \o ss[i]]
    BY <1>2
  <2> DEFINE last == IF c = 0 THEN ss[1] ELSE g[c] \o ss[c + 1]
             h == [i \in 1..(c + 1) |-> IF i = c + 1 THEN last ELSE g[i]]
  <2>2. ASSUME NEW i \in 1..(c + 1)
        PROVE  h[i] = IF i = 1 THEN ss[i] ELSE h[i-1] \o ss[i]
    <3>1. CASE i = c + 1
      <4>1. h[i] = last
        BY <3>1
      <4>2. CASE c = 0
        BY <3>1, <4>1, <4>2
      <4>3. CASE c # 0
        <5>1. i # 1 /\ i - 1 = c /\ c \in 1..(c + 1) /\ c # c + 1
          BY <3>1, <4>3
        <5>2. h[c] = g[c]
          BY <5>1
        <5> QED
          BY <3>1, <4>1, <4>3, <5>1, <5>2
      <4> QED
        BY <4>2, <4>3
    <3>2. CASE i # c + 1
      <4>1. i \in 1..c /\ h[i] = g[i]
        BY <3>2
      <4>2. g[i] = IF i = 1 THEN ss[i] ELSE g[i-1] \o ss[i]
        BY <2>1, <4>1
      <4>3. i # 1 => h[i-1] = g[i-1]
        BY <4>1
      <4> QED
        BY <4>1, <4>2, <4>3
    <3> QED
      BY <3>1, <3>2
  <2>3. h = [i \in 1..(c + 1) |-> h[i]]
    OBVIOUS
  <2> HIDE DEF h
  <2>4. h = [i \in 1..(c + 1) |-> IF i = 1 THEN ss[i] ELSE h[i-1] \o ss[i]]
    BY <2>2, <2>3
  <2> QED
    BY <2>4
<1> HIDE DEF Ends
<1>3. bad = {}
  <2> SUFFICES ASSUME bad # {}
               PROVE  FALSE
    OBVIOUS
  <2>1. PICK c \in bad : \A e \in bad : c <= e
    <3>1. bad \subseteq Nat
      OBVIOUS
    <3> QED
      BY <3>1, LeastNumber, Zenon
  <2>2. c \in Nat /\ ~Ends(c) /\ c # 0
    BY <1>1, <2>1
  <2>3. c - 1 \in Nat /\ c - 1 \notin bad /\ (c - 1) + 1 = c
    BY <2>1, <2>2
  <2>4. Ends(c - 1)
    BY <2>3
  <2> QED
    BY <1>2, <2>2, <2>3, <2>4
<1>4. Ends(n)
    BY <1>3
<1> QED
    BY <1>4 DEF Ends

\* flat[i] is the first i of the n sequences ss end to end.
Flattens(flat, ss, n) ==
    /\ flat[1] = ss[1]
    /\ \A i \in 2..n : flat[i] = flat[i - 1] \o ss[i]
    /\ FlattenSeq(ss) = flat[n]

\* One more sequence can be put at the end of those that are end to end.
LEMMA FlattenStep ==
    ASSUME NEW n \in Nat \ {0}, NEW ss, Len(ss) = n
    PROVE  \E flat : Flattens(flat, ss, n)
<1> DEFINE flat == CHOOSE g : g = [i \in 1..n |-> IF i = 1 THEN ss[i] ELSE g[i-1] \o ss[i]]
<1>1. flat = [i \in 1..n |-> IF i = 1 THEN ss[i] ELSE flat[i-1] \o ss[i]]
    BY FlattenExists
<1>2. FlattenSeq(ss) = flat[n]
    BY DEF FlattenSeq
<1> HIDE DEF flat
<1>3. flat[1] = ss[1]
    BY <1>1
<1>4. ASSUME NEW i \in 2..n
      PROVE  flat[i] = flat[i - 1] \o ss[i]
  <2>1. i \in 1..n /\ i # 1
    OBVIOUS
  <2> QED
    BY <1>1, <2>1
<1>5. Flattens(flat, ss, n)
    BY <1>2, <1>3, <1>4 DEF Flattens
<1> QED
    BY <1>5

\* F is the first c sequences of ss end to end: its k-th element is number
\* col[k] of sequence row[k].
EndToEnd(F, ss, c, row, col) ==
    /\ \A k \in 1..Len(F) : /\ row[k] \in 1..c /\ col[k] \in 1..Len(ss[row[k]])
                            /\ F[k] = ss[row[k]][col[k]]
    /\ \A i \in 1..c : \A j \in 1..Len(ss[i]) :
          \E k \in 1..Len(F) : row[k] = i /\ col[k] = j
    /\ \A k, l \in 1..Len(F) :
          k < l => row[k] < row[l] \/ (row[k] = row[l] /\ col[k] < col[l])

\* The place in its sequence of every item, with one more sequence at the end.
LEMMA EndToEndAppend ==
    ASSUME NEW A, NEW c \in Nat, NEW ss, NEW F \in Seq(A), NEW row, NEW col,
           EndToEnd(F, ss, c, row, col), ss[c + 1] \in Seq(A)
    PROVE  \E r, s : EndToEnd(F \o ss[c + 1], ss, c + 1, r, s)
<1> DEFINE G == F \o ss[c + 1]
           L == Len(F)
           M == Len(ss[c + 1])
           r == [k \in 1..(L + M) |-> IF k <= L THEN row[k] ELSE c + 1]
           s == [k \in 1..(L + M) |-> IF k <= L THEN col[k] ELSE k - L]
<1>1. L \in Nat /\ M \in Nat /\ Len(G) = L + M
    OBVIOUS
<1>2. ASSUME NEW k \in 1..(L + M)
      PROVE  G[k] = IF k <= L THEN F[k] ELSE ss[c + 1][k - L]
    OBVIOUS
<1>3. /\ \A k \in 1..L : row[k] \in 1..c /\ col[k] \in 1..Len(ss[row[k]])
                           /\ F[k] = ss[row[k]][col[k]]
      /\ \A i \in 1..c : \A j \in 1..Len(ss[i]) :
            \E k \in 1..L : row[k] = i /\ col[k] = j
      /\ \A k, l \in 1..L :
            k < l => row[k] < row[l] \/ (row[k] = row[l] /\ col[k] < col[l])
    BY DEF EndToEnd
<1> HIDE DEF G, L
<1>4. /\ \A k \in 1..L : k \in 1..(L + M) /\ r[k] = row[k] /\ s[k] = col[k] /\ G[k] = F[k]
      /\ \A k \in (L + 1)..(L + M) : /\ k \in 1..(L + M) /\ r[k] = c + 1 /\ s[k] = k - L
                                     /\ G[k] = ss[c + 1][k - L]
      /\ \A k \in 1..(L + M) : k \in 1..L \/ k \in (L + 1)..(L + M)
    BY <1>1, <1>2
<1> HIDE DEF M, r, s
<1>5. ASSUME NEW k \in 1..(L + M)
      PROVE  /\ r[k] \in 1..(c + 1) /\ s[k] \in 1..Len(ss[r[k]])
             /\ G[k] = ss[r[k]][s[k]]
  <2>1. CASE k \in 1..L
    BY <1>3, <1>4, <2>1
  <2>2. CASE k \in (L + 1)..(L + M)
    <3>1. k - L \in 1..M /\ c + 1 \in 1..(c + 1)
      BY <1>1, <2>2
    <3> QED
      BY <1>4, <2>2, <3>1 DEF M
  <2> QED
    BY <1>4, <2>1, <2>2
<1>6. ASSUME NEW i \in 1..(c + 1), NEW j \in 1..Len(ss[i])
      PROVE  \E k \in 1..(L + M) : r[k] = i /\ s[k] = j
  <2>1. CASE i \in 1..c
    <3>1. PICK k \in 1..L : row[k] = i /\ col[k] = j
      BY <1>3, <2>1
    <3> QED
      BY <1>4, <3>1
  <2>2. CASE i = c + 1
    <3>1. j \in 1..M
      BY <2>2 DEF M
    <3>2. j + L \in (L + 1)..(L + M) /\ (j + L) - L = j
      BY <1>1, <3>1
    <3> QED
      BY <1>4, <2>2, <3>2
  <2> QED
    BY <2>1, <2>2
<1>7. ASSUME NEW k \in 1..(L + M), NEW l \in 1..(L + M), k < l
      PROVE  r[k] < r[l] \/ (r[k] = r[l] /\ s[k] < s[l])
  <2>1. CASE l \in 1..L
    <3>1. k \in 1..L
      BY <1>1, <1>7, <2>1
    <3> QED
      BY <1>3, <1>4, <1>7, <2>1, <3>1
  <2>2. CASE k \in 1..L /\ l \in (L + 1)..(L + M)
    <3>1. r[l] = c + 1 /\ r[k] \in 1..c
      BY <1>3, <1>4, <2>2
    <3> QED
      BY <3>1
  <2>3. CASE k \in (L + 1)..(L + M) /\ l \in (L + 1)..(L + M)
    <3>1. r[l] = c + 1 /\ r[k] = c + 1 /\ s[l] = l - L /\ s[k] = k - L
      BY <1>4, <2>3
    <3>2. k - L < l - L
      BY <1>1, <1>7, <2>3
    <3> QED
      BY <3>1, <3>2
  <2> QED
    BY <1>4, <2>1, <2>2, <2>3
<1>8. EndToEnd(G, ss, c + 1, r, s)
    BY <1>1, <1>5, <1>6, <1>7 DEF EndToEnd
<1> QED
    BY <1>8 DEF G

\* FlattenSeq puts the sequences end to end.
LEMMA FlattenIs ==
    ASSUME NEW A, NEW n \in Nat, NEW ss \in [1..n -> Seq(A)]
    PROVE  /\ FlattenSeq(ss) \in Seq(A)
           /\ \E row, col : EndToEnd(FlattenSeq(ss), ss, n, row, col)
<1>1. Len(ss) = n /\ \A i \in 1..n : ss[i] \in Seq(A)
    OBVIOUS
<1>2. CASE n = 0
  <2>1. FlattenSeq(ss) = <<>>
    BY <1>2 DEF FlattenSeq
  <2>2. EndToEnd(<<>>, ss, n, <<>>, <<>>)
    BY <1>2 DEF EndToEnd
  <2> QED
    BY <2>1, <2>2
<1>3. CASE n # 0
  <2>a. PICK flat : Flattens(flat, ss, n)
    <3>1. n \in Nat \ {0}
      BY <1>3
    <3>2. Len(ss) = n
      BY <1>1
    <3> QED
      BY <3>1, <3>2, FlattenStep
  <2>1. /\ flat[1] = ss[1]
        /\ \A i \in 2..n : flat[i] = flat[i - 1] \o ss[i]
        /\ FlattenSeq(ss) = flat[n]
    BY <2>a DEF Flattens
  <2> DEFINE Good(c) == /\ flat[c] \in Seq(A)
                        /\ \E row, col : EndToEnd(flat[c], ss, c, row, col)
             bad == {c \in 1..n : ~Good(c)}
  <2>2. Good(1)
    <3>1. EndToEnd(<<>>, ss, 0, <<>>, <<>>) /\ <<>> \in Seq(A)
      BY DEF EndToEnd
    <3>2. 1 \in 1..n
      BY <1>3
    <3>3. ss[0 + 1] \in Seq(A) /\ 0 \in Nat
      BY <1>1, <3>2
    <3>4. \E r, s : EndToEnd(<<>> \o ss[0 + 1], ss, 0 + 1, r, s)
      BY <3>1, <3>3, EndToEndAppend
    <3>5. <<>> \o ss[0 + 1] = ss[1] /\ 0 + 1 = 1
      BY <3>3
    <3>6. \E r, s : EndToEnd(ss[1], ss, 1, r, s)
      BY <3>4, <3>5
    <3> QED
      BY <2>1, <3>3, <3>6
  <2>3. ASSUME NEW c \in 1..n, c + 1 \in 1..n, Good(c)
        PROVE  Good(c + 1)
    <3>1. ss[c + 1] \in Seq(A) /\ c \in Nat
      BY <1>1, <2>3
    <3>2. flat[c + 1] = flat[c] \o ss[c + 1]
      <4>1. c + 1 \in 2..n /\ (c + 1) - 1 = c
        BY <2>3
      <4> QED
        BY <2>1, <4>1
    <3>3. PICK row, col : EndToEnd(flat[c], ss, c, row, col)
      BY <2>3
    <3>4. flat[c] \in Seq(A)
      BY <2>3
    <3>5. \E r, s : EndToEnd(flat[c] \o ss[c + 1], ss, c + 1, r, s)
      BY <3>1, <3>3, <3>4, EndToEndAppend
    <3> QED
      BY <3>1, <3>2, <3>4, <3>5
  <2> HIDE DEF Good
  <2>4. bad = {}
    <3> SUFFICES ASSUME bad # {}
                 PROVE  FALSE
      OBVIOUS
    <3>1. PICK c \in bad : \A e \in bad : c <= e
      <4>1. bad \subseteq Nat
        OBVIOUS
      <4> QED
        BY <4>1, LeastNumber, Zenon
    <3>2. c \in 1..n /\ ~Good(c) /\ c # 1
      BY <2>2, <3>1
    <3>3. c - 1 \in 1..n /\ c - 1 \notin bad /\ (c - 1) + 1 = c
      BY <3>1, <3>2
    <3>4. Good(c - 1)
      BY <3>3
    <3> QED
      BY <2>3, <3>2, <3>3, <3>4
  <2>5. Good(n)
    <3>1. n \in 1..n
      BY <1>3
    <3> QED
      BY <2>4, <3>1
  <2> QED
    BY <2>1, <2>5 DEF Good
<1> QED
    BY <1>2, <1>3

-----------------------------------------------------------------------------
(* Stream and Build make the same entities *)

\* Stream and Build compute the same frame and the same ID (computedMaxFrame, buildMaxID).
LEMMA SameAggregates ==
    ASSUME NEW d
    PROVE  /\ computedMaxFrame(d) = buildMaxFrame(d)
           /\ computedMaxID(d) = buildMaxID(d)
<1>1. FramesOf(d, "soldier") \union FramesOf(d, "vehicle") = UNION {FramesOf(d, k) : k \in Kinds}
    BY Zenon DEF Kinds
<1>2. Present(d, "soldier") \union Present(d, "vehicle") = UNION {Present(d, k) : k \in Kinds}
    BY Zenon DEF Kinds
<1>3. {0} \union FramesOf(d, "soldier") \union FramesOf(d, "vehicle")
          = {0} \union UNION {FramesOf(d, k) : k \in Kinds}
    BY <1>1
<1>4. {0} \union Present(d, "soldier") \union Present(d, "vehicle")
          = {0} \union UNION {Present(d, k) : k \in Kinds}
    BY <1>2
<1> QED
    BY <1>3, <1>4, Zenon DEF computedMaxFrame, buildMaxFrame, computedMaxID, buildMaxID

\* The greatest ID is that of a soldier or a vehicle, and no entity has a greater one.
LEMMA MaxIDIsAnID ==
    ASSUME NEW d
    PROVE  /\ computedMaxID(d) \in Ids
           /\ hasEntities(d) =>
                 computedMaxID(d) \in Present(d, "soldier") \union Present(d, "vehicle")
           /\ \A k \in Kinds : \A i \in Present(d, k) : i <= computedMaxID(d)
<1> DEFINE S == {0} \union Present(d, "soldier") \union Present(d, "vehicle")
<1>1. IdMax \in Nat /\ S \subseteq 0..IdMax /\ S # {}
    BY ExportAssumption DEF Present, Ids
<1>2. Max(S) \in S /\ \A x \in S : Max(S) >= x
    BY <1>1, MaxIsGreatest
<1>3. Max(S) \in Ids /\ \A x \in S : x <= Max(S) /\ x \in Nat
    BY <1>1, <1>2 DEF Ids
<1>4. computedMaxID(d) = Max(S)
    BY DEF computedMaxID
<1>5. ASSUME hasEntities(d)
      PROVE  Max(S) \in Present(d, "soldier") \union Present(d, "vehicle")
  <2>1. PICK i \in Present(d, "soldier") \union Present(d, "vehicle") : TRUE
    BY <1>5 DEF hasEntities
  <2>2. i <= Max(S) /\ i \in Nat
    BY <1>3, <2>1
  <2>3. Max(S) = 0 => i = 0
    BY <2>2
  <2> QED
    BY <1>2, <2>1, <2>3
<1> QED
    BY <1>3, <1>4, <1>5 DEF Kinds

\* The array has a place for every ID, unless its length overflows.
Total(d) == IF hasEntities(d) THEN computedMaxID(d) + 1 ELSE 0

\* If Build does not panic, its array has as many places as Stream writes entities.
LEMMA BuildLength ==
    ASSUME NEW d, ~BuildPanics(d)
    PROVE  buildLength(d) = Total(d)
<1>1. CASE ~hasEntities(d)
    BY <1>1 DEF buildLength, Total
<1>2. CASE hasEntities(d)
  <2>1. PICK id \in Ids : id = computedMaxID(d)
    BY MaxIDIsAnID
  <2>2. /\ id \in 0..IdMax /\ IdMax \in Nat
        /\ buildLength(d) = (id + 1) % (IdMax + 1) /\ ~(buildLength(d) <= id)
    BY <1>2, <2>1, SameAggregates, ExportAssumption DEF buildLength, BuildPanics, Ids
  <2>3. CASE id = IdMax
    BY <2>2, <2>3
  <2>4. CASE id < IdMax
    <3>1. id + 1 \in Nat /\ IdMax + 1 \in Nat /\ id + 1 < IdMax + 1
      BY <2>2, <2>4
    <3>2. \A a, b \in Nat : a < b => a % b = a
      OBVIOUS
    <3>3. (id + 1) % (IdMax + 1) = id + 1
      BY <3>1, <3>2
    <3> QED
      BY <1>2, <2>1, <2>2, <3>3 DEF Total
  <2> QED
    BY <1>2, <2>1, <2>2, <2>3, <2>4 DEF Total
<1> QED
    BY <1>1, <1>2

\* An entity is given by its fields.
One(type, id, start, positions, fired) ==
    [type : {type}, id : {id}, start : {start}, positions : {positions},
     framesFired : {fired}]

\* A type, an ID, a frame, positions and lines make one entity.
LEMMA OneEntity ==
    ASSUME NEW type, NEW id, NEW start, NEW positions, NEW fired,
           NEW a \in One(type, id, start, positions, fired),
           NEW b \in One(type, id, start, positions, fired)
    PROVE  a = b
    BY DEF One

\* Stream draws an ID as Build does, if it is one unit's and only soldiers have
\* fired (EntityForID, buildEntity).
LEMMA SameEntity ==
    ASSUME NEW d, UnitsOf(d), NEW i \in Ids,
           i \notin Present(d, "soldier") \intersect Present(d, "vehicle"),
           i \notin Present(d, "soldier") => firelines(d, i) = <<>>
    PROVE  EntityForID(d, i) = buildEntity(d, i)
<1> DEFINE soldier == d.units["soldier"][i]
           vehicle == d.units["vehicle"][i]
           max     == computedMaxFrame(d)
           lines   == firelines(d, i)
<1>1. /\ soldier \in Unit \union {None}
      /\ soldier = None \/ vehicle = None
      /\ max = buildMaxFrame(d)
      /\ soldier = None => lines = <<>>
    BY SameAggregates DEF UnitsOf, Kinds, Present
<1> HIDE DEF max, lines
<1>2. CASE soldier # None
  <2> DEFINE own == [s \in DOMAIN soldier.fired |->
                        Shot(soldier.fired[s].frame, <<"fired", soldier.fired[s].by, s>>)]
             shown == buildSoldierEntity(i, soldier, max, <<>>).positions
             drawn(f) == [type |-> "unit", id |-> i, start |-> frameToV1(soldier.join),
                          positions |-> shown, framesFired |-> f]
  <2>1. own \o <<>> = own
    <3>1. PICK n \in Nat : DOMAIN soldier.fired = 1..n
      <4>1. soldier \in Unit
        BY <1>1, <1>2
      <4>2. soldier.fired \in Seq(Fired)
        BY <4>1 DEF Unit
      <4> HIDE DEF soldier
      <4> QED
        BY <4>2
    <3>2. own \in [1..n -> {own[s] : s \in 1..n}]
      BY <3>1
    <3> HIDE DEF own
    <3> QED
      BY <3>2
  <2>2. /\ buildSoldierEntity(i, soldier, max, <<>>) = drawn(own \o <<>>)
        /\ buildSoldierEntity(i, soldier, max, lines) = drawn(own \o lines)
    BY DEF buildSoldierEntity
  <2> HIDE DEF own, shown
  <2>3. drawn(own).framesFired = own
    OBVIOUS
  <2>4. [drawn(own) EXCEPT !.framesFired = own \o lines] = drawn(own \o lines)
    <3> DEFINE E == One("unit", i, frameToV1(soldier.join), shown, own \o lines)
    <3>1. /\ [drawn(own) EXCEPT !.framesFired = own \o lines] \in E
          /\ drawn(own \o lines) \in E
      BY DEF One
    <3> QED
      BY <3>1, OneEntity
  <2> HIDE DEF drawn
  <2>5. EntityForID(d, i) = drawn(own \o lines)
    BY <1>2, <2>2 DEF EntityForID, max, lines
  <2>6. buildEntity(d, i) = [drawn(own) EXCEPT !.framesFired = @ \o lines]
    BY <1>1, <1>2, <2>1, <2>2 DEF buildEntity, lines
  <2> QED
    BY <2>3, <2>4, <2>5, <2>6
<1>3. CASE soldier = None /\ vehicle # None
  <2>1. [buildVehicleEntity(i, vehicle, max) EXCEPT !.framesFired = @ \o <<>>]
            = buildVehicleEntity(i, vehicle, max)
    BY DEF buildVehicleEntity
  <2> QED
    BY <1>1, <1>3, <2>1 DEF EntityForID, buildEntity, max, lines
<1>4. CASE soldier = None /\ vehicle = None
  <2>1. [Placeholder EXCEPT !.framesFired = <<>>] = Placeholder
    <3>1. /\ [Placeholder EXCEPT !.framesFired = <<>>] \in One("", 0, 0, <<>>, <<>>)
          /\ Placeholder \in One("", 0, 0, <<>>, <<>>)
      BY DEF One, Placeholder
    <3> QED
      BY <3>1, OneEntity
  <2>2. Placeholder.framesFired \o <<>> = <<>>
    BY DEF Placeholder
  <2> QED
    BY <1>1, <1>4, <2>1, <2>2 DEF EntityForID, buildEntity, lines
<1> QED
    BY <1>2, <1>3, <1>4

-----------------------------------------------------------------------------
(* The recording *)

Recorded == frame \in Frames /\ UnitsOf(MissionData) /\ ThingsOf(MissionData)

\* The empty recording is one.
LEMMA RecordedInit == Init => Recorded
<1> SUFFICES ASSUME Init
             PROVE  Recorded
    OBVIOUS
<1>1. frame \in Frames
    BY ExportAssumption DEF Init, Frames
<1>2. UnitsOf(MissionData)
    BY DEF Init, UnitsOf, MissionData, Kinds
<1>3. ThingsOf(MissionData)
    BY DEF Init, ThingsOf, MissionData
<1> QED
    BY <1>1, <1>2, <1>3 DEF Recorded

\* A call puts one unit in place of another, or of none.
LEMMA UnitPut ==
    ASSUME Recorded, NEW k \in Kinds, NEW i \in Ids, NEW u \in Unit,
           OwnShots(u, i), units' = [units EXCEPT ![k][i] = u]
    PROVE  UnitsOf(MissionData)'
<1>1. units \in [Kinds -> [Ids -> Unit \union {None}]]
    BY DEF Recorded, UnitsOf, MissionData
<1>2. units' \in [Kinds -> [Ids -> Unit \union {None}]]
    BY <1>1
<1>3. ASSUME NEW h \in Kinds, NEW j \in Ids, units'[h][j] # None
      PROVE  OwnShots(units'[h][j], j)
  <2>1. units[h][j] # None => OwnShots(units[h][j], j)
    BY DEF Recorded, UnitsOf, MissionData
  <2>2. CASE h = k /\ j = i
    <3>1. units'[h][j] = u
      BY <1>1, <2>2
    <3> QED
      BY <2>2, <3>1
  <2>3. CASE ~(h = k /\ j = i)
    <3>1. units'[h][j] = units[h][j]
      BY <1>1, <2>3
    <3> QED
      BY <1>3, <2>1, <3>1
  <2> QED
    BY <2>2, <2>3
<1> QED
    BY <1>2, <1>3 DEF UnitsOf, MissionData

\* A placed object with one more event is a placed object.
LEMMA PlacedAppend ==
    ASSUME NEW o \in PlacedObject, NEW e \in PlacedEvent
    PROVE  [o EXCEPT !.events = Append(@, e)] \in PlacedObject
<1>1. o.join \in Frames /\ o.events \in Seq(PlacedEvent)
    BY DEF PlacedObject
<1>2. Append(o.events, e) \in Seq(PlacedEvent)
    BY <1>1
<1>3. [o EXCEPT !.events = Append(@, e)] = [join |-> o.join, events |-> Append(o.events, e)]
  <2>1. o = [join |-> o.join, events |-> o.events]
    BY DEF PlacedObject
  <2>2. PICK j, es : o = [join |-> j, events |-> es]
    BY <2>1, Zenon
  <2>3. ASSUME NEW fs
        PROVE  [[join |-> j, events |-> es] EXCEPT !.events = fs] = [join |-> j, events |-> fs]
    OBVIOUS
  <2> QED
    BY <2>2, <2>3
<1> QED
    BY <1>1, <1>2, <1>3 DEF PlacedObject

\* Every call of the recorder keeps the recording one.
LEMMA RecordedStep ==
    ASSUME Recorded, [Next]_vars
    PROVE  Recorded'
<1>1. CASE UNCHANGED recording
    BY <1>1 DEF recording, Recorded, UnitsOf, ThingsOf, MissionData
<1>2. CASE Call
  <2>1. frame' \in Frames
    BY <1>2, ExportAssumption DEF Call, Recorded, Frames
  <2>2. ASSUME UNCHANGED <<events, placed, projectiles>>
        PROVE  ThingsOf(MissionData)'
    BY <2>2 DEF Recorded, ThingsOf, MissionData
  <2>3. ASSUME UNCHANGED units
        PROVE  UnitsOf(MissionData)'
    BY <2>3 DEF Recorded, UnitsOf, MissionData
  <2>4. \A k \in Kinds, i \in Ids :
            units[k][i] # None => units[k][i] \in Unit /\ OwnShots(units[k][i], i)
    BY DEF Recorded, UnitsOf, MissionData
  <2>5. ASSUME NEW k \in Kinds, NEW i \in Ids, AddUnit(k, i)
        PROVE  Recorded'
    <3>1. NewUnit \in Unit /\ OwnShots(NewUnit, i)
      BY <2>1 DEF NewUnit, Unit, OwnShots
    <3> QED
      BY <2>1, <2>2, <2>5, <3>1, UnitPut DEF AddUnit, Recorded
  <2>6. ASSUME NEW k \in Kinds, NEW i \in Ids, RecordState(k, i)
        PROVE  Recorded'
    <3> DEFINE u == [units[k][i] EXCEPT !.states = Append(@, frame')]
    <3>a. PICK v \in Unit : v = units[k][i] /\ OwnShots(v, i)
      BY <2>4, <2>6 DEF RecordState
    <3>b. Append(v.states, frame') \in Seq(Frames)
      BY <2>1 DEF Unit
    <3>c. /\ [v EXCEPT !.states = Append(@, frame')] \in Unit
          /\ OwnShots([v EXCEPT !.states = Append(@, frame')], i)
      BY <3>a, <3>b DEF Unit, OwnShots
    <3>1. units[k][i] # None /\ u \in Unit /\ OwnShots(u, i)
      BY <2>6, <3>a, <3>c DEF RecordState
    <3>2. units' = [units EXCEPT ![k][i] = u]
      BY <2>6 DEF RecordState
    <3>3. UnitsOf(MissionData)'
      BY <3>1, <3>2, UnitPut
    <3> QED
      BY <2>1, <2>2, <2>6, <3>3 DEF RecordState, Recorded
  <2>7. ASSUME NEW k \in Kinds, NEW i \in Ids, DeleteUnit(k, i)
        PROVE  Recorded'
    <3> DEFINE u == [units[k][i] EXCEPT !.delete = frame']
    <3>a. PICK v \in Unit : v = units[k][i] /\ OwnShots(v, i)
      BY <2>4, <2>7 DEF DeleteUnit
    <3>b. /\ [v EXCEPT !.delete = frame'] \in Unit
          /\ OwnShots([v EXCEPT !.delete = frame'], i)
      BY <2>1, <3>a DEF Unit, OwnShots
    <3>1. units[k][i] # None /\ u \in Unit /\ OwnShots(u, i)
      BY <2>7, <3>a, <3>b DEF DeleteUnit
    <3>2. units' = [units EXCEPT ![k][i] = u]
      BY <2>7 DEF DeleteUnit
    <3>3. UnitsOf(MissionData)'
      BY <3>1, <3>2, UnitPut
    <3> QED
      BY <2>1, <2>2, <2>7, <3>3 DEF DeleteUnit, Recorded
  <2>8. ASSUME NEW i \in Ids, RecordFired(i)
        PROVE  Recorded'
    <3> DEFINE shot == [by |-> i, frame |-> frame']
               u == [units["soldier"][i] EXCEPT !.fired = Append(@, shot)]
    <3>a. PICK v \in Unit : v = units["soldier"][i] /\ OwnShots(v, i)
      BY <2>4, <2>8 DEF RecordFired, Kinds
    <3>b. Append(v.fired, shot) \in Seq(Fired)
      BY <2>1 DEF Unit, Fired
    <3>d. \A s \in DOMAIN Append(v.fired, shot) : Append(v.fired, shot)[s].by = i
      <4>1. PICK l \in Nat : Len(v.fired) = l /\ DOMAIN v.fired = 1..l
        BY DEF Unit
      <4>2. /\ DOMAIN Append(v.fired, shot) = 1..(l + 1)
            /\ \A s \in 1..(l + 1) :
                  Append(v.fired, shot)[s] = IF s <= l THEN v.fired[s] ELSE shot
        BY <4>1 DEF Unit
      <4>3. shot.by = i /\ \A s \in 1..l : v.fired[s].by = i
        BY <3>a, <4>1 DEF OwnShots
      <4> HIDE DEF shot
      <4> QED
        BY <4>2, <4>3
    <3>c. /\ [v EXCEPT !.fired = Append(@, shot)] \in Unit
          /\ OwnShots([v EXCEPT !.fired = Append(@, shot)], i)
      <4> HIDE DEF shot
      <4> QED
        BY <3>b, <3>d DEF Unit, OwnShots
    <3>1. /\ "soldier" \in Kinds /\ units["soldier"][i] # None
          /\ u \in Unit /\ OwnShots(u, i)
      BY <2>8, <3>a, <3>c DEF RecordFired, Kinds
    <3>2. units' = [units EXCEPT !["soldier"][i] = u]
      BY <2>8 DEF RecordFired
    <3>3. UnitsOf(MissionData)'
      BY <3>1, <3>2, UnitPut
    <3> QED
      BY <2>1, <2>2, <2>8, <3>3 DEF RecordFired, Recorded
  <2>9. ASSUME NEW s \in Range(EventSlices), RecordEvent(s)
        PROVE  Recorded'
    BY <2>1, <2>3, <2>9 DEF RecordEvent, Recorded, ThingsOf, MissionData
  <2>10. ASSUME NEW n \in Names, RecordMarker(n)
         PROVE  Recorded'
    BY <2>1, <2>2, <2>3, <2>10 DEF RecordMarker, Recorded
  <2>11. ASSUME NEW p \in PlacedIds, RecordPlaced(p)
         PROVE  Recorded'
    <3>1. PICK o \in PlacedObject : placed' = [placed EXCEPT ![p] = o]
      <4>1. CASE placed' = [placed EXCEPT ![p] = [join |-> frame', events |-> <<>>]]
        <5>1. [join |-> frame', events |-> <<>>] \in PlacedObject
          BY <2>1 DEF PlacedObject
        <5> QED
          BY <4>1, <5>1
      <4>2. CASE /\ placed[p] # None
                 /\ \E t \in PlacedEventTypes :
                       placed' = [placed EXCEPT ![p].events =
                                     Append(@, [frame |-> frame', type |-> t])]
        <5>1. placed[p] \in PlacedObject
          BY <4>2 DEF Recorded, ThingsOf, MissionData
        <5>2. PICK t \in PlacedEventTypes :
                  placed' = [placed EXCEPT ![p].events =
                                 Append(@, [frame |-> frame', type |-> t])]
          BY <4>2
        <5>3. [frame |-> frame', type |-> t] \in PlacedEvent
          BY <2>1 DEF PlacedEvent
        <5>4. [placed[p] EXCEPT !.events = Append(@, [frame |-> frame', type |-> t])]
                  \in PlacedObject
          BY <5>1, <5>3, PlacedAppend
        <5> QED
          BY <5>2, <5>4
      <4> QED
        BY <2>11, <4>1, <4>2 DEF RecordPlaced
    <3> QED
      BY <2>1, <2>3, <2>11, <3>1 DEF RecordPlaced, Recorded, ThingsOf, MissionData
  <2>12. ASSUME NEW i \in Ids, NEW s \in Shots, RecordProjectile(i, s)
         PROVE  Recorded'
    <3> DEFINE pe == [firer |-> i, frame |-> frame', bullet |-> s.bullet,
                      path |-> [n \in 1..s.points |-> frame'],
                      hits |-> [h \in 1..s.hits |-> frame']]
    <3>1. s.bullet \in BOOLEAN /\ s.points \in Nat /\ s.hits \in Nat
      BY ExportAssumption
    <3>2. /\ [n \in 1..s.points |-> frame'] \in Seq(Frames)
          /\ [h \in 1..s.hits |-> frame'] \in Seq(Frames)
      BY <2>1, <3>1
    <3>3. pe \in Projectile
      BY <2>1, <3>1, <3>2 DEF Projectile
    <3> QED
      BY <2>1, <2>3, <2>12, <3>3 DEF RecordProjectile, Recorded, ThingsOf, MissionData
  <2> QED
    BY <1>1, <1>2, <2>5, <2>6, <2>7, <2>8, <2>9, <2>10, <2>11, <2>12
       DEF Next, Record, Stream, StreamHead, StreamEntity, StreamTail, StreamFails, vars
<1> QED
    BY <1>1, <1>2 DEF Next, Record, AddUnit, RecordState, DeleteUnit, RecordFired,
       RecordEvent, RecordMarker, RecordPlaced, RecordProjectile, Stream, StreamHead,
       StreamEntity, StreamTail, StreamFails, vars

-----------------------------------------------------------------------------
(* What Stream has written *)

\* The first n entities.
Walk(d, n) == [m \in 1..n |-> EntityForID(d, m - 1)]

StreamInv ==
    LET d == MissionData
    IN  /\ phase \in {"record", "entities", "tail", "done", "failed"}
        /\ phase = "record" => out = Unwritten
        /\ phase # "record" => out.endFrame = frameToV1(computedMaxFrame(d))
        /\ out = [endFrame |-> out.endFrame, entities |-> out.entities,
                  events |-> out.events, markers |-> out.markers]
        /\ \E n \in 0..Total(d) :
              /\ out.entities = Walk(d, n)
              /\ phase = "entities" => hasEntities(d) /\ n < Total(d)
              /\ phase \in {"tail", "done"} => n = Total(d)
        /\ phase = "done" => /\ out.events = SortStable(aggregateEvents(d))
                             /\ out.markers = aggregateMarkers(d)

\* The array is never longer than there are IDs.
LEMMA TotalIsNatural ==
    ASSUME NEW d
    PROVE  Total(d) \in Nat /\ Total(d) <= IdMax + 1
    BY MaxIDIsAnID, ExportAssumption DEF Total, Ids

\* Nothing is written at the start.
LEMMA StreamInit == Init => StreamInv
<1> SUFFICES ASSUME Init
             PROVE  StreamInv
    OBVIOUS
<1>1. phase = "record" /\ out = Unwritten
    BY DEF Init
<1>2. Walk(MissionData, 0) = <<>>
    BY DEF Walk
<1>3. 0 \in 0..Total(MissionData)
    BY TotalIsNatural
<1> QED
    BY <1>1, <1>2, <1>3 DEF StreamInv, Unwritten

\* Every write adds the entity that comes next in Build, and a failed one adds nothing.
LEMMA StreamStep ==
    ASSUME StreamInv, [Next]_vars
    PROVE  StreamInv'
<1>1. CASE Record
  <2>1. phase = "record" /\ phase' = "record" /\ out' = out
    BY <1>1 DEF Record, AddUnit, RecordState, DeleteUnit, RecordFired, RecordEvent,
        RecordMarker, RecordPlaced, RecordProjectile, Call
  <2>2. out = Unwritten
    BY <2>1 DEF StreamInv
  <2>3. Walk(MissionData', 0) = <<>>
    BY DEF Walk
  <2>4. 0 \in 0..Total(MissionData')
    BY TotalIsNatural
  <2> QED
    BY <2>1, <2>2, <2>3, <2>4 DEF StreamInv, Unwritten
<1>2. CASE Stream \/ UNCHANGED vars
  <2>1. MissionData' = MissionData
    BY <1>2 DEF Stream, StreamHead, StreamEntity, StreamTail, StreamFails, vars, recording,
        MissionData
  <2>2. PICK d : d = MissionData
    OBVIOUS
  <2>3. PICK n \in 0..Total(d) :
            /\ out.entities = Walk(d, n)
            /\ phase = "entities" => hasEntities(d) /\ n < Total(d)
            /\ phase \in {"tail", "done"} => n = Total(d)
    BY <2>2 DEF StreamInv
  <2>4. Total(d) \in Nat /\ n \in Nat
    BY <2>3, TotalIsNatural
  <2>5. CASE StreamHead
    <3>1. /\ phase = "record" /\ out = Unwritten
          /\ out' = [out EXCEPT !.endFrame = frameToV1(computedMaxFrame(d))]
          /\ phase' = IF hasEntities(d) THEN "entities" ELSE "tail"
      BY <2>2, <2>5 DEF StreamHead, StreamInv
    <3>2. /\ out'.endFrame = frameToV1(computedMaxFrame(d)) /\ out'.entities = <<>>
          /\ out' = [endFrame |-> out'.endFrame, entities |-> out'.entities,
                     events |-> out'.events, markers |-> out'.markers]
      BY <3>1 DEF Unwritten
    <3>3. Walk(d, 0) = <<>> /\ 0 \in 0..Total(d)
      BY <2>4 DEF Walk
    <3>4. hasEntities(d) => 0 < Total(d)
      BY MaxIDIsAnID DEF Total, Ids
    <3>5. ~hasEntities(d) => 0 = Total(d)
      BY DEF Total
    <3> QED
      BY <2>1, <2>2, <3>1, <3>2, <3>3, <3>4, <3>5 DEF StreamInv
  <2>6. CASE StreamEntity
    <3>1. /\ phase = "entities" /\ hasEntities(d) /\ n < Total(d)
          /\ out' = [out EXCEPT !.entities = Append(@, EntityForID(d, Len(out.entities)))]
          /\ phase' = IF Len(out.entities) = computedMaxID(d) THEN "tail" ELSE "entities"
      BY <2>2, <2>3, <2>6 DEF StreamEntity
    <3>2. /\ out'.endFrame = out.endFrame
          /\ out'.entities = Append(out.entities, EntityForID(d, Len(out.entities)))
          /\ out' = [endFrame |-> out'.endFrame, entities |-> out'.entities,
                     events |-> out'.events, markers |-> out'.markers]
      BY <3>1 DEF StreamInv
    <3>3. Len(out.entities) = n
      BY <2>3, <2>4 DEF Walk
    <3>4. Append(Walk(d, n), EntityForID(d, n)) = Walk(d, n + 1)
      BY <2>4 DEF Walk
    <3>5. out'.entities = Walk(d, n + 1) /\ n + 1 \in 0..Total(d)
      BY <2>3, <2>4, <3>1, <3>2, <3>3, <3>4
    <3>6. Total(d) = computedMaxID(d) + 1 /\ computedMaxID(d) \in Nat
      BY <3>1, MaxIDIsAnID, ExportAssumption DEF Total, Ids
    <3>7. /\ phase' = "entities" => n + 1 < Total(d)
          /\ phase' = "tail" => n + 1 = Total(d)
      BY <2>4, <3>1, <3>3, <3>6
    <3>8. out.endFrame = frameToV1(computedMaxFrame(d)) /\ phase' \in {"entities", "tail"}
      BY <2>2, <3>1 DEF StreamInv
    <3> QED
      BY <2>1, <2>2, <3>1, <3>2, <3>5, <3>7, <3>8 DEF StreamInv
  <2>7. CASE StreamTail
    <3>1. /\ phase = "tail" /\ phase' = "done"
          /\ out' = [out EXCEPT !.events = SortStable(aggregateEvents(d)),
                                !.markers = aggregateMarkers(d)]
      BY <2>2, <2>7 DEF StreamTail
    <3>2. /\ out'.endFrame = out.endFrame /\ out'.entities = out.entities
          /\ out'.events = SortStable(aggregateEvents(d)) /\ out'.markers = aggregateMarkers(d)
          /\ out' = [endFrame |-> out'.endFrame, entities |-> out'.entities,
                     events |-> out'.events, markers |-> out'.markers]
      BY <3>1 DEF StreamInv
    <3> QED
      BY <2>1, <2>2, <2>3, <3>1, <3>2 DEF StreamInv
  <2>8. CASE StreamFails
    BY <2>1, <2>2, <2>3, <2>8 DEF StreamInv, StreamFails
  <2>9. CASE UNCHANGED vars
    BY <2>1, <2>9 DEF StreamInv, vars
  <2> QED
    BY <1>2, <2>5, <2>6, <2>7, <2>8, <2>9 DEF Stream
<1> QED
    BY <1>1, <1>2 DEF Next

\* What is written is always the beginning of what Build returns.
LEMMA AlwaysStreamed == Spec => [](Recorded /\ StreamInv)
    BY RecordedInit, RecordedStep, StreamInit, StreamStep, PTL DEF Spec

\* The two copies append the same rows in the same order.
LEMMA BuildCollectsTheSame ==
    ASSUME NEW d
    PROVE  buildEvents(d) = aggregateEvents(d) /\ buildMarkers(d) = aggregateMarkers(d)
    BY Zenon DEF buildEvents, aggregateEvents, buildMarkers, aggregateMarkers

\* While Build returns, no ID is a soldier's and a vehicle's, and every bullet that
\* is drawn was fired by a recorded soldier, Stream has written the beginning of
\* what Build returns, at any moment and also when a write fails; when it is done,
\* all of it (Stream, stream.go:22).
THEOREM StreamWritesBuild == Spec => []StreamMatchesBuild
<1>1. ASSUME Recorded, StreamInv
      PROVE  StreamMatchesBuild
  <2>1. PICK d : d = MissionData
    OBVIOUS
  <2>2. UnitsOf(d)
    BY <1>1, <2>1 DEF Recorded
  <2> SUFFICES ASSUME ~BuildPanics(d),
                      Present(d, "soldier") \intersect Present(d, "vehicle") = {},
                      \A i \in Ids \ Present(d, "soldier") : firelines(d, i) = <<>>
               PROVE  Begins(Build(d))
    BY <2>1 DEF StreamMatchesBuild
  <2>3. PICK n \in 0..Total(d) :
            /\ out.entities = Walk(d, n)
            /\ phase \in {"tail", "done"} => n = Total(d)
    BY <1>1, <2>1 DEF StreamInv
  <2>4. /\ Total(d) \in Nat /\ n \in Nat /\ n <= Total(d)
        /\ buildLength(d) = Total(d)
    BY <2>3, BuildLength, TotalIsNatural
  <2>5. \A m \in 1..Total(d) : EntityForID(d, m - 1) = buildEntity(d, m - 1)
    <3> SUFFICES ASSUME NEW m \in 1..Total(d)
                 PROVE  EntityForID(d, m - 1) = buildEntity(d, m - 1)
      OBVIOUS
    <3>1. m - 1 \in Ids
      BY TotalIsNatural, ExportAssumption DEF Ids
    <3> QED
      BY <2>2, <3>1, SameEntity
  <2>6. Build(d).entities = Walk(d, Total(d))
    BY <2>4, <2>5 DEF Build, Walk
  <2>7. /\ Len(Walk(d, n)) = n /\ Len(Walk(d, Total(d))) = Total(d)
        /\ SubSeq(Walk(d, Total(d)), 1, n) = Walk(d, n)
        /\ SubSeq(Walk(d, n), 1, n) = Walk(d, n)
    BY <2>4 DEF Walk
  <2>8. IsPrefix(out.entities, Build(d).entities)
    BY <2>3, <2>4, <2>6, <2>7 DEF IsPrefix
  <2>9. phase # "record" => out.endFrame = Build(d).endFrame
    BY <1>1, <2>1, SameAggregates DEF StreamInv, Build
  <2>10. phase \in {"tail", "done"} => Len(out.entities) = Len(Build(d).entities)
    BY <2>3, <2>6, <2>7
  <2>11. phase = "done" => out.events = Build(d).events /\ out.markers = Build(d).markers
    BY <1>1, <2>1, BuildCollectsTheSame DEF StreamInv, Build
  <2> QED
    BY <2>8, <2>9, <2>10, <2>11 DEF Begins
<1> QED
    BY <1>1, AlwaysStreamed, PTL

-----------------------------------------------------------------------------
(* The place of an entity, and its shots *)

\* The lines of i's bullets, in the order ns in which they were recorded.
LinesOf(d, i, k, ns) ==
    /\ firelines(d, i) = [n \in 1..k |-> Shot(d.projectiles[ns[n]].frame,
                                              <<"bullet", ns[n]>>)]
    /\ \A n \in 1..k : isFireline(d, ns[n], i)
    /\ \A n \in 1..k : ns[n] \in DOMAIN d.projectiles
    /\ \A j \in DOMAIN d.projectiles :
          isFireline(d, j, i) => \E n \in 1..k : ns[n] = j
    /\ \A m, n \in 1..k : ns[m] = ns[n] => m = n

\* The lines of an ID are those of the bullets it fired, in their order.
LEMMA FirelinesOf ==
    ASSUME NEW d, ThingsOf(d), NEW i \in Ids
    PROVE  \E k \in Nat : \E ns : LinesOf(d, i, k, ns)
<1> DEFINE S == {n \in DOMAIN d.projectiles : isFireline(d, n, i)}
           ns == InOrder(S)
           k  == Cardinality(S)
<1>1. PICK len \in Nat : DOMAIN d.projectiles = 1..len
    BY DEF ThingsOf
<1>2. S \subseteq 0..len
    BY <1>1
<1>3. firelines(d, i) = [n \in DOMAIN ns |-> Shot(d.projectiles[ns[n]].frame,
                                                  <<"bullet", ns[n]>>)]
    BY DEF firelines
<1>4. \A j : j \in S <=> j \in DOMAIN d.projectiles /\ isFireline(d, j, i)
    OBVIOUS
<1> HIDE DEF S
<1>5. k \in Nat /\ Ascending(ns, S)
    BY <1>1, <1>2, InOrderIs, Zenon
<1> HIDE DEF ns
<1>6. /\ ns \in [1..k -> S] /\ Range(ns) = S
      /\ \A m, n \in 1..k : m < n => ns[m] < ns[n]
    BY <1>5 DEF Ascending
<1> HIDE DEF k
<1>7. ASSUME NEW m \in 1..k, NEW n \in 1..k, ns[m] = ns[n]
      PROVE  m = n
  <2>1. ns[m] \in 0..len /\ ns[n] \in 0..len
    BY <1>2, <1>6
  <2>2. ~(m < n) /\ ~(n < m)
    BY <1>5, <1>6, <1>7, <2>1
  <2> QED
    BY <1>5, <2>2
<1>8. \A j \in S : \E n \in 1..k : ns[n] = j
    BY <1>6 DEF Range
<1>9. firelines(d, i) = [n \in 1..k |-> Shot(d.projectiles[ns[n]].frame,
                                             <<"bullet", ns[n]>>)]
    BY <1>3, <1>6
<1>10. \A n \in 1..k : isFireline(d, ns[n], i) /\ ns[n] \in DOMAIN d.projectiles
    BY <1>4, <1>6
<1>11. LinesOf(d, i, k, ns)
    BY <1>4, <1>7, <1>8, <1>9, <1>10 DEF LinesOf
<1> QED
    BY <1>5, <1>11

\* What soldier i has shot, in the data d of a mission.
ShotSources(d, i, u) ==
    {<<"fired", i, s>> : s \in DOMAIN u.fired}
    \union {<<"bullet", j>> : j \in {k \in DOMAIN d.projectiles : isFireline(d, k, i)}}

\* The lines ff are those of the shots of S, each once.
EachOnce(ff, S) == /\ {ff[s].of : s \in DOMAIN ff} = S
                   /\ \A s, t \in DOMAIN ff : ff[s].of = ff[t].of => s = t

\* The lines of soldier i are those of its fired events and of its bullets, each once.
LEMMA ShotsOnce ==
    ASSUME NEW d, ThingsOf(d), NEW i \in Ids, NEW u \in Unit, OwnShots(u, i), NEW max
    PROVE  EachOnce(buildSoldierEntity(i, u, max, firelines(d, i)).framesFired,
                    ShotSources(d, i, u))
<1> DEFINE own   == [s \in DOMAIN u.fired |->
                        Shot(u.fired[s].frame, <<"fired", u.fired[s].by, s>>)]
           lines == firelines(d, i)
           fired == own \o lines
<1>1. buildSoldierEntity(i, u, max, lines).framesFired = fired
    BY DEF buildSoldierEntity
<1>2. PICK l \in Nat : DOMAIN u.fired = 1..l
    BY DEF Unit
<1>3a. PICK k \in Nat : \E ns : LinesOf(d, i, k, ns)
    BY FirelinesOf
<1>3b. PICK ns : LinesOf(d, i, k, ns)
    BY <1>3a
<1>3. /\ lines = [n \in 1..k |-> Shot(d.projectiles[ns[n]].frame, <<"bullet", ns[n]>>)]
      /\ \A n \in 1..k : ns[n] \in DOMAIN d.projectiles /\ isFireline(d, ns[n], i)
      /\ \A m \in DOMAIN d.projectiles :
            isFireline(d, m, i) => \E n \in 1..k : ns[n] = m
      /\ \A m, n \in 1..k : ns[m] = ns[n] => m = n
    BY <1>3b DEF LinesOf
<1>4. /\ Len(own) = l /\ own \in Seq({own[s] : s \in 1..l})
      /\ \A s \in 1..l : own[s].of = <<"fired", i, s>>
    BY <1>2 DEF Shot, OwnShots
<1> HIDE DEF own, lines
<1>5a. \A n \in 1..k : lines[n].of = <<"bullet", ns[n]>>
    BY <1>3 DEF Shot
<1>5b. \E X : lines \in [1..k -> X] /\ X = {lines[n] : n \in 1..k}
    BY <1>3
<1>5c. Len(lines) = k /\ lines \in Seq({lines[n] : n \in 1..k})
  <2>1. PICK X : lines \in [1..k -> X] /\ X = {lines[n] : n \in 1..k}
    BY <1>5b
  <2>2. Len(lines) = k /\ lines \in Seq(X)
    BY <2>1
  <2> QED
    BY <2>1, <2>2, Zenon
<1>6. /\ DOMAIN fired = 1..(l + k)
      /\ \A s \in 1..(l + k) :
            fired[s] = IF s <= l THEN own[s] ELSE lines[s - l]
  <2>1. \E A, B : own \in Seq(A) /\ lines \in Seq(B)
    BY <1>4, <1>5c, Zenon
  <2>2. PICK A, B : own \in Seq(A) /\ lines \in Seq(B)
    BY <2>1
  <2>3. Len(own) = l /\ Len(lines) = k
    BY <1>4, <1>5c, Zenon
  <2> QED
    BY <2>2, <2>3
<1> HIDE DEF fired
<1>7. \A s \in 1..l : s \in 1..(l + k) /\ fired[s].of = <<"fired", i, s>>
    BY <1>4, <1>6
<1>8. ASSUME NEW n \in 1..k
      PROVE  l + n \in 1..(l + k) /\ fired[l + n].of = <<"bullet", ns[n]>>
  <2>1. l + n \in 1..(l + k) /\ ~(l + n <= l) /\ (l + n) - l = n
    OBVIOUS
  <2>2. fired[l + n] = lines[n]
    BY <1>6, <2>1
  <2> QED
    BY <1>5a, <2>1, <2>2
<1>9. \A s \in 1..(l + k) : s \in 1..l \/ \E n \in 1..k : s = l + n
  <2> SUFFICES ASSUME NEW s \in 1..(l + k), s \notin 1..l
               PROVE  \E n \in 1..k : s = l + n
    OBVIOUS
  <2>1. s - l \in 1..k /\ s = l + (s - l)
    OBVIOUS
  <2> QED
    BY <2>1, Zenon
<1>10. ASSUME NEW s \in DOMAIN fired
       PROVE  fired[s].of \in ShotSources(d, i, u)
  <2>1. CASE s \in 1..l
    BY <1>2, <1>7, <2>1 DEF ShotSources
  <2>2. CASE \E n \in 1..k : s = l + n
    <3>1. PICK n \in 1..k : s = l + n
      BY <2>2
    <3> QED
      BY <1>3, <1>8, <3>1 DEF ShotSources
  <2> QED
    BY <1>6, <1>9, <2>1, <2>2
<1>11. ASSUME NEW x \in ShotSources(d, i, u)
       PROVE  \E s \in DOMAIN fired : x = fired[s].of
  <2>1. CASE \E s \in DOMAIN u.fired : x = <<"fired", i, s>>
    <3>1. PICK s \in 1..l : x = <<"fired", i, s>>
      BY <1>2, <2>1
    <3> QED
      BY <1>6, <1>7, <3>1
  <2>2. CASE \E j \in DOMAIN d.projectiles : isFireline(d, j, i) /\ x = <<"bullet", j>>
    <3>1. PICK j \in DOMAIN d.projectiles : isFireline(d, j, i) /\ x = <<"bullet", j>>
      BY <2>2
    <3>2. PICK n \in 1..k : ns[n] = j
      BY <1>3, <3>1
    <3> QED
      BY <1>6, <1>8, <3>1, <3>2
  <2> QED
    BY <2>1, <2>2 DEF ShotSources
<1>12. ASSUME NEW s \in DOMAIN fired, NEW t \in DOMAIN fired, fired[s].of = fired[t].of
       PROVE  s = t
  <2>1. \A p, q : <<"fired", i, p>> # <<"bullet", q>>
    OBVIOUS
  <2>2. CASE s \in 1..l /\ t \in 1..l
    <3>1. <<"fired", i, s>> = <<"fired", i, t>>
      BY <1>7, <1>12, <2>2
    <3> QED
      BY <3>1
  <2>3. CASE s \in 1..l /\ \E n \in 1..k : t = l + n
    BY <1>7, <1>8, <1>12, <2>1, <2>3
  <2>4. CASE t \in 1..l /\ \E n \in 1..k : s = l + n
    BY <1>7, <1>8, <1>12, <2>1, <2>4
  <2>5. CASE (\E n \in 1..k : s = l + n) /\ (\E n \in 1..k : t = l + n)
    <3>1. PICK m \in 1..k : s = l + m
      BY <2>5
    <3>2. PICK n \in 1..k : t = l + n
      BY <2>5
    <3>3. <<"bullet", ns[m]>> = <<"bullet", ns[n]>>
      BY <1>8, <1>12, <3>1, <3>2
    <3> QED
      BY <1>3, <3>1, <3>2, <3>3
  <2> QED
    BY <1>6, <1>9, <2>2, <2>3, <2>4, <2>5
<1>13. {fired[s].of : s \in DOMAIN fired} = ShotSources(d, i, u)
    BY <1>10, <1>11
<1> QED
    BY <1>1, <1>12, <1>13 DEF EachOnce, lines

\* The place of an entity in the file is its ID, at any moment; every unit has its
\* place once the entities are written; and the shots with a soldier are the fired
\* events of its record and the bullets it fired, each once.
THEOREM EntitiesAreAtTheirIndex == Spec => []EntitiesAtTheirIndex
<1>1. ASSUME Recorded, StreamInv
      PROVE  EntitiesAtTheirIndex
  <2>1. PICK d : d = MissionData
    OBVIOUS
  <2>2. /\ UnitsOf(d) /\ ThingsOf(d)
        /\ d.projectiles = projectiles /\ d.units = units
    BY <1>1, <2>1 DEF Recorded, MissionData
  <2>3. PICK n \in 0..Total(d) :
            /\ out.entities = Walk(d, n)
            /\ phase \in {"tail", "done"} => n = Total(d)
    BY <1>1, <2>1 DEF StreamInv
  <2>4. /\ Total(d) \in Nat /\ n \in Nat /\ n <= Total(d) /\ Total(d) <= IdMax + 1
        /\ Len(out.entities) = n /\ DOMAIN out.entities = 1..n
    BY <2>3, TotalIsNatural DEF Walk
  <2>5. ASSUME phase \in {"tail", "done"}, NEW k \in Kinds, NEW i \in Present(d, k)
        PROVE  i < Len(out.entities)
    <3>1. i <= computedMaxID(d) /\ i \in Nat /\ computedMaxID(d) \in Nat
      BY MaxIDIsAnID, ExportAssumption DEF Present, Ids
    <3>2. hasEntities(d)
      BY DEF hasEntities, Kinds
    <3> QED
      BY <2>3, <2>4, <2>5, <3>1, <3>2 DEF Total
  <2>6. ASSUME NEW m \in 1..n
        PROVE  LET e == out.entities[m]
                   i == m - 1
               IN  /\ e.type = IF i \in Present(d, "soldier") THEN "unit"
                               ELSE IF i \in Present(d, "vehicle") THEN "vehicle"
                               ELSE ""
                   /\ e.type # "" => e.id = i
                   /\ e.type = "unit" =>
                         LET ff == e.framesFired
                         IN  /\ {ff[s].of : s \in DOMAIN ff} = shotsOf(i)
                             /\ \A s, t \in DOMAIN ff : ff[s].of = ff[t].of => s = t
    <3>1. PICK i \in Ids : i = m - 1
      BY <2>4, ExportAssumption DEF Ids
    <3>2. out.entities[m] = EntityForID(d, i)
      BY <2>3, <3>1 DEF Walk
    <3> DEFINE soldier == d.units["soldier"][i]
               vehicle == d.units["vehicle"][i]
               max     == computedMaxFrame(d)
    <3>3. CASE soldier # None
      <4>1. soldier \in Unit /\ OwnShots(soldier, i) /\ i \in Present(d, "soldier")
        BY <2>2, <3>3 DEF UnitsOf, Kinds, Present
      <4>2. EntityForID(d, i) = buildSoldierEntity(i, soldier, max, firelines(d, i))
        BY <3>3 DEF EntityForID
      <4>3. /\ buildSoldierEntity(i, soldier, max, firelines(d, i)).type = "unit"
            /\ buildSoldierEntity(i, soldier, max, firelines(d, i)).id = i
        BY DEF buildSoldierEntity
      <4>4. EachOnce(out.entities[m].framesFired, ShotSources(d, i, soldier))
        <5>1. EachOnce(buildSoldierEntity(i, soldier, max, firelines(d, i)).framesFired,
                       ShotSources(d, i, soldier))
          BY <2>2, <4>1, ShotsOnce
        <5> QED
          BY <3>2, <4>2, <5>1
      <4>5. ShotSources(d, i, soldier) = shotsOf(i)
        BY <2>1, <2>2, Zenon DEF ShotSources, shotsOf, MissionData
      <4>6. EachOnce(out.entities[m].framesFired, shotsOf(i))
        BY <4>4, <4>5, Zenon
      <4> QED
        BY <3>1, <3>2, <4>1, <4>2, <4>3, <4>6 DEF EachOnce
    <3>4. CASE soldier = None /\ vehicle # None
      <4>1. EntityForID(d, i) = buildVehicleEntity(i, vehicle, max)
        BY <3>4 DEF EntityForID
      <4>2. i \notin Present(d, "soldier") /\ i \in Present(d, "vehicle")
        BY <3>4 DEF Present
      <4> QED
        <5>1. /\ buildVehicleEntity(i, vehicle, max).type = "vehicle"
              /\ buildVehicleEntity(i, vehicle, max).id = i
          BY DEF buildVehicleEntity
        <5> QED
          BY <3>1, <3>2, <4>1, <4>2, <5>1
    <3>5. CASE soldier = None /\ vehicle = None
      <4>1. EntityForID(d, i) = Placeholder
        BY <3>5 DEF EntityForID
      <4>2. i \notin Present(d, "soldier") /\ i \notin Present(d, "vehicle")
        BY <3>5 DEF Present
      <4> QED
        <5>1. Placeholder.type = ""
          BY DEF Placeholder
        <5> QED
          BY <3>1, <3>2, <4>1, <4>2, <5>1
    <3> QED
      BY <3>3, <3>4, <3>5
  <2> QED
    BY <2>1, <2>4, <2>5, <2>6 DEF EntitiesAtTheirIndex
<1> QED
    BY <1>1, AlwaysStreamed, PTL

-----------------------------------------------------------------------------
(* The frames of a recording *)

\* The frames of a list run forwards, until f.
InTime(fs, f) == /\ \A n \in DOMAIN fs : fs[n] <= f
                 /\ \A m, n \in DOMAIN fs : m < n => fs[m] <= fs[n]

\* Events and states are recorded in the order of their frames.
Timely ==
    /\ \A s \in Range(EventSlices) : InTime(events[s], frame)
    /\ \A k \in Kinds, i \in Ids : units[k][i] # None => InTime(units[k][i].states, frame)

\* Frames in order stay in order with a later one at the end.
LEMMA InTimeAppend ==
    ASSUME NEW fs \in Seq(Frames), NEW f \in Frames, NEW g \in Frames, f <= g, InTime(fs, f)
    PROVE  InTime(Append(fs, g), g)
<1>1. PICK l \in Nat : Len(fs) = l /\ DOMAIN fs = 1..l
    OBVIOUS
<1>2. /\ DOMAIN Append(fs, g) = 1..(l + 1)
      /\ \A n \in 1..(l + 1) : Append(fs, g)[n] = IF n <= l THEN fs[n] ELSE g
    BY <1>1
<1>3. \A n \in 1..l : fs[n] \in Nat /\ fs[n] <= f
  <2>1. \A n \in 1..l : fs[n] \in Frames
    BY <1>1
  <2>2. Frames \subseteq Nat
    BY ExportAssumption DEF Frames
  <2>3. \A n \in 1..l : fs[n] <= f
    BY <1>1 DEF InTime
  <2> QED
    BY <2>1, <2>2, <2>3, Zenon
<1>4. f \in Nat /\ g \in Nat
    BY ExportAssumption DEF Frames
<1>5. \A n \in 1..(l + 1) : Append(fs, g)[n] <= g
    BY <1>2, <1>3, <1>4
<1>6. ASSUME NEW m \in 1..(l + 1), NEW n \in 1..(l + 1), m < n
      PROVE  Append(fs, g)[m] <= Append(fs, g)[n]
  <2>1. m \in 1..l /\ Append(fs, g)[m] = fs[m]
    BY <1>1, <1>2, <1>6
  <2>2. CASE n <= l
    <3>1. n \in 1..l /\ Append(fs, g)[n] = fs[n]
      BY <1>1, <1>2, <2>2
    <3> QED
      BY <1>1, <1>6, <2>1, <3>1 DEF InTime
  <2>3. CASE n = l + 1
    BY <1>1, <1>2, <1>3, <1>4, <2>1, <2>3
  <2> QED
    BY <1>1, <2>2, <2>3
<1> QED
    BY <1>2, <1>5, <1>6 DEF InTime

\* Frames that end before one frame end before any later one.
LEMMA InTimeLater ==
    ASSUME NEW fs \in Seq(Frames), NEW f \in Frames, NEW g \in Frames, f <= g, InTime(fs, f)
    PROVE  InTime(fs, g)
<1>1. f \in Int /\ g \in Int /\ \A n \in DOMAIN fs : fs[n] \in Int
    BY ExportAssumption DEF Frames
<1>2. \A n \in DOMAIN fs : fs[n] <= g
    BY <1>1 DEF InTime
<1> QED
    BY <1>2 DEF InTime

\* Nothing has a frame at the start.
LEMMA TimelyInit == Init => Timely
    BY DEF Init, Timely, InTime, Kinds

\* What is recorded has the frame of the game, which only counts up.
LEMMA TimelyStep ==
    ASSUME Recorded, Recorded', Timely, [Next]_vars
    PROVE  Timely'
<1>1. /\ frame \in Frames /\ frame' \in Frames
      /\ \A s \in Range(EventSlices) : events[s] \in Seq(Frames)
      /\ DOMAIN events = Range(EventSlices)
      /\ \A k \in Kinds, i \in Ids :
            units[k][i] # None => units[k][i] \in Unit /\ units[k][i].states \in Seq(Frames)
    BY DEF Recorded, UnitsOf, ThingsOf, MissionData, Unit
<1>2. frame <= frame'
  <2>1. CASE Call
    BY <1>1, <2>1, ExportAssumption DEF Call, Frames
  <2>2. CASE frame' = frame
    BY <1>1, <2>2, ExportAssumption DEF Frames
  <2> QED
    BY <2>1, <2>2 DEF Next, Record, AddUnit, RecordState, DeleteUnit, RecordFired,
       RecordEvent, RecordMarker, RecordPlaced, RecordProjectile, Stream, StreamHead,
       StreamEntity, StreamTail, StreamFails, vars, recording
<1>3. \A s \in Range(EventSlices) : InTime(events[s], frame')
    BY <1>1, <1>2, InTimeLater DEF Timely
<1>4. \A k \in Kinds, i \in Ids : units[k][i] # None => InTime(units[k][i].states, frame')
    BY <1>1, <1>2, InTimeLater DEF Timely
<1>5. \A s \in Range(EventSlices) : InTime(events'[s], frame')
  <2>1. CASE events' = events
    BY <1>3, <2>1
  <2>2. ASSUME NEW s \in Range(EventSlices), RecordEvent(s)
        PROVE  \A t \in Range(EventSlices) : InTime(events'[t], frame')
    <3>1. InTime(Append(events[s], frame'), frame')
      BY <1>1, <1>2, InTimeAppend DEF Timely
    <3> QED
      BY <1>1, <1>3, <2>2, <3>1 DEF RecordEvent
  <2> QED
    BY <2>1, <2>2 DEF Next, Record, AddUnit, RecordState, DeleteUnit, RecordFired,
       RecordMarker, RecordPlaced, RecordProjectile, Stream, StreamHead,
       StreamEntity, StreamTail, StreamFails, vars, recording
<1>6. \A k \in Kinds, i \in Ids : units'[k][i] # None => InTime(units'[k][i].states, frame')
  <2> DEFINE Goal == \A k \in Kinds, i \in Ids :
                        units'[k][i] # None => InTime(units'[k][i].states, frame')
  <2>1. CASE units' = units
    BY <1>4, <2>1
  <2>2. ASSUME NEW k \in Kinds, NEW i \in Ids, NEW u, InTime(u.states, frame'),
               units' = [units EXCEPT ![k][i] = u]
        PROVE  Goal
    <3>1. units \in [Kinds -> [Ids -> Unit \union {None}]]
      BY DEF Recorded, UnitsOf, MissionData
    <3> SUFFICES ASSUME NEW j \in Kinds, NEW h \in Ids, units'[j][h] # None
                 PROVE  InTime(units'[j][h].states, frame')
      OBVIOUS
    <3>2. CASE j = k /\ h = i
      <4>1. units'[j][h] = u
        BY <2>2, <3>1, <3>2
      <4> QED
        BY <2>2, <4>1
    <3>3. CASE ~(j = k /\ h = i)
      <4>1. units'[j][h] = units[j][h]
        BY <2>2, <3>1, <3>3
      <4> QED
        BY <1>4, <4>1
    <3> QED
      BY <3>2, <3>3
  <2> HIDE DEF Goal
  <2>3. ASSUME NEW k \in Kinds, NEW i \in Ids, AddUnit(k, i)
        PROVE  Goal
    <3>1. InTime(NewUnit.states, frame')
      BY DEF NewUnit, InTime
    <3>2. units' = [units EXCEPT ![k][i] = NewUnit]
      BY <2>3 DEF AddUnit
    <3> QED
      BY <2>2, <3>1, <3>2
  <2>4. ASSUME NEW k \in Kinds, NEW i \in Ids, RecordState(k, i)
        PROVE  Goal
    <3>1. PICK v \in Unit : v = units[k][i] /\ v.states \in Seq(Frames)
      BY <1>1, <2>4 DEF RecordState
    <3>2. InTime(Append(v.states, frame'), frame')
      BY <1>1, <1>2, <2>4, <3>1, InTimeAppend DEF Timely, RecordState
    <3>3. [v EXCEPT !.states = Append(@, frame')].states = Append(v.states, frame')
      BY DEF Unit
    <3>4. units' = [units EXCEPT ![k][i] = [v EXCEPT !.states = Append(@, frame')]]
      BY <2>4, <3>1 DEF RecordState
    <3> QED
      BY <2>2, <3>2, <3>3, <3>4
  <2>5. ASSUME NEW k \in Kinds, NEW i \in Ids, DeleteUnit(k, i)
        PROVE  Goal
    <3>1. PICK v \in Unit : v = units[k][i]
      BY <1>1, <2>5 DEF DeleteUnit
    <3>2. [v EXCEPT !.delete = frame'].states = v.states
      BY DEF Unit
    <3>3. units' = [units EXCEPT ![k][i] = [v EXCEPT !.delete = frame']]
      BY <2>5, <3>1 DEF DeleteUnit
    <3>4. InTime(v.states, frame')
      BY <1>4, <2>5, <3>1 DEF DeleteUnit
    <3> QED
      BY <2>2, <3>2, <3>3, <3>4
  <2>6. ASSUME NEW i \in Ids, RecordFired(i)
        PROVE  Goal
    <3>1. PICK v \in Unit : v = units["soldier"][i]
      BY <1>1, <2>6 DEF RecordFired, Kinds
    <3> DEFINE shot == [by |-> i, frame |-> frame']
    <3>2. [v EXCEPT !.fired = Append(@, shot)].states = v.states
      BY DEF Unit
    <3>3. units' = [units EXCEPT !["soldier"][i] = [v EXCEPT !.fired = Append(@, shot)]]
      BY <2>6, <3>1 DEF RecordFired
    <3>4. InTime(v.states, frame') /\ "soldier" \in Kinds
      BY <1>4, <2>6, <3>1 DEF RecordFired, Kinds
    <3> QED
      BY <2>2, <3>2, <3>3, <3>4
  <2> QED
    BY <2>1, <2>3, <2>4, <2>5, <2>6 DEF Next, Record, RecordEvent, RecordMarker,
       RecordPlaced, RecordProjectile, Stream, StreamHead, StreamEntity, StreamTail,
       StreamFails, vars, recording, Goal
<1> QED
    BY <1>5, <1>6 DEF Timely

\* Events and states are in the order of their frames in every reachable state.
LEMMA AlwaysTimely == Spec => [](Recorded /\ StreamInv /\ Timely)
    BY RecordedInit, RecordedStep, StreamInit, StreamStep, TimelyInit, TimelyStep, PTL
       DEF Spec

-----------------------------------------------------------------------------
(* The stable sort *)

Row(Sources) == [frame : 0..(MaxFrame - 1), of : Sources]

\* s is rows put in the order of the frames; at[k] is where s[k] stood.
Sorted(s, rows, at) ==
    /\ \A k \in 1..Len(s) : at[k] \in 1..Len(rows) /\ s[k] = rows[at[k]]
    /\ \A n \in 1..Len(rows) : \E k \in 1..Len(s) : at[k] = n
    /\ \A k, l \in 1..Len(s) : k < l =>
          \/ rows[at[k]].frame < rows[at[l]].frame
          \/ rows[at[k]].frame = rows[at[l]].frame /\ at[k] < at[l]

\* The sort by frame neither drops nor repeats rows and keeps those of one frame in order.
LEMMA SortStableSorts ==
    ASSUME NEW Sources, NEW rows \in Seq(Row(Sources))
    PROVE  /\ SortStable(rows) \in Seq(Row(Sources))
           /\ \E at : Sorted(SortStable(rows), rows, at)
<1> DEFINE N      == Len(rows)
           of(f)  == {n \in DOMAIN rows : rows[n].frame = frameToV1(f)}
           ns(f)  == InOrder(of(f))
           num(f) == Cardinality(of(f))
           ss     == [f \in 1..MaxFrame |-> [n \in DOMAIN ns(f) |-> rows[ns(f)[n]]]]
<1>1. N \in Nat /\ DOMAIN rows = 1..N /\ \A n \in 1..N : rows[n] \in Row(Sources)
    OBVIOUS
<1>2. MaxFrame \in Nat /\ MaxFrame >= 1
    BY ExportAssumption
<1>3. SortStable(rows) = FlattenSeq(ss)
    BY DEF SortStable
<1>4. ASSUME NEW f
      PROVE  /\ num(f) \in Nat
             /\ ns(f) \in [1..num(f) -> of(f)]
             /\ Range(ns(f)) = of(f)
             /\ \A m, n \in 1..num(f) : m < n => ns(f)[m] < ns(f)[n]
  <2>1. of(f) \subseteq 0..N
    BY <1>1
  <2>2. Cardinality(of(f)) \in Nat /\ Ascending(InOrder(of(f)), of(f))
    BY <1>1, <2>1, InOrderIs, Zenon
  <2> QED
    BY <2>2, Zenon DEF Ascending
<1>5. \A f, n : n \in of(f) <=> n \in 1..N /\ rows[n].frame = f - 1
    BY <1>1 DEF frameToV1
<1> HIDE DEF of
<1> HIDE DEF num, ns
<1>6. ASSUME NEW f \in 1..MaxFrame
      PROVE  /\ ss[f] \in Seq(Row(Sources))
             /\ Len(ss[f]) = num(f)
             /\ \A n \in 1..num(f) : /\ ss[f][n] = rows[ns(f)[n]]
                                     /\ ns(f)[n] \in 1..N
                                     /\ rows[ns(f)[n]].frame = f - 1
  <2>1. ss[f] = [n \in 1..num(f) |-> rows[ns(f)[n]]]
    BY <1>4
  <2>2. \A n \in 1..num(f) : ns(f)[n] \in 1..N /\ rows[ns(f)[n]].frame = f - 1
    BY <1>4, <1>5
  <2>3. \A n \in 1..num(f) : rows[ns(f)[n]] \in Row(Sources)
    BY <1>1, <2>2
  <2>4. num(f) \in Nat
    BY <1>4
  <2> HIDE DEF ss
  <2>5. ss[f] \in Seq(Row(Sources)) /\ Len(ss[f]) = num(f)
    BY <2>1, <2>3, <2>4
  <2>6. \A n \in 1..num(f) : ss[f][n] = rows[ns(f)[n]]
    BY <2>1, <2>4
  <2> QED
    BY <2>2, <2>5, <2>6
<1>7. ss \in [1..MaxFrame -> Seq(Row(Sources))]
    BY <1>6
<1> HIDE DEF ss
<1>8. /\ FlattenSeq(ss) \in Seq(Row(Sources))
      /\ \E row, col : EndToEnd(FlattenSeq(ss), ss, MaxFrame, row, col)
    BY <1>2, <1>7, FlattenIs
<1>9. PICK row, col : EndToEnd(FlattenSeq(ss), ss, MaxFrame, row, col)
    BY <1>8
<1> DEFINE s  == FlattenSeq(ss)
           L  == Len(s)
           at == [k \in 1..L |-> ns(row[k])[col[k]]]
<1>10. L \in Nat
    BY <1>8
<1> HIDE DEF s
<1>11. /\ \A k \in 1..L : /\ row[k] \in 1..MaxFrame /\ col[k] \in 1..Len(ss[row[k]])
                          /\ s[k] = ss[row[k]][col[k]]
       /\ \A i \in 1..MaxFrame : \A j \in 1..Len(ss[i]) :
             \E k \in 1..L : row[k] = i /\ col[k] = j
       /\ \A k, l \in 1..L :
             k < l => row[k] < row[l] \/ (row[k] = row[l] /\ col[k] < col[l])
    BY <1>9 DEF EndToEnd, s
<1> HIDE DEF L
<1>12. ASSUME NEW k \in 1..L
       PROVE  /\ at[k] = ns(row[k])[col[k]] /\ col[k] \in 1..num(row[k])
              /\ at[k] \in 1..N /\ s[k] = rows[at[k]] /\ rows[at[k]].frame = row[k] - 1
  <2>1. row[k] \in 1..MaxFrame /\ col[k] \in 1..Len(ss[row[k]]) /\ s[k] = ss[row[k]][col[k]]
    BY <1>11
  <2>2. col[k] \in 1..num(row[k])
    BY <1>6, <2>1
  <2> QED
    BY <1>6, <2>1, <2>2
<1> HIDE DEF at
<1>13. ASSUME NEW n \in 1..N
       PROVE  \E k \in 1..L : at[k] = n
  <2>1. rows[n].frame \in 0..(MaxFrame - 1)
    BY <1>1 DEF Row
  <2>2. PICK f \in 1..MaxFrame : rows[n].frame = f - 1
    <3>1. rows[n].frame + 1 \in 1..MaxFrame /\ rows[n].frame = (rows[n].frame + 1) - 1
      BY <1>2, <2>1
    <3> QED
      BY <3>1
  <2>3. n \in of(f)
    BY <1>5, <2>2
  <2>4. PICK j \in 1..num(f) : ns(f)[j] = n
    BY <1>4, <2>3 DEF Range
  <2>5. PICK k \in 1..L : row[k] = f /\ col[k] = j
    BY <1>6, <1>11, <2>4
  <2> QED
    BY <1>12, <2>4, <2>5
<1>14. ASSUME NEW k \in 1..L, NEW l \in 1..L, k < l
       PROVE  \/ rows[at[k]].frame < rows[at[l]].frame
              \/ rows[at[k]].frame = rows[at[l]].frame /\ at[k] < at[l]
  <2>1. row[k] \in 1..MaxFrame /\ row[l] \in 1..MaxFrame
    BY <1>11
  <2>2. CASE row[k] < row[l]
    BY <1>2, <1>12, <2>1, <2>2
  <2>3. CASE row[k] = row[l] /\ col[k] < col[l]
    <3>1. at[k] < at[l]
      BY <1>4, <1>12, <2>3
    <3> QED
      BY <1>12, <2>3, <3>1
  <2> QED
    BY <1>11, <1>14, <2>2, <2>3
<1>15. Sorted(s, rows, at)
    BY <1>12, <1>13, <1>14 DEF Sorted, L, N
<1> QED
    BY <1>3, <1>8, <1>15 DEF s

-----------------------------------------------------------------------------
(* The events as they are collected *)

\* b may come after a: of one slice, the earlier is first.
Follows(a, b) ==
    /\ a.of # b.of
    /\ (a.of[1] = b.of[1] /\ a.of[1] \in Range(EventSlices)) =>
          a.frame <= b.frame /\ a.of[2] < b.of[2]

\* The rows are one for each source, in their order.
Collected(rows, Sources) ==
    /\ rows \in Seq(Row(Sources))
    /\ \A x \in Sources : \E n \in 1..Len(rows) : rows[n].of = x
    /\ \A m, n \in 1..Len(rows) : m < n => Follows(rows[m], rows[n])

\* No source of S is in T, nor of a slice that has sources in T.
Apart(S, T) == \A x \in S, y \in T : x # y /\ (x[1] = y[1] => x[1] \notin Range(EventSlices))

\* Rows of sources that are apart may come in any order.
LEMMA ApartFollows ==
    ASSUME NEW S, NEW T, Apart(S, T), NEW a \in Row(S), NEW b \in Row(T)
    PROVE  Follows(a, b)
<1>1. a.of \in S /\ b.of \in T
    BY DEF Row
<1> QED
    BY <1>1 DEF Apart, Follows

\* The lists of ss have the sources of T.
Parts(n, ss, T) ==
    /\ ss = [i \in 1..n |-> ss[i]]
    /\ \A i \in 1..n : Collected(ss[i], T[i])
    /\ \A i, j \in 1..n : i < j => Apart(T[i], T[j])

\* Parts that collect different sources collect all of them, put end to end.
LEMMA CollectedEnds ==
    ASSUME NEW n \in Nat, NEW ss, NEW T, Parts(n, ss, T)
    PROVE  Collected(FlattenSeq(ss), UNION {T[i] : i \in 1..n})
<1> DEFINE S == UNION {T[i] : i \in 1..n}
           F == FlattenSeq(ss)
<1>p. /\ ss = [i \in 1..n |-> ss[i]]
      /\ \A i \in 1..n : Collected(ss[i], T[i])
      /\ \A i, j \in 1..n : i < j => Apart(T[i], T[j])
    BY DEF Parts
<1>1. \A i \in 1..n : ss[i] \in Seq(Row(T[i])) /\ ss[i] \in Seq(Row(S))
  <2> SUFFICES ASSUME NEW i \in 1..n
               PROVE  ss[i] \in Seq(Row(T[i])) /\ ss[i] \in Seq(Row(S))
    OBVIOUS
  <2>1. ss[i] \in Seq(Row(T[i]))
    BY <1>p DEF Collected
  <2>2. T[i] \subseteq S
    OBVIOUS
  <2> HIDE DEF S
  <2>3. Row(T[i]) \subseteq Row(S)
    BY <2>2 DEF Row
  <2> QED
    BY <2>1, <2>3
<1>a. \A x \in S : \E i \in 1..n : x \in T[i]
    OBVIOUS
<1> HIDE DEF S
<1>2. ss \in [1..n -> Seq(Row(S))]
    BY <1>p, <1>1
<1>3. F \in Seq(Row(S)) /\ \E row, col : EndToEnd(F, ss, n, row, col)
    BY <1>2, FlattenIs
<1>4. PICK row, col : EndToEnd(F, ss, n, row, col)
    BY <1>3
<1> DEFINE L == Len(F)
<1>5. L \in Nat
    BY <1>3
<1> HIDE DEF F
<1>6. /\ \A k \in 1..L : /\ row[k] \in 1..n /\ col[k] \in 1..Len(ss[row[k]])
                         /\ F[k] = ss[row[k]][col[k]]
      /\ \A i \in 1..n : \A j \in 1..Len(ss[i]) :
            \E k \in 1..L : row[k] = i /\ col[k] = j
      /\ \A k, l \in 1..L :
            k < l => row[k] < row[l] \/ (row[k] = row[l] /\ col[k] < col[l])
    BY <1>4 DEF EndToEnd
<1>7. ASSUME NEW x \in S
      PROVE  \E k \in 1..L : F[k].of = x
  <2>1. PICK i \in 1..n : x \in T[i]
    BY <1>a
  <2>2. PICK j \in 1..Len(ss[i]) : ss[i][j].of = x
    BY <1>p, <2>1 DEF Collected
  <2>3. PICK k \in 1..L : row[k] = i /\ col[k] = j
    BY <1>6, <2>2
  <2> QED
    BY <1>6, <2>2, <2>3
<1>8. ASSUME NEW k \in 1..L, NEW l \in 1..L, k < l
      PROVE  Follows(F[k], F[l])
  <2>1. /\ row[k] \in 1..n /\ col[k] \in 1..Len(ss[row[k]]) /\ F[k] = ss[row[k]][col[k]]
        /\ row[l] \in 1..n /\ col[l] \in 1..Len(ss[row[l]]) /\ F[l] = ss[row[l]][col[l]]
    BY <1>6
  <2>2. CASE row[k] < row[l]
    <3>a. ASSUME NEW i \in 1..n, NEW j \in 1..Len(ss[i])
          PROVE  ss[i][j] \in Row(T[i])
      <4>1. ss[i] \in Seq(Row(T[i]))
        BY <1>1
      <4> QED
        BY <4>1
    <3>1. F[k] \in Row(T[row[k]])
      BY <3>a, <2>1, Zenon
    <3>2. F[l] \in Row(T[row[l]])
      BY <3>a, <2>1, Zenon
    <3> QED
      BY <1>p, <3>2, <2>1, <2>2, <3>1, ApartFollows
  <2>3. CASE row[k] = row[l] /\ col[k] < col[l]
    BY <1>p, <2>1, <2>3 DEF Collected
  <2> QED
    BY <1>6, <1>8, <2>2, <2>3
<1>9. Collected(F, S)
    BY <1>3, <1>7, <1>8 DEF Collected
<1> QED
    BY <1>9 DEF F, S

\* The same for two parts.
LEMMA CollectedBoth ==
    ASSUME NEW S, NEW T, NEW r, NEW t, Collected(r, S), Collected(t, T), Apart(S, T)
    PROVE  Collected(r \o t, S \union T)
<1> DEFINE F == r \o t
           A == Len(r)
           B == Len(t)
<1>1. r \in Seq(Row(S)) /\ t \in Seq(Row(T)) /\ A \in Nat /\ B \in Nat
    BY DEF Collected
<1>2. Row(S) \subseteq Row(S \union T) /\ Row(T) \subseteq Row(S \union T)
    BY DEF Row
<1>3. /\ F \in Seq(Row(S \union T)) /\ Len(F) = A + B
      /\ \A n \in 1..A : n \in 1..(A + B) /\ F[n] = r[n]
      /\ \A n \in 1..B : n + A \in 1..(A + B) /\ F[n + A] = t[n]
      /\ \A n \in 1..(A + B) : n \in 1..A \/ (n - A \in 1..B /\ F[n] = t[n - A])
  <2> DEFINE R == Row(S \union T)
  <2>1. Row(S) \subseteq R /\ Row(T) \subseteq R
    BY <1>2
  <2> HIDE DEF R
  <2>2. r \in Seq(R)
    BY <1>1, <2>1
  <2>3. t \in Seq(R)
    BY <1>1, <2>1
  <2>4. /\ F \in Seq(R) /\ Len(F) = A + B
        /\ \A n \in 1..A : n \in 1..(A + B) /\ F[n] = r[n]
        /\ \A n \in 1..B : n + A \in 1..(A + B) /\ F[n + A] = t[n]
        /\ \A n \in 1..(A + B) : n \in 1..A \/ (n - A \in 1..B /\ F[n] = t[n - A])
    BY <2>2, <2>3
  <2> QED
    BY <2>4 DEF R
<1> HIDE DEF F, A, B
<1>4. ASSUME NEW x \in S \union T
      PROVE  \E n \in 1..(A + B) : F[n].of = x
  <2>1. CASE x \in S
    <3>1. PICK n \in 1..A : r[n].of = x
      BY <2>1 DEF Collected, A
    <3> QED
      BY <1>3, <3>1
  <2>2. CASE x \in T
    <3>1. PICK n \in 1..B : t[n].of = x
      BY <2>2 DEF Collected, B
    <3> QED
      BY <1>3, <3>1
  <2> QED
    BY <2>1, <2>2
<1>5. ASSUME NEW m \in 1..(A + B), NEW n \in 1..(A + B), m < n
      PROVE  Follows(F[m], F[n])
  <2>1. CASE m \in 1..A /\ n \in 1..A
    <3>1. Follows(r[m], r[n])
      BY <1>5, <2>1 DEF Collected, A
    <3> QED
      BY <1>3, <2>1, <3>1
  <2>2. CASE m \in 1..A /\ n \notin 1..A
    <3>1. r[m] \in Row(S) /\ n - A \in 1..B
      BY <1>1, <1>3, <2>2 DEF A
    <3>2. t[n - A] \in Row(T)
      BY <1>1, <3>1 DEF B
    <3> QED
      BY <1>3, <2>2, <3>1, <3>2, ApartFollows
  <2>3. CASE m \notin 1..A /\ n \notin 1..A
    <3>1. m - A \in 1..B /\ n - A \in 1..B /\ m - A < n - A
      BY <1>1, <1>3, <1>5, <2>3
    <3>2. Follows(t[m - A], t[n - A])
      BY <3>1 DEF Collected, B
    <3> QED
      BY <1>3, <2>3, <3>2
  <2>4. ~(m \notin 1..A /\ n \in 1..A)
    BY <1>1, <1>5
  <2> QED
    BY <2>1, <2>2, <2>3, <2>4
<1> QED
    BY <1>3, <1>4, <1>5 DEF Collected, F

\* Sources of l events with the frames fs: each is another one, and those of a
\* slice are in order.
Listed(l, fs, src) ==
    /\ \A n \in 1..l : fs[n] \in Frames
    /\ \A m, n \in 1..l : m < n =>
          /\ src[m] # src[n]
          /\ src[m][1] \in Range(EventSlices) => fs[m] <= fs[n] /\ src[m][2] < src[n][2]

\* One slice, row by row, collects its sources.
LEMMA CollectedList ==
    ASSUME NEW l \in Nat, NEW fs, NEW src, Listed(l, fs, src)
    PROVE  Collected([n \in 1..l |-> Event(fs[n], src[n])], {src[n] : n \in 1..l})
<1> DEFINE rows == [n \in 1..l |-> Event(fs[n], src[n])]
           S    == {src[n] : n \in 1..l}
<1>1. ASSUME NEW n \in 1..l
      PROVE  /\ fs[n] \in Int /\ src[n] \in S /\ rows[n] \in Row(S)
             /\ rows[n].of = src[n] /\ rows[n].frame = fs[n] - 1
  <2>1. fs[n] \in 1..MaxFrame /\ MaxFrame \in Nat
    BY ExportAssumption DEF Frames, Listed
  <2>2. fs[n] - 1 \in 0..(MaxFrame - 1) /\ src[n] \in S
    BY <2>1
  <2>3. rows[n] = [frame |-> fs[n] - 1, of |-> src[n]]
    BY DEF Event, frameToV1
  <2> HIDE DEF rows, S
  <2> QED
    BY <2>1, <2>2, <2>3 DEF Row
<1>2. /\ rows = [n \in 1..l |-> rows[n]] /\ \A x \in S : \E n \in 1..l : src[n] = x
    OBVIOUS
<1> HIDE DEF rows, S
<1>3. rows \in Seq(Row(S)) /\ Len(rows) = l
    BY <1>1, <1>2
<1>4. ASSUME NEW m \in 1..l, NEW n \in 1..l, m < n
      PROVE  Follows(rows[m], rows[n])
  <2>1. /\ rows[m].of = src[m] /\ rows[m].frame = fs[m] - 1 /\ fs[m] \in Int
        /\ rows[n].of = src[n] /\ rows[n].frame = fs[n] - 1 /\ fs[n] \in Int
    BY <1>1
  <2>2. /\ src[m] # src[n]
        /\ src[m][1] \in Range(EventSlices) => fs[m] <= fs[n] /\ src[m][2] < src[n][2]
    BY <1>4 DEF Listed
  <2> QED
    BY <2>1, <2>2 DEF Follows
<1>5. \A x \in S : \E n \in 1..Len(rows) : rows[n].of = x
    BY <1>1, <1>2, <1>3
<1>6. Collected(rows, S)
    BY <1>3, <1>4, <1>5 DEF Collected
<1> QED
    BY <1>6 DEF rows, S

\* What the rows of a slice, of a placed object and of a projectile come from.
SliceSources(d, s) == {<<s, n>> : n \in DOMAIN d.events[s]}
PlacedSources(d, p) ==
    {<<"placed", p, n>> : n \in {m \in DOMAIN d.placed[p].events :
                                    d.placed[p].events[m].type = "hit"}}
ProjectileSources(d, n) ==
    {<<"projectile", n, h>> : h \in DOMAIN d.projectiles[n].hits}

\* An event slice is collected in its order.
LEMMA SliceCollected ==
    ASSUME NEW d, ThingsOf(d), NEW s \in Range(EventSlices), NEW f,
           InTime(d.events[s], f)
    PROVE  Collected(SliceEvents(d, s), SliceSources(d, s))
<1> DEFINE fs == d.events[s]
<1>1. fs \in Seq(Frames)
    BY DEF ThingsOf
<1>2. PICK l \in Nat : DOMAIN fs = 1..l /\ \A n \in 1..l : fs[n] \in Frames
    BY <1>1
<1> DEFINE src == [n \in 1..l |-> <<s, n>>]
<1>3. \A n \in 1..l : src[n] = <<s, n>>
    OBVIOUS
<1>4. SliceEvents(d, s) = [n \in 1..l |-> Event(fs[n], src[n])]
    BY <1>2, <1>3 DEF SliceEvents
<1>5. SliceSources(d, s) = {src[n] : n \in 1..l}
    BY <1>2, <1>3 DEF SliceSources
<1>6. \A m, n \in 1..l : m < n =>
         src[m] # src[n] /\ fs[m] <= fs[n] /\ src[m][2] < src[n][2]
    BY <1>2, <1>3 DEF InTime
<1> HIDE DEF fs, src
<1>7. Listed(l, fs, src)
    BY <1>2, <1>6 DEF Listed
<1>8. Collected([n \in 1..l |-> Event(fs[n], src[n])], {src[n] : n \in 1..l})
    BY <1>2, <1>7, CollectedList
<1> QED
    BY <1>4, <1>5, <1>8

\* The hits of a placed object are collected.
LEMMA PlacedCollected ==
    ASSUME NEW d, ThingsOf(d), NEW p \in PlacedIds, d.placed[p] # None
    PROVE  Collected(PlacedHits(d, p), PlacedSources(d, p))
<1> DEFINE es   == d.placed[p].events
           S    == {n \in DOMAIN es : es[n].type = "hit"}
           hits == InOrder(S)
           k    == Cardinality(S)
<1>1. PICK l \in Nat : DOMAIN es = 1..l /\ \A n \in 1..l : es[n].frame \in Frames
  <2>1. es \in Seq(PlacedEvent)
    BY DEF ThingsOf, PlacedObject
  <2> HIDE DEF es
  <2>2. \A n \in DOMAIN es : es[n] \in PlacedEvent
    BY <2>1
  <2>3. PICK l \in Nat : DOMAIN es = 1..l
    BY <2>1
  <2> QED
    BY <2>2, <2>3 DEF PlacedEvent
<1>2. PlacedHits(d, p) = [n \in DOMAIN hits |-> Event(es[hits[n]].frame,
                                                      <<"placed", p, hits[n]>>)]
    BY DEF PlacedHits
<1>3. PlacedSources(d, p) = {<<"placed", p, n>> : n \in S}
    BY DEF PlacedSources
<1>4. S \subseteq 1..l /\ S \subseteq 0..l
    BY <1>1
<1> HIDE DEF es, S
<1>5. k \in Nat /\ Ascending(hits, S)
    BY <1>1, <1>4, InOrderIs, Zenon
<1> HIDE DEF hits
<1>6. /\ hits \in [1..k -> S] /\ Range(hits) = S
      /\ \A m, n \in 1..k : m < n => hits[m] < hits[n]
    BY <1>5 DEF Ascending
<1> HIDE DEF k
<1> DEFINE fs  == [n \in 1..k |-> es[hits[n]].frame]
           src == [n \in 1..k |-> <<"placed", p, hits[n]>>]
<1>7. \A n \in 1..k : /\ fs[n] = es[hits[n]].frame /\ src[n] = <<"placed", p, hits[n]>>
                      /\ fs[n] \in Frames /\ hits[n] \in S /\ hits[n] \in Int
  <2> SUFFICES ASSUME NEW n \in 1..k
               PROVE  /\ fs[n] = es[hits[n]].frame /\ src[n] = <<"placed", p, hits[n]>>
                      /\ fs[n] \in Frames /\ hits[n] \in S /\ hits[n] \in Int
    OBVIOUS
  <2>1. hits[n] \in S /\ hits[n] \in 1..l
    BY <1>4, <1>6
  <2>2. es[hits[n]].frame \in Frames
    BY <1>1, <2>1
  <2> QED
    BY <2>1, <2>2
<1>8. PlacedHits(d, p) = [n \in 1..k |-> Event(fs[n], src[n])]
    BY <1>2, <1>6, <1>7
<1>9. \A x : x \in S <=> \E n \in 1..k : x = hits[n]
    BY <1>6 DEF Range
<1> HIDE DEF fs, src
<1>10. PlacedSources(d, p) = {src[n] : n \in 1..k}
  <2>1. ASSUME NEW x \in S
        PROVE  <<"placed", p, x>> \in {src[n] : n \in 1..k}
    BY <1>7, <1>9
  <2>2. ASSUME NEW n \in 1..k
        PROVE  src[n] \in {<<"placed", p, x>> : x \in S}
    BY <1>7
  <2> QED
    BY <1>3, <2>1, <2>2
<1>11. \A m, n \in 1..k : m < n => src[m] # src[n] /\ src[m][1] \notin Range(EventSlices)
  <2> SUFFICES ASSUME NEW m \in 1..k, NEW n \in 1..k, m < n
               PROVE  src[m] # src[n] /\ src[m][1] \notin Range(EventSlices)
    OBVIOUS
  <2>1. hits[m] # hits[n]
    BY <1>6, <1>7
  <2>2. src[m][1] = "placed"
    BY <1>7
  <2> QED
    BY <1>7, <2>1, <2>2, ExportAssumption
<1>12. Listed(k, fs, src)
    BY <1>7, <1>11 DEF Listed
<1>13. Collected([n \in 1..k |-> Event(fs[n], src[n])], {src[n] : n \in 1..k})
    BY <1>5, <1>12, CollectedList
<1> QED
    BY <1>8, <1>10, <1>13

\* The hits of a projectile are collected.
LEMMA ProjectileCollected ==
    ASSUME NEW d, ThingsOf(d), NEW n \in DOMAIN d.projectiles
    PROVE  Collected(ProjectileHits(d, n), ProjectileSources(d, n))
<1> DEFINE fs == d.projectiles[n].hits
<1>1. fs \in Seq(Frames)
  <2>1. d.projectiles[n] \in Projectile
    BY DEF ThingsOf
  <2> QED
    BY <2>1 DEF Projectile
<1>2. PICK l \in Nat : DOMAIN fs = 1..l /\ \A h \in 1..l : fs[h] \in Frames
    BY <1>1
<1> DEFINE src == [h \in 1..l |-> <<"projectile", n, h>>]
<1>3. \A h \in 1..l : src[h] = <<"projectile", n, h>>
    OBVIOUS
<1>4. ProjectileHits(d, n) = [h \in 1..l |-> Event(fs[h], src[h])]
    BY <1>2, <1>3 DEF ProjectileHits
<1>5. ProjectileSources(d, n) = {src[h] : h \in 1..l}
    BY <1>2, <1>3 DEF ProjectileSources
<1>6. \A g, h \in 1..l : g < h => src[g] # src[h] /\ src[g][1] \notin Range(EventSlices)
    BY <1>3, ExportAssumption
<1> HIDE DEF fs, src
<1>7. Listed(l, fs, src)
    BY <1>2, <1>6 DEF Listed
<1>8. Collected([h \in 1..l |-> Event(fs[h], src[h])], {src[h] : h \in 1..l})
    BY <1>2, <1>7, CollectedList
<1> QED
    BY <1>4, <1>5, <1>8

AllSliceSources(d)      == UNION {SliceSources(d, s) : s \in Range(EventSlices)}
AllPlacedSources(d)     == UNION {PlacedSources(d, p) :
                                     p \in {q \in PlacedIds : d.placed[q] # None}}
AllProjectileSources(d) == UNION {ProjectileSources(d, n) : n \in DOMAIN d.projectiles}

\* All event slices are collected.
LEMMA SlicesCollected ==
    ASSUME NEW d, ThingsOf(d), NEW f, \A s \in Range(EventSlices) : InTime(d.events[s], f)
    PROVE  Collected(FlattenSeq([s \in DOMAIN EventSlices |-> SliceEvents(d, EventSlices[s])]),
                     AllSliceSources(d))
<1> DEFINE ss == [s \in DOMAIN EventSlices |-> SliceEvents(d, EventSlices[s])]
           T  == [s \in DOMAIN EventSlices |-> SliceSources(d, EventSlices[s])]
<1>1. PICK n \in Nat : DOMAIN EventSlices = 1..n
    BY ExportAssumption
<1>2. \A i \in 1..n : EventSlices[i] \in Range(EventSlices)
    BY <1>1 DEF Range
<1>3. /\ ss = [i \in 1..n |-> ss[i]]
      /\ \A i \in 1..n : ss[i] = SliceEvents(d, EventSlices[i])
                         /\ T[i] = SliceSources(d, EventSlices[i])
    BY <1>1
<1> HIDE DEF ss, T
<1>4. \A i \in 1..n : Collected(ss[i], T[i])
    BY <1>2, <1>3, SliceCollected
<1>5. ASSUME NEW i \in 1..n, NEW j \in 1..n, i < j
      PROVE  Apart(T[i], T[j])
  <2>1. EventSlices[i] # EventSlices[j]
    BY <1>1, <1>5, ExportAssumption DEF IsInjective
  <2>2. /\ \A x \in T[i] : \E m : x = <<EventSlices[i], m>>
        /\ \A x \in T[j] : \E m : x = <<EventSlices[j], m>>
    BY <1>3 DEF SliceSources
  <2>3. \A x \in T[i], y \in T[j] : x[1] # y[1]
    BY <2>1, <2>2
  <2> QED
    BY <2>3 DEF Apart
<1>6. Collected(FlattenSeq(ss), UNION {T[i] : i \in 1..n})
  <2>1. Parts(n, ss, T)
    BY <1>3, <1>4, <1>5 DEF Parts
  <2> QED
    BY <2>1, CollectedEnds
<1>7. UNION {T[i] : i \in 1..n} = AllSliceSources(d)
  <2>1. Range(EventSlices) = {EventSlices[i] : i \in 1..n}
    BY <1>1 DEF Range
  <2> QED
    BY <1>3, <2>1 DEF AllSliceSources
<1> QED
    BY <1>6, <1>7 DEF ss

\* The hits of all placed objects are collected.
LEMMA AllPlacedCollected ==
    ASSUME NEW d, ThingsOf(d)
    PROVE  LET ps == PlacedInOrder(d)
           IN  Collected(FlattenSeq([p \in DOMAIN ps |-> PlacedHits(d, ps[p])]),
                         AllPlacedSources(d))
<1> DEFINE S  == {p \in PlacedIds : d.placed[p] # None}
           ps == InOrder(S)
           n  == Cardinality(S)
           ss == [p \in DOMAIN ps |-> PlacedHits(d, ps[p])]
           T  == [p \in DOMAIN ps |-> PlacedSources(d, ps[p])]
<1>1. S \subseteq 0..IdMax /\ IdMax \in Nat
    BY ExportAssumption DEF Ids
<1>2. n \in Nat /\ Ascending(ps, S)
    BY <1>1, InOrderIs, Zenon
<1>3. PlacedInOrder(d) = ps
    BY DEF PlacedInOrder
<1>4. \A p : p \in S <=> p \in PlacedIds /\ d.placed[p] # None
    OBVIOUS
<1>5. AllPlacedSources(d) = UNION {PlacedSources(d, p) : p \in S}
    BY DEF AllPlacedSources
<1> HIDE DEF S, ps, n
<1>6. /\ DOMAIN ps = 1..n /\ \A i \in 1..n : ps[i] \in S /\ ps[i] \in Int
      /\ S = {ps[i] : i \in 1..n}
      /\ \A i, j \in 1..n : i < j => ps[i] < ps[j]
  <2>1. /\ ps \in [1..n -> S] /\ Range(ps) = S
        /\ \A i, j \in 1..n : i < j => ps[i] < ps[j]
    BY <1>2 DEF Ascending, n
  <2>2. DOMAIN ps = 1..n /\ \A i \in 1..n : ps[i] \in S
    BY <2>1
  <2>3. S = {ps[i] : i \in 1..n}
    BY <2>1, <2>2 DEF Range
  <2>4. \A x \in S : x \in Int
    BY <1>1
  <2> QED
    BY <2>1, <2>2, <2>3, <2>4
<1>7. /\ ss = [i \in 1..n |-> ss[i]]
      /\ \A i \in 1..n : ss[i] = PlacedHits(d, ps[i]) /\ T[i] = PlacedSources(d, ps[i])
    BY <1>6
<1> HIDE DEF ss, T
<1>8. \A i \in 1..n : Collected(ss[i], T[i])
    BY <1>4, <1>6, <1>7, PlacedCollected
<1>9. ASSUME NEW i \in 1..n, NEW j \in 1..n, i < j
      PROVE  Apart(T[i], T[j])
  <2>1. ps[i] # ps[j]
    BY <1>6, <1>9
  <2>2. /\ \A x \in T[i] : \E m : x = <<"placed", ps[i], m>>
        /\ \A x \in T[j] : \E m : x = <<"placed", ps[j], m>>
    BY <1>7 DEF PlacedSources
  <2>3. \A x \in T[i], y \in T[j] : x[2] # y[2] /\ x[1] = "placed"
    BY <2>1, <2>2
  <2> QED
    BY <2>3, ExportAssumption DEF Apart
<1>10. Collected(FlattenSeq(ss), UNION {T[i] : i \in 1..n})
  <2>1. Parts(n, ss, T)
    BY <1>2, <1>7, <1>8, <1>9 DEF Parts
  <2> QED
    BY <2>1, CollectedEnds, <1>2
<1>11. UNION {T[i] : i \in 1..n} = AllPlacedSources(d)
    BY <1>5, <1>6, <1>7
<1> QED
    BY <1>3, <1>10, <1>11 DEF ss

\* The hits of all projectiles are collected.
LEMMA ProjectilesCollected ==
    ASSUME NEW d, ThingsOf(d)
    PROVE  Collected(FlattenSeq([n \in DOMAIN d.projectiles |-> ProjectileHits(d, n)]),
                     AllProjectileSources(d))
<1> DEFINE ss == [n \in DOMAIN d.projectiles |-> ProjectileHits(d, n)]
           T  == [n \in DOMAIN d.projectiles |-> ProjectileSources(d, n)]
<1>1. PICK n \in Nat : DOMAIN d.projectiles = 1..n
    BY DEF ThingsOf
<1>2. /\ ss = [i \in 1..n |-> ss[i]]
      /\ \A i \in 1..n : ss[i] = ProjectileHits(d, i) /\ T[i] = ProjectileSources(d, i)
    BY <1>1
<1> HIDE DEF ss, T
<1>3. \A i \in 1..n : Collected(ss[i], T[i])
    BY <1>1, <1>2, ProjectileCollected
<1>4. ASSUME NEW i \in 1..n, NEW j \in 1..n, i < j
      PROVE  Apart(T[i], T[j])
  <2>1. /\ \A x \in T[i] : \E m : x = <<"projectile", i, m>>
        /\ \A x \in T[j] : \E m : x = <<"projectile", j, m>>
    BY <1>2 DEF ProjectileSources
  <2>2. \A x \in T[i], y \in T[j] : x[2] # y[2] /\ x[1] = "projectile"
    BY <1>4, <2>1
  <2> QED
    BY <2>2, ExportAssumption DEF Apart
<1>5. Collected(FlattenSeq(ss), UNION {T[i] : i \in 1..n})
  <2>1. Parts(n, ss, T)
    BY <1>2, <1>3, <1>4 DEF Parts
  <2> QED
    BY <2>1, CollectedEnds
<1>6. UNION {T[i] : i \in 1..n} = AllProjectileSources(d)
    BY <1>1, <1>2 DEF AllProjectileSources
<1> QED
    BY <1>5, <1>6 DEF ss

AllSources(d) ==
    AllSliceSources(d) \union AllPlacedSources(d) \union AllProjectileSources(d)

\* Every event is a row of the unsorted list once, after those of its slice before it.
LEMMA EventsCollected ==
    ASSUME NEW d, ThingsOf(d), NEW f, \A s \in Range(EventSlices) : InTime(d.events[s], f)
    PROVE  Collected(aggregateEvents(d), AllSources(d))
<1>1. /\ \A x \in AllSliceSources(d) : x[1] \in Range(EventSlices)
      /\ \A x \in AllPlacedSources(d) : x[1] = "placed"
      /\ \A x \in AllProjectileSources(d) : x[1] = "projectile"
    BY DEF AllSliceSources, AllPlacedSources, AllProjectileSources, SliceSources,
        PlacedSources, ProjectileSources
<1>2. "placed" \notin Range(EventSlices) /\ "projectile" \notin Range(EventSlices)
    BY ExportAssumption
<1>3. Apart(AllSliceSources(d), AllPlacedSources(d))
    BY <1>1, <1>2 DEF Apart
<1>4. Apart(AllSliceSources(d) \union AllPlacedSources(d), AllProjectileSources(d))
    BY <1>1, <1>2 DEF Apart
<1> DEFINE ps == PlacedInOrder(d)
           a == FlattenSeq([s \in DOMAIN EventSlices |-> SliceEvents(d, EventSlices[s])])
           b == FlattenSeq([p \in DOMAIN ps |-> PlacedHits(d, ps[p])])
           c == FlattenSeq([n \in DOMAIN d.projectiles |-> ProjectileHits(d, n)])
<1>5. aggregateEvents(d) = (a \o b) \o c
    BY Zenon DEF aggregateEvents
<1>6. Collected(a, AllSliceSources(d))
    BY SlicesCollected
<1>7. Collected(b, AllPlacedSources(d))
    BY AllPlacedCollected
<1>8. Collected(c, AllProjectileSources(d))
    BY ProjectilesCollected
<1> HIDE DEF a, b, c
<1>9. Collected(a \o b, AllSliceSources(d) \union AllPlacedSources(d))
    BY <1>3, <1>6, <1>7, CollectedBoth
<1>10. Collected((a \o b) \o c, AllSources(d))
    BY <1>4, <1>8, <1>9, CollectedBoth DEF AllSources
<1> QED
    BY <1>5, <1>10

\* Every event of the recording is a row of the finished file, once; the rows are in
\* the order of their frames, and those of a slice in the order of the calls.
THEOREM EventsAreInOrder == Spec => []EventsInOrder
<1>1. ASSUME Recorded, StreamInv, Timely
      PROVE  EventsInOrder
  <2> SUFFICES ASSUME phase = "done"
               PROVE  EventsInOrder
    BY DEF EventsInOrder
  <2>1. PICK d : d = MissionData
    OBVIOUS
  <2>2. ThingsOf(d) /\ \A s \in Range(EventSlices) : InTime(d.events[s], frame)
    BY <1>1, <2>1 DEF Recorded, Timely, MissionData
  <2> DEFINE rows == aggregateEvents(d)
             es   == SortStable(rows)
  <2>3. out.events = es
    BY <1>1, <2>1 DEF StreamInv
  <2>4. PICK S : S = AllSources(d) /\ Collected(rows, S)
    BY <2>2, EventsCollected
  <2>5. S = recordedEvents
    BY <2>1, <2>4 DEF recordedEvents, AllSources, AllSliceSources, AllPlacedSources,
        AllProjectileSources, SliceSources, PlacedSources, ProjectileSources, MissionData
  <2> HIDE DEF rows
  <2>6. rows \in Seq(Row(S))
    BY <2>4 DEF Collected
  <2>7. es \in Seq(Row(S)) /\ \E at : Sorted(es, rows, at)
    BY <2>6, SortStableSorts
  <2>8. PICK at : Sorted(es, rows, at)
    BY <2>7
  <2> HIDE DEF es
  <2>9. DOMAIN es = 1..Len(es) /\ Len(es) \in Nat /\ Len(rows) \in Nat
    BY <2>6, <2>7
  <2>10. \A k \in 1..Len(es) : /\ at[k] \in 1..Len(rows) /\ es[k] = rows[at[k]]
                               /\ es[k] \in Row(S) /\ es[k].of \in S /\ es[k].frame \in Int
    <3> SUFFICES ASSUME NEW k \in 1..Len(es)
                 PROVE  /\ at[k] \in 1..Len(rows) /\ es[k] = rows[at[k]]
                        /\ es[k] \in Row(S) /\ es[k].of \in S /\ es[k].frame \in Int
      OBVIOUS
    <3>1. es[k] \in Row(S)
      BY <2>7
    <3> QED
      BY <2>8, <3>1 DEF Sorted, Row
  <2>11. {row.of : row \in Range(es)} = S
    <3>1. ASSUME NEW x \in S
          PROVE  \E k \in 1..Len(es) : es[k].of = x
      <4>1. PICK n \in 1..Len(rows) : rows[n].of = x
        BY <2>4 DEF Collected
      <4>2. PICK k \in 1..Len(es) : at[k] = n
        BY <2>8 DEF Sorted
      <4> QED
        BY <2>10, <4>1, <4>2
    <3>2. Range(es) = {es[k] : k \in 1..Len(es)}
      BY <2>9 DEF Range
    <3> QED
      BY <2>10, <3>1, <3>2
  <2>12. ASSUME NEW m \in DOMAIN es, NEW n \in DOMAIN es, m < n
         PROVE  /\ es[m].frame <= es[n].frame
                /\ es[m].of # es[n].of
                /\ (es[m].of[1] = es[n].of[1] /\ es[m].of[1] \in Range(EventSlices)) =>
                      es[m].of[2] < es[n].of[2]
    <3>1. m \in 1..Len(es) /\ n \in 1..Len(es)
      BY <2>9
    <3>2. /\ at[m] \in 1..Len(rows) /\ es[m] = rows[at[m]] /\ es[m].frame \in Int
          /\ at[n] \in 1..Len(rows) /\ es[n] = rows[at[n]] /\ es[n].frame \in Int
      BY <2>10, <3>1
    <3>3. \/ es[m].frame < es[n].frame
          \/ es[m].frame = es[n].frame /\ at[m] < at[n]
      BY <2>8, <2>12, <3>1, <3>2 DEF Sorted
    <3>4. CASE at[m] < at[n]
      <4>1. Follows(es[m], es[n])
        BY <2>4, <3>2, <3>4 DEF Collected
      <4> QED
        BY <3>2, <3>3, <4>1 DEF Follows
    <3>5. CASE at[n] < at[m]
      <4>1. Follows(es[n], es[m])
        BY <2>4, <3>2, <3>5 DEF Collected
      <4>2. es[m].frame < es[n].frame
        BY <3>2, <3>3, <3>5
      <4> QED
        BY <3>2, <4>1, <4>2 DEF Follows
    <3>6. at[m] # at[n]
      BY <3>2, <3>3
    <3> QED
      BY <2>9, <3>2, <3>4, <3>5, <3>6
  <2> QED
    BY <2>3, <2>5, <2>11, <2>12 DEF EventsInOrder
<1> QED
    BY <1>1, AlwaysTimely, PTL

-----------------------------------------------------------------------------
(* The positions of a unit *)

\* The last frame state s of a unit u is shown in.
EndOf(u, s, maxFrame) ==
    IF s < Len(u.states) THEN u.states[s + 1] - 1
    ELSE IF u.delete > 0 THEN u.delete ELSE maxFrame

Shows(u, s, f, maxFrame) == u.states[s] <= f /\ f <= EndOf(u, s, maxFrame)

LastOf(u, maxFrame) ==
    Max({IF u.delete > 0 THEN u.delete ELSE maxFrame, Last(u.states) - 1})

\* A unit that has been seen, its states in order.
Seen(u, l) ==
    /\ u \in Unit /\ l \in Nat \ {0}
    /\ Len(u.states) = l /\ DOMAIN u.states = 1..l
    /\ \A s \in 1..l : u.states[s] \in Frames /\ u.states[s] \in Nat
    /\ \A r, s \in 1..l : r <= s => u.states[r] <= u.states[s]

\* A recorded unit has a last state.
LEMMA SeenUnit ==
    ASSUME NEW u \in Unit, NEW g, InTime(u.states, g), u.states # <<>>
    PROVE  \E l \in Nat \ {0} : Seen(u, l)
<1>1. u.states \in Seq(Frames)
    BY DEF Unit
<1>2. PICK l \in Nat : Len(u.states) = l /\ DOMAIN u.states = 1..l
    BY <1>1
<1>3. l # 0
    BY <1>1, <1>2
<1>4. \A s \in 1..l : u.states[s] \in Frames
    BY <1>1, <1>2
<1>5. \A s \in 1..l : u.states[s] \in Nat
    BY <1>4, ExportAssumption DEF Frames
<1>6. \A r, s \in 1..l : r <= s => u.states[r] <= u.states[s]
  <2> SUFFICES ASSUME NEW r \in 1..l, NEW s \in 1..l, r <= s
               PROVE  u.states[r] <= u.states[s]
    OBVIOUS
  <2>1. CASE r = s
    BY <1>5, <2>1
  <2>2. CASE r < s
    BY <1>2, <2>2 DEF InTime
  <2> QED
    BY <2>1, <2>2
<1> QED
    BY <1>2, <1>3, <1>4, <1>5, <1>6 DEF Seen

\* The last frame a unit is drawn in: the end of its last state, or the frame before that begins.
LEMMA LastIs ==
    ASSUME NEW u, NEW l, Seen(u, l), NEW max \in 0..MaxFrame
    PROVE  /\ EndOf(u, l, max) \in Nat /\ LastOf(u, max) \in Nat
           /\ LastOf(u, max) >= EndOf(u, l, max) /\ LastOf(u, max) >= u.states[l] - 1
           /\ LastOf(u, max) = EndOf(u, l, max) \/ LastOf(u, max) = u.states[l] - 1
<1>1. /\ l \in Nat \ {0} /\ Len(u.states) = l /\ l \in 1..l
      /\ u.states[l] \in 1..MaxFrame /\ u.delete \in 0..MaxFrame /\ MaxFrame \in Nat
  <2>1. u.delete \in 0..MaxFrame /\ MaxFrame \in Nat
    BY ExportAssumption DEF Seen, Unit, Frames, FrameForever
  <2> QED
    BY <2>1 DEF Seen, Frames
<1>2. EndOf(u, l, max) = (IF u.delete > 0 THEN u.delete ELSE max)
    BY <1>1 DEF EndOf
<1>3. Last(u.states) = u.states[l]
    BY <1>1 DEF Last
<1> DEFINE S == {EndOf(u, l, max), u.states[l] - 1}
<1>4. LastOf(u, max) = Max(S)
    BY <1>2, <1>3 DEF LastOf
<1>5. S \subseteq 0..MaxFrame /\ S # {}
    BY <1>1, <1>2
<1>6. Max(S) \in S /\ \A x \in S : Max(S) >= x
    BY <1>1, <1>5, MaxIsGreatest
<1> QED
    BY <1>4, <1>5, <1>6

\* The state shown in a frame.
LatestState(u, f) == Max({s \in DOMAIN u.states : u.states[s] <= f})

\* In a frame from the first state to the end one state is shown, the last one
\* recorded until then; in any other frame none is.
LEMMA OneStateShows ==
    ASSUME NEW u, NEW l, Seen(u, l), NEW max \in 0..MaxFrame, NEW f \in Int
    PROVE  /\ f \in u.states[1]..LastOf(u, max) =>
                 /\ LatestState(u, f) \in 1..l
                 /\ \A s \in 1..l : Shows(u, s, f, max) <=> s = LatestState(u, f)
           /\ f \notin u.states[1]..LastOf(u, max) =>
                 \A s \in 1..l : ~Shows(u, s, f, max)
<1> DEFINE st == u.states
           last == LastOf(u, max)
           end == EndOf(u, l, max)
           S == {s \in DOMAIN st : st[s] <= f}
           c == Max(S)
<1>1. /\ l \in Nat /\ l >= 1 /\ Len(st) = l /\ DOMAIN st = 1..l
      /\ \A s \in 1..l : st[s] \in Nat
      /\ \A r, s \in 1..l : r <= s => st[r] <= st[s]
    BY DEF Seen
<1>2. /\ end \in Nat /\ last \in Nat /\ last >= end /\ last >= st[l] - 1
      /\ last = end \/ last = st[l] - 1
    BY LastIs
<1>3. /\ \A s \in 1..l : s < l => EndOf(u, s, max) = st[s + 1] - 1
      /\ EndOf(u, l, max) = end
    BY <1>1 DEF EndOf
<1> HIDE DEF st, last, end
<1>4. ASSUME f \in st[1]..last
      PROVE  /\ c \in 1..l
             /\ \A s \in 1..l : Shows(u, s, f, max) <=> s = c
  <2>1. 1 \in S /\ S \subseteq 0..l /\ S # {}
    BY <1>1, <1>4
  <2>2. c \in S /\ \A x \in S : c >= x
    BY <1>1, <2>1, MaxIsGreatest
  <2> HIDE DEF c
  <2>3. c \in 1..l /\ st[c] <= f
    BY <1>1, <2>2
  <2>4. \A s \in 1..l : st[s] <= f => s <= c
    BY <1>1, <2>2, <2>3
  <2>5. f <= EndOf(u, c, max)
    <3>1. CASE c < l
      <4>1. c + 1 \in 1..l /\ ~(c + 1 <= c)
        BY <1>1, <2>3, <3>1
      <4>2. ~(st[c + 1] <= f)
        BY <2>4, <4>1
      <4> QED
        BY <1>1, <1>3, <2>3, <3>1, <4>1, <4>2
    <3>2. CASE c = l
      BY <1>1, <1>2, <1>3, <1>4, <2>3, <3>2
    <3> QED
      BY <1>1, <2>3, <3>1, <3>2
  <2>6. ASSUME NEW s \in 1..l, Shows(u, s, f, max)
        PROVE  s = c
    <3>1. st[s] <= f /\ f <= EndOf(u, s, max)
      BY <2>6 DEF Shows, st
    <3>2. CASE s < c
      <4>1. s + 1 \in 1..l /\ s + 1 <= c /\ s < l
        BY <1>1, <2>3, <3>2
      <4>2. st[s + 1] <= st[c]
        BY <1>1, <2>3, <4>1
      <4>3. f <= st[s + 1] - 1
        BY <1>3, <3>1, <4>1
      <4> QED
        BY <1>1, <2>3, <4>1, <4>2, <4>3
    <3> QED
      BY <1>1, <2>3, <2>4, <3>1, <3>2
  <2> QED
    BY <2>3, <2>5, <2>6 DEF Shows, st
<1>5. ASSUME f \notin st[1]..last, NEW s \in 1..l, Shows(u, s, f, max)
      PROVE  FALSE
  <2>1. st[s] <= f /\ f <= EndOf(u, s, max)
    BY <1>5 DEF Shows, st
  <2>2. st[1] <= st[s] /\ st[1] \in Nat /\ st[s] \in Nat
    BY <1>1
  <2>3. last < f
    BY <1>2, <1>5, <2>1, <2>2
  <2>4. CASE s < l
    <3>1. s + 1 \in 1..l /\ s + 1 <= l /\ l \in 1..l
      BY <1>1, <2>4
    <3>2. st[s + 1] <= st[l] /\ st[s + 1] \in Nat /\ st[l] \in Nat
      BY <1>1, <3>1
    <3>3. f <= st[s + 1] - 1
      BY <1>3, <2>1, <2>4
    <3> QED
      BY <1>2, <2>3, <3>2, <3>3
  <2>5. CASE s = l
    BY <1>2, <1>3, <2>1, <2>3, <2>5
  <2> QED
    BY <1>1, <2>4, <2>5
<1>6. LatestState(u, f) = c
    BY DEF LatestState, st
<1> HIDE DEF c, S
<1> QED
    BY <1>4, <1>5, <1>6 DEF st, last

\* The last frame of a recording is one of its frames.
LEMMA MaxFrameIsAFrame ==
    ASSUME NEW d, UnitsOf(d)
    PROVE  computedMaxFrame(d) \in 0..MaxFrame
<1> DEFINE S == {0} \union FramesOf(d, "soldier") \union FramesOf(d, "vehicle")
<1>1. ASSUME NEW k \in Kinds
      PROVE  FramesOf(d, k) \subseteq Frames
  <2> SUFFICES ASSUME NEW i \in Present(d, k), NEW f \in Range(d.units[k][i].states)
               PROVE  f \in Frames
    BY DEF FramesOf
  <2>1. d.units[k][i] \in Unit
    BY DEF Present, UnitsOf
  <2>2. d.units[k][i].states \in Seq(Frames)
    BY <2>1 DEF Unit
  <2> QED
    BY <2>2 DEF Range
<1>2. S \subseteq 0..MaxFrame /\ S # {} /\ MaxFrame \in Nat
  <2>1. Frames \subseteq 0..MaxFrame /\ 0 \in 0..MaxFrame /\ MaxFrame \in Nat
    BY ExportAssumption DEF Frames
  <2>2. FramesOf(d, "soldier") \subseteq Frames /\ FramesOf(d, "vehicle") \subseteq Frames
    BY <1>1 DEF Kinds
  <2> QED
    BY <2>1, <2>2
<1>3. Max(S) \in S
    BY <1>2, MaxIsGreatest
<1> QED
    BY <1>2, <1>3 DEF computedMaxFrame

\* The ranges of a vehicle.
LEMMA RangesOfVehicle ==
    ASSUME NEW u, NEW l, Seen(u, l), NEW max \in 0..MaxFrame, NEW i, NEW f \in 1..MaxFrame
    PROVE  {p[1] : p \in {q \in Range(buildVehicleEntity(i, u, max).positions) :
                             q[2] <= frameToV1(f) /\ frameToV1(f) <= q[3]}}
           = IF f \in u.states[1]..LastOf(u, max) THEN {LatestState(u, f)} ELSE {}
<1> DEFINE P(s) == <<s, startF(u, s), endF(u, s, max)>>
           ranges == [s \in 1..l |-> P(s)]
<1>1. l \in Nat /\ Len(u.states) = l /\ DOMAIN u.states = 1..l
      /\ \A s \in 1..l : u.states[s] \in Int
    BY DEF Seen
<1>2. buildVehicleEntity(i, u, max).positions = ranges
    BY <1>1 DEF buildVehicleEntity
<1>3. Range(ranges) = {P(s) : s \in 1..l}
    BY DEF Range
<1>4. ASSUME NEW s \in 1..l
      PROVE  /\ P(s)[1] = s
             /\ (P(s)[2] <= frameToV1(f) /\ frameToV1(f) <= P(s)[3]) <=> Shows(u, s, f, max)
  <2>1. startF(u, s) = u.states[s] - 1 /\ frameToV1(f) = f - 1
    BY DEF startF, frameToV1
  <2>2. endF(u, s, max) = EndOf(u, s, max) - 1
    <3>1. CASE s < l
      <4>1. s + 1 \in 1..l
        BY <1>1, <3>1
      <4>2. u.states[s + 1] \in Int
        BY <1>1, <4>1
      <4> QED
        BY <1>1, <3>1, <4>2 DEF endF, EndOf, frameToV1
    <3>2. CASE ~(s < l)
      BY <1>1, <3>2 DEF endF, EndOf, frameToV1
    <3> QED
      BY <3>1, <3>2
  <2>3. EndOf(u, s, max) \in Int
    <3>1. CASE s < l
      <4>1. s + 1 \in 1..l
        BY <1>1, <3>1
      <4> QED
        BY <1>1, <3>1, <4>1 DEF EndOf
    <3>2. CASE s = l
      BY <3>2, LastIs
    <3> QED
      BY <1>1, <3>1, <3>2
  <2> QED
    BY <1>1, <2>1, <2>2, <2>3 DEF Shows
<1> HIDE DEF P, ranges
<1>5. {p[1] : p \in {q \in Range(ranges) : q[2] <= frameToV1(f) /\ frameToV1(f) <= q[3]}}
      = {s \in 1..l : Shows(u, s, f, max)}
  <2> DEFINE Q == {q \in Range(ranges) : q[2] <= frameToV1(f) /\ frameToV1(f) <= q[3]}
  <2>1. \A q : q \in Q <=> \E s \in 1..l : q = P(s) /\ Shows(u, s, f, max)
    BY <1>3, <1>4
  <2> HIDE DEF Q
  <2>2. \A q \in Q : q[1] \in {s \in 1..l : Shows(u, s, f, max)}
    BY <1>4, <2>1
  <2>3. \A s \in {r \in 1..l : Shows(u, r, f, max)} : P(s) \in Q /\ s = P(s)[1]
    BY <1>4, <2>1
  <2>4. {p[1] : p \in Q} = {s \in 1..l : Shows(u, s, f, max)}
    BY <2>2, <2>3
  <2> QED
    BY <2>4 DEF Q
<1>6. {s \in 1..l : Shows(u, s, f, max)}
      = IF f \in u.states[1]..LastOf(u, max) THEN {LatestState(u, f)} ELSE {}
  <2>1. f \in Int
    OBVIOUS
  <2>2. CASE f \in u.states[1]..LastOf(u, max)
    <3>1. /\ LatestState(u, f) \in 1..l
          /\ \A s \in 1..l : Shows(u, s, f, max) <=> s = LatestState(u, f)
      BY <2>1, <2>2, OneStateShows
    <3> QED
      BY <2>2, <3>1
  <2>3. CASE f \notin u.states[1]..LastOf(u, max)
    <3>1. \A s \in 1..l : ~Shows(u, s, f, max)
      BY <2>1, <2>3, OneStateShows
    <3> QED
      BY <2>3, <3>1
  <2> QED
    BY <2>2, <2>3
<1> QED
    BY <1>2, <1>5, <1>6

\* A sequence is the function of its items.
LEMMA ItemByItem ==
    ASSUME NEW T, NEW w \in Seq(T), NEW n, Len(w) = n
    PROVE  w = [k \in 1..n |-> w[k]]
<1>1. DOMAIN w = 1..n /\ w = [k \in DOMAIN w |-> w[k]]
    OBVIOUS
<1> QED
    BY <1>1

\* The positions of a soldier, one for each frame.
LEMMA PositionsOfSoldier ==
    ASSUME NEW u, NEW l, Seen(u, l), NEW max \in 0..MaxFrame, NEW i, NEW fired
    PROVE  LET first  == u.states[1]
               frames == first..LastOf(u, max)
           IN  buildSoldierEntity(i, u, max, fired).positions
               = [k \in 1..Cardinality(frames) |-> LatestState(u, first + k - 1)]
<1> DEFINE first == u.states[1]
           last  == LastOf(u, max)
           \* where the first s states end
           until(s) == IF s < l THEN u.states[s + 1] - 1 ELSE last
           ss == [s \in DOMAIN u.states |->
                    [n \in 1..(endF(u, s, max) - startF(u, s) + 1) |-> s]]
<1>1. /\ l \in Nat \ {0} /\ l \in Nat /\ Len(u.states) = l /\ DOMAIN u.states = 1..l
      /\ 1 \in 1..l /\ l \in 1..l
      /\ \A s \in 1..l : u.states[s] \in Nat
      /\ \A r, s \in 1..l : r <= s => u.states[r] <= u.states[s]
      /\ first \in Nat
    BY DEF Seen
<1>2. /\ EndOf(u, l, max) \in Nat /\ last \in Nat
      /\ last >= EndOf(u, l, max) /\ last >= u.states[l] - 1
      /\ last = EndOf(u, l, max) \/ last = u.states[l] - 1
    BY LastIs
<1>3. \A s \in 1..l : s < l => s + 1 \in 1..l /\ EndOf(u, s, max) = u.states[s + 1] - 1
    BY <1>1 DEF EndOf
<1>4. ASSUME NEW s \in 1..l
      PROVE  /\ EndOf(u, s, max) \in Int
             /\ endF(u, s, max) - startF(u, s) + 1 = EndOf(u, s, max) - u.states[s] + 1
  <2>1. EndOf(u, s, max) \in Int
    <3>1. CASE s < l
      <4>1. s + 1 \in 1..l /\ EndOf(u, s, max) = u.states[s + 1] - 1
        BY <1>3, <3>1
      <4>2. PICK z \in Nat : z = u.states[s + 1]
        BY <1>1, <4>1
      <4> QED
        BY <4>1, <4>2
    <3>2. CASE s = l
      BY <1>2, <3>2
    <3> QED
      BY <1>1, <3>1, <3>2
  <2>2. startF(u, s) = u.states[s] - 1 /\ u.states[s] \in Int
    BY <1>1 DEF startF, frameToV1
  <2>3. endF(u, s, max) = EndOf(u, s, max) - 1
    <3>1. CASE s < l
      <4>1. u.states[s + 1] \in Int
        BY <1>1, <1>3, <3>1
      <4> QED
        BY <1>1, <3>1, <4>1 DEF endF, EndOf, frameToV1
    <3>2. CASE ~(s < l)
      BY <1>1, <3>2 DEF endF, EndOf, frameToV1
    <3> QED
      BY <3>1, <3>2
  <2> QED
    BY <2>1, <2>2, <2>3
<1>5. /\ Len(ss) = l
      /\ \A s \in 1..l : ss[s] = [n \in 1..(EndOf(u, s, max) - u.states[s] + 1) |-> s]
    BY <1>1, <1>4
<1>6. buildSoldierEntity(i, u, max, fired).positions = FlattenSeq(ss)
    BY DEF buildSoldierEntity
<1> HIDE DEF ss, last
<1>7a. PICK flat : Flattens(flat, ss, l)
    BY <1>1, <1>5, FlattenStep
<1>7. /\ flat[1] = ss[1]
      /\ \A s \in 2..l : flat[s] = flat[s - 1] \o ss[s]
      /\ FlattenSeq(ss) = flat[l]
    BY <1>7a DEF Flattens
<1> DEFINE \* the frames of the first s states are filled
           Filled(s) ==
               flat[s] = [k \in 1..(until(s) - first + 1) |-> LatestState(u, first + k - 1)]
           bad == {s \in 1..l : ~Filled(s)}
\* The frames of one state.
<1>8. ASSUME NEW s \in 1..l
      PROVE  /\ until(s) \in Int /\ until(s) >= u.states[s] - 1
             /\ ss[s] = [n \in 1..(until(s) - u.states[s] + 1) |->
                            LatestState(u, u.states[s] + n - 1)]
  <2>1. until(s) \in Int /\ until(s) >= u.states[s] - 1 /\ until(s) <= last
    <3>1. CASE s < l
      <4>1. /\ until(s) = u.states[s + 1] - 1
            /\ u.states[s + 1] \in Nat /\ u.states[s] \in Nat /\ u.states[l] \in Nat
            /\ u.states[s] <= u.states[s + 1] /\ u.states[s + 1] <= u.states[l]
        BY <1>1, <1>3, <3>1
      <4> QED
        BY <1>2, <4>1
    <3>2. CASE s = l
      <4>1. until(s) = last
        BY <1>1, <3>2
      <4> QED
        BY <1>2, <3>2, <4>1
    <3> QED
      BY <1>1, <3>1, <3>2
  <2>2. until(s) = EndOf(u, s, max) \/ (until(s) = u.states[s] - 1 /\ EndOf(u, s, max) < u.states[s])
    BY <1>1, <1>2, <1>3
  <2>3. ASSUME NEW n \in 1..(until(s) - u.states[s] + 1)
        PROVE  LatestState(u, u.states[s] + n - 1) = s
    <3>1. u.states[s] \in Nat /\ first <= u.states[s]
      BY <1>1
    <3>2. PICK f \in Int : f = u.states[s] + n - 1 /\ u.states[s] <= f /\ f <= until(s)
      BY <2>1, <3>1
    <3>3. Shows(u, s, f, max)
      BY <2>2, <3>1, <3>2 DEF Shows
    <3>a. PICK e \in Int : e = until(s) /\ e <= last
      BY <2>1
    <3>b. f <= e
      BY <3>2, <3>a
    <3>c. first \in Nat /\ last \in Nat /\ u.states[s] \in Nat /\ f \in Int
      BY <1>1, <1>2, <3>2
    <3>4. f \in first..last
      BY <3>1, <3>2, <3>a, <3>b, <3>c
    <3>5. s = LatestState(u, f)
      BY <3>3, <3>4, OneStateShows DEF last
    <3> QED
      BY <3>2, <3>5
  <2> HIDE DEF until
  <2>4. 1..(EndOf(u, s, max) - u.states[s] + 1) = 1..(until(s) - u.states[s] + 1)
    <3>1. PICK e \in Int : e = EndOf(u, s, max)
      BY <1>4
    <3>2. PICK z \in Nat : z = u.states[s]
      BY <1>1
    <3>3. PICK v \in Int : v = until(s)
      BY <2>1
    <3>4. v = e \/ (v = z - 1 /\ e < z)
      BY <2>2, <3>1, <3>2, <3>3
    <3>5. 1..(e - z + 1) = 1..(v - z + 1)
      BY <3>4
    <3> QED
      BY <3>1, <3>2, <3>3, <3>5, Zenon
  <2>5. PICK D : D = 1..(until(s) - u.states[s] + 1)
    OBVIOUS
  <2>6. ss[s] = [n \in D |-> s]
    BY <1>5, <2>4, <2>5, Zenon
  <2>7. [n \in D |-> s] = [n \in D |-> LatestState(u, u.states[s] + n - 1)]
    BY <2>3, <2>5, Zenon
  <2> QED
    BY <2>1, <2>5, <2>6, <2>7, Zenon
<1>9. Filled(1)
  <2>1. flat[1] = [n \in 1..(until(1) - u.states[1] + 1) |->
                      LatestState(u, u.states[1] + n - 1)]
    BY <1>1, <1>7, <1>8
  <2> QED
    BY <2>1
<1>10. ASSUME NEW s \in 1..l, s + 1 \in 1..l, Filled(s)
       PROVE  Filled(s + 1)
  <2>1. flat[s + 1] = flat[s] \o ss[s + 1]
    <3>1. s + 1 \in 2..l /\ (s + 1) - 1 = s
      BY <1>10
    <3> QED
      BY <1>7, <3>1
  <2>2. until(s) = u.states[s + 1] - 1
    BY <1>1, <1>10
  <2>a. PICK z \in Nat : z = u.states[s + 1] /\ first <= z
    BY <1>1, <1>10
  <2>b. PICK e \in Int : e = until(s + 1) /\ e >= z - 1
    BY <1>8, <1>10, <2>a
  <2>c. PICK a \in Nat : a = z - first
    BY <1>1, <2>a
  <2>d. PICK b \in Nat : b = e - z + 1
    BY <2>a, <2>b
  <2>3. /\ until(s) - first + 1 = a /\ first + a = z
        /\ e - first + 1 = a + b
    <3>1. until(s) = z - 1 /\ first \in Nat
      BY <1>1, <2>2, <2>a
    <3> HIDE DEF first, until
    <3> QED
      BY <2>c, <2>d, <3>1
  <2>e. until(s + 1) - first + 1 = a + b
    BY <2>3, <2>b
  <2>4. flat[s] = [k \in 1..a |-> LatestState(u, first + k - 1)]
    BY <1>10, <2>3
  <2>f. ss[s + 1] = [n \in 1..b |-> LatestState(u, z + n - 1)]
    BY <1>8, <1>10, <2>a, <2>b, <2>d
  <2>5. ss[s + 1] = [n \in 1..b |-> LatestState(u, first + a + n - 1)]
    BY <2>3, <2>f
  <2>g. first \in Nat
    BY <1>1
  <2> HIDE DEF first
  <2>6. flat[s] \o ss[s + 1] = [k \in 1..(a + b) |-> LatestState(u, first + k - 1)]
    <3> DEFINE x == flat[s]
               y == ss[s + 1]
               All == {LatestState(u, first + k - 1) : k \in Nat}
    <3>1. x \in Seq(All) /\ Len(x) = a /\ \A k \in 1..a : x[k] = LatestState(u, first + k - 1)
      <4>1. \A k \in 1..a : LatestState(u, first + k - 1) \in All
        OBVIOUS
      <4> HIDE DEF All
      <4> QED
        BY <2>4, <4>1
    <3>2. y \in Seq(All) /\ Len(y) = b
      <4>1. \A n \in 1..b : LatestState(u, first + a + n - 1) \in All
        <5> SUFFICES ASSUME NEW n \in 1..b
                     PROVE  LatestState(u, first + a + n - 1) \in All
          OBVIOUS
        <5>1. a + n \in Nat /\ first + (a + n) - 1 = first + a + n - 1
          BY <2>g
        <5> QED
          BY <5>1
      <4> HIDE DEF All
      <4> QED
        BY <2>5, <4>1
    <3>3. \A n \in 1..b : y[n] = LatestState(u, first + a + n - 1)
      BY <2>5
    <3> HIDE DEF x, y, All
    <3>4. x \o y \in Seq(All) /\ Len(x \o y) = a + b
      BY <3>1, <3>2
    <3>5. ASSUME NEW k \in 1..(a + b)
          PROVE  (x \o y)[k] = LatestState(u, first + k - 1)
      <4>1. CASE k <= a
        BY <3>1, <3>2, <4>1
      <4>2. CASE ~(k <= a)
        <5>1. k - a \in 1..b /\ first + a + (k - a) - 1 = first + k - 1
          BY <2>g, <4>2
        <5>2. (x \o y)[k] = y[k - a]
          BY <3>1, <3>2, <4>2
        <5> QED
          BY <3>3, <5>1, <5>2
      <4> QED
        BY <4>1, <4>2
    <3>6. x \o y = [k \in 1..(a + b) |-> LatestState(u, first + k - 1)]
      <4>1. x \o y = [k \in 1..(a + b) |-> (x \o y)[k]]
        BY <3>4, ItemByItem
      <4> QED
        BY <3>5, <4>1
    <3> QED
      BY <3>6 DEF x, y
  <2> QED
    BY <2>1, <2>e, <2>6 DEF first
<1> HIDE DEF Filled
<1>11. bad = {}
  <2> SUFFICES ASSUME bad # {}
               PROVE  FALSE
    OBVIOUS
  <2>1. PICK s \in bad : \A r \in bad : s <= r
    <3>1. bad \subseteq Nat
      OBVIOUS
    <3> QED
      BY <3>1, LeastNumber, Zenon
  <2>2. s \in 1..l /\ ~Filled(s) /\ s # 1
    BY <1>9, <2>1
  <2>3. s - 1 \in 1..l /\ s - 1 \notin bad /\ (s - 1) + 1 = s
    BY <1>1, <2>1, <2>2
  <2>4. Filled(s - 1)
    BY <2>3
  <2> QED
    BY <1>10, <2>2, <2>3, <2>4
<1>12. Filled(l)
    BY <1>1, <1>11
<1>13. flat[l] = [k \in 1..(last - first + 1) |-> LatestState(u, first + k - 1)]
    BY <1>1, <1>12 DEF Filled
<1>14. Cardinality(first..last) = last - first + 1
  <2>1. first \in Int /\ last \in Int /\ first - 1 <= last
    BY <1>1, <1>2
  <2> HIDE DEF first
  <2>2. Cardinality(first..last) = IF first > last THEN 0 ELSE last - first + 1
    BY <2>1, FS_Interval
  <2> QED
    BY <2>1, <2>2
<1> QED
    BY <1>6, <1>7, <1>13, <1>14 DEF last

\* In every frame from its first state to its end a soldier of the file has one
\* position and a vehicle one range, that of its last state until then.
THEOREM PositionsFollowTheStates == Spec => []PositionsFollowStates
<1>1. ASSUME Recorded, StreamInv, Timely
      PROVE  PositionsFollowStates
  <2>1. PICK d : d = MissionData
    OBVIOUS
  <2>2. UnitsOf(d) /\ d.units = units
    BY <1>1, <2>1 DEF Recorded, MissionData
  <2>3. PICK n \in 0..Total(d) : out.entities = Walk(d, n)
    BY <1>1, <2>1 DEF StreamInv
  <2>4. /\ Total(d) \in Nat /\ n \in Nat /\ n <= Total(d) /\ Total(d) <= IdMax + 1
        /\ DOMAIN out.entities = 1..n
    BY <2>3, TotalIsNatural DEF Walk
  <2>5. PICK max \in 0..MaxFrame : max = computedMaxFrame(d)
    BY <2>2, MaxFrameIsAFrame
  <2>6. ASSUME NEW m \in 1..n
        PROVE  LET e == out.entities[m]
                   u == units[IF e.type = "unit" THEN "soldier" ELSE "vehicle"][m - 1]
               IN  (e.type # "" /\ u.states # <<>>) =>
                       LET first  == u.states[1]
                           frames == first..LastOf(u, max)
                       IN  IF e.type = "unit"
                           THEN e.positions = [k \in 1..Cardinality(frames) |->
                                                  LatestState(u, first + k - 1)]
                           ELSE \A f \in 1..MaxFrame :
                                   {p[1] : p \in {q \in Range(e.positions) :
                                       q[2] <= frameToV1(f) /\ frameToV1(f) <= q[3]}}
                                   = IF f \in frames THEN {LatestState(u, f)} ELSE {}
    <3>1. PICK i \in Ids : i = m - 1
      BY <2>4, ExportAssumption DEF Ids
    <3>2. out.entities[m] = EntityForID(d, i)
      BY <2>3, <3>1 DEF Walk
    <3> DEFINE soldier == units["soldier"][i]
               vehicle == units["vehicle"][i]
    <3>3. CASE soldier # None
      <4>1. soldier \in Unit /\ InTime(soldier.states, frame)
        BY <1>1, <2>2, <3>3 DEF UnitsOf, Kinds, Timely
      <4>2. EntityForID(d, i) = buildSoldierEntity(i, soldier, max, firelines(d, i))
        BY <2>2, <2>5, <3>3 DEF EntityForID
      <4>3. buildSoldierEntity(i, soldier, max, firelines(d, i)).type = "unit"
        BY DEF buildSoldierEntity
      <4>4. ASSUME soldier.states # <<>>
            PROVE  buildSoldierEntity(i, soldier, max, firelines(d, i)).positions
                   = [k \in 1..Cardinality(soldier.states[1]..LastOf(soldier, max)) |->
                         LatestState(soldier, soldier.states[1] + k - 1)]
        <5>1. PICK l \in Nat \ {0} : Seen(soldier, l)
          BY <4>1, <4>4, SeenUnit
        <5> QED
          BY <5>1, PositionsOfSoldier
      <4> QED
        BY <3>1, <3>2, <4>2, <4>3, <4>4
    <3>4. CASE soldier = None /\ vehicle # None
      <4>1. vehicle \in Unit /\ InTime(vehicle.states, frame)
        BY <1>1, <2>2, <3>4 DEF UnitsOf, Kinds, Timely
      <4>2. EntityForID(d, i) = buildVehicleEntity(i, vehicle, max)
        BY <2>2, <2>5, <3>4 DEF EntityForID
      <4>3. buildVehicleEntity(i, vehicle, max).type = "vehicle"
        BY DEF buildVehicleEntity
      <4>4. ASSUME vehicle.states # <<>>, NEW f \in 1..MaxFrame
            PROVE  {p[1] : p \in {q \in Range(buildVehicleEntity(i, vehicle, max).positions) :
                                     q[2] <= frameToV1(f) /\ frameToV1(f) <= q[3]}}
                   = IF f \in vehicle.states[1]..LastOf(vehicle, max)
                     THEN {LatestState(vehicle, f)} ELSE {}
        <5>1. PICK l \in Nat \ {0} : Seen(vehicle, l)
          BY <4>1, <4>4, SeenUnit
        <5> QED
          BY <5>1, RangesOfVehicle
      <4> QED
        BY <3>1, <3>2, <4>2, <4>3, <4>4
    <3>5. CASE soldier = None /\ vehicle = None
      <4>1. EntityForID(d, i) = Placeholder
        BY <2>2, <3>5 DEF EntityForID
      <4>2. Placeholder.type = ""
        BY DEF Placeholder
      <4> QED
        BY <3>2, <4>1, <4>2
    <3> QED
      BY <3>3, <3>4, <3>5
  <2>7. \A u, f : stateAt(u, f) = LatestState(u, f)
    BY DEF stateAt, LatestState
  <2>8. \A u : lastShown(u) = LastOf(u, max)
    BY <2>1, <2>5 DEF lastShown, LastOf
  <2> QED
    BY <2>4, <2>6, <2>7, <2>8 DEF PositionsFollowStates
<1> QED
    BY <1>1, AlwaysTimely, PTL
=============================================================================
