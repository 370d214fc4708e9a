--------------------------- MODULE CodePageProofs ---------------------------
(***************************************************************************)
(* Proofs about module CodePage: what encode makes of what decode made of  *)
(* a text.                                                                 *)
(***************************************************************************)
EXTENDS CodePage, SequenceTheorems, WellFoundedInduction, TLAPS

-----------------------------------------------------------------------------
(* Numbers, and sequences one behind the other. *)

(* A set of numbers has a least element. *)
LEMMA LeastNumber ==
  ASSUME NEW T \in SUBSET Nat, T # {}
  PROVE  \E m \in T : \A n \in T : m <= n
<1> DEFINE R == OpToRel(<, Nat)
<1>1. \A x, y \in Nat : <<x, y>> \in R <=> x < y
  BY DEF OpToRel
<1>2. IsWellFoundedOn(R, Nat)
  BY NatLessThanWellFounded
<1> HIDE DEF R
<1>3. PICK m \in T : \A n \in T : ~ (<<n, m>> \in R)
  BY <1>2, WFMin
<1>4. ASSUME NEW n \in T PROVE m <= n
  <2>1. m \in Nat /\ n \in Nat
    BY <1>3
  <2>2. ~ (n < m)
    BY <1>1, <1>3, <2>1
  <2> QED
    BY <2>1, <2>2
<1> QED
  BY <1>4

(* Counting up: what holds of 0, and of a number if of the one before it,  *)
(* holds of all of them.                                                   *)
LEMMA CountUp ==
  ASSUME NEW N \in Nat, NEW Good, 0 \in Good,
         \A n \in 1 .. N : n - 1 \in Good => n \in Good
  PROVE  \A n \in 0 .. N : n \in Good
<1> DEFINE Bad == {n \in 0 .. N : n \notin Good}
<1> SUFFICES ASSUME Bad # {} PROVE FALSE
  OBVIOUS
<1>1. Bad \in SUBSET Nat
  OBVIOUS
<1>2. PICK m \in Bad : \A n \in Bad : m <= n
  <2> HIDE DEF Bad
  <2> QED
    BY <1>1, LeastNumber
<1>3. m \in 0 .. N /\ m \notin Good /\ m # 0
  OBVIOUS
<1>4. m \in 1 .. N /\ m - 1 \in 0 .. N /\ ~ (m <= m - 1)
  BY <1>3
<1>5. m - 1 \notin Bad
  <2> HIDE DEF Bad
  <2> QED
    BY <1>2, <1>4
<1>6. m - 1 \in Good
  BY <1>4, <1>5
<1> QED
  BY <1>3, <1>4, <1>6

(* The sums of the first elements of a list of numbers exist. *)
LEMMA SumsExist ==
  ASSUME NEW N \in Nat, NEW len \in [1 .. N -> Nat]
  PROVE  \E g \in [0 .. N -> Nat] :
           /\ g[0] = 0
           /\ \A n \in 1 .. N : g[n] = g[n - 1] + len[n]
<1> DEFINE Good == {m \in 0 .. N :
                      \E g \in [0 .. m -> Nat] :
                        /\ g[0] = 0
                        /\ \A n \in 1 .. m : g[n] = g[n - 1] + len[n]}
<1>1. 0 \in Good
  <2> DEFINE g == [n \in 0 .. 0 |-> 0]
  <2>1. g \in [0 .. 0 -> Nat] /\ g[0] = 0 /\ \A n \in 1 .. 0 : FALSE
    OBVIOUS
  <2>2. 0 \in 0 .. N
    OBVIOUS
  <2> HIDE DEF g
  <2> QED
    BY <2>1, <2>2
<1>2. ASSUME NEW m \in 1 .. N, m - 1 \in Good PROVE m \in Good
  <2>1. PICK g \in [0 .. m - 1 -> Nat] :
          /\ g[0] = 0
          /\ \A n \in 1 .. m - 1 : g[n] = g[n - 1] + len[n]
    BY <1>2
  <2> DEFINE f == [n \in 0 .. m |-> IF n = m THEN g[m - 1] + len[m] ELSE g[n]]
  <2>2. m \in Nat /\ m >= 1 /\ g[m - 1] \in Nat /\ len[m] \in Nat /\ m \in 0 .. N
    OBVIOUS
  <2>3. f \in [0 .. m -> Nat]
    BY <2>2
  <2>4. f[0] = 0
    BY <2>1, <2>2
  <2>5. ASSUME NEW n \in 1 .. m PROVE f[n] = f[n - 1] + len[n]
    BY <2>1, <2>2
  <2> HIDE DEF f
  <2> QED
    BY <2>2, <2>3, <2>4, <2>5
<1>3. N \in Good
  <2>1. N \in 0 .. N
    OBVIOUS
  <2> HIDE DEF Good
  <2> QED
    BY <1>1, <1>2, <2>1, CountUp
<1> QED
  BY <1>3

(* h joins the first of some sequences. *)
Joins(h, N, parts) ==
  \A n \in 1 .. N : h[n] = IF n = 1 THEN parts[n] ELSE h[n - 1] \o parts[n]

(* Joining some sequences one after the other is possible. *)
LEMMA JoinsExist ==
  ASSUME NEW S, NEW N \in Nat, NEW parts \in [1 .. N -> Seq(S)]
  PROVE  \E h \in [0 .. N -> Seq(S)] : Joins(h, N, parts)
<1> DEFINE Good == {m \in 0 .. N :
                      \E h \in [0 .. m -> Seq(S)] :
                        \A n \in 1 .. m :
                          h[n] = IF n = 1 THEN parts[n] ELSE h[n - 1] \o parts[n]}
<1>1. 0 \in Good
  <2> DEFINE h == [n \in 0 .. 0 |-> <<>>]
  <2>1. h \in [0 .. 0 -> Seq(S)]
    BY EmptySeq
  <2>2. \A n \in 1 .. 0 : h[n] = IF n = 1 THEN parts[n] ELSE h[n - 1] \o parts[n]
    OBVIOUS
  <2>3. 0 \in 0 .. N
    OBVIOUS
  <2> HIDE DEF h
  <2> QED
    BY <2>1, <2>2, <2>3
<1>2. ASSUME NEW m \in 1 .. N, m - 1 \in Good PROVE m \in Good
  <2>1. PICK g \in [0 .. m - 1 -> Seq(S)] :
          \A n \in 1 .. m - 1 : g[n] = IF n = 1 THEN parts[n] ELSE g[n - 1] \o parts[n]
    BY <1>2
  <2> DEFINE next == IF m = 1 THEN parts[m] ELSE g[m - 1] \o parts[m]
             f == [n \in 0 .. m |-> IF n = m THEN next ELSE g[n]]
  <2>2. m \in Nat /\ m >= 1 /\ g[m - 1] \in Seq(S) /\ parts[m] \in Seq(S)
    OBVIOUS
  <2>3. next \in Seq(S)
    BY <2>2, ConcatProperties
  <2>4. \A n \in 0 .. m : n # m => n \in 0 .. m - 1
    BY <2>2
  <2>5. f \in [0 .. m -> Seq(S)]
    <3> HIDE DEF next
    <3> QED
      BY <2>3, <2>4
  <2>6. ASSUME NEW n \in 1 .. m
        PROVE  f[n] = IF n = 1 THEN parts[n] ELSE f[n - 1] \o parts[n]
    <3>1. n \in 0 .. m /\ n - 1 \in 0 .. m /\ n - 1 # m /\ m - 1 # m
      BY <2>2
    <3>2. f[n - 1] = g[n - 1]
      BY <3>1
    <3>3. CASE n = m
      BY <3>1, <3>2, <3>3
    <3>4. CASE n # m
      <4>1. n \in 1 .. m - 1
        BY <2>2, <3>4
      <4>2. f[n] = g[n]
        BY <3>1, <3>4
      <4> QED
        BY <2>1, <3>2, <4>1, <4>2
    <3> QED
      BY <3>3, <3>4
  <2>7. m \in 0 .. N
    BY <2>2
  <2> HIDE DEF f
  <2> QED
    BY <2>5, <2>6, <2>7
<1>3. N \in Good
  <2>1. N \in 0 .. N
    OBVIOUS
  <2> HIDE DEF Good
  <2> QED
    BY <1>1, <1>2, <2>1, CountUp
<1> QED
  BY <1>3 DEF Joins

(* A position behind a first run. *)
LEMMA BehindFront ==
  ASSUME NEW front \in Nat, NEW back \in Nat, NEW k \in 1 .. back
  PROVE  /\ front + k \in 1 .. front + back /\ ~ (front + k <= front)
         /\ (front + k) - front = k
OBVIOUS

(* g sums the lengths of some sequences, and each of them is in all where   *)
(* the sums say.                                                           *)
Sums(g, N, parts) ==
  /\ g \in [0 .. N -> Nat] /\ g[0] = 0
  /\ \A n \in 1 .. N : g[n] = g[n - 1] + Len(parts[n])

InPlace(all, g, N, parts) ==
  \A n \in 1 .. N : \A k \in 1 .. Len(parts[n]) :
    /\ g[n - 1] + k \in 1 .. g[N]
    /\ all[g[n - 1] + k] = parts[n][k]

(* Where the parts are in a sequence that is flattened. *)
LEMMA FlattenIs ==
  ASSUME NEW S, NEW N \in Nat, NEW parts \in [1 .. N -> Seq(S)], NEW g, Sums(g, N, parts)
  PROVE  /\ FlattenSeq(parts) \in Seq(S) /\ Len(FlattenSeq(parts)) = g[N]
         /\ InPlace(FlattenSeq(parts), g, N, parts)
<1> SUFFICES ASSUME g \in [0 .. N -> Nat], g[0] = 0,
                    \A n \in 1 .. N : g[n] = g[n - 1] + Len(parts[n])
             PROVE  /\ FlattenSeq(parts) \in Seq(S) /\ Len(FlattenSeq(parts)) = g[N]
                    /\ \A n \in 1 .. N : \A k \in 1 .. Len(parts[n]) :
                         /\ g[n - 1] + k \in 1 .. g[N]
                         /\ FlattenSeq(parts)[g[n - 1] + k] = parts[n][k]
  BY DEF Sums, InPlace
<1>0. parts \in Seq(Seq(S)) /\ Len(parts) = N
  BY IsASeq, LenProperties
<1>1. CASE N = 0
  <2>1. FlattenSeq(parts) = parts
    BY <1>0, <1>1 DEF FlattenSeq
  <2>2. parts = <<>>
    BY <1>0, <1>1, EmptySeq
  <2>3. parts \in Seq(S) /\ Len(parts) = 0
    BY <2>2, EmptySeq
  <2>4. \A n \in 1 .. N : FALSE
    BY <1>1
  <2> QED
    BY <1>1, <2>1, <2>3, <2>4
<1>2. CASE N # 0
  <2>0. PICK h \in [0 .. N -> Seq(S)] : Joins(h, N, parts)
    BY JoinsExist
  <2> DEFINE Step(r) == [i \in 1 .. N |-> IF i = 1 THEN parts[i] ELSE r[i - 1] \o parts[i]]
             f == CHOOSE r : r = Step(r)
  <2>1. FlattenSeq(parts) = f[N]
    BY <1>0, <1>2 DEF FlattenSeq
  <2>2. f = Step(f)
    <3> DEFINE k == [i \in 1 .. N |-> h[i]]
    <3>2. k = Step(k)
      <4>1. ASSUME NEW i \in 1 .. N PROVE k[i] = Step(k)[i]
        <5>1. i = 1 \/ i - 1 \in 1 .. N
          OBVIOUS
        <5> QED
          BY <2>0, <5>1 DEF Joins
      <4> QED
        BY <4>1
    <3> HIDE DEF Step, k
    <3> QED
      BY <3>2
  <2> HIDE DEF f
  <2>3. \A i \in 1 .. N : f[i] = IF i = 1 THEN parts[i] ELSE f[i - 1] \o parts[i]
    BY <2>2
  <2> DEFINE Placed(m) == \A n \in 1 .. m : \A k \in 1 .. Len(parts[n]) :
                            /\ g[n - 1] + k \in 1 .. g[m]
                            /\ f[m][g[n - 1] + k] = parts[n][k]
             Good == {m \in 0 .. N : m = 0 \/ ( /\ f[m] \in Seq(S)
                                                /\ Len(f[m]) = g[m]
                                                /\ Placed(m))}
  <2>4. 0 \in Good
    OBVIOUS
  <2>5. ASSUME NEW m \in 1 .. N, m - 1 \in Good PROVE m \in Good
    <3>1. /\ m \in 0 .. N /\ m - 1 \in 0 .. N /\ m \in Nat /\ parts[m] \in Seq(S)
          /\ g[m] \in Nat /\ g[m - 1] \in Nat /\ g[m] = g[m - 1] + Len(parts[m])
          /\ Len(parts[m]) \in Nat
      BY LenProperties
    <3>2. CASE m = 1
      <4>1. f[m] = parts[m] /\ g[m - 1] = 0
        BY <2>3, <3>2
      <4>3. Len(f[m]) = g[m] /\ f[m] \in Seq(S)
        BY <3>1, <4>1
      <4>2. Placed(m)
        <5>1. ASSUME NEW n \in 1 .. m, NEW k \in 1 .. Len(parts[n])
              PROVE  /\ g[n - 1] + k \in 1 .. g[m]
                     /\ f[m][g[n - 1] + k] = parts[n][k]
          <6>1. n = m
            BY <3>2
          <6>2. k \in 1 .. Len(parts[m]) /\ g[n - 1] + k = k
            BY <3>1, <4>1, <6>1
          <6> QED
            BY <3>1, <4>1, <6>1, <6>2
        <5> QED
          BY <5>1
      <4> HIDE DEF Placed
      <4> QED
        BY <3>1, <4>2, <4>3
    <3>3. CASE m # 1
      <4> DEFINE front == f[m - 1]
                 back  == parts[m]
                 all   == front \o back
      <4>1. f[m] = all
        BY <2>3, <3>3
      <4>2. front \in Seq(S) /\ Len(front) = g[m - 1] /\ Placed(m - 1)
        BY <2>5, <3>3
      <4>3. /\ all \in Seq(S) /\ Len(all) = Len(front) + Len(back)
            /\ \A i \in 1 .. Len(front) + Len(back) :
                 all[i] = IF i <= Len(front) THEN front[i] ELSE back[i - Len(front)]
        BY <3>1, <4>2, ConcatProperties
      <4>4. Placed(m)
        <5>1. ASSUME NEW n \in 1 .. m, NEW k \in 1 .. Len(parts[n])
              PROVE  /\ g[n - 1] + k \in 1 .. g[m]
                     /\ f[m][g[n - 1] + k] = parts[n][k]
          <6>1. CASE n = m
            <7> DEFINE at == g[m - 1] + k
            <7>1. k \in 1 .. Len(back) /\ k \in Nat
              BY <6>1
            <7>2. /\ at \in 1 .. Len(front) + Len(back) /\ ~ (at <= Len(front))
                  /\ at - Len(front) = k /\ at \in 1 .. g[m]
              <8>1. g[m] = g[m - 1] + Len(back) /\ Len(front) = g[m - 1] /\ Len(back) \in Nat
                BY <3>1, <4>2
              <8> HIDE DEF front, back
              <8>2. g[m - 1] \in Nat /\ g[m] \in Nat /\ k \in Nat /\ 1 <= k /\ k <= Len(back)
                BY <3>1, <7>1, <8>1
              <8>3. /\ at \in 1 .. g[m - 1] + Len(back) /\ ~ (at <= g[m - 1])
                    /\ at - g[m - 1] = k
                BY <7>1, <8>1, <8>2, BehindFront
              <8> QED
                BY <8>1, <8>3
            <7> HIDE DEF at, front, back, all
            <7>3. all[at] = back[k]
              BY <4>3, <7>2
            <7>4. g[n - 1] + k = at /\ parts[n] = back
              BY <6>1 DEF at, back
            <7> QED
              BY <4>1, <7>2, <7>3, <7>4
          <6>2. CASE n # m
            <7> DEFINE at == g[n - 1] + k
            <7>1. n \in 1 .. m - 1
              BY <3>1, <6>2
            <7>2. at \in 1 .. g[m - 1] /\ front[at] = parts[n][k]
              BY <4>2, <7>1
            <7> HIDE DEF at, front, back, all, Placed
            <7>3. at \in 1 .. g[m] /\ at \in 1 .. Len(front) + Len(back) /\ at <= Len(front)
              <8>1. Len(back) \in Nat /\ g[m] = g[m - 1] + Len(back)
                BY <3>1 DEF back
              <8> QED
                BY <3>1, <4>2, <7>2, <8>1
            <7>4. all[at] = front[at]
              BY <4>3, <7>3
            <7> QED
              BY <4>1, <7>2, <7>3, <7>4 DEF at
          <6> QED
            BY <6>1, <6>2
        <5> QED
          BY <5>1
      <4>5. f[m] \in Seq(S) /\ Len(f[m]) = g[m]
        <5>1. Len(back) = Len(parts[m])
          OBVIOUS
        <5> HIDE DEF front, all, back
        <5> QED
          BY <3>1, <4>1, <4>2, <4>3, <5>1
      <4> HIDE DEF Placed
      <4> QED
        BY <3>1, <4>4, <4>5
    <3> QED
      BY <3>2, <3>3
  <2>6. N \in Good
    <3>1. N \in 0 .. N
      OBVIOUS
    <3> HIDE DEF Good
    <3> QED
      BY <2>4, <2>5, <3>1, CountUp
  <2> HIDE DEF Placed
  <2>7. f[N] \in Seq(S) /\ Len(f[N]) = g[N] /\ Placed(N)
    BY <1>2, <2>6
  <2> QED
    BY <2>1, <2>7 DEF Placed
<1> QED
  BY <1>1, <1>2

(* Every position of what is joined lies in one of the parts. *)
Covers(g, N, parts) ==
  \A p \in 1 .. g[N] : \E n \in 1 .. N : \E k \in 1 .. Len(parts[n]) : p = g[n - 1] + k

(* It does.                                                           *)
LEMMA Covered ==
  ASSUME NEW S, NEW N \in Nat, NEW parts \in [1 .. N -> Seq(S)], NEW g, Sums(g, N, parts)
  PROVE  Covers(g, N, parts)
<1> DEFINE In(p, m) == \E n \in 1 .. m : \E k \in 1 .. Len(parts[n]) : p = g[n - 1] + k
           Good == {m \in 0 .. N : \A p \in 1 .. g[m] : In(p, m)}
<1>1. 0 \in Good
  <2>1. 0 \in 0 .. N /\ g[0] = 0
    BY DEF Sums
  <2>2. \A p \in 1 .. g[0] : FALSE
    BY <2>1
  <2> HIDE DEF In
  <2> QED
    BY <2>1, <2>2
<1>2. ASSUME NEW m \in 1 .. N, m - 1 \in Good PROVE m \in Good
  <2>1. /\ m \in 0 .. N /\ m - 1 \in 0 .. N /\ parts[m] \in Seq(S)
        /\ \A n \in 1 .. m - 1 : n \in 1 .. m
    OBVIOUS
  <2>2. g[m] \in Nat /\ g[m - 1] \in Nat /\ g[m] = g[m - 1] + Len(parts[m])
    BY <2>1 DEF Sums
  <2>3. Len(parts[m]) \in Nat
    BY <2>1, LenProperties
  <2>4. ASSUME NEW p \in 1 .. g[m] PROVE In(p, m)
    <3>1. CASE p <= g[m - 1]
      <4>1. p \in 1 .. g[m - 1]
        BY <2>2, <3>1
      <4>2. In(p, m - 1)
        BY <1>2, <4>1
      <4> QED
        BY <2>1, <4>2
    <3>2. CASE ~ (p <= g[m - 1])
      <4> DEFINE k == p - g[m - 1]
      <4>1. k \in 1 .. Len(parts[m]) /\ p = g[m - 1] + k /\ m \in 1 .. m
        BY <2>2, <2>3, <3>2
      <4> HIDE DEF k
      <4> QED
        BY <4>1
    <3> QED
      BY <3>1, <3>2
  <2> HIDE DEF In
  <2> QED
    BY <2>1, <2>4
<1>3. N \in Good
  <2>1. N \in 0 .. N
    OBVIOUS
  <2> HIDE DEF Good
  <2> QED
    BY <1>1, <1>2, <2>1, CountUp
<1> QED
  BY <1>3 DEF Covers

(* The first of the parts.                                                 *)
FirstParts(parts, M) == [i \in 1 .. M |-> parts[i]]

(* One sequence is the front of another.                                   *)
IsFront(front, all, M) ==
  Len(front) = M /\ M <= Len(all) /\ \A p \in 1 .. M : front[p] = all[p]

(* The first parts are joined to the first elements of the whole. *)
LEMMA FrontOfFlatten ==
  ASSUME NEW S, NEW N \in Nat, NEW parts \in [1 .. N -> Seq(S)], NEW g, Sums(g, N, parts),
         NEW M \in 0 .. N
  PROVE  /\ FlattenSeq(FirstParts(parts, M)) \in Seq(S)
         /\ IsFront(FlattenSeq(FirstParts(parts, M)), FlattenSeq(parts), g[M])
<1> DEFINE firsts == [i \in 1 .. M |-> parts[i]]
           front  == FlattenSeq(firsts)
           all    == FlattenSeq(parts)
           sums   == [n \in 0 .. M |-> g[n]]
<1>1. /\ M \in Nat /\ M \in 0 .. M
      /\ \A i \in 1 .. M : i \in 1 .. N /\ i \in 0 .. M /\ i - 1 \in 0 .. M
  OBVIOUS
<1>2. firsts \in [1 .. M -> Seq(S)] /\ \A i \in 1 .. M : firsts[i] = parts[i]
  BY <1>1
<1>3. \A n \in 0 .. M : sums[n] = g[n] /\ g[n] \in Nat
  BY DEF Sums
<1>4. Sums(sums, M, firsts)
  <2>1. sums \in [0 .. M -> Nat] /\ sums[0] = 0
    BY <1>3 DEF Sums
  <2>2. ASSUME NEW n \in 1 .. M PROVE sums[n] = sums[n - 1] + Len(firsts[n])
    <3>1. g[n] = g[n - 1] + Len(parts[n])
      BY <1>1 DEF Sums
    <3> HIDE DEF sums, firsts
    <3> QED
      BY <1>1, <1>2, <1>3, <3>1
  <2> QED
    BY <2>1, <2>2 DEF Sums
<1> HIDE DEF firsts, sums
<1>5. front \in Seq(S) /\ Len(front) = sums[M] /\ InPlace(front, sums, M, firsts)
  BY <1>1, <1>2, <1>4, FlattenIs
<1>6. InPlace(all, g, N, parts) /\ Len(all) = g[N]
  BY FlattenIs
<1> HIDE DEF front, all
<1>7. Covers(sums, M, firsts)
  BY <1>1, <1>2, <1>4, Covered
<1>8. ASSUME NEW p \in 1 .. g[M]
      PROVE  front[p] = all[p] /\ p \in 1 .. g[N]
  <2>1. p \in 1 .. sums[M]
    BY <1>1, <1>3
  <2>2. PICK n \in 1 .. M : \E k \in 1 .. Len(firsts[n]) : p = sums[n - 1] + k
    BY <1>7, <2>1 DEF Covers
  <2>3. PICK k \in 1 .. Len(firsts[n]) : p = sums[n - 1] + k
    BY <2>2
  <2>4. n \in 1 .. N /\ firsts[n] = parts[n] /\ sums[n - 1] = g[n - 1]
    BY <1>1, <1>2, <1>3
  <2>5. front[p] = parts[n][k]
    BY <1>5, <2>3, <2>4 DEF InPlace
  <2>6. all[p] = parts[n][k] /\ p \in 1 .. g[N]
    BY <1>6, <2>3, <2>4 DEF InPlace
  <2> QED
    BY <2>5, <2>6
<1>9. g[M] <= g[N]
  <2>1. g[M] \in Nat /\ g[N] \in Nat
    BY DEF Sums
  <2>2. g[M] # 0 => g[M] \in 1 .. g[M]
    BY <2>1
  <2>3. g[M] # 0 => g[M] \in 1 .. g[N]
    BY <1>8, <2>2
  <2> QED
    BY <2>1, <2>3
<1>10. sums[M] = g[M]
  BY <1>1, <1>3
<1> QED
  BY <1>5, <1>6, <1>8, <1>9, <1>10 DEF front, firsts, all, FirstParts, IsFront

(* What goes out for longer parts is longer. *)
LEMMA SumsGrow ==
  ASSUME NEW N \in Nat, NEW longer, NEW shorter, NEW f, NEW g,
         Sums(f, N, longer), Sums(g, N, shorter),
         \A n \in 1 .. N : /\ Len(shorter[n]) \in Nat /\ Len(longer[n]) \in Nat
                           /\ Len(shorter[n]) <= Len(longer[n])
  PROVE  g[N] <= f[N]
<1> DEFINE Good == {m \in 0 .. N : g[m] <= f[m]}
<1>1. 0 \in Good
  BY DEF Sums
<1>2. ASSUME NEW m \in 1 .. N, m - 1 \in Good PROVE m \in Good
  <2>1. m \in 0 .. N /\ m - 1 \in 0 .. N
    OBVIOUS
  <2>2. /\ f[m] = f[m - 1] + Len(longer[m]) /\ g[m] = g[m - 1] + Len(shorter[m])
        /\ f[m - 1] \in Nat /\ g[m - 1] \in Nat
    BY <2>1 DEF Sums
  <2>3. g[m - 1] <= f[m - 1]
    BY <1>2
  <2> QED
    BY <2>1, <2>2, <2>3
<1>3. N \in Good
  <2>1. N \in 0 .. N
    OBVIOUS
  <2> HIDE DEF Good
  <2> QED
    BY <1>1, <1>2, <2>1, CountUp
<1> QED
  BY <1>3

-----------------------------------------------------------------------------
(* Characters. *)

(* What decode writes for a character: one to three bytes. *)
LEMMA CharBytes ==
  ASSUME NEW cp \in Nat, cp <= 65535
  PROVE  AppendUtf8(cp) \in Seq(Byte) /\ Len(AppendUtf8(cp)) \in 1 .. 3
<1>1. CASE cp <= 127
  <2>1. AppendUtf8(cp) = <<cp>>
    BY <1>1 DEF AppendUtf8
  <2>2. cp \in Byte
    BY <1>1 DEF Byte
  <2>3. <<cp>> \in Seq(Byte) /\ Len(<<cp>>) = 1
    BY <2>2
  <2> QED
    BY <2>1, <2>3
<1>2. CASE cp > 127 /\ cp <= 2047
  <2> DEFINE a == 192 + (cp \div 64)
             b == 128 + (cp % 64)
  <2>1. AppendUtf8(cp) = <<a, b>>
    BY <1>2 DEF AppendUtf8
  <2>2. a \in Byte /\ b \in Byte
    BY <1>2 DEF Byte
  <2> HIDE DEF a, b
  <2>3. <<a, b>> \in Seq(Byte) /\ Len(<<a, b>>) = 2
    BY <2>2
  <2> QED
    BY <2>1, <2>3
<1>3. CASE cp > 2047
  <2> DEFINE a == 224 + (cp \div 4096)
             b == 128 + ((cp \div 64) % 64)
             c == 128 + (cp % 64)
  <2>1. AppendUtf8(cp) = <<a, b, c>>
    BY <1>3 DEF AppendUtf8
  <2>2. a \in Byte /\ b \in Byte /\ c \in Byte
    <3>1. cp \div 4096 \in 0 .. 15
      BY <1>3
    <3>2. (cp \div 64) % 64 \in 0 .. 63
      <4>1. cp \div 64 \in Nat
        BY <1>3
      <4> QED
        BY <4>1
    <3>3. cp % 64 \in 0 .. 63
      BY <1>3
    <3> QED
      BY <3>1, <3>2, <3>3 DEF Byte
  <2> HIDE DEF a, b, c
  <2>3. <<a, b, c>> \in Seq(Byte) /\ Len(<<a, b, c>>) = 3
    BY <2>2
  <2> QED
    BY <2>1, <2>3
<1> QED
  BY <1>1, <1>2, <1>3

(* What is read at a position, by the bytes there. *)
LEMMA OneByteIsRead ==
  ASSUME NEW input, NEW pos, input[pos] \div 128 = 0
  PROVE  Utf8ToCodepoint(input, pos) = [len |-> 1, cp |-> input[pos]]
BY DEF Utf8ToCodepoint

(* A character of two bytes. *)
LEMMA TwoBytesAreRead ==
  ASSUME NEW input, NEW pos, input[pos] \div 128 = 1, input[pos] \div 32 = 6,
         pos + 1 <= Len(input)
  PROVE  Utf8ToCodepoint(input, pos)
           = [len |-> 2, cp |-> ((input[pos] % 32) * 64) + (input[pos + 1] % 64)]
<1>1. ~ (input[pos] \div 128 = 0)
  OBVIOUS
<1> QED
  BY <1>1 DEF Utf8ToCodepoint

(* A character of three bytes. *)
LEMMA ThreeBytesAreRead ==
  ASSUME NEW input, NEW pos, input[pos] \div 128 = 1, input[pos] \div 32 = 7,
         input[pos] \div 16 = 14, pos + 2 <= Len(input)
  PROVE  Utf8ToCodepoint(input, pos)
           = [len |-> 3, cp |-> ((input[pos] % 16) * 4096) + ((input[pos + 1] % 64) * 64)
                                  + (input[pos + 2] % 64)]
<1>1. ~ (input[pos] \div 128 = 0) /\ ~ (input[pos] \div 32 = 6)
  OBVIOUS
<1> QED
  BY <1>1 DEF Utf8ToCodepoint

(* A character of a text is read back where decode wrote it. *)
LEMMA CharIsRead ==
  ASSUME NEW input \in Seq(Byte), NEW cp \in Nat, cp <= 65535, NEW at \in Nat,
         at + Len(AppendUtf8(cp)) <= Len(input),
         \A k \in 1 .. Len(AppendUtf8(cp)) : input[at + k] = AppendUtf8(cp)[k]
  PROVE  Utf8ToCodepoint(input, at + 1) = [len |-> Len(AppendUtf8(cp)), cp |-> cp]
<1> DEFINE pos == at + 1
<1>0. Len(input) \in Nat /\ pos + 1 = at + 2 /\ pos + 2 = at + 3
  BY LenProperties
<1>1. CASE cp <= 127
  <2>1. AppendUtf8(cp) = <<cp>>
    BY <1>1 DEF AppendUtf8
  <2>2. input[pos] = cp /\ cp \div 128 = 0
    BY <1>1, <2>1
  <2> HIDE DEF pos
  <2>3. Utf8ToCodepoint(input, pos) = [len |-> 1, cp |-> cp]
    BY <2>2, OneByteIsRead
  <2>4. Len(<<cp>>) = 1
    OBVIOUS
  <2> QED
    BY <2>1, <2>3, <2>4 DEF pos
<1>2. CASE cp > 127 /\ cp <= 2047
  <2> DEFINE a == 192 + (cp \div 64)
             b == 128 + (cp % 64)
  <2>1. AppendUtf8(cp) = <<a, b>>
    BY <1>2 DEF AppendUtf8
  <2>2. /\ a \div 128 = 1 /\ a \div 32 = 6
        /\ ((a % 32) * 64) + (b % 64) = cp
    BY <1>2
  <2> HIDE DEF a, b
  <2>3. input[pos] = a /\ input[pos + 1] = b /\ pos + 1 <= Len(input)
    BY <1>0, <2>1
  <2> HIDE DEF pos
  <2>4. Utf8ToCodepoint(input, pos)
          = [len |-> 2, cp |-> ((input[pos] % 32) * 64) + (input[pos + 1] % 64)]
    BY <2>2, <2>3, TwoBytesAreRead
  <2>5. Len(<<a, b>>) = 2
    OBVIOUS
  <2>6. Utf8ToCodepoint(input, pos) = [len |-> 2, cp |-> cp]
    BY <2>2, <2>3, <2>4
  <2> QED
    BY <2>1, <2>5, <2>6 DEF pos
<1>3. CASE cp > 2047
  <2> DEFINE a == 224 + (cp \div 4096)
             b == 128 + ((cp \div 64) % 64)
             c == 128 + (cp % 64)
  <2>1. AppendUtf8(cp) = <<a, b, c>>
    BY <1>3 DEF AppendUtf8
  <2>2. a \div 128 = 1 /\ a \div 32 = 7 /\ a \div 16 = 14
    <3>1. cp \div 4096 \in 0 .. 15
      BY <1>3
    <3>2. \A n \in 224 .. 239 : n \div 128 = 1 /\ n \div 32 = 7 /\ n \div 16 = 14
      OBVIOUS
    <3> QED
      BY <3>1, <3>2
  <2>3. ((a % 16) * 4096) + ((b % 64) * 64) + (c % 64) = cp
    BY <1>3
  <2> HIDE DEF a, b, c
  <2>4. /\ input[pos] = a /\ input[pos + 1] = b /\ input[pos + 2] = c
        /\ pos + 2 <= Len(input)
    BY <1>0, <2>1
  <2> HIDE DEF pos
  <2>5. Utf8ToCodepoint(input, pos)
          = [len |-> 3, cp |-> ((input[pos] % 16) * 4096) + ((input[pos + 1] % 64) * 64)
                                 + (input[pos + 2] % 64)]
    BY <2>2, <2>4, ThreeBytesAreRead
  <2>6. Len(<<a, b, c>>) = 3
    OBVIOUS
  <2>7. Utf8ToCodepoint(input, pos) = [len |-> 3, cp |-> cp]
    BY <2>3, <2>4, <2>5
  <2> QED
    BY <2>1, <2>6, <2>7 DEF pos
<1> QED
  BY <1>1, <1>2, <1>3

(* A character of at most three bytes is read back from the bytes that     *)
(* appendUtf8 writes for it, and all of them are used up.                  *)
THEOREM Utf8RoundTrip ==
  ASSUME NEW cp \in Nat, cp <= 65535
  PROVE  Utf8ToCodepoint(AppendUtf8(cp), 1) = [len |-> Len(AppendUtf8(cp)), cp |-> cp]
<1> DEFINE char == AppendUtf8(cp)
           at   == 0
<1>1. char \in Seq(Byte) /\ Len(char) \in 1 .. 3
  BY CharBytes
<1>2. /\ at \in Nat /\ at + Len(char) <= Len(char) /\ at + 1 = 1
      /\ \A k \in 1 .. Len(char) : char[at + k] = char[k]
  BY <1>1
<1> HIDE DEF at
<1>3. Utf8ToCodepoint(char, at + 1) = [len |-> Len(char), cp |-> cp]
  BY <1>1, <1>2, CharIsRead
<1> QED
  BY <1>2, <1>3

(* What unicodeToWindows1251 makes of the code points it knows. *)
LEMMA KnownCodePoints ==
  ASSUME NEW v \in Int
  PROVE  /\ v < 128 => UnicodeToWindows1251(v) = v
         /\ v >= 1040 /\ v <= 1103 => UnicodeToWindows1251(v) = v - 848
         /\ v = 8470 => UnicodeToWindows1251(v) = 185
         /\ v = 1025 => UnicodeToWindows1251(v) = 168
         /\ v = 1105 => UnicodeToWindows1251(v) = 184
<1>1. v < 128 => UnicodeToWindows1251(v) = v
  BY DEF UnicodeToWindows1251
<1>2. v >= 1040 /\ v <= 1103 => UnicodeToWindows1251(v) = v - 848
  BY DEF UnicodeToWindows1251
<1>3. v = 8470 => UnicodeToWindows1251(v) = 185
  BY DEF UnicodeToWindows1251
<1>4. v = 1025 => UnicodeToWindows1251(v) = 168
  BY DEF UnicodeToWindows1251
<1>5. v = 1105 => UnicodeToWindows1251(v) = 184
  BY DEF UnicodeToWindows1251
<1> QED
  BY <1>1, <1>2, <1>3, <1>4, <1>5

(* Every other code point is a question mark to it. *)
LEMMA UnknownCodePoints ==
  ASSUME NEW v \in Int, v >= 128, ~ (v >= 1040 /\ v <= 1103), v # 8470, v # 1025, v # 1105
  PROVE  UnicodeToWindows1251(v) = QuestionMark
BY DEF UnicodeToWindows1251

(* The entries of the table of Windows-1251: none is ASCII or one of the   *)
(* letters of 16#410 to 16#44F, and the way back knows three of them.      *)
Known1251 == {41, 57, 58}

LEMMA Entries1251 ==
  ASSUME NEW i \in 1 .. 64
  PROVE  /\ Table1251[i] \in Nat /\ Table1251[i] >= 128 /\ Table1251[i] <= 65535
         /\ ~ (Table1251[i] >= 1040 /\ Table1251[i] <= 1103)
         /\ i \notin Known1251 =>
              Table1251[i] # 8470 /\ Table1251[i] # 1025 /\ Table1251[i] # 1105
         /\ i = 41 => Table1251[i] = 1025
         /\ i = 57 => Table1251[i] = 1105
         /\ i = 58 => Table1251[i] = 8470
BY SMTT(60) DEF Table1251, Known1251

(* What the table and the way back make of a byte: ASCII, the Russian      *)
(* letters and the numero sign are kept, the others are question marks.    *)
LEMMA Back1251 ==
  ASSUME NEW c \in Nat, c <= 255
  PROVE  /\ Windows1251ToUnicode(c) \in Nat
         /\ Windows1251ToUnicode(c) <= 65535
         /\ Windows1251ToUnicode(c) = 0 <=> c = 0
         /\ (c < 128 \/ c >= 192 \/ c \in {168, 184, 185}) =>
              UnicodeToWindows1251(Windows1251ToUnicode(c)) = c
         /\ ~ (c < 128 \/ c >= 192 \/ c \in {168, 184, 185}) =>
              UnicodeToWindows1251(Windows1251ToUnicode(c)) = QuestionMark
<1>1. CASE c < 128
  <2>1. Windows1251ToUnicode(c) = c
    BY <1>1 DEF Windows1251ToUnicode
  <2>2. UnicodeToWindows1251(c) = c
    BY <1>1, KnownCodePoints
  <2> QED
    BY <1>1, <2>1, <2>2
<1>2. CASE c >= 192
  <2>1. Windows1251ToUnicode(c) = c + 848
    BY <1>2 DEF Windows1251ToUnicode
  <2>2. UnicodeToWindows1251(c + 848) = c
    BY <1>2, KnownCodePoints
  <2> QED
    BY <1>2, <2>1, <2>2
<1>3. CASE ~ (c < 128) /\ ~ (c >= 192)
  <2> DEFINE i == c - 127
             v == Table1251[i]
  <2>1. i \in 1 .. 64 /\ c = i + 127
    BY <1>3
  <2>2. Windows1251ToUnicode(c) = v
    <3>1. c < 192
      BY <1>3
    <3> QED
      BY <1>3, <3>1, Zenon DEF Windows1251ToUnicode
  <2> HIDE DEF i
  <2>3. /\ v \in Nat /\ v >= 128 /\ v <= 65535 /\ ~ (v >= 1040 /\ v <= 1103)
        /\ i \notin Known1251 => v # 8470 /\ v # 1025 /\ v # 1105
        /\ i = 41 => v = 1025
        /\ i = 57 => v = 1105
        /\ i = 58 => v = 8470
    BY <2>1, Entries1251
  <2> HIDE DEF v
  <2>4. c \in {168, 184, 185} <=> i \in Known1251
    BY <2>1 DEF Known1251
  <2>5. CASE i \in Known1251
    <3>1. UnicodeToWindows1251(v) = c
      <4>1. CASE i = 41
        BY <2>1, <2>3, <4>1, KnownCodePoints
      <4>2. CASE i = 57
        BY <2>1, <2>3, <4>2, KnownCodePoints
      <4>3. CASE i = 58
        BY <2>1, <2>3, <4>3, KnownCodePoints
      <4> QED
        BY <2>5, <4>1, <4>2, <4>3 DEF Known1251
    <3> QED
      BY <1>3, <2>2, <2>3, <2>4, <2>5, <3>1
  <2>6. CASE i \notin Known1251
    <3>1. UnicodeToWindows1251(v) = QuestionMark
      BY <2>3, <2>6, UnknownCodePoints
    <3> QED
      BY <1>3, <2>2, <2>3, <2>4, <2>6, <3>1
  <2> QED
    BY <2>5, <2>6
<1> QED
  BY <1>1, <1>2, <1>3

(* The entries of the table of Windows-1252. *)
LEMMA Entries1252 ==
  /\ Table1252[1] = 8364 /\ Table1252[2] = 65533 /\ Table1252[3] = 8218 /\ Table1252[4] = 402
  /\ Table1252[5] = 8222 /\ Table1252[6] = 8230 /\ Table1252[7] = 8224 /\ Table1252[8] = 8225
  /\ Table1252[9] = 710 /\ Table1252[10] = 8240 /\ Table1252[11] = 352 /\ Table1252[12] = 8249
  /\ Table1252[13] = 338 /\ Table1252[14] = 65533 /\ Table1252[15] = 381 /\ Table1252[16] = 65533
  /\ Table1252[17] = 65533 /\ Table1252[18] = 8216 /\ Table1252[19] = 8217 /\ Table1252[20] = 8220
  /\ Table1252[21] = 8221 /\ Table1252[22] = 8226 /\ Table1252[23] = 8211 /\ Table1252[24] = 8212
  /\ Table1252[25] = 732 /\ Table1252[26] = 8482 /\ Table1252[27] = 353 /\ Table1252[28] = 8250
  /\ Table1252[29] = 339 /\ Table1252[30] = 65533 /\ Table1252[31] = 382 /\ Table1252[32] = 376
BY DEF Table1252

(* The first entry of a code point is the one of a byte with a meaning,    *)
(* or of the first byte without one, which is the second.                  *)
First1252(i) == IF i \in {14, 16, 17, 30} THEN 2 ELSE i

LEMMA FirstEntry1252 ==
  ASSUME NEW i \in 1 .. 32
  PROVE  /\ First1252(i) \in 1 .. 32 /\ Table1252[First1252(i)] = Table1252[i]
         /\ \A j \in 1 .. 32 : Table1252[j] = Table1252[i] => First1252(i) <= j
         /\ Table1252[i] >= 256 /\ Table1252[i] <= 65535 /\ Table1252[i] \in Nat
<1>1. First1252(i) \in 1 .. 32 /\ Table1252[First1252(i)] = Table1252[i]
  BY Entries1252, SMTT(30) DEF First1252
<1>2. ASSUME NEW j \in 1 .. 32, Table1252[j] = Table1252[i]
      PROVE  First1252(i) <= j
  <2>1. j = i \/ (i \in {2, 14, 16, 17, 30} /\ j \in {2, 14, 16, 17, 30})
    BY <1>2, Entries1252, SMTT(30)
  <2> QED
    BY <2>1 DEF First1252
<1>3. Table1252[i] >= 256 /\ Table1252[i] <= 65535 /\ Table1252[i] \in Nat
  BY Entries1252
<1> QED
  BY <1>1, <1>2, <1>3

(* The other code page keeps every byte but four of those without a        *)
(* meaning, which come back as the first of them.                          *)
LEMMA Back1252 ==
  ASSUME NEW c \in Nat, c <= 255
  PROVE  /\ Cp1252ToUnicode(c) \in Nat
         /\ Cp1252ToUnicode(c) <= 65535
         /\ Cp1252ToUnicode(c) = 0 <=> c = 0
         /\ UnicodeToCp1252(Cp1252ToUnicode(c)) = IF c \in {141, 143, 144, 157} THEN 129 ELSE c
<1>1. CASE c < 128 \/ c >= 160
  <2>1. Cp1252ToUnicode(c) = c
    BY <1>1 DEF Cp1252ToUnicode
  <2>2. c < 128 \/ (c >= 160 /\ c <= 255)
    BY <1>1
  <2>3. UnicodeToCp1252(c) = c
    BY <2>2, Zenon DEF UnicodeToCp1252
  <2> QED
    BY <1>1, <2>1, <2>3
<1>2. CASE ~ (c < 128 \/ c >= 160)
  <2> DEFINE i == c - 127
             v == Table1252[i]
             first == First1252(i)
             I == {j \in 1 .. Len(Table1252) : Table1252[j] = v}
  <2>1. i \in 1 .. 32 /\ i + 127 = c
    BY <1>2
  <2>2. Cp1252ToUnicode(c) = v
    BY <1>2, Zenon DEF Cp1252ToUnicode
  <2>3. Len(Table1252) = 32
    BY DEF Table1252
  <2> HIDE DEF i
  <2>4. v >= 256 /\ v <= 65535 /\ v \in Nat
    BY <2>1, FirstEntry1252
  <2>5. first \in I /\ \A j \in I : first <= j
    BY <2>1, <2>3, FirstEntry1252
  <2>6. first \in Nat /\ first # 0 /\ first > 0 /\ \A j \in I : j \in Nat
    BY <2>3, <2>5
  <2>7. first + 127 = IF c \in {141, 143, 144, 157} THEN 129 ELSE c
    BY <2>1 DEF First1252
  <2> HIDE DEF I, v, first
  <2>8. Min(I) = first
    <3>1. \A x \in I : (\A y \in I : x <= y) => x = first
      BY <2>5, <2>6
    <3> QED
      BY <2>5, <3>1 DEF Min
  <2>9. SelectInSeq(Table1252, LAMBDA entry : entry = v) = IF I # {} THEN Min(I) ELSE 0
    BY DEF SelectInSeq, I
  <2>10. SelectInSeq(Table1252, LAMBDA entry : entry = v) = first
    BY <2>5, <2>8, <2>9
  <2>11. ~ (v < 128 \/ (v >= 160 /\ v <= 255))
    BY <2>4
  <2>12. UnicodeToCp1252(v) = first + 127
    BY <2>6, <2>10, <2>11 DEF UnicodeToCp1252
  <2>13. v # 0 /\ c # 0
    BY <1>2, <2>4
  <2> QED
    BY <2>2, <2>4, <2>7, <2>12, <2>13
<1> QED
  BY <1>1, <1>2

(* A byte has a code point of at most three bytes, zero and no other has   *)
(* that of zero, and what comes back is the byte or its replacement.       *)
LEMMA ByteComesBack ==
  ASSUME NEW c \in Byte
  PROVE  /\ ToUnicode(c) \in Nat /\ ToUnicode(c) <= 65535
         /\ ToUnicode(c) = 0 <=> c = 0
         /\ FromUnicode(ToUnicode(c)) = ComesBackAs(c)
<1>0. c \in Nat /\ c <= 255
  BY DEF Byte
<1>1. CASE UseWindows1252Encoding
  <2>1. ToUnicode(c) = Cp1252ToUnicode(c)
    BY <1>1, Zenon DEF ToUnicode
  <2>2. c \in Supported <=> c \notin {141, 143, 144, 157}
    BY <1>1, Zenon DEF Supported
  <2>3. ComesBackAs(c) = IF c \in {141, 143, 144, 157} THEN 129 ELSE c
    BY <1>1, <2>2, Zenon DEF ComesBackAs
  <2>4. FromUnicode(Cp1252ToUnicode(c)) = UnicodeToCp1252(Cp1252ToUnicode(c))
    BY <1>1, Zenon DEF FromUnicode
  <2> QED
    BY <1>0, <2>1, <2>3, <2>4, Back1252
<1>2. CASE ~ UseWindows1252Encoding
  <2> DEFINE kept == c < 128 \/ c >= 192 \/ c \in {168, 184, 185}
  <2>1. ToUnicode(c) = Windows1251ToUnicode(c)
    BY <1>2, Zenon DEF ToUnicode
  <2>2. c \in Supported <=> kept
    <3>1. Supported = (0 .. 127) \cup (192 .. 255) \cup {168, 184, 185}
      BY <1>2, Zenon DEF Supported
    <3> QED
      BY <1>0, <3>1
  <2>3. ComesBackAs(c) = IF kept THEN c ELSE QuestionMark
    <3> HIDE DEF kept
    <3> QED
      BY <1>2, <2>2, Zenon DEF ComesBackAs
  <2>4. FromUnicode(Windows1251ToUnicode(c)) = UnicodeToWindows1251(Windows1251ToUnicode(c))
    BY <1>2, Zenon DEF FromUnicode
  <2> QED
    BY <1>0, <2>1, <2>3, <2>4, Back1251
<1> QED
  BY <1>1, <1>2

-----------------------------------------------------------------------------
(* Texts. *)

(* A text that is written from its end to its start: at each position a    *)
(* byte and what is written from a later position on.                      *)
Written(f, from, to, head, next) ==
  f = [pos \in from .. to + 1 |-> IF pos > to THEN <<>> ELSE <<head[pos]>> \o f[next[pos]]]

(* It can be written.                                                      *)
LEMMA WrittenExists ==
  ASSUME NEW N \in Nat, NEW head, NEW next \in [1 .. N -> Nat],
         \A pos \in 1 .. N : next[pos] \in pos + 1 .. N + 1
  PROVE  \E f : Written(f, 1, N, head, next)
<1> DEFINE Good == {m \in 0 .. N : \E f : Written(f, N + 1 - m, N, head, next)}
<1>1. 0 \in Good
  <2> DEFINE f == [pos \in N + 1 .. N + 1 |-> <<>>]
  <2>1. Written(f, N + 1 - 0, N, head, next)
    <3>1. N + 1 - 0 = N + 1 /\ \A pos \in N + 1 .. N + 1 : pos > N
      OBVIOUS
    <3> QED
      BY <3>1 DEF Written
  <2>2. 0 \in 0 .. N
    OBVIOUS
  <2> HIDE DEF f
  <2> QED
    BY <2>1, <2>2
<1>2. ASSUME NEW m \in 1 .. N, m - 1 \in Good PROVE m \in Good
  <2> DEFINE start == N + 1 - m
             later == N + 1 - (m - 1)
  <2>1. PICK g : Written(g, later, N, head, next)
    BY <1>2
  <2>2. /\ m \in 0 .. N /\ start \in 1 .. N /\ later = start + 1
        /\ \A pos \in start .. N + 1 : pos # start => pos \in later .. N + 1
    OBVIOUS
  <2> HIDE DEF start, later
  <2> DEFINE f == [pos \in start .. N + 1 |->
                     IF pos = start THEN <<head[start]>> \o g[next[start]] ELSE g[pos]]
  <2>3. ASSUME NEW pos \in start .. N + 1
        PROVE  f[pos] = IF pos > N THEN <<>> ELSE <<head[pos]>> \o f[next[pos]]
    <3>1. pos <= N => /\ next[pos] \in start .. N + 1 /\ next[pos] # start
                      /\ pos \in 1 .. N
      BY <2>2
    <3>2. pos <= N => f[next[pos]] = g[next[pos]]
      BY <3>1
    <3>3. CASE pos = start
      BY <2>2, <3>2, <3>3
    <3>4. CASE pos # start
      <4>1. pos \in later .. N + 1
        BY <2>2, <3>4
      <4>2. g[pos] = IF pos > N THEN <<>> ELSE <<head[pos]>> \o g[next[pos]]
        <5> DEFINE step == [p \in later .. N + 1 |->
                              IF p > N THEN <<>> ELSE <<head[p]>> \o g[next[p]]]
        <5>1. g = step
          BY <2>1 DEF Written
        <5>2. step[pos] = IF pos > N THEN <<>> ELSE <<head[pos]>> \o g[next[pos]]
          BY <4>1
        <5> HIDE DEF step
        <5> QED
          BY <5>1, <5>2
      <4>3. pos > N \/ pos <= N
        BY <2>2
      <4> QED
        BY <3>2, <3>4, <4>2, <4>3
    <3> QED
      BY <3>3, <3>4
  <2>4. f = [pos \in start .. N + 1 |-> f[pos]]
    OBVIOUS
  <2> HIDE DEF f
  <2>5. Written(f, start, N, head, next)
    BY <2>3, <2>4 DEF Written
  <2> QED
    BY <2>2, <2>5 DEF start
<1>3. N \in Good
  <2>1. N \in 0 .. N
    OBVIOUS
  <2> HIDE DEF Good
  <2> QED
    BY <1>1, <1>2, <2>1, CountUp
<1>4. N + 1 - N = 1
  OBVIOUS
<1> QED
  BY <1>3, <1>4

(* What encode writes at a position, and where it goes on. *)
EncodedAt(input, pos) ==
  IF Utf8ToCodepoint(input, pos).len = 0 THEN QuestionMark
  ELSE FromUnicode(Utf8ToCodepoint(input, pos).cp)

GoesOnAt(input, pos) ==
  IF Utf8ToCodepoint(input, pos).len = 0 THEN pos + 1
  ELSE pos + Utf8ToCodepoint(input, pos).len

(* encode goes on behind the byte it has read, and not behind the end. *)
LEMMA GoesOnInside ==
  ASSUME NEW input \in Seq(Byte), NEW pos \in 1 .. Len(input)
  PROVE  GoesOnAt(input, pos) \in pos + 1 .. Len(input) + 1
<1>1. Len(input) \in Nat
  BY LenProperties
<1>2. \/ Utf8ToCodepoint(input, pos).len = 0
      \/ Utf8ToCodepoint(input, pos).len = 1
      \/ Utf8ToCodepoint(input, pos).len = 2 /\ pos + 1 <= Len(input)
      \/ Utf8ToCodepoint(input, pos).len = 3 /\ pos + 2 <= Len(input)
  BY DEF Utf8ToCodepoint
<1> QED
  BY <1>1, <1>2 DEF GoesOnAt

(* encode writes a text from its end to its start. *)
LEMMA EncodeIsWritten ==
  ASSUME NEW input \in Seq(Byte)
  PROVE  \E f : /\ EncodeString(input) = f[1]
                /\ f[Len(input) + 1] = <<>>
                /\ \A pos \in 1 .. Len(input) :
                     f[pos] = <<EncodedAt(input, pos)>> \o f[GoesOnAt(input, pos)]
<1> DEFINE N == Len(input)
           head == [pos \in 1 .. N |-> EncodedAt(input, pos)]
           next == [pos \in 1 .. N |-> GoesOnAt(input, pos)]
           Step(f) == [pos \in 1 .. N + 1 |->
                         IF pos > N THEN <<>>
                         ELSE LET char == Utf8ToCodepoint(input, pos)
                              IN IF char.len = 0
                                 THEN <<QuestionMark>> \o f[pos + 1]
                                 ELSE <<FromUnicode(char.cp)>> \o f[pos + char.len]]
           f0 == CHOOSE f : f = Step(f)
<1>1. N \in Nat
  BY LenProperties
<1>2. ASSUME NEW f, NEW pos \in 1 .. N + 1
      PROVE  Step(f)[pos] = IF pos > N THEN <<>>
                            ELSE <<EncodedAt(input, pos)>> \o f[GoesOnAt(input, pos)]
  BY DEF EncodedAt, GoesOnAt
<1>3. \E f : f = Step(f)
  <2>1. next \in [1 .. N -> Nat] /\ \A pos \in 1 .. N : next[pos] \in pos + 1 .. N + 1
    <3>1. ASSUME NEW pos \in 1 .. N PROVE GoesOnAt(input, pos) \in pos + 1 .. N + 1
      BY GoesOnInside
    <3>2. \A pos \in 1 .. N : \A i \in pos + 1 .. N + 1 : i \in Nat
      BY <1>1
    <3> HIDE DEF N
    <3> QED
      BY <3>1, <3>2
  <2>2. PICK f : Written(f, 1, N, head, next)
    <3> HIDE DEF N, head, next
    <3> QED
      BY <1>1, <2>1, WrittenExists
  <2>3. f = [pos \in 1 .. N + 1 |-> IF pos > N THEN <<>> ELSE <<head[pos]>> \o f[next[pos]]]
    BY <2>2 DEF Written
  <2>4. ASSUME NEW pos \in 1 .. N + 1
        PROVE  Step(f)[pos] = IF pos > N THEN <<>> ELSE <<head[pos]>> \o f[next[pos]]
    <3>1. ~ (pos > N) => pos \in 1 .. N
      BY <1>1
    <3>2. pos \in 1 .. N => head[pos] = EncodedAt(input, pos) /\ next[pos] = GoesOnAt(input, pos)
      OBVIOUS
    <3> HIDE DEF Step, head, next
    <3> QED
      BY <1>2, <3>1, <3>2
  <2>5. Step(f) = [pos \in 1 .. N + 1 |-> Step(f)[pos]]
    OBVIOUS
  <2> HIDE DEF Step, head, next
  <2>6. Step(f) = [pos \in 1 .. N + 1 |-> IF pos > N THEN <<>> ELSE <<head[pos]>> \o f[next[pos]]]
    BY <2>4, <2>5
  <2> QED
    BY <2>3, <2>6
<1>4. EncodeString(input) = f0[1]
  BY DEF EncodeString
<1>5. f0 = Step(f0)
  <2> HIDE DEF Step
  <2> QED
    BY <1>3
<1> HIDE DEF f0, Step
<1>6. \A pos \in 1 .. N + 1 :
        f0[pos] = IF pos > N THEN <<>>
                  ELSE <<EncodedAt(input, pos)>> \o f0[GoesOnAt(input, pos)]
  BY <1>2, <1>5
<1>7. N + 1 \in 1 .. N + 1 /\ N + 1 > N /\ \A pos \in 1 .. N : pos \in 1 .. N + 1 /\ ~ (pos > N)
  BY <1>1
<1>8. f0[N + 1] = <<>> /\ \A pos \in 1 .. N :
        f0[pos] = <<EncodedAt(input, pos)>> \o f0[GoesOnAt(input, pos)]
  BY <1>6, <1>7
<1> QED
  BY <1>4, <1>8

(* Where decode has put the character of a byte, encode writes what comes  *)
(* back of that byte and goes on behind the character.                     *)
LEMMA CharComesBack ==
  ASSUME NEW input \in Seq(Byte), NEW c \in Byte, NEW at \in Nat,
         at + Len(AppendUtf8(ToUnicode(c))) <= Len(input),
         \A k \in 1 .. Len(AppendUtf8(ToUnicode(c))) :
           input[at + k] = AppendUtf8(ToUnicode(c))[k]
  PROVE  /\ EncodedAt(input, at + 1) = ComesBackAs(c)
         /\ GoesOnAt(input, at + 1) = at + Len(AppendUtf8(ToUnicode(c))) + 1
         /\ at + 1 \in 1 .. Len(input)
<1> DEFINE cp == ToUnicode(c)
           L  == Len(AppendUtf8(cp))
<1>1. cp \in Nat /\ cp <= 65535 /\ FromUnicode(cp) = ComesBackAs(c)
  BY ByteComesBack
<1> HIDE DEF cp
<1>2. L \in 1 .. 3
  BY <1>1, CharBytes
<1>3. Utf8ToCodepoint(input, at + 1) = [len |-> L, cp |-> cp]
  BY <1>1, CharIsRead DEF cp
<1>4. at + L <= Len(input)
  BY DEF cp
<1> HIDE DEF L
<1>5. /\ Utf8ToCodepoint(input, at + 1).len = L /\ Utf8ToCodepoint(input, at + 1).cp = cp
      /\ ~ (L = 0) /\ (at + 1) + L = at + L + 1
  BY <1>2, <1>3
<1>6. EncodedAt(input, at + 1) = ComesBackAs(c)
  BY <1>1, <1>5 DEF EncodedAt
<1>7. GoesOnAt(input, at + 1) = at + L + 1
  BY <1>5 DEF GoesOnAt
<1>8. at + 1 \in 1 .. Len(input)
  <2>1. Len(input) \in Nat
    BY LenProperties
  <2> QED
    BY <1>2, <1>4, <2>1
<1> QED
  BY <1>6, <1>7, <1>8 DEF L, cp

(* What comes back of a text is a text of the same length. *)
LEMMA ShownIs ==
  ASSUME NEW text \in Seq(Byte)
  PROVE  /\ Shown(text) \in Seq(Byte) /\ Len(Shown(text)) = Len(text)
         /\ \A i \in 1 .. Len(text) : Shown(text)[i] = ComesBackAs(text[i])
<1>1. Len(text) \in Nat /\ DOMAIN text = 1 .. Len(text) /\ \A i \in 1 .. Len(text) : text[i] \in Byte
  BY LenProperties, ElementOfSeq
<1>2. ASSUME NEW c \in Byte PROVE ComesBackAs(c) \in Byte
  <2>1. 129 \in Byte /\ QuestionMark \in Byte
    BY DEF Byte, QuestionMark
  <2> QED
    BY <2>1, Zenon DEF ComesBackAs
<1>3. Shown(text) = [i \in 1 .. Len(text) |-> ComesBackAs(text[i])]
  BY <1>1 DEF Shown
<1>4. Shown(text) \in [1 .. Len(text) -> Byte]
  BY <1>1, <1>2, <1>3
<1>5. Shown(text) \in Seq(Byte) /\ Len(Shown(text)) = Len(text)
  BY <1>1, <1>4, IsASeq, LenProperties
<1> QED
  BY <1>3, <1>5

(* The characters of a text. *)
Chars(text) == [i \in 1 .. Len(text) |-> AppendUtf8(ToUnicode(text[i]))]

(* What decode makes of a text: its characters, one behind the other. *)
LEMMA DecodedIs ==
  ASSUME NEW text \in Seq(Byte)
  PROVE  /\ Len(text) \in Nat /\ Chars(text) \in [1 .. Len(text) -> Seq(Byte)]
         /\ \A i \in 1 .. Len(text) :
              /\ Chars(text)[i] = AppendUtf8(ToUnicode(text[i]))
              /\ Len(Chars(text)[i]) \in 1 .. 3
         /\ DecodeString(text) = FlattenSeq(Chars(text))
         /\ DecodeString(text) \in Seq(Byte)
         /\ \E g : Sums(g, Len(text), Chars(text))
         /\ \A g : Sums(g, Len(text), Chars(text)) =>
              /\ Len(DecodeString(text)) = g[Len(text)]
              /\ InPlace(DecodeString(text), g, Len(text), Chars(text))
<1> DEFINE N == Len(text)
           parts == Chars(text)
           all == DecodeString(text)
<1>1. N \in Nat /\ DOMAIN text = 1 .. N /\ \A i \in 1 .. N : text[i] \in Byte
  BY LenProperties, ElementOfSeq
<1>2. ASSUME NEW i \in 1 .. N
      PROVE  /\ parts[i] = AppendUtf8(ToUnicode(text[i]))
             /\ parts[i] \in Seq(Byte) /\ Len(parts[i]) \in 1 .. 3
  <2>1. ToUnicode(text[i]) \in Nat /\ ToUnicode(text[i]) <= 65535
    BY <1>1, ByteComesBack
  <2>2. parts[i] = AppendUtf8(ToUnicode(text[i]))
    BY DEF Chars
  <2> QED
    BY <2>1, <2>2, CharBytes
<1>3. parts = [i \in 1 .. N |-> parts[i]]
  BY DEF Chars
<1>4. all = FlattenSeq(parts)
  BY <1>1 DEF DecodeString, Chars
<1> HIDE DEF parts, all, N
<1>5. parts \in [1 .. N -> Seq(Byte)]
  BY <1>2, <1>3
<1>6. \E g : Sums(g, N, parts)
  <2> DEFINE len == [i \in 1 .. N |-> Len(parts[i])]
  <2>1. len \in [1 .. N -> Nat] /\ \A i \in 1 .. N : len[i] = Len(parts[i])
    BY <1>2
  <2> HIDE DEF len
  <2>2. PICK g \in [0 .. N -> Nat] : g[0] = 0 /\ \A n \in 1 .. N : g[n] = g[n - 1] + len[n]
    BY <1>1, <2>1, SumsExist
  <2> QED
    BY <2>1, <2>2 DEF Sums
<1>7. ASSUME NEW g, Sums(g, N, parts)
      PROVE  all \in Seq(Byte) /\ Len(all) = g[N] /\ InPlace(all, g, N, parts)
  BY <1>1, <1>4, <1>5, <1>7, FlattenIs
<1> QED
  BY <1>1, <1>2, <1>4, <1>5, <1>6, <1>7 DEF N, parts, all

(* A text comes back from encode as it went into decode, but for the       *)
(* characters that encode does not know: what the server makes of a name   *)
(* or a chat line, and sends on, is the name or the line it received, with *)
(* the replacement in exactly those places, in either code page.           *)
THEOREM TextComesBack ==
  ASSUME NEW text \in Seq(Byte)
  PROVE  EncodeString(DecodeString(text)) = Shown(text)
<1> DEFINE N == Len(text)
           back == Shown(text)
           char(i) == AppendUtf8(ToUnicode(text[i]))
           parts == Chars(text)
           all == DecodeString(text)
<1>0. /\ back \in Seq(Byte) /\ Len(back) = N
      /\ \A i \in 1 .. N : text[i] \in Byte /\ back[i] = ComesBackAs(text[i])
  BY ShownIs, ElementOfSeq
<1> HIDE DEF back
<1>1. N \in Nat
  BY LenProperties
<1>3. \A i \in 1 .. N : parts[i] = char(i) /\ Len(char(i)) \in 1 .. 3
  BY DecodedIs
<1>5. PICK g : Sums(g, N, parts)
  BY DecodedIs
<1>6. all \in Seq(Byte) /\ Len(all) = g[N] /\ InPlace(all, g, N, parts)
  BY <1>5, DecodedIs
<1>7. PICK f : /\ EncodeString(all) = f[1]
               /\ f[Len(all) + 1] = <<>>
               /\ \A pos \in 1 .. Len(all) :
                    f[pos] = <<EncodedAt(all, pos)>> \o f[GoesOnAt(all, pos)]
  <2> HIDE DEF all
  <2> QED
    BY <1>6, EncodeIsWritten
<1>8. ASSUME NEW n \in 1 .. N
      PROVE  f[g[n - 1] + 1] = <<back[n]>> \o f[g[n] + 1]
  <2> DEFINE at == g[n - 1]
             c  == text[n]
  <2>1. at \in Nat /\ g[n] = at + Len(char(n)) /\ g[n] \in Nat /\ Len(char(n)) \in 1 .. 3
    BY <1>1, <1>3, <1>5 DEF Sums
  <2>2. \A k \in 1 .. Len(char(n)) : at + k \in 1 .. Len(all) /\ all[at + k] = char(n)[k]
    BY <1>3, <1>6 DEF InPlace
  <2>3. at + Len(char(n)) <= Len(all)
    <3> DEFINE last == Len(char(n))
    <3>1. last \in 1 .. last
      <4>1. last \in 1 .. 3
        BY <2>1
      <4> HIDE DEF last
      <4> QED
        BY <4>1
    <3>2. at + last \in 1 .. Len(all)
      BY <2>2, <3>1
    <3>3. Len(all) \in Nat
      BY <1>6, LenProperties
    <3> HIDE DEF all, at, last
    <3>4. at + last <= Len(all)
      BY <3>2, <3>3
    <3> QED
      BY <3>4 DEF last
  <2>4. c \in Byte /\ ComesBackAs(c) = back[n]
    BY <1>0
  <2> HIDE DEF at, all, c, parts
  <2>5. /\ EncodedAt(all, at + 1) = ComesBackAs(c)
        /\ GoesOnAt(all, at + 1) = at + Len(char(n)) + 1
        /\ at + 1 \in 1 .. Len(all)
    BY <1>6, <2>1, <2>2, <2>3, <2>4, CharComesBack DEF c
  <2>6. f[at + 1] = <<back[n]>> \o f[g[n] + 1]
    BY <1>7, <2>1, <2>4, <2>5
  <2> QED
    BY <2>6 DEF at
<1> DEFINE Back(m) == f[g[N - m] + 1]
           Good == {m \in 0 .. N : /\ Back(m) \in Seq(Byte) /\ Len(Back(m)) = m
                                   /\ \A k \in 1 .. m : Back(m)[k] = back[N - m + k]}
<1>9. 0 \in Good
  <2>1. N - 0 = N /\ 0 \in 0 .. N /\ \A k \in 1 .. 0 : FALSE
    BY <1>1
  <2>2. Back(0) = <<>>
    BY <1>6, <1>7, <2>1
  <2>3. <<>> \in Seq(Byte) /\ Len(<<>>) = 0
    OBVIOUS
  <2> HIDE DEF Back
  <2> QED
    BY <2>1, <2>2, <2>3
<1>10. ASSUME NEW m \in 1 .. N, m - 1 \in Good PROVE m \in Good
  <2> DEFINE n == N - m + 1
             rest == Back(m - 1)
  <2>1. /\ n \in 1 .. N /\ n - 1 = N - m /\ n = N - (m - 1) /\ m \in 0 .. N /\ m \in Nat
        /\ \A k \in 1 .. m : k = 1 \/ k - 1 \in 1 .. m - 1
        /\ \A k \in 1 .. m : N - (m - 1) + (k - 1) = N - m + k
        /\ N - m + 1 = n
    BY <1>1
  <2>2. /\ rest \in Seq(Byte) /\ Len(rest) = m - 1
        /\ \A k \in 1 .. m - 1 : rest[k] = back[N - (m - 1) + k]
    BY <1>10
  <2> HIDE DEF n
  <2>3. Back(m) = <<back[n]>> \o rest
    BY <1>8, <2>1
  <2>4. back[n] \in Byte
    BY <1>0, <2>1, ElementOfSeq
  <2> HIDE DEF rest, Back
  <2>5. <<back[n]>> \in Seq(Byte) /\ Len(<<back[n]>>) = 1 /\ <<back[n]>>[1] = back[n]
    BY <2>4
  <2> DEFINE first == <<back[n]>>
  <2> HIDE DEF first
  <2>6. /\ first \o rest \in Seq(Byte) /\ Len(first \o rest) = Len(first) + Len(rest)
        /\ \A i \in 1 .. Len(first) + Len(rest) :
             (first \o rest)[i] = IF i <= Len(first) THEN first[i] ELSE rest[i - Len(first)]
    <3>1. first \in Seq(Byte)
      BY <2>5 DEF first
    <3> QED
      BY <2>2, <3>1, ConcatProperties
  <2>7. Len(first) = 1 /\ first[1] = back[n] /\ Back(m) = first \o rest
    BY <2>3, <2>5 DEF first
  <2>8. 1 + (m - 1) = m /\ \A k \in 1 .. m : k <= 1 => k = 1
    BY <2>1
  <2>9. Len(Back(m)) = m /\ Back(m) \in Seq(Byte)
    BY <2>2, <2>6, <2>7, <2>8
  <2>10. ASSUME NEW k \in 1 .. m PROVE Back(m)[k] = back[N - m + k]
    <3>1. Back(m)[k] = IF k <= 1 THEN first[k] ELSE rest[k - 1]
      BY <2>2, <2>6, <2>7, <2>8
    <3>2. CASE k = 1
      BY <2>1, <2>7, <3>1, <3>2
    <3>3. CASE k # 1
      <4>1. k - 1 \in 1 .. m - 1 /\ ~ (k <= 1)
        BY <2>1, <3>3
      <4>2. rest[k - 1] = back[N - (m - 1) + (k - 1)]
        BY <2>2, <4>1
      <4> QED
        BY <2>1, <3>1, <4>1, <4>2
    <3> QED
      BY <3>2, <3>3
  <2> QED
    BY <2>1, <2>9, <2>10
<1>11. N \in Good
  <2>1. N \in 0 .. N
    BY <1>1
  <2> HIDE DEF Good
  <2> QED
    BY <1>1, <1>9, <1>10, <2>1, CountUp
<1>12. N - N = 0 /\ g[0] + 1 = 1 /\ \A k \in 1 .. N : N - N + k = k
  BY <1>1, <1>5 DEF Sums
<1>13. /\ f[1] \in Seq(Byte) /\ Len(f[1]) = N /\ \A k \in 1 .. N : f[1][k] = back[k]
  BY <1>11, <1>12
<1>14. f[1] = back
  BY <1>0, <1>13, SeqEqual
<1> QED
  BY <1>7, <1>14 DEF back


-----------------------------------------------------------------------------
(* What becomes of a text's length and of its front. *)

(* Only zero has a zero among its bytes. *)
LEMMA ZeroChar ==
  ASSUME NEW cp \in Nat, cp <= 65535
  PROVE  /\ cp = 0 => AppendUtf8(cp) = <<0>>
         /\ cp # 0 => \A k \in 1 .. Len(AppendUtf8(cp)) : AppendUtf8(cp)[k] # 0
<1>1. CASE cp <= 127
  <2>1. AppendUtf8(cp) = <<cp>>
    BY <1>1 DEF AppendUtf8
  <2>2. \A k \in 1 .. Len(<<cp>>) : <<cp>>[k] = cp
    OBVIOUS
  <2> QED
    BY <2>1, <2>2
<1>2. CASE cp > 127 /\ cp <= 2047
  <2> DEFINE a == 192 + (cp \div 64)
             b == 128 + (cp % 64)
  <2>1. AppendUtf8(cp) = <<a, b>>
    BY <1>2 DEF AppendUtf8
  <2>2. a # 0 /\ b # 0 /\ cp # 0
    BY <1>2
  <2> HIDE DEF a, b
  <2>3. \A k \in 1 .. Len(<<a, b>>) : <<a, b>>[k] # 0
    BY <2>2
  <2> QED
    BY <2>1, <2>2, <2>3
<1>3. CASE cp > 2047
  <2> DEFINE a == 224 + (cp \div 4096)
             b == 128 + ((cp \div 64) % 64)
             c == 128 + (cp % 64)
  <2>1. AppendUtf8(cp) = <<a, b, c>>
    BY <1>3 DEF AppendUtf8
  <2>2. a # 0 /\ b # 0 /\ c # 0 /\ cp # 0
    <3>1. cp \div 64 \in Nat
      BY <1>3
    <3>2. (cp \div 64) % 64 \in Nat
      BY <3>1
    <3> QED
      BY <1>3, <3>2
  <2> HIDE DEF a, b, c
  <2>3. \A k \in 1 .. Len(<<a, b, c>>) : <<a, b, c>>[k] # 0
    BY <2>2
  <2> QED
    BY <2>1, <2>2, <2>3
<1> QED
  BY <1>1, <1>2, <1>3

(* What replaces an unknown character needs no more bytes. *)
LEMMA ReplacedNoLonger ==
  ASSUME NEW c \in Byte
  PROVE  Len(AppendUtf8(ToUnicode(ComesBackAs(c)))) <= Len(AppendUtf8(ToUnicode(c)))
<1>0. Len(AppendUtf8(ToUnicode(c))) \in 1 .. 3
  <2>1. ToUnicode(c) \in Nat /\ ToUnicode(c) <= 65535
    BY ByteComesBack
  <2> QED
    BY <2>1, CharBytes
<1>1. CASE c \in Supported
  <2>1. ComesBackAs(c) = c
    BY <1>1 DEF ComesBackAs
  <2> QED
    BY <1>0, <2>1
<1>2. CASE c \notin Supported /\ UseWindows1252Encoding
  <2>1. ComesBackAs(c) = 129
    BY <1>2, Zenon DEF ComesBackAs
  <2>2. c \in {141, 143, 144, 157}
    BY <1>2, Zenon DEF Supported
  <2>3. Table1252[129 - 127] = 65533 /\ Table1252[c - 127] = 65533
    BY <2>2, Entries1252
  <2>4. Cp1252ToUnicode(129) = 65533 /\ Cp1252ToUnicode(c) = 65533
    BY <2>2, <2>3 DEF Cp1252ToUnicode
  <2>5. ToUnicode(129) = ToUnicode(c)
    <3>1. \A b : ToUnicode(b) = Cp1252ToUnicode(b)
      BY <1>2, Zenon DEF ToUnicode
    <3> QED
      BY <2>4, <3>1, SMT
  <2> QED
    BY <1>0, <2>1, <2>5
<1>3. CASE c \notin Supported /\ ~ UseWindows1252Encoding
  <2>1. ComesBackAs(c) = QuestionMark
    BY <1>3, Zenon DEF ComesBackAs
  <2>2. ToUnicode(QuestionMark) = Windows1251ToUnicode(QuestionMark)
    BY <1>3, Zenon DEF ToUnicode
  <2>3. Windows1251ToUnicode(QuestionMark) = 63
    BY DEF Windows1251ToUnicode, QuestionMark
  <2>4. AppendUtf8(63) = <<63>>
    BY DEF AppendUtf8
  <2>5. Len(AppendUtf8(ToUnicode(ComesBackAs(c)))) = 1
    <3>1. AppendUtf8(ToUnicode(ComesBackAs(c))) = <<63>>
      BY <2>1, <2>2, <2>3, <2>4
    <3>2. Len(<<63>>) = 1
      OBVIOUS
    <3> QED
      BY <3>1, <3>2, Zenon
  <2> DEFINE L == Len(AppendUtf8(ToUnicode(c)))
  <2>6. L \in 1 .. 3
    BY <1>0
  <2> HIDE DEF L
  <2>7. 1 <= L
    BY <2>6
  <2> QED
    BY <2>5, <2>7 DEF L
<1> QED
  BY <1>1, <1>2, <1>3

(* So what comes back of a text is no longer as UTF-8. *)
LEMMA ShownNoLonger ==
  ASSUME NEW text \in Seq(Byte)
  PROVE  Len(DecodeString(Shown(text))) <= Len(DecodeString(text))
<1> DEFINE back == Shown(text)
           N == Len(text)
<1>1. /\ back \in Seq(Byte) /\ Len(back) = N
      /\ \A i \in 1 .. N : text[i] \in Byte /\ back[i] = ComesBackAs(text[i])
  BY ShownIs, ElementOfSeq
<1> HIDE DEF back
<1>2. /\ N \in Nat
      /\ \A i \in 1 .. N : /\ Chars(text)[i] = AppendUtf8(ToUnicode(text[i]))
                           /\ Len(Chars(text)[i]) \in 1 .. 3
  BY DecodedIs
<1>3. \A i \in 1 .. N : /\ Chars(back)[i] = AppendUtf8(ToUnicode(back[i]))
                        /\ Len(Chars(back)[i]) \in 1 .. 3
  BY <1>1, DecodedIs
<1>4. PICK f : Sums(f, N, Chars(text))
  BY DecodedIs
<1>5. PICK g : Sums(g, N, Chars(back))
  <2>1. \E g : Sums(g, Len(back), Chars(back))
    BY <1>1, DecodedIs
  <2> QED
    BY <1>1, <2>1
<1>6. Len(DecodeString(text)) = f[N]
  BY <1>4, DecodedIs
<1>7. Len(DecodeString(back)) = g[N]
  <2>1. Sums(g, Len(back), Chars(back))
    BY <1>1, <1>5
  <2>2. Len(DecodeString(back)) = g[Len(back)]
    BY <1>1, <2>1, DecodedIs
  <2> QED
    BY <1>1, <2>2
<1>8. \A n \in 1 .. N : /\ Len(Chars(back)[n]) \in Nat /\ Len(Chars(text)[n]) \in Nat
                        /\ Len(Chars(back)[n]) <= Len(Chars(text)[n])
  <2> SUFFICES ASSUME NEW n \in 1 .. N
               PROVE  /\ Len(Chars(back)[n]) \in Nat /\ Len(Chars(text)[n]) \in Nat
                      /\ Len(Chars(back)[n]) <= Len(Chars(text)[n])
    OBVIOUS
  <2>1. Len(Chars(back)[n]) \in 1 .. 3 /\ Len(Chars(text)[n]) \in 1 .. 3
    BY <1>2, <1>3
  <2>2. Len(Chars(back)[n]) <= Len(Chars(text)[n])
    BY <1>1, <1>2, <1>3, ReplacedNoLonger
  <2> QED
    BY <2>1, <2>2
<1>9. g[N] <= f[N]
  BY <1>2, <1>4, <1>5, <1>8, SumsGrow
<1> QED
  BY <1>6, <1>7, <1>9 DEF back

(* The front of a text. *)
LEMMA FrontIs ==
  ASSUME NEW S, NEW text \in Seq(S), NEW M \in 0 .. Len(text)
  PROVE  /\ SubSeq(text, 1, M) \in Seq(S) /\ Len(SubSeq(text, 1, M)) = M
         /\ \A i \in 1 .. M : i \in 1 .. Len(text) /\ SubSeq(text, 1, M)[i] = text[i]
<1> DEFINE one == 1
           part == SubSeq(text, one, M)
<1>1. Len(text) \in Nat
  BY LenProperties
<1>2. /\ M \in Nat /\ \A i \in 1 .. M : i \in 1 .. Len(text)
      /\ one \in Int /\ M \in Int /\ M - one + 1 = M /\ (M = 0 \/ one <= M)
      /\ \A i \in 1 .. M : one + i - 1 = i
  BY <1>1
<1>3. \A i \in one .. M : text[i] \in S
  BY <1>2, ElementOfSeq
<1> HIDE DEF one
<1>4. /\ part \in Seq(S) /\ Len(part) = IF one <= M THEN M - one + 1 ELSE 0
      /\ \A i \in 1 .. M - one + 1 : part[i] = text[one + i - 1]
  BY <1>2, <1>3, SubSeqProperties
<1> HIDE DEF part
<1>5. part \in Seq(S) /\ Len(part) = M /\ \A i \in 1 .. M : part[i] = text[i]
  BY <1>2, <1>4 DEF one
<1> QED
  BY <1>2, <1>5 DEF part, one

(* The front of a text is decoded to the front of what the text is. *)
LEMMA FrontIsDecoded ==
  ASSUME NEW text \in Seq(Byte), NEW M \in 0 .. Len(text),
         NEW g, Sums(g, Len(text), Chars(text))
  PROVE  /\ DecodeString(SubSeq(text, 1, M)) \in Seq(Byte)
         /\ IsFront(DecodeString(SubSeq(text, 1, M)), DecodeString(text), g[M])
<1> DEFINE front == SubSeq(text, 1, M)
           N == Len(text)
           parts == Chars(text)
<1>1. /\ front \in Seq(Byte) /\ Len(front) = M
      /\ \A i \in 1 .. M : i \in 1 .. N /\ front[i] = text[i]
  BY FrontIs
<1> HIDE DEF front
<1>2. /\ N \in Nat /\ parts \in [1 .. N -> Seq(Byte)]
      /\ \A i \in 1 .. N : parts[i] = AppendUtf8(ToUnicode(text[i]))
      /\ DecodeString(text) = FlattenSeq(parts) /\ Len(DecodeString(text)) = g[N]
  BY DecodedIs
<1>3. Chars(front) = [i \in 1 .. M |-> parts[i]]
  <2>1. Chars(front) = [i \in 1 .. M |-> AppendUtf8(ToUnicode(front[i]))]
    BY <1>1 DEF Chars
  <2>2. \A i \in 1 .. M : AppendUtf8(ToUnicode(front[i])) = parts[i]
    BY <1>1, <1>2
  <2> HIDE DEF parts
  <2> QED
    BY <2>1, <2>2
<1>4. DecodeString(front) = FlattenSeq(Chars(front))
  BY <1>1, DecodedIs
<1> DEFINE S == Byte
<1>5. parts \in [1 .. N -> Seq(S)] /\ Sums(g, N, parts) /\ M \in 0 .. N
  BY <1>2
<1> HIDE DEF S, N, parts
<1>6. /\ FlattenSeq(FirstParts(parts, M)) \in Seq(S)
      /\ IsFront(FlattenSeq(FirstParts(parts, M)), FlattenSeq(parts), g[M])
  BY <1>2, <1>5, FrontOfFlatten
<1>7. FirstParts(parts, M) = Chars(front)
  BY <1>3 DEF FirstParts
<1> QED
  BY <1>2, <1>4, <1>6, <1>7 DEF S, front

=============================================================================
