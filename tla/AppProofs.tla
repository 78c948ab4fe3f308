------------------------------ MODULE AppProofs ------------------------------
(***************************************************************************)
(* The web application for any projects, groups, plots, sensors and sets.   *)
(***************************************************************************)
EXTENDS App, SequenceTheorems, FiniteSetTheorems, WellFoundedInduction, TLAPS

-----------------------------------------------------------------------------
(* Lists                                                                   *)

\* A set of naturals has a least element.
LEMMA LeastNatural ==
  ASSUME NEW T, T \subseteq Nat, T # {}
  PROVE  \E x \in T : \A y \in T : x <= y
<1>. DEFINE R == OpToRel(<, Nat)
<1>1. PICK x \in T : \A y \in T : ~(<<y, x>> \in R)
  <2>. HIDE DEF R
  <2>1. IsWellFoundedOn(R, Nat)
    BY NatLessThanWellFounded DEF R
  <2>. QED
    BY <2>1, WFMin
<1>2. ASSUME NEW y \in T
      PROVE  x <= y
  <2>1. <<y, x>> \in Nat \X Nat
    BY <1>2
  <2>2. ~(y < x)
    BY <1>1, <1>2, <2>1 DEF OpToRel
  <2>. QED
    BY <2>2, <1>2
<1>. QED
  BY <1>2

\* The first of some positions that are bad: the one before is not.
LEMMA FirstBad ==
  ASSUME NEW N \in Nat, NEW Bad, Bad \subseteq 0..N, Bad # {}
  PROVE  \E n \in Bad : n # 0 => n - 1 \in 0..N /\ n - 1 \notin Bad
<1>1. Bad \subseteq Nat
  OBVIOUS
<1>2. PICK n \in Bad : \A m \in Bad : n <= m
  BY <1>1, LeastNatural
<1>. QED
  BY <1>2

LEMMA FlightList ==
  ASSUME NEW S, NEW s \in Seq(S)
  PROVE  s \in Seq({s[i] : i \in 1..Len(s)})
<1>1. Range(s) = {s[i] : i \in 1..Len(s)} /\ s \in Seq(Range(s))
  BY RangeEquality, SeqOfRange
<1>. QED
  BY <1>1


\* A function on 1..n is a list.
LEMMA FunctionIsList ==
  ASSUME NEW n \in Nat, NEW S, NEW f, DOMAIN f = 1..n, f = [k \in 1..n |-> f[k]],
         \A k \in 1..n : f[k] \in S
  PROVE  f \in Seq(S)
<1>1. f \in [1..n -> S]
  OBVIOUS
<1>. QED
  BY <1>1, SeqDef

LEMMA ListItems ==
  ASSUME NEW S, NEW s \in Seq(S)
  PROVE  /\ Len(s) \in Nat /\ DOMAIN s = 1..Len(s)
         /\ ToSet(s) \subseteq S
         /\ \A i \in 1..Len(s) : s[i] \in ToSet(s)
         /\ s # <<>> => Len(s) > 0 /\ Head(s) = s[1] /\ Head(s) \in ToSet(s)
<1>1. Len(s) \in Nat /\ DOMAIN s = 1..Len(s) /\ \A i \in 1..Len(s) : s[i] \in S
  BY LenProperties, ElementOfSeq
<1>2. s # <<>> => Len(s) \in Nat \ {0}
  BY EmptySeq
<1>3. Head(s) = s[1]
  OBVIOUS
<1>. QED
  BY <1>1, <1>2, <1>3 DEF ToSet

\* An item leaves: those behind it move up.
LEMMA RemoveItem ==
  ASSUME NEW S, NEW s \in Seq(S), NEW i \in 1..Len(s)
  PROVE  LET new == RemoveAt(s, i)
         IN  /\ new \in Seq(S) /\ Len(new) = Len(s) - 1
             /\ \A k \in 1..(Len(s) - 1) : new[k] = IF k < i THEN s[k] ELSE s[k + 1]
<1>. DEFINE front == SubSeq(s, 1, i - 1)
            back == SubSeq(s, i + 1, Len(s))
            new == RemoveAt(s, i)
<1>1. s \in Seq(S) /\ Len(s) \in Nat /\ i \in 1..Len(s)
  BY LenProperties
<1>2. \A k \in 1..Len(s) : s[k] \in S
  BY ElementOfSeq
<1>3. /\ front \in Seq(S) /\ Len(front) = i - 1
      /\ \A k \in 1..(i - 1) : front[k] = s[k]
  <2>1. \A k \in 1..(i - 1) : s[k] \in S
    BY <1>1, <1>2
  <2>2. /\ front \in Seq(S)
        /\ Len(front) = (IF 1 <= i - 1 THEN i - 1 - 1 + 1 ELSE 0)
        /\ \A k \in 1..(i - 1 - 1 + 1) : front[k] = s[1 + k - 1]
    BY <1>1, <2>1, SubSeqProperties
  <2>. HIDE DEF front
  <2>. QED
    BY <1>1, <2>2
<1>4. /\ back \in Seq(S) /\ Len(back) = Len(s) - i
      /\ \A k \in 1..(Len(s) - i) : back[k] = s[i + k]
  <2>1. \A k \in (i + 1)..Len(s) : s[k] \in S
    BY <1>1, <1>2
  <2>2. /\ back \in Seq(S)
        /\ Len(back) = (IF i + 1 <= Len(s) THEN Len(s) - (i + 1) + 1 ELSE 0)
        /\ \A k \in 1..(Len(s) - (i + 1) + 1) : back[k] = s[(i + 1) + k - 1]
    BY <1>1, <2>1, SubSeqProperties
  <2>. HIDE DEF back
  <2>3. Len(back) = Len(s) - i
    <3>1. CASE i + 1 <= Len(s)
      BY <1>1, <2>2, <3>1
    <3>2. CASE i = Len(s)
      BY <1>1, <2>2, <3>2
    <3>. QED
      BY <1>1, <3>1, <3>2
  <2>4. ASSUME NEW k \in 1..(Len(s) - i)
        PROVE  back[k] = s[i + k]
    <3>1. (i + 1) + k - 1 = i + k /\ k \in 1..(Len(s) - (i + 1) + 1)
      BY <1>1
    <3>2. back[k] = s[(i + 1) + k - 1]
      BY <2>2, <3>1
    <3>. QED
      BY <3>1, <3>2
  <2>. QED
    BY <2>2, <2>3, <2>4
<1>. HIDE DEF front, back
<1>5. new = front \o back
  BY DEF RemoveAt, front, back
<1>6. /\ new \in Seq(S) /\ Len(new) = Len(s) - 1
      /\ \A k \in 1..(Len(s) - 1) : new[k] = IF k < i THEN s[k] ELSE s[k + 1]
  <2>1. /\ front \o back \in Seq(S)
        /\ Len(front \o back) = Len(front) + Len(back)
        /\ \A k \in 1..(Len(front) + Len(back)) :
             (front \o back)[k] = IF k <= Len(front) THEN front[k] ELSE back[k - Len(front)]
    BY <1>3, <1>4, ConcatProperties
  <2>. HIDE DEF new
  <2>2. ASSUME NEW k \in 1..(Len(s) - 1)
        PROVE  new[k] = IF k < i THEN s[k] ELSE s[k + 1]
    <3>1. CASE k < i
      BY <1>1, <1>3, <1>4, <1>5, <2>1, <3>1
    <3>2. CASE ~(k < i)
      <4>1. k - (i - 1) \in 1..(Len(s) - i) /\ i + (k - (i - 1)) = k + 1
        BY <1>1, <3>2
      <4>2. k \in 1..(Len(front) + Len(back)) /\ ~(k <= Len(front)) /\ Len(front) = i - 1
        BY <1>1, <1>3, <1>4, <3>2
      <4>3. new[k] = back[k - (i - 1)]
        BY <1>5, <2>1, <4>2
      <4>. QED
        BY <1>4, <3>2, <4>1, <4>3
    <3>. QED
      BY <3>1, <3>2
  <2>. QED
    BY <1>1, <1>3, <1>4, <1>5, <2>1, <2>2
<1>. QED
  BY <1>6 DEF new

\* The list new has the items of s at some of the first n positions, in order.
PicksFrom(s, at, n, new, place) ==
  /\ Len(new) \in Nat
  /\ place \in [1..Len(new) -> at \cap 1..n]
  /\ \A k \in 1..Len(new) : new[k] = s[place[k]]
  /\ \A k, l \in 1..Len(new) : k < l => place[k] < place[l]
  /\ \A i \in at \cap 1..n : \E k \in 1..Len(new) : place[k] = i
  /\ 1..n \subseteq at => Len(new) = n /\ \A k \in 1..n : place[k] = k
Picks(s, at, n, new) == \E place : PicksFrom(s, at, n, new, place)

\* One position more.
LEMMA PickNext ==
  ASSUME NEW S, NEW s \in Seq(S), NEW at, NEW n \in Nat, n + 1 \in 1..Len(s),
         NEW old \in Seq(S), Picks(s, at, n, old),
         NEW new, new = IF n + 1 \in at THEN Append(old, s[n + 1]) ELSE old
  PROVE  new \in Seq(S) /\ Picks(s, at, n + 1, new)
<1>1. Len(s) \in Nat /\ Len(old) \in Nat /\ s[n + 1] \in S
  BY ElementOfSeq
<1>2. PICK place : PicksFrom(s, at, n, old, place)
  BY DEF Picks
<1>3. CASE n + 1 \notin at
  <2>1. new = old /\ at \cap 1..(n + 1) = at \cap 1..n /\ ~(1..(n + 1) \subseteq at)
    BY <1>3
  <2>2. PicksFrom(s, at, n + 1, new, place)
    BY <1>2, <2>1 DEF PicksFrom
  <2>. QED
    BY <2>1, <2>2 DEF Picks
<1>4. CASE n + 1 \in at
  <2>. DEFINE m == Len(old)
              more == [k \in 1..(m + 1) |-> IF k = m + 1 THEN n + 1 ELSE place[k]]
  <2>1. /\ new \in Seq(S) /\ Len(new) = m + 1
        /\ \A k \in 1..m : new[k] = old[k]
        /\ new[m + 1] = s[n + 1]
    <3>1. new = Append(old, s[n + 1])
      BY <1>4
    <3>. QED
      BY <1>1, <3>1, AppendProperties
  <2>2. /\ m \in Nat
        /\ \A k \in 1..m : place[k] \in at \cap 1..n /\ old[k] = s[place[k]]
        /\ \A k, l \in 1..m : k < l => place[k] < place[l]
        /\ \A i \in at \cap 1..n : \E k \in 1..m : place[k] = i
        /\ 1..n \subseteq at => m = n /\ \A k \in 1..n : place[k] = k
    BY <1>2 DEF PicksFrom
  <2>. HIDE DEF m
  <2>12. m \in Nat /\ 1..m \subseteq 1..(m + 1)
    BY <2>2
  <2>3. \A k \in 1..(m + 1) : k \in 1..m \/ k = m + 1
    BY <2>12
  <2>4. \A k \in 1..m : more[k] = place[k] /\ more[k] \in at \cap 1..n
    BY <2>2
  <2>5. more[m + 1] = n + 1 /\ m + 1 \in 1..(m + 1)
    BY <2>2
  <2>6. more \in [1..(m + 1) -> at \cap 1..(n + 1)]
    BY <2>2, <2>3, <2>4, <2>5, <1>4
  <2>. HIDE DEF more
  <2>7. \A k \in 1..(m + 1) : new[k] = s[more[k]]
    BY <2>1, <2>2, <2>3, <2>4, <2>5
  <2>8. ASSUME NEW k \in 1..(m + 1), NEW l \in 1..(m + 1), k < l
        PROVE  more[k] < more[l]
    <3>1. k \in 1..m
      BY <2>2, <2>8
    <3>2. CASE l = m + 1
      BY <3>1, <3>2, <2>4, <2>5
    <3>3. CASE l \in 1..m
      BY <3>1, <3>3, <2>2, <2>4, <2>8
    <3>. QED
      BY <3>2, <3>3, <2>3
  <2>9. ASSUME NEW i \in at \cap 1..(n + 1)
        PROVE  \E k \in 1..(m + 1) : more[k] = i
    <3>1. CASE i = n + 1
      BY <3>1, <2>5
    <3>2. CASE i # n + 1
      <4>1. i \in at \cap 1..n
        BY <3>2
      <4>2. PICK k \in 1..m : place[k] = i
        BY <4>1, <2>2
      <4>3. k \in 1..(m + 1) /\ more[k] = i
        BY <4>2, <2>4, <2>12
      <4>. QED
        BY <4>3
    <3>. QED
      BY <3>1, <3>2
  <2>10. ASSUME 1..(n + 1) \subseteq at
         PROVE  m + 1 = n + 1 /\ \A k \in 1..(n + 1) : more[k] = k
    <3>1. 1..n \subseteq at
      BY <2>10
    <3>2. m = n /\ \A k \in 1..n : place[k] = k
      BY <3>1, <2>2
    <3>3. \A k \in 1..(n + 1) : k \in 1..n \/ k = n + 1
      OBVIOUS
    <3>4. \A k \in 1..n : more[k] = k
      BY <3>2, <2>4
    <3>5. m + 1 = n + 1 /\ more[n + 1] = n + 1
      BY <3>2, <2>5
    <3>6. \A k \in 1..(n + 1) : more[k] = k
      BY <3>3, <3>4, <3>5
    <3>. QED
      BY <3>5, <3>6
  <2>11. PicksFrom(s, at, n + 1, new, more)
    <3>. DEFINE M == m + 1
    <3>1. Len(new) = M /\ M \in Nat
      BY <2>1, <2>12
    <3>2. /\ more \in [1..M -> at \cap 1..(n + 1)]
          /\ \A k \in 1..M : new[k] = s[more[k]]
          /\ \A k, l \in 1..M : k < l => more[k] < more[l]
      BY <2>6, <2>7, <2>8
    <3>3. /\ \A i \in at \cap 1..(n + 1) : \E k \in 1..M : more[k] = i
          /\ 1..(n + 1) \subseteq at => M = n + 1 /\ \A k \in 1..(n + 1) : more[k] = k
      BY <2>9, <2>10
    <3>. HIDE DEF M
    <3>. QED
      BY <3>1, <3>2, <3>3 DEF PicksFrom
  <2>. QED
    BY <2>1, <2>11 DEF Picks
<1>. QED
  BY <1>3, <1>4

LEMMA ThoseOK ==
  ASSUME NEW S, NEW s \in Seq(S), NEW at
  PROVE  Those(s, at) \in Seq(S) /\ Picks(s, at, Len(s), Those(s, at))
<1>. DEFINE N == Len(s)
            Step(f, n) == IF n = 0 THEN <<>>
                          ELSE IF n \in at THEN Append(f[n - 1], s[n]) ELSE f[n - 1]
            IsIt(f) == f = [n \in 0..N |-> Step(f, n)]
            Fine(f, n) == f[n] \in Seq(S) /\ Picks(s, at, n, f[n])
<1>1. N \in Nat
  BY ElementOfSeq
<1>2. ASSUME NEW f, NEW n \in 0..N, f[n] = Step(f, n), n # 0 => Fine(f, n - 1)
      PROVE  Fine(f, n)
  <2>1. CASE n = 0
    <3>1. f[n] = <<>> /\ Len(<<>>) = 0 /\ <<>> \in Seq(S)
      BY <1>2, <2>1, EmptySeq
    <3>. DEFINE place == [k \in 1..0 |-> k]
    <3>2. 1..0 = {} /\ 1..n = {}
      BY <2>1
    <3>3. PicksFrom(s, at, n, f[n], place)
      BY <3>1, <3>2, <2>1 DEF PicksFrom
    <3>. QED
      BY <3>1, <3>3 DEF Picks
  <2>2. CASE n # 0
    <3>1. n - 1 \in Nat /\ (n - 1) + 1 = n /\ n \in 1..Len(s)
      BY <1>1, <2>2
    <3>2. f[n] = IF n \in at THEN Append(f[n - 1], s[n]) ELSE f[n - 1]
      BY <1>2, <2>2
    <3>3. Fine(f, n - 1)
      BY <1>2, <2>2
    <3>4. f[n] \in Seq(S) /\ Picks(s, at, (n - 1) + 1, f[n])
      <4>. DEFINE p == n - 1
      <4>1. p \in Nat /\ p + 1 = n
        BY <3>1
      <4>2. f[p] \in Seq(S) /\ Picks(s, at, p, f[p])
        BY <3>3
      <4>3. f[n] = IF p + 1 \in at THEN Append(f[p], s[p + 1]) ELSE f[p]
        BY <3>2, <4>1
      <4>4. p + 1 \in 1..Len(s)
        BY <3>1, <4>1
      <4>. HIDE DEF p
      <4>5. f[n] \in Seq(S) /\ Picks(s, at, p + 1, f[n])
        BY <4>1, <4>2, <4>3, <4>4, PickNext
      <4>. QED
        BY <4>5 DEF p
    <3>. QED
      BY <3>1, <3>4
  <2>. QED
    BY <2>1, <2>2
<1>3. \E f : IsIt(f)
  <2>. DEFINE Up(n) == \E g : g = [m \in 0..n |-> Step(g, m)]
              Bad == {n \in 0..N : ~Up(n)}
  <2>1. SUFFICES Bad = {}
    <3>1. N \in 0..N
      BY <1>1
    <3>2. Up(N)
      <4>. HIDE DEF Up
      <4>. QED
        BY <2>1, <3>1
    <3>. QED
      BY <3>2
  <2>2. SUFFICES ASSUME Bad # {} PROVE FALSE
    OBVIOUS
  <2>3. PICK n \in Bad : n # 0 => n - 1 \in 0..N /\ n - 1 \notin Bad
    <3>1. Bad \subseteq 0..N
      OBVIOUS
    <3>. HIDE DEF Bad
    <3>. QED
      BY <2>2, FirstBad, <1>1, <3>1
  <2>4. CASE n = 0
    <3>. DEFINE g == [m \in 0..0 |-> <<>>]
    <3>1. g = [m \in 0..0 |-> Step(g, m)]
      OBVIOUS
    <3>. QED
      BY <2>3, <2>4, <3>1
  <2>5. CASE n # 0
    <3>1. n - 1 \in 0..N /\ n - 1 \notin Bad /\ n \in Nat
      <4>1. n \in 0..N
        OBVIOUS
      <4>. HIDE DEF Bad
      <4>. QED
        BY <2>3, <2>5, <1>1, <4>1
    <3>2. PICK g : g = [m \in 0..(n - 1) |-> Step(g, m)]
      <4>1. Up(n - 1)
        BY <3>1
      <4>. QED
        BY <4>1
    <3>. DEFINE h == [m \in 0..n |-> IF m = n THEN Step(g, n) ELSE g[m]]
    <3>3. \A m \in 0..n : h[m] = Step(h, m)
      <4>1. \A m \in 0..(n - 1) : g[m] = Step(g, m)
        <5>. HIDE DEF Step
        <5>. QED
          BY <3>2
      <4>2. \A m \in 0..n : m # 0 => m - 1 \in 0..(n - 1) /\ h[m - 1] = g[m - 1]
        BY <3>1
      <4>3. \A m \in 0..n : Step(h, m) = Step(g, m)
        BY <4>2
      <4>4. \A m \in 0..n : h[m] = Step(g, m)
        <5>. HIDE DEF Step
        <5>. QED
          BY <4>1, <3>1
      <4>. QED
        BY <4>3, <4>4
    <3>4. h = [m \in 0..n |-> Step(h, m)]
      <4>1. h = [m \in 0..n |-> h[m]]
        OBVIOUS
      <4>. HIDE DEF Step, h
      <4>. QED
        BY <4>1, <3>3
    <3>. QED
      BY <3>4, <2>3
  <2>. QED
    BY <2>4, <2>5
<1>4. PICK f : IsIt(f) /\ Those(s, at) = f[N]
  <2>. DEFINE c == CHOOSE f : IsIt(f)
  <2>1. IsIt(c)
    BY ZenonT(30), <1>3
  <2>2. Those(s, at) = c[N]
    BY DEF Those
  <2>. QED
    BY ZenonT(30), <2>1, <2>2
<1>5. \A n \in 0..N : f[n] = Step(f, n)
  <2>. HIDE DEF Step
  <2>. QED
    BY <1>4
<1>6. \A n \in 0..N : Fine(f, n)
  <2>. HIDE DEF Step, IsIt, Fine
  <2>. DEFINE Bad == {n \in 0..N : ~Fine(f, n)}
  <2>1. SUFFICES ASSUME Bad # {} PROVE FALSE
    OBVIOUS
  <2>2. PICK n \in Bad : n # 0 => n - 1 \in 0..N /\ n - 1 \notin Bad
    <3>1. Bad \subseteq 0..N
      OBVIOUS
    <3>. HIDE DEF Bad
    <3>. QED
      BY <2>1, FirstBad, <1>1, <3>1
  <2>3. n # 0 => Fine(f, n - 1)
    BY <2>2
  <2>. QED
    BY <1>2, <1>5, <2>2, <2>3
<1>. QED
  BY <1>1, <1>4, <1>6

\* The items that are in a set: at most that many, each an item, and all if all are in it.
LEMMA AmongOK ==
  ASSUME NEW S, NEW s \in Seq(S), NEW set
  PROVE  /\ Among(s, set) \in Seq(S)
         /\ ToSet(Among(s, set)) = ToSet(s) \cap set
         /\ ToSet(s) \subseteq set => Len(Among(s, set)) = Len(s)
<1>. DEFINE at == {k \in DOMAIN s : s[k] \in set}
            new == Those(s, at)
            n == Len(s)
<1>1. new \in Seq(S) /\ Picks(s, at, n, new)
  BY ThoseOK
<1>2. n \in Nat /\ DOMAIN s = 1..n /\ DOMAIN new = 1..Len(new)
  BY <1>1, LenProperties
<1>3. Among(s, set) = new
  BY DEF Among
<1>4. \A k : k \in at <=> k \in 1..n /\ s[k] \in set
  BY <1>2
<1>. HIDE DEF at, new, n
<1>5. PICK place : PicksFrom(s, at, n, new, place)
  BY <1>1 DEF Picks
<1>6. /\ \A k \in 1..Len(new) : place[k] \in at /\ new[k] = s[place[k]]
      /\ \A i \in at : \E k \in 1..Len(new) : place[k] = i
      /\ 1..n \subseteq at => Len(new) = n
  BY <1>4, <1>5 DEF PicksFrom
<1>7. \A x : x \in ToSet(new) <=> \E k \in 1..Len(new) : x = new[k]
  BY <1>2 DEF ToSet
<1>8. \A x : x \in ToSet(s) <=> \E k \in 1..n : x = s[k]
  BY <1>2 DEF ToSet
<1>9. ToSet(new) \subseteq ToSet(s) \cap set
  BY <1>4, <1>6, <1>7, <1>8
<1>10. ToSet(s) \cap set \subseteq ToSet(new)
  BY <1>4, <1>6, <1>7, <1>8
<1>11. ToSet(s) \subseteq set => 1..n \subseteq at
  BY <1>4, <1>8
<1>. QED
  BY <1>1, <1>3, <1>6, <1>9, <1>10, <1>11 DEF n
-----------------------------------------------------------------------------
(* Flights                                                                 *)

FlightFields == {"kind", "key", "pc", "answer"}
IsFlight(f) == DOMAIN f = FlightFields
AreFlights(s) ==
  /\ Len(s) \in Nat
  /\ s \in Seq({s[i] : i \in 1..Len(s)})
  /\ \A i \in 1..Len(s) : IsFlight(s[i])

HasKind(s, kinds) == \E i \in DOMAIN s : s[i].kind \in kinds
OneOfKind(s, kinds) == \A i, j \in DOMAIN s : s[i].kind \in kinds /\ s[j].kind \in kinds => i = j

LEMMA FlightDomain ==
  ASSUME NEW s, AreFlights(s)
  PROVE  DOMAIN s = 1..Len(s) /\ Len(s) \in Nat
BY LenProperties DEF AreFlights

\* A flight is sent.
LEMMA AppendFlight ==
  ASSUME NEW s, AreFlights(s), NEW e, IsFlight(e)
  PROVE  LET new == Append(s, e)
         IN  /\ AreFlights(new)
             /\ Len(new) = Len(s) + 1
             /\ DOMAIN new = 1..(Len(s) + 1)
             /\ \A i \in 1..Len(s) : new[i] = s[i]
             /\ new[Len(s) + 1] = e
<1>. DEFINE S == {s[i] : i \in 1..Len(s)}
            T == S \cup {e}
            new == Append(s, e)
<1>1. s \in Seq(T) /\ e \in T
  <2>1. S \subseteq T /\ s \in Seq(S)
    BY DEF AreFlights
  <2>. HIDE DEF T, S
  <2>2. s \in Seq(T)
    BY <2>1, SeqMonotonic
  <2>. QED
    BY <2>2 DEF T
<1>. HIDE DEF T
<1>2. /\ new \in Seq(T) /\ Len(new) = Len(s) + 1
      /\ \A i \in 1..Len(s) : new[i] = s[i]
      /\ new[Len(s) + 1] = e
  BY <1>1, AppendProperties
<1>3. new \in Seq({new[i] : i \in 1..Len(new)}) /\ DOMAIN new = 1..Len(new)
  BY <1>2, FlightList, LenProperties
<1>. HIDE DEF new
<1>4. \A i \in 1..Len(new) : IsFlight(new[i])
  <2>1. \A i \in 1..Len(new) : i \in 1..Len(s) \/ i = Len(s) + 1
    BY <1>2, FlightDomain
  <2>. QED
    BY <1>2, <2>1 DEF AreFlights
<1>5. AreFlights(new)
  BY <1>2, <1>3, <1>4, FlightDomain DEF AreFlights
<1>6. DOMAIN new = 1..(Len(s) + 1)
  BY <1>2, <1>3
<1>. QED
  BY <1>2, <1>5, <1>6 DEF new

\* A flight leaves: those behind it move up.
Moved(k, i) == IF k < i THEN k ELSE k + 1

LEMMA RemoveFlight ==
  ASSUME NEW s, AreFlights(s), NEW i \in DOMAIN s
  PROVE  LET new == RemoveAt(s, i)
         IN  /\ AreFlights(new)
             /\ DOMAIN new = 1..(Len(s) - 1)
             /\ \A k \in DOMAIN new : Moved(k, i) \in DOMAIN s \ {i} /\ new[k] = s[Moved(k, i)]
             /\ \A j \in DOMAIN s \ {i} : \E k \in DOMAIN new : j = Moved(k, i)
             /\ \A k, l \in DOMAIN new : k <= l <=> Moved(k, i) <= Moved(l, i)
<1>. DEFINE S == {s[k] : k \in 1..Len(s)}
            new == RemoveAt(s, i)
<1>1. s \in Seq(S) /\ Len(s) \in Nat /\ i \in 1..Len(s) /\ DOMAIN s = 1..Len(s)
  BY FlightDomain DEF AreFlights
<1>. HIDE DEF S
<1>6. /\ new \in Seq(S) /\ Len(new) = Len(s) - 1
      /\ \A k \in 1..(Len(s) - 1) : new[k] = IF k < i THEN s[k] ELSE s[k + 1]
  BY ZenonT(30), <1>1, RemoveItem
<1>7. new \in Seq({new[k] : k \in 1..Len(new)}) /\ DOMAIN new = 1..Len(new)
  BY <1>6, FlightList, LenProperties
<1>. HIDE DEF new
<1>8. \A k \in DOMAIN new : Moved(k, i) \in DOMAIN s \ {i} /\ new[k] = s[Moved(k, i)]
  BY <1>1, <1>6, <1>7 DEF Moved
<1>9. \A k \in DOMAIN new : IsFlight(new[k])
  BY <1>1, <1>8 DEF AreFlights
<1>10. ASSUME NEW j \in DOMAIN s \ {i}
       PROVE  \E k \in DOMAIN new : j = Moved(k, i)
  <2>1. CASE j < i
    <3>1. j \in DOMAIN new /\ j = Moved(j, i)
      BY <1>1, <1>6, <1>7, <2>1 DEF Moved
    <3>. QED
      BY <3>1
  <2>2. CASE ~(j < i)
    <3>1. j - 1 \in DOMAIN new /\ j = Moved(j - 1, i)
      BY <1>1, <1>6, <1>7, <2>2 DEF Moved
    <3>. QED
      BY <3>1
  <2>. QED
    BY <2>1, <2>2
<1>11. \A k, l \in DOMAIN new : k <= l <=> Moved(k, i) <= Moved(l, i)
  BY <1>1, <1>6, <1>7 DEF Moved
<1>. QED
  BY <1>1, <1>6, <1>7, <1>8, <1>9, <1>10, <1>11 DEF AreFlights, new

\* A flight is answered: it stays the same request.
SameRequest(e, f) == e.kind = f.kind /\ e.key = f.key

AnsweredWith(s, new, i, answer) ==
  /\ AreFlights(new)
  /\ DOMAIN new = DOMAIN s
  /\ \A k \in DOMAIN s \ {i} : new[k] = s[k]
  /\ SameRequest(new[i], s[i]) /\ new[i].pc = "answered" /\ new[i].answer = answer

LEMMA AnswerFlight ==
  ASSUME NEW s, AreFlights(s), NEW i \in DOMAIN s, NEW answer
  PROVE  AnsweredWith(s, [s EXCEPT ![i].pc = "answered", ![i].answer = answer], i, answer)
<1>. DEFINE new == [s EXCEPT ![i].pc = "answered", ![i].answer = answer]
            f == s[i]
            e == [[f EXCEPT !.pc = "answered"] EXCEPT !.answer = answer]
            T == {s[k] : k \in 1..Len(s)} \cup {e}
<1>1. DOMAIN s = 1..Len(s) /\ Len(s) \in Nat /\ i \in 1..Len(s) /\ IsFlight(f)
  BY FlightDomain DEF AreFlights
<1>2. new = [s EXCEPT ![i] = e]
  BY <1>1
<1>. HIDE DEF new, f
<1>3. IsFlight(e) /\ SameRequest(e, f) /\ e.pc = "answered" /\ e.answer = answer
  BY <1>1 DEF IsFlight, FlightFields, SameRequest
<1>. HIDE DEF e
<1>4. s \in Seq(T) /\ e \in T
  <2>1. s \in Seq({s[k] : k \in 1..Len(s)})
    BY DEF AreFlights
  <2>2. {s[k] : k \in 1..Len(s)} \subseteq T
    OBVIOUS
  <2>3. s \in Seq(T)
    <3>. HIDE DEF T
    <3>. QED
      BY <2>1, <2>2, SeqMonotonic
  <2>. QED
    BY <2>3
<1>. HIDE DEF T
<1>5. /\ new \in Seq(T) /\ Len(new) = Len(s)
      /\ \A k \in 1..Len(s) : new[k] = IF k = i THEN e ELSE s[k]
  BY <1>1, <1>2, <1>4, ExceptSeq
<1>6. new \in Seq({new[k] : k \in 1..Len(new)}) /\ DOMAIN new = 1..Len(new)
  BY <1>5, FlightList, LenProperties
<1>7. \A k \in 1..Len(new) : IsFlight(new[k])
  BY <1>3, <1>5 DEF AreFlights
<1>8. AreFlights(new)
  BY <1>1, <1>5, <1>6, <1>7 DEF AreFlights
<1>9. AnsweredWith(s, new, i, answer)
  BY <1>1, <1>3, <1>5, <1>6, <1>8 DEF f, AnsweredWith
<1>. QED
  BY <1>9 DEF new

\* What is sent, lost and answered counts for its kind only.
LEMMA KindsOfAppended ==
  ASSUME NEW s, AreFlights(s), NEW e, IsFlight(e), NEW kinds
  PROVE  LET new == Append(s, e)
         IN  /\ HasKind(new, kinds) <=> HasKind(s, kinds) \/ e.kind \in kinds
             /\ OneOfKind(s, kinds) /\ (e.kind \in kinds => ~HasKind(s, kinds)) => OneOfKind(new, kinds)
<1>. DEFINE new == Append(s, e)
            n == Len(s)
<1>1. /\ n \in Nat /\ DOMAIN s = 1..n /\ DOMAIN new = 1..(n + 1)
      /\ \A i \in 1..n : new[i] = s[i]
      /\ new[n + 1] = e
  BY AppendFlight, FlightDomain
<1>. HIDE DEF new, n
<1>2. \A i \in 1..(n + 1) : i \in 1..n \/ i = n + 1
  BY <1>1
<1>3. 1..n \subseteq 1..(n + 1) /\ n + 1 \in 1..(n + 1)
  BY <1>1
<1>4. HasKind(new, kinds) <=> HasKind(s, kinds) \/ e.kind \in kinds
  BY <1>1, <1>2, <1>3 DEF HasKind
<1>5. OneOfKind(s, kinds) /\ (e.kind \in kinds => ~HasKind(s, kinds)) => OneOfKind(new, kinds)
  BY <1>1, <1>2 DEF HasKind, OneOfKind
<1>. QED
  BY <1>4, <1>5 DEF new

LEMMA KindsOfRemoved ==
  ASSUME NEW s, AreFlights(s), NEW i \in DOMAIN s, NEW kinds
  PROVE  LET new == RemoveAt(s, i)
         IN  /\ HasKind(new, kinds) => HasKind(s, kinds)
             /\ s[i].kind \notin kinds /\ HasKind(s, kinds) => HasKind(new, kinds)
             /\ OneOfKind(s, kinds) => OneOfKind(new, kinds)
             /\ OneOfKind(s, kinds) /\ s[i].kind \in kinds => ~HasKind(new, kinds)
<1>. DEFINE new == RemoveAt(s, i)
            n == Len(s)
<1>1. /\ \A k \in DOMAIN new : Moved(k, i) \in DOMAIN s \ {i} /\ new[k] = s[Moved(k, i)]
      /\ \A j \in DOMAIN s \ {i} : \E k \in DOMAIN new : j = Moved(k, i)
  BY RemoveFlight
<1>2. \A k, l \in DOMAIN new : Moved(k, i) = Moved(l, i) => k = l
  <2>1. n \in Nat /\ i \in 1..n /\ DOMAIN new = 1..(n - 1)
    BY RemoveFlight, FlightDomain
  <2>. HIDE DEF new, n
  <2>. QED
    BY <2>1 DEF Moved
<1>. HIDE DEF new
<1>3. HasKind(new, kinds) => HasKind(s, kinds)
  BY <1>1 DEF HasKind
<1>4. s[i].kind \notin kinds /\ HasKind(s, kinds) => HasKind(new, kinds)
  BY <1>1 DEF HasKind
<1>5. OneOfKind(s, kinds) => OneOfKind(new, kinds)
  BY <1>1, <1>2 DEF OneOfKind
<1>6. OneOfKind(s, kinds) /\ s[i].kind \in kinds => ~HasKind(new, kinds)
  BY <1>1 DEF OneOfKind, HasKind
<1>. QED
  BY <1>3, <1>4, <1>5, <1>6 DEF new

LEMMA KindsOfAnswered ==
  ASSUME NEW s, NEW new, NEW i \in DOMAIN s, NEW answer, AnsweredWith(s, new, i, answer), NEW kinds
  PROVE  /\ HasKind(new, kinds) <=> HasKind(s, kinds)
         /\ OneOfKind(s, kinds) => OneOfKind(new, kinds)
<1>1. DOMAIN new = DOMAIN s /\ \A k \in DOMAIN s : new[k].kind = s[k].kind
  BY DEF AnsweredWith, SameRequest
<1>. QED
  BY <1>1 DEF HasKind, OneOfKind

\* Some of the flights.
LEMMA ThoseFlights ==
  ASSUME NEW s, AreFlights(s), NEW at
  PROVE  LET new == Those(s, at)
         IN  /\ AreFlights(new)
             /\ \A k \in DOMAIN new : \E i \in at \cap DOMAIN s : new[k] = s[i]
             /\ \A i \in at \cap DOMAIN s : \E k \in DOMAIN new : new[k] = s[i]
             /\ \A kinds : OneOfKind(s, kinds) => OneOfKind(new, kinds)
<1>. DEFINE S == {s[i] : i \in 1..Len(s)}
            new == Those(s, at)
            n == Len(s)
<1>1. s \in Seq(S) /\ n \in Nat /\ DOMAIN s = 1..n
  BY FlightDomain DEF AreFlights
<1>. HIDE DEF S
<1>2. new \in Seq(S) /\ Picks(s, at, n, new)
  BY <1>1, ThoseOK
<1>3. new \in Seq({new[k] : k \in 1..Len(new)}) /\ Len(new) \in Nat /\ DOMAIN new = 1..Len(new)
  BY <1>2, FlightList, LenProperties
<1>. HIDE DEF new, n
<1>4. PICK place : PicksFrom(s, at, n, new, place)
  BY <1>2 DEF Picks
<1>. DEFINE m == Len(new)
<1>5. /\ \A k \in DOMAIN new : place[k] \in at \cap DOMAIN s /\ new[k] = s[place[k]]
      /\ \A i \in at \cap DOMAIN s : \E k \in DOMAIN new : place[k] = i
  BY ZenonT(30), <1>1, <1>3, <1>4 DEF PicksFrom
<1>6. \A k, l \in DOMAIN new : place[k] = place[l] => k = l
  <2>1. SUFFICES ASSUME NEW k \in 1..m, NEW l \in 1..m, place[k] = place[l], k < l PROVE FALSE
    BY <1>3
  <2>2. place[k] < place[l]
    BY <1>4, <2>1 DEF PicksFrom
  <2>3. place[k] \in 1..n /\ place[l] \in 1..n
    BY <1>4, <2>1 DEF PicksFrom
  <2>. QED
    BY <2>1, <2>2, <2>3, <1>1
<1>7. \A k \in DOMAIN new : IsFlight(new[k])
  BY <1>1, <1>5 DEF AreFlights, n
<1>8. AreFlights(new)
  BY <1>3, <1>7 DEF AreFlights
<1>9. \A kinds : OneOfKind(s, kinds) => OneOfKind(new, kinds)
  BY <1>5, <1>6 DEF OneOfKind
<1>10. \A i \in at \cap DOMAIN s : \E k \in DOMAIN new : new[k] = s[i]
  BY <1>5
<1>. QED
  BY <1>5, <1>8, <1>9, <1>10 DEF new

LEMMA ConcatFlights ==
  ASSUME NEW s, AreFlights(s), NEW u, AreFlights(u)
  PROVE  LET new == s \o u
         IN  /\ AreFlights(new)
             /\ DOMAIN new = 1..(Len(s) + Len(u))
             /\ \A k \in 1..Len(s) : new[k] = s[k]
             /\ \A k \in 1..Len(u) : new[Len(s) + k] = u[k]
<1>. DEFINE T == {s[i] : i \in 1..Len(s)} \cup {u[i] : i \in 1..Len(u)}
            new == s \o u
            m == Len(s)
            n == Len(u)
<1>1. s \in Seq(T) /\ u \in Seq(T) /\ m \in Nat /\ n \in Nat
  <2>1. /\ {s[i] : i \in 1..Len(s)} \subseteq T /\ {u[i] : i \in 1..Len(u)} \subseteq T
        /\ s \in Seq({s[i] : i \in 1..Len(s)}) /\ u \in Seq({u[i] : i \in 1..Len(u)})
        /\ m \in Nat /\ n \in Nat
    BY DEF AreFlights
  <2>. HIDE DEF T
  <2>. QED
    BY <2>1, SeqMonotonic
<1>. HIDE DEF T
<1>2. /\ new \in Seq(T) /\ Len(new) = m + n
      /\ \A k \in 1..(m + n) : new[k] = IF k <= m THEN s[k] ELSE u[k - m]
  BY <1>1, ConcatProperties
<1>. HIDE DEF new
<1>3. new \in Seq({new[k] : k \in 1..Len(new)}) /\ Len(new) \in Nat /\ DOMAIN new = 1..Len(new)
  BY <1>2, FlightList, LenProperties
<1>4. (\A i \in 1..m : IsFlight(s[i])) /\ (\A i \in 1..n : IsFlight(u[i]))
  BY DEF AreFlights
<1>. HIDE DEF m, n
<1>5. \A k \in 1..(m + n) : IF k <= m THEN k \in 1..m ELSE k - m \in 1..n
  BY <1>1
<1>6. \A k \in 1..m : k \in 1..(m + n) /\ k <= m
  BY <1>1
<1>7. \A k \in 1..n : m + k \in 1..(m + n) /\ ~(m + k <= m) /\ (m + k) - m = k
  BY <1>1
<1>8. AreFlights(new)
  BY <1>2, <1>3, <1>4, <1>5 DEF AreFlights
<1>9. (\A k \in 1..m : new[k] = s[k]) /\ (\A k \in 1..n : new[m + k] = u[k])
  BY <1>2, <1>6, <1>7
<1>. QED
  BY <1>2, <1>3, <1>8, <1>9 DEF new, m, n

LEMMA KindsOfConcat ==
  ASSUME NEW s, AreFlights(s), NEW u, AreFlights(u), NEW kinds
  PROVE  LET new == s \o u
         IN  /\ HasKind(new, kinds) <=> HasKind(s, kinds) \/ HasKind(u, kinds)
             /\ OneOfKind(s, kinds) /\ ~HasKind(u, kinds) => OneOfKind(new, kinds)
<1>. DEFINE new == s \o u
            m == Len(s)
            n == Len(u)
<1>1. /\ m \in Nat /\ n \in Nat /\ DOMAIN s = 1..m /\ DOMAIN u = 1..n /\ DOMAIN new = 1..(m + n)
      /\ \A k \in 1..m : new[k] = s[k]
      /\ \A k \in 1..n : new[m + k] = u[k]
  BY ConcatFlights, FlightDomain
<1>. HIDE DEF new, m, n
<1>2. \A k \in 1..(m + n) : k \in 1..m \/ \E l \in 1..n : k = m + l
  <2>. TAKE k \in 1..(m + n)
  <2>1. k \notin 1..m => k - m \in 1..n /\ k = m + (k - m)
    BY <1>1
  <2>. QED
    BY <2>1
<1>3. (\A k \in 1..m : k \in 1..(m + n)) /\ (\A k \in 1..n : m + k \in 1..(m + n))
  BY <1>1
<1>6. ASSUME HasKind(new, kinds) PROVE HasKind(s, kinds) \/ HasKind(u, kinds)
  <2>1. PICK k \in 1..(m + n) : new[k].kind \in kinds
    BY <1>1, <1>6 DEF HasKind
  <2>2. CASE k \in 1..m
    BY <1>1, <2>1, <2>2 DEF HasKind
  <2>3. ASSUME NEW l \in 1..n, k = m + l PROVE HasKind(u, kinds)
    BY <1>1, <2>1, <2>3 DEF HasKind
  <2>. QED
    BY <1>2, <2>2, <2>3
<1>7. ASSUME HasKind(s, kinds) PROVE HasKind(new, kinds)
  BY <1>1, <1>3, <1>7 DEF HasKind
<1>8. ASSUME HasKind(u, kinds) PROVE HasKind(new, kinds)
  <2>1. PICK l \in 1..n : u[l].kind \in kinds
    BY <1>1, <1>8 DEF HasKind
  <2>2. m + l \in DOMAIN new /\ new[m + l] = u[l]
    BY <1>1, <1>3
  <2>. QED
    BY <2>1, <2>2 DEF HasKind
<1>4. HasKind(new, kinds) <=> HasKind(s, kinds) \/ HasKind(u, kinds)
  BY <1>6, <1>7, <1>8
<1>5. ASSUME OneOfKind(s, kinds), ~HasKind(u, kinds)
      PROVE  OneOfKind(new, kinds)
  <2>1. \A k \in DOMAIN new : new[k].kind \in kinds => k \in 1..m /\ s[k].kind \in kinds
    <3>1. SUFFICES ASSUME NEW k \in 1..(m + n), new[k].kind \in kinds, k \notin 1..m PROVE FALSE
      BY <1>1
    <3>2. PICK l \in 1..n : k = m + l
      BY <1>2, <3>1
    <3>3. u[l].kind \in kinds /\ l \in DOMAIN u
      BY <1>1, <3>1, <3>2
    <3>. QED
      BY <1>5, <3>3 DEF HasKind
  <2>. QED
    BY <1>1, <1>5, <2>1 DEF OneOfKind
<1>. QED
  BY <1>4, <1>5 DEF new

LEMMA FlightOfConcat ==
  ASSUME NEW s, AreFlights(s), NEW u, AreFlights(u), NEW k \in DOMAIN (s \o u)
  PROVE  \/ \E i \in DOMAIN s : (s \o u)[k] = s[i]
         \/ \E i \in DOMAIN u : (s \o u)[k] = u[i]
<1>. DEFINE new == s \o u
            m == Len(s)
            n == Len(u)
<1>1. /\ m \in Nat /\ n \in Nat /\ DOMAIN s = 1..m /\ DOMAIN u = 1..n /\ k \in 1..(m + n)
      /\ \A i \in 1..m : new[i] = s[i]
      /\ \A i \in 1..n : new[m + i] = u[i]
  BY ConcatFlights, FlightDomain
<1>. HIDE DEF new, m, n
<1>2. k \in 1..m \/ (k - m \in 1..n /\ m + (k - m) = k)
  BY <1>1
<1>3. CASE k \in 1..m
  <2>1. new[k] = s[k] /\ k \in DOMAIN s
    BY <1>1, <1>3
  <2>. QED
    BY <2>1 DEF new
<1>4. CASE k - m \in 1..n /\ m + (k - m) = k
  <2>1. new[k] = u[k - m] /\ k - m \in DOMAIN u
    BY <1>1, <1>4
  <2>. QED
    BY <2>1 DEF new
<1>. QED
  BY <1>2, <1>3, <1>4

-----------------------------------------------------------------------------
(* The tab and its store                                                   *)

LEMMA PendingKind ==
  ASSUME NEW t, NEW kinds
  PROVE  Pending(t, kinds) # {} <=> HasKind(t.flights, kinds)
BY DEF Pending, HasKind

Names == {"overview", "model", "diagram", "monitoring", "status"}

TabOK(t) ==
  /\ DOMAIN t = {"page", "flights", "tidy"}
  /\ t.tidy \in BOOLEAN
  /\ AreFlights(t.flights)
  /\ {"name", "store"} \subseteq DOMAIN t.page
  /\ t.page.name \in Names
  /\ DOMAIN t.page.store = {"data", "loading", "error"}
  /\ t.page.store.loading \in BOOLEAN /\ t.page.store.error \in BOOLEAN

HasModel(t) == HasKind(t.flights, {"model"})
HasOrphan(t) == HasKind(t.flights, {"orphan"})

\* What StoreExact says, and: as long as no request overtook another there is one at a time,
\* which is made only without a model.
StoreOK(t, failed) ==
  LET store == t.page.store
  IN  /\ store.loading => HasModel(t)
      /\ t.page.name \in {"model", "diagram", "status"} => store.loading \/ Loaded(t) \/ store.error
      /\ failed = 0 => ~store.error
      /\ t.tidy =>
           /\ ~HasOrphan(t)
           /\ OneOfKind(t.flights, {"model"})
           /\ store.loading <=> HasModel(t)
           /\ Loaded(t) => ~store.error
           /\ HasModel(t) => ~Loaded(t) /\ ~store.error

\* What changes the server was sent from the page for the status, as were the dialog's requests.
PostsKept(t, u) ==
  \A k \in DOMAIN u.flights :
    u.flights[k].kind = "orphan" \/ (u.flights[k].kind \in {"dialog", "save"} /\ t.page.name # "status")
      => \E j \in DOMAIN t.flights : u.flights[k] = t.flights[j]

\* A step of a page leaves the store and its requests alone.
Keeps(t, u) ==
  /\ TabOK(u)
  /\ u.page.name = t.page.name /\ u.page.store = t.page.store
  /\ u.tidy => t.tidy
  /\ HasModel(u) <=> HasModel(t)
  /\ OneOfKind(t.flights, {"model"}) => OneOfKind(u.flights, {"model"})
  /\ HasOrphan(u) => HasOrphan(t)
  /\ PostsKept(t, u)

LEMMA KeepsStore ==
  ASSUME NEW t, NEW u, Keeps(t, u), NEW f, NEW g, g = 0 => f = 0, StoreOK(t, f)
  PROVE  StoreOK(u, g)
BY DEF StoreOK, Keeps, Loaded

LEMMA KeepsTransitive ==
  ASSUME NEW t, NEW u, NEW v, Keeps(t, u), Keeps(u, v)
  PROVE  Keeps(t, v)
<1>1. t.page.name = u.page.name /\ PostsKept(t, u) /\ PostsKept(u, v)
  BY DEF Keeps
<1>2. PostsKept(t, v)
  BY <1>1 DEF PostsKept
<1>. QED
  BY <1>2 DEF Keeps

\* Only the page of the tab changes, and neither its name nor its store.
Turns(t, u) ==
  /\ DOMAIN u = DOMAIN t
  /\ u.flights = t.flights
  /\ u.tidy \in BOOLEAN /\ (u.tidy => t.tidy)
  /\ DOMAIN u.page = DOMAIN t.page
  /\ u.page.name = t.page.name /\ u.page.store = t.page.store

LEMMA TurnsKeeps ==
  ASSUME NEW t, TabOK(t), NEW u, Turns(t, u)
  PROVE  Keeps(t, u)
BY DEF TabOK, Turns, Keeps, HasModel, HasOrphan, PostsKept

Request(kind, key) == [kind |-> kind, key |-> key, pc |-> "sent", answer |-> None]

LEMMA RequestIsFlight == \A kind, key : IsFlight(Request(kind, key))
BY DEF IsFlight, FlightFields, Request

LEMMA SendKeeps ==
  ASSUME NEW t, TabOK(t), NEW kind, NEW key
  PROVE  LET u == Send(t, kind, key)
         IN  /\ DOMAIN u = DOMAIN t
             /\ u.page = t.page /\ u.tidy = t.tidy
             /\ u.flights = Append(t.flights, Request(kind, key))
             /\ TabOK(u)
             /\ kind \notin {"model", "orphan"} /\ (t.page.name # "status" => kind \notin {"dialog", "save"})
                  => Keeps(t, u)
<1>. DEFINE u == Send(t, kind, key)
            r == Request(kind, key)
<1>1. /\ DOMAIN u = DOMAIN t /\ u.page = t.page /\ u.tidy = t.tidy
      /\ u.flights = Append(t.flights, Request(kind, key))
  BY DEF TabOK, Send, Request
<1>. HIDE DEF u
<1>2. r.kind = kind /\ IsFlight(r)
  BY RequestIsFlight DEF Request
<1>. HIDE DEF r
<1>3. AreFlights(t.flights) /\ u.flights = Append(t.flights, r)
  BY <1>1 DEF TabOK, r
<1>4. AreFlights(u.flights)
  BY <1>2, <1>3, AppendFlight
<1>5. TabOK(u)
  BY <1>1, <1>4 DEF TabOK
<1>6. ASSUME kind \notin {"model", "orphan"}, t.page.name # "status" => kind \notin {"dialog", "save"}
      PROVE  Keeps(t, u)
  <2>1. /\ HasModel(u) <=> HasModel(t)
        /\ OneOfKind(t.flights, {"model"}) => OneOfKind(u.flights, {"model"})
        /\ HasOrphan(u) <=> HasOrphan(t)
    BY <1>2, <1>3, <1>6, KindsOfAppended DEF HasModel, HasOrphan
  <2>2. \A k \in DOMAIN u.flights : u.flights[k] = r \/ \E j \in DOMAIN t.flights : u.flights[k] = t.flights[j]
    BY <1>2, <1>3, AppendFlight, FlightDomain
  <2>3. PostsKept(t, u)
    BY <1>2, <1>6, <2>2 DEF PostsKept
  <2>. QED
    BY <1>1, <1>5, <2>1, <2>3 DEF Keeps
<1>. QED
  BY <1>1, <1>5, <1>6 DEF u

\* A flight leaves, and the tab may not be tidy any more.
LEMMA GoneKeeps ==
  ASSUME TabOK(tab), NEW i \in DOMAIN tab.flights, NEW overlap
  PROVE  LET u == UntidyIf(Gone(i), overlap)
         IN  /\ DOMAIN u = DOMAIN tab
             /\ u.page = tab.page
             /\ u.flights = RemoveAt(tab.flights, i)
             /\ u.tidy \in BOOLEAN /\ (u.tidy <=> tab.tidy /\ ~overlap)
             /\ TabOK(u)
             /\ tab.flights[i].kind # "model" => Keeps(tab, u)
<1>. DEFINE u == UntidyIf(Gone(i), overlap)
<1>1. /\ DOMAIN u = DOMAIN tab /\ u.page = tab.page
      /\ u.flights = RemoveAt(tab.flights, i)
      /\ u.tidy \in BOOLEAN /\ (u.tidy <=> tab.tidy /\ ~overlap)
  BY DEF TabOK, UntidyIf, Gone
<1>. HIDE DEF u
<1>2. AreFlights(tab.flights)
  BY DEF TabOK
<1>3. AreFlights(u.flights)
  BY <1>1, <1>2, RemoveFlight
<1>4. TabOK(u)
  BY <1>1, <1>3 DEF TabOK
<1>5. ASSUME tab.flights[i].kind # "model"
      PROVE  Keeps(tab, u)
  <2>1. /\ HasModel(u) <=> HasModel(tab)
        /\ OneOfKind(tab.flights, {"model"}) => OneOfKind(u.flights, {"model"})
        /\ HasOrphan(u) => HasOrphan(tab)
    BY <1>1, <1>2, <1>5, KindsOfRemoved DEF HasModel, HasOrphan
  <2>2. \A k \in DOMAIN u.flights : \E j \in DOMAIN tab.flights : u.flights[k] = tab.flights[j]
    BY <1>1, <1>2, RemoveFlight
  <2>3. PostsKept(tab, u)
    BY <2>2 DEF PostsKept
  <2>. QED
    BY <1>1, <1>4, <2>1, <2>3 DEF Keeps
<1>. QED
  BY <1>1, <1>4, <1>5 DEF u

-----------------------------------------------------------------------------
(* From page to page                                                       *)

\* The pages as they are opened.
Opened == {OverviewPage, [name |-> "model", sensor |-> None], openDiagramPage, MonitoringPage, StatusPage}

LEMMA OpenedPage ==
  ASSUME NEW page \in Opened
  PROVE  "name" \in DOMAIN page /\ page.name \in Names /\ "store" \notin DOMAIN page
BY DEF Opened, OverviewPage, openDiagramPage, MonitoringPage, StatusPage, Names

\* A change under way to the server was one before or was sent by the page that was left.
PostsLeft(t, u) ==
  \A k \in DOMAIN u.flights :
    u.flights[k].kind = "orphan"
      => \E j \in DOMAIN t.flights :
           u.flights[k] = t.flights[j] \/ (t.flights[j].kind = "save" /\ u.flights[k].key = t.flights[j])

\* The page is shown with the store; of the flights only requests for the model and changes
\* under way to the server are left.
Routes(t, u, page) ==
  /\ TabOK(u)
  /\ DOMAIN u.page = DOMAIN page \cup {"store"}
  /\ \A x \in DOMAIN page : u.page[x] = page[x]
  /\ u.page.store = t.page.store
  /\ u.tidy => t.tidy
  /\ HasModel(u) <=> HasModel(t)
  /\ OneOfKind(t.flights, {"model"}) => OneOfKind(u.flights, {"model"})
  /\ u.tidy /\ ~HasOrphan(t) => ~HasOrphan(u)
  /\ \A i \in DOMAIN u.flights : u.flights[i].kind \in {"model", "orphan"}
  /\ PostsLeft(t, u)

LEMMA RouteOK ==
  ASSUME NEW t, TabOK(t), NEW page \in Opened
  PROVE  Routes(t, Route(t, page), page)
<1>. DEFINE models == Those(t.flights, Pending(t, {"model"}))
            orphans == Those(t.flights, Pending(t, {"orphan"}))
            left == Those(t.flights, {i \in Pending(t, {"save"}) : t.flights[i].pc = "sent"})
            new == [k \in DOMAIN left |-> [left[k] EXCEPT !.kind = "orphan", !.key = left[k]]]
            old == orphans \o new
            u == Route(t, page)
            p == WithStore(page, t.page.store)
<1>1. /\ DOMAIN u = {"page", "flights", "tidy"}
      /\ u.page = p
      /\ u.flights = models \o old
      /\ u.tidy = (t.tidy /\ left = <<>>)
  BY ZenonT(30) DEF Route, Leave
<1>2. /\ DOMAIN p = DOMAIN page \cup {"store"}
      /\ \A x \in DOMAIN page : p[x] = page[x]
      /\ p.store = t.page.store
      /\ p.name = page.name
  BY OpenedPage DEF WithStore
<1>. HIDE DEF u, p
<1>3. AreFlights(t.flights)
  BY DEF TabOK
<1>4. /\ AreFlights(models)
      /\ \A k \in DOMAIN models : models[k].kind = "model"
      /\ HasKind(models, {"model"}) <=> HasModel(t)
      /\ OneOfKind(t.flights, {"model"}) => OneOfKind(models, {"model"})
  <2>1. /\ AreFlights(models)
        /\ \A k \in DOMAIN models : \E i \in Pending(t, {"model"}) \cap DOMAIN t.flights : models[k] = t.flights[i]
        /\ \A i \in Pending(t, {"model"}) \cap DOMAIN t.flights : \E k \in DOMAIN models : models[k] = t.flights[i]
        /\ \A kinds : OneOfKind(t.flights, kinds) => OneOfKind(models, kinds)
    BY <1>3, ThoseFlights
  <2>. HIDE DEF models
  <2>2. \A i : i \in Pending(t, {"model"}) <=> i \in DOMAIN t.flights /\ t.flights[i].kind = "model"
    BY DEF Pending
  <2>. QED
    BY <2>1, <2>2 DEF HasKind, HasModel
<1>5. /\ AreFlights(orphans)
      /\ \A k \in DOMAIN orphans : orphans[k].kind = "orphan"
      /\ HasKind(orphans, {"orphan"}) => HasOrphan(t)
      /\ \A k \in DOMAIN orphans : \E j \in DOMAIN t.flights : orphans[k] = t.flights[j]
  <2>1. /\ AreFlights(orphans)
        /\ \A k \in DOMAIN orphans : \E i \in Pending(t, {"orphan"}) \cap DOMAIN t.flights : orphans[k] = t.flights[i]
    BY <1>3, ThoseFlights
  <2>. HIDE DEF orphans
  <2>. QED
    BY <2>1 DEF HasKind, HasOrphan, Pending
<1>6. /\ AreFlights(new)
      /\ \A k \in DOMAIN new : new[k].kind = "orphan"
      /\ left = <<>> => DOMAIN new = {}
      /\ \A k \in DOMAIN new : \E j \in DOMAIN t.flights : t.flights[j].kind = "save" /\ new[k].key = t.flights[j]
  <2>. DEFINE at == {i \in Pending(t, {"save"}) : t.flights[i].pc = "sent"}
  <2>1. AreFlights(left) /\ \A k \in DOMAIN left : \E i \in at \cap DOMAIN t.flights : left[k] = t.flights[i]
    <3>. DEFINE some == Those(t.flights, at)
    <3>1. left = some
      OBVIOUS
    <3>. HIDE DEF at
    <3>2. AreFlights(some) /\ \A k \in DOMAIN some : \E i \in at \cap DOMAIN t.flights : some[k] = t.flights[i]
      BY <1>3, ThoseFlights
    <3>. HIDE DEF some, left
    <3>. QED
      BY <3>1, <3>2
  <2>10. \A k \in DOMAIN left : \E j \in DOMAIN t.flights : t.flights[j].kind = "save" /\ left[k] = t.flights[j]
    BY <2>1 DEF Pending
  <2>. HIDE DEF left
  <2>2. Len(left) \in Nat /\ DOMAIN left = 1..Len(left) /\ \A k \in 1..Len(left) : IsFlight(left[k])
    BY <2>1, FlightDomain DEF AreFlights
  <2>3. \A k \in DOMAIN new : new[k].kind = "orphan" /\ IsFlight(new[k])
    BY <2>2 DEF IsFlight, FlightFields
  <2>4. DOMAIN new = 1..Len(left) /\ new = [k \in 1..Len(left) |-> new[k]]
    BY <2>2
  <2>5. left = <<>> => Len(left) = 0
    OBVIOUS
  <2>11. \A k \in DOMAIN new : new[k].key = left[k]
    BY <2>2 DEF IsFlight, FlightFields
  <2>. DEFINE S == {new[k] : k \in 1..Len(left)}
  <2>. HIDE DEF new
  <2>6. \A k \in 1..Len(left) : new[k] \in S
    OBVIOUS
  <2>. HIDE DEF S
  <2>7. new \in Seq(S)
    BY <2>2, <2>4, <2>6, FunctionIsList
  <2>8. new \in Seq({new[k] : k \in 1..Len(new)}) /\ Len(new) \in Nat /\ DOMAIN new = 1..Len(new)
    BY <2>7, FlightList, LenProperties
  <2>9. AreFlights(new)
    BY <2>3, <2>8 DEF AreFlights
  <2>12. \A k \in DOMAIN new : \E j \in DOMAIN t.flights : t.flights[j].kind = "save" /\ new[k].key = t.flights[j]
    <3>. TAKE k \in DOMAIN new
    <3>1. k \in DOMAIN left
      BY <2>2, <2>4
    <3>2. PICK j \in DOMAIN t.flights : t.flights[j].kind = "save" /\ left[k] = t.flights[j]
      BY <2>10, <3>1
    <3>. QED
      BY <2>11, <3>2
  <2>13. left = <<>> => DOMAIN new = {}
    BY <2>2, <2>4, <2>5
  <2>. QED
    BY <2>3, <2>9, <2>12, <2>13
<1>. HIDE DEF models, orphans, left, new
<1>7. /\ AreFlights(old)
      /\ \A kinds : HasKind(old, kinds) <=> HasKind(orphans, kinds) \/ HasKind(new, kinds)
  BY <1>5, <1>6, ConcatFlights, KindsOfConcat
<1>15. \A k \in DOMAIN old :
         \E j \in DOMAIN t.flights :
           old[k] = t.flights[j] \/ (t.flights[j].kind = "save" /\ old[k].key = t.flights[j])
  <2>. TAKE k \in DOMAIN old
  <2>1. (\E i \in DOMAIN orphans : old[k] = orphans[i]) \/ (\E i \in DOMAIN new : old[k] = new[i])
    BY <1>5, <1>6, FlightOfConcat
  <2>. HIDE DEF old
  <2>. QED
    BY <1>5, <1>6, <2>1
<1>. HIDE DEF old
<1>8. /\ AreFlights(u.flights)
      /\ \A kinds : HasKind(u.flights, kinds) <=> HasKind(models, kinds) \/ HasKind(old, kinds)
      /\ \A kinds : OneOfKind(models, kinds) /\ ~HasKind(old, kinds) => OneOfKind(u.flights, kinds)
  <2>1. AreFlights(models) /\ AreFlights(old)
    BY <1>4, <1>7
  <2>. DEFINE all == models \o old
  <2>2. AreFlights(all)
    BY <2>1, ConcatFlights
  <2>3. \A kinds : /\ HasKind(all, kinds) <=> HasKind(models, kinds) \/ HasKind(old, kinds)
                   /\ OneOfKind(models, kinds) /\ ~HasKind(old, kinds) => OneOfKind(all, kinds)
    BY <2>1, KindsOfConcat
  <2>4. u.flights = all
    BY <1>1
  <2>. HIDE DEF all
  <2>. QED
    BY <2>2, <2>3, <2>4
<1>9. TabOK(u)
  BY <1>1, <1>2, <1>8, OpenedPage DEF TabOK
<1>10. ~HasKind(old, {"model"}) /\ ~HasKind(models, {"orphan"})
  BY <1>4, <1>5, <1>6, <1>7 DEF HasKind
<1>11. /\ HasModel(u) <=> HasModel(t)
       /\ OneOfKind(t.flights, {"model"}) => OneOfKind(u.flights, {"model"})
  BY <1>4, <1>8, <1>10 DEF HasModel
<1>12. u.tidy /\ ~HasOrphan(t) => ~HasOrphan(u)
  <2>1. u.tidy => ~HasKind(new, {"orphan"})
    BY <1>1, <1>6 DEF HasKind
  <2>. QED
    BY <1>5, <1>7, <1>8, <1>10, <2>1 DEF HasOrphan
<1>13. ASSUME NEW i \in DOMAIN u.flights
       PROVE  u.flights[i].kind \in {"model", "orphan"}
  <2>. DEFINE other == {u.flights[i].kind} \ {"model", "orphan"}
  <2>1. ~HasKind(models, other) /\ ~HasKind(old, other)
    BY ZenonT(30), <1>4, <1>5, <1>6, <1>7 DEF HasKind
  <2>2. ~HasKind(u.flights, other)
    BY <1>8, <2>1
  <2>. QED
    BY <2>2 DEF HasKind
<1>14. u.tidy => t.tidy
  BY <1>1
<1>16. PostsLeft(t, u)
  <2>1. ASSUME NEW k \in DOMAIN u.flights, u.flights[k].kind = "orphan"
        PROVE  \E i \in DOMAIN old : u.flights[k] = old[i]
    <3>1. (\E i \in DOMAIN models : u.flights[k] = models[i]) \/ (\E i \in DOMAIN old : u.flights[k] = old[i])
      <4>. DEFINE all == models \o old
      <4>1. k \in DOMAIN all
        BY <1>1, <2>1
      <4>2. (\E i \in DOMAIN models : all[k] = models[i]) \/ (\E i \in DOMAIN old : all[k] = old[i])
        BY <1>4, <1>7, <4>1, FlightOfConcat
      <4>. QED
        BY <1>1, <4>2
    <3>. QED
      BY <1>4, <2>1, <3>1
  <2>. QED
    BY <1>15, <2>1 DEF PostsLeft
<1>. QED
  BY <1>1, <1>2, <1>9, <1>11, <1>12, <1>13, <1>14, <1>16 DEF Routes, u

-----------------------------------------------------------------------------
(* What holds of the pages                                                 *)

\* The page of the sensors shows one of the sensors.
SensorOK(t) ==
  t.page.name = "model" =>
    /\ DOMAIN t.page = {"name", "sensor", "store"}
    /\ t.page.sensor \in ToSet(ASensors) \cup {None}

DiagramFields ==
  {"name", "sel", "asked", "data", "sent", "received", "error", "start", "end", "aggregation",
   "quality", "interpolation", "hq", "window", "zoomed", "store"}

\* The requests for data are numbered; the newest one is under way until its answer came.
Queries(t) == Pending(t, {"query"})
InSequence(t) ==
  /\ t.page.sent \in Nat /\ t.page.received \in Nat /\ t.page.received <= t.page.sent
  /\ \A i \in Queries(t) : t.flights[i].key.n \in 1..t.page.sent
  /\ \A i, j \in Queries(t) : t.flights[i].key.n = t.flights[j].key.n => i = j
  /\ AwaitsData(t.page) <=> \E i \in Queries(t) : t.flights[i].key.n = t.page.sent

\* The newest request, and the data that came with its answer, are of what is selected.
Asks(p, key) ==
  /\ plotSensorList(p.asked) # <<>>
  /\ key.list = plotSensorList(p.asked) /\ key.settings = settings(p)
DataOf(p) ==
  IF plotSensorList(p.asked) = <<>> THEN None
  ELSE [list |-> plotSensorList(p.asked), settings |-> settings(p)]
Current(t) ==
  t.tidy \/ plotSensorList(t.page.asked) # <<>> =>
    /\ \A i \in Queries(t) : t.flights[i].key.n = t.page.sent => Asks(t.page, t.flights[i].key)
    /\ ~AwaitsData(t.page) /\ ~t.page.error => t.page.data = DataOf(t.page)

\* A window of some length; after the wheel it is within the data.
WindowOK(p) ==
  LET w == p.window
  IN  /\ w = None \/ (DOMAIN w = {1, 2} /\ w[1] \in Int /\ w[2] \in Int /\ w[1] < w[2])
      /\ p.zoomed => 0 <= w[1] /\ w[1] < w[2] /\ w[2] <= FullRange

DiagramShape(t) ==
  /\ DOMAIN t.page = DiagramFields
  /\ t.page.error \in BOOLEAN /\ t.page.zoomed \in BOOLEAN
  /\ InSequence(t)
  /\ WindowOK(t.page)

\* Nothing was asked for without a model.
Unasked(p) == p.sent = 0 /\ p.error

DiagramOK(t) ==
  t.page.name = "diagram" =>
    /\ DiagramShape(t)
    /\ Current(t)
    /\ ~Loaded(t) => Unasked(t.page)

-----------------------------------------------------------------------------
(* The page for diagrams                                                   *)

\* The page is changed, but nothing about its requests and its window.
RequestFields == {"sent", "received", "window", "zoomed", "name", "store"}

LEMMA Retouched ==
  ASSUME NEW t, TabOK(t), DiagramShape(t), NEW u, DOMAIN u = DOMAIN t,
         u.flights = t.flights, u.tidy \in BOOLEAN, u.tidy => t.tidy,
         DOMAIN u.page = DiagramFields, \A x \in RequestFields : u.page[x] = t.page[x],
         u.page.error \in BOOLEAN
  PROVE  Keeps(t, u) /\ DiagramShape(u)
<1>1. /\ u.page.sent = t.page.sent /\ u.page.received = t.page.received
      /\ u.page.window = t.page.window /\ u.page.zoomed = t.page.zoomed
      /\ u.page.name = t.page.name /\ u.page.store = t.page.store
  BY DEF RequestFields
<1>2. Keeps(t, u)
  <2>1. Turns(t, u)
    BY <1>1 DEF Turns, DiagramShape
  <2>. QED
    BY <2>1, TurnsKeeps
<1>3. InSequence(u)
  BY <1>1 DEF DiagramShape, InSequence, Queries, Pending, AwaitsData
<1>4. WindowOK(u.page)
  BY <1>1 DEF DiagramShape, WindowOK
<1>. QED
  BY <1>1, <1>2, <1>3, <1>4 DEF DiagramShape

\* The diagram is created anew.
Fresh(t, u, data) ==
  /\ DOMAIN u = DOMAIN t
  /\ u.flights = t.flights /\ u.tidy = t.tidy
  /\ DOMAIN u.page = DiagramFields
  /\ \A x \in DiagramFields \ {"data", "zoomed", "window"} : u.page[x] = t.page[x]
  /\ u.page.data = data

LEMMA Created ==
  ASSUME NEW t, TabOK(t), DOMAIN t.page = DiagramFields, t.page.error \in BOOLEAN, InSequence(t), NEW data
  PROVE  LET u == createDiagram(t, data)
         IN  Fresh(t, u, data) /\ Keeps(t, u) /\ DiagramShape(u)
<1>. DEFINE u == createDiagram(t, data)
<1>1. /\ Fresh(t, u, data)
      /\ u.page.zoomed = FALSE
      /\ u.page.window = IF data = None THEN None ELSE <<0, FullRange>>
  BY DEF createDiagram, Fresh, DiagramFields, TabOK
<1>. HIDE DEF u
<1>2. WindowOK(u.page)
  BY <1>1, RangeAssumption DEF WindowOK
<1>3. /\ u.page.sent = t.page.sent /\ u.page.received = t.page.received /\ u.page.error = t.page.error
      /\ u.page.name = t.page.name /\ u.page.store = t.page.store
  BY <1>1 DEF Fresh, DiagramFields
<1>4. InSequence(u)
  BY <1>1, <1>3 DEF Fresh, InSequence, Queries, Pending, AwaitsData
<1>5. Keeps(t, u)
  <2>1. Turns(t, u)
    BY <1>1, <1>3 DEF Turns, Fresh, TabOK
  <2>. QED
    BY <2>1, TurnsKeeps
<1>6. DiagramShape(u)
  BY <1>1, <1>2, <1>3, <1>4 DEF DiagramShape, Fresh
<1>. QED
  BY <1>1, <1>5, <1>6 DEF u

\* What is asked for depends on the choices only.
Selected == {"sel", "asked", "start", "end", "aggregation", "quality", "interpolation"}

LEMMA SameChoices ==
  ASSUME NEW p, NEW q, \A x \in Selected : p[x] = q[x]
  PROVE  settings(p) = settings(q) /\ p.asked = q.asked /\ p.sel = q.sel /\ DataOf(p) = DataOf(q)
<1>1. /\ p.sel = q.sel /\ p.asked = q.asked /\ p.start = q.start /\ p.end = q.end
      /\ p.aggregation = q.aggregation /\ p.quality = q.quality /\ p.interpolation = q.interpolation
  BY DEF Selected
<1>2. settings(p) = settings(q)
  BY <1>1 DEF settings
<1>. QED
  BY <1>1, <1>2 DEF DataOf

\* What a request changes.
LEMMA RequestOK ==
  ASSUME NEW t, TabOK(t), DiagramShape(t), Loaded(t)
  PROVE  LET u == requestData(t)
         IN  /\ Keeps(t, u) /\ DiagramShape(u) /\ Current(u)
             /\ \A x \in Selected : u.page[x] = t.page[x]
<1>. DEFINE u == requestData(t)
            list == plotSensorList(t.page.asked)
            key == [n |-> t.page.sent + 1, list |-> list, settings |-> settings(t.page)]
<1>. USE DEF DiagramShape
<1>1. CASE list = <<>>
  <2>. DEFINE v == createDiagram(t, None)
  <2>1. Fresh(t, v, None) /\ Keeps(t, v) /\ DiagramShape(v)
    BY Created
  <2>2. u = UntidyIf(v, AwaitsData(t.page))
    BY <1>1 DEF requestData
  <2>. HIDE DEF u, v
  <2>3. /\ DOMAIN u = DOMAIN v /\ u.flights = v.flights /\ u.page = v.page
        /\ u.tidy \in BOOLEAN /\ (u.tidy <=> v.tidy /\ ~AwaitsData(t.page))
    BY <2>1, <2>2 DEF UntidyIf, Keeps, TabOK
  <2>4. TabOK(v) /\ \A x \in RequestFields : u.page[x] = v.page[x]
    BY <2>1, <2>3 DEF Keeps
  <2>5. Keeps(v, u) /\ DiagramShape(u)
    BY <2>1, <2>3, <2>4, Retouched
  <2>6. Keeps(t, u)
    BY <2>1, <2>5, KeepsTransitive
  <2>7. /\ \A x \in Selected : u.page[x] = t.page[x]
        /\ u.page.data = None
        /\ u.page.sent = t.page.sent /\ u.page.received = t.page.received
    BY <2>1, <2>3 DEF Fresh, Selected, DiagramFields
  <2>8. Current(u)
    <3>1. plotSensorList(u.page.asked) = <<>>
      BY <1>1, <2>7 DEF Selected
    <3>2. u.tidy => ~AwaitsData(u.page)
      BY <2>3, <2>7 DEF AwaitsData
    <3>3. u.tidy => \A i \in Queries(u) : u.flights[i].key.n # u.page.sent
      BY <2>5, <3>2 DEF InSequence
    <3>. QED
      BY <2>7, <3>1, <3>3 DEF Current, DataOf
  <2>. QED
    BY <2>5, <2>6, <2>7, <2>8 DEF u
<1>2. CASE list # <<>>
  <2>. DEFINE v == [t EXCEPT !.page.sent = @ + 1, !.page.error = FALSE]
              r == Request("query", key)
              m == Len(t.flights)
  <2>1. u = Send(v, "query", key)
    BY <1>2 DEF requestData
  <2>2. /\ DOMAIN v = DOMAIN t /\ v.flights = t.flights /\ v.tidy = t.tidy
        /\ DOMAIN v.page = DiagramFields
        /\ \A x \in DiagramFields \ {"sent", "error"} : v.page[x] = t.page[x]
        /\ v.page.sent = t.page.sent + 1 /\ v.page.error = FALSE
    BY DEF TabOK, DiagramFields
  <2>. HIDE DEF u, v
  <2>3. Turns(t, v)
    BY <2>2 DEF Turns, TabOK, DiagramFields
  <2>4. Keeps(t, v)
    BY <2>3, TurnsKeeps
  <2>5. /\ u.page = v.page /\ u.tidy = t.tidy
        /\ u.flights = Append(t.flights, r)
        /\ Keeps(v, u)
    <3>1. TabOK(v)
      BY <2>4 DEF Keeps
    <3>2. "query" \notin {"model", "orphan"}
      OBVIOUS
    <3>. HIDE DEF key
    <3>. QED
      BY SMTT(30), <2>1, <2>2, <3>1, <3>2, SendKeeps
  <2>6. Keeps(t, u)
    BY <2>4, <2>5, KeepsTransitive
  <2>7. /\ m \in Nat /\ DOMAIN t.flights = 1..m /\ DOMAIN u.flights = 1..(m + 1)
        /\ \A i \in 1..m : u.flights[i] = t.flights[i]
        /\ u.flights[m + 1] = r
    BY <2>5, RequestIsFlight, AppendFlight, FlightDomain DEF TabOK
  <2>8. r.kind = "query" /\ r.key = key /\ key.n = t.page.sent + 1
    BY DEF Request
  <2>9. /\ Queries(u) = Queries(t) \cup {m + 1}
        /\ m + 1 \notin Queries(t)
        /\ \A i \in Queries(t) : u.flights[i] = t.flights[i]
    <3>1. \A i \in 1..(m + 1) : i \in 1..m \/ i = m + 1
      BY <2>7
    <3>2. 1..m \subseteq 1..(m + 1) /\ m + 1 \in 1..(m + 1) /\ m + 1 \notin 1..m
      BY <2>7
    <3>. HIDE DEF m, r
    <3>. QED
      BY <2>7, <2>8, <3>1, <3>2 DEF Queries, Pending
  <2>10. u.page.sent = t.page.sent + 1 /\ u.page.received = t.page.received /\ u.page.error = FALSE
    BY <2>2, <2>5 DEF DiagramFields
  <2>11. /\ t.page.sent \in Nat /\ t.page.received \in Nat /\ t.page.received <= t.page.sent
         /\ \A i \in Queries(t) : t.flights[i].key.n \in 1..t.page.sent
         /\ \A i, j \in Queries(t) : t.flights[i].key.n = t.flights[j].key.n => i = j
    BY DEF InSequence
  <2>12. u.flights[m + 1].key = key
    BY <2>7, <2>8
  <2>. HIDE DEF m, r
  <2>13. InSequence(u)
    <3>1. \A i \in Queries(t) : u.flights[i].key.n \in 1..t.page.sent
      BY <2>9, <2>11
    <3>2. u.flights[m + 1].key.n = u.page.sent
      BY <2>8, <2>10, <2>12
    <3>3. AwaitsData(u.page)
      BY <2>10, <2>11 DEF AwaitsData
    <3>4. \A i \in Queries(u) : u.flights[i].key.n \in 1..u.page.sent
      BY <2>9, <2>10, <2>11, <3>1, <3>2
    <3>5. \A i, j \in Queries(u) : u.flights[i].key.n = u.flights[j].key.n => i = j
      BY <2>9, <2>10, <2>11, <3>1, <3>2
    <3>6. u.page.sent \in Nat /\ u.page.received \in Nat /\ u.page.received <= u.page.sent
      BY <2>10, <2>11
    <3>7. m + 1 \in Queries(u)
      BY <2>9
    <3>. QED
      BY <3>2, <3>3, <3>4, <3>5, <3>6, <3>7 DEF InSequence
  <2>14. DiagramShape(u)
    <3>1. u.page.window = t.page.window /\ u.page.zoomed = t.page.zoomed
      BY <2>2, <2>5 DEF DiagramFields
    <3>2. WindowOK(u.page)
      BY <3>1 DEF WindowOK
    <3>. QED
      BY <2>2, <2>5, <2>10, <2>13, <3>1, <3>2
  <2>15. \A x \in Selected : u.page[x] = t.page[x]
    BY <2>2, <2>5 DEF Selected, DiagramFields
  <2>16. Current(u)
    <3>1. settings(u.page) = settings(t.page) /\ u.page.asked = t.page.asked
      BY <2>15, SameChoices
    <3>2. \A i \in Queries(u) : u.flights[i].key.n = u.page.sent => i = m + 1
      BY <2>9, <2>10, <2>11
    <3>3. AwaitsData(u.page)
      BY <2>10, <2>11 DEF AwaitsData
    <3>4. Asks(u.page, key)
      BY <1>2, <3>1 DEF Asks
    <3>. QED
      BY <2>12, <3>2, <3>3, <3>4 DEF Current
  <2>. QED
    BY <2>6, <2>14, <2>15, <2>16 DEF u
<1>. QED
  BY <1>1, <1>2

LEMMA TellOK ==
  ASSUME NEW t, TabOK(t), DiagramShape(t), Loaded(t)
  PROVE  LET u == Tell(t)
         IN  /\ Keeps(t, u) /\ DiagramShape(u) /\ Current(u)
             /\ u.page.sel = t.page.sel
             /\ u.page.asked = [stations |-> selectedPlotstations(t.page.sel), sensors |-> Chosen(t.page.sel.sensors)]
<1>. DEFINE v == Told(t)
            u == Tell(t)
            asked == [stations |-> selectedPlotstations(t.page.sel), sensors |-> Chosen(t.page.sel.sensors)]
<1>1. /\ DOMAIN v = DOMAIN t /\ v.flights = t.flights /\ v.tidy = t.tidy
      /\ DOMAIN v.page = DiagramFields
      /\ \A x \in DiagramFields \ {"asked"} : v.page[x] = t.page[x]
      /\ v.page.asked = asked
  BY DEF TabOK, Told, DiagramShape, DiagramFields
<1>2. u = requestData(v)
  BY DEF Tell
<1>. HIDE DEF u, v, asked
<1>3. /\ \A x \in RequestFields : v.page[x] = t.page[x]
      /\ v.page.error = t.page.error /\ v.page.sel = t.page.sel /\ v.page.store = t.page.store
  BY <1>1 DEF DiagramFields, RequestFields
<1>4. Keeps(t, v) /\ DiagramShape(v)
  <2>1. v.page.error \in BOOLEAN /\ v.tidy \in BOOLEAN /\ (v.tidy => t.tidy)
    BY <1>1, <1>3 DEF TabOK, DiagramShape
  <2>. QED
    BY <1>1, <1>3, <2>1, Retouched
<1>5. TabOK(v) /\ Loaded(v)
  BY <1>3, <1>4 DEF Keeps, Loaded
<1>6. Keeps(v, u) /\ DiagramShape(u) /\ Current(u) /\ \A x \in Selected : u.page[x] = v.page[x]
  BY <1>2, <1>4, <1>5, RequestOK
<1>7. Keeps(t, u)
  BY <1>4, <1>6, KeepsTransitive
<1>8. u.page.sel = t.page.sel /\ u.page.asked = asked
  BY <1>1, <1>3, <1>6 DEF Selected
<1>. QED
  BY <1>6, <1>7, <1>8 DEF u, asked

\* A handler of the page is done.
Done(t, u) == Keeps(t, u) /\ DiagramShape(u) /\ Current(u)

LEMMA SelectsDone ==
  ASSUME TabOK(tab), DiagramOK(tab), NEW S, Selects(S)
  PROVE  Done(tab, tab')
<1>1. OnDiagram
  BY DEF Selects
<1>2. DiagramShape(tab) /\ Loaded(tab)
  BY <1>1 DEF OnDiagram, OnPage, DiagramOK
<1>3. PICK s \in S : tab' = Tell([tab EXCEPT !.page.sel = s])
  BY DEF Selects
<1>. DEFINE v == [tab EXCEPT !.page.sel = s]
<1>4. /\ DOMAIN v = DOMAIN tab /\ v.flights = tab.flights /\ v.tidy = tab.tidy
      /\ DOMAIN v.page = DiagramFields
      /\ \A x \in DiagramFields \ {"sel"} : v.page[x] = tab.page[x]
  BY <1>2 DEF TabOK, DiagramShape, DiagramFields
<1>5. tab' = Tell(v)
  BY <1>3
<1>. HIDE DEF v
<1>6. /\ \A x \in RequestFields : v.page[x] = tab.page[x]
      /\ v.page.error = tab.page.error /\ v.page.store = tab.page.store
  BY <1>4 DEF DiagramFields, RequestFields
<1>7. Keeps(tab, v) /\ DiagramShape(v)
  <2>1. v.page.error \in BOOLEAN /\ v.tidy \in BOOLEAN /\ (v.tidy => tab.tidy)
    BY <1>2, <1>4, <1>6 DEF TabOK, DiagramShape
  <2>. QED
    BY <1>2, <1>4, <1>6, <2>1, Retouched
<1>8. TabOK(v) /\ Loaded(v)
  BY <1>2, <1>6, <1>7 DEF Keeps, Loaded
<1>9. Keeps(v, tab') /\ DiagramShape(tab') /\ Current(tab')
  BY <1>5, <1>7, <1>8, TellOK
<1>. QED
  BY <1>7, <1>9, KeepsTransitive DEF Done

\* The page with other choices.
Rechosen(p, q) ==
  /\ DOMAIN q = DiagramFields
  /\ \A x \in DiagramFields \ Selected : q[x] = p[x]

LEMMA RechosenOK ==
  ASSUME NEW t, TabOK(t), DiagramShape(t), Loaded(t), NEW v, DOMAIN v = DOMAIN t,
         v.flights = t.flights, v.tidy = t.tidy, Rechosen(t.page, v.page)
  PROVE  Keeps(t, v) /\ DiagramShape(v) /\ TabOK(v) /\ Loaded(v)
<1>1. /\ \A x \in RequestFields : v.page[x] = t.page[x]
      /\ v.page.error = t.page.error /\ v.page.store = t.page.store
      /\ DOMAIN v.page = DiagramFields
  BY DEF DiagramFields, RequestFields, Rechosen, Selected
<1>2. v.page.error \in BOOLEAN /\ v.tidy \in BOOLEAN /\ (v.tidy => t.tidy)
  BY <1>1 DEF TabOK, DiagramShape
<1>3. Keeps(t, v) /\ DiagramShape(v)
  BY <1>1, <1>2, Retouched
<1>. QED
  BY <1>1, <1>3 DEF Keeps, Loaded

LEMMA SetsDone ==
  ASSUME TabOK(tab), DiagramOK(tab), NEW S, Sets(S), \A p \in S : Rechosen(tab.page, p)
  PROVE  Done(tab, tab')
<1>1. DiagramShape(tab) /\ Loaded(tab)
  BY DEF Sets, OnDiagram, OnPage, DiagramOK
<1>2. PICK p \in S : tab' = requestData([tab EXCEPT !.page = p])
  BY DEF Sets
<1>. DEFINE v == [tab EXCEPT !.page = p]
<1>3. /\ DOMAIN v = DOMAIN tab /\ v.flights = tab.flights /\ v.tidy = tab.tidy /\ v.page = p
  BY DEF TabOK
<1>4. tab' = requestData(v)
  BY <1>2
<1>. HIDE DEF v
<1>5. Keeps(tab, v) /\ DiagramShape(v) /\ TabOK(v) /\ Loaded(v)
  BY <1>1, <1>2, <1>3, RechosenOK
<1>6. Keeps(v, tab') /\ DiagramShape(tab') /\ Current(tab')
  BY <1>4, <1>5, RequestOK
<1>. QED
  BY <1>5, <1>6, KeepsTransitive DEF Done

LEMMA QualityDone ==
  ASSUME TabOK(tab), DiagramOK(tab), selectQuality \/ selectInterpolation \/ enterTime
  PROVE  Done(tab, tab')
<1>1. DOMAIN tab.page = DiagramFields
  BY DEF selectQuality, selectInterpolation, enterTime, Sets, OnDiagram, OnPage, DiagramOK, DiagramShape
<1>2. \A v : \A x \in {"quality", "interpolation", "start", "end"} :
        Rechosen(tab.page, [tab.page EXCEPT ![x] = v])
  BY <1>1 DEF Rechosen, Selected, DiagramFields
<1>3. CASE selectQuality
  <2>. DEFINE values == {"none", "step", "empirical"} \ {q \in {"empirical"} : tab.page.aggregation = "none"}
              S == {[tab.page EXCEPT !.quality = v] : v \in values}
  <2>1. Sets(S)
    BY <1>3 DEF selectQuality
  <2>2. \A p \in S : Rechosen(tab.page, p)
    BY <1>2
  <2>. QED
    BY <2>1, <2>2, SetsDone
<1>4. CASE selectInterpolation
  <2>. DEFINE S == {[tab.page EXCEPT !.interpolation = ~@]}
  <2>1. Sets(S)
    BY <1>4 DEF selectInterpolation
  <2>2. \A p \in S : Rechosen(tab.page, p)
    BY <1>2
  <2>. QED
    BY <2>1, <2>2, SetsDone
<1>5. CASE enterTime
  <2>. DEFINE S == {[tab.page EXCEPT !.start = v] : v \in {None, 1}} \cup {[tab.page EXCEPT !.end = v] : v \in {None, 1}}
  <2>1. Sets(S)
    BY <1>5 DEF enterTime
  <2>2. \A p \in S : Rechosen(tab.page, p)
    BY <1>2
  <2>. QED
    BY <2>1, <2>2, SetsDone
<1>. QED
  BY <1>3, <1>4, <1>5

\* The selection stays, and what is asked for.
SameSelection(t, u) == u.page.sel = t.page.sel /\ u.page.asked = t.page.asked

\* The sensors that are not aggregated go.
Aggregated(model) == Among(model, {x \in ToSet(model) : AggregationsOf[x] # {}})
DropsSensors(t, u) ==
  /\ t.page.sel.sensors # None
  /\ u.page.sel = [t.page.sel EXCEPT !.sensors = Aggregated(@)]
  /\ u.page.asked = [stations |-> selectedPlotstations(u.page.sel), sensors |-> Chosen(u.page.sel.sensors)]

LEMMA AggregationDone ==
  ASSUME TabOK(tab), DiagramOK(tab), selectAggregation
  PROVE  Done(tab, tab') /\ (SameSelection(tab, tab') \/ DropsSensors(tab, tab'))
<1>1. DiagramShape(tab) /\ Loaded(tab)
  BY ZenonT(30) DEF selectAggregation, OnDiagram, OnPage, DiagramOK
<1>2. PICK v \in {"none", "hour", "day"} :
        LET reset == v = "none" /\ tab.page.quality = "empirical"
            drops == tab.page.aggregation = "none" /\ tab.page.sel.sensors # None
            one == [tab EXCEPT !.page.aggregation = v, !.page.quality = IF reset THEN "step" ELSE @]
            two == IF reset THEN requestData(requestData(one)) ELSE requestData(one)
        IN  tab' = IF drops
                     THEN Tell([two EXCEPT !.page.sel.sensors = Among(@, {x \in ToSet(@) : AggregationsOf[x] # {}})])
                     ELSE two
  BY ZenonT(30) DEF selectAggregation
<1>. DEFINE reset == v = "none" /\ tab.page.quality = "empirical"
            drops == tab.page.aggregation = "none" /\ tab.page.sel.sensors # None
            one == [tab EXCEPT !.page.aggregation = v, !.page.quality = IF reset THEN "step" ELSE @]
            two == IF reset THEN requestData(requestData(one)) ELSE requestData(one)
            three == [two EXCEPT !.page.sel.sensors = Among(@, {x \in ToSet(@) : AggregationsOf[x] # {}})]
<1>3. tab' = IF drops THEN Tell(three) ELSE two
  BY ZenonT(30), <1>2
<1>4. Keeps(tab, one) /\ DiagramShape(one) /\ TabOK(one) /\ Loaded(one) /\ SameSelection(tab, one)
  <2>1. /\ DOMAIN one = DOMAIN tab /\ one.flights = tab.flights /\ one.tidy = tab.tidy
        /\ Rechosen(tab.page, one.page)
        /\ SameSelection(tab, one)
    BY <1>1 DEF TabOK, DiagramShape, DiagramFields, Rechosen, Selected, SameSelection
  <2>. HIDE DEF one
  <2>. QED
    BY <1>1, <2>1, RechosenOK
<1>. HIDE DEF one
<1>5. \A t : TabOK(t) /\ DiagramShape(t) /\ Loaded(t) =>
               /\ Keeps(t, requestData(t)) /\ DiagramShape(requestData(t)) /\ Current(requestData(t))
               /\ TabOK(requestData(t)) /\ Loaded(requestData(t)) /\ SameSelection(t, requestData(t))
  <2>. TAKE t
  <2>. HAVE TabOK(t) /\ DiagramShape(t) /\ Loaded(t)
  <2>1. /\ Keeps(t, requestData(t)) /\ DiagramShape(requestData(t)) /\ Current(requestData(t))
        /\ \A x \in Selected : requestData(t).page[x] = t.page[x]
    BY RequestOK
  <2>2. requestData(t).page.sel = t.page.sel /\ requestData(t).page.asked = t.page.asked
    BY <2>1 DEF Selected
  <2>. QED
    BY <2>1, <2>2 DEF Keeps, Loaded, SameSelection
<1>6. /\ Keeps(tab, two) /\ DiagramShape(two) /\ Current(two) /\ TabOK(two) /\ Loaded(two)
      /\ SameSelection(tab, two)
  <2>. DEFINE a == requestData(one)
              b == requestData(a)
  <2>1. /\ Keeps(tab, a) /\ DiagramShape(a) /\ Current(a) /\ TabOK(a) /\ Loaded(a)
        /\ SameSelection(tab, a)
    BY <1>4, <1>5, KeepsTransitive DEF SameSelection
  <2>. HIDE DEF a
  <2>2. /\ Keeps(tab, b) /\ DiagramShape(b) /\ Current(b) /\ TabOK(b) /\ Loaded(b)
        /\ SameSelection(tab, b)
    BY <1>5, <2>1, KeepsTransitive DEF SameSelection
  <2>. HIDE DEF b
  <2>3. two = IF reset THEN b ELSE a
    BY DEF a, b
  <2>. QED
    BY <2>1, <2>2, <2>3
<1>. HIDE DEF two
<1>7. /\ Keeps(two, three) /\ DiagramShape(three) /\ TabOK(three) /\ Loaded(three)
      /\ three.page.sel = [two.page.sel EXCEPT !.sensors = Aggregated(@)]
  <2>1. /\ DOMAIN three = DOMAIN two /\ three.flights = two.flights /\ three.tidy = two.tidy
        /\ Rechosen(two.page, three.page)
        /\ three.page.sel = [two.page.sel EXCEPT !.sensors = Aggregated(@)]
    BY <1>6 DEF TabOK, DiagramShape, DiagramFields, Rechosen, Selected, Aggregated
  <2>. HIDE DEF three
  <2>. QED
    BY <1>6, <2>1, RechosenOK
<1>. HIDE DEF three
<1>8. CASE drops
  <2>. DEFINE u == tab'
  <2>1. u = Tell(three)
    BY <1>3, <1>8
  <2>. HIDE DEF u
  <2>2. /\ Keeps(three, u) /\ DiagramShape(u) /\ Current(u)
        /\ u.page.sel = three.page.sel
        /\ u.page.asked = [stations |-> selectedPlotstations(three.page.sel), sensors |-> Chosen(three.page.sel.sensors)]
    BY <1>7, <2>1, TellOK
  <2>3. Done(tab, u)
    BY <1>6, <1>7, <2>2, KeepsTransitive DEF Done
  <2>4. DropsSensors(tab, u)
    BY <1>6, <1>7, <1>8, <2>2 DEF DropsSensors, SameSelection
  <2>. QED
    BY <2>3, <2>4 DEF u
<1>9. CASE ~drops
  BY <1>3, <1>6, <1>9 DEF Done
<1>. QED
  BY <1>8, <1>9

LEMMA HighQualityDone ==
  ASSUME TabOK(tab), DiagramOK(tab), selectHighQuality
  PROVE  Done(tab, tab')
<1>1. DiagramShape(tab) /\ Loaded(tab) /\ Current(tab)
  BY DEF selectHighQuality, OnDiagram, OnPage, DiagramOK
<1>. DEFINE v == [tab EXCEPT !.page.hq = ~@]
            data == tab.page.data
<1>2. tab' = createDiagram(v, data)
  BY DEF selectHighQuality
<1>3. /\ DOMAIN v = DOMAIN tab /\ v.flights = tab.flights /\ v.tidy = tab.tidy
      /\ DOMAIN v.page = DiagramFields
      /\ \A x \in DiagramFields \ {"hq"} : v.page[x] = tab.page[x]
  BY <1>1 DEF TabOK, DiagramShape, DiagramFields
<1>. HIDE DEF v, data
<1>4. v.page.error \in BOOLEAN /\ v.tidy \in BOOLEAN /\ (v.tidy => tab.tidy) /\ \A x \in RequestFields : v.page[x] = tab.page[x]
  BY <1>1, <1>3 DEF TabOK, DiagramShape, RequestFields, DiagramFields
<1>5. Keeps(tab, v) /\ DiagramShape(v)
  BY <1>1, <1>3, <1>4, Retouched
<1>6. Fresh(v, tab', data) /\ Keeps(v, tab') /\ DiagramShape(tab')
  <2>1. TabOK(v) /\ DOMAIN v.page = DiagramFields /\ v.page.error \in BOOLEAN /\ InSequence(v)
    BY <1>5 DEF Keeps, DiagramShape
  <2>. QED
    BY <1>2, <2>1, Created
<1>7. Keeps(tab, tab')
  BY <1>5, <1>6, KeepsTransitive
<1>8. Current(tab')
  <2>1. /\ tab'.flights = tab.flights /\ tab'.tidy = tab.tidy
        /\ tab'.page.sent = tab.page.sent /\ tab'.page.received = tab.page.received
        /\ tab'.page.error = tab.page.error /\ tab'.page.data = tab.page.data
        /\ \A x \in Selected : tab'.page[x] = tab.page[x]
    BY <1>3, <1>6 DEF Fresh, DiagramFields, Selected, data
  <2>2. /\ settings(tab'.page) = settings(tab.page) /\ tab'.page.asked = tab.page.asked
        /\ DataOf(tab'.page) = DataOf(tab.page)
    <3>. DEFINE p == tab.page
                q == tab'.page
    <3>1. \A x \in Selected : q[x] = p[x]
      BY <2>1
    <3>. HIDE DEF p, q
    <3>2. settings(q) = settings(p) /\ q.asked = p.asked /\ DataOf(q) = DataOf(p)
      BY <3>1, SameChoices
    <3>. QED
      BY <3>2 DEF p, q
  <2>3. \A key : Asks(tab'.page, key) <=> Asks(tab.page, key)
    BY <2>2 DEF Asks
  <2>4. Queries(tab') = Queries(tab)
    BY <2>1 DEF Queries, Pending
  <2>5. AwaitsData(tab'.page) <=> AwaitsData(tab.page)
    BY <2>1 DEF AwaitsData
  <2>. QED
    BY <1>1, <2>1, <2>2, <2>3, <2>4, <2>5 DEF Current
<1>. QED
  BY <1>6, <1>7, <1>8 DEF Done

\* A flight leaves: the other requests for data are the same.
LEMMA OtherQueries ==
  ASSUME NEW t, AreFlights(t.flights), NEW i \in DOMAIN t.flights, NEW u, u.flights = RemoveAt(t.flights, i),
         \A k, l \in Queries(t) : t.flights[k].key.n = t.flights[l].key.n => k = l
  PROVE  /\ \A k \in Queries(u) : \E j \in Queries(t) \ {i} : u.flights[k] = t.flights[j]
         /\ \A j \in Queries(t) \ {i} : \E k \in Queries(u) : u.flights[k] = t.flights[j]
         /\ \A k, l \in Queries(u) : u.flights[k].key.n = u.flights[l].key.n => k = l
<1>. DEFINE s == t.flights
            new == u.flights
            n == Len(s)
<1>1. /\ \A k \in DOMAIN new : Moved(k, i) \in DOMAIN s \ {i} /\ new[k] = s[Moved(k, i)]
      /\ \A j \in DOMAIN s \ {i} : \E k \in DOMAIN new : j = Moved(k, i)
      /\ DOMAIN new = 1..(n - 1)
  BY RemoveFlight
<1>2. \A k, l \in DOMAIN new : Moved(k, i) = Moved(l, i) => k = l
  <2>1. n \in Nat /\ i \in 1..n
    BY FlightDomain
  <2>. HIDE DEF new, n
  <2>. QED
    BY <1>1, <2>1 DEF Moved
<1>3. \A k : k \in Queries(u) <=> k \in DOMAIN new /\ new[k].kind = "query"
  BY DEF Queries, Pending
<1>4. \A k : k \in Queries(t) <=> k \in DOMAIN s /\ s[k].kind = "query"
  BY DEF Queries, Pending
<1>5. \A k, l \in Queries(t) : s[k].key.n = s[l].key.n => k = l
  OBVIOUS
<1>. HIDE DEF new, s, n
<1>6. \A k \in Queries(u) : Moved(k, i) \in Queries(t) \ {i} /\ new[k] = s[Moved(k, i)]
  BY <1>1, <1>3, <1>4
<1>7. \A j \in Queries(t) \ {i} : \E k \in Queries(u) : new[k] = s[j]
  BY <1>1, <1>3, <1>4
<1>8. \A k, l \in Queries(u) : new[k].key.n = new[l].key.n => k = l
  BY <1>2, <1>3, <1>5, <1>6
<1>. QED
  BY <1>6, <1>7, <1>8 DEF new, s

LEMMA QueryGone ==
  ASSUME TabOK(tab), DiagramShape(tab), NEW i \in Queries(tab), NEW overlap
  PROVE  LET u == UntidyIf(Gone(i), overlap)
         IN  /\ Keeps(tab, u) /\ DOMAIN u = DOMAIN tab /\ u.page = tab.page
             /\ \A k \in Queries(u) : \E j \in Queries(tab) \ {i} : u.flights[k] = tab.flights[j]
             /\ \A j \in Queries(tab) \ {i} : \E k \in Queries(u) : u.flights[k] = tab.flights[j]
             /\ \A k, l \in Queries(u) : u.flights[k].key.n = u.flights[l].key.n => k = l
<1>. DEFINE u == UntidyIf(Gone(i), overlap)
<1>1. i \in DOMAIN tab.flights /\ tab.flights[i].kind = "query" /\ AreFlights(tab.flights)
  BY DEF Queries, Pending, TabOK
<1>2. Keeps(tab, u) /\ DOMAIN u = DOMAIN tab /\ u.page = tab.page /\ u.flights = RemoveAt(tab.flights, i)
  BY <1>1, GoneKeeps
<1>3. \A k, l \in Queries(tab) : tab.flights[k].key.n = tab.flights[l].key.n => k = l
  BY DEF DiagramShape, InSequence
<1>. HIDE DEF u
<1>. QED
  BY <1>1, <1>2, <1>3, OtherQueries DEF u

\* An older request leaves.
LEMMA OlderGone ==
  ASSUME TabOK(tab), DiagramShape(tab), Current(tab), NEW i \in Queries(tab), NEW overlap,
         tab.flights[i].key.n # tab.page.sent
  PROVE  Done(tab, UntidyIf(Gone(i), overlap))
<1>. DEFINE u == UntidyIf(Gone(i), overlap)
<1>1. /\ Keeps(tab, u) /\ u.page = tab.page
      /\ \A k \in Queries(u) : \E j \in Queries(tab) \ {i} : u.flights[k] = tab.flights[j]
      /\ \A j \in Queries(tab) \ {i} : \E k \in Queries(u) : u.flights[k] = tab.flights[j]
      /\ \A k, l \in Queries(u) : u.flights[k].key.n = u.flights[l].key.n => k = l
  BY QueryGone
<1>. HIDE DEF u
<1>2. u.tidy => tab.tidy
  BY <1>1 DEF Keeps
<1>3. InSequence(u)
  <2>1. \A k \in Queries(u) : u.flights[k].key.n \in 1..u.page.sent
    BY <1>1 DEF DiagramShape, InSequence
  <2>2. (\E k \in Queries(u) : u.flights[k].key.n = u.page.sent)
        <=> (\E j \in Queries(tab) : tab.flights[j].key.n = tab.page.sent)
    BY <1>1
  <2>. QED
    BY <1>1, <2>1, <2>2 DEF DiagramShape, InSequence
<1>4. Current(u)
  BY <1>1, <1>2 DEF Current
<1>5. DiagramShape(u)
  BY <1>1, <1>3 DEF DiagramShape
<1>. QED
  BY <1>1, <1>4, <1>5 DEF Done, u

\* The newest request leaves: nothing is awaited any more.
LEMMA NewestGone ==
  ASSUME TabOK(tab), DiagramShape(tab), Current(tab), NEW i \in Queries(tab), NEW overlap,
         tab.flights[i].key.n = tab.page.sent, NEW v, NEW data, NEW failed \in BOOLEAN,
         LET u == UntidyIf(Gone(i), overlap)
         IN  /\ DOMAIN v = DOMAIN u /\ v.flights = u.flights /\ v.tidy = u.tidy
             /\ DOMAIN v.page = DiagramFields
             /\ \A x \in DiagramFields \ {"received", "error"} : v.page[x] = u.page[x]
             /\ v.page.received = tab.page.sent
             /\ v.page.error = IF failed THEN TRUE ELSE u.page.error,
         failed \/ data = [list |-> tab.flights[i].key.list, settings |-> tab.flights[i].key.settings]
  PROVE  Done(tab, createDiagram(v, data))
<1>. DEFINE u == UntidyIf(Gone(i), overlap)
            w == createDiagram(v, data)
            key == tab.flights[i].key
<1>1. /\ Keeps(tab, u) /\ DOMAIN u = DOMAIN tab /\ u.page = tab.page
      /\ \A k \in Queries(u) : \E j \in Queries(tab) \ {i} : u.flights[k] = tab.flights[j]
      /\ \A k, l \in Queries(u) : u.flights[k].key.n = u.flights[l].key.n => k = l
  BY QueryGone
<1>2. /\ DOMAIN v = DOMAIN u /\ v.flights = u.flights /\ v.tidy = u.tidy
      /\ DOMAIN v.page = DiagramFields
      /\ \A x \in DiagramFields \ {"received", "error"} : v.page[x] = u.page[x]
      /\ v.page.received = tab.page.sent
      /\ v.page.error = IF failed THEN TRUE ELSE u.page.error
  OBVIOUS
<1>. HIDE DEF u
<1>3. /\ v.page.sent = tab.page.sent /\ v.page.name = tab.page.name /\ v.page.store = tab.page.store
      /\ v.page.error \in BOOLEAN
      /\ failed => v.page.error
      /\ \A x \in Selected : v.page[x] = tab.page[x]
  BY <1>1, <1>2 DEF DiagramFields, Selected, DiagramShape
<1>4. TabOK(u) /\ (u.tidy => tab.tidy)
  BY <1>1 DEF Keeps
<1>5. Keeps(u, v) /\ TabOK(v)
  <2>1. Turns(u, v)
    BY <1>1, <1>2, <1>3, <1>4 DEF Turns, TabOK, DiagramShape
  <2>2. Keeps(u, v)
    BY <1>4, <2>1, TurnsKeeps
  <2>. QED
    BY <2>2 DEF Keeps
<1>6. \A k \in Queries(u) : u.flights[k].key.n \in 1..tab.page.sent /\ u.flights[k].key.n # tab.page.sent
  BY <1>1 DEF DiagramShape, InSequence
<1>7. Queries(v) = Queries(u) /\ v.flights = u.flights
  BY <1>2 DEF Queries, Pending
<1>8. InSequence(v) /\ ~AwaitsData(v.page)
  BY SMTT(30), <1>1, <1>2, <1>3, <1>6, <1>7 DEF InSequence, AwaitsData, DiagramShape
<1>9. Fresh(v, w, data) /\ Keeps(v, w) /\ DiagramShape(w)
  BY <1>2, <1>3, <1>5, <1>8, Created
<1>. HIDE DEF w, key
<1>10. Keeps(tab, w)
  BY <1>1, <1>5, <1>9, KeepsTransitive
<1>11. /\ w.flights = v.flights /\ w.tidy = v.tidy
       /\ w.page.sent = tab.page.sent /\ w.page.received = v.page.received /\ w.page.error = v.page.error
       /\ w.page.data = data
       /\ \A x \in Selected : w.page[x] = tab.page[x]
  BY <1>3, <1>9 DEF Fresh, DiagramFields, Selected
<1>12. Current(w)
  <2>. DEFINE exact == w.tidy \/ plotSensorList(w.page.asked) # <<>>
  <2>4. w.page.asked = tab.page.asked
    BY <1>11 DEF Selected
  <2>1. ASSUME exact
        PROVE  Asks(tab.page, key)
    BY <1>2, <1>4, <1>11, <2>1, <2>4 DEF Current, key
  <2>2. ASSUME exact, ~w.page.error
        PROVE  w.page.data = DataOf(w.page)
    <3>. DEFINE p == tab.page
                q == w.page
    <3>1. \A x \in Selected : q[x] = p[x]
      BY <1>11
    <3>. HIDE DEF p, q
    <3>2. DataOf(q) = DataOf(p)
      BY <3>1, SameChoices
    <3>3. data = DataOf(p)
      BY <1>3, <1>11, <2>1, <2>2 DEF DataOf, Asks, key, p
    <3>. QED
      BY <1>11, <3>2, <3>3 DEF q
  <2>3. \A k \in Queries(w) : w.flights[k].key.n # w.page.sent
    BY <1>6, <1>7, <1>11 DEF Queries, Pending
  <2>. QED
    BY <2>2, <2>3 DEF Current
<1>. QED
  BY <1>9, <1>10, <1>12 DEF Done, w

LEMMA LandQueryDone ==
  ASSUME TabOK(tab), DiagramOK(tab), LandQuery
  PROVE  Done(tab, tab')
<1>1. DiagramShape(tab) /\ Loaded(tab) /\ Current(tab)
  BY DEF LandQuery, OnDiagram, OnPage, DiagramOK
<1>2. PICK i \in Queries(tab) :
        LET f == tab.flights[i]
        IN  tab' = QueryLanded(UntidyIf(Gone(i), ~InOrder(i, {f.kind})), [f EXCEPT !.answer = f.key])
  BY DEF LandQuery, LandWith, Queries
<1>. DEFINE f == tab.flights[i]
            overlap == ~InOrder(i, {f.kind})
            u == UntidyIf(Gone(i), overlap)
            key == f.key
            data == [list |-> key.list, settings |-> key.settings]
            v == [u EXCEPT !.page.received = key.n]
            e == [f EXCEPT !.answer = f.key]
<1>3. e.key = key
  <2>1. DOMAIN f = FlightFields
    BY FlightDomain DEF Queries, Pending, TabOK, AreFlights, IsFlight
  <2>. QED
    BY <2>1 DEF FlightFields
<1>4. tab' = QueryLanded(u, e)
  BY <1>2
<1>5. Keeps(tab, u) /\ DOMAIN u = DOMAIN tab /\ u.page = tab.page
  BY <1>1, QueryGone
<1>. HIDE DEF e, overlap, f, u
<1>6. tab' = IF key.n < u.page.sent THEN u ELSE createDiagram(v, data)
  BY <1>3, <1>4 DEF QueryLanded
<1>7. key.n \in 1..tab.page.sent /\ tab.page.sent \in Nat
  BY <1>1 DEF DiagramShape, InSequence, f
<1>8. CASE key.n # tab.page.sent
  <2>1. tab' = u
    BY <1>5, <1>6, <1>7, <1>8
  <2>. QED
    BY <1>1, <1>8, <2>1, OlderGone DEF u, f
<1>9. CASE key.n = tab.page.sent
  <2>1. tab' = createDiagram(v, data)
    BY <1>5, <1>6, <1>7, <1>9
  <2>2. /\ DOMAIN v = DOMAIN u /\ v.flights = u.flights /\ v.tidy = u.tidy
        /\ DOMAIN v.page = DiagramFields
        /\ \A x \in DiagramFields \ {"received", "error"} : v.page[x] = u.page[x]
        /\ v.page.received = tab.page.sent
        /\ v.page.error = u.page.error
    BY <1>1, <1>5, <1>9 DEF TabOK, DiagramShape, DiagramFields
  <2>3. FALSE \in BOOLEAN
    OBVIOUS
  <2>. HIDE DEF v
  <2>. QED
    BY <1>1, <1>9, <2>1, <2>2, <2>3, NewestGone DEF u, f
<1>. QED
  BY <1>8, <1>9

LEMMA FailQueryDone ==
  ASSUME TabOK(tab), DiagramOK(tab), FailQuery
  PROVE  Done(tab, tab')
<1>1. DiagramShape(tab) /\ Loaded(tab) /\ Current(tab)
  BY DEF FailQuery, OnDiagram, OnPage, DiagramOK
<1>2. PICK i \in Queries(tab) :
        tab' = QueryFailed(UntidyIf(Gone(i), Len(tab.flights) > 1), tab.flights[i])
  BY DEF FailQuery, FailWith, Queries
<1>. DEFINE f == tab.flights[i]
            overlap == Len(tab.flights) > 1
            u == UntidyIf(Gone(i), overlap)
            key == f.key
            v == [u EXCEPT !.page.received = key.n, !.page.error = TRUE]
<1>4. tab' = QueryFailed(u, f)
  BY <1>2
<1>5. Keeps(tab, u) /\ DOMAIN u = DOMAIN tab /\ u.page = tab.page
  BY <1>1, QueryGone
<1>. HIDE DEF overlap, f, u
<1>6. tab' = IF key.n < u.page.sent THEN u ELSE createDiagram(v, None)
  BY <1>4 DEF QueryFailed
<1>7. key.n \in 1..tab.page.sent /\ tab.page.sent \in Nat
  BY <1>1 DEF DiagramShape, InSequence, f
<1>8. CASE key.n # tab.page.sent
  <2>1. tab' = u
    BY <1>5, <1>6, <1>7, <1>8
  <2>. QED
    BY <1>1, <1>8, <2>1, OlderGone DEF u, f
<1>9. CASE key.n = tab.page.sent
  <2>1. tab' = createDiagram(v, None)
    BY <1>5, <1>6, <1>7, <1>9
  <2>2. /\ DOMAIN v = DOMAIN u /\ v.flights = u.flights /\ v.tidy = u.tidy
        /\ DOMAIN v.page = DiagramFields
        /\ \A x \in DiagramFields \ {"received", "error"} : v.page[x] = u.page[x]
        /\ v.page.received = tab.page.sent
        /\ v.page.error = TRUE
    BY <1>1, <1>5, <1>9 DEF TabOK, DiagramShape, DiagramFields
  <2>3. TRUE \in BOOLEAN
    OBVIOUS
  <2>. HIDE DEF v
  <2>. QED
    BY <1>1, <1>9, <2>1, <2>2, <2>3, NewestGone DEF u, f
<1>. QED
  BY <1>8, <1>9

-----------------------------------------------------------------------------
(* The window of time                                                      *)

Window(w) == DOMAIN w = {1, 2} /\ w[1] \in Int /\ w[2] \in Int /\ w[1] < w[2]
WithinData(w) == 0 <= w[1] /\ w[1] < w[2] /\ w[2] <= FullRange

LEMMA PairIsWindow ==
  ASSUME NEW a \in Int, NEW b \in Int, a < b
  PROVE  Window(<<a, b>>)
BY DEF Window

\* What the wheel shows is within the data, whatever was shown before.
LEMMA ClampWithin ==
  ASSUME NEW range \in Int, range > 0, NEW lo \in Int
  PROVE  Window(clamp(range, lo)) /\ WithinData(clamp(range, lo))
<1>. DEFINE c == clamp(range, lo)
<1>1. FullRange \in Nat /\ FullRange > 0
  BY RangeAssumption
<1>2. CASE range > FullRange
  <2>1. c = <<0, FullRange>>
    BY <1>2 DEF clamp
  <2>. QED
    BY <1>1, <2>1 DEF Window, WithinData
<1>3. CASE range <= FullRange /\ lo < 0
  <2>1. c = <<0, range>>
    BY <1>1, <1>3 DEF clamp
  <2>. QED
    BY <1>1, <1>3, <2>1 DEF Window, WithinData
<1>4. CASE range <= FullRange /\ ~(lo < 0) /\ lo + range > FullRange
  <2>1. c = <<FullRange - range, FullRange>>
    BY <1>1, <1>4 DEF clamp
  <2>. QED
    BY <1>1, <1>4, <2>1 DEF Window, WithinData
<1>5. CASE range <= FullRange /\ ~(lo < 0) /\ ~(lo + range > FullRange)
  <2>1. c = <<lo, lo + range>>
    BY <1>1, <1>5 DEF clamp
  <2>. QED
    BY <1>1, <1>5, <2>1 DEF Window, WithinData
<1>. QED
  BY <1>1, <1>2, <1>3, <1>4, <1>5

LEMMA ZoomsDone ==
  ASSUME TabOK(tab), DiagramOK(tab), NEW S, NEW wheel \in BOOLEAN, ZoomsTo(S, wheel),
         \A w \in S : Window(w) /\ (wheel => WithinData(w))
  PROVE  Done(tab, tab')
<1>1. DiagramShape(tab) /\ Loaded(tab) /\ Current(tab)
  BY DEF ZoomsTo, OnDiagram, OnPage, DiagramOK
<1>2. PICK w \in S : tab' = [tab EXCEPT !.page.window = w, !.page.zoomed = wheel]
  BY DEF ZoomsTo
<1>3. /\ DOMAIN tab' = DOMAIN tab /\ tab'.flights = tab.flights /\ tab'.tidy = tab.tidy
      /\ DOMAIN tab'.page = DiagramFields
      /\ \A x \in DiagramFields \ {"window", "zoomed"} : tab'.page[x] = tab.page[x]
      /\ tab'.page.window = w /\ tab'.page.zoomed = wheel
  BY <1>1, <1>2 DEF TabOK, DiagramShape, DiagramFields
<1>4. /\ tab'.page.sent = tab.page.sent /\ tab'.page.received = tab.page.received
      /\ tab'.page.error = tab.page.error /\ tab'.page.data = tab.page.data
      /\ tab'.page.name = tab.page.name /\ tab'.page.store = tab.page.store
      /\ \A x \in Selected : tab'.page[x] = tab.page[x]
  BY <1>3 DEF DiagramFields, Selected
<1>5. Keeps(tab, tab')
  <2>. DEFINE u == tab'
  <2>1. Turns(tab, u)
    BY <1>1, <1>3, <1>4 DEF Turns, TabOK, DiagramShape
  <2>. HIDE DEF u
  <2>2. Keeps(tab, u)
    BY <2>1, TurnsKeeps
  <2>. QED
    BY <2>2 DEF u
<1>6. Queries(tab') = Queries(tab)
  BY <1>3 DEF Queries, Pending
<1>7. AwaitsData(tab'.page) <=> AwaitsData(tab.page)
  BY <1>4 DEF AwaitsData
<1>8. WindowOK(tab'.page)
  BY <1>2, <1>3 DEF WindowOK, Window, WithinData
<1>9. DiagramShape(tab')
  BY <1>1, <1>3, <1>4, <1>6, <1>7, <1>8 DEF DiagramShape, InSequence
<1>10. Current(tab')
  <2>. DEFINE p == tab.page
              q == tab'.page
  <2>1. \A x \in Selected : q[x] = p[x]
    BY <1>4
  <2>. HIDE DEF p, q
  <2>2. settings(q) = settings(p) /\ q.asked = p.asked /\ DataOf(q) = DataOf(p)
    BY <2>1, SameChoices
  <2>3. \A key : Asks(q, key) <=> Asks(p, key)
    BY <2>2 DEF Asks
  <2>. QED
    BY <1>1, <1>3, <1>4, <1>6, <1>7, <2>2, <2>3 DEF Current, p, q
<1>. QED
  BY <1>5, <1>9, <1>10 DEF Done

LEMMA WindowDone ==
  ASSUME TabOK(tab), DiagramOK(tab), wheelZoom \/ touchZoom \/ drag
  PROVE  Done(tab, tab')
<1>. DEFINE w == tab.page.window
            range == w[2] - w[1]
<1>1. Window(w)
  <2>1. OnDiagram /\ w # None
    BY ZenonT(30) DEF wheelZoom, touchZoom, drag, ZoomsTo
  <2>2. WindowOK(tab.page)
    BY <2>1 DEF OnDiagram, OnPage, DiagramOK, DiagramShape
  <2>. QED
    BY <2>1, <2>2 DEF WindowOK, Window
<1>2. w[1] \in Int /\ w[2] \in Int /\ range \in Int /\ range > 0
  BY <1>1 DEF Window
<1>3. CASE wheelZoom
  <2>. DEFINE ranges == {(range * 4) \div 3} \cup {r \in {(range * 3) \div 4} : r >= MinRange}
  <2>1. PICK r \in ranges : ZoomsTo({clamp(r, Scaled(w, r, atRight)) : atRight \in BOOLEAN}, TRUE)
    BY <1>3 DEF wheelZoom
  <2>2. r \in Int /\ r > 0
    BY <1>2, RangeAssumption
  <2>. DEFINE S == {clamp(r, Scaled(w, r, atRight)) : atRight \in BOOLEAN}
  <2>. HIDE DEF ranges, w
  <2>3. ASSUME NEW atRight \in BOOLEAN
        PROVE  Window(clamp(r, Scaled(w, r, atRight))) /\ WithinData(clamp(r, Scaled(w, r, atRight)))
    <3>1. Scaled(w, r, atRight) \in Int
      BY <1>2, <2>2 DEF Scaled
    <3>. QED
      BY <2>2, <3>1, ClampWithin
  <2>4. \A x \in S : Window(x) /\ WithinData(x)
    BY <2>3
  <2>6. ZoomsTo(S, TRUE)
    BY <2>1
  <2>. HIDE DEF S
  <2>5. TRUE \in BOOLEAN
    OBVIOUS
  <2>. QED
    BY <2>4, <2>5, <2>6, ZoomsDone
<1>4. CASE touchZoom
  <2>. DEFINE wide == (range * 4) \div 3
              S == {<<Scaled(w, wide, atRight), Scaled(w, wide, atRight) + wide>> : atRight \in BOOLEAN}
  <2>1. ZoomsTo(S, FALSE)
    BY <1>4 DEF touchZoom
  <2>2. wide \in Int /\ wide > 0
    BY <1>2
  <2>. HIDE DEF wide, w
  <2>3. ASSUME NEW atRight \in BOOLEAN
        PROVE  Window(<<Scaled(w, wide, atRight), Scaled(w, wide, atRight) + wide>>)
    <3>1. Scaled(w, wide, atRight) \in Int
      BY <1>2, <2>2 DEF Scaled
    <3>. QED
      BY <2>2, <3>1 DEF Window
  <2>4. \A x \in S : Window(x)
    BY <2>3
  <2>. QED
    BY <2>1, <2>4, ZoomsDone
<1>5. CASE drag
  <2>. DEFINE by == FullRange \div 3
              S == {<<w[1] + d, w[2] + d>> : d \in {-by, by}}
  <2>1. ZoomsTo(S, FALSE)
    BY <1>5 DEF drag
  <2>2. \A d \in {-by, by} : d \in Int
    BY RangeAssumption
  <2>. HIDE DEF by, w
  <2>3. ASSUME NEW d \in {-by, by}
        PROVE  Window(<<w[1] + d, w[2] + d>>)
    BY <1>1, <2>2, <2>3 DEF Window
  <2>4. \A x \in S : Window(x)
    BY <2>3
  <2>. QED
    BY <2>1, <2>4, ZoomsDone
<1>. QED
  BY <1>3, <1>4, <1>5

LEMMA DiagramDone ==
  ASSUME TabOK(tab), DiagramOK(tab), DiagramNext
  PROVE  Done(tab, tab')
<1>1. CASE selectProjects \/ selectGroups \/ selectPlots \/ selectStations \/ selectSensors
  BY <1>1, SelectsDone DEF selectProjects, selectGroups, selectPlots, selectStations, selectSensors
<1>2. CASE selectAggregation
  BY <1>2, AggregationDone
<1>3. CASE selectQuality \/ selectInterpolation \/ enterTime
  BY <1>3, QualityDone
<1>4. CASE selectHighQuality
  BY <1>4, HighQualityDone
<1>5. CASE LandQuery \/ FailQuery
  BY <1>5, LandQueryDone, FailQueryDone
<1>6. CASE wheelZoom \/ touchZoom \/ drag
  BY <1>6, WindowDone
<1>. QED
  BY <1>1, <1>2, <1>3, <1>4, <1>5, <1>6 DEF DiagramNext


-----------------------------------------------------------------------------
(* The model                                                               *)

\* A page for diagrams that has not asked for anything shows nothing wrong.
LEMMA UnaskedCurrent ==
  ASSUME NEW t, DiagramShape(t), Unasked(t.page)
  PROVE  Current(t)
BY DEF DiagramShape, InSequence, Unasked, Current

LEMMA UnaskedShape ==
  ASSUME NEW t, DOMAIN t.page = DiagramFields, WindowOK(t.page), t.page.zoomed \in BOOLEAN,
         Unasked(t.page), t.page.received = 0, ~HasKind(t.flights, {"query"})
  PROVE  DiagramShape(t) /\ Current(t)
<1>1. Queries(t) = {}
  BY DEF Queries, Pending, HasKind
<1>2. DiagramShape(t)
  BY <1>1 DEF DiagramShape, InSequence, Unasked, AwaitsData
<1>. QED
  BY <1>2, UnaskedCurrent

\* The selector is shown: it asks for data if all is chosen by itself.
LEMMA MountDone ==
  ASSUME NEW t, TabOK(t), DiagramShape(t), Loaded(t), Unasked(t.page)
  PROVE  Done(t, mountSelector(t))
<1>. DEFINE s == ProjectsChanged(watchProjects(NoSelection))
            v == [t EXCEPT !.page.sel = s]
            asks == selectedPlotsHaveMultipleStations(s) /\ s.sensors # None
            u == mountSelector(t)
<1>1. u = IF asks THEN Tell(v) ELSE v
  BY DEF mountSelector
<1>. HIDE DEF s, asks, u
<1>2. /\ DOMAIN v = DOMAIN t /\ v.flights = t.flights /\ v.tidy = t.tidy
      /\ DOMAIN v.page = DiagramFields
      /\ \A x \in DiagramFields \ {"sel"} : v.page[x] = t.page[x]
  BY DEF TabOK, DiagramShape, DiagramFields
<1>. HIDE DEF v
<1>3. Rechosen(t.page, v.page)
  BY <1>2 DEF Rechosen, Selected, DiagramFields
<1>4. Keeps(t, v) /\ DiagramShape(v) /\ TabOK(v) /\ Loaded(v)
  BY <1>2, <1>3, RechosenOK
<1>5. CASE asks
  <2>1. Keeps(v, u) /\ DiagramShape(u) /\ Current(u)
    BY <1>1, <1>4, <1>5, TellOK
  <2>. QED
    BY <1>4, <2>1, KeepsTransitive DEF Done, u
<1>6. CASE ~asks
  <2>1. u = v
    BY <1>1, <1>6
  <2>2. Unasked(v.page)
    BY <1>2 DEF Unasked, DiagramFields
  <2>. QED
    BY <1>4, <2>1, <2>2, UnaskedCurrent DEF Done, u
<1>. QED
  BY <1>5, <1>6

\* The model is set.
LEMMA ModelSetDone ==
  ASSUME NEW t, TabOK(t), DiagramShape(t), Loaded(t), NEW first \in BOOLEAN, first => Unasked(t.page)
  PROVE  Done(t, DiagramModelSet(t, first))
<1>1. CASE first
  BY <1>1, MountDone DEF DiagramModelSet
<1>2. CASE ~first
  <2>. DEFINE a == requestData(t)
              s == ProjectsChanged(watchProjects(t.page.sel))
              v == [a EXCEPT !.page.sel = s]
              u == Tell(v)
  <2>1. DiagramModelSet(t, first) = u
    BY <1>2 DEF DiagramModelSet
  <2>2. Keeps(t, a) /\ DiagramShape(a)
    BY RequestOK
  <2>. HIDE DEF a, s
  <2>3. TabOK(a) /\ Loaded(a)
    BY <2>2 DEF Keeps, Loaded
  <2>4. /\ DOMAIN v = DOMAIN a /\ v.flights = a.flights /\ v.tidy = a.tidy
        /\ Rechosen(a.page, v.page)
    BY <2>2, <2>3 DEF TabOK, DiagramShape, DiagramFields, Rechosen, Selected
  <2>. HIDE DEF v
  <2>5. Keeps(a, v) /\ DiagramShape(v) /\ TabOK(v) /\ Loaded(v)
    BY <2>2, <2>3, <2>4, RechosenOK
  <2>6. Keeps(v, u) /\ DiagramShape(u) /\ Current(u)
    BY <2>5, TellOK
  <2>. HIDE DEF u
  <2>7. Keeps(t, u)
    BY <2>2, <2>5, <2>6, KeepsTransitive
  <2>. QED
    BY <2>1, <2>6, <2>7 DEF Done
<1>. QED
  BY <1>1, <1>2

\* The store changes and a request for the model is sent or leaves, or a change that nobody
\* waits for leaves: nothing else changes.
Apart(kinds) == kinds \cap {"model", "orphan"} = {}
StoreTurns(t, u) ==
  /\ TabOK(u)
  /\ DOMAIN u.page = DOMAIN t.page
  /\ \A x \in DOMAIN t.page \ {"store"} : u.page[x] = t.page[x]
  /\ u.tidy => t.tidy
  /\ HasOrphan(u) => HasOrphan(t)
  /\ \A kinds : Apart(kinds) => (HasKind(u.flights, kinds) <=> HasKind(t.flights, kinds))
  /\ \A kinds : Apart(kinds) /\ OneOfKind(t.flights, kinds) => OneOfKind(u.flights, kinds)
  /\ \A k \in DOMAIN u.flights :
       u.flights[k].kind # "model" => \E j \in DOMAIN t.flights : u.flights[k] = t.flights[j]

\* The model is asked for.
LEMMA ModelAsked ==
  ASSUME NEW t, TabOK(t), ~Loaded(t), t.tidy => ~HasOrphan(t), NEW failed
  PROVE  LET u == modelRefresh(t)
         IN  /\ StoreTurns(t, u) /\ StoreOK(u, failed)
             /\ u.flights = Append(t.flights, Request("model", None))
             /\ ~Loaded(u)
<1>. DEFINE v == [Overtaking(t, {"model"}) EXCEPT !.page.store.loading = TRUE, !.page.store.error = FALSE]
            u == modelRefresh(t)
            r == Request("model", None)
<1>1. /\ DOMAIN v = DOMAIN t /\ v.flights = t.flights
      /\ v.tidy \in BOOLEAN /\ (v.tidy <=> t.tidy /\ ~HasModel(t))
      /\ DOMAIN v.page = DOMAIN t.page
      /\ \A x \in DOMAIN t.page \ {"store"} : v.page[x] = t.page[x]
      /\ DOMAIN v.page.store = {"data", "loading", "error"}
      /\ v.page.store.data = t.page.store.data
      /\ v.page.store.loading = TRUE /\ v.page.store.error = FALSE
  BY PendingKind DEF TabOK, Overtaking, UntidyIf, HasModel
<1>2. u = Send(v, "model", None)
  BY DEF modelRefresh
<1>. HIDE DEF u, v
<1>3. TabOK(v)
  BY <1>1 DEF TabOK
<1>4. /\ DOMAIN u = DOMAIN v /\ u.page = v.page /\ u.tidy = v.tidy
      /\ u.flights = Append(t.flights, r)
      /\ TabOK(u)
  BY <1>1, <1>2, <1>3, SendKeeps
<1>5. r.kind = "model" /\ IsFlight(r) /\ AreFlights(t.flights)
  BY RequestIsFlight DEF Request, TabOK
<1>. HIDE DEF r
<1>6. \A kinds : /\ HasKind(u.flights, kinds) <=> HasKind(t.flights, kinds) \/ "model" \in kinds
                 /\ OneOfKind(t.flights, kinds) /\ ("model" \in kinds => ~HasKind(t.flights, kinds))
                      => OneOfKind(u.flights, kinds)
  BY <1>4, <1>5, KindsOfAppended
<1>12. \A k \in DOMAIN u.flights :
         u.flights[k].kind # "model" => \E j \in DOMAIN t.flights : u.flights[k] = t.flights[j]
  BY <1>4, <1>5, AppendFlight, FlightDomain
<1>7. StoreTurns(t, u)
  <2>1. u.tidy => t.tidy
    BY <1>1, <1>4
  <2>2. HasOrphan(u) => HasOrphan(t)
    BY <1>6 DEF HasOrphan
  <2>3. \A kinds : Apart(kinds) => "model" \notin kinds
    BY DEF Apart
  <2>. QED
    BY <1>1, <1>4, <1>6, <1>12, <2>1, <2>2, <2>3 DEF StoreTurns
<1>8. HasModel(u)
  BY <1>6 DEF HasModel
<1>9. ~Loaded(u)
  BY <1>1, <1>4 DEF Loaded
<1>10. u.tidy => OneOfKind(u.flights, {"model"})
  <2>1. ~HasModel(t) => OneOfKind(t.flights, {"model"})
    BY DEF HasModel, HasKind, OneOfKind
  <2>. QED
    BY <1>1, <1>4, <1>6, <2>1 DEF HasModel
<1>11. StoreOK(u, failed)
  BY <1>1, <1>4, <1>7, <1>8, <1>9, <1>10 DEF StoreOK, StoreTurns
<1>. QED
  BY <1>4, <1>7, <1>9, <1>11 DEF u, r

\* A request for the model leaves, and the store changes.
LEMMA ModelGone ==
  ASSUME TabOK(tab), NEW i \in DOMAIN tab.flights, tab.flights[i].kind = "model", NEW overlap,
         NEW v, DOMAIN v = DOMAIN tab, v.flights = RemoveAt(tab.flights, i),
         v.tidy = UntidyIf(Gone(i), overlap).tidy,
         DOMAIN v.page = DOMAIN tab.page, \A x \in DOMAIN tab.page \ {"store"} : v.page[x] = tab.page[x],
         DOMAIN v.page.store = {"data", "loading", "error"},
         v.page.store.loading \in BOOLEAN, v.page.store.error \in BOOLEAN
  PROVE  /\ StoreTurns(tab, v)
         /\ OneOfKind(tab.flights, {"model"}) => ~HasModel(v)
<1>. DEFINE u == UntidyIf(Gone(i), overlap)
<1>1. /\ u.page = tab.page /\ u.flights = RemoveAt(tab.flights, i)
      /\ u.tidy \in BOOLEAN /\ (u.tidy <=> tab.tidy /\ ~overlap)
      /\ TabOK(u)
  BY GoneKeeps
<1>. HIDE DEF u
<1>2. AreFlights(tab.flights) /\ AreFlights(v.flights)
  BY <1>1 DEF TabOK
<1>3. TabOK(v) /\ (v.tidy => tab.tidy)
  BY <1>1, <1>2 DEF TabOK, u
<1>4. \A kinds : /\ HasKind(v.flights, kinds) => HasKind(tab.flights, kinds)
                 /\ "model" \notin kinds /\ HasKind(tab.flights, kinds) => HasKind(v.flights, kinds)
                 /\ OneOfKind(tab.flights, kinds) => OneOfKind(v.flights, kinds)
                 /\ OneOfKind(tab.flights, kinds) /\ "model" \in kinds => ~HasKind(v.flights, kinds)
  BY <1>2, KindsOfRemoved
<1>5. \A k \in DOMAIN v.flights : \E j \in DOMAIN tab.flights : v.flights[k] = tab.flights[j]
  BY <1>2, RemoveFlight
<1>6. \A kinds : Apart(kinds) => "model" \notin kinds
  BY DEF Apart
<1>. QED
  BY <1>3, <1>4, <1>5, <1>6 DEF StoreTurns, HasModel, HasOrphan

\* A diagram stays as it is.
LEMMA DiagramTurns ==
  ASSUME TabOK(tab), DiagramShape(tab), NEW i \in DOMAIN tab.flights, tab.flights[i].kind # "query",
         NEW v, v.flights = RemoveAt(tab.flights, i),
         DOMAIN v.page = DOMAIN tab.page, \A x \in DOMAIN tab.page \ {"store"} : v.page[x] = tab.page[x]
  PROVE  DiagramShape(v)
<1>1. /\ v.page.sent = tab.page.sent /\ v.page.received = tab.page.received
      /\ v.page.window = tab.page.window /\ v.page.zoomed = tab.page.zoomed
      /\ v.page.error = tab.page.error
  BY DEF DiagramShape, DiagramFields
<1>2. i \notin Queries(tab) /\ AreFlights(tab.flights)
  BY DEF Queries, Pending, TabOK
<1>3. \A k, l \in Queries(tab) : tab.flights[k].key.n = tab.flights[l].key.n => k = l
  BY DEF DiagramShape, InSequence
<1>4. /\ \A k \in Queries(v) : \E j \in Queries(tab) : v.flights[k] = tab.flights[j]
      /\ \A j \in Queries(tab) : \E k \in Queries(v) : v.flights[k] = tab.flights[j]
      /\ \A k, l \in Queries(v) : v.flights[k].key.n = v.flights[l].key.n => k = l
  BY SMTT(30), <1>2, <1>3, OtherQueries
<1>5. AwaitsData(v.page) <=> AwaitsData(tab.page)
  BY <1>1 DEF AwaitsData
<1>6. InSequence(v)
  <2>1. \A k \in Queries(v) : v.flights[k].key.n \in 1..v.page.sent
    BY <1>1, <1>4 DEF DiagramShape, InSequence
  <2>2. (\E k \in Queries(v) : v.flights[k].key.n = v.page.sent)
        <=> (\E j \in Queries(tab) : tab.flights[j].key.n = tab.page.sent)
    BY <1>1, <1>4
  <2>. QED
    BY <1>1, <1>4, <1>5, <2>1, <2>2 DEF DiagramShape, InSequence
<1>7. WindowOK(v.page)
  BY <1>1 DEF DiagramShape, WindowOK
<1>. QED
  BY <1>1, <1>6, <1>7 DEF DiagramShape

\* And it is as current as before, whether or not it is tidy.
LEMMA CurrentTurns ==
  ASSUME TabOK(tab), DiagramShape(tab), Current(tab),
         NEW i \in DOMAIN tab.flights, tab.flights[i].kind # "query",
         NEW v, v.flights = RemoveAt(tab.flights, i), v.tidy => tab.tidy,
         DOMAIN v.page = DOMAIN tab.page, \A x \in DOMAIN tab.page \ {"store"} : v.page[x] = tab.page[x]
  PROVE  Current(v)
<1>. DEFINE p == tab.page
            q == v.page
<1>1. /\ q.sent = p.sent /\ q.received = p.received /\ q.error = p.error /\ q.data = p.data
      /\ \A x \in Selected : q[x] = p[x]
  BY DEF DiagramShape, DiagramFields, Selected
<1>2. i \notin Queries(tab) /\ AreFlights(tab.flights)
  BY DEF Queries, Pending, TabOK
<1>3. \A k, l \in Queries(tab) : tab.flights[k].key.n = tab.flights[l].key.n => k = l
  BY DEF DiagramShape, InSequence
<1>4. \A k \in Queries(v) : \E j \in Queries(tab) : v.flights[k] = tab.flights[j]
  BY SMTT(30), <1>2, <1>3, OtherQueries
<1>. HIDE DEF p, q
<1>5. settings(q) = settings(p) /\ q.asked = p.asked /\ DataOf(q) = DataOf(p)
  BY <1>1, SameChoices
<1>6. \A key : Asks(q, key) <=> Asks(p, key)
  BY <1>5 DEF Asks
<1>7. AwaitsData(q) <=> AwaitsData(p)
  BY <1>1 DEF AwaitsData
<1>. QED
  BY <1>1, <1>4, <1>5, <1>6, <1>7 DEF Current, p, q

\* A change that nobody waits for leaves.
LEMMA OrphanGone ==
  ASSUME TabOK(tab), NEW i \in DOMAIN tab.flights, tab.flights[i].kind = "orphan"
  PROVE  LET u == Gone(i)
         IN  StoreTurns(tab, u) /\ Keeps(tab, u) /\ u.page = tab.page /\ u.flights = RemoveAt(tab.flights, i)
<1>. DEFINE u == UntidyIf(Gone(i), FALSE)
<1>1. u = Gone(i)
  BY DEF UntidyIf, Gone, TabOK
<1>2. /\ u.page = tab.page /\ u.flights = RemoveAt(tab.flights, i)
      /\ u.tidy => tab.tidy
      /\ TabOK(u) /\ Keeps(tab, u)
  BY GoneKeeps
<1>. HIDE DEF u
<1>3. AreFlights(tab.flights)
  BY DEF TabOK
<1>4. \A kinds : /\ HasKind(u.flights, kinds) => HasKind(tab.flights, kinds)
                 /\ "orphan" \notin kinds /\ HasKind(tab.flights, kinds) => HasKind(u.flights, kinds)
                 /\ OneOfKind(tab.flights, kinds) => OneOfKind(u.flights, kinds)
  BY <1>2, <1>3, KindsOfRemoved
<1>5. \A k \in DOMAIN u.flights : \E j \in DOMAIN tab.flights : u.flights[k] = tab.flights[j]
  BY <1>2, <1>3, RemoveFlight
<1>6. \A kinds : Apart(kinds) => "orphan" \notin kinds
  BY DEF Apart
<1>7. StoreTurns(tab, u)
  BY <1>2, <1>4, <1>5, <1>6 DEF StoreTurns, HasOrphan
<1>. QED
  BY <1>1, <1>2, <1>7

-----------------------------------------------------------------------------
(* The page for monitoring                                                 *)

MonitoringFields == {"name", "set", "plots", "sensors", "data", "loading", "store"}

\* Plots or sensors of a set are chosen, or none yet; data are of a set.
ChoiceOf(model, all) == model = None \/ model \in Seq(ToSet(all))
OfSet(q, set) == q.plots \in Seq(ToSet(SetPlots[set])) /\ q.sensors \in Seq(ToSet(SetSensors[set]))

MonitoringShape(p) ==
  /\ DOMAIN p = MonitoringFields
  /\ p.loading \in BOOLEAN
  /\ p.set = None => ~p.loading /\ p.data = None
  /\ p.set # None => p.set \in MSets /\ ChoiceOf(p.plots, SetPlots[p.set]) /\ ChoiceOf(p.sensors, SetSensors[p.set])

\* The one request under way and the data are of the set that is shown.
Busy(t) ==
  /\ t.page.loading <=> HasKind(t.flights, {"monitoring"})
  /\ OneOfKind(t.flights, {"monitoring"})
OfShownSet(t) ==
  t.tidy =>
    /\ \A i \in Pending(t, {"monitoring"}) : OfSet(t.flights[i].key, t.page.set)
    /\ t.page.data # None => OfSet(t.page.data, t.page.set)

\* In any case they are of one of the sets.
OfSome(q) == \E x \in MSets : OfSet(q, x)
OfSets(t) ==
  /\ \A i \in Pending(t, {"monitoring"}) : OfSome(t.flights[i].key)
  /\ t.page.data # None => OfSome(t.page.data)

MonitoringOK(t) ==
  t.page.name = "monitoring" => MonitoringShape(t.page) /\ Busy(t) /\ OfShownSet(t) /\ OfSets(t)

LEMMA MonitoringTurns ==
  ASSUME NEW t, TabOK(t), MonitoringOK(t), NEW u, StoreTurns(t, u)
  PROVE  MonitoringOK(u)
<1>. SUFFICES ASSUME u.page.name = "monitoring"
              PROVE  MonitoringOK(u)
  BY DEF MonitoringOK
<1>1. MonitoringShape(t.page) /\ Busy(t) /\ OfShownSet(t) /\ OfSets(t)
  BY DEF StoreTurns, TabOK, MonitoringOK
<1>2. /\ DOMAIN u.page = MonitoringFields
      /\ u.page.set = t.page.set /\ u.page.plots = t.page.plots /\ u.page.sensors = t.page.sensors
      /\ u.page.data = t.page.data /\ u.page.loading = t.page.loading
  BY <1>1 DEF StoreTurns, MonitoringShape, MonitoringFields
<1>3. Busy(u)
  <2>1. Apart({"monitoring"})
    BY DEF Apart
  <2>. QED
    BY <1>1, <1>2, <2>1 DEF StoreTurns, Busy
<1>4. ASSUME NEW i \in Pending(u, {"monitoring"})
      PROVE  \E j \in Pending(t, {"monitoring"}) : u.flights[i] = t.flights[j]
  BY DEF StoreTurns, Pending
<1>5. u.tidy => t.tidy
  BY DEF StoreTurns
<1>6. OfShownSet(u) /\ OfSets(u)
  BY <1>1, <1>2, <1>4, <1>5 DEF OfShownSet, OfSets
<1>. QED
  BY <1>1, <1>2, <1>3, <1>6 DEF MonitoringOK, MonitoringShape

\* The handlers of the page.
MonitoringDone(u) == Keeps(tab, u) /\ MonitoringOK(u)

\* The page is changed, but not what it waits for.
LEMMA MonitoringTouched ==
  ASSUME TabOK(tab), MonitoringShape(tab.page), Busy(tab), tab.page.name = "monitoring",
         NEW u, DOMAIN u = DOMAIN tab, u.flights = tab.flights, u.tidy \in BOOLEAN, u.tidy => tab.tidy,
         MonitoringShape(u.page), u.page.loading = tab.page.loading,
         u.page.name = tab.page.name, u.page.store = tab.page.store, OfShownSet(u), OfSets(u)
  PROVE  MonitoringDone(u)
<1>1. Turns(tab, u)
  BY DEF Turns, MonitoringShape
<1>2. Keeps(tab, u)
  BY <1>1, TurnsKeeps
<1>3. Busy(u)
  BY DEF Busy
<1>. QED
  BY <1>2, <1>3 DEF MonitoringDone, MonitoringOK

LEMMA SetDone ==
  ASSUME TabOK(tab), MonitoringOK(tab), selectSet
  PROVE  MonitoringDone(tab')
<1>1. /\ tab.page.name = "monitoring"
      /\ MonitoringShape(tab.page) /\ Busy(tab) /\ OfSets(tab)
  BY DEF selectSet, OnMonitoring, OnPage, MonitoringOK
<1>2. PICK x \in MSets :
        tab' = UntidyIf([tab EXCEPT !.page.set = x, !.page.plots = None, !.page.sensors = None,
                                    !.page.data = None],
                        Pending(tab, {"monitoring"}) # {})
  BY DEF selectSet
<1>. DEFINE u == tab'
<1>3. /\ DOMAIN u = DOMAIN tab /\ u.flights = tab.flights
      /\ u.tidy \in BOOLEAN /\ (u.tidy <=> tab.tidy /\ Pending(tab, {"monitoring"}) = {})
      /\ DOMAIN u.page = MonitoringFields
      /\ u.page.set = x /\ u.page.plots = None /\ u.page.sensors = None /\ u.page.data = None
      /\ u.page.loading = tab.page.loading /\ u.page.name = tab.page.name /\ u.page.store = tab.page.store
  BY <1>1, <1>2 DEF UntidyIf, TabOK, MonitoringShape, MonitoringFields
<1>. HIDE DEF u
<1>4. MonitoringShape(u.page)
  BY <1>1, <1>3, SetsAssumption DEF MonitoringShape, ChoiceOf
<1>5. OfShownSet(u) /\ OfSets(u)
  BY <1>1, <1>3 DEF OfShownSet, OfSets, Pending
<1>6. MonitoringDone(u)
  BY <1>1, <1>3, <1>4, <1>5, MonitoringTouched
<1>. QED
  BY <1>6 DEF u

\* What is picked is of what is offered.
LEMMA PickedOf ==
  ASSUME NEW all, all \in Seq(ToSet(all)), NEW model, ChoiceOf(model, all), NEW v \in Picked(model, all)
  PROVE  ChoiceOf(v, all)
<1>. DEFINE S == ToSet(all)
            now == IF model = None THEN <<>> ELSE model
            one(x) == IF x \in ToSet(now) THEN Among(now, ToSet(now) \ {x}) ELSE Append(now, x)
<1>1. v = None \/ \E x \in S : v = one(x)
  BY DEF Picked
<1>2. now \in Seq(S)
  BY EmptySeq DEF ChoiceOf
<1>. HIDE DEF S, now
<1>3. \A x \in S : one(x) \in Seq(S)
  <2>. TAKE x \in S
  <2>1. Among(now, ToSet(now) \ {x}) \in Seq(S)
    BY <1>2, AmongOK
  <2>2. Append(now, x) \in Seq(S)
    BY <1>2, AppendProperties
  <2>. QED
    BY <2>1, <2>2
<1>. QED
  BY <1>1, <1>3 DEF ChoiceOf, S

LEMMA PicksDone ==
  ASSUME TabOK(tab), MonitoringOK(tab), selectMonitoredPlots \/ selectMonitoredSensors
  PROVE  MonitoringDone(tab')
<1>1. /\ tab.page.name = "monitoring" /\ tab.page.set # None
      /\ MonitoringShape(tab.page) /\ Busy(tab) /\ OfShownSet(tab) /\ OfSets(tab)
  BY DEF selectMonitoredPlots, selectMonitoredSensors, HasSet, OnMonitoring, OnPage, MonitoringOK
<1>. DEFINE set == tab.page.set
<1>2. /\ set \in MSets /\ ChoiceOf(tab.page.plots, SetPlots[set]) /\ ChoiceOf(tab.page.sensors, SetSensors[set])
      /\ SetPlots[set] \in Seq(ToSet(SetPlots[set])) /\ SetSensors[set] \in Seq(ToSet(SetSensors[set]))
  BY <1>1, SetsAssumption DEF MonitoringShape
<1>3. \E v : \/ tab' = [tab EXCEPT !.page.plots = v] /\ ChoiceOf(v, SetPlots[set])
             \/ tab' = [tab EXCEPT !.page.sensors = v] /\ ChoiceOf(v, SetSensors[set])
  <2>1. CASE selectMonitoredPlots
    <3>1. PICK v \in Picked(tab.page.plots, SetPlots[set]) : tab' = [tab EXCEPT !.page.plots = v]
      BY <2>1 DEF selectMonitoredPlots
    <3>2. ChoiceOf(v, SetPlots[set])
      BY <1>2, PickedOf
    <3>. QED
      BY <3>1, <3>2
  <2>2. CASE selectMonitoredSensors
    <3>1. PICK v \in Picked(tab.page.sensors, SetSensors[set]) : tab' = [tab EXCEPT !.page.sensors = v]
      BY <2>2 DEF selectMonitoredSensors
    <3>2. ChoiceOf(v, SetSensors[set])
      BY <1>2, PickedOf
    <3>. QED
      BY <3>1, <3>2
  <2>. QED
    BY <2>1, <2>2
<1>4. PICK v : \/ tab' = [tab EXCEPT !.page.plots = v] /\ ChoiceOf(v, SetPlots[set])
               \/ tab' = [tab EXCEPT !.page.sensors = v] /\ ChoiceOf(v, SetSensors[set])
  BY <1>3
<1>. DEFINE u == tab'
<1>5. /\ DOMAIN u = DOMAIN tab /\ u.flights = tab.flights /\ u.tidy = tab.tidy
      /\ DOMAIN u.page = MonitoringFields
      /\ u.page.set = set /\ u.page.data = tab.page.data
      /\ ChoiceOf(u.page.plots, SetPlots[set]) /\ ChoiceOf(u.page.sensors, SetSensors[set])
      /\ u.page.loading = tab.page.loading /\ u.page.name = tab.page.name /\ u.page.store = tab.page.store
  BY <1>1, <1>2, <1>4 DEF TabOK, MonitoringShape, MonitoringFields
<1>. HIDE DEF u
<1>6. MonitoringShape(u.page)
  BY <1>1, <1>5 DEF MonitoringShape
<1>7. OfShownSet(u) /\ OfSets(u)
  BY <1>1, <1>5 DEF OfShownSet, OfSets, Pending
<1>8. u.tidy \in BOOLEAN /\ (u.tidy => tab.tidy)
  BY <1>5 DEF TabOK
<1>9. MonitoringDone(u)
  BY <1>1, <1>5, <1>6, <1>7, <1>8, MonitoringTouched
<1>. QED
  BY <1>9 DEF u

LEMMA RefreshDone ==
  ASSUME TabOK(tab), MonitoringOK(tab), refreshMonitoring
  PROVE  MonitoringDone(tab')
<1>1. /\ tab.page.name = "monitoring" /\ tab.page.set # None /\ ~tab.page.loading
      /\ MonitoringShape(tab.page) /\ Busy(tab) /\ OfShownSet(tab) /\ OfSets(tab)
  BY DEF refreshMonitoring, HasSet, OnMonitoring, OnPage, MonitoringOK
<1>. DEFINE set == tab.page.set
            q == [plots |-> wantedPlots(tab.page), sensors |-> wantedSensors(tab.page)]
            v == [tab EXCEPT !.page.loading = TRUE]
            r == Request("monitoring", q)
            u == tab'
<1>2. OfSet(q, set) /\ set \in MSets
  <2>1. /\ set \in MSets /\ ChoiceOf(tab.page.plots, SetPlots[set]) /\ ChoiceOf(tab.page.sensors, SetSensors[set])
        /\ SetPlots[set] \in Seq(ToSet(SetPlots[set])) /\ SetSensors[set] \in Seq(ToSet(SetSensors[set]))
    BY <1>1, SetsAssumption DEF MonitoringShape
  <2>. QED
    BY <2>1 DEF OfSet, ChoiceOf, wantedPlots, wantedSensors
<1>3. u = Send(v, "monitoring", q)
  BY DEF refreshMonitoring
<1>. HIDE DEF q, u
<1>4. /\ DOMAIN v = DOMAIN tab /\ v.flights = tab.flights /\ v.tidy = tab.tidy
      /\ DOMAIN v.page = MonitoringFields
      /\ \A x \in MonitoringFields \ {"loading"} : v.page[x] = tab.page[x]
      /\ v.page.loading = TRUE
  BY <1>1 DEF TabOK, MonitoringShape, MonitoringFields
<1>. HIDE DEF v
<1>5. /\ v.page.set = set /\ v.page.plots = tab.page.plots /\ v.page.sensors = tab.page.sensors
      /\ v.page.data = tab.page.data /\ v.page.name = tab.page.name /\ v.page.store = tab.page.store
  BY <1>4 DEF MonitoringFields
<1>6. Keeps(tab, v) /\ TabOK(v)
  <2>1. Turns(tab, v)
    BY <1>1, <1>4, <1>5 DEF Turns, TabOK, MonitoringShape
  <2>2. Keeps(tab, v)
    BY <2>1, TurnsKeeps
  <2>. QED
    BY <2>2 DEF Keeps
<1>7. /\ u.page = v.page /\ u.tidy = v.tidy /\ u.flights = Append(v.flights, r)
      /\ Keeps(v, u)
  <2>1. "monitoring" \notin {"model", "orphan"}
    OBVIOUS
  <2>. QED
    BY <1>3, <1>6, <2>1, SendKeeps
<1>8. Keeps(tab, u)
  BY <1>6, <1>7, KeepsTransitive
<1>9. r.kind = "monitoring" /\ r.key = q /\ IsFlight(r) /\ AreFlights(tab.flights)
  BY RequestIsFlight DEF Request, TabOK
<1>. HIDE DEF r
<1>10. Busy(u)
  <2>1. ~HasKind(tab.flights, {"monitoring"})
    BY <1>1 DEF Busy
  <2>2. /\ HasKind(u.flights, {"monitoring"})
        /\ OneOfKind(u.flights, {"monitoring"})
    BY <1>1, <1>4, <1>7, <1>9, <2>1, KindsOfAppended DEF Busy
  <2>. QED
    BY <1>4, <1>7, <2>2 DEF Busy
<1>11. OfShownSet(u) /\ OfSets(u)
  <2>1. /\ DOMAIN u.flights = 1..(Len(tab.flights) + 1)
        /\ \A i \in 1..Len(tab.flights) : u.flights[i] = tab.flights[i]
        /\ u.flights[Len(tab.flights) + 1] = r
        /\ DOMAIN tab.flights = 1..Len(tab.flights) /\ Len(tab.flights) \in Nat
    BY <1>4, <1>7, <1>9, AppendFlight, FlightDomain
  <2>2. ASSUME NEW i \in Pending(u, {"monitoring"}), i # Len(tab.flights) + 1
        PROVE  i \in Pending(tab, {"monitoring"}) /\ u.flights[i] = tab.flights[i]
    BY <2>1, <2>2 DEF Pending
  <2>3. OfShownSet(u)
    BY <1>1, <1>2, <1>4, <1>5, <1>7, <1>9, <2>1, <2>2 DEF OfShownSet
  <2>4. OfSome(q)
    BY <1>2 DEF OfSome
  <2>5. OfSets(u)
    BY <1>1, <1>4, <1>5, <1>7, <1>9, <2>1, <2>2, <2>4 DEF OfSets
  <2>. QED
    BY <2>3, <2>5
<1>12. MonitoringShape(u.page)
  BY <1>1, <1>4, <1>5, <1>7 DEF MonitoringShape
<1>. QED
  BY <1>8, <1>10, <1>11, <1>12 DEF MonitoringDone, MonitoringOK, u

\* An answer or a failure: what is awaited has come.
LEMMA MonitoringGone ==
  ASSUME TabOK(tab), MonitoringOK(tab), tab.page.name = "monitoring",
         NEW i \in Pending(tab, {"monitoring"}), NEW overlap, NEW data,
         data = None \/ data = tab.flights[i].key
  PROVE  MonitoringDone([UntidyIf(Gone(i), overlap) EXCEPT !.page.loading = FALSE, !.page.data = data])
<1>. DEFINE u == UntidyIf(Gone(i), overlap)
            v == [u EXCEPT !.page.loading = FALSE, !.page.data = data]
<1>1. i \in DOMAIN tab.flights /\ tab.flights[i].kind = "monitoring" /\ AreFlights(tab.flights)
  BY DEF Pending, TabOK
<1>2. MonitoringShape(tab.page) /\ Busy(tab) /\ OfShownSet(tab) /\ OfSets(tab)
  BY DEF MonitoringOK
<1>3. /\ DOMAIN u = DOMAIN tab /\ u.page = tab.page /\ u.flights = RemoveAt(tab.flights, i)
      /\ Keeps(tab, u)
  BY <1>1, GoneKeeps
<1>. HIDE DEF u
<1>4. TabOK(u) /\ (u.tidy => tab.tidy)
  BY <1>3 DEF Keeps
<1>5. /\ DOMAIN v = DOMAIN u /\ v.flights = u.flights /\ v.tidy = u.tidy
      /\ DOMAIN v.page = MonitoringFields
      /\ \A x \in MonitoringFields \ {"loading", "data"} : v.page[x] = tab.page[x]
      /\ v.page.loading = FALSE /\ v.page.data = data
  BY <1>2, <1>3 DEF TabOK, MonitoringShape, MonitoringFields
<1>. HIDE DEF v
<1>6. /\ v.page.set = tab.page.set /\ v.page.plots = tab.page.plots /\ v.page.sensors = tab.page.sensors
      /\ v.page.name = tab.page.name /\ v.page.store = tab.page.store
  BY <1>5 DEF MonitoringFields
<1>7. Keeps(tab, v)
  <2>1. Turns(u, v)
    BY <1>2, <1>3, <1>4, <1>5, <1>6 DEF Turns, TabOK, MonitoringShape
  <2>2. Keeps(u, v)
    BY <1>4, <2>1, TurnsKeeps
  <2>. QED
    BY <1>3, <2>2, KeepsTransitive
<1>8. ~HasKind(v.flights, {"monitoring"})
  BY <1>1, <1>2, <1>3, <1>5, KindsOfRemoved DEF Busy
<1>9. Busy(v)
  BY <1>5, <1>8 DEF Busy, HasKind, OneOfKind
<1>10. tab.page.set # None
  BY <1>1, <1>2 DEF MonitoringShape, Busy, HasKind
<1>11. MonitoringShape(v.page)
  BY <1>2, <1>5, <1>6, <1>10 DEF MonitoringShape
<1>12. OfShownSet(v) /\ OfSets(v)
  <2>1. Pending(v, {"monitoring"}) = {}
    BY <1>8 DEF Pending, HasKind
  <2>2. v.tidy => OfSet(tab.flights[i].key, tab.page.set)
    BY <1>2, <1>4, <1>5 DEF OfShownSet
  <2>3. OfSome(tab.flights[i].key)
    BY <1>2 DEF OfSets
  <2>. QED
    BY <1>5, <1>6, <2>1, <2>2, <2>3 DEF OfShownSet, OfSets
<1>. QED
  BY <1>6, <1>7, <1>9, <1>11, <1>12 DEF MonitoringDone, MonitoringOK, v, u

LEMMA MonitoringNextDone ==
  ASSUME TabOK(tab), MonitoringOK(tab), MonitoringNext
  PROVE  MonitoringDone(tab')
<1>1. CASE selectSet
  BY <1>1, SetDone
<1>2. CASE selectMonitoredPlots \/ selectMonitoredSensors
  BY <1>2, PicksDone
<1>3. CASE refreshMonitoring
  BY <1>3, RefreshDone
<1>4. CASE LandMonitoring
  <2>1. tab.page.name = "monitoring"
    BY <1>4 DEF LandMonitoring, OnMonitoring, OnPage
  <2>2. PICK i \in Pending(tab, {"monitoring"}) :
          LET f == tab.flights[i]
          IN  tab' = MonitoringLanded(UntidyIf(Gone(i), ~InOrder(i, {f.kind})), [f EXCEPT !.answer = f.key])
    BY <1>4 DEF LandMonitoring, LandWith
  <2>. DEFINE f == tab.flights[i]
              e == [f EXCEPT !.answer = f.key]
              overlap == ~InOrder(i, {f.kind})
              u == UntidyIf(Gone(i), overlap)
              data == IF ~(getStrings(f.key.plots) /\ getStrings(f.key.sensors)) THEN None ELSE f.key
  <2>3. e.key = f.key
    <3>1. DOMAIN f = FlightFields
      BY FlightDomain DEF Pending, TabOK, AreFlights, IsFlight
    <3>. QED
      BY <3>1 DEF FlightFields
  <2>4. tab' = MonitoringLanded(u, e)
    BY <2>2
  <2>. HIDE DEF e, overlap, u, f
  <2>5. tab' = [u EXCEPT !.page.loading = FALSE, !.page.data = data]
    BY <2>3, <2>4 DEF MonitoringLanded
  <2>6. data = None \/ data = tab.flights[i].key
    BY DEF f
  <2>. HIDE DEF data
  <2>. QED
    BY <2>1, <2>5, <2>6, MonitoringGone DEF u
<1>5. CASE FailMonitoring
  <2>1. tab.page.name = "monitoring"
    BY <1>5 DEF FailMonitoring, OnMonitoring, OnPage
  <2>2. PICK i \in Pending(tab, {"monitoring"}) :
          tab' = MonitoringFailed(UntidyIf(Gone(i), Len(tab.flights) > 1), tab.flights[i])
    BY <1>5 DEF FailMonitoring, FailWith
  <2>. DEFINE overlap == Len(tab.flights) > 1
              u == UntidyIf(Gone(i), overlap)
  <2>3. tab' = [u EXCEPT !.page.loading = FALSE, !.page.data = None]
    BY <2>2 DEF MonitoringFailed
  <2>. HIDE DEF overlap
  <2>. QED
    BY <2>1, <2>3, MonitoringGone
<1>. QED
  BY <1>1, <1>2, <1>3, <1>4, <1>5 DEF MonitoringNext

\* What the run checks follows.
LEMMA MonitoringImplies ==
  ASSUME TabOK(tab), MonitoringOK(tab)
  PROVE  MonitoringExact
<1>. SUFFICES ASSUME OnMonitoring
              PROVE  MonitoringExact
  BY DEF MonitoringExact
<1>. DEFINE p == tab.page
<1>1. MonitoringShape(p) /\ Busy(tab) /\ OfShownSet(tab)
  BY DEF OnMonitoring, OnPage, MonitoringOK
<1>2. p.loading <=> Pending(tab, {"monitoring"}) # {}
  BY <1>1, PendingKind DEF Busy
<1>3. ASSUME tab.tidy, p.data # None
      PROVE  /\ ToSet(p.data.plots) \subseteq ToSet(SetPlots[p.set])
             /\ Len(sensorColumns(p)) = 2 * Len(p.data.sensors)
  <2>. DEFINE S == ToSet(SetSensors[p.set])
              list == p.data.sensors
              known == Among(list, S)
  <2>1. p.data.plots \in Seq(ToSet(SetPlots[p.set])) /\ list \in Seq(S)
    BY <1>1, <1>3 DEF OfShownSet, OfSet
  <2>2. ToSet(p.data.plots) \subseteq ToSet(SetPlots[p.set]) /\ ToSet(list) \subseteq S
    BY <2>1, ListItems
  <2>. HIDE DEF S
  <2>3. Len(known) = Len(list) /\ known \in Seq(S)
    BY <2>1, <2>2, AmongOK
  <2>4. Len(known) \in Nat
    BY <2>3, LenProperties
  <2>5. \E g : sensorColumns(p) = [k \in 1..(2 * Len(known)) |-> g[k]]
    <3>. DEFINE g == [k \in 1..(2 * Len(known)) |->
                       IF k % 2 = 1 THEN [sensor |-> known[(k + 1) \div 2], kind |-> "datetime"]
                       ELSE [sensor |-> known[k \div 2], kind |-> "number"]]
    <3>1. sensorColumns(p) = g
      BY DEF sensorColumns, S
    <3>2. g = [k \in 1..(2 * Len(known)) |-> g[k]]
      OBVIOUS
    <3>. QED
      BY <3>1, <3>2
  <2>. HIDE DEF known, list
  <2>6. PICK g : sensorColumns(p) = [k \in 1..(2 * Len(known)) |-> g[k]]
    BY <2>5
  <2>7. Len(sensorColumns(p)) = 2 * Len(known)
    BY <2>4, <2>6
  <2>. QED
    BY <2>2, <2>3, <2>7 DEF list
<1>. QED
  BY <1>2, <1>3 DEF MonitoringExact

-----------------------------------------------------------------------------
(* The page for the status of plots                                        *)

StatusFields ==
  {"name", "view", "project", "group", "plot", "rows", "loading", "outdated", "lowVoltage", "search",
   "dialog", "store"}
DialogFields == {"shown", "plot", "loading", "error", "submitting", "row", "newTask"}

StatusShape(p) ==
  /\ DOMAIN p = StatusFields
  /\ p.loading \in BOOLEAN
  /\ DOMAIN p.dialog = DialogFields /\ p.dialog.submitting \in BOOLEAN

\* The dialog saves one status at a time.
Saving(t) ==
  /\ t.page.dialog.submitting <=> HasKind(t.flights, {"save"})
  /\ OneOfKind(t.flights, {"save"})

Waits(t) == t.page.loading => HasKind(t.flights, {"rows"})

\* With the model there is a project and one of its groups.
Chooses(t) ==
  Loaded(t) => t.page.project \in ToSet(AProjects) /\ t.page.group \in ToSet(AGroups[t.page.project])

\* The rows shown, or those of the last request for them, are of the group and from what the
\* server has now - unless a status was just saved and its answer is still on its way.
AsksRows(t) == Pending(t, {"rows"})
LastRows(t, i) == \A j \in AsksRows(t) : j <= i
SaveAnswered(t) == \E i \in DOMAIN t.flights : t.flights[i].kind = "save" /\ t.flights[i].pc = "answered"
Promises(f, group, n) == f.key = group /\ (f.pc = "answered" => f.answer = rowsOf(n, group))
LastPromises(t, n) ==
  \A i \in AsksRows(t) : LastRows(t, i) => Promises(t.flights[i], t.page.group, n)
RowsCurrent(t, failed, n) ==
  t.tidy /\ failed = 0 /\ Loaded(t) /\ ~SaveAnswered(t) =>
    /\ AsksRows(t) = {} => t.page.rows = rowsOf(n, t.page.group)
    /\ LastPromises(t, n)

StatusOK(t, failed, n) ==
  t.page.name = "status" =>
    StatusShape(t.page) /\ Saving(t) /\ Waits(t) /\ Chooses(t) /\ RowsCurrent(t, failed, n)

LEMMA GroupChosen ==
  ASSUME NEW project \in ToSet(AProjects), NEW group \in ToSet(AGroups[project])
  PROVE  group # None
BY ProjectsAssumption

\* What the user changes on the page has no part in the rows.
StatusTouched == {"project", "group", "rows", "loading", "name", "store"}

LEMMA TouchedDone ==
  ASSUME NEW t, TabOK(t), t.page.name = "status", NEW failed, NEW n, StatusOK(t, failed, n),
         NEW u, DOMAIN u = DOMAIN t, u.flights = t.flights, u.tidy = t.tidy,
         DOMAIN u.page = StatusFields, \A x \in StatusTouched : u.page[x] = t.page[x],
         DOMAIN u.page.dialog = DialogFields, u.page.dialog.submitting = t.page.dialog.submitting
  PROVE  Keeps(t, u) /\ StatusOK(u, failed, n)
<1>1. StatusShape(t.page) /\ Saving(t) /\ Waits(t) /\ Chooses(t) /\ RowsCurrent(t, failed, n)
  BY DEF StatusOK
<1>2. /\ u.page.project = t.page.project /\ u.page.group = t.page.group /\ u.page.rows = t.page.rows
      /\ u.page.loading = t.page.loading /\ u.page.name = t.page.name /\ u.page.store = t.page.store
  BY DEF StatusTouched
<1>3. Keeps(t, u)
  <2>1. Turns(t, u)
    BY <1>1, <1>2 DEF Turns, TabOK, StatusShape
  <2>. QED
    BY <2>1, TurnsKeeps
<1>4. Loaded(u) <=> Loaded(t)
  BY <1>2 DEF Loaded
<1>5. AsksRows(u) = AsksRows(t) /\ (SaveAnswered(u) <=> SaveAnswered(t))
  BY DEF AsksRows, Pending, SaveAnswered
<1>6. LastPromises(u, n) <=> LastPromises(t, n)
  BY <1>2, <1>5 DEF LastPromises, LastRows
<1>7. RowsCurrent(u, failed, n)
  BY <1>1, <1>2, <1>4, <1>5, <1>6 DEF RowsCurrent
<1>8. StatusShape(u.page) /\ Saving(u) /\ Waits(u) /\ Chooses(u)
  BY <1>1, <1>2, <1>4 DEF StatusShape, Saving, Waits, Chooses
<1>. QED
  BY <1>3, <1>7, <1>8 DEF StatusOK

\* The flights with one more at the end.
LEMMA OneMore ==
  ASSUME NEW t, TabOK(t), NEW u, NEW kind, NEW key, u.flights = Append(t.flights, Request(kind, key))
  PROVE  LET m == Len(t.flights) + 1
         IN  /\ m \in Nat /\ m \in DOMAIN u.flights /\ u.flights[m] = Request(kind, key)
             /\ DOMAIN u.flights = DOMAIN t.flights \cup {m}
             /\ \A i \in DOMAIN t.flights : i < m /\ u.flights[i] = t.flights[i]
<1>. DEFINE n == Len(t.flights)
<1>1. /\ DOMAIN u.flights = 1..(n + 1)
      /\ \A i \in 1..n : u.flights[i] = t.flights[i]
      /\ u.flights[n + 1] = Request(kind, key)
      /\ DOMAIN t.flights = 1..n /\ n \in Nat
  BY RequestIsFlight, AppendFlight, FlightDomain DEF TabOK
<1>. HIDE DEF n
<1>2. n + 1 \in Nat /\ n + 1 \in 1..(n + 1) /\ 1..(n + 1) = 1..n \cup {n + 1} /\ \A i \in 1..n : i < n + 1
  BY <1>1
<1>. QED
  BY <1>1, <1>2 DEF n

\* The rows are asked for.
LEMMA RefreshRows ==
  ASSUME NEW t, TabOK(t), t.page.name = "status", StatusShape(t.page), Saving(t), Chooses(t),
         t.page.group # None, NEW failed, NEW n
  PROVE  LET u == refresh(t)
         IN  Keeps(t, u) /\ StatusOK(u, failed, n)
<1>. DEFINE v == [t EXCEPT !.page.loading = TRUE]
            group == t.page.group
            r == Request("rows", group)
            u == refresh(t)
<1>1. u = Send(v, "rows", group)
  BY DEF refresh
<1>2. /\ DOMAIN v = DOMAIN t /\ v.flights = t.flights /\ v.tidy = t.tidy
      /\ DOMAIN v.page = StatusFields
      /\ \A x \in StatusFields \ {"loading"} : v.page[x] = t.page[x]
      /\ v.page.loading = TRUE
  BY DEF TabOK, StatusShape, StatusFields
<1>. HIDE DEF u, v
<1>3. /\ v.page.project = t.page.project /\ v.page.group = group /\ v.page.dialog = t.page.dialog
      /\ v.page.name = t.page.name /\ v.page.store = t.page.store
  BY <1>2 DEF StatusFields
<1>4. Keeps(t, v) /\ TabOK(v)
  <2>1. Turns(t, v)
    BY <1>2, <1>3 DEF Turns, TabOK, StatusShape
  <2>2. Keeps(t, v)
    BY <2>1, TurnsKeeps
  <2>. QED
    BY <2>2 DEF Keeps
<1>5. /\ u.page = v.page /\ u.tidy = v.tidy /\ u.flights = Append(v.flights, r)
      /\ Keeps(v, u)
  <2>1. "rows" \notin {"model", "orphan"} /\ "rows" \notin {"dialog", "save"}
    OBVIOUS
  <2>2. TabOK(v)
    BY <1>4
  <2>3. u.page = v.page /\ u.tidy = v.tidy /\ u.flights = Append(v.flights, r)
    BY <1>1, <2>2, SendKeeps
  <2>4. Keeps(v, u)
    BY <1>1, <2>1, <2>2, SendKeeps
  <2>. QED
    BY <2>3, <2>4
<1>6. Keeps(t, u)
  BY <1>4, <1>5, KeepsTransitive
<1>7. r.kind = "rows" /\ r.key = group /\ r.pc = "sent" /\ IsFlight(r) /\ AreFlights(t.flights)
  BY RequestIsFlight DEF Request, TabOK
<1>8. \A kinds : /\ HasKind(u.flights, kinds) <=> HasKind(t.flights, kinds) \/ "rows" \in kinds
                 /\ "rows" \notin kinds /\ OneOfKind(t.flights, kinds) => OneOfKind(u.flights, kinds)
  BY <1>2, <1>5, <1>7, KindsOfAppended
<1>9. Saving(u) /\ Waits(u)
  BY <1>3, <1>5, <1>8 DEF Saving, Waits
<1>10. Chooses(u) /\ StatusShape(u.page)
  BY <1>2, <1>3, <1>5 DEF Chooses, Loaded, StatusShape
<1>11. PICK m \in Nat : /\ m \in DOMAIN u.flights /\ u.flights[m] = r
                        /\ DOMAIN u.flights = DOMAIN t.flights \cup {m}
                        /\ \A i \in DOMAIN t.flights : i < m
  BY <1>2, <1>5, OneMore
<1>. HIDE DEF r
<1>12. m \in AsksRows(u)
  BY <1>7, <1>11 DEF AsksRows, Pending
<1>13. \A i \in AsksRows(u) : LastRows(u, i) => i = m
  <2>1. \A i \in DOMAIN t.flights : i \in Nat
    BY <1>7, FlightDomain
  <2>2. ASSUME NEW i \in AsksRows(u), LastRows(u, i)
        PROVE  i = m
    <3>1. m <= i
      BY <1>12, <2>2 DEF LastRows
    <3>2. i \in DOMAIN t.flights \/ i = m
      BY <1>11 DEF AsksRows, Pending
    <3>. QED
      BY <1>11, <2>1, <3>1, <3>2
  <2>. QED
    BY <2>2
<1>14. RowsCurrent(u, failed, n)
  <2>1. Promises(u.flights[m], u.page.group, n)
    BY <1>3, <1>5, <1>7, <1>11 DEF Promises
  <2>. QED
    BY <1>12, <1>13, <2>1 DEF RowsCurrent, LastPromises
<1>. QED
  BY <1>6, <1>9, <1>10, <1>14 DEF StatusOK, u

\* Another group.
LEMMA GroupSet ==
  ASSUME NEW t, TabOK(t), t.page.name = "status", StatusShape(t.page), Saving(t), NEW group,
         t.page.project \in ToSet(AProjects), group \in ToSet(AGroups[t.page.project]), NEW failed, NEW n
  PROVE  LET u == setGroup(t, group)
         IN  Keeps(t, u) /\ StatusOK(u, failed, n)
<1>. DEFINE v == [t EXCEPT !.page.group = group]
            w == refresh(v)
            one == IF Len(APlots[w.page.group]) = 1 THEN APlots[w.page.group] ELSE None
            u == [w EXCEPT !.page.plot = one]
<1>1. setGroup(t, group) = u
  BY DEF setGroup, watchPlotsOfGroup
<1>2. /\ DOMAIN v = DOMAIN t /\ v.flights = t.flights /\ v.tidy = t.tidy
      /\ DOMAIN v.page = StatusFields
      /\ \A x \in StatusFields \ {"group"} : v.page[x] = t.page[x]
      /\ v.page.group = group
  BY DEF TabOK, StatusShape, StatusFields
<1>. HIDE DEF v
<1>3. /\ v.page.project = t.page.project /\ v.page.dialog = t.page.dialog /\ v.page.loading = t.page.loading
      /\ v.page.name = t.page.name /\ v.page.store = t.page.store
  BY <1>2 DEF StatusFields
<1>4. Keeps(t, v) /\ TabOK(v)
  <2>1. Turns(t, v)
    BY <1>2, <1>3 DEF Turns, TabOK, StatusShape
  <2>2. Keeps(t, v)
    BY <2>1, TurnsKeeps
  <2>. QED
    BY <2>2 DEF Keeps
<1>5. Keeps(v, w) /\ StatusOK(w, failed, n)
  <2>1. StatusShape(v.page) /\ Saving(v) /\ Chooses(v) /\ v.page.group # None /\ v.page.name = "status"
    BY <1>2, <1>3, GroupChosen DEF StatusShape, Saving, Chooses
  <2>. QED
    BY <1>4, <2>1, RefreshRows
<1>. HIDE DEF w
<1>6. TabOK(w) /\ w.page.name = "status" /\ StatusShape(w.page)
  BY <1>3, <1>5 DEF Keeps, StatusOK
<1>. HIDE DEF one
<1>7. /\ DOMAIN u = DOMAIN w /\ u.flights = w.flights /\ u.tidy = w.tidy
      /\ DOMAIN u.page = StatusFields
      /\ \A x \in StatusTouched : u.page[x] = w.page[x]
      /\ u.page.dialog = w.page.dialog
  BY <1>6 DEF TabOK, StatusShape, StatusFields, StatusTouched
<1>. HIDE DEF u
<1>8. Keeps(w, u) /\ StatusOK(u, failed, n)
  BY <1>5, <1>6, <1>7, TouchedDone DEF StatusShape
<1>9. Keeps(t, u)
  BY <1>4, <1>5, <1>8, KeepsTransitive
<1>. QED
  BY <1>1, <1>8, <1>9

LEMMA ProjectSet ==
  ASSUME NEW t, TabOK(t), t.page.name = "status", StatusShape(t.page), Saving(t),
         NEW project \in ToSet(AProjects), NEW failed, NEW n
  PROVE  LET u == setProject(t, project)
         IN  Keeps(t, u) /\ StatusOK(u, failed, n)
<1>. DEFINE v == [t EXCEPT !.page.project = project]
            group == IF DefaultGroup[project] \in ToSet(AGroups[project]) THEN DefaultGroup[project]
                     ELSE AGroups[project][1]
            u == setProject(t, project)
<1>1. u = setGroup(v, group)
  BY DEF setProject
<1>2. group \in ToSet(AGroups[project])
  <2>1. AGroups[project] \in Seq(ToSet(AGroups[project])) /\ AGroups[project] # <<>>
    BY ProjectsAssumption
  <2>2. AGroups[project][1] \in ToSet(AGroups[project])
    BY <2>1, ListItems
  <2>. QED
    BY <2>2
<1>3. /\ DOMAIN v = DOMAIN t /\ v.flights = t.flights /\ v.tidy = t.tidy
      /\ DOMAIN v.page = StatusFields
      /\ \A x \in StatusFields \ {"project"} : v.page[x] = t.page[x]
      /\ v.page.project = project
  BY DEF TabOK, StatusShape, StatusFields
<1>. HIDE DEF u, v, group
<1>4. /\ v.page.dialog = t.page.dialog /\ v.page.loading = t.page.loading
      /\ v.page.name = t.page.name /\ v.page.store = t.page.store
  BY <1>3 DEF StatusFields
<1>5. Keeps(t, v) /\ TabOK(v)
  <2>1. Turns(t, v)
    BY <1>3, <1>4 DEF Turns, TabOK, StatusShape
  <2>2. Keeps(t, v)
    BY <2>1, TurnsKeeps
  <2>. QED
    BY <2>2 DEF Keeps
<1>6. StatusShape(v.page) /\ Saving(v) /\ v.page.name = "status"
  BY <1>3, <1>4 DEF StatusShape, Saving
<1>7. Keeps(v, u) /\ StatusOK(u, failed, n)
  BY <1>1, <1>2, <1>3, <1>5, <1>6, GroupSet
<1>8. Keeps(t, u)
  BY <1>5, <1>7, KeepsTransitive
<1>. QED
  BY <1>7, <1>8 DEF u

LEMMA FirstProject == AProjects[1] \in ToSet(AProjects)
BY ProjectsAssumption, ListItems

\* A dialog is shown or a status is saved: a request that is not for rows.
LEMMA OtherSent ==
  ASSUME NEW t, TabOK(t), t.page.name = "status", StatusShape(t.page), Waits(t), Chooses(t), NEW failed, NEW n,
         RowsCurrent(t, failed, n), NEW kind \in {"dialog", "save"}, NEW key,
         kind = "dialog" => Saving(t),
         kind = "save" => t.page.dialog.submitting /\ ~HasKind(t.flights, {"save"})
  PROVE  LET u == Send(t, kind, key)
         IN  Keeps(t, u) /\ StatusOK(u, failed, n)
<1>. DEFINE r == Request(kind, key)
            u == Send(t, kind, key)
<1>1. /\ u.page = t.page /\ u.tidy = t.tidy /\ u.flights = Append(t.flights, r)
      /\ Keeps(t, u)
  <2>1. kind \notin {"model", "orphan"}
    OBVIOUS
  <2>. QED
    BY ZenonT(30), <2>1, SendKeeps
<1>. HIDE DEF u
<1>2. r.kind = kind /\ r.pc = "sent" /\ IsFlight(r) /\ AreFlights(t.flights)
  BY RequestIsFlight DEF Request, TabOK
<1>3. \A kinds : /\ HasKind(u.flights, kinds) <=> HasKind(t.flights, kinds) \/ kind \in kinds
                 /\ OneOfKind(t.flights, kinds) /\ (kind \in kinds => ~HasKind(t.flights, kinds))
                      => OneOfKind(u.flights, kinds)
  BY <1>1, <1>2, KindsOfAppended
<1>4. Saving(u)
  <2>1. CASE kind = "dialog"
    BY <1>1, <1>3, <2>1 DEF Saving
  <2>2. CASE kind = "save"
    <3>1. OneOfKind(t.flights, {"save"})
      BY <2>2 DEF HasKind, OneOfKind
    <3>. QED
      BY <1>1, <1>3, <2>2, <3>1 DEF Saving
  <2>. QED
    BY <2>1, <2>2
<1>5. Waits(u) /\ Chooses(u) /\ StatusShape(u.page)
  BY <1>1, <1>3 DEF Waits, Chooses, Loaded
<1>6. PICK m \in Nat : /\ m \in DOMAIN u.flights /\ u.flights[m] = r
                       /\ DOMAIN u.flights = DOMAIN t.flights \cup {m}
                       /\ \A i \in DOMAIN t.flights : u.flights[i] = t.flights[i]
  BY <1>1, OneMore
<1>. HIDE DEF r
<1>7. AsksRows(u) = AsksRows(t) /\ \A i \in AsksRows(t) : u.flights[i] = t.flights[i]
  BY <1>2, <1>6 DEF AsksRows, Pending
<1>8. SaveAnswered(t) => SaveAnswered(u)
  BY <1>6 DEF SaveAnswered
<1>9. RowsCurrent(u, failed, n)
  <2>1. LastPromises(t, n) => LastPromises(u, n)
    BY <1>1, <1>7 DEF LastPromises, LastRows
  <2>. QED
    BY <1>1, <1>7, <1>8, <2>1 DEF RowsCurrent, Loaded
<1>. QED
  BY <1>1, <1>4, <1>5, <1>9 DEF StatusOK, u

\* The handlers of the page.
StatusDone(u, failed, n) == Keeps(tab, u) /\ StatusOK(u, failed, n)

LEMMA ChoicesDone ==
  ASSUME TabOK(tab), StatusOK(tab, fails, notes), selectProject \/ selectGroup
  PROVE  StatusDone(tab', fails', notes')
<1>1. /\ tab.page.name = "status" /\ Loaded(tab)
      /\ StatusShape(tab.page) /\ Saving(tab) /\ Chooses(tab)
  BY DEF selectProject, selectGroup, OnTable, OnStatus, OnPage, StatusOK
<1>2. CASE selectProject
  <2>1. PICK x \in ToSet(AProjects) : tab' = setProject(tab, x)
    BY <1>2 DEF selectProject
  <2>2. Keeps(tab, setProject(tab, x)) /\ StatusOK(setProject(tab, x), fails', notes')
    BY <1>1, ProjectSet
  <2>. QED
    BY <2>1, <2>2 DEF StatusDone
<1>3. CASE selectGroup
  <2>1. PICK x \in ToSet(AGroups[tab.page.project]) : tab' = setGroup(tab, x)
    BY <1>3 DEF selectGroup
  <2>2. tab.page.project \in ToSet(AProjects)
    BY <1>1 DEF Chooses
  <2>3. Keeps(tab, setGroup(tab, x)) /\ StatusOK(setGroup(tab, x), fails', notes')
    BY <1>1, <2>2, GroupSet
  <2>. QED
    BY <2>1, <2>3 DEF StatusDone
<1>. QED
  BY <1>2, <1>3

\* What is changed in the page alone.
LEMMA PageDone ==
  ASSUME TabOK(tab), StatusOK(tab, fails, notes), tab.page.name = "status", NEW p,
         tab' = [tab EXCEPT !.page = p], UNCHANGED <<fails, notes>>,
         DOMAIN p = StatusFields, \A x \in StatusTouched : p[x] = tab.page[x],
         DOMAIN p.dialog = DialogFields, p.dialog.submitting = tab.page.dialog.submitting
  PROVE  StatusDone(tab', fails', notes')
<1>. DEFINE u == [tab EXCEPT !.page = p]
<1>1. DOMAIN u = DOMAIN tab /\ u.flights = tab.flights /\ u.tidy = tab.tidy /\ u.page = p
  BY DEF TabOK
<1>2. u = tab'
  OBVIOUS
<1>. HIDE DEF u
<1>3. Keeps(tab, u) /\ StatusOK(u, fails, notes)
  BY <1>1, TouchedDone
<1>. QED
  BY <1>2, <1>3 DEF StatusDone

\* The dialog of the page.
WithDialog(p, d) == [p EXCEPT !.dialog = d]

LEMMA DialogSet ==
  ASSUME TabOK(tab), StatusShape(tab.page), NEW d
  PROVE  /\ SetDialog(tab, d) = [tab EXCEPT !.page = WithDialog(tab.page, d)]
         /\ DOMAIN WithDialog(tab.page, d) = StatusFields
         /\ \A x \in StatusTouched : WithDialog(tab.page, d)[x] = tab.page[x]
         /\ WithDialog(tab.page, d).dialog = d
BY DEF SetDialog, WithDialog, StatusShape, StatusFields, StatusTouched, TabOK

LEMMA DialogDone ==
  ASSUME TabOK(tab), StatusOK(tab, fails, notes), tab.page.name = "status", NEW d, tab' = SetDialog(tab, d),
         UNCHANGED <<fails, notes>>, DOMAIN d = DialogFields, d.submitting = tab.page.dialog.submitting
  PROVE  StatusDone(tab', fails', notes')
<1>1. StatusShape(tab.page)
  BY DEF StatusOK
<1>. QED
  BY <1>1, DialogSet, PageDone

LEMMA ViewsDone ==
  ASSUME TabOK(tab), StatusOK(tab, fails, notes), selectPlot \/ typeSearch \/ selectView
  PROVE  /\ StatusDone(tab', fails', notes')
         /\ tab'.flights = tab.flights /\ tab'.page.dialog = tab.page.dialog
<1>1. tab.page.name = "status" /\ StatusShape(tab.page) /\ UNCHANGED <<fails, notes>>
  BY DEF selectPlot, typeSearch, selectView, Click, OnTable, OnStatus, OnPage, StatusOK
<1>2. \E x \in {"plot", "search", "view", "outdated", "lowVoltage"} : \E v : tab' = [tab EXCEPT !.page = [@ EXCEPT ![x] = v]]
  <2>1. CASE selectPlot
    <3>1. PICK v : tab' = [tab EXCEPT !.page.plot = v]
      BY <2>1 DEF selectPlot
    <3>2. tab' = [tab EXCEPT !.page = [@ EXCEPT !["plot"] = v]]
      BY <3>1
    <3>. QED
      BY <3>2
  <2>2. CASE typeSearch
    <3>1. PICK v : tab' = [tab EXCEPT !.page.search = v]
      BY <2>2 DEF typeSearch
    <3>2. tab' = [tab EXCEPT !.page = [@ EXCEPT !["search"] = v]]
      BY <3>1
    <3>. QED
      BY <3>2
  <2>3. CASE selectView
    <3>1. \/ tab' = [tab EXCEPT !.page.view = "report"] \/ tab' = [tab EXCEPT !.page.view = "table"]
          \/ tab' = [tab EXCEPT !.page.outdated = ~@] \/ tab' = [tab EXCEPT !.page.lowVoltage = ~@]
      BY <2>3 DEF selectView
    <3>2. \/ tab' = [tab EXCEPT !.page = [@ EXCEPT !["view"] = "report"]]
          \/ tab' = [tab EXCEPT !.page = [@ EXCEPT !["view"] = "table"]]
          \/ tab' = [tab EXCEPT !.page = [@ EXCEPT !["outdated"] = ~tab.page.outdated]]
          \/ tab' = [tab EXCEPT !.page = [@ EXCEPT !["lowVoltage"] = ~tab.page.lowVoltage]]
      BY <3>1
    <3>. QED
      BY <3>2
  <2>. QED
    BY <2>1, <2>2, <2>3
<1>3. PICK x \in {"plot", "search", "view", "outdated", "lowVoltage"} :
        \E v : tab' = [tab EXCEPT !.page = [@ EXCEPT ![x] = v]]
  BY <1>2
<1>6. PICK v : tab' = [tab EXCEPT !.page = [@ EXCEPT ![x] = v]]
  BY <1>3
<1>. DEFINE p == [tab.page EXCEPT ![x] = v]
<1>4. tab' = [tab EXCEPT !.page = p]
  BY <1>6
<1>5. /\ DOMAIN p = StatusFields
      /\ \A y \in StatusTouched : p[y] = tab.page[y]
      /\ p.dialog = tab.page.dialog
  BY <1>1 DEF StatusShape, StatusFields, StatusTouched
<1>. HIDE DEF p
<1>7. StatusDone(tab', fails', notes')
  BY <1>1, <1>4, <1>5, PageDone DEF StatusShape
<1>8. tab'.flights = tab.flights /\ tab'.page.dialog = tab.page.dialog
  BY <1>4, <1>5 DEF TabOK
<1>. QED
  BY <1>7, <1>8

LEMMA EditsDone ==
  ASSUME TabOK(tab), StatusOK(tab, fails, notes), closeDialog \/ typeNewTask \/ addTask \/ removeTask \/ setTaskStatus
  PROVE  StatusDone(tab', fails', notes')
<1>. DEFINE d == tab.page.dialog
            SameSaving(e) == DOMAIN e = DialogFields /\ e.submitting = d.submitting
<1>1. tab.page.name = "status" /\ StatusShape(tab.page) /\ UNCHANGED <<fails, notes>>
  BY ZenonT(30) DEF closeDialog, typeNewTask, addTask, removeTask, setTaskStatus, Edits, Editing, Click, OnStatus, OnPage, StatusOK
<1>2. DOMAIN d = DialogFields
  BY <1>1 DEF StatusShape
<1>3. \E e : tab' = SetDialog(tab, e) /\ SameSaving(e)
  <2>1. CASE closeDialog
    <3>1. tab' = SetDialog(tab, Closed(d))
      BY <2>1 DEF closeDialog
    <3>2. SameSaving(Closed(d))
      BY <1>2 DEF Closed, DialogFields
    <3>. QED
      BY <3>1, <3>2
  <2>2. ASSUME NEW S, Edits(S), \A e \in S : SameSaving(e)
        PROVE  \E e : tab' = SetDialog(tab, e) /\ SameSaving(e)
    BY <2>2 DEF Edits
  <2>3. CASE typeNewTask
    <3>. DEFINE S == {[d EXCEPT !.newTask = ~@]}
    <3>1. Edits(S)
      BY <2>3 DEF typeNewTask
    <3>2. \A e \in S : SameSaving(e)
      BY <1>2 DEF DialogFields
    <3>. QED
      BY <2>2, <3>1, <3>2
  <2>4. CASE addTask
    <3>. DEFINE S == {[d EXCEPT !.newTask = FALSE,
                                !.row.tasks = Append(@, TaskOf(clicks, "open", getNextTaskId(@)))]}
    <3>1. Edits(S)
      BY <2>4 DEF addTask
    <3>2. \A e \in S : SameSaving(e)
      BY <1>2 DEF DialogFields
    <3>. QED
      BY <2>2, <3>1, <3>2
  <2>5. CASE removeTask
    <3>. DEFINE S == {[d EXCEPT !.row.tasks = RemoveAt(@, k)] : k \in {j \in DOMAIN d.row.tasks : VisibleTask(d, j)}}
    <3>1. Edits(S)
      BY <2>5 DEF removeTask
    <3>2. \A e \in S : SameSaving(e)
      BY <1>2 DEF DialogFields
    <3>. QED
      BY <2>2, <3>1, <3>2
  <2>6. CASE setTaskStatus
    <3>1. PICK v \in {"progress", "done"} :
            Edits({[d EXCEPT !.row.tasks[k].status = v] : k \in {j \in DOMAIN d.row.tasks : VisibleTask(d, j)}})
      BY ZenonT(30), <2>6 DEF setTaskStatus
    <3>. DEFINE S == {[d EXCEPT !.row.tasks[k].status = v] : k \in {j \in DOMAIN d.row.tasks : VisibleTask(d, j)}}
    <3>2. \A e \in S : SameSaving(e)
      BY <1>2 DEF DialogFields
    <3>. QED
      BY <2>2, <3>1, <3>2
  <2>. QED
    BY <2>1, <2>3, <2>4, <2>5, <2>6
<1>4. PICK e : tab' = SetDialog(tab, e) /\ DOMAIN e = DialogFields /\ e.submitting = tab.page.dialog.submitting
  BY <1>3
<1>. QED
  BY <1>1, <1>4, DialogDone

LEMMA RowClickDone ==
  ASSUME TabOK(tab), StatusOK(tab, fails, notes), onRowClick
  PROVE  StatusDone(tab', fails', notes')
<1>1. tab.page.name = "status" /\ StatusShape(tab.page) /\ UNCHANGED <<fails, notes>>
  BY DEF onRowClick, Click, OnTable, OnStatus, OnPage, StatusOK
<1>2. PICK x : tab' = Send(SetDialog(tab, [tab.page.dialog EXCEPT !.shown = TRUE, !.plot = x, !.loading = TRUE]),
                           "dialog", x)
  BY DEF onRowClick
<1>. DEFINE d == [tab.page.dialog EXCEPT !.shown = TRUE, !.plot = x, !.loading = TRUE]
            v == SetDialog(tab, d)
            p == WithDialog(tab.page, d)
            u == tab'
<1>3. DOMAIN d = DialogFields /\ d.submitting = tab.page.dialog.submitting
  BY <1>1 DEF StatusShape, DialogFields
<1>4. u = Send(v, "dialog", x)
  BY <1>2
<1>. HIDE DEF d, u
<1>5. /\ DOMAIN v = DOMAIN tab /\ v.flights = tab.flights /\ v.tidy = tab.tidy
      /\ DOMAIN v.page = StatusFields
      /\ \A y \in StatusTouched : v.page[y] = tab.page[y]
      /\ v.page.dialog = d
  <2>1. /\ v = [tab EXCEPT !.page = p]
        /\ DOMAIN p = StatusFields /\ (\A y \in StatusTouched : p[y] = tab.page[y]) /\ p.dialog = d
    BY <1>1, DialogSet
  <2>. HIDE DEF p, v
  <2>2. DOMAIN v = DOMAIN tab /\ v.flights = tab.flights /\ v.tidy = tab.tidy /\ v.page = p
    BY <2>1 DEF TabOK
  <2>. QED
    BY <2>1, <2>2
<1>. HIDE DEF v
<1>6. Keeps(tab, v) /\ StatusOK(v, fails, notes)
  BY <1>1, <1>3, <1>5, TouchedDone
<1>7. /\ TabOK(v) /\ v.page.name = "status"
      /\ StatusShape(v.page) /\ Saving(v) /\ Waits(v) /\ Chooses(v) /\ RowsCurrent(v, fails, notes)
  BY <1>1, <1>6 DEF Keeps, StatusOK
<1>8. Keeps(v, u) /\ StatusOK(u, fails, notes)
  <2>1. "dialog" \in {"dialog", "save"} /\ "dialog" # "save"
    OBVIOUS
  <2>. QED
    BY <1>4, <1>7, <2>1, OtherSent
<1>9. StatusDone(u, fails, notes)
  BY <1>6, <1>8, KeepsTransitive DEF StatusDone
<1>. QED
  BY <1>1, <1>9 DEF u

LEMMA SubmitDone ==
  ASSUME TabOK(tab), StatusOK(tab, fails, notes), onSubmit
  PROVE  StatusDone(tab', fails', notes')
<1>1. /\ tab.page.name = "status" /\ ~tab.page.dialog.submitting
      /\ StatusShape(tab.page) /\ Saving(tab) /\ Waits(tab) /\ Chooses(tab) /\ RowsCurrent(tab, fails, notes)
      /\ UNCHANGED <<fails, notes>>
  BY DEF onSubmit, Click, Editing, OnStatus, OnPage, StatusOK
<1>. DEFINE row == tab.page.dialog.row
            v == [tab EXCEPT !.page.dialog.submitting = TRUE]
            u == tab'
<1>2. u = Send(v, "save", row)
  BY DEF onSubmit
<1>3. /\ DOMAIN v = DOMAIN tab /\ v.flights = tab.flights /\ v.tidy = tab.tidy
      /\ DOMAIN v.page = StatusFields
      /\ \A x \in StatusFields \ {"dialog"} : v.page[x] = tab.page[x]
      /\ DOMAIN v.page.dialog = DialogFields
      /\ v.page.dialog.submitting = TRUE
  BY <1>1 DEF TabOK, StatusShape, StatusFields, DialogFields
<1>. HIDE DEF u, v, row
<1>4. /\ v.page.project = tab.page.project /\ v.page.group = tab.page.group /\ v.page.rows = tab.page.rows
      /\ v.page.loading = tab.page.loading /\ v.page.name = tab.page.name /\ v.page.store = tab.page.store
  BY <1>3 DEF StatusFields
<1>5. Keeps(tab, v) /\ TabOK(v)
  <2>1. Turns(tab, v)
    BY <1>1, <1>3, <1>4 DEF Turns, TabOK, StatusShape
  <2>2. Keeps(tab, v)
    BY <2>1, TurnsKeeps
  <2>. QED
    BY <2>2 DEF Keeps
<1>6. ~HasKind(v.flights, {"save"})
  BY <1>1, <1>3 DEF Saving
<1>7. StatusShape(v.page) /\ Waits(v) /\ Chooses(v)
  BY <1>1, <1>3, <1>4 DEF StatusShape, Waits, Chooses, Loaded
<1>8. RowsCurrent(v, fails, notes)
  <2>1. AsksRows(v) = AsksRows(tab) /\ (SaveAnswered(v) <=> SaveAnswered(tab))
    BY <1>3 DEF AsksRows, Pending, SaveAnswered
  <2>2. LastPromises(v, notes) <=> LastPromises(tab, notes)
    BY <1>3, <1>4, <2>1 DEF LastPromises, LastRows
  <2>. QED
    BY <1>1, <1>3, <1>4, <2>1, <2>2 DEF RowsCurrent, Loaded
<1>9. Keeps(v, u) /\ StatusOK(u, fails, notes)
  <2>1. "save" \in {"dialog", "save"} /\ "dialog" # "save" /\ v.page.name = "status"
    BY <1>1, <1>4
  <2>. QED
    BY <1>2, <1>3, <1>5, <1>6, <1>7, <1>8, <2>1, OtherSent
<1>10. StatusDone(u, fails, notes)
  BY <1>5, <1>9, KeepsTransitive DEF StatusDone
<1>. QED
  BY <1>1, <1>10 DEF u

\* The flights that are left are the others, in the same order.
LEMMA FlightsLeft ==
  ASSUME NEW s, AreFlights(s), NEW i \in DOMAIN s, NEW new, new = RemoveAt(s, i)
  PROVE  /\ DOMAIN new = 1..(Len(s) - 1)
         /\ \A k \in DOMAIN new : Moved(k, i) \in DOMAIN s \ {i} /\ new[k] = s[Moved(k, i)]
         /\ \A j \in DOMAIN s \ {i} : \E k \in DOMAIN new : j = Moved(k, i)
         /\ \A k, l \in DOMAIN new : k <= l <=> Moved(k, i) <= Moved(l, i)
<1>1. DOMAIN new = 1..(Len(s) - 1)
  BY RemoveFlight
<1>2. \A k \in DOMAIN new : Moved(k, i) \in DOMAIN s \ {i} /\ new[k] = s[Moved(k, i)]
  BY RemoveFlight
<1>3. \A j \in DOMAIN s \ {i} : \E k \in DOMAIN new : j = Moved(k, i)
  BY RemoveFlight
<1>4. \A k, l \in DOMAIN new : k <= l <=> Moved(k, i) <= Moved(l, i)
  BY RemoveFlight
<1>. QED
  BY <1>1, <1>2, <1>3, <1>4

\* A flight of the page leaves.
LEMMA StatusFlightGone ==
  ASSUME TabOK(tab), StatusOK(tab, fails, notes), tab.page.name = "status",
         NEW i \in DOMAIN tab.flights, tab.flights[i].kind \in StatusKinds, NEW overlap
  PROVE  LET u == UntidyIf(Gone(i), overlap)
             kind == tab.flights[i].kind
         IN  /\ Keeps(tab, u) /\ TabOK(u) /\ DOMAIN u = DOMAIN tab /\ u.page = tab.page
             /\ u.tidy => tab.tidy /\ ~overlap
             /\ kind # "save" => Saving(u) /\ (SaveAnswered(tab) => SaveAnswered(u))
             /\ kind = "save" => ~HasKind(u.flights, {"save"})
             /\ kind # "rows" => Waits(u) /\ (AsksRows(u) = {} => AsksRows(tab) = {})
             /\ kind # "rows" /\ LastPromises(tab, notes) => LastPromises(u, notes)
             /\ kind = "rows" /\ InOrder(i, {"rows"}) =>
                  \/ AsksRows(u) = {} /\ LastRows(tab, i)
                  \/ AsksRows(u) # {} /\ (LastPromises(tab, notes) => LastPromises(u, notes))
<1>. DEFINE u == UntidyIf(Gone(i), overlap)
            s == tab.flights
            new == u.flights
            kind == s[i].kind
            n == Len(s)
<1>1. AreFlights(s) /\ kind # "model"
  BY DEF TabOK, StatusKinds
<1>2. /\ Keeps(tab, u) /\ TabOK(u) /\ DOMAIN u = DOMAIN tab /\ u.page = tab.page
      /\ new = RemoveAt(s, i)
      /\ u.tidy => tab.tidy /\ ~overlap
  BY <1>1, GoneKeeps
<1>3. Saving(tab) /\ Waits(tab)
  BY DEF StatusOK
<1>. HIDE DEF u
<1>4. \A kinds : /\ HasKind(new, kinds) => HasKind(s, kinds)
                 /\ kind \notin kinds /\ HasKind(s, kinds) => HasKind(new, kinds)
                 /\ OneOfKind(s, kinds) => OneOfKind(new, kinds)
                 /\ OneOfKind(s, kinds) /\ kind \in kinds => ~HasKind(new, kinds)
  BY <1>1, <1>2, KindsOfRemoved
<1>5. /\ DOMAIN new = 1..(n - 1)
      /\ \A k \in DOMAIN new : Moved(k, i) \in DOMAIN s \ {i} /\ new[k] = s[Moved(k, i)]
      /\ \A j \in DOMAIN s \ {i} : \E k \in DOMAIN new : j = Moved(k, i)
      /\ \A k, l \in DOMAIN new : k <= l <=> Moved(k, i) <= Moved(l, i)
  <2>1. new = RemoveAt(s, i) /\ AreFlights(s) /\ i \in DOMAIN s
    BY <1>1, <1>2
  <2>. HIDE DEF s, new, n
  <2>2. n = Len(s)
    BY DEF n
  <2>3. DOMAIN new = 1..(n - 1)
    BY <2>1, <2>2, FlightsLeft
  <2>4. \A k \in DOMAIN new : Moved(k, i) \in DOMAIN s \ {i} /\ new[k] = s[Moved(k, i)]
    BY <2>1, FlightsLeft
  <2>5. \A j \in DOMAIN s \ {i} : \E k \in DOMAIN new : j = Moved(k, i)
    BY <2>1, FlightsLeft
  <2>6. \A k, l \in DOMAIN new : k <= l <=> Moved(k, i) <= Moved(l, i)
    BY <2>1, FlightsLeft
  <2>. QED
    BY <2>3, <2>4, <2>5, <2>6
<1>6. \A j \in DOMAIN s : j \in Nat
  <2>1. DOMAIN s = 1..n /\ n \in Nat
    BY <1>1, FlightDomain
  <2>. HIDE DEF s, n
  <2>. QED
    BY <2>1
<1>7. /\ \A k : k \in AsksRows(u) <=> k \in DOMAIN new /\ new[k].kind = "rows"
      /\ \A j : j \in AsksRows(tab) <=> j \in DOMAIN s /\ s[j].kind = "rows"
  BY DEF AsksRows, Pending
<1>8. kind # "save" => Saving(u)
  BY <1>2, <1>3, <1>4 DEF Saving
<1>9. kind = "save" => ~HasKind(new, {"save"})
  BY <1>3, <1>4 DEF Saving
<1>10. kind # "save" /\ SaveAnswered(tab) => SaveAnswered(u)
  <2>1. ASSUME kind # "save", NEW j \in DOMAIN s, s[j].kind = "save" /\ s[j].pc = "answered"
        PROVE  SaveAnswered(u)
    <3>1. j # i
      BY <2>1
    <3>2. PICK k \in DOMAIN new : j = Moved(k, i)
      BY <1>5, <3>1
    <3>3. new[k] = s[j]
      BY <1>5, <3>2
    <3>. QED
      BY <2>1, <3>3 DEF SaveAnswered
  <2>. QED
    BY <2>1 DEF SaveAnswered
<1>11. kind # "rows" => Waits(u)
  BY <1>2, <1>3, <1>4 DEF Waits
<1>. HIDE DEF new, s, kind, n
\* The last one that is left was the last one.
<1>12. ASSUME NEW k \in AsksRows(u), LastRows(u, k), kind # "rows" \/ \E j \in AsksRows(tab) : i < j
       PROVE  LET m == Moved(k, i) IN m \in AsksRows(tab) /\ LastRows(tab, m) /\ new[k] = s[m]
  <2>. DEFINE m == Moved(k, i)
  <2>1. k \in DOMAIN new /\ new[k].kind = "rows"
    BY <1>7
  <2>2. m \in DOMAIN s \ {i} /\ new[k] = s[m]
    BY <1>5, <2>1
  <2>3. m \in AsksRows(tab)
    BY <1>7, <2>1, <2>2
  <2>4. ASSUME NEW j \in AsksRows(tab), j # i
        PROVE  j <= m
    <3>1. PICK l \in DOMAIN new : j = Moved(l, i)
      BY <1>5, <1>7, <2>4
    <3>2. new[l] = s[j]
      BY <1>5, <3>1
    <3>3. l \in AsksRows(u)
      BY <1>7, <3>2
    <3>4. l <= k
      BY <3>3, <1>12 DEF LastRows
    <3>. QED
      BY <1>5, <2>1, <3>1, <3>4
  <2>5. i \in AsksRows(tab) => i <= m
    <3>1. kind # "rows" => i \notin AsksRows(tab)
      BY <1>7 DEF kind
    <3>2. ASSUME NEW j \in AsksRows(tab), i < j
          PROVE  i <= m
      <4>1. i \in Nat /\ j \in Nat /\ m \in Nat
        BY <1>6, <1>7, <2>2 DEF s
      <4>. HIDE DEF m
      <4>2. j # i
        BY <3>2, <4>1
      <4>3. j <= m
        BY <2>4, <4>2
      <4>. QED
        BY <3>2, <4>1, <4>3
    <3>. QED
      BY <1>12, <3>1, <3>2
  <2>6. LastRows(tab, m)
    BY <2>4, <2>5 DEF LastRows
  <2>. QED
    BY <2>2, <2>3, <2>6
<1>13. ASSUME kind # "rows" \/ (\E j \in AsksRows(tab) : i < j), LastPromises(tab, notes)
       PROVE  LastPromises(u, notes)
  <2>1. ASSUME NEW k \in AsksRows(u), LastRows(u, k)
        PROVE  Promises(new[k], u.page.group, notes)
    <3>1. PICK m \in AsksRows(tab) : LastRows(tab, m) /\ new[k] = s[m]
      BY <1>12, <1>13, <2>1
    <3>2. Promises(s[m], tab.page.group, notes)
      BY <1>13, <3>1 DEF LastPromises, s
    <3>. QED
      BY <1>2, <3>1, <3>2
  <2>. QED
    BY <2>1 DEF LastPromises, new
<1>14. kind # "rows" /\ AsksRows(u) = {} => AsksRows(tab) = {}
  <2>1. ASSUME NEW j \in AsksRows(tab), kind # "rows"
        PROVE  AsksRows(u) # {}
    <3>1. j \in DOMAIN s \ {i}
      BY <1>7, <2>1 DEF kind
    <3>2. PICK k \in DOMAIN new : j = Moved(k, i)
      BY <1>5, <3>1
    <3>3. k \in AsksRows(u)
      BY <1>5, <1>7, <2>1, <3>2
    <3>. QED
      BY <3>3
  <2>. QED
    BY <2>1
<1>15. ASSUME kind = "rows", InOrder(i, {"rows"})
       PROVE  \/ AsksRows(u) = {} /\ LastRows(tab, i)
              \/ AsksRows(u) # {} /\ (LastPromises(tab, notes) => LastPromises(u, notes))
  <2>1. \A j \in AsksRows(tab) : ~(j < i)
    BY <1>15 DEF InOrder, AsksRows
  <2>2. CASE \E j \in AsksRows(tab) : i < j
    <3>1. PICK j \in AsksRows(tab) : i < j
      BY <2>2
    <3>2. j \in DOMAIN s \ {i}
      BY <1>6, <1>7, <3>1
    <3>3. PICK k \in DOMAIN new : j = Moved(k, i)
      BY <1>5, <3>2
    <3>4. k \in AsksRows(u)
      BY <1>5, <1>7, <3>1, <3>3
    <3>. QED
      BY <1>13, <2>2, <3>4
  <2>3. CASE ~\E j \in AsksRows(tab) : i < j
    <3>1. \A j \in AsksRows(tab) : j = i
      <4>1. \A j \in AsksRows(tab) : j \in Nat /\ i \in Nat
        BY <1>6, <1>7 DEF s
      <4>. QED
        BY <2>1, <2>3, <4>1
    <3>2. LastRows(tab, i)
      <4>1. i \in Nat
        BY <1>6 DEF s
      <4>. QED
        BY <3>1, <4>1 DEF LastRows
    <3>3. AsksRows(u) = {}
      <4>1. ASSUME NEW k \in AsksRows(u)
            PROVE  FALSE
        <5>1. Moved(k, i) \in DOMAIN s \ {i} /\ Moved(k, i) \in AsksRows(tab)
          BY <1>5, <1>7
        <5>. QED
          BY <3>1, <5>1
      <4>. QED
        BY <4>1
    <3>. QED
      BY <3>2, <3>3
  <2>. QED
    BY <2>2, <2>3
<1>. QED
  BY <1>2, <1>8, <1>9, <1>10, <1>11, <1>13, <1>14, <1>15 DEF u, new, s, kind

\* The server handles a request of the page.
LEMMA ServeDone ==
  ASSUME TabOK(tab), StatusOK(tab, fails, notes), tab.page.name = "status", ServeStatus
  PROVE  StatusDone(tab', fails', notes')
<1>1. /\ StatusShape(tab.page) /\ Saving(tab) /\ Waits(tab) /\ Chooses(tab) /\ RowsCurrent(tab, fails, notes)
      /\ fails' = fails
  BY DEF ServeStatus, StatusOK
<1>2. PICK i \in Pending(tab, StatusKinds) :
        LET f == tab.flights[i]
        IN  /\ f.pc = "sent"
            /\ notes' = IF f.kind = "save" THEN handlePOST(f.key) ELSE notes
            /\ tab' = [tab EXCEPT !.flights[i].pc = "answered", !.flights[i].answer = statusAnswer(f)]
  BY DEF ServeStatus
<1>. DEFINE s == tab.flights
            f == s[i]
            answer == statusAnswer(f)
            u == tab'
            new == u.flights
<1>3. i \in DOMAIN s /\ f.pc = "sent" /\ AreFlights(s)
  BY <1>2 DEF Pending, TabOK
<1>4. f.kind # "save" => notes' = notes
  BY <1>2
<1>5. f.kind = "rows" => answer = rowsOf(notes, f.key)
  BY DEF statusAnswer
<1>6. u = [tab EXCEPT !.flights[i].pc = "answered", !.flights[i].answer = answer]
  BY <1>2
<1>. HIDE DEF answer
<1>7. /\ DOMAIN u = DOMAIN tab /\ u.page = tab.page /\ u.tidy = tab.tidy
      /\ new = [s EXCEPT ![i].pc = "answered", ![i].answer = answer]
  BY <1>6 DEF TabOK
<1>. HIDE DEF u
<1>8. AnsweredWith(s, new, i, answer)
  <2>1. AnsweredWith(s, [s EXCEPT ![i].pc = "answered", ![i].answer = answer], i, answer)
    BY <1>3, AnswerFlight
  <2>. QED
    BY <1>7, <2>1
<1>. HIDE DEF new
<1>9. \A kinds : /\ HasKind(new, kinds) <=> HasKind(s, kinds)
                 /\ OneOfKind(s, kinds) => OneOfKind(new, kinds)
  BY <1>3, <1>8, KindsOfAnswered
<1>10. Keeps(tab, u)
  <2>1. TabOK(u)
    BY <1>7, <1>8 DEF TabOK, AnsweredWith, new
  <2>2. \A k \in DOMAIN new : new[k].kind = "orphan" => new[k] = s[k] /\ k \in DOMAIN s
    BY <1>2, <1>8 DEF AnsweredWith, SameRequest, Pending, StatusKinds
  <2>3. PostsKept(tab, u)
    BY <2>2 DEF PostsKept, new
  <2>. QED
    BY <1>7, <1>9, <2>1, <2>3 DEF Keeps, HasModel, HasOrphan, new
<1>11. StatusShape(u.page) /\ Saving(u) /\ Waits(u) /\ Chooses(u)
  BY <1>1, <1>7, <1>9 DEF Saving, Waits, Chooses, Loaded, new
<1>12. /\ DOMAIN new = DOMAIN s
       /\ \A k \in DOMAIN s \ {i} : new[k] = s[k]
       /\ new[i].kind = f.kind /\ new[i].key = f.key /\ new[i].pc = "answered" /\ new[i].answer = answer
  BY <1>8 DEF AnsweredWith, SameRequest
<1>. HIDE DEF f
<1>13. AsksRows(u) = AsksRows(tab)
  BY <1>12 DEF AsksRows, Pending, new, f
<1>14. f.kind = "save" => SaveAnswered(u)
  BY <1>3, <1>12 DEF SaveAnswered, new
<1>15. SaveAnswered(tab) => SaveAnswered(u)
  <2>1. ASSUME NEW j \in DOMAIN s, s[j].kind = "save" /\ s[j].pc = "answered"
        PROVE  new[j].kind = "save" /\ new[j].pc = "answered" /\ j \in DOMAIN new
    <3>1. j # i
      BY <1>3, <2>1 DEF f
    <3>. QED
      BY <1>12, <2>1, <3>1
  <2>. QED
    BY <2>1 DEF SaveAnswered, new
<1>16. ASSUME LastPromises(tab, notes), f.kind # "save"
       PROVE  LastPromises(u, notes)
  <2>1. ASSUME NEW k \in AsksRows(u), LastRows(u, k)
        PROVE  Promises(new[k], u.page.group, notes)
    <3>1. k \in AsksRows(tab) /\ LastRows(tab, k)
      BY <1>13, <2>1 DEF LastRows
    <3>2. Promises(s[k], tab.page.group, notes)
      BY <1>16, <3>1 DEF LastPromises
    <3>3. CASE k = i
      <4>1. f.kind = "rows"
        BY <3>1, <3>3 DEF AsksRows, Pending, f
      <4>. QED
        BY <1>5, <1>7, <1>12, <3>2, <3>3, <4>1 DEF Promises, f
    <3>4. CASE k # i
      <4>1. new[k] = s[k]
        BY <1>12, <3>1, <3>4 DEF AsksRows, Pending
      <4>. QED
        BY <1>7, <3>2, <4>1
    <3>. QED
      BY <3>3, <3>4
  <2>. QED
    BY <2>1 DEF LastPromises, new
<1>17. RowsCurrent(u, fails, notes')
  BY <1>1, <1>4, <1>7, <1>13, <1>14, <1>15, <1>16 DEF RowsCurrent, Loaded
<1>. QED
  BY <1>1, <1>7, <1>10, <1>11, <1>17 DEF StatusDone, StatusOK, u

\* The rows have come.
LEMMA RowsLanded ==
  ASSUME TabOK(tab), StatusOK(tab, fails, notes), tab.page.name = "status", Loaded(tab),
         NEW i \in DOMAIN tab.flights, tab.flights[i].kind = "rows", NEW overlap, NEW rs, NEW failed,
         failed = 0 => /\ overlap = ~InOrder(i, {"rows"})
                       /\ fails = 0
                       /\ tab.flights[i].pc = "answered" /\ rs = tab.flights[i].answer
  PROVE  LET u == UntidyIf(Gone(i), overlap)
         IN  StatusDone([u EXCEPT !.page.rows = rs, !.page.loading = FALSE], failed, notes)
<1>. DEFINE u == UntidyIf(Gone(i), overlap)
            v == [u EXCEPT !.page.rows = rs, !.page.loading = FALSE]
            f == tab.flights[i]
<1>1. /\ Keeps(tab, u) /\ TabOK(u) /\ DOMAIN u = DOMAIN tab /\ u.page = tab.page
      /\ u.tidy => tab.tidy /\ ~overlap
      /\ Saving(u) /\ (SaveAnswered(tab) => SaveAnswered(u))
      /\ InOrder(i, {"rows"}) =>
           \/ AsksRows(u) = {} /\ LastRows(tab, i)
           \/ AsksRows(u) # {} /\ (LastPromises(tab, notes) => LastPromises(u, notes))
  <2>1. tab.flights[i].kind \in StatusKinds /\ tab.flights[i].kind # "save"
    BY DEF StatusKinds
  <2>. QED
    BY <2>1, StatusFlightGone
<1>2. StatusShape(tab.page) /\ Chooses(tab) /\ RowsCurrent(tab, fails, notes)
  BY DEF StatusOK
<1>. HIDE DEF u
<1>3. /\ DOMAIN v = DOMAIN u /\ v.flights = u.flights /\ v.tidy = u.tidy
      /\ DOMAIN v.page = StatusFields
      /\ \A x \in StatusFields \ {"rows", "loading"} : v.page[x] = tab.page[x]
      /\ v.page.rows = rs /\ v.page.loading = FALSE
  BY <1>1, <1>2 DEF TabOK, StatusShape, StatusFields
<1>. HIDE DEF v
<1>4. /\ v.page.project = tab.page.project /\ v.page.group = tab.page.group /\ v.page.dialog = tab.page.dialog
      /\ v.page.name = tab.page.name /\ v.page.store = tab.page.store
  BY <1>3 DEF StatusFields
<1>5. Keeps(tab, v)
  <2>1. Turns(u, v)
    BY <1>1, <1>2, <1>3, <1>4 DEF Turns, TabOK, StatusShape
  <2>2. Keeps(u, v)
    BY <1>1, <2>1, TurnsKeeps
  <2>. QED
    BY <1>1, <2>2, KeepsTransitive
<1>6. StatusShape(v.page) /\ Saving(v) /\ Waits(v) /\ Chooses(v)
  BY <1>1, <1>2, <1>3, <1>4 DEF StatusShape, Saving, Waits, Chooses, Loaded
<1>7. AsksRows(v) = AsksRows(u) /\ (SaveAnswered(v) <=> SaveAnswered(u))
  BY <1>3 DEF AsksRows, Pending, SaveAnswered
<1>8. LastPromises(v, notes) <=> LastPromises(u, notes)
  BY <1>1, <1>3, <1>4, <1>7 DEF LastPromises, LastRows
<1>9. ASSUME v.tidy, failed = 0, ~SaveAnswered(v)
      PROVE  /\ AsksRows(v) = {} => v.page.rows = rowsOf(notes, v.page.group)
             /\ LastPromises(v, notes)
  <2>1. tab.tidy /\ fails = 0 /\ ~SaveAnswered(tab) /\ InOrder(i, {"rows"})
    BY <1>1, <1>3, <1>7, <1>9
  <2>2. LastPromises(tab, notes)
    BY <1>2, <2>1 DEF RowsCurrent
  <2>3. CASE AsksRows(u) = {} /\ LastRows(tab, i)
    <3>1. i \in AsksRows(tab)
      BY DEF AsksRows, Pending
    <3>2. Promises(f, tab.page.group, notes)
      BY <2>2, <2>3, <3>1 DEF LastPromises
    <3>3. rs = rowsOf(notes, tab.page.group)
      BY <1>9, <3>2 DEF Promises
    <3>. QED
      BY <1>3, <1>4, <1>7, <2>3, <3>3 DEF LastPromises
  <2>4. CASE AsksRows(u) # {} /\ LastPromises(u, notes)
    BY <1>7, <1>8, <2>4
  <2>. QED
    BY <1>1, <2>1, <2>2, <2>3, <2>4
<1>10. RowsCurrent(v, failed, notes)
  BY <1>9 DEF RowsCurrent
<1>. QED
  BY <1>4, <1>5, <1>6, <1>10 DEF StatusDone, StatusOK, v, u

\* A row for the dialog has come.
LEMMA DialogLandedDone ==
  ASSUME TabOK(tab), StatusOK(tab, fails, notes), tab.page.name = "status", Loaded(tab),
         NEW i \in DOMAIN tab.flights, tab.flights[i].kind = "dialog", NEW overlap, NEW d, NEW failed,
         DOMAIN d = DialogFields, d.submitting = tab.page.dialog.submitting, failed = 0 => fails = 0
  PROVE  StatusDone(SetDialog(UntidyIf(Gone(i), overlap), d), failed, notes)
<1>. DEFINE u == UntidyIf(Gone(i), overlap)
            v == SetDialog(u, d)
<1>1. /\ Keeps(tab, u) /\ TabOK(u) /\ DOMAIN u = DOMAIN tab /\ u.page = tab.page
      /\ u.tidy => tab.tidy /\ ~overlap
      /\ Saving(u) /\ (SaveAnswered(tab) => SaveAnswered(u))
      /\ Waits(u) /\ (AsksRows(u) = {} => AsksRows(tab) = {})
      /\ LastPromises(tab, notes) => LastPromises(u, notes)
  <2>1. tab.flights[i].kind \in StatusKinds /\ tab.flights[i].kind # "save" /\ tab.flights[i].kind # "rows"
    BY DEF StatusKinds
  <2>. QED
    BY <2>1, StatusFlightGone
<1>2. StatusShape(tab.page) /\ Chooses(tab) /\ RowsCurrent(tab, fails, notes)
  BY DEF StatusOK
<1>. HIDE DEF u
<1>3. StatusOK(u, failed, notes)
  <2>1. RowsCurrent(u, failed, notes)
    BY <1>1, <1>2 DEF RowsCurrent, Loaded
  <2>. QED
    BY <1>1, <1>2, <2>1 DEF StatusOK, Chooses, Loaded
<1>4. /\ DOMAIN v = DOMAIN u /\ v.flights = u.flights /\ v.tidy = u.tidy
      /\ DOMAIN v.page = StatusFields
      /\ \A x \in StatusFields \ {"dialog"} : v.page[x] = u.page[x]
      /\ v.page.dialog = d
  BY <1>1, <1>2 DEF SetDialog, TabOK, StatusShape, StatusFields
<1>. HIDE DEF v
<1>5. \A x \in StatusTouched : v.page[x] = u.page[x]
  BY <1>4 DEF StatusTouched, StatusFields
<1>6. Keeps(u, v) /\ StatusOK(v, failed, notes)
  BY <1>1, <1>3, <1>4, <1>5, TouchedDone
<1>. QED
  BY <1>1, <1>6, KeepsTransitive DEF StatusDone, v, u

\* A status was saved, or was not: the dialog can save again.
LEMMA SaveLandedDone ==
  ASSUME TabOK(tab), StatusOK(tab, fails, notes), tab.page.name = "status", Loaded(tab),
         NEW i \in DOMAIN tab.flights, tab.flights[i].kind = "save", NEW overlap, NEW failed, NEW n,
         NEW d, DOMAIN d = DialogFields, d.submitting = FALSE
  PROVE  LET v == SetDialog(UntidyIf(Gone(i), overlap), d)
         IN  /\ StatusDone(refresh(v), failed, n)
             /\ failed # 0 => StatusDone(v, failed, n)
<1>. DEFINE u == UntidyIf(Gone(i), overlap)
            v == SetDialog(u, d)
            w == refresh(v)
<1>1. /\ Keeps(tab, u) /\ TabOK(u) /\ DOMAIN u = DOMAIN tab /\ u.page = tab.page
      /\ ~HasKind(u.flights, {"save"}) /\ Waits(u)
  <2>1. tab.flights[i].kind \in StatusKinds /\ tab.flights[i].kind # "rows"
    BY DEF StatusKinds
  <2>. QED
    BY <2>1, StatusFlightGone
<1>2. StatusShape(tab.page) /\ Chooses(tab)
  BY DEF StatusOK
<1>. HIDE DEF u
<1>3. /\ DOMAIN v = DOMAIN u /\ v.flights = u.flights /\ v.tidy = u.tidy
      /\ DOMAIN v.page = StatusFields
      /\ \A x \in StatusFields \ {"dialog"} : v.page[x] = tab.page[x]
      /\ v.page.dialog = d
  BY <1>1, <1>2 DEF SetDialog, TabOK, StatusShape, StatusFields
<1>. HIDE DEF v, w
<1>4. /\ v.page.project = tab.page.project /\ v.page.group = tab.page.group /\ v.page.loading = tab.page.loading
      /\ v.page.name = tab.page.name /\ v.page.store = tab.page.store
  BY <1>3 DEF StatusFields
<1>5. Keeps(tab, v) /\ TabOK(v)
  <2>1. Turns(u, v)
    BY <1>1, <1>2, <1>3, <1>4 DEF Turns, TabOK, StatusShape
  <2>2. Keeps(u, v)
    BY <1>1, <2>1, TurnsKeeps
  <2>. QED
    BY <1>1, <2>2, KeepsTransitive DEF Keeps
<1>6. OneOfKind(v.flights, {"save"})
  BY <1>1, <1>3 DEF HasKind, OneOfKind
<1>7. StatusShape(v.page) /\ Saving(v) /\ Waits(v) /\ Chooses(v)
  BY <1>1, <1>2, <1>3, <1>4, <1>6 DEF StatusShape, Saving, Waits, Chooses, Loaded
<1>8. v.page.group # None
  BY <1>2, <1>4, GroupChosen DEF Chooses
<1>9. Keeps(v, w) /\ StatusOK(w, failed, n)
  <2>1. v.page.name = "status"
    BY <1>4
  <2>. QED
    BY <1>5, <1>7, <1>8, <2>1, RefreshRows DEF w
<1>10. StatusDone(w, failed, n)
  BY <1>5, <1>9, KeepsTransitive DEF StatusDone
<1>11. ASSUME failed # 0
       PROVE  StatusDone(v, failed, n)
  BY <1>5, <1>7, <1>11 DEF StatusDone, StatusOK, RowsCurrent
<1>. QED
  BY <1>10, <1>11 DEF w, v, u

LEMMA LandStatusDone ==
  ASSUME TabOK(tab), StatusOK(tab, fails, notes), LandStatus
  PROVE  StatusDone(tab', fails', notes')
<1>1. /\ tab.page.name = "status" /\ Loaded(tab) /\ StatusShape(tab.page)
      /\ fails' = fails /\ notes' = notes
  BY DEF LandStatus, LandAnswered, OnStatus, OnPage, StatusOK
<1>2. PICK i \in Pending(tab, StatusKinds) :
        /\ tab.flights[i].pc = "answered"
        /\ tab' = StatusLanded(UntidyIf(Gone(i), ~InOrder(i, {tab.flights[i].kind})), tab.flights[i])
  BY DEF LandStatus, LandAnswered
<1>. DEFINE f == tab.flights[i]
            overlap == ~InOrder(i, {f.kind})
            u == UntidyIf(Gone(i), overlap)
            d == tab.page.dialog
<1>3. i \in DOMAIN tab.flights /\ f.kind \in StatusKinds /\ f.pc = "answered"
  BY <1>2 DEF Pending
<1>4. tab' = StatusLanded(u, f)
  BY <1>2
<1>5. u.page = tab.page
  BY <1>1, <1>3, StatusFlightGone
<1>6. DOMAIN d = DialogFields
  BY <1>1 DEF StatusShape
<1>7. CASE f.kind = "rows"
  <2>. DEFINE v == [u EXCEPT !.page.rows = f.answer, !.page.loading = FALSE]
  <2>1. tab' = v
    <3>. HIDE DEF u, f
    <3>. QED
      BY <1>4, <1>7 DEF StatusLanded
  <2>2. StatusDone(v, fails, notes)
    BY <1>1, <1>3, <1>7, RowsLanded
  <2>. QED
    BY <1>1, <2>1, <2>2
<1>8. CASE f.kind = "dialog"
  <2>. DEFINE row == [plot |-> f.key, tasks |-> normalizeTasks(f.answer)]
              e == IF f.key = d.plot THEN [d EXCEPT !.row = row, !.loading = FALSE]
                   ELSE [d EXCEPT !.row = NoRow, !.loading = FALSE, !.error = TRUE, !.plot = None]
  <2>1. tab' = SetDialog(u, e)
    <3>1. tab' = DialogLanded(u, f)
      <4>. HIDE DEF u, f
      <4>. QED
        BY <1>4, <1>8 DEF StatusLanded
    <3>. HIDE DEF u, f
    <3>. QED
      BY <1>5, <3>1 DEF DialogLanded
  <2>. HIDE DEF row
  <2>2. DOMAIN e = DialogFields /\ e.submitting = d.submitting
    BY <1>6 DEF DialogFields
  <2>. HIDE DEF e
  <2>3. StatusDone(SetDialog(u, e), fails, notes)
    BY <1>1, <1>3, <1>8, <2>2, DialogLandedDone
  <2>. QED
    BY <1>1, <2>1, <2>3
<1>9. CASE f.kind = "save"
  <2>. DEFINE e == [Closed(d) EXCEPT !.submitting = FALSE]
  <2>1. tab' = refresh(SetDialog(u, e))
    <3>. HIDE DEF u, f
    <3>. QED
      BY <1>4, <1>5, <1>9 DEF StatusLanded
  <2>2. DOMAIN e = DialogFields /\ e.submitting = FALSE
    BY <1>6 DEF Closed, DialogFields
  <2>. HIDE DEF e
  <2>3. StatusDone(refresh(SetDialog(u, e)), fails, notes)
    BY <1>1, <1>3, <1>9, <2>2, SaveLandedDone
  <2>. QED
    BY <1>1, <2>1, <2>3
<1>. QED
  BY <1>3, <1>7, <1>8, <1>9 DEF StatusKinds

LEMMA FailStatusDone ==
  ASSUME TabOK(tab), StatusOK(tab, fails, notes), fails \in Nat, FailStatus
  PROVE  StatusDone(tab', fails', notes')
<1>1. /\ tab.page.name = "status" /\ Loaded(tab) /\ StatusShape(tab.page)
      /\ fails' = fails + 1 /\ notes' = notes
  BY DEF FailStatus, FailWith, Fails, OnStatus, OnPage, StatusOK
<1>2. PICK i \in Pending(tab, StatusKinds) :
        tab' = StatusFailed(UntidyIf(Gone(i), Len(tab.flights) > 1), tab.flights[i])
  BY DEF FailStatus, FailWith
<1>. DEFINE f == tab.flights[i]
            overlap == Len(tab.flights) > 1
            u == UntidyIf(Gone(i), overlap)
            d == tab.page.dialog
            failed == fails + 1
<1>3. i \in DOMAIN tab.flights /\ f.kind \in StatusKinds /\ failed # 0
  BY <1>2 DEF Pending
<1>4. tab' = StatusFailed(u, f)
  BY <1>2
<1>5. u.page = tab.page
  BY <1>1, <1>3, StatusFlightGone
<1>6. DOMAIN d = DialogFields
  BY <1>1 DEF StatusShape
<1>. HIDE DEF failed
<1>7. CASE f.kind = "rows"
  <2>. DEFINE v == [u EXCEPT !.page.rows = <<>>, !.page.loading = FALSE]
  <2>1. tab' = v
    <3>. HIDE DEF u, f
    <3>. QED
      BY <1>4, <1>7 DEF StatusFailed
  <2>2. StatusDone(v, failed, notes)
    BY <1>1, <1>3, <1>7, RowsLanded
  <2>. QED
    BY <1>1, <2>1, <2>2 DEF failed
<1>8. CASE f.kind = "dialog"
  <2>. DEFINE e == [d EXCEPT !.loading = FALSE, !.error = TRUE, !.plot = None]
  <2>1. tab' = SetDialog(u, e)
    <3>1. tab' = DialogFailed(u, f)
      <4>. HIDE DEF u, f
      <4>. QED
        BY <1>4, <1>8 DEF StatusFailed
    <3>. HIDE DEF u, f
    <3>. QED
      BY <1>5, <3>1 DEF DialogFailed
  <2>2. DOMAIN e = DialogFields /\ e.submitting = d.submitting
    BY <1>6 DEF DialogFields
  <2>. HIDE DEF e
  <2>3. StatusDone(SetDialog(u, e), failed, notes)
    BY <1>1, <1>3, <1>8, <2>2, DialogLandedDone
  <2>. QED
    BY <1>1, <2>1, <2>3 DEF failed
<1>9. CASE f.kind = "save"
  <2>. DEFINE e == [d EXCEPT !.submitting = FALSE]
              v == [u EXCEPT !.page.dialog.submitting = FALSE]
  <2>1. tab' = v
    <3>. HIDE DEF u, f
    <3>. QED
      BY <1>4, <1>9 DEF StatusFailed
  <2>2. v = SetDialog(u, e)
    <3>. HIDE DEF u
    <3>. QED
      BY <1>5 DEF SetDialog
  <2>3. DOMAIN e = DialogFields /\ e.submitting = FALSE
    BY <1>6 DEF DialogFields
  <2>. HIDE DEF e, v
  <2>4. StatusDone(SetDialog(u, e), failed, notes)
    BY <1>1, <1>3, <1>9, <2>3, SaveLandedDone
  <2>. QED
    BY <1>1, <2>1, <2>2, <2>4 DEF failed
<1>. QED
  BY <1>3, <1>7, <1>8, <1>9 DEF StatusKinds

LEMMA StatusNextDone ==
  ASSUME TabOK(tab), StatusOK(tab, fails, notes), fails \in Nat, OnPage("status"), StatusNext
  PROVE  StatusDone(tab', fails', notes')
<1>1. CASE selectProject \/ selectGroup
  BY <1>1, ChoicesDone
<1>2. CASE selectPlot \/ typeSearch \/ selectView
  BY <1>2, ViewsDone
<1>3. CASE onRowClick
  BY <1>3, RowClickDone
<1>4. CASE closeDialog \/ typeNewTask \/ addTask \/ removeTask \/ setTaskStatus
  BY <1>4, EditsDone
<1>5. CASE onSubmit
  BY <1>5, SubmitDone
<1>6. CASE ServeStatus
  BY <1>6, ServeDone DEF OnPage
<1>7. CASE LandStatus
  BY <1>7, LandStatusDone
<1>8. CASE FailStatus
  BY <1>8, FailStatusDone
<1>. QED
  BY <1>1, <1>2, <1>3, <1>4, <1>5, <1>6, <1>7, <1>8 DEF StatusNext

\* The page before and after a change of the store: with a model set nothing of its rows is
\* claimed.
LEMMA StatusTurns ==
  ASSUME NEW t, TabOK(t), NEW failed, NEW n, StatusOK(t, failed, n), NEW u, StoreTurns(t, u),
         NEW failedNow, NEW m, Chooses(u), RowsCurrent(u, failedNow, m)
  PROVE  StatusOK(u, failedNow, m)
<1>. SUFFICES ASSUME u.page.name = "status"
              PROVE  StatusOK(u, failedNow, m)
  BY DEF StatusOK
<1>1. t.page.name = "status"
  BY DEF StoreTurns, TabOK
<1>2. StatusShape(t.page) /\ Saving(t) /\ Waits(t)
  BY <1>1 DEF StatusOK
<1>3. /\ DOMAIN u.page = StatusFields
      /\ u.page.dialog = t.page.dialog /\ u.page.loading = t.page.loading
  BY <1>2 DEF StoreTurns, StatusShape, StatusFields
<1>4. Apart({"save"}) /\ Apart({"rows"})
  BY DEF Apart
<1>. QED
  BY <1>2, <1>3, <1>4 DEF StatusOK, StatusShape, Saving, Waits, StoreTurns

-----------------------------------------------------------------------------
(* The application                                                         *)

PageOK(t, failed, n) ==
  /\ SensorOK(t)
  /\ DiagramOK(t)
  /\ MonitoringOK(t)
  /\ StatusOK(t, failed, n)

AllOK(t, failed, n) == TabOK(t) /\ StoreOK(t, failed) /\ PageOK(t, failed, n)

\* The inductive invariant.
IInv == fails \in Nat /\ AllOK(tab, fails, notes)

\* Of each page only what is said of it by its name counts.
LEMMA OnePage ==
  ASSUME NEW t, NEW failed, NEW n
  PROVE  /\ t.page.name = "overview" => PageOK(t, failed, n)
         /\ t.page.name = "model" /\ SensorOK(t) => PageOK(t, failed, n)
         /\ t.page.name = "diagram" /\ DiagramOK(t) => PageOK(t, failed, n)
         /\ t.page.name = "monitoring" /\ MonitoringOK(t) => PageOK(t, failed, n)
         /\ t.page.name = "status" /\ StatusOK(t, failed, n) => PageOK(t, failed, n)
BY DEF PageOK, SensorOK, DiagramOK, MonitoringOK, StatusOK

-----------------------------------------------------------------------------
(* A page is opened                                                        *)

\* The store is as it was before.
LEMMA RoutedStore ==
  ASSUME NEW t, NEW failed, StoreOK(t, failed), NEW page, NEW u, Routes(t, u, page)
  PROVE  /\ u.tidy => ~HasOrphan(u)
         /\ Loaded(u) <=> Loaded(t)
         /\ Loaded(t) \/ u.page.name \in {"overview", "monitoring"} => StoreOK(u, failed)
BY DEF StoreOK, Routes, Loaded

LEMMA NoneLeft ==
  ASSUME NEW t, NEW page, NEW u, Routes(t, u, page), NEW kinds, Apart(kinds)
  PROVE  ~HasKind(u.flights, kinds)
BY DEF Routes, HasKind, Apart

LEMMA OverviewOpened ==
  ASSUME NEW t, TabOK(t), NEW failed, StoreOK(t, failed), NEW n
  PROVE  AllOK(openOverview(t), failed, n)
<1>. DEFINE u == openOverview(t)
<1>1. Routes(t, u, OverviewPage)
  BY RouteOK DEF Opened, openOverview
<1>. HIDE DEF u
<1>2. TabOK(u) /\ u.page.name = "overview"
  BY <1>1 DEF Routes, OverviewPage
<1>3. StoreOK(u, failed)
  BY <1>1, <1>2, RoutedStore
<1>. QED
  BY <1>2, <1>3, OnePage DEF AllOK, u

LEMMA MonitoringOpened ==
  ASSUME NEW t, TabOK(t), NEW failed, StoreOK(t, failed), NEW n
  PROVE  AllOK(openMonitoring(t), failed, n)
<1>. DEFINE u == openMonitoring(t)
<1>1. Routes(t, u, MonitoringPage)
  BY RouteOK DEF Opened, openMonitoring
<1>. HIDE DEF u
<1>2. /\ TabOK(u) /\ u.page.name = "monitoring"
      /\ DOMAIN u.page = MonitoringFields
      /\ u.page.set = None /\ u.page.data = None /\ u.page.loading = FALSE
  BY <1>1 DEF Routes, MonitoringPage, MonitoringFields
<1>3. StoreOK(u, failed)
  BY <1>1, <1>2, RoutedStore
<1>4. ~HasKind(u.flights, {"monitoring"})
  <2>1. Apart({"monitoring"})
    BY DEF Apart
  <2>. QED
    BY <1>1, <2>1, NoneLeft
<1>5. Pending(u, {"monitoring"}) = {}
  BY <1>4, PendingKind
<1>6. MonitoringShape(u.page) /\ OfShownSet(u) /\ OfSets(u)
  BY <1>2, <1>5 DEF MonitoringShape, OfShownSet, OfSets
<1>7. Busy(u)
  BY <1>2, <1>4 DEF Busy, HasKind, OneOfKind
<1>. QED
  BY <1>2, <1>3, <1>6, <1>7, OnePage DEF AllOK, MonitoringOK, u

LEMMA ModelOpened ==
  ASSUME NEW t, TabOK(t), NEW failed, StoreOK(t, failed), NEW n
  PROVE  AllOK(openModel(t), failed, n)
<1>. DEFINE page == [name |-> "model", sensor |-> None]
            v == Route(t, page)
            u == openModel(t)
<1>1. Routes(t, v, page)
  BY RouteOK DEF Opened
<1>2. u = modelInit(v)
  BY DEF openModel
<1>. HIDE DEF u, v
<1>3. TabOK(v) /\ v.page.name = "model" /\ v.page.sensor = None /\ DOMAIN v.page = {"name", "sensor", "store"}
  BY <1>1 DEF Routes
<1>4. (v.tidy => ~HasOrphan(v)) /\ (Loaded(v) => StoreOK(v, failed))
  BY <1>1, RoutedStore
<1>5. CASE Loaded(v)
  <2>1. u = v
    BY <1>2, <1>5 DEF modelInit
  <2>2. SensorOK(v)
    BY <1>3 DEF SensorOK
  <2>. QED
    BY <1>3, <1>4, <1>5, <2>1, <2>2, OnePage DEF AllOK, u
<1>6. CASE ~Loaded(v)
  <2>1. u = modelRefresh(v)
    BY <1>2, <1>6 DEF modelInit
  <2>2. StoreTurns(v, u) /\ StoreOK(u, failed)
    BY <1>3, <1>4, <1>6, <2>1, ModelAsked
  <2>3. TabOK(u) /\ u.page.name = "model" /\ SensorOK(u)
    BY <1>3, <2>2 DEF StoreTurns, SensorOK
  <2>. QED
    BY <2>2, <2>3, OnePage DEF AllOK, u
<1>. QED
  BY <1>5, <1>6

LEMMA DiagramOpened ==
  ASSUME NEW t, TabOK(t), NEW failed, StoreOK(t, failed), NEW n
  PROVE  LET u == openDiagram(t)
         IN  /\ AllOK(u, failed, n)
             /\ \E v : Routes(t, v, openDiagramPage) /\ (Keeps(v, u) \/ StoreTurns(v, u))
<1>. DEFINE v == Route(t, openDiagramPage)
            u == openDiagram(t)
<1>1. Routes(t, v, openDiagramPage)
  BY RouteOK DEF Opened
<1>2. u = IF Loaded(t) THEN mountSelector(v) ELSE modelInit(v)
  BY DEF openDiagram
<1>. HIDE DEF u, v
<1>3. /\ TabOK(v) /\ v.page.name = "diagram"
      /\ DOMAIN v.page = DiagramFields
      /\ v.page.sent = 0 /\ v.page.received = 0 /\ v.page.error = TRUE
      /\ v.page.window = None /\ v.page.zoomed = FALSE
  BY <1>1 DEF Routes, openDiagramPage, DiagramFields
<1>4. /\ v.tidy => ~HasOrphan(v)
      /\ Loaded(v) <=> Loaded(t)
      /\ Loaded(t) => StoreOK(v, failed)
  BY <1>1, RoutedStore
<1>5. Apart({"query"})
  BY DEF Apart
<1>6. ~HasKind(v.flights, {"query"})
  BY <1>1, <1>5, NoneLeft
<1>7. WindowOK(v.page) /\ Unasked(v.page)
  BY <1>3 DEF WindowOK, Unasked
<1>8. CASE Loaded(t)
  <2>1. DiagramShape(v)
    BY <1>3, <1>6, <1>7, UnaskedShape
  <2>2. Done(v, u)
    BY <1>2, <1>3, <1>4, <1>7, <1>8, <2>1, MountDone
  <2>3. StoreOK(u, failed)
    BY <1>4, <1>8, <2>2, KeepsStore DEF Done
  <2>4. TabOK(u) /\ u.page.name = "diagram" /\ DiagramOK(u)
    BY <1>3, <1>4, <1>8, <2>2 DEF Done, Keeps, Loaded, DiagramOK
  <2>5. AllOK(u, failed, n)
    BY <2>3, <2>4, OnePage DEF AllOK
  <2>. QED
    BY <1>1, <2>2, <2>5 DEF Done, u
<1>9. CASE ~Loaded(t)
  <2>1. u = modelRefresh(v)
    BY <1>2, <1>4, <1>9 DEF modelInit
  <2>2. StoreTurns(v, u) /\ StoreOK(u, failed)
    BY <1>3, <1>4, <1>9, <2>1, ModelAsked
  <2>3. /\ TabOK(u) /\ u.page.name = "diagram"
        /\ DOMAIN u.page = DiagramFields
        /\ u.page.sent = 0 /\ u.page.received = 0 /\ u.page.error = TRUE
        /\ u.page.window = None /\ u.page.zoomed = FALSE
        /\ ~HasKind(u.flights, {"query"})
    BY <1>3, <1>5, <1>6, <2>2 DEF StoreTurns, DiagramFields
  <2>4. WindowOK(u.page) /\ Unasked(u.page)
    BY <2>3 DEF WindowOK, Unasked
  <2>5. DiagramShape(u) /\ Current(u)
    BY <2>3, <2>4, UnaskedShape
  <2>6. AllOK(u, failed, n)
    BY <2>2, <2>3, <2>4, <2>5, OnePage DEF AllOK, DiagramOK
  <2>. QED
    BY <1>1, <2>2, <2>6 DEF u
<1>. QED
  BY <1>8, <1>9

LEMMA StatusOpened ==
  ASSUME NEW t, TabOK(t), NEW failed, StoreOK(t, failed), NEW n
  PROVE  AllOK(openStatusPage(t), failed, n)
<1>. DEFINE v == Route(t, StatusPage)
            chosen == setProject(v, AProjects[1])
            w == [v EXCEPT !.page.project = chosen.page.project, !.page.group = chosen.page.group]
            u == openStatusPage(t)
<1>1. Routes(t, v, StatusPage)
  BY RouteOK DEF Opened
<1>2. u = IF Loaded(t) THEN refresh(w) ELSE modelInit(v)
  BY DEF openStatusPage
<1>. HIDE DEF u, v
<1>3. /\ TabOK(v) /\ v.page.name = "status"
      /\ DOMAIN v.page = StatusFields
      /\ v.page.loading = FALSE /\ v.page.dialog = ClosedDialog
  BY <1>1 DEF Routes, StatusPage, StatusFields
<1>4. /\ v.tidy => ~HasOrphan(v)
      /\ Loaded(v) <=> Loaded(t)
      /\ Loaded(t) => StoreOK(v, failed)
  BY <1>1, RoutedStore
<1>5. Apart({"save"})
  BY DEF Apart
<1>6. ~HasKind(v.flights, {"save"})
  BY <1>1, <1>5, NoneLeft
<1>7. StatusShape(v.page) /\ Saving(v) /\ Waits(v)
  <2>1. DOMAIN ClosedDialog = DialogFields /\ ClosedDialog.submitting = FALSE
    BY DEF ClosedDialog, DialogFields
  <2>2. StatusShape(v.page)
    BY <1>3, <2>1 DEF StatusShape
  <2>3. Saving(v)
    BY <1>3, <1>6, <2>1 DEF Saving, HasKind, OneOfKind
  <2>4. Waits(v)
    BY <1>3 DEF Waits
  <2>. QED
    BY <2>2, <2>3, <2>4
<1>8. CASE Loaded(t)
  <2>1. /\ chosen.page.project \in ToSet(AProjects)
        /\ chosen.page.group \in ToSet(AGroups[chosen.page.project])
    <3>1. Keeps(v, chosen) /\ StatusOK(chosen, failed, n)
      BY <1>3, <1>7, FirstProject, ProjectSet
    <3>. HIDE DEF chosen
    <3>2. chosen.page.name = "status" /\ Loaded(chosen)
      BY <1>3, <1>4, <1>8, <3>1 DEF Keeps, Loaded
    <3>. QED
      BY <3>1, <3>2 DEF StatusOK, Chooses
  <2>. HIDE DEF chosen
  <2>2. /\ DOMAIN w = DOMAIN v /\ w.flights = v.flights /\ w.tidy = v.tidy
        /\ DOMAIN w.page = StatusFields
        /\ \A x \in StatusFields \ {"project", "group"} : w.page[x] = v.page[x]
        /\ w.page.project = chosen.page.project /\ w.page.group = chosen.page.group
    BY <1>3 DEF TabOK, StatusFields
  <2>. HIDE DEF w
  <2>3. /\ w.page.dialog = v.page.dialog /\ w.page.loading = v.page.loading
        /\ w.page.name = v.page.name /\ w.page.store = v.page.store
    BY <2>2 DEF StatusFields
  <2>4. Keeps(v, w) /\ TabOK(w)
    <3>1. Turns(v, w)
      BY <1>3, <2>2, <2>3 DEF Turns, TabOK
    <3>2. Keeps(v, w)
      BY <1>3, <3>1, TurnsKeeps
    <3>. QED
      BY <3>2 DEF Keeps
  <2>5. /\ StatusShape(w.page) /\ Saving(w) /\ Chooses(w)
        /\ w.page.group # None /\ w.page.name = "status"
    BY <1>3, <1>7, <2>1, <2>2, <2>3, GroupChosen DEF StatusShape, Saving, Chooses
  <2>6. u = refresh(w)
    BY <1>2, <1>8
  <2>7. Keeps(w, u) /\ StatusOK(u, failed, n)
    BY <2>4, <2>5, <2>6, RefreshRows
  <2>8. Keeps(v, u)
    BY <2>4, <2>7, KeepsTransitive
  <2>9. StoreOK(u, failed)
    BY <1>4, <1>8, <2>8, KeepsStore
  <2>10. TabOK(u) /\ u.page.name = "status"
    BY <1>3, <2>8 DEF Keeps
  <2>. QED
    BY <2>7, <2>9, <2>10, OnePage DEF AllOK, u
<1>9. CASE ~Loaded(t)
  <2>1. u = modelRefresh(v)
    BY <1>2, <1>4, <1>9 DEF modelInit
  <2>2. StoreTurns(v, u) /\ StoreOK(u, failed) /\ ~Loaded(u)
    BY <1>3, <1>4, <1>9, <2>1, ModelAsked
  <2>3. StatusOK(v, failed, n)
    BY <1>4, <1>7, <1>9 DEF StatusOK, Chooses, RowsCurrent
  <2>4. StatusOK(u, failed, n)
    <3>1. Chooses(u) /\ RowsCurrent(u, failed, n)
      BY <2>2 DEF Chooses, RowsCurrent
    <3>. QED
      BY <1>3, <2>2, <2>3, <3>1, StatusTurns
  <2>5. TabOK(u) /\ u.page.name = "status"
    BY <1>3, <2>2 DEF StoreTurns, StatusFields
  <2>. QED
    BY <2>2, <2>4, <2>5, OnePage DEF AllOK, u
<1>. QED
  BY <1>8, <1>9

-----------------------------------------------------------------------------
(* The steps of the application                                            *)

LEMMA SelectPageOK ==
  ASSUME IInv, selectPage, UNCHANGED notes
  PROVE  IInv'
<1>1. TabOK(tab) /\ StoreOK(tab, fails) /\ fails \in Nat
  BY DEF IInv, AllOK
<1>2. tab' \in {openOverview(tab), openModel(tab), openDiagram(tab), openMonitoring(tab), openStatusPage(tab)}
  BY DEF selectPage
<1>3. AllOK(tab', fails, notes)
  BY <1>1, <1>2, OverviewOpened, ModelOpened, DiagramOpened, MonitoringOpened, StatusOpened
<1>4. fails' = fails
  BY DEF selectPage, Click
<1>. QED
  BY <1>1, <1>3, <1>4 DEF IInv

LEMMA SelectSensorPageOK ==
  ASSUME IInv, selectSensorPage, UNCHANGED notes
  PROVE  IInv'
<1>1. TabOK(tab) /\ StoreOK(tab, fails) /\ fails \in Nat /\ SensorOK(tab)
  BY DEF IInv, AllOK, PageOK
<1>2. PICK s \in ToSet(ASensors) : tab' = [tab EXCEPT !.page.sensor = s]
  BY DEF selectSensorPage
<1>3. tab.page.name = "model" /\ DOMAIN tab.page = {"name", "sensor", "store"} /\ fails' = fails
  BY <1>1 DEF selectSensorPage, OnPage, SensorOK, Click
<1>4. /\ DOMAIN tab' = DOMAIN tab /\ tab'.flights = tab.flights /\ tab'.tidy = tab.tidy
      /\ DOMAIN tab'.page = DOMAIN tab.page
      /\ tab'.page.name = tab.page.name /\ tab'.page.store = tab.page.store
      /\ tab'.page.sensor = s
  BY <1>1, <1>2, <1>3 DEF TabOK
<1>5. Keeps(tab, tab')
  <2>1. Turns(tab, tab')
    BY <1>1, <1>4 DEF Turns, TabOK
  <2>. QED
    BY <1>1, <2>1, TurnsKeeps
<1>6. StoreOK(tab', fails)
  BY <1>1, <1>5, KeepsStore
<1>7. TabOK(tab') /\ SensorOK(tab') /\ tab'.page.name = "model"
  BY <1>3, <1>4, <1>5 DEF Keeps, SensorOK
<1>8. PageOK(tab', fails', notes')
  BY <1>7, OnePage
<1>. QED
  BY <1>1, <1>3, <1>6, <1>7, <1>8 DEF IInv, AllOK

LEMMA TryAgainOK ==
  ASSUME IInv, tryAgain, UNCHANGED notes
  PROVE  IInv'
<1>. DEFINE u == tab'
<1>1. TabOK(tab) /\ StoreOK(tab, fails) /\ fails \in Nat /\ PageOK(tab, fails, notes)
  BY DEF IInv, AllOK
<1>2. /\ tab.page.name \in {"diagram", "status"}
      /\ ~Loaded(tab)
      /\ u = modelRefresh(tab) /\ fails' = fails
  BY DEF tryAgain, Click
<1>. HIDE DEF u
<1>3. tab.tidy => ~HasOrphan(tab)
  BY <1>1 DEF StoreOK
<1>4. StoreTurns(tab, u) /\ StoreOK(u, fails) /\ ~Loaded(u)
  BY <1>1, <1>2, <1>3, ModelAsked
<1>5. TabOK(u) /\ u.page.name = tab.page.name
  BY <1>1, <1>4 DEF StoreTurns, TabOK
<1>6. CASE tab.page.name = "diagram"
  <2>1. DiagramShape(tab) /\ Unasked(tab.page)
    BY <1>1, <1>2, <1>6 DEF PageOK, DiagramOK
  <2>2. tab.page.received = 0 /\ ~HasKind(tab.flights, {"query"})
    BY <2>1, PendingKind DEF DiagramShape, InSequence, Unasked, Queries
  <2>3. Apart({"query"})
    BY DEF Apart
  <2>4. /\ DOMAIN u.page = DiagramFields
        /\ u.page.sent = tab.page.sent /\ u.page.received = tab.page.received
        /\ u.page.error = tab.page.error
        /\ u.page.window = tab.page.window /\ u.page.zoomed = tab.page.zoomed
        /\ ~HasKind(u.flights, {"query"})
    BY <1>4, <2>1, <2>2, <2>3 DEF StoreTurns, DiagramShape, DiagramFields
  <2>5. WindowOK(u.page) /\ Unasked(u.page) /\ u.page.zoomed \in BOOLEAN
    BY <2>1, <2>4 DEF DiagramShape, WindowOK, Unasked
  <2>6. DiagramOK(u)
    BY <2>2, <2>4, <2>5, UnaskedShape DEF DiagramOK
  <2>7. PageOK(u, fails, notes)
    BY <1>5, <1>6, <2>6, OnePage
  <2>. QED
    BY <1>1, <1>2, <1>4, <1>5, <2>7 DEF IInv, AllOK, u
<1>7. CASE tab.page.name = "status"
  <2>1. Chooses(u) /\ RowsCurrent(u, fails, notes)
    BY <1>4 DEF Chooses, RowsCurrent
  <2>2. StatusOK(u, fails, notes)
    BY <1>1, <1>4, <2>1, StatusTurns DEF PageOK
  <2>3. PageOK(u, fails, notes)
    BY <1>5, <1>7, <2>2, OnePage
  <2>. QED
    BY <1>1, <1>2, <1>4, <1>5, <2>3 DEF IInv, AllOK, u
<1>. QED
  BY <1>2, <1>6, <1>7

\* What a page without diagrams, rows or other parts of its own keeps when the store changes.
LEMMA QuietPages ==
  ASSUME NEW t, TabOK(t), NEW u, StoreTurns(t, u), SensorOK(t), MonitoringOK(t), NEW failed, NEW n,
         t.page.name \in {"overview", "model", "monitoring"}
  PROVE  PageOK(u, failed, n)
<1>1. u.page.name = t.page.name
  BY DEF StoreTurns, TabOK
<1>2. MonitoringOK(u)
  BY MonitoringTurns
<1>3. SensorOK(u)
  BY <1>1 DEF StoreTurns, SensorOK
<1>. QED
  BY <1>1, <1>2, <1>3, OnePage

\* The model has come, or has not: what is left when its request is over.
ModelLeft(i, v) ==
  /\ i \in DOMAIN tab.flights /\ tab.flights[i].kind = "model"
  /\ v.flights = RemoveAt(tab.flights, i)
  /\ StoreTurns(tab, v) /\ TabOK(v) /\ v.page.name = tab.page.name
  /\ DOMAIN v.page = DOMAIN tab.page
  /\ \A x \in DOMAIN tab.page \ {"store"} : v.page[x] = tab.page[x]
  /\ v.page.store.loading = FALSE
  /\ v.tidy => /\ tab.tidy /\ ~HasModel(v) /\ ~HasOrphan(v)
               /\ OneOfKind(v.flights, {"model"})
               /\ ~Loaded(tab) /\ ~tab.page.store.error

LEMMA ModelOver ==
  ASSUME IInv, NEW i \in Pending(tab, {"model"}), NEW overlap, NEW v,
         LET u == UntidyIf(Gone(i), overlap) IN v = setData(u) \/ v = setError(u)
  PROVE  ModelLeft(i, v)
<1>. DEFINE u == UntidyIf(Gone(i), overlap)
<1>1. TabOK(tab) /\ StoreOK(tab, fails)
  BY DEF IInv, AllOK
<1>2. i \in DOMAIN tab.flights /\ tab.flights[i].kind = "model"
  BY DEF Pending
<1>3. /\ DOMAIN u = DOMAIN tab /\ u.page = tab.page
      /\ u.flights = RemoveAt(tab.flights, i)
  BY <1>1, <1>2, GoneKeeps
<1>4. v = setData(u) \/ v = setError(u)
  OBVIOUS
<1>. HIDE DEF u
<1>5. /\ DOMAIN v = DOMAIN tab /\ v.flights = RemoveAt(tab.flights, i) /\ v.tidy = u.tidy
      /\ DOMAIN v.page = DOMAIN tab.page
      /\ \A x \in DOMAIN tab.page \ {"store"} : v.page[x] = tab.page[x]
      /\ DOMAIN v.page.store = {"data", "loading", "error"}
      /\ v.page.store.loading = FALSE /\ v.page.store.error \in BOOLEAN
  <2>1. CASE v = setData(u)
    BY <1>1, <1>3, <2>1 DEF setData, TabOK
  <2>2. CASE v = setError(u)
    BY <1>1, <1>3, <2>2 DEF setError, TabOK
  <2>. QED
    BY <1>4, <2>1, <2>2
<1>6. /\ StoreTurns(tab, v)
      /\ OneOfKind(tab.flights, {"model"}) => ~HasModel(v)
  BY <1>1, <1>2, <1>5, ModelGone DEF u
<1>7. HasModel(tab)
  BY <1>2 DEF HasModel, HasKind
<1>8. TabOK(v) /\ v.page.name = tab.page.name
  BY <1>1, <1>5, <1>6 DEF StoreTurns, TabOK
<1>9. ASSUME v.tidy
      PROVE  /\ tab.tidy /\ ~HasModel(v) /\ ~HasOrphan(v)
             /\ OneOfKind(v.flights, {"model"})
             /\ ~Loaded(tab) /\ ~tab.page.store.error
  <2>1. tab.tidy
    BY <1>6, <1>9 DEF StoreTurns
  <2>2. ~HasModel(v) /\ ~HasOrphan(v) /\ ~Loaded(tab) /\ ~tab.page.store.error
    BY <1>1, <1>6, <1>7, <2>1 DEF StoreOK, StoreTurns
  <2>3. OneOfKind(v.flights, {"model"})
    BY <2>2 DEF HasModel, HasKind, OneOfKind
  <2>. QED
    BY <2>1, <2>2, <2>3
<1>. QED
  BY <1>2, <1>5, <1>6, <1>8, <1>9 DEF ModelLeft

\* The tab with the model before the watchers of the page run, and what they make of it.
SetOn(v) ==
  /\ StoreTurns(tab, v)
  /\ IF tab.page.name = "status" THEN tab' = setProject(v, AProjects[1]) ELSE Keeps(v, tab')
  /\ tab.page.name = "diagram" =>
       Loaded(v) /\ DiagramShape(v) /\ tab' = DiagramModelSet(v, ~Loaded(tab))

LEMMA LandModelOK ==
  ASSUME IInv, LandModel, UNCHANGED notes
  PROVE  IInv' /\ \E v : SetOn(v)
<1>1. TabOK(tab) /\ StoreOK(tab, fails) /\ fails \in Nat /\ PageOK(tab, fails, notes)
  BY DEF IInv, AllOK
<1>2. fails' = fails /\ notes' = notes
  BY DEF LandModel, LandWith
<1>3. PICK i \in Pending(tab, {"model"}) :
        LET f == tab.flights[i]
        IN  tab' = ModelLanded(UntidyIf(Gone(i), ~InOrder(i, {f.kind})), [f EXCEPT !.answer = "model"])
  BY DEF LandModel, LandWith
<1>. DEFINE f == tab.flights[i]
            overlap == ~InOrder(i, {f.kind})
            u == UntidyIf(Gone(i), overlap)
            e == [f EXCEPT !.answer = "model"]
            v == setData(u)
            w == tab'
<1>4. w = ModelLanded(u, e)
  BY <1>3
<1>5. u.page = tab.page /\ DOMAIN u = DOMAIN tab
  <2>1. i \in DOMAIN tab.flights
    BY DEF Pending
  <2>. QED
    BY <1>1, <2>1, GoneKeeps
<1>6. v = setData(u)
  OBVIOUS
<1>7. /\ v.page.store.data = "model" /\ v.page.store.error = tab.page.store.error
  BY <1>1, <1>5, <1>6 DEF setData, TabOK
<1>14. ModelLeft(i, v)
  <2>. DEFINE over == ~InOrder(i, {tab.flights[i].kind})
  <2>1. v = setData(UntidyIf(Gone(i), over))
    OBVIOUS
  <2>. HIDE DEF v, over
  <2>. QED
    BY <2>1, ModelOver
<1>8. /\ i \in DOMAIN tab.flights /\ tab.flights[i].kind = "model"
      /\ v.flights = RemoveAt(tab.flights, i)
      /\ StoreTurns(tab, v) /\ TabOK(v) /\ v.page.name = tab.page.name
      /\ DOMAIN v.page = DOMAIN tab.page
      /\ \A x \in DOMAIN tab.page \ {"store"} : v.page[x] = tab.page[x]
      /\ v.page.store.loading = FALSE
      /\ v.tidy => /\ tab.tidy /\ ~HasModel(v) /\ ~HasOrphan(v)
                   /\ OneOfKind(v.flights, {"model"})
                   /\ ~Loaded(tab) /\ ~tab.page.store.error
  BY <1>14 DEF ModelLeft
<1>. HIDE DEF e, v, u, w, overlap, f
<1>9. Loaded(v)
  BY <1>7, NoneAssumption DEF Loaded
<1>10. StoreOK(v, fails)
  BY <1>1, <1>7, <1>8, <1>9 DEF StoreOK
<1>11. CASE tab.page.name = "diagram"
  <2>. DEFINE first == ~Loaded(u)
  <2>1. w = DiagramModelSet(v, first)
    BY <1>4, <1>6, <1>11 DEF ModelLanded, OnPage
  <2>2. DiagramShape(tab) /\ (~Loaded(tab) => Unasked(tab.page))
    BY <1>1, <1>11 DEF PageOK, DiagramOK
  <2>3. DiagramShape(v)
    BY <1>1, <1>8, <2>2, DiagramTurns
  <2>4. first => Unasked(v.page)
    BY <1>5, <1>8, <2>2 DEF Loaded, Unasked, DiagramShape, DiagramFields
  <2>5. first \in BOOLEAN
    OBVIOUS
  <2>. HIDE DEF first
  <2>6. Done(v, w)
    BY <1>8, <1>9, <2>1, <2>3, <2>4, <2>5, ModelSetDone
  <2>7. StoreOK(w, fails)
    BY <1>10, <2>6, KeepsStore DEF Done
  <2>8. TabOK(w) /\ w.page.name = "diagram" /\ DiagramOK(w)
    BY <1>8, <1>9, <1>11, <2>6 DEF Done, Keeps, Loaded, DiagramOK
  <2>9. PageOK(w, fails, notes)
    BY <2>8, OnePage
  <2>10. SetOn(v)
    <3>1. first <=> ~Loaded(tab)
      BY <1>5 DEF Loaded, first
    <3>2. first = ~Loaded(tab)
      BY <2>5, <3>1 DEF Loaded
    <3>. QED
      BY <1>8, <1>9, <1>11, <2>1, <2>3, <2>6, <3>2 DEF SetOn, Done, w
  <2>. QED
    BY <1>1, <1>2, <2>7, <2>8, <2>9, <2>10 DEF IInv, AllOK, w
<1>12. CASE tab.page.name = "status"
  <2>1. w = setProject(v, AProjects[1])
    BY <1>4, <1>6, <1>12 DEF ModelLanded, OnPage, StatusModelSet
  <2>2. StatusShape(tab.page) /\ Saving(tab)
    BY <1>1, <1>12 DEF PageOK, StatusOK
  <2>3. Apart({"save"})
    BY DEF Apart
  <2>4. StatusShape(v.page) /\ Saving(v)
    BY <1>8, <2>2, <2>3 DEF StoreTurns, StatusShape, StatusFields, Saving
  <2>5. Keeps(v, w) /\ StatusOK(w, fails, notes)
    BY <1>8, <1>12, <2>1, <2>4, FirstProject, ProjectSet
  <2>6. StoreOK(w, fails)
    BY <1>10, <2>5, KeepsStore
  <2>7. TabOK(w) /\ w.page.name = "status"
    BY <1>8, <1>12, <2>5 DEF Keeps
  <2>8. PageOK(w, fails, notes)
    BY <2>5, <2>7, OnePage
  <2>9. SetOn(v)
    BY <1>8, <1>12, <2>1 DEF SetOn, w
  <2>. QED
    BY <1>1, <1>2, <2>6, <2>7, <2>8, <2>9 DEF IInv, AllOK, w
<1>13. CASE tab.page.name \notin {"diagram", "status"}
  <2>1. w = v
    BY <1>4, <1>6, <1>13 DEF ModelLanded, OnPage
  <2>2. PageOK(v, fails, notes)
    <3>1. tab.page.name \in {"overview", "model", "monitoring"}
      BY <1>1, <1>13 DEF TabOK, Names
    <3>2. StoreTurns(tab, v) /\ SensorOK(tab) /\ MonitoringOK(tab)
      BY <1>1, <1>8 DEF PageOK
    <3>. QED
      BY <1>1, <3>1, <3>2, QuietPages
  <2>3. SetOn(v)
    <3>1. Keeps(v, v)
      BY <1>8, TurnsKeeps DEF Turns, TabOK
    <3>. QED
      BY <1>8, <1>13, <2>1, <3>1 DEF SetOn, w
  <2>. QED
    BY <1>1, <1>2, <1>8, <1>10, <2>1, <2>2, <2>3 DEF IInv, AllOK, w
<1>. QED
  BY <1>11, <1>12, <1>13

LEMMA FailModelOK ==
  ASSUME IInv, FailModel, UNCHANGED notes
  PROVE  IInv'
<1>1. TabOK(tab) /\ StoreOK(tab, fails) /\ fails \in Nat /\ PageOK(tab, fails, notes)
  BY DEF IInv, AllOK
<1>2. fails' = fails + 1 /\ notes' = notes
  BY DEF FailModel, FailWith, Fails
<1>3. PICK i \in Pending(tab, {"model"}) : tab' = setError(UntidyIf(Gone(i), Len(tab.flights) > 1))
  BY DEF FailModel, FailWith
<1>. DEFINE overlap == Len(tab.flights) > 1
            u == UntidyIf(Gone(i), overlap)
            v == tab'
            failed == fails + 1
<1>4. u.page = tab.page /\ DOMAIN u = DOMAIN tab
  <2>1. i \in DOMAIN tab.flights
    BY DEF Pending
  <2>. QED
    BY <1>1, <2>1, GoneKeeps
<1>5. v = setError(u)
  BY <1>3
<1>6. v.page.store.data = tab.page.store.data /\ v.page.store.error = TRUE
  BY <1>1, <1>4, <1>5 DEF setError, TabOK
<1>. HIDE DEF v
<1>14. ModelLeft(i, v)
  <2>1. v = setError(UntidyIf(Gone(i), overlap))
    BY <1>5
  <2>. HIDE DEF overlap
  <2>. QED
    BY <2>1, ModelOver
<1>7. /\ i \in DOMAIN tab.flights /\ tab.flights[i].kind = "model"
      /\ v.flights = RemoveAt(tab.flights, i)
      /\ StoreTurns(tab, v) /\ TabOK(v) /\ v.page.name = tab.page.name
      /\ DOMAIN v.page = DOMAIN tab.page
      /\ \A x \in DOMAIN tab.page \ {"store"} : v.page[x] = tab.page[x]
      /\ v.page.store.loading = FALSE
      /\ v.tidy => /\ tab.tidy /\ ~HasModel(v) /\ ~HasOrphan(v)
                   /\ OneOfKind(v.flights, {"model"})
                   /\ ~Loaded(tab) /\ ~tab.page.store.error
  BY <1>14 DEF ModelLeft
<1>. HIDE DEF u, overlap
<1>8. failed \in Nat /\ failed # 0 /\ fails' = failed
  BY <1>1, <1>2
<1>. HIDE DEF failed
<1>9. Loaded(v) <=> Loaded(tab)
  BY <1>6 DEF Loaded
<1>10. StoreOK(v, failed)
  BY <1>6, <1>7, <1>8, <1>9 DEF StoreOK
<1>11. CASE tab.page.name = "diagram"
  <2>1. DiagramShape(tab) /\ (~Loaded(tab) => Unasked(tab.page))
    BY <1>1, <1>11 DEF PageOK, DiagramOK
  <2>2. DiagramShape(v)
    BY <1>1, <1>7, <2>1, DiagramTurns
  <2>3. ~Loaded(v) => Unasked(v.page)
    BY <1>7, <1>9, <2>1 DEF Unasked, DiagramShape, DiagramFields
  <2>4. Current(v)
    <3>1. CASE Loaded(tab)
      <4>1. Current(tab) /\ tab.page.name = "diagram"
        BY <1>1, <1>11 DEF PageOK, DiagramOK
      <4>. QED
        BY <1>1, <1>7, <2>1, <4>1, CurrentTurns
    <3>2. CASE ~Loaded(tab)
      BY <1>9, <2>2, <2>3, <3>2, UnaskedCurrent
    <3>. QED
      BY <3>1, <3>2
  <2>5. PageOK(v, failed, notes)
    BY <1>7, <1>11, <2>2, <2>3, <2>4, OnePage DEF DiagramOK
  <2>. QED
    BY <1>2, <1>7, <1>8, <1>10, <2>5 DEF IInv, AllOK, v
<1>12. CASE tab.page.name = "status"
  <2>1. StatusShape(tab.page) /\ Chooses(tab)
    BY <1>1, <1>12 DEF PageOK, StatusOK
  <2>2. Chooses(v) /\ RowsCurrent(v, failed, notes)
    BY <1>7, <1>8, <1>9, <2>1 DEF Chooses, RowsCurrent, StatusShape, StatusFields
  <2>3. StatusOK(v, failed, notes)
    BY <1>1, <1>7, <2>2, StatusTurns DEF PageOK
  <2>4. PageOK(v, failed, notes)
    BY <1>7, <1>12, <2>3, OnePage
  <2>. QED
    BY <1>2, <1>7, <1>8, <1>10, <2>4 DEF IInv, AllOK, v
<1>13. CASE tab.page.name \notin {"diagram", "status"}
  <2>1. PageOK(v, failed, notes)
    BY <1>1, <1>7, <1>13, QuietPages DEF PageOK, TabOK, Names
  <2>. QED
    BY <1>2, <1>7, <1>8, <1>10, <2>1 DEF IInv, AllOK, v
<1>. QED
  BY <1>11, <1>12, <1>13

\* A change that nobody waits for reaches the server or does not.
LEMMA OrphanOK ==
  ASSUME IInv, ServeOrphanSave
  PROVE  IInv'
<1>1. TabOK(tab) /\ StoreOK(tab, fails) /\ fails \in Nat /\ PageOK(tab, fails, notes)
  BY DEF IInv, AllOK
<1>2. PICK i \in Pending(tab, {"orphan"}) : tab' = Gone(i)
  BY DEF ServeOrphanSave
<1>3. fails' = fails
  BY DEF ServeOrphanSave
<1>. DEFINE v == tab'
            m == notes'
<1>4. i \in DOMAIN tab.flights /\ tab.flights[i].kind = "orphan"
  BY DEF Pending
<1>5. /\ StoreTurns(tab, v) /\ Keeps(tab, v) /\ v.page = tab.page
      /\ v.flights = RemoveAt(tab.flights, i)
  BY <1>1, <1>2, <1>4, OrphanGone
<1>. HIDE DEF v, m
<1>6. StoreOK(v, fails)
  BY <1>1, <1>5, KeepsStore
<1>7. ~v.tidy
  <2>1. HasOrphan(tab)
    BY <1>4 DEF HasOrphan, HasKind
  <2>. QED
    BY <1>1, <1>5, <2>1 DEF StoreOK, Keeps
<1>8. TabOK(v)
  BY <1>5 DEF Keeps
<1>9. CASE tab.page.name = "diagram"
  <2>1. DiagramShape(tab) /\ (~Loaded(tab) => Unasked(tab.page))
    BY <1>1, <1>9 DEF PageOK, DiagramOK
  <2>2. DiagramShape(v)
    BY <1>1, <1>4, <1>5, <2>1, DiagramTurns
  <2>3. DiagramOK(v)
    <3>1. Current(tab)
      BY <1>1, <1>9 DEF PageOK, DiagramOK
    <3>2. v.tidy => tab.tidy
      BY <1>5 DEF StoreTurns
    <3>3. Current(v)
      BY <1>1, <1>4, <1>5, <2>1, <3>1, <3>2, CurrentTurns
    <3>. QED
      BY <1>5, <2>1, <2>2, <3>3 DEF DiagramOK, Loaded
  <2>4. PageOK(v, fails, m)
    BY <1>5, <1>9, <2>3, OnePage
  <2>. QED
    BY <1>1, <1>3, <1>6, <1>8, <2>4 DEF IInv, AllOK, v, m
<1>10. CASE tab.page.name = "status"
  <2>1. Chooses(v) /\ RowsCurrent(v, fails, m)
    BY <1>1, <1>5, <1>7, <1>10 DEF PageOK, StatusOK, Chooses, RowsCurrent, Loaded
  <2>2. StatusOK(v, fails, m)
    BY <1>1, <1>5, <2>1, StatusTurns DEF PageOK
  <2>3. PageOK(v, fails, m)
    BY <1>5, <1>10, <2>2, OnePage
  <2>. QED
    BY <1>1, <1>3, <1>6, <1>8, <2>3 DEF IInv, AllOK, v, m
<1>11. CASE tab.page.name \notin {"diagram", "status"}
  <2>1. PageOK(v, fails, m)
    BY <1>1, <1>5, <1>11, QuietPages DEF PageOK, TabOK, Names
  <2>. QED
    BY <1>1, <1>3, <1>6, <1>8, <2>1 DEF IInv, AllOK, v, m
<1>. QED
  BY <1>9, <1>10, <1>11

\* A step of the page that is shown: the number of failed requests does not go down.
Counts == fails' = fails \/ fails' = fails + 1

LEMMA DiagramCounts ==
  ASSUME DiagramNext
  PROVE  Counts /\ Loaded(tab)
<1>1. CASE selectProjects \/ selectGroups \/ selectPlots \/ selectStations \/ selectSensors
  BY <1>1 DEF selectProjects, selectGroups, selectPlots, selectStations, selectSensors, Selects, Click, OnDiagram, Counts
<1>2. CASE selectAggregation \/ selectHighQuality
  BY ZenonT(30), <1>2 DEF selectAggregation, selectHighQuality, Click, OnDiagram, Counts
<1>3. CASE selectQuality \/ selectInterpolation \/ enterTime
  BY <1>3 DEF selectQuality, selectInterpolation, enterTime, Sets, Click, OnDiagram, Counts
<1>4. CASE LandQuery
  BY <1>4 DEF LandQuery, LandWith, OnDiagram, Counts
<1>5. CASE FailQuery
  BY <1>5 DEF FailQuery, FailWith, Fails, OnDiagram, Counts
<1>6. CASE wheelZoom \/ touchZoom \/ drag
  BY ZenonT(30), <1>6 DEF wheelZoom, touchZoom, drag, ZoomsTo, Click, OnDiagram, Counts
<1>. QED
  BY <1>1, <1>2, <1>3, <1>4, <1>5, <1>6 DEF DiagramNext

LEMMA MonitoringCounts ==
  ASSUME MonitoringNext
  PROVE  Counts
<1>1. CASE selectSet \/ selectMonitoredPlots \/ selectMonitoredSensors \/ refreshMonitoring
  BY <1>1 DEF selectSet, selectMonitoredPlots, selectMonitoredSensors, refreshMonitoring, Click, Counts
<1>2. CASE LandMonitoring
  BY <1>2 DEF LandMonitoring, LandWith, Counts
<1>3. CASE FailMonitoring
  BY <1>3 DEF FailMonitoring, FailWith, Fails, Counts
<1>. QED
  BY <1>1, <1>2, <1>3 DEF MonitoringNext

LEMMA StatusCounts ==
  ASSUME StatusNext
  PROVE  Counts
<1>1. CASE selectProject \/ selectGroup \/ selectPlot \/ typeSearch \/ selectView \/ onRowClick \/ closeDialog
  BY ZenonT(30), <1>1 DEF selectProject, selectGroup, selectPlot, typeSearch, selectView, onRowClick, closeDialog, Click, Counts
<1>2. CASE typeNewTask \/ addTask \/ removeTask \/ setTaskStatus
  BY ZenonT(30), <1>2 DEF typeNewTask, addTask, removeTask, setTaskStatus, Edits, Click, Counts
<1>3. CASE onSubmit
  BY <1>3 DEF onSubmit, Click, Counts
<1>4. CASE ServeStatus
  BY <1>4 DEF ServeStatus, Counts
<1>5. CASE LandStatus
  BY <1>5 DEF LandStatus, LandAnswered, Counts
<1>6. CASE FailStatus
  BY <1>6 DEF FailStatus, FailWith, Fails, Counts
<1>. QED
  BY <1>1, <1>2, <1>3, <1>4, <1>5, <1>6 DEF StatusNext

\* The store as it was: a step of the page keeps it.
LEMMA StoreKept ==
  ASSUME IInv, Counts, Keeps(tab, tab')
  PROVE  fails' \in Nat /\ TabOK(tab') /\ StoreOK(tab', fails') /\ tab'.page.name = tab.page.name
<1>1. fails \in Nat /\ StoreOK(tab, fails)
  BY DEF IInv, AllOK
<1>2. fails' \in Nat /\ (fails' = 0 => fails = 0)
  BY <1>1 DEF Counts
<1>3. StoreOK(tab', fails')
  BY <1>1, <1>2, KeepsStore
<1>. QED
  BY <1>2, <1>3 DEF Keeps

LEMMA DiagramPageOK ==
  ASSUME IInv, OnDiagramPage, UNCHANGED notes
  PROVE  IInv'
<1>1. TabOK(tab) /\ DiagramOK(tab) /\ tab.page.name = "diagram" /\ DiagramNext
  BY DEF IInv, AllOK, PageOK, OnDiagramPage, OnPage
<1>2. Done(tab, tab')
  BY <1>1, DiagramDone
<1>3. Counts /\ Loaded(tab)
  BY <1>1, DiagramCounts
<1>4. fails' \in Nat /\ TabOK(tab') /\ StoreOK(tab', fails') /\ tab'.page.name = "diagram"
  BY <1>1, <1>2, <1>3, StoreKept DEF Done
<1>5. DiagramOK(tab')
  BY <1>2, <1>3 DEF DiagramOK, Done, Keeps, Loaded
<1>6. PageOK(tab', fails', notes')
  BY <1>4, <1>5, OnePage
<1>. QED
  BY <1>4, <1>6 DEF IInv, AllOK

LEMMA MonitoringPageOK ==
  ASSUME IInv, OnMonitoringPage, UNCHANGED notes
  PROVE  IInv'
<1>1. TabOK(tab) /\ MonitoringOK(tab) /\ tab.page.name = "monitoring" /\ MonitoringNext
  BY DEF IInv, AllOK, PageOK, OnMonitoringPage, OnMonitoring, OnPage
<1>2. Keeps(tab, tab') /\ MonitoringOK(tab')
  BY <1>1, MonitoringNextDone DEF MonitoringDone
<1>3. Counts
  BY <1>1, MonitoringCounts
<1>4. fails' \in Nat /\ TabOK(tab') /\ StoreOK(tab', fails') /\ tab'.page.name = "monitoring"
  BY <1>1, <1>2, <1>3, StoreKept
<1>5. PageOK(tab', fails', notes')
  BY <1>2, <1>4, OnePage
<1>. QED
  BY <1>4, <1>5 DEF IInv, AllOK

LEMMA StatusPageOK ==
  ASSUME IInv, OnStatusPage
  PROVE  IInv'
<1>1. TabOK(tab) /\ StatusOK(tab, fails, notes) /\ fails \in Nat /\ OnPage("status") /\ StatusNext
  BY DEF IInv, AllOK, PageOK, OnStatusPage
<1>2. Keeps(tab, tab') /\ StatusOK(tab', fails', notes')
  BY <1>1, StatusNextDone DEF StatusDone
<1>3. Counts
  BY <1>1, StatusCounts
<1>4. fails' \in Nat /\ TabOK(tab') /\ StoreOK(tab', fails') /\ tab'.page.name = "status"
  BY <1>1, <1>2, <1>3, StoreKept DEF OnPage
<1>5. PageOK(tab', fails', notes')
  BY <1>2, <1>4, OnePage
<1>. QED
  BY <1>4, <1>5 DEF IInv, AllOK

-----------------------------------------------------------------------------
(* The inductive invariant                                                 *)

\* The tab before its first page.
Blank == TabOf(WithStore(OverviewPage, EmptyStore))

LEMMA BlankOK ==
  /\ TabOK(Blank) /\ StoreOK(Blank, 0) /\ Blank.page.name = "overview"
  /\ DOMAIN Blank.flights = {}
  /\ \A kinds : ~HasKind(Blank.flights, kinds) /\ OneOfKind(Blank.flights, kinds)
<1>. DEFINE page == WithStore(OverviewPage, EmptyStore)
            blank == TabOf(page)
<1>2. /\ DOMAIN page = {"name", "store"}
      /\ page.name = "overview" /\ page.store = EmptyStore
  BY DEF WithStore, OverviewPage
<1>. HIDE DEF page
<1>3. DOMAIN blank = {"page", "flights", "tidy"} /\ blank.page = page /\ blank.flights = <<>> /\ blank.tidy = TRUE
  BY DEF TabOf
<1>. HIDE DEF blank
<1>4. DOMAIN EmptyStore = {"data", "loading", "error"} /\ EmptyStore.data = None
      /\ EmptyStore.loading = FALSE /\ EmptyStore.error = FALSE
  BY DEF EmptyStore
<1>5. /\ AreFlights(blank.flights) /\ DOMAIN blank.flights = {}
      /\ \A kinds : ~HasKind(blank.flights, kinds) /\ OneOfKind(blank.flights, kinds)
  <2>1. Len(<<>>) = 0 /\ <<>> \in Seq({}) /\ DOMAIN <<>> = {}
    OBVIOUS
  <2>2. {(<<>>)[i] : i \in 1..0} = {}
    OBVIOUS
  <2>. QED
    BY <1>3, <2>1, <2>2 DEF AreFlights, HasKind, OneOfKind
<1>6. TabOK(blank)
  BY <1>2, <1>3, <1>4, <1>5 DEF TabOK, Names
<1>7. StoreOK(blank, 0)
  BY <1>2, <1>3, <1>4, <1>5 DEF StoreOK, HasOrphan, HasModel, Loaded
<1>. QED
  BY <1>2, <1>3, <1>5, <1>6, <1>7 DEF Blank, blank, page

\* The application is loaded with a page, and nothing was asked for before.
LEMMA FirstInvariant == Init => IInv
<1>. SUFFICES ASSUME Init
              PROVE  IInv
  OBVIOUS
<1>1. fails = 0 /\ tab \in {Blank, openModel(Blank), openDiagram(Blank), openMonitoring(Blank), openStatusPage(Blank)}
  BY DEF Init, Blank
<1>2. AllOK(Blank, fails, notes)
  BY <1>1, BlankOK, OnePage DEF AllOK
<1>3. AllOK(tab, fails, notes)
  BY <1>1, <1>2, BlankOK, ModelOpened, DiagramOpened, MonitoringOpened, StatusOpened
<1>. QED
  BY <1>1, <1>3 DEF IInv

LEMMA InvariantKept == IInv /\ [Next]_vars => IInv'
<1>. SUFFICES ASSUME IInv, [Next]_vars
              PROVE  IInv'
  OBVIOUS
<1>1. CASE selectPage /\ UNCHANGED notes
  BY <1>1, SelectPageOK
<1>2. CASE selectSensorPage /\ UNCHANGED notes
  BY <1>2, SelectSensorPageOK
<1>3. CASE tryAgain /\ UNCHANGED notes
  BY <1>3, TryAgainOK
<1>4. CASE LandModel /\ UNCHANGED notes
  BY <1>4, LandModelOK
<1>5. CASE FailModel /\ UNCHANGED notes
  BY <1>5, FailModelOK
<1>6. CASE OnDiagramPage /\ UNCHANGED notes
  BY <1>6, DiagramPageOK
<1>7. CASE OnMonitoringPage /\ UNCHANGED notes
  BY <1>7, MonitoringPageOK
<1>8. CASE OnStatusPage
  BY <1>8, StatusPageOK
<1>9. CASE ServeOrphanSave
  BY <1>9, OrphanOK
<1>10. CASE UNCHANGED vars
  <2>1. tab' = tab /\ fails' = fails /\ notes' = notes
    BY <1>10 DEF vars, browser
  <2>. QED
    BY <2>1 DEF IInv
<1>. QED
  BY <1>1, <1>2, <1>3, <1>4, <1>5, <1>6, <1>7, <1>8, <1>9, <1>10 DEF Next

LEMMA AlwaysInvariant == Spec => []IInv
BY FirstInvariant, InvariantKept, PTL DEF Spec

-----------------------------------------------------------------------------
(* What it implies                                                         *)

LEMMA StoreImplies == IInv => StoreExact
<1>. SUFFICES ASSUME IInv
              PROVE  StoreExact
  OBVIOUS
<1>1. StoreOK(tab, fails)
  BY DEF IInv, AllOK
<1>2. Pending(tab, {"model"}) # {} <=> HasModel(tab)
  BY PendingKind DEF HasModel
<1>. QED
  BY <1>1, <1>2 DEF StoreOK, StoreExact

LEMMA DiagramImplies == IInv => DiagramExact /\ WheelWithin
<1>. SUFFICES ASSUME IInv, OnDiagram
              PROVE  DiagramExact /\ WheelWithin
  BY DEF DiagramExact, WheelWithin
<1>1. DiagramShape(tab) /\ Current(tab)
  BY DEF IInv, AllOK, PageOK, DiagramOK, OnDiagram, OnPage
<1>2. WheelWithin
  BY <1>1 DEF DiagramShape, WindowOK, WheelWithin
<1>. DEFINE newest == {i \in Pending(tab, {"query"}) : tab.flights[i].key.n = tab.page.sent}
<1>3. AwaitsData(tab.page) <=> newest # {}
  BY <1>1 DEF DiagramShape, InSequence, Queries
<1>. HIDE DEF newest
<1>4. (tab.tidy \/ plotSensorList(tab.page.asked) # <<>>) /\ ~AwaitsData(tab.page) /\ ~tab.page.error
        => tab.page.data = DataOf(tab.page)
  BY <1>1 DEF Current
<1>5. DiagramExact
  BY <1>3, <1>4 DEF DiagramExact, DataOf, newest
<1>. QED
  BY <1>2, <1>5

LEMMA StatusImplies == IInv => StatusExact
<1>. SUFFICES ASSUME IInv, OnStatus
              PROVE  StatusExact
  BY DEF StatusExact
<1>1. Saving(tab) /\ Waits(tab) /\ RowsCurrent(tab, fails, notes) /\ Loaded(tab)
  BY DEF IInv, AllOK, PageOK, StatusOK, OnStatus, OnPage
<1>2. tab.page.loading => Pending(tab, {"rows"}) # {}
  BY <1>1, PendingKind DEF Waits
<1>3. tab.page.dialog.submitting <=> Pending(tab, {"save"}) # {}
  BY <1>1, PendingKind DEF Saving
<1>4. ASSUME tab.tidy, fails = 0, Pending(tab, StatusKinds) = {}
      PROVE  tab.page.rows = rowsOf(notes, tab.page.group)
  <2>1. AsksRows(tab) = {} /\ ~SaveAnswered(tab)
    BY <1>4 DEF AsksRows, SaveAnswered, Pending, StatusKinds
  <2>. QED
    BY <1>1, <1>4, <2>1 DEF RowsCurrent
<1>. QED
  BY <1>2, <1>3, <1>4 DEF StatusExact

LEMMA AllIntervals == ToSet(Intervals) = {"hour", "day", "week", "month", "year"}
BY DEF ToSet, Intervals

LEMMA SensorImplies == IInv => SensorPageExact
<1>. SUFFICES ASSUME IInv, OnPage("model"), Loaded(tab), tab.page.sensor # None
              PROVE  SensorPageExact
  BY DEF SensorPageExact
<1>. DEFINE s == tab.page.sensor
            has == AggregationsOf[s]
            all == ToSet(Intervals)
            ends == processing(s).ends
            steps == processing(s).steps
            full == has = all
<1>1. s \in ToSet(ASensors)
  BY DEF IInv, AllOK, PageOK, SensorOK, OnPage
<1>2. has \subseteq all /\ all = {"hour", "day", "week", "month", "year"}
  BY <1>1, StepsAssumption, AllIntervals
<1>3. disabled("hour", s) <=> ~full
  BY DEF disabled
<1>. HIDE DEF s
<1>4. ends = {} <=> full
  <2>1. ends = {} <=> {"hour", "day", "week", "month", "year"} \subseteq has
    <3>. DEFINE hour == "hour" \in has
                day == hour /\ "day" \in has
                month == day /\ "month" \in has
    <3>1. ends = {i \in {"raw"} : ~hour} \cup {i \in {"hour"} : hour /\ "day" \notin has}
                 \cup {i \in {"day"} : day /\ {"week", "month"} \ has # {}}
                 \cup {i \in {"month"} : month /\ "year" \notin has}
      BY DEF processing
    <3>. HIDE DEF ends, has
    <3>2. {"week", "month"} \ has # {} <=> "week" \notin has \/ "month" \notin has
      OBVIOUS
    <3>. QED
      BY <3>1, <3>2
  <2>. HIDE DEF ends, has, all
  <2>. QED
    BY <1>2, <2>1
<1>5. steps = all <=> full
  <2>. DEFINE hour == "hour" \in has
              day == hour /\ "day" \in has
              month == day /\ "month" \in has
  <2>1. steps = {i \in {"hour"} : hour} \cup {i \in {"day"} : day}
                \cup {i \in {"week"} : day /\ "week" \in has} \cup {i \in {"month"} : month}
                \cup {i \in {"year"} : month /\ "year" \in has}
    BY DEF processing
  <2>. HIDE DEF steps, has, all
  <2>2. steps = all <=> {"hour", "day", "week", "month", "year"} \subseteq has
    BY <1>2, <2>1
  <2>. QED
    BY <1>2, <2>2
<1>. HIDE DEF ends, steps, full
<1>. QED
  BY <1>3, <1>4, <1>5 DEF SensorPageExact, ends, steps, s

-----------------------------------------------------------------------------
(* The tasks of a plot                                                     *)

TaskFields == {"task", "status", "id"}
Counted == Nat \ {0}

\* Tasks with numbers of their own, if they have one.
TasksWith(tasks, numbers) ==
  /\ tasks \in Seq(ToSet(tasks))
  /\ \A k \in DOMAIN tasks : DOMAIN tasks[k] = TaskFields /\ tasks[k].id \in numbers
  /\ \A i, j \in DOMAIN tasks : tasks[i].id = tasks[j].id => i = j \/ tasks[i].id = None

LEMMA ListOfItems ==
  ASSUME NEW S, NEW s \in Seq(S)
  PROVE  s \in Seq(ToSet(s)) /\ Len(s) \in Nat /\ DOMAIN s = 1..Len(s)
<1>1. DOMAIN s = 1..Len(s) /\ Len(s) \in Nat
  BY LenProperties
<1>2. s \in Seq({s[i] : i \in 1..Len(s)})
  BY FlightList
<1>3. ToSet(s) = {s[i] : i \in 1..Len(s)}
  BY <1>1 DEF ToSet
<1>. QED
  BY <1>1, <1>2, <1>3

LEMMA TaskDomain ==
  ASSUME NEW tasks, NEW numbers, TasksWith(tasks, numbers)
  PROVE  DOMAIN tasks = 1..Len(tasks) /\ Len(tasks) \in Nat
BY LenProperties DEF TasksWith

LEMMA TaskAppended ==
  ASSUME NEW tasks, NEW numbers, TasksWith(tasks, numbers), NEW x, DOMAIN x = TaskFields, x.id \in numbers,
         \A k \in DOMAIN tasks : tasks[k].id # x.id
  PROVE  LET new == Append(tasks, x)
         IN  /\ TasksWith(new, numbers)
             /\ Len(new) = Len(tasks) + 1
             /\ \A k \in DOMAIN tasks : new[k] = tasks[k]
             /\ new[Len(tasks) + 1] = x
<1>. DEFINE new == Append(tasks, x)
            T == ToSet(tasks) \cup {x}
            n == Len(tasks)
<1>1. n \in Nat /\ DOMAIN tasks = 1..n
  BY TaskDomain
<1>2. tasks \in Seq(T) /\ x \in T
  <2>1. tasks \in Seq(ToSet(tasks)) /\ ToSet(tasks) \subseteq T
    BY DEF TasksWith
  <2>. HIDE DEF T
  <2>2. tasks \in Seq(T)
    BY <2>1, SeqMonotonic
  <2>. QED
    BY <2>2 DEF T
<1>. HIDE DEF T
<1>3. new \in Seq(T) /\ Len(new) = n + 1 /\ (\A k \in 1..n : new[k] = tasks[k]) /\ new[n + 1] = x
  BY <1>2, AppendProperties
<1>4. new \in Seq(ToSet(new)) /\ DOMAIN new = 1..(n + 1)
  BY <1>3, ListOfItems
<1>. HIDE DEF new, n
<1>5. \A k \in DOMAIN new : k \in 1..n \/ k = n + 1
  BY <1>1, <1>4
<1>6. \A k \in DOMAIN new : DOMAIN new[k] = TaskFields /\ new[k].id \in numbers
  BY <1>1, <1>3, <1>5 DEF TasksWith
<1>7. \A i, j \in DOMAIN new : new[i].id = new[j].id => i = j \/ new[i].id = None
  BY <1>1, <1>3, <1>5 DEF TasksWith
<1>8. TasksWith(new, numbers)
  BY <1>4, <1>6, <1>7 DEF TasksWith
<1>. QED
  BY <1>1, <1>3, <1>8 DEF new, n

LEMMA TaskRemoved ==
  ASSUME NEW tasks, NEW numbers, TasksWith(tasks, numbers), NEW i \in DOMAIN tasks
  PROVE  TasksWith(RemoveAt(tasks, i), numbers)
<1>. DEFINE new == RemoveAt(tasks, i)
            n == Len(tasks)
            S == ToSet(tasks)
<1>1. n \in Nat /\ DOMAIN tasks = 1..n /\ tasks \in Seq(S)
  BY TaskDomain DEF TasksWith
<1>. HIDE DEF S
<1>2. new \in Seq(S) /\ Len(new) = n - 1 /\ \A k \in 1..(n - 1) : new[k] = IF k < i THEN tasks[k] ELSE tasks[k + 1]
  BY ZenonT(30), <1>1, RemoveItem
<1>3. new \in Seq(ToSet(new)) /\ DOMAIN new = 1..(n - 1)
  BY <1>2, ListOfItems
<1>. HIDE DEF new, n
<1>4. \A k \in DOMAIN new : Moved(k, i) \in DOMAIN tasks /\ new[k] = tasks[Moved(k, i)]
  BY <1>1, <1>2, <1>3 DEF Moved
<1>5. \A k, l \in DOMAIN new : Moved(k, i) = Moved(l, i) => k = l
  BY <1>1, <1>3 DEF Moved
<1>6. \A k \in DOMAIN new : DOMAIN new[k] = TaskFields /\ new[k].id \in numbers
  BY <1>4 DEF TasksWith
<1>7. \A k, l \in DOMAIN new : new[k].id = new[l].id => k = l \/ new[k].id = None
  BY <1>4, <1>5 DEF TasksWith
<1>8. TasksWith(new, numbers)
  BY <1>3, <1>6, <1>7 DEF TasksWith
<1>. QED
  BY <1>8 DEF new

LEMMA TaskMarked ==
  ASSUME NEW tasks, NEW numbers, TasksWith(tasks, numbers), NEW i \in DOMAIN tasks, NEW status
  PROVE  TasksWith([tasks EXCEPT ![i].status = status], numbers)
<1>. DEFINE new == [tasks EXCEPT ![i].status = status]
            x == tasks[i]
            e == [x EXCEPT !.status = status]
            n == Len(tasks)
            T == ToSet(tasks) \cup {e}
<1>1. n \in Nat /\ DOMAIN tasks = 1..n /\ DOMAIN x = TaskFields
  BY TaskDomain DEF TasksWith
<1>2. new = [tasks EXCEPT ![i] = e]
  BY <1>1
<1>3. DOMAIN e = TaskFields /\ e.id = x.id
  BY <1>1 DEF TaskFields
<1>. HIDE DEF e, x, new
<1>4. tasks \in Seq(T) /\ e \in T
  <2>1. tasks \in Seq(ToSet(tasks)) /\ ToSet(tasks) \subseteq T
    BY DEF TasksWith
  <2>. HIDE DEF T
  <2>2. tasks \in Seq(T)
    BY <2>1, SeqMonotonic
  <2>. QED
    BY <2>2 DEF T
<1>. HIDE DEF T
<1>5. new \in Seq(T) /\ Len(new) = n /\ \A k \in 1..n : new[k] = IF k = i THEN e ELSE tasks[k]
  BY <1>1, <1>2, <1>4, ExceptSeq
<1>6. new \in Seq(ToSet(new)) /\ DOMAIN new = 1..n
  BY <1>5, ListOfItems
<1>. HIDE DEF n
<1>7. \A k \in DOMAIN new : DOMAIN new[k] = TaskFields /\ new[k].id = tasks[k].id
  BY <1>1, <1>3, <1>5, <1>6 DEF x, TasksWith
<1>8. TasksWith(new, numbers)
  BY <1>1, <1>6, <1>7 DEF TasksWith
<1>. QED
  BY <1>8 DEF new

-----------------------------------------------------------------------------
(* Numbers for tasks                                                       *)

\* As many numbers as there are tasks do not fill one place more.
LEMMA NumberLeft ==
  ASSUME NEW n \in Nat, NEW used, NEW number, \A x \in used \cap Nat : \E k \in 1..n : number[k] = x
  PROVE  \E m \in 1..(n + 1) : m \notin used
<1>. SUFFICES ASSUME 1..(n + 1) \subseteq used
              PROVE  FALSE
  OBVIOUS
<1>. DEFINE S == 1..(n + 1)
            T == 1..n
            f == [m \in S |-> CHOOSE k \in T : number[k] = m]
<1>1. \A m \in S : f[m] \in T /\ number[f[m]] = m
  <2>. TAKE m \in S
  <2>1. \E k \in T : number[k] = m
    OBVIOUS
  <2>. QED
    BY <2>1
<1>2. f \in [S -> T]
  BY <1>1
<1>3. IsFiniteSet(S) /\ IsFiniteSet(T) /\ Cardinality(T) < Cardinality(S)
  <2>1. Cardinality(S) = (IF 1 > n + 1 THEN 0 ELSE n + 1 - 1 + 1) /\ IsFiniteSet(S)
    BY FS_Interval
  <2>2. Cardinality(T) = (IF 1 > n THEN 0 ELSE n - 1 + 1) /\ IsFiniteSet(T)
    BY FS_Interval
  <2>. HIDE DEF S, T
  <2>. QED
    BY <2>1, <2>2
<1>. HIDE DEF f, S, T
<1>4. \E x, y \in S : x # y /\ f[x] = f[y]
  BY <1>2, <1>3, FS_PigeonHole
<1>. QED
  BY <1>1, <1>4

LEMMA FreeNumberOK ==
  ASSUME NEW tasks, Len(tasks) \in Nat, NEW before, NEW number,
         \A x \in ToSet(tasks) \cup ToSet(before) : x.id \in Nat => \E k \in 1..Len(tasks) : number[k] = x.id
  PROVE  LET free == FreeNumber(tasks, before)
         IN  free \in Counted /\ \A x \in ToSet(tasks) \cup ToSet(before) : x.id # free
<1>. DEFINE used == {x.id : x \in ToSet(tasks) \cup ToSet(before)}
            N == Len(tasks)
            Least(m) == m \notin used /\ \A k \in 1..(m - 1) : k \in used
            free == CHOOSE m \in 1..(N + 1) : Least(m)
<1>1. FreeNumber(tasks, before) = free
  BY DEF FreeNumber
<1>2. \A x \in ToSet(tasks) \cup ToSet(before) : x.id \in used
  OBVIOUS
<1>3. N \in Nat /\ \A x \in used \cap Nat : \E k \in 1..N : number[k] = x
  OBVIOUS
<1>. HIDE DEF used, N
<1>4. \E m \in 1..(N + 1) : Least(m)
  <2>. DEFINE T == {m \in 1..(N + 1) : m \notin used}
  <2>1. T # {}
    BY <1>3, NumberLeft
  <2>2. T \subseteq Nat
    BY <1>3
  <2>3. PICK m \in T : \A k \in T : m <= k
    <3>. HIDE DEF T
    <3>. QED
      BY <2>1, <2>2, LeastNatural
  <2>4. \A k \in 1..(m - 1) : k \in used
    <3>. TAKE k \in 1..(m - 1)
    <3>1. k \in 1..(N + 1) /\ ~(m <= k)
      BY <1>3, <2>2
    <3>. QED
      BY <2>3, <3>1
  <2>. QED
    BY <2>4
<1>5. free \in 1..(N + 1) /\ free \notin used
  <2>. HIDE DEF Least
  <2>1. free \in 1..(N + 1) /\ Least(free)
    BY <1>4
  <2>. QED
    BY <2>1 DEF Least
<1>. HIDE DEF free
<1>6. free \in Counted
  BY <1>3, <1>5 DEF Counted
<1>. QED
  BY <1>1, <1>2, <1>5, <1>6

\* The first n tasks with numbers: those there were before are the same.
NumberedTo(tasks, n, new) ==
  /\ TasksWith(new, Counted)
  /\ Len(new) = n
  /\ \A k \in 1..n : tasks[k].id # None => new[k].id = tasks[k].id
  /\ \A i \in 1..n, j \in 1..Len(tasks) : new[i].id = tasks[j].id => i = j

LEMMA NumberNext ==
  ASSUME NEW tasks, TasksWith(tasks, {None} \cup Counted), NEW n \in Nat, n + 1 \in 1..Len(tasks),
         NEW before, NumberedTo(tasks, n, before),
         NEW x, x.id = IF tasks[n + 1].id = None THEN FreeNumber(tasks, before) ELSE tasks[n + 1].id,
         DOMAIN x = TaskFields
  PROVE  NumberedTo(tasks, n + 1, Append(before, x))
<1>. DEFINE N == Len(tasks)
            new == Append(before, x)
            old == tasks[n + 1]
            number == [k \in 1..N |-> IF k <= n THEN before[k].id ELSE tasks[k].id]
<1>1. /\ N \in Nat /\ DOMAIN tasks = 1..N /\ DOMAIN before = 1..n
      /\ \A k \in 1..N : tasks[k].id \in {None} \cup Counted
      /\ \A i, j \in 1..N : tasks[i].id = tasks[j].id => i = j \/ tasks[i].id = None
      /\ n + 1 \in 1..N
  BY TaskDomain DEF TasksWith, NumberedTo
<1>2. /\ TasksWith(before, Counted) /\ Len(before) = n
      /\ \A k \in 1..n : before[k].id \in Counted
      /\ \A k \in 1..n : tasks[k].id # None => before[k].id = tasks[k].id
      /\ \A i \in 1..n, j \in 1..N : before[i].id = tasks[j].id => i = j
  BY <1>1 DEF NumberedTo, TasksWith
<1>3. None \notin Counted
  BY NotesAssumption DEF Counted
<1>4. \A k \in 1..n : k \in 1..N /\ k # n + 1
  BY <1>1
<1>5. FreeNumber(tasks, before) \in Counted
      /\ \A y \in ToSet(tasks) \cup ToSet(before) : y.id # FreeNumber(tasks, before)
  <2>1. ASSUME NEW y \in ToSet(tasks) \cup ToSet(before), y.id \in Nat
        PROVE  \E k \in 1..N : number[k] = y.id
    <3>1. ASSUME NEW j \in 1..n, y = before[j]
          PROVE  \E k \in 1..N : number[k] = y.id
      <4>1. j <= n /\ j \in 1..N
        BY <1>1
      <4>2. number[j] = before[j].id
        BY <4>1
      <4>. QED
        BY <3>1, <4>1, <4>2
    <3>2. ASSUME NEW j \in 1..N, y = tasks[j]
          PROVE  \E k \in 1..N : number[k] = y.id
      <4>1. CASE j <= n
        <5>1. j \in 1..n /\ tasks[j].id # None
          BY <4>1, <2>1, <3>2, NotesAssumption
        <5>2. number[j] = tasks[j].id
          BY <1>2, <4>1, <5>1
        <5>. QED
          BY <3>2, <5>2
      <4>2. CASE ~(j <= n)
        <5>1. number[j] = tasks[j].id
          BY <4>2
        <5>. QED
          BY <3>2, <5>1
      <4>. QED
        BY <4>1, <4>2
    <3>3. y \in ToSet(tasks) => \E j \in 1..N : y = tasks[j]
      BY <1>1 DEF ToSet
    <3>4. y \in ToSet(before) => \E j \in 1..n : y = before[j]
      BY <1>1 DEF ToSet
    <3>. QED
      BY <3>1, <3>2, <3>3, <3>4
  <2>. HIDE DEF number
  <2>. QED
    BY <1>1, <2>1, FreeNumberOK
<1>. HIDE DEF number
<1>6. \A k \in 1..n : before[k].id # FreeNumber(tasks, before)
  BY <1>1, <1>5 DEF ToSet
<1>7. \A k \in 1..N : tasks[k].id # FreeNumber(tasks, before)
  BY <1>1, <1>5 DEF ToSet
<1>. HIDE DEF N
<1>8. /\ x.id \in Counted
      /\ old.id # None => x.id = old.id
      /\ \A k \in 1..n : before[k].id # x.id
      /\ \A k \in 1..N : x.id = tasks[k].id => k = n + 1
  <2>1. CASE old.id = None
    <3>1. x.id = FreeNumber(tasks, before)
      BY <2>1
    <3>. QED
      BY <1>5, <1>6, <1>7, <2>1, <3>1
  <2>2. CASE old.id # None
    <3>1. x.id = old.id
      BY <2>2
    <3>2. old.id \in Counted
      BY <1>1, <2>2
    <3>3. \A k \in 1..N : old.id = tasks[k].id => k = n + 1
      BY <1>1, <2>2
    <3>4. \A k \in 1..n : before[k].id # old.id
      BY <1>1, <1>2, <1>4
    <3>. QED
      BY <3>1, <3>2, <3>3, <3>4
  <2>. QED
    BY <2>1, <2>2
<1>9. TasksWith(new, Counted) /\ Len(new) = n + 1 /\ (\A k \in 1..n : new[k] = before[k]) /\ new[n + 1] = x
  BY <1>1, <1>2, <1>8, TaskAppended
<1>. HIDE DEF new
<1>10. \A k \in 1..(n + 1) : k \in 1..n \/ k = n + 1
  OBVIOUS
<1>11. \A k \in 1..(n + 1) : tasks[k].id # None => new[k].id = tasks[k].id
  BY <1>2, <1>8, <1>9, <1>10
<1>12. \A i \in 1..(n + 1), j \in 1..N : new[i].id = tasks[j].id => i = j
  BY <1>2, <1>8, <1>9, <1>10
<1>. QED
  BY <1>9, <1>11, <1>12 DEF NumberedTo, N, new

LEMMA NumberedOK ==
  ASSUME NEW tasks, TasksWith(tasks, {None} \cup Counted)
  PROVE  TasksWith(Numbered(tasks), Counted)
<1>. DEFINE N == Len(tasks)
            number(before, x) == IF x.id = None THEN FreeNumber(tasks, before) ELSE x.id
            with(before, x) == Append(before, TaskOf(x.task, StatusOf(x), number(before, x)))
            Step(f, n) == IF n = 0 THEN <<>> ELSE with(f[n - 1], tasks[n])
            IsIt(f) == f = [n \in 0..N |-> Step(f, n)]
            Fine(f, n) == NumberedTo(tasks, n, f[n])
<1>1. N \in Nat
  BY TaskDomain
<1>2. ASSUME NEW f, NEW n \in 0..N, f[n] = Step(f, n), n # 0 => Fine(f, n - 1)
      PROVE  Fine(f, n)
  <2>1. CASE n = 0
    <3>1. f[n] = <<>> /\ Len(<<>>) = 0 /\ DOMAIN <<>> = {} /\ <<>> \in Seq(ToSet(<<>>))
      BY <1>2, <2>1, EmptySeq
    <3>. QED
      BY <2>1, <3>1 DEF NumberedTo, TasksWith
  <2>2. CASE n # 0
    <3>. DEFINE p == n - 1
                old == tasks[n]
                b == f[p]
                x == TaskOf(old.task, StatusOf(old), number(b, old))
    <3>1. p \in Nat /\ p + 1 = n /\ n \in 1..N
      BY <1>1, <2>2
    <3>2. f[n] = Append(b, x)
      BY <1>2, <2>2
    <3>3. NumberedTo(tasks, p, b)
      BY <1>2, <2>2
    <3>4. DOMAIN x = TaskFields /\ x.id = IF old.id = None THEN FreeNumber(tasks, b) ELSE old.id
      BY DEF TaskOf, TaskFields
    <3>. HIDE DEF p, b, x
    <3>5. NumberedTo(tasks, p + 1, Append(b, x))
      BY <3>1, <3>3, <3>4, NumberNext
    <3>. QED
      BY <3>1, <3>2, <3>5
  <2>. QED
    BY <2>1, <2>2
<1>3. \E f : IsIt(f)
  <2>. DEFINE Up(n) == \E g : g = [m \in 0..n |-> Step(g, m)]
              Bad == {n \in 0..N : ~Up(n)}
  <2>1. SUFFICES Bad = {}
    <3>1. N \in 0..N
      BY <1>1
    <3>2. Up(N)
      <4>. HIDE DEF Up
      <4>. QED
        BY <2>1, <3>1
    <3>. QED
      BY <3>2
  <2>2. SUFFICES ASSUME Bad # {} PROVE FALSE
    OBVIOUS
  <2>3. PICK n \in Bad : n # 0 => n - 1 \in 0..N /\ n - 1 \notin Bad
    <3>1. Bad \subseteq 0..N
      OBVIOUS
    <3>. HIDE DEF Bad
    <3>. QED
      BY <2>2, FirstBad, <1>1, <3>1
  <2>4. CASE n = 0
    <3>. DEFINE g == [m \in 0..0 |-> <<>>]
    <3>1. g = [m \in 0..0 |-> Step(g, m)]
      OBVIOUS
    <3>. QED
      BY <2>3, <2>4, <3>1
  <2>5. CASE n # 0
    <3>1. n - 1 \in 0..N /\ n - 1 \notin Bad /\ n \in Nat
      <4>1. n \in 0..N
        OBVIOUS
      <4>. HIDE DEF Bad
      <4>. QED
        BY <2>3, <2>5, <1>1, <4>1
    <3>2. PICK g : g = [m \in 0..(n - 1) |-> Step(g, m)]
      <4>1. Up(n - 1)
        BY <3>1
      <4>. QED
        BY <4>1
    <3>. DEFINE h == [m \in 0..n |-> IF m = n THEN Step(g, n) ELSE g[m]]
    <3>3. \A m \in 0..n : h[m] = Step(h, m)
      <4>1. \A m \in 0..(n - 1) : g[m] = Step(g, m)
        <5>. HIDE DEF Step
        <5>. QED
          BY <3>2
      <4>2. \A m \in 0..n : m # 0 => m - 1 \in 0..(n - 1) /\ h[m - 1] = g[m - 1]
        BY <3>1
      <4>3. \A m \in 0..n : Step(h, m) = Step(g, m)
        <5>. HIDE DEF with, h
        <5>. QED
          BY <4>2
      <4>4. \A m \in 0..n : h[m] = Step(g, m)
        <5>. HIDE DEF Step
        <5>. QED
          BY <4>1, <3>1
      <4>. QED
        BY <4>3, <4>4
    <3>4. h = [m \in 0..n |-> Step(h, m)]
      <4>1. h = [m \in 0..n |-> h[m]]
        OBVIOUS
      <4>. HIDE DEF Step, h
      <4>. QED
        BY <4>1, <3>3
    <3>. QED
      BY <3>4, <2>3
  <2>. QED
    BY <2>4, <2>5
<1>4. PICK f : IsIt(f) /\ Numbered(tasks) = f[N]
  <2>. DEFINE c == CHOOSE f : IsIt(f)
  <2>1. IsIt(c)
    BY ZenonT(30), <1>3
  <2>2. Numbered(tasks) = c[N]
    BY DEF Numbered
  <2>. QED
    BY ZenonT(30), <2>1, <2>2
<1>5. \A n \in 0..N : f[n] = Step(f, n)
  <2>. HIDE DEF Step
  <2>. QED
    BY <1>4
<1>6. \A n \in 0..N : Fine(f, n)
  <2>. HIDE DEF Step, IsIt, Fine
  <2>. DEFINE Bad == {n \in 0..N : ~Fine(f, n)}
  <2>1. SUFFICES ASSUME Bad # {} PROVE FALSE
    OBVIOUS
  <2>2. PICK n \in Bad : n # 0 => n - 1 \in 0..N /\ n - 1 \notin Bad
    <3>1. Bad \subseteq 0..N
      OBVIOUS
    <3>. HIDE DEF Bad
    <3>. QED
      BY <2>1, FirstBad, <1>1, <3>1
  <2>3. n # 0 => Fine(f, n - 1)
    BY <2>2
  <2>. QED
    BY <1>2, <1>5, <2>2, <2>3
<1>7. NumberedTo(tasks, N, f[N])
  <2>1. N \in 0..N
    BY <1>1
  <2>. HIDE DEF N, IsIt
  <2>. QED
    BY <1>6, <2>1
<1>. HIDE DEF N, IsIt
<1>. QED
  BY <1>4, <1>7 DEF NumberedTo

\* The number after the largest is not used.
LEMMA NextTaskIdOK ==
  ASSUME NEW tasks, TasksWith(tasks, Counted)
  PROVE  LET id == getNextTaskId(tasks)
         IN  id \in Counted /\ \A k \in DOMAIN tasks : tasks[k].id # id
<1>. DEFINE N == Len(tasks)
            ids == {x.id : x \in ToSet(tasks)} \cup {0}
            Largest(T, x) == \A y \in T : x >= y
            Upto(n) == {tasks[k].id : k \in 1..n} \cup {0}
<1>1. N \in Nat /\ DOMAIN tasks = 1..N /\ \A k \in 1..N : tasks[k].id \in Nat \ {0}
  BY TaskDomain DEF TasksWith, Counted
<1>2. ids = Upto(N)
  <2>1. \A x : x \in ToSet(tasks) <=> \E k \in 1..N : x = tasks[k]
    BY <1>1 DEF ToSet
  <2>. QED
    BY <2>1
<1>. HIDE DEF N
<1>3. \E x \in Upto(N) : Largest(Upto(N), x)
  <2>. DEFINE Fine(n) == \E x \in Upto(n) : Largest(Upto(n), x)
              Bad == {n \in 0..N : ~Fine(n)}
  <2>1. SUFFICES Bad = {}
    <3>1. N \in 0..N
      BY <1>1
    <3>2. Fine(N)
      <4>. HIDE DEF Fine
      <4>. QED
        BY <2>1, <3>1
    <3>. QED
      BY <3>2
  <2>2. SUFFICES ASSUME Bad # {} PROVE FALSE
    OBVIOUS
  <2>3. PICK n \in Bad : n # 0 => n - 1 \in 0..N /\ n - 1 \notin Bad
    <3>1. Bad \subseteq 0..N
      OBVIOUS
    <3>. HIDE DEF Bad
    <3>. QED
      BY <2>2, FirstBad, <1>1, <3>1
  <2>4. CASE n = 0
    <3>1. Upto(n) = {0}
      BY <2>4
    <3>2. Fine(n)
      BY <3>1
    <3>. QED
      BY <2>3, <3>2
  <2>5. CASE n # 0
    <3>1. n - 1 \in 0..N /\ n - 1 \notin Bad /\ n \in 1..N
      <4>1. n \in 0..N
        OBVIOUS
      <4>. HIDE DEF Bad
      <4>. QED
        BY <2>3, <2>5, <1>1, <4>1
    <3>2. PICK x \in Upto(n - 1) : Largest(Upto(n - 1), x)
      BY <3>1
    <3>3. Upto(n) = Upto(n - 1) \cup {tasks[n].id}
      <4>1. 1..n = 1..(n - 1) \cup {n}
        BY <3>1, <1>1
      <4>. QED
        BY <4>1
    <3>4. Upto(n - 1) \subseteq Nat /\ tasks[n].id \in Nat
      BY <1>1, <3>1
    <3>. HIDE DEF Upto
    <3>5. CASE x >= tasks[n].id
      BY <2>3, <3>2, <3>3, <3>5
    <3>6. CASE ~(x >= tasks[n].id)
      <4>1. tasks[n].id \in Upto(n) /\ Largest(Upto(n), tasks[n].id)
        BY <3>2, <3>3, <3>4, <3>6
      <4>. QED
        BY <2>3, <4>1
    <3>. QED
      BY <3>5, <3>6
  <2>. QED
    BY <2>4, <2>5
<1>. DEFINE max == CHOOSE x \in ids : Largest(ids, x)
<1>4. getNextTaskId(tasks) = max + 1
  BY DEF getNextTaskId, Max
<1>5. max \in ids /\ Largest(ids, max)
  <2>1. \E x \in ids : Largest(ids, x)
    BY <1>2, <1>3
  <2>. HIDE DEF Largest, ids
  <2>. QED
    BY <2>1
<1>. HIDE DEF max
<1>6. ids \subseteq Nat /\ \A k \in 1..N : tasks[k].id \in ids
  <2>1. Upto(N) \subseteq Nat /\ \A k \in 1..N : tasks[k].id \in Upto(N)
    BY <1>1
  <2>. HIDE DEF ids, Upto
  <2>. QED
    BY <1>2, <2>1
<1>. HIDE DEF ids
<1>7. max \in Nat /\ \A k \in 1..N : tasks[k].id # max + 1
  BY <1>5, <1>6
<1>. QED
  BY <1>1, <1>4, <1>7 DEF Counted

\* What the server may have of a plot, and what the dialog makes of it.
IsEntry(tasks) == tasks \in {None, Text} \/ TasksWith(tasks, {None} \cup Counted)
IsRow(row) == DOMAIN row = {"plot", "tasks"} /\ TasksWith(row.tasks, Counted)

LEMMA OneTask ==
  ASSUME NEW x, DOMAIN x = TaskFields, x.id \in Counted
  PROVE  TasksWith(<<x>>, Counted)
<1>1. <<x>> \in Seq({x}) /\ DOMAIN <<x>> = {1} /\ <<x>>[1] = x
  OBVIOUS
<1>2. <<x>> \in Seq(ToSet(<<x>>))
  BY <1>1, ListOfItems
<1>. QED
  BY <1>1, <1>2 DEF TasksWith

LEMMA NormalizedOK ==
  ASSUME NEW tasks, IsEntry(tasks)
  PROVE  TasksWith(normalizeTasks(tasks), Counted)
<1>1. None # Text
  BY NotesAssumption
<1>2. CASE tasks = None
  <2>1. normalizeTasks(tasks) = <<>>
    BY <1>1, <1>2 DEF normalizeTasks
  <2>2. <<>> \in Seq(ToSet(<<>>)) /\ DOMAIN <<>> = {}
    BY EmptySeq
  <2>. QED
    BY <2>1, <2>2 DEF TasksWith
<1>3. CASE tasks = Text
  <2>1. normalizeTasks(tasks) = <<TaskOf(Text, "open", 1)>>
    BY <1>1, <1>3 DEF normalizeTasks
  <2>2. DOMAIN TaskOf(Text, "open", 1) = TaskFields /\ TaskOf(Text, "open", 1).id \in Counted
    BY DEF TaskOf, TaskFields, Counted
  <2>. QED
    BY <2>1, <2>2, OneTask
<1>4. CASE tasks \notin {None, Text}
  <2>1. normalizeTasks(tasks) = Numbered(tasks)
    BY <1>1, <1>4 DEF normalizeTasks
  <2>. QED
    BY <1>4, <2>1, NumberedOK DEF IsEntry
<1>. QED
  BY <1>2, <1>3, <1>4

LEMMA RowIsEntry ==
  ASSUME NEW row, IsRow(row)
  PROVE  IsEntry(row.tasks)
BY DEF IsRow, IsEntry, TasksWith

\* What the server has of the plots.
Entries(file) == \A plot \in DOMAIN file : IsEntry(file[plot])

LEMMA EntryOfOK ==
  ASSUME NEW file, Entries(file), NEW plot
  PROVE  IsEntry(entryOf(file, plot))
BY DEF Entries, entryOf, IsEntry

LEMMA PostedOK ==
  ASSUME Entries(notes), NEW row, IsRow(row)
  PROVE  Entries(handlePOST(row))
<1>. DEFINE new == handlePOST(row)
<1>1. new = [x \in DOMAIN notes \cup {row.plot} |-> IF x = row.plot THEN row.tasks ELSE notes[x]]
  BY DEF handlePOST
<1>2. IsEntry(row.tasks)
  BY RowIsEntry
<1>. HIDE DEF new
<1>3. Entries(new)
  BY <1>1, <1>2 DEF Entries
<1>. QED
  BY <1>3 DEF new

-----------------------------------------------------------------------------
(* The dialog                                                              *)

\* A status on its way to the server and a row on its way to the dialog.
Sound(f) ==
  /\ f.kind = "save" => IsRow(f.key)
  /\ f.kind = "orphan" => IsRow(f.key.key)
  /\ f.kind = "dialog" /\ f.pc = "answered" => IsEntry(f.answer)

\* What can be changed and saved.
Shows(d) == d.shown /\ ~d.loading /\ ~d.error => d.row.plot = d.plot /\ IsRow(d.row)

FlightsSound(t) == \A k \in DOMAIN t.flights : Sound(t.flights[k])
DialogOK(t) == FlightsSound(t) /\ (t.page.name = "status" => Shows(t.page.dialog))

\* The inductive invariant of the dialog.
DInv == Entries(notes) /\ DialogOK(tab)

\* The flights are some of those there were, or sound as well.
LEMMA SoundKept ==
  ASSUME NEW t, NEW u, FlightsSound(t),
         \A k \in DOMAIN u.flights : Sound(u.flights[k]) \/ \E j \in DOMAIN t.flights : u.flights[k] = t.flights[j]
  PROVE  FlightsSound(u)
BY DEF FlightsSound

\* On the other pages no step touches them.
LEMMA KeepsSound ==
  ASSUME NEW t, NEW u, Keeps(t, u), t.page.name # "status", FlightsSound(t)
  PROVE  DialogOK(u)
<1>1. \A k \in DOMAIN u.flights : Sound(u.flights[k]) \/ \E j \in DOMAIN t.flights : u.flights[k] = t.flights[j]
  <2>. TAKE k \in DOMAIN u.flights
  <2>1. CASE u.flights[k].kind \in {"orphan", "dialog", "save"}
    BY <2>1 DEF Keeps, PostsKept
  <2>2. CASE u.flights[k].kind \notin {"orphan", "dialog", "save"}
    BY <2>2 DEF Sound
  <2>. QED
    BY <2>1, <2>2
<1>2. FlightsSound(u)
  BY <1>1, SoundKept
<1>. QED
  BY <1>2 DEF DialogOK, Keeps

LEMMA RoutesSound ==
  ASSUME NEW t, NEW u, NEW page, Routes(t, u, page), FlightsSound(t)
  PROVE  FlightsSound(u)
<1>1. ASSUME NEW k \in DOMAIN u.flights
      PROVE  Sound(u.flights[k])
  <2>1. CASE u.flights[k].kind = "orphan"
    <3>1. PICK j \in DOMAIN t.flights :
            u.flights[k] = t.flights[j] \/ (t.flights[j].kind = "save" /\ u.flights[k].key = t.flights[j])
      BY <2>1 DEF Routes, PostsLeft
    <3>2. Sound(t.flights[j])
      BY DEF FlightsSound
    <3>. QED
      BY <2>1, <3>1, <3>2 DEF Sound
  <2>2. CASE u.flights[k].kind # "orphan"
    BY <2>2 DEF Routes, Sound
  <2>. QED
    BY <2>1, <2>2
<1>. QED
  BY <1>1 DEF FlightsSound

LEMMA StoreTurnsSound ==
  ASSUME NEW t, NEW u, StoreTurns(t, u), FlightsSound(t)
  PROVE  FlightsSound(u)
<1>1. \A k \in DOMAIN u.flights : Sound(u.flights[k]) \/ \E j \in DOMAIN t.flights : u.flights[k] = t.flights[j]
  <2>. TAKE k \in DOMAIN u.flights
  <2>1. u.flights[k].kind = "model" => Sound(u.flights[k])
    BY DEF Sound
  <2>. QED
    BY <2>1 DEF StoreTurns
<1>. QED
  BY <1>1, SoundKept

LEMMA SendSound ==
  ASSUME NEW t, TabOK(t), NEW kind, NEW key, Sound(Request(kind, key)), FlightsSound(t)
  PROVE  FlightsSound(Send(t, kind, key))
<1>. DEFINE u == Send(t, kind, key)
            r == Request(kind, key)
<1>1. u.flights = Append(t.flights, r) /\ AreFlights(t.flights) /\ IsFlight(r)
  BY SendKeeps, RequestIsFlight DEF TabOK
<1>. HIDE DEF u, r
<1>2. \A k \in DOMAIN u.flights : u.flights[k] = r \/ \E j \in DOMAIN t.flights : u.flights[k] = t.flights[j]
  BY <1>1, AppendFlight, FlightDomain
<1>3. FlightsSound(u)
  BY <1>2, SoundKept DEF r
<1>. QED
  BY <1>3 DEF u

LEMMA GoneSound ==
  ASSUME NEW t, TabOK(t), FlightsSound(t), NEW i \in DOMAIN t.flights, NEW u, u.flights = RemoveAt(t.flights, i)
  PROVE  FlightsSound(u)
<1>1. AreFlights(t.flights)
  BY DEF TabOK
<1>2. \A k \in DOMAIN u.flights : \E j \in DOMAIN t.flights : u.flights[k] = t.flights[j]
  BY <1>1, RemoveFlight
<1>. QED
  BY <1>2, SoundKept

-----------------------------------------------------------------------------
(* The dialog stays as it is                                               *)

DialogPage(t) == TabOK(t) /\ t.page.name = "status" /\ DOMAIN t.page = StatusFields

\* A step of the page that has no part in the dialog.
Kept(t, u) ==
  /\ DialogPage(u)
  /\ u.page.dialog = t.page.dialog
  /\ FlightsSound(t) => FlightsSound(u)

LEMMA KeptOK ==
  ASSUME NEW t, DialogOK(t), t.page.name = "status", NEW u, Kept(t, u)
  PROVE  DialogOK(u)
BY DEF DialogOK, Kept

LEMMA KeptTransitive ==
  ASSUME NEW t, NEW u, NEW v, Kept(t, u), Kept(u, v)
  PROVE  Kept(t, v)
BY DEF Kept

LEMMA PageKept ==
  ASSUME NEW t, DialogPage(t), NEW u, DOMAIN u = DOMAIN t, u.flights = t.flights, u.tidy = t.tidy,
         DOMAIN u.page = StatusFields,
         u.page.dialog = t.page.dialog, u.page.name = t.page.name, u.page.store = t.page.store
  PROVE  Kept(t, u)
BY DEF DialogPage, Kept, TabOK, FlightsSound, StatusFields

LEMMA SendKept ==
  ASSUME NEW t, DialogPage(t), NEW kind, NEW key, Sound(Request(kind, key))
  PROVE  Kept(t, Send(t, kind, key))
<1>1. TabOK(t)
  BY DEF DialogPage
<1>2. FlightsSound(t) => FlightsSound(Send(t, kind, key))
  BY <1>1, SendSound
<1>3. Send(t, kind, key).page = t.page /\ TabOK(Send(t, kind, key))
  BY <1>1, SendKeeps
<1>. QED
  BY <1>2, <1>3 DEF DialogPage, Kept

LEMMA RowsAsked ==
  ASSUME NEW t, DialogPage(t)
  PROVE  Kept(t, refresh(t))
<1>1. CASE t.page.group = None
  <2>. DEFINE u == [t EXCEPT !.page.rows = <<>>]
  <2>1. refresh(t) = u
    BY <1>1 DEF refresh
  <2>2. /\ DOMAIN u = DOMAIN t /\ u.flights = t.flights /\ u.tidy = t.tidy
        /\ DOMAIN u.page = StatusFields
        /\ u.page.dialog = t.page.dialog /\ u.page.name = t.page.name /\ u.page.store = t.page.store
    BY DEF DialogPage, TabOK, StatusFields
  <2>. HIDE DEF u
  <2>. QED
    BY <2>1, <2>2, PageKept
<1>2. CASE t.page.group # None
  <2>. DEFINE v == [t EXCEPT !.page.loading = TRUE]
              group == t.page.group
              u == refresh(t)
  <2>1. u = Send(v, "rows", group)
    BY <1>2 DEF refresh
  <2>2. /\ DOMAIN v = DOMAIN t /\ v.flights = t.flights /\ v.tidy = t.tidy
        /\ DOMAIN v.page = StatusFields
        /\ v.page.dialog = t.page.dialog /\ v.page.name = t.page.name /\ v.page.store = t.page.store
    BY DEF DialogPage, TabOK, StatusFields
  <2>. HIDE DEF u, v
  <2>3. Kept(t, v)
    BY <2>2, PageKept
  <2>4. Sound(Request("rows", group))
    BY DEF Sound, Request
  <2>. HIDE DEF group
  <2>5. Kept(v, Send(v, "rows", group))
    BY <2>3, <2>4, SendKept DEF Kept
  <2>6. Kept(t, u)
    BY <2>1, <2>3, <2>5, KeptTransitive
  <2>. QED
    BY <2>6 DEF u
<1>. QED
  BY <1>1, <1>2

LEMMA GroupKept ==
  ASSUME NEW t, DialogPage(t), NEW group
  PROVE  Kept(t, setGroup(t, group))
<1>. DEFINE v == [t EXCEPT !.page.group = group]
            w == refresh(v)
            one == IF Len(APlots[w.page.group]) = 1 THEN APlots[w.page.group] ELSE None
            u == [w EXCEPT !.page.plot = one]
<1>1. setGroup(t, group) = u
  BY DEF setGroup, watchPlotsOfGroup
<1>2. /\ DOMAIN v = DOMAIN t /\ v.flights = t.flights /\ v.tidy = t.tidy
      /\ DOMAIN v.page = StatusFields
      /\ v.page.dialog = t.page.dialog /\ v.page.name = t.page.name /\ v.page.store = t.page.store
  BY DEF DialogPage, TabOK, StatusFields
<1>. HIDE DEF v
<1>3. Kept(t, v)
  BY <1>2, PageKept
<1>4. Kept(v, w)
  BY <1>3, RowsAsked DEF Kept
<1>. HIDE DEF w, one
<1>5. DialogPage(w)
  BY <1>4 DEF Kept
<1>6. /\ DOMAIN u = DOMAIN w /\ u.flights = w.flights /\ u.tidy = w.tidy
      /\ DOMAIN u.page = StatusFields
      /\ u.page.dialog = w.page.dialog /\ u.page.name = w.page.name /\ u.page.store = w.page.store
  BY <1>5 DEF DialogPage, TabOK, StatusFields
<1>. HIDE DEF u
<1>7. Kept(w, u)
  BY <1>5, <1>6, PageKept
<1>. QED
  BY <1>1, <1>3, <1>4, <1>7, KeptTransitive

LEMMA ProjectKept ==
  ASSUME NEW t, DialogPage(t), NEW project
  PROVE  Kept(t, setProject(t, project))
<1>. DEFINE v == [t EXCEPT !.page.project = project]
            group == IF DefaultGroup[project] \in ToSet(AGroups[project]) THEN DefaultGroup[project]
                     ELSE AGroups[project][1]
<1>1. setProject(t, project) = setGroup(v, group)
  BY DEF setProject
<1>2. /\ DOMAIN v = DOMAIN t /\ v.flights = t.flights /\ v.tidy = t.tidy
      /\ DOMAIN v.page = StatusFields
      /\ v.page.dialog = t.page.dialog /\ v.page.name = t.page.name /\ v.page.store = t.page.store
  BY DEF DialogPage, TabOK, StatusFields
<1>. HIDE DEF v, group
<1>3. Kept(t, v)
  BY <1>2, PageKept
<1>4. Kept(v, setGroup(v, group))
  BY <1>3, GroupKept DEF Kept
<1>. QED
  BY <1>1, <1>3, <1>4, KeptTransitive

-----------------------------------------------------------------------------
(* The steps of the page                                                   *)

LEMMA StatusShown ==
  ASSUME IInv, DInv, tab.page.name = "status"
  PROVE  /\ DialogPage(tab) /\ FlightsSound(tab)
         /\ Shows(tab.page.dialog) /\ DOMAIN tab.page.dialog = DialogFields
BY DEF IInv, AllOK, PageOK, StatusOK, StatusShape, DInv, DialogOK, DialogPage

\* The dialog alone changes.
LEMMA WithNewDialog ==
  ASSUME NEW t, DialogPage(t), NEW d
  PROVE  LET u == SetDialog(t, d)
         IN  DialogPage(u) /\ u.flights = t.flights /\ u.page.dialog = d
BY DEF SetDialog, DialogPage, TabOK, StatusFields

LEMMA NewDialogOK ==
  ASSUME NEW t, DialogPage(t), FlightsSound(t), NEW d, Shows(d)
  PROVE  DialogOK(SetDialog(t, d))
<1>. DEFINE u == SetDialog(t, d)
<1>1. u.flights = t.flights /\ u.page.dialog = d
  BY WithNewDialog
<1>. HIDE DEF u
<1>2. DialogOK(u)
  BY <1>1 DEF DialogOK, FlightsSound
<1>. QED
  BY <1>2 DEF u

LEMMA QuietSteps ==
  ASSUME IInv, DInv, selectProject \/ selectGroup \/ selectPlot \/ typeSearch \/ selectView
  PROVE  DInv'
<1>1. tab.page.name = "status" /\ notes' = notes
  BY DEF selectProject, selectGroup, selectPlot, typeSearch, selectView, OnTable, OnStatus, OnPage
<1>2. DialogPage(tab) /\ DialogOK(tab) /\ Entries(notes)
  BY <1>1, StatusShown DEF DInv
<1>3. CASE selectProject
  <2>1. PICK x : tab' = setProject(tab, x)
    BY <1>3 DEF selectProject
  <2>2. Kept(tab, setProject(tab, x))
    BY <1>2, ProjectKept
  <2>3. DialogOK(tab')
    BY <1>1, <1>2, <2>1, <2>2, KeptOK
  <2>. QED
    BY <1>1, <1>2, <2>3 DEF DInv
<1>4. CASE selectGroup
  <2>1. PICK x : tab' = setGroup(tab, x)
    BY <1>4 DEF selectGroup
  <2>2. Kept(tab, setGroup(tab, x))
    BY <1>2, GroupKept
  <2>3. DialogOK(tab')
    BY <1>1, <1>2, <2>1, <2>2, KeptOK
  <2>. QED
    BY <1>1, <1>2, <2>3 DEF DInv
<1>5. CASE selectPlot \/ typeSearch \/ selectView
  <2>1. TabOK(tab) /\ StatusOK(tab, fails, notes)
    BY DEF IInv, AllOK, PageOK
  <2>2. tab'.flights = tab.flights /\ tab'.page.dialog = tab.page.dialog
    BY <1>5, <2>1, ViewsDone
  <2>3. DialogOK(tab')
    BY <1>1, <1>2, <2>2 DEF DialogOK, FlightsSound
  <2>. QED
    BY <1>1, <1>2, <2>3 DEF DInv
<1>. QED
  BY <1>3, <1>4, <1>5

LEMMA RowClickSound ==
  ASSUME IInv, DInv, onRowClick
  PROVE  DInv'
<1>1. tab.page.name = "status" /\ notes' = notes
  BY DEF onRowClick, OnTable, OnStatus, OnPage
<1>2. /\ DialogPage(tab) /\ FlightsSound(tab) /\ Entries(notes)
      /\ DOMAIN tab.page.dialog = DialogFields
  BY <1>1, StatusShown DEF DInv
<1>3. PICK x : tab' = Send(SetDialog(tab, [tab.page.dialog EXCEPT !.shown = TRUE, !.plot = x, !.loading = TRUE]),
                           "dialog", x)
  BY DEF onRowClick
<1>. DEFINE d == [tab.page.dialog EXCEPT !.shown = TRUE, !.plot = x, !.loading = TRUE]
            v == SetDialog(tab, d)
<1>4. Shows(d)
  BY <1>2 DEF Shows, DialogFields
<1>. HIDE DEF d
<1>5. DialogPage(v) /\ DialogOK(v)
  BY <1>2, <1>4, WithNewDialog, NewDialogOK
<1>. HIDE DEF v
<1>6. Sound(Request("dialog", x))
  BY DEF Sound, Request
<1>7. Kept(v, Send(v, "dialog", x))
  BY <1>5, <1>6, SendKept
<1>8. DialogOK(tab')
  BY <1>3, <1>5, <1>7, KeptOK DEF DialogPage, d, v
<1>. QED
  BY <1>1, <1>2, <1>8 DEF DInv

\* What the dialog shows can be changed: it is of the plot that the dialog names.
LEMMA RowChanged ==
  ASSUME NEW d, DOMAIN d = DialogFields, IsRow(d.row), d.row.plot = d.plot,
         NEW tasks, TasksWith(tasks, Counted), NEW e, e.plot = d.plot, e.row = [d.row EXCEPT !.tasks = tasks]
  PROVE  Shows(e)
BY DEF Shows, IsRow

LEMMA EditsSound ==
  ASSUME IInv, DInv, closeDialog \/ typeNewTask \/ addTask \/ removeTask \/ setTaskStatus
  PROVE  DInv'
<1>. DEFINE d == tab.page.dialog
            Good(e) == Shows(e)
<1>1. tab.page.name = "status" /\ notes' = notes
  BY ZenonT(30) DEF closeDialog, typeNewTask, addTask, removeTask, setTaskStatus, Edits, Editing, OnStatus, OnPage
<1>2. DialogPage(tab) /\ FlightsSound(tab) /\ Entries(notes) /\ Shows(d) /\ DOMAIN d = DialogFields
  BY <1>1, StatusShown DEF DInv
<1>3. Editing => IsRow(d.row) /\ d.row.plot = d.plot
  BY <1>2 DEF Editing, Shows
<1>4. \E e : tab' = SetDialog(tab, e) /\ Shows(e)
  <2>1. CASE closeDialog
    <3>1. tab' = SetDialog(tab, Closed(d))
      BY <2>1 DEF closeDialog
    <3>2. Shows(Closed(d))
      BY <1>2 DEF Closed, DialogFields, Shows
    <3>. QED
      BY <3>1, <3>2
  <2>2. ASSUME NEW S, Edits(S), \A e \in S : Shows(e)
        PROVE  \E e : tab' = SetDialog(tab, e) /\ Shows(e)
    BY <2>2 DEF Edits
  <2>3. ASSUME NEW S, Edits(S)
        PROVE  IsRow(d.row) /\ d.row.plot = d.plot /\ TasksWith(d.row.tasks, Counted) /\ DOMAIN d.row = {"plot", "tasks"}
    BY <1>3, <2>3 DEF Edits, IsRow
  <2>4. CASE typeNewTask
    <3>. DEFINE S == {[d EXCEPT !.newTask = ~@]}
    <3>1. Edits(S)
      BY <2>4 DEF typeNewTask
    <3>2. \A e \in S : Shows(e)
      BY <1>2 DEF DialogFields, Shows
    <3>. QED
      BY <2>2, <3>1, <3>2
  <2>5. CASE addTask
    <3>. DEFINE id == getNextTaskId(d.row.tasks)
                tasks == Append(d.row.tasks, TaskOf(clicks, "open", id))
                S == {[d EXCEPT !.newTask = FALSE,
                                !.row.tasks = Append(@, TaskOf(clicks, "open", getNextTaskId(@)))]}
    <3>1. Edits(S)
      BY <2>5 DEF addTask
    <3>2. IsRow(d.row) /\ d.row.plot = d.plot /\ TasksWith(d.row.tasks, Counted) /\ DOMAIN d.row = {"plot", "tasks"}
      BY <2>3, <3>1
    <3>3. id \in Counted /\ \A k \in DOMAIN d.row.tasks : d.row.tasks[k].id # id
      BY <3>2, NextTaskIdOK
    <3>. HIDE DEF id
    <3>4. DOMAIN TaskOf(clicks, "open", id) = TaskFields /\ TaskOf(clicks, "open", id).id = id
      BY DEF TaskOf, TaskFields
    <3>5. TasksWith(tasks, Counted)
      BY <3>2, <3>3, <3>4, TaskAppended
    <3>6. \A e \in S : e.plot = d.plot /\ e.row = [d.row EXCEPT !.tasks = tasks]
      BY <1>2, <3>2 DEF DialogFields, id
    <3>. HIDE DEF tasks, S
    <3>7. \A e \in S : Shows(e)
      BY <1>2, <3>2, <3>5, <3>6, RowChanged
    <3>. QED
      BY <2>2, <3>1, <3>7
  <2>6. CASE removeTask
    <3>. DEFINE S == {[d EXCEPT !.row.tasks = RemoveAt(@, k)] : k \in {j \in DOMAIN d.row.tasks : VisibleTask(d, j)}}
    <3>1. Edits(S)
      BY <2>6 DEF removeTask
    <3>2. IsRow(d.row) /\ d.row.plot = d.plot /\ TasksWith(d.row.tasks, Counted) /\ DOMAIN d.row = {"plot", "tasks"}
      BY <2>3, <3>1
    <3>3. ASSUME NEW k \in DOMAIN d.row.tasks, NEW e, e = [d EXCEPT !.row.tasks = RemoveAt(@, k)]
          PROVE  Shows(e)
      <4>. DEFINE tasks == RemoveAt(d.row.tasks, k)
      <4>1. TasksWith(tasks, Counted)
        BY <3>2, TaskRemoved
      <4>2. e.plot = d.plot /\ e.row = [d.row EXCEPT !.tasks = tasks]
        BY <1>2, <3>2, <3>3 DEF DialogFields
      <4>. HIDE DEF tasks
      <4>. QED
        BY <1>2, <3>2, <4>1, <4>2, RowChanged
    <3>4. \A e \in S : Shows(e)
      BY <3>3
    <3>. QED
      BY <2>2, <3>1, <3>4
  <2>7. CASE setTaskStatus
    <3>1. PICK v \in {"progress", "done"} :
            Edits({[d EXCEPT !.row.tasks[k].status = v] : k \in {j \in DOMAIN d.row.tasks : VisibleTask(d, j)}})
      BY ZenonT(30), <2>7 DEF setTaskStatus
    <3>. DEFINE S == {[d EXCEPT !.row.tasks[k].status = v] : k \in {j \in DOMAIN d.row.tasks : VisibleTask(d, j)}}
    <3>2. IsRow(d.row) /\ d.row.plot = d.plot /\ TasksWith(d.row.tasks, Counted) /\ DOMAIN d.row = {"plot", "tasks"}
      BY <2>3, <3>1
    <3>3. ASSUME NEW k \in DOMAIN d.row.tasks, NEW e, e = [d EXCEPT !.row.tasks[k].status = v]
          PROVE  Shows(e)
      <4>. DEFINE tasks == [d.row.tasks EXCEPT ![k].status = v]
      <4>1. TasksWith(tasks, Counted)
        BY <3>2, TaskMarked
      <4>2. e.plot = d.plot /\ e.row = [d.row EXCEPT !.tasks = tasks]
        BY <1>2, <3>2, <3>3 DEF DialogFields
      <4>. HIDE DEF tasks
      <4>. QED
        BY <1>2, <3>2, <4>1, <4>2, RowChanged
    <3>4. \A e \in S : Shows(e)
      BY <3>3
    <3>. QED
      BY <2>2, <3>1, <3>4
  <2>. QED
    BY <2>1, <2>4, <2>5, <2>6, <2>7
<1>5. PICK e : tab' = SetDialog(tab, e) /\ Shows(e)
  BY <1>4
<1>6. DialogOK(tab')
  BY <1>2, <1>5, NewDialogOK
<1>. QED
  BY <1>1, <1>2, <1>6 DEF DInv

LEMMA SubmitSound ==
  ASSUME IInv, DInv, onSubmit
  PROVE  DInv'
<1>. DEFINE d == tab.page.dialog
            e == [d EXCEPT !.submitting = TRUE]
            v == [tab EXCEPT !.page.dialog.submitting = TRUE]
<1>1. tab.page.name = "status" /\ notes' = notes /\ Editing
  BY DEF onSubmit, Editing, OnStatus, OnPage
<1>2. DialogPage(tab) /\ FlightsSound(tab) /\ Entries(notes) /\ Shows(d) /\ DOMAIN d = DialogFields
  BY <1>1, StatusShown DEF DInv
<1>3. IsRow(d.row)
  BY <1>1, <1>2 DEF Editing, Shows
<1>4. tab' = Send(v, "save", d.row)
  BY DEF onSubmit
<1>5. v = SetDialog(tab, e)
  BY DEF SetDialog
<1>6. Shows(e)
  BY <1>2 DEF Shows, DialogFields
<1>. HIDE DEF e, v
<1>7. DialogPage(v) /\ DialogOK(v)
  BY <1>2, <1>5, <1>6, WithNewDialog, NewDialogOK
<1>8. Sound(Request("save", d.row))
  BY <1>3 DEF Sound, Request
<1>9. Kept(v, Send(v, "save", d.row))
  BY <1>7, <1>8, SendKept
<1>10. DialogOK(tab')
  BY <1>4, <1>7, <1>9, KeptOK DEF DialogPage
<1>. QED
  BY <1>1, <1>2, <1>10 DEF DInv

LEMMA ServeSound ==
  ASSUME IInv, DInv, tab.page.name = "status", ServeStatus
  PROVE  DInv'
<1>1. DialogPage(tab) /\ FlightsSound(tab) /\ Entries(notes) /\ Shows(tab.page.dialog)
  BY StatusShown DEF DInv
<1>2. PICK i \in Pending(tab, StatusKinds) :
        LET f == tab.flights[i]
        IN  /\ f.pc = "sent"
            /\ notes' = IF f.kind = "save" THEN handlePOST(f.key) ELSE notes
            /\ tab' = [tab EXCEPT !.flights[i].pc = "answered", !.flights[i].answer = statusAnswer(f)]
  BY DEF ServeStatus
<1>. DEFINE s == tab.flights
            f == s[i]
            answer == statusAnswer(f)
            u == tab'
            new == u.flights
<1>3. i \in DOMAIN s /\ f.kind \in StatusKinds /\ AreFlights(s)
  BY <1>1, <1>2 DEF Pending, DialogPage, TabOK
<1>4. Sound(f)
  BY <1>1, <1>3 DEF FlightsSound
<1>5. Entries(notes')
  BY <1>1, <1>2, <1>4, PostedOK DEF Sound
<1>6. f.kind = "dialog" => IsEntry(answer)
  <2>1. f.kind = "dialog" => answer = entryOf(notes, f.key)
    BY DEF statusAnswer
  <2>. QED
    BY <1>1, <2>1, EntryOfOK
<1>7. u = [tab EXCEPT !.flights[i].pc = "answered", !.flights[i].answer = answer]
  BY <1>2
<1>. HIDE DEF answer
<1>8. u.page = tab.page /\ new = [s EXCEPT ![i].pc = "answered", ![i].answer = answer]
  BY <1>1, <1>7 DEF DialogPage, TabOK
<1>. HIDE DEF u
<1>9. AnsweredWith(s, new, i, answer)
  <2>1. AnsweredWith(s, [s EXCEPT ![i].pc = "answered", ![i].answer = answer], i, answer)
    BY <1>3, AnswerFlight
  <2>. QED
    BY <1>8, <2>1
<1>. HIDE DEF new
<1>10. /\ DOMAIN new = DOMAIN s
       /\ \A k \in DOMAIN s \ {i} : new[k] = s[k]
       /\ new[i].kind = f.kind /\ new[i].key = f.key /\ new[i].answer = answer
  BY <1>9 DEF AnsweredWith, SameRequest
<1>11. Sound(new[i])
  BY <1>3, <1>4, <1>6, <1>10 DEF Sound, StatusKinds
<1>12. FlightsSound(u)
  BY <1>1, <1>10, <1>11 DEF FlightsSound, new
<1>13. DialogOK(u)
  BY <1>1, <1>8, <1>12 DEF DialogOK
<1>. QED
  BY <1>5, <1>13 DEF DInv, u

\* A flight of the page has left, and the page and the dialog go on with its answer.
LEMMA FlightLeft ==
  ASSUME IInv, DInv, tab.page.name = "status", NEW i \in DOMAIN tab.flights, NEW overlap,
         tab.flights[i].kind \in StatusKinds
  PROVE  LET u == UntidyIf(Gone(i), overlap)
         IN  DialogPage(u) /\ FlightsSound(u) /\ u.page = tab.page
<1>. DEFINE u == UntidyIf(Gone(i), overlap)
<1>1. DialogPage(tab) /\ FlightsSound(tab) /\ TabOK(tab)
  BY StatusShown DEF DialogPage
<1>2. u.page = tab.page /\ TabOK(u) /\ u.flights = RemoveAt(tab.flights, i)
  BY <1>1, GoneKeeps
<1>. HIDE DEF u
<1>3. FlightsSound(u)
  BY <1>1, <1>2, GoneSound
<1>4. DialogPage(u)
  BY <1>1, <1>2 DEF DialogPage
<1>. QED
  BY <1>2, <1>3, <1>4 DEF u

LEMMA LandSound ==
  ASSUME IInv, DInv, LandStatus
  PROVE  DInv'
<1>1. tab.page.name = "status" /\ notes' = notes
  BY DEF LandStatus, OnStatus, OnPage
<1>2. PICK i \in Pending(tab, StatusKinds) :
        /\ tab.flights[i].pc = "answered"
        /\ tab' = StatusLanded(UntidyIf(Gone(i), ~InOrder(i, {tab.flights[i].kind})), tab.flights[i])
  BY DEF LandStatus, LandAnswered
<1>. DEFINE f == tab.flights[i]
            overlap == ~InOrder(i, {f.kind})
            u == UntidyIf(Gone(i), overlap)
            d == tab.page.dialog
<1>3. i \in DOMAIN tab.flights /\ f.kind \in StatusKinds /\ f.pc = "answered"
  BY <1>2 DEF Pending
<1>4. tab' = StatusLanded(u, f)
  BY <1>2
<1>5. DialogPage(u) /\ FlightsSound(u) /\ u.page = tab.page
  BY <1>1, <1>3, FlightLeft
<1>6. /\ Entries(notes') /\ FlightsSound(tab) /\ Shows(d) /\ DOMAIN d = DialogFields
  BY <1>1, StatusShown DEF DInv
<1>7. Sound(f)
  BY <1>3, <1>6 DEF FlightsSound
<1>. HIDE DEF u, f
<1>8. CASE f.kind = "rows"
  <2>1. tab' = [u EXCEPT !.page.rows = f.answer, !.page.loading = FALSE]
    BY <1>4, <1>8 DEF StatusLanded
  <2>2. tab'.flights = u.flights /\ tab'.page.dialog = d
    BY <1>5, <2>1 DEF DialogPage, TabOK, StatusFields
  <2>3. DialogOK(tab')
    BY <1>5, <1>6, <2>2 DEF DialogOK, FlightsSound
  <2>. QED
    BY <1>6, <2>3 DEF DInv
<1>9. CASE f.kind = "dialog"
  <2>. DEFINE tasks == normalizeTasks(f.answer)
              row == [plot |-> f.key, tasks |-> tasks]
              e == IF f.key = d.plot THEN [d EXCEPT !.row = row, !.loading = FALSE]
                   ELSE [d EXCEPT !.row = NoRow, !.loading = FALSE, !.error = TRUE, !.plot = None]
  <2>1. tab' = SetDialog(u, e)
    <3>1. tab' = DialogLanded(u, f)
      BY <1>4, <1>9 DEF StatusLanded
    <3>. QED
      BY <1>5, <3>1 DEF DialogLanded
  <2>2. TasksWith(tasks, Counted)
    BY <1>3, <1>7, <1>9, NormalizedOK DEF Sound, f
  <2>. HIDE DEF tasks
  <2>3. IsRow(row) /\ row.plot = f.key
    BY <2>2 DEF IsRow
  <2>. HIDE DEF row
  <2>4. Shows(e)
    BY <1>6, <2>3 DEF Shows, DialogFields
  <2>. HIDE DEF e
  <2>5. DialogOK(tab')
    BY <1>5, <2>1, <2>4, NewDialogOK
  <2>. QED
    BY <1>6, <2>5 DEF DInv
<1>10. CASE f.kind = "save"
  <2>. DEFINE e == [Closed(d) EXCEPT !.submitting = FALSE]
              v == SetDialog(u, e)
  <2>1. tab' = refresh(v)
    BY <1>4, <1>5, <1>10 DEF StatusLanded
  <2>2. Shows(e)
    BY <1>6 DEF Shows, Closed, DialogFields
  <2>. HIDE DEF e
  <2>3. DialogPage(v) /\ DialogOK(v)
    BY <1>5, <2>2, WithNewDialog, NewDialogOK
  <2>. HIDE DEF v
  <2>4. DialogOK(tab')
    BY <2>1, <2>3, RowsAsked, KeptOK DEF DialogPage
  <2>. QED
    BY <1>6, <2>4 DEF DInv
<1>. QED
  BY <1>3, <1>8, <1>9, <1>10 DEF StatusKinds

LEMMA FailSound ==
  ASSUME IInv, DInv, FailStatus
  PROVE  DInv'
<1>1. tab.page.name = "status" /\ notes' = notes
  BY DEF FailStatus, OnStatus, OnPage
<1>2. PICK i \in Pending(tab, StatusKinds) :
        tab' = StatusFailed(UntidyIf(Gone(i), Len(tab.flights) > 1), tab.flights[i])
  BY DEF FailStatus, FailWith
<1>. DEFINE f == tab.flights[i]
            overlap == Len(tab.flights) > 1
            u == UntidyIf(Gone(i), overlap)
            d == tab.page.dialog
<1>3. i \in DOMAIN tab.flights /\ f.kind \in StatusKinds
  BY <1>2 DEF Pending
<1>4. tab' = StatusFailed(u, f)
  BY <1>2
<1>5. DialogPage(u) /\ FlightsSound(u) /\ u.page = tab.page
  BY <1>1, <1>3, FlightLeft
<1>6. Entries(notes') /\ Shows(d) /\ DOMAIN d = DialogFields
  BY <1>1, StatusShown DEF DInv
<1>. HIDE DEF u, f
<1>7. CASE f.kind = "rows"
  <2>1. tab' = [u EXCEPT !.page.rows = <<>>, !.page.loading = FALSE]
    BY <1>4, <1>7 DEF StatusFailed
  <2>2. tab'.flights = u.flights /\ tab'.page.dialog = d
    BY <1>5, <2>1 DEF DialogPage, TabOK, StatusFields
  <2>3. DialogOK(tab')
    BY <1>5, <1>6, <2>2 DEF DialogOK, FlightsSound
  <2>. QED
    BY <1>6, <2>3 DEF DInv
<1>8. CASE f.kind = "dialog"
  <2>. DEFINE e == [d EXCEPT !.loading = FALSE, !.error = TRUE, !.plot = None]
  <2>1. tab' = SetDialog(u, e)
    <3>1. tab' = DialogFailed(u, f)
      BY <1>4, <1>8 DEF StatusFailed
    <3>. QED
      BY <1>5, <3>1 DEF DialogFailed
  <2>2. Shows(e)
    BY <1>6 DEF Shows, DialogFields
  <2>. HIDE DEF e
  <2>3. DialogOK(tab')
    BY <1>5, <2>1, <2>2, NewDialogOK
  <2>. QED
    BY <1>6, <2>3 DEF DInv
<1>9. CASE f.kind = "save"
  <2>. DEFINE e == [d EXCEPT !.submitting = FALSE]
  <2>1. tab' = SetDialog(u, e)
    <3>1. tab' = [u EXCEPT !.page.dialog.submitting = FALSE]
      BY <1>4, <1>9 DEF StatusFailed
    <3>. QED
      BY <1>5, <3>1 DEF SetDialog
  <2>2. Shows(e)
    BY <1>6 DEF Shows, DialogFields
  <2>. HIDE DEF e
  <2>3. DialogOK(tab')
    BY <1>5, <2>1, <2>2, NewDialogOK
  <2>. QED
    BY <1>6, <2>3 DEF DInv
<1>. QED
  BY <1>3, <1>7, <1>8, <1>9 DEF StatusKinds

LEMMA StatusPageSound ==
  ASSUME IInv, DInv, OnStatusPage
  PROVE  DInv'
<1>1. tab.page.name = "status" /\ StatusNext
  BY DEF OnStatusPage, OnPage
<1>2. CASE selectProject \/ selectGroup \/ selectPlot \/ typeSearch \/ selectView
  BY <1>2, QuietSteps
<1>3. CASE onRowClick
  BY <1>3, RowClickSound
<1>4. CASE closeDialog \/ typeNewTask \/ addTask \/ removeTask \/ setTaskStatus
  BY <1>4, EditsSound
<1>5. CASE onSubmit
  BY <1>5, SubmitSound
<1>6. CASE ServeStatus
  BY <1>1, <1>6, ServeSound
<1>7. CASE LandStatus
  BY <1>7, LandSound
<1>8. CASE FailStatus
  BY <1>8, FailSound
<1>. QED
  BY <1>1, <1>2, <1>3, <1>4, <1>5, <1>6, <1>7, <1>8 DEF StatusNext

-----------------------------------------------------------------------------
(* The steps of the application                                            *)

\* The store changes: what the page keeps of the dialog does not.
LEMMA StoreTurnsDialog ==
  ASSUME NEW t, TabOK(t), DialogOK(t), t.page.name = "status" => DOMAIN t.page = StatusFields,
         NEW u, StoreTurns(t, u)
  PROVE  DialogOK(u) /\ u.page.name = t.page.name /\ DOMAIN u.page = DOMAIN t.page
<1>1. FlightsSound(u)
  BY StoreTurnsSound DEF DialogOK
<1>2. u.page.name = t.page.name /\ DOMAIN u.page = DOMAIN t.page
  BY DEF StoreTurns, TabOK
<1>3. t.page.name = "status" => u.page.dialog = t.page.dialog
  BY DEF StoreTurns, StatusFields
<1>. QED
  BY <1>1, <1>2, <1>3 DEF DialogOK

\* A page that was opened asks for the model if it is not there.
LEMMA InitSound ==
  ASSUME NEW t, TabOK(t), t.tidy => ~HasOrphan(t), DialogOK(t),
         t.page.name = "status" => DOMAIN t.page = StatusFields
  PROVE  DialogOK(modelInit(t))
<1>1. CASE Loaded(t)
  BY <1>1 DEF modelInit
<1>2. CASE ~Loaded(t)
  <2>1. modelInit(t) = modelRefresh(t)
    BY <1>2 DEF modelInit
  <2>2. StoreTurns(t, modelRefresh(t))
    BY <1>2, ModelAsked
  <2>. QED
    BY <2>1, <2>2, StoreTurnsDialog
<1>. QED
  BY <1>1, <1>2

LEMMA RouteSound ==
  ASSUME NEW t, TabOK(t), NEW failed, StoreOK(t, failed), FlightsSound(t), NEW page \in Opened
  PROVE  LET v == Route(t, page)
         IN  /\ DialogOK(v) /\ TabOK(v) /\ v.page.name = page.name
             /\ v.tidy => ~HasOrphan(v)
             /\ page = StatusPage => DialogPage(v)
<1>. DEFINE v == Route(t, page)
<1>1. Routes(t, v, page)
  BY RouteOK
<1>. HIDE DEF v
<1>2. TabOK(v) /\ v.page.name = page.name
  BY <1>1, OpenedPage DEF Routes
<1>3. FlightsSound(v)
  BY <1>1, RoutesSound
<1>4. v.tidy => ~HasOrphan(v)
  BY <1>1, RoutedStore
<1>5. page.name = "status" => page = StatusPage
  BY DEF Opened, OverviewPage, openDiagramPage, MonitoringPage
<1>6. ASSUME page = StatusPage
      PROVE  DOMAIN v.page = StatusFields /\ v.page.dialog = ClosedDialog /\ v.page.name = "status"
  BY <1>1, <1>6 DEF Routes, StatusPage, StatusFields
<1>7. Shows(ClosedDialog)
  BY DEF Shows, ClosedDialog
<1>8. DialogOK(v)
  BY <1>2, <1>3, <1>5, <1>6, <1>7 DEF DialogOK
<1>9. page = StatusPage => DialogPage(v)
  BY <1>2, <1>6 DEF DialogPage
<1>. QED
  BY <1>2, <1>4, <1>8, <1>9 DEF v

\* Whatever page is opened.
LEMMA OpenedSound ==
  ASSUME NEW t, TabOK(t), NEW failed, StoreOK(t, failed), FlightsSound(t),
         NEW u \in {openOverview(t), openModel(t), openDiagram(t), openMonitoring(t), openStatusPage(t)}
  PROVE  DialogOK(u)
<1>1. CASE u = openOverview(t)
  <2>1. OverviewPage \in Opened
    BY DEF Opened
  <2>. QED
    BY <1>1, <2>1, RouteSound DEF openOverview
<1>2. CASE u = openModel(t)
  <2>. DEFINE page == [name |-> "model", sensor |-> None]
              v == Route(t, page)
  <2>1. page \in Opened /\ page.name # "status"
    BY DEF Opened
  <2>. HIDE DEF page
  <2>2. DialogOK(v) /\ TabOK(v) /\ v.page.name = page.name /\ (v.tidy => ~HasOrphan(v))
    BY <2>1, RouteSound
  <2>. HIDE DEF v
  <2>3. DialogOK(modelInit(v))
    BY <2>1, <2>2, InitSound
  <2>. QED
    BY <1>2, <2>3 DEF openModel, v, page
<1>3. CASE u = openDiagram(t)
  <2>1. PICK v : Routes(t, v, openDiagramPage) /\ (Keeps(v, u) \/ StoreTurns(v, u))
    BY <1>3, DiagramOpened
  <2>2. TabOK(v) /\ FlightsSound(v)
    BY <2>1, RoutesSound DEF Routes
  <2>3. v.page.name = "diagram"
    BY <2>1 DEF Routes, openDiagramPage
  <2>4. DialogOK(v)
    BY <2>2, <2>3 DEF DialogOK
  <2>5. CASE Keeps(v, u)
    BY <2>2, <2>3, <2>5, KeepsSound
  <2>6. CASE StoreTurns(v, u)
    BY <2>2, <2>3, <2>4, <2>6, StoreTurnsDialog
  <2>. QED
    BY <2>1, <2>5, <2>6
<1>4. CASE u = openMonitoring(t)
  <2>1. MonitoringPage \in Opened
    BY DEF Opened
  <2>. QED
    BY <1>4, <2>1, RouteSound DEF openMonitoring
<1>5. CASE u = openStatusPage(t)
  <2>. DEFINE v == Route(t, StatusPage)
              chosen == setProject(v, AProjects[1]).page
              project == chosen.project
              group == chosen.group
              w == [v EXCEPT !.page.project = project, !.page.group = group]
  <2>1. u = IF Loaded(t) THEN refresh(w) ELSE modelInit(v)
    BY <1>5 DEF openStatusPage
  <2>2. StatusPage \in Opened
    BY DEF Opened
  <2>3. DialogOK(v) /\ DialogPage(v) /\ (v.tidy => ~HasOrphan(v))
    BY <2>2, RouteSound
  <2>. HIDE DEF v, project, group
  <2>4. /\ DOMAIN w = DOMAIN v /\ w.flights = v.flights /\ w.tidy = v.tidy
        /\ DOMAIN w.page = StatusFields
        /\ w.page.dialog = v.page.dialog /\ w.page.name = v.page.name /\ w.page.store = v.page.store
    BY <2>3 DEF DialogPage, TabOK, StatusFields
  <2>. HIDE DEF w
  <2>5. Kept(v, w)
    BY <2>3, <2>4, PageKept
  <2>6. Kept(w, refresh(w))
    BY <2>5, RowsAsked DEF Kept
  <2>7. DialogOK(refresh(w))
    BY <2>3, <2>5, <2>6, KeptTransitive, KeptOK DEF DialogPage
  <2>8. DialogOK(modelInit(v))
    BY <2>3, InitSound DEF DialogPage
  <2>. QED
    BY <2>1, <2>7, <2>8
<1>. QED
  BY <1>1, <1>2, <1>3, <1>4, <1>5

LEMMA FirstDialog == Init => DInv
<1>. SUFFICES ASSUME Init
              PROVE  DInv
  OBVIOUS
<1>1. /\ notes = FirstNotes
      /\ tab \in {Blank, openModel(Blank), openDiagram(Blank), openMonitoring(Blank), openStatusPage(Blank)}
  BY DEF Init, Blank
<1>2. FlightsSound(Blank)
  BY BlankOK DEF FlightsSound
<1>3. DialogOK(Blank)
  BY <1>2, BlankOK DEF DialogOK
<1>4. DialogOK(tab)
  BY <1>1, <1>2, <1>3, BlankOK, OpenedSound
<1>5. Entries(FirstNotes)
  <2>1. ASSUME NEW plot \in DOMAIN FirstNotes
        PROVE  IsEntry(FirstNotes[plot])
    <3>. DEFINE tasks == FirstNotes[plot]
    <3>1. \/ tasks \in {None, Text}
          \/ /\ tasks \in Seq(ToSet(tasks))
             /\ \A x \in ToSet(tasks) : DOMAIN x = {"task", "status", "id"} /\ x.id \in {None} \cup (Nat \ {0})
             /\ \A i, j \in DOMAIN tasks : tasks[i].id = tasks[j].id => i = j \/ tasks[i].id = None
      BY NotesAssumption
    <3>. HIDE DEF tasks
    <3>2. \A k \in DOMAIN tasks : tasks[k] \in ToSet(tasks)
      BY DEF ToSet
    <3>3. IsEntry(tasks)
      BY <3>1, <3>2 DEF IsEntry, TasksWith, TaskFields, Counted
    <3>. QED
      BY <3>3 DEF tasks
  <2>. QED
    BY <2>1 DEF Entries
<1>. QED
  BY <1>1, <1>4, <1>5 DEF DInv

LEMMA LandModelSound ==
  ASSUME IInv, DInv, LandModel, UNCHANGED notes
  PROVE  DInv'
<1>1. PICK v : SetOn(v)
  BY LandModelOK
<1>2. TabOK(tab) /\ DialogOK(tab) /\ Entries(notes') /\ (tab.page.name = "status" => DialogPage(tab))
  BY StatusShown DEF IInv, AllOK, DInv
<1>3. StoreTurns(tab, v)
  BY <1>1 DEF SetOn
<1>4. DialogOK(v) /\ v.page.name = tab.page.name /\ DOMAIN v.page = DOMAIN tab.page /\ TabOK(v)
  BY <1>2, <1>3, StoreTurnsDialog DEF DialogPage, StoreTurns
<1>5. CASE tab.page.name = "status"
  <2>1. tab' = setProject(v, AProjects[1])
    BY <1>1, <1>5 DEF SetOn
  <2>2. DialogPage(v)
    BY <1>2, <1>4, <1>5 DEF DialogPage
  <2>3. Kept(v, tab')
    BY <2>1, <2>2, ProjectKept
  <2>4. DialogOK(tab')
    BY <1>4, <1>5, <2>3, KeptOK
  <2>. QED
    BY <1>2, <2>4 DEF DInv
<1>6. CASE tab.page.name # "status"
  <2>1. Keeps(v, tab')
    BY <1>1, <1>6 DEF SetOn
  <2>2. DialogOK(tab')
    BY <1>4, <1>6, <2>1, KeepsSound DEF DialogOK
  <2>. QED
    BY <1>2, <2>2 DEF DInv
<1>. QED
  BY <1>5, <1>6

LEMMA OrphanSound ==
  ASSUME IInv, DInv, ServeOrphanSave
  PROVE  DInv'
<1>1. PICK i \in Pending(tab, {"orphan"}) :
        notes' \in {notes, handlePOST(tab.flights[i].key.key)} /\ tab' = Gone(i)
  BY DEF ServeOrphanSave
<1>2. TabOK(tab) /\ DialogOK(tab) /\ Entries(notes)
  BY DEF IInv, AllOK, DInv
<1>3. i \in DOMAIN tab.flights /\ tab.flights[i].kind = "orphan"
  BY DEF Pending
<1>4. tab'.page = tab.page /\ tab'.flights = RemoveAt(tab.flights, i)
  BY <1>1, <1>2, <1>3, OrphanGone
<1>5. FlightsSound(tab')
  BY <1>2, <1>3, <1>4, GoneSound DEF DialogOK
<1>6. DialogOK(tab')
  BY <1>2, <1>4, <1>5 DEF DialogOK
<1>7. IsRow(tab.flights[i].key.key)
  BY <1>2, <1>3 DEF DialogOK, FlightsSound, Sound
<1>8. Entries(notes')
  BY <1>1, <1>2, <1>7, PostedOK
<1>. QED
  BY <1>6, <1>8 DEF DInv

LEMMA DialogKept == IInv /\ DInv /\ [Next]_vars => DInv'
<1>. SUFFICES ASSUME IInv, DInv, [Next]_vars
              PROVE  DInv'
  OBVIOUS
<1>1. TabOK(tab) /\ StoreOK(tab, fails) /\ DialogOK(tab) /\ FlightsSound(tab) /\ Entries(notes)
  BY DEF IInv, AllOK, DInv, DialogOK
<1>2. tab.page.name = "status" => DOMAIN tab.page = StatusFields
  BY StatusShown DEF DialogPage
<1>3. ASSUME DialogOK(tab'), notes' = notes
      PROVE  DInv'
  BY <1>1, <1>3 DEF DInv
<1>4. CASE selectPage /\ UNCHANGED notes
  <2>1. tab' \in {openOverview(tab), openModel(tab), openDiagram(tab), openMonitoring(tab), openStatusPage(tab)}
    BY <1>4 DEF selectPage
  <2>. QED
    BY <1>1, <1>3, <1>4, <2>1, OpenedSound
<1>5. CASE selectSensorPage /\ UNCHANGED notes
  <2>1. PICK s : tab' = [tab EXCEPT !.page.sensor = s]
    BY <1>5 DEF selectSensorPage
  <2>2. tab.page.name = "model"
    BY <1>5 DEF selectSensorPage, OnPage
  <2>3. tab'.flights = tab.flights /\ tab'.page.name = "model"
    BY <1>1, <2>1, <2>2 DEF TabOK
  <2>4. DialogOK(tab')
    BY <1>1, <2>3 DEF DialogOK, FlightsSound
  <2>. QED
    BY <1>3, <1>5, <2>4
<1>6. CASE tryAgain /\ UNCHANGED notes
  <2>1. tab' = modelRefresh(tab) /\ ~Loaded(tab)
    BY <1>6 DEF tryAgain
  <2>2. tab.tidy => ~HasOrphan(tab)
    BY <1>1 DEF StoreOK
  <2>3. StoreTurns(tab, tab')
    BY <1>1, <2>1, <2>2, ModelAsked
  <2>4. DialogOK(tab')
    BY <1>1, <1>2, <2>3, StoreTurnsDialog
  <2>. QED
    BY <1>3, <1>6, <2>4
<1>7. CASE LandModel /\ UNCHANGED notes
  BY <1>7, LandModelSound
<1>8. CASE FailModel /\ UNCHANGED notes
  <2>1. PICK i \in Pending(tab, {"model"}) : tab' = setError(UntidyIf(Gone(i), Len(tab.flights) > 1))
    BY <1>8 DEF FailModel, FailWith
  <2>. DEFINE overlap == Len(tab.flights) > 1
              v == tab'
  <2>2. v = setError(UntidyIf(Gone(i), overlap))
    BY <2>1
  <2>. HIDE DEF overlap, v
  <2>3. ModelLeft(i, v)
    BY <2>2, ModelOver
  <2>4. StoreTurns(tab, v)
    BY <2>3 DEF ModelLeft
  <2>5. DialogOK(v)
    BY <1>1, <1>2, <2>4, StoreTurnsDialog
  <2>. QED
    BY <1>3, <1>8, <2>5 DEF v
<1>9. CASE OnDiagramPage /\ UNCHANGED notes
  <2>1. TabOK(tab) /\ DiagramOK(tab) /\ tab.page.name = "diagram" /\ DiagramNext
    BY <1>9 DEF IInv, AllOK, PageOK, OnDiagramPage, OnPage
  <2>2. Keeps(tab, tab')
    BY <2>1, DiagramDone DEF Done
  <2>3. DialogOK(tab')
    BY <1>1, <2>1, <2>2, KeepsSound
  <2>. QED
    BY <1>3, <1>9, <2>3
<1>10. CASE OnMonitoringPage /\ UNCHANGED notes
  <2>1. TabOK(tab) /\ MonitoringOK(tab) /\ tab.page.name = "monitoring" /\ MonitoringNext
    BY <1>10 DEF IInv, AllOK, PageOK, OnMonitoringPage, OnMonitoring, OnPage
  <2>2. Keeps(tab, tab')
    BY <2>1, MonitoringNextDone DEF MonitoringDone
  <2>3. DialogOK(tab')
    BY <1>1, <2>1, <2>2, KeepsSound
  <2>. QED
    BY <1>3, <1>10, <2>3
<1>11. CASE OnStatusPage
  BY <1>11, StatusPageSound
<1>12. CASE ServeOrphanSave
  BY <1>12, OrphanSound
<1>13. CASE UNCHANGED vars
  <2>1. tab' = tab /\ notes' = notes
    BY <1>13 DEF vars, browser
  <2>. QED
    BY <1>1, <2>1 DEF DInv
<1>. QED
  BY <1>4, <1>5, <1>6, <1>7, <1>8, <1>9, <1>10, <1>11, <1>12, <1>13 DEF Next

LEMMA AlwaysDialog == Spec => []DInv
<1>1. Init => IInv /\ DInv
  BY FirstInvariant, FirstDialog
<1>2. IInv /\ DInv /\ [Next]_vars => (IInv /\ DInv)'
  BY InvariantKept, DialogKept
<1>. QED
  BY <1>1, <1>2, PTL DEF Spec

\* A number of a task is not missing and not that of another one.
LEMMA DistinctTasks ==
  ASSUME NEW row, IsRow(row), NEW i \in DOMAIN row.tasks, NEW j \in DOMAIN row.tasks
  PROVE  row.tasks[i].id # None /\ (row.tasks[i].id = row.tasks[j].id => i = j)
<1>1. None \notin Counted
  BY NotesAssumption DEF Counted
<1>. QED
  BY <1>1 DEF IsRow, TasksWith

LEMMA DialogImplies == DInv => DialogExact
<1>. SUFFICES ASSUME DInv, OnStatus
              PROVE  DialogExact
  BY DEF DialogExact
<1>1. tab.page.name = "status"
  BY DEF OnStatus, OnPage
<1>2. Editing => tab.page.dialog.row.plot = tab.page.dialog.plot /\ IsRow(tab.page.dialog.row)
  BY <1>1 DEF DInv, DialogOK, Shows, Editing
<1>3. \A i \in Pending(tab, {"save"}) : IsRow(tab.flights[i].key)
  BY DEF DInv, DialogOK, FlightsSound, Sound, Pending
<1>. QED
  BY <1>2, <1>3, DistinctTasks DEF DialogExact

-----------------------------------------------------------------------------
(* The colours of the page for monitoring                                 *)

\* What a plot is coloured as.
Grades == {"ok", "warn", "error"}

\* The newest row of a sensor, which a cell shows and which has a part in the colour.
IsNewest(m) == m = None \/ m.age \in Int
ClassOf(column, m) == cellClass(column, m)[1]

\* A class, what it becomes with a cell, and the class of that cell.
Graded(c, new, m, k) ==
  /\ new \in Grades
  /\ m = None => new = c
  /\ m # None => /\ new = "error" <=> c = "error" \/ k = "error"
                 /\ new = "warn" <=> (c = "warn" /\ k # "error") \/ (c = "ok" /\ k = "warn")

\* One more cell: its class counts if it is worse, and not if it is missing.
LEMMA WorseOK ==
  ASSUME NEW column, column.kind \in {"datetime", "number"}, NEW m, IsNewest(m), NEW c \in Grades
  PROVE  Graded(c, Worse(c, column, m), m, ClassOf(column, m))
<1>. DEFINE new == Worse(c, column, m)
            k == ClassOf(column, m)
<1>1. ASSUME m = None PROVE Graded(c, new, m, k)
  <2>1. new = c
    BY <1>1 DEF Worse
  <2>. QED
    BY <1>1, <2>1 DEF Graded
<1>2. ASSUME m # None, column.kind = "number" PROVE Graded(c, new, m, k)
  <2>. DEFINE grade == Grade(column.sensor, m.value)
  <2>1. grade \in Grades
    BY DEF Grade, Grades
  <2>2. CASE Missing(m)
    <3>1. k = "none"
      BY <1>2, <2>2 DEF ClassOf, cellClass
    <3>2. new = c
      BY <1>2, <2>2 DEF Worse
    <3>. QED
      BY <1>2, <3>1, <3>2 DEF Grades, Graded
  <2>3. CASE ~Missing(m)
    <3>1. k = grade
      BY <1>2, <2>3 DEF ClassOf, cellClass
    <3>2. new = IF grade = "error" THEN "error" ELSE IF grade = "warn" /\ c = "ok" THEN "warn" ELSE c
      <4>. HIDE DEF grade
      <4>1. new = CASE grade = "error" -> "error" [] grade = "warn" /\ c = "ok" -> "warn" [] OTHER -> c
        BY <1>2, <2>3 DEF Worse, grade
      <4>. QED
        BY <4>1
    <3>. HIDE DEF grade, new, k
    <3>. QED
      BY <1>2, <2>1, <3>1, <3>2 DEF Grades, Graded
  <2>. QED
    BY <2>2, <2>3
<1>3. ASSUME m # None, column.kind = "datetime" PROVE Graded(c, new, m, k)
  <2>1. m.age \in Int
    BY <1>3 DEF IsNewest
  <2>2. deltaError(m.age) => deltaWarn(m.age)
    BY <2>1 DEF deltaError, deltaWarn
  <2>3. k = IF deltaError(m.age) THEN "error" ELSE IF deltaWarn(m.age) THEN "warn" ELSE "ok"
    BY <1>3 DEF ClassOf, cellClass
  <2>4. new = IF deltaError(m.age) THEN "error" ELSE IF deltaWarn(m.age) /\ c = "ok" THEN "warn" ELSE c
    BY <1>3, <2>2 DEF Worse
  <2>. HIDE DEF new, k
  <2>. QED
    BY <1>3, <2>2, <2>3, <2>4 DEF Grades, Graded
<1>. HIDE DEF new, k
<1>4. Graded(c, new, m, k)
  BY <1>1, <1>2, <1>3
<1>. QED
  BY <1>4 DEF new, k

\* The columns of a table: of sensors of the data that the set has.
LEMMA ColumnsOK ==
  ASSUME NEW p, NEW S, p.data.sensors \in Seq(S)
  PROVE  LET heads == sensorColumns(p)
         IN  /\ Len(heads) \in Nat /\ DOMAIN heads = 1..Len(heads)
             /\ \A n \in 1..Len(heads) : heads[n].kind \in {"datetime", "number"} /\ heads[n].sensor \in S
<1>. DEFINE known == Among(p.data.sensors, ToSet(SetSensors[p.set]))
            L == Len(known)
            heads == [k \in 1..(2 * L) |->
                          IF k % 2 = 1 THEN [sensor |-> known[(k + 1) \div 2], kind |-> "datetime"]
                          ELSE [sensor |-> known[k \div 2], kind |-> "number"]]
<1>1. sensorColumns(p) = heads
  BY DEF sensorColumns
<1>2. known \in Seq(S)
  BY AmongOK
<1>. HIDE DEF known
<1>3. L \in Nat /\ \A n \in 1..L : known[n] \in S
  BY <1>2, LenProperties, ElementOfSeq
<1>. HIDE DEF L
<1>4. Len(heads) = 2 * L /\ DOMAIN heads = 1..(2 * L)
  BY <1>3
<1>5. ASSUME NEW n \in 1..(2 * L)
      PROVE  heads[n].kind \in {"datetime", "number"} /\ heads[n].sensor \in S
  <2>1. CASE n % 2 = 1
    <3>1. (n + 1) \div 2 \in 1..L
      BY <1>3, <2>1
    <3>. QED
      BY <1>3, <2>1, <3>1
  <2>2. CASE n % 2 # 1
    <3>1. n \div 2 \in 1..L
      BY <1>3, <2>2
    <3>. QED
      BY <1>3, <2>2, <3>1
  <2>. QED
    BY <2>1, <2>2
<1>. HIDE DEF heads
<1>. QED
  BY <1>1, <1>3, <1>4, <1>5

\* A cell of the first n columns that is not missing has this class.
NewestOf(heads, plot, k) == Newest[plot][heads[k].sensor]
Found(heads, plot, n, grade) ==
  \E k \in 1..n : NewestOf(heads, plot, k) # None /\ ClassOf(heads[k], NewestOf(heads, plot, k)) = grade
Worst(heads, plot, n, c) ==
  /\ c \in Grades
  /\ c = "error" <=> Found(heads, plot, n, "error")
  /\ c = "warn" <=> Found(heads, plot, n, "warn") /\ ~Found(heads, plot, n, "error")

LEMMA FoundNext ==
  ASSUME NEW heads, NEW plot, NEW n \in Nat, NEW grade
  PROVE  /\ ~Found(heads, plot, 0, grade)
         /\ Found(heads, plot, n + 1, grade)
              <=> \/ Found(heads, plot, n, grade)
                  \/ /\ NewestOf(heads, plot, n + 1) # None
                     /\ ClassOf(heads[n + 1], NewestOf(heads, plot, n + 1)) = grade
<1>. DEFINE Is(k) == NewestOf(heads, plot, k) # None /\ ClassOf(heads[k], NewestOf(heads, plot, k)) = grade
<1>. SUFFICES /\ ~(\E k \in 1..0 : Is(k))
              /\ (\E k \in 1..(n + 1) : Is(k)) <=> (\E k \in 1..n : Is(k)) \/ Is(n + 1)
  BY DEF Found
<1>. HIDE DEF Is
<1>. QED
  OBVIOUS

LEMMA WorstNext ==
  ASSUME NEW heads, NEW plot, NEW n \in Nat, NEW c, Worst(heads, plot, n, c),
         heads[n + 1].kind \in {"datetime", "number"}, IsNewest(NewestOf(heads, plot, n + 1))
  PROVE  Worst(heads, plot, n + 1, Worse(c, heads[n + 1], NewestOf(heads, plot, n + 1)))
<1>. DEFINE m == NewestOf(heads, plot, n + 1)
            new == Worse(c, heads[n + 1], m)
            k == ClassOf(heads[n + 1], m)
            E == Found(heads, plot, n, "error")
            W == Found(heads, plot, n, "warn")
<1>1. c \in Grades /\ (c = "error" <=> E) /\ (c = "warn" <=> W /\ ~E)
  BY DEF Worst
<1>2. Graded(c, new, m, k)
  BY <1>1, WorseOK
<1>3. /\ Found(heads, plot, n + 1, "error") <=> E \/ (m # None /\ k = "error")
      /\ Found(heads, plot, n + 1, "warn") <=> W \/ (m # None /\ k = "warn")
  BY FoundNext
<1>. HIDE DEF m, new, k, E, W
<1>4. Worst(heads, plot, n + 1, new)
  BY <1>1, <1>2, <1>3 DEF Worst, Graded, Grades
<1>. QED
  BY <1>4 DEF new, m

\* The class of a plot is the worst of its cells that are not missing.
LEMMA WorstOfPlot ==
  ASSUME NEW p, NEW plot, Len(sensorColumns(p)) \in Nat,
         \A k \in 1..Len(sensorColumns(p)) :
           /\ sensorColumns(p)[k].kind \in {"datetime", "number"}
           /\ IsNewest(NewestOf(sensorColumns(p), plot, k))
  PROVE  Worst(sensorColumns(p), plot, Len(sensorColumns(p)), plotClass(p, plot))
<1>. DEFINE heads == sensorColumns(p)
            N == Len(heads)
            Step(f, n) == IF n = 0 THEN "ok" ELSE Worse(f[n - 1], heads[n], Newest[plot][heads[n].sensor])
            IsIt(f) == f = [n \in 0..N |-> Step(f, n)]
            Fine(f, n) == Worst(heads, plot, n, f[n])
<1>1. N \in Nat
  OBVIOUS
<1>2. ASSUME NEW f, NEW n \in 0..N, f[n] = Step(f, n), n # 0 => Fine(f, n - 1)
      PROVE  Fine(f, n)
  <2>1. CASE n = 0
    <3>. HIDE DEF heads
    <3>1. \A grade : ~Found(heads, plot, 0, grade)
      BY FoundNext
    <3>2. f[n] = "ok"
      BY <1>2, <2>1
    <3>. QED
      BY <2>1, <3>1, <3>2 DEF Worst, Grades
  <2>2. CASE n # 0
    <3>. DEFINE b == n - 1
                c == f[b]
                m == NewestOf(heads, plot, n)
    <3>1. b \in Nat /\ b + 1 = n /\ n \in 1..N
      BY <1>1, <2>2
    <3>2. f[n] = Worse(c, heads[n], m)
      BY <1>2, <2>2 DEF NewestOf
    <3>3. Worst(heads, plot, b, c)
      BY <1>2, <2>2
    <3>4. heads[n].kind \in {"datetime", "number"} /\ IsNewest(m)
      BY <3>1
    <3>. HIDE DEF b, c, heads
    <3>5. Worst(heads, plot, b + 1, Worse(c, heads[b + 1], NewestOf(heads, plot, b + 1)))
      BY <3>1, <3>3, <3>4, WorstNext
    <3>. QED
      BY <3>1, <3>2, <3>5
  <2>. QED
    BY <2>1, <2>2
<1>3. \E f : IsIt(f)
  <2>. DEFINE Up(n) == \E g : g = [m \in 0..n |-> Step(g, m)]
              Bad == {n \in 0..N : ~Up(n)}
  <2>1. SUFFICES Bad = {}
    <3>1. N \in 0..N
      BY <1>1
    <3>2. Up(N)
      <4>. HIDE DEF Up
      <4>. QED
        BY <2>1, <3>1
    <3>. QED
      BY <3>2
  <2>2. SUFFICES ASSUME Bad # {} PROVE FALSE
    OBVIOUS
  <2>3. PICK n \in Bad : n # 0 => n - 1 \in 0..N /\ n - 1 \notin Bad
    <3>1. Bad \subseteq 0..N
      OBVIOUS
    <3>. HIDE DEF Bad
    <3>. QED
      BY <2>2, FirstBad, <1>1, <3>1
  <2>4. CASE n = 0
    <3>. DEFINE g == [m \in 0..0 |-> "ok"]
    <3>1. g = [m \in 0..0 |-> Step(g, m)]
      OBVIOUS
    <3>. QED
      BY <2>3, <2>4, <3>1
  <2>5. CASE n # 0
    <3>1. n - 1 \in 0..N /\ n - 1 \notin Bad /\ n \in Nat
      <4>1. n \in 0..N
        OBVIOUS
      <4>. HIDE DEF Bad
      <4>. QED
        BY <2>3, <2>5, <1>1, <4>1
    <3>2. PICK g : g = [m \in 0..(n - 1) |-> Step(g, m)]
      <4>1. Up(n - 1)
        BY <3>1
      <4>. QED
        BY <4>1
    <3>. DEFINE h == [m \in 0..n |-> IF m = n THEN Step(g, n) ELSE g[m]]
    <3>3. \A m \in 0..n : h[m] = Step(h, m)
      <4>1. \A m \in 0..(n - 1) : g[m] = Step(g, m)
        <5>. HIDE DEF Step
        <5>. QED
          BY <3>2
      <4>2. \A m \in 0..n : m # 0 => m - 1 \in 0..(n - 1) /\ h[m - 1] = g[m - 1]
        BY <3>1
      <4>3. \A m \in 0..n : Step(h, m) = Step(g, m)
        <5>. HIDE DEF h, heads
        <5>. QED
          BY <4>2
      <4>4. \A m \in 0..n : h[m] = Step(g, m)
        <5>. HIDE DEF Step
        <5>. QED
          BY <4>1, <3>1
      <4>. QED
        BY <4>3, <4>4
    <3>4. h = [m \in 0..n |-> Step(h, m)]
      <4>1. h = [m \in 0..n |-> h[m]]
        OBVIOUS
      <4>. HIDE DEF Step, h
      <4>. QED
        BY <4>1, <3>3
    <3>. QED
      BY <3>4, <2>3
  <2>. QED
    BY <2>4, <2>5
<1>4. PICK f : IsIt(f) /\ plotClass(p, plot) = f[N]
  <2>. DEFINE c == CHOOSE f : IsIt(f)
  <2>1. IsIt(c)
    BY <1>3
  <2>2. plotClass(p, plot) = c[N]
    BY DEF plotClass
  <2>. QED
    BY <2>1, <2>2
<1>5. \A n \in 0..N : f[n] = Step(f, n)
  <2>. HIDE DEF Step
  <2>. QED
    BY <1>4
<1>6. \A n \in 0..N : Fine(f, n)
  <2>. HIDE DEF Step, IsIt, Fine
  <2>. DEFINE Bad == {n \in 0..N : ~Fine(f, n)}
  <2>1. SUFFICES ASSUME Bad # {} PROVE FALSE
    OBVIOUS
  <2>2. PICK n \in Bad : n # 0 => n - 1 \in 0..N /\ n - 1 \notin Bad
    <3>1. Bad \subseteq 0..N
      OBVIOUS
    <3>. HIDE DEF Bad
    <3>. QED
      BY <2>1, FirstBad, <1>1, <3>1
  <2>3. n # 0 => Fine(f, n - 1)
    BY <2>2
  <2>. QED
    BY <1>2, <1>5, <2>2, <2>3
<1>7. Worst(heads, plot, N, f[N])
  <2>1. N \in 0..N
    BY <1>1
  <2>. HIDE DEF N, IsIt, heads
  <2>. QED
    BY <1>6, <2>1
<1>. HIDE DEF IsIt
<1>. QED
  BY <1>4, <1>7

LEMMA PlotClassImplies == IInv => PlotClassExact
<1>. SUFFICES ASSUME IInv, HasSet, tab.page.data # None, NEW plot \in ToSet(tab.page.data.plots)
              PROVE  LET cells == {<<column, Newest[plot][column.sensor]>> : column \in ToSet(sensorColumns(tab.page))}
                         found == {cellClass(c[1], c[2])[1] : c \in {d \in cells : d[2] # None}}
                     IN  plotClass(tab.page, plot) = CASE "error" \in found -> "error"
                                                       [] "error" \notin found /\ "warn" \in found -> "warn"
                                                       [] OTHER -> "ok"
  BY DEF PlotClassExact
<1>. DEFINE p == tab.page
            heads == sensorColumns(p)
            N == Len(heads)
            cells == {<<column, Newest[plot][column.sensor]>> : column \in ToSet(heads)}
            found == {cellClass(c[1], c[2])[1] : c \in {d \in cells : d[2] # None}}
            class == plotClass(p, plot)
<1>1. PICK x \in MSets : OfSet(p.data, x)
  BY DEF IInv, AllOK, PageOK, MonitoringOK, HasSet, OnMonitoring, OnPage, OfSets, OfSome
<1>2. plot \in ToSet(SetPlots[x]) /\ p.data.sensors \in Seq(ToSet(SetSensors[x]))
  <2>1. ToSet(p.data.plots) \subseteq ToSet(SetPlots[x])
    BY <1>1, ElementOfSeq, LenProperties DEF OfSet, ToSet
  <2>. QED
    BY <1>1, <2>1 DEF OfSet
<1>3. /\ N \in Nat /\ DOMAIN heads = 1..N
      /\ \A n \in 1..N : heads[n].kind \in {"datetime", "number"} /\ heads[n].sensor \in ToSet(SetSensors[x])
  BY <1>2, ColumnsOK
<1>. HIDE DEF p, heads
<1>4. \A n \in 1..N : heads[n].kind \in {"datetime", "number"} /\ IsNewest(NewestOf(heads, plot, n))
  BY <1>2, <1>3, NewestAssumption DEF IsNewest, NewestOf
<1>5. Worst(heads, plot, N, class)
  BY <1>3, <1>4, WorstOfPlot DEF heads
<1>6. ASSUME NEW grade
      PROVE  grade \in found <=> Found(heads, plot, N, grade)
  <2>1. ASSUME grade \in found PROVE Found(heads, plot, N, grade)
    <3>1. PICK c \in cells : c[2] # None /\ cellClass(c[1], c[2])[1] = grade
      BY <2>1
    <3>2. PICK column \in ToSet(heads) : c = <<column, Newest[plot][column.sensor]>>
      BY <3>1
    <3>3. PICK k \in 1..N : column = heads[k]
      BY <1>3, <3>2 DEF ToSet
    <3>. QED
      BY <3>1, <3>2, <3>3 DEF Found, NewestOf, ClassOf
  <2>2. ASSUME Found(heads, plot, N, grade) PROVE grade \in found
    <3>1. PICK k \in 1..N : NewestOf(heads, plot, k) # None /\ ClassOf(heads[k], NewestOf(heads, plot, k)) = grade
      BY <2>2 DEF Found
    <3>. DEFINE c == <<heads[k], Newest[plot][heads[k].sensor]>>
    <3>2. heads[k] \in ToSet(heads)
      BY <1>3 DEF ToSet
    <3>3. c \in cells
      BY <3>2
    <3>4. c[2] # None /\ cellClass(c[1], c[2])[1] = grade
      BY <3>1 DEF NewestOf, ClassOf
    <3>. HIDE DEF c, cells
    <3>. QED
      BY <3>3, <3>4
  <2>. QED
    BY <2>1, <2>2
<1>. HIDE DEF found, class
<1>7. class = CASE "error" \in found -> "error"
                [] "error" \notin found /\ "warn" \in found -> "warn"
                [] OTHER -> "ok"
  <2>1. /\ class \in Grades
        /\ class = "error" <=> "error" \in found
        /\ class = "warn" <=> "warn" \in found /\ "error" \notin found
    BY <1>5, <1>6 DEF Worst
  <2>. QED
    BY <2>1 DEF Grades
<1>. QED
  BY <1>7 DEF class, found, heads, p

-----------------------------------------------------------------------------
(* The selector of the page for diagrams: what is offered                  *)

\* Lists one after the other.
FlatTo(lists, n, list) ==
  \A x : x \in ToSet(list) <=> \E k \in 1..n : x \in ToSet(lists[k])

LEMMA ConcatItems ==
  ASSUME NEW S, NEW s \in Seq(S), NEW t \in Seq(S)
  PROVE  s \o t \in Seq(S) /\ ToSet(s \o t) = ToSet(s) \cup ToSet(t)
<1>. DEFINE m == Len(s)
            n == Len(t)
            new == s \o t
<1>1. m \in Nat /\ n \in Nat /\ DOMAIN s = 1..m /\ DOMAIN t = 1..n
  BY ListItems
<1>2. /\ new \in Seq(S) /\ Len(new) = m + n
      /\ \A i \in 1..(m + n) : new[i] = IF i <= m THEN s[i] ELSE t[i - m]
  BY ConcatProperties
<1>3. DOMAIN new = 1..(m + n)
  BY <1>2, ListItems
<1>. HIDE DEF new, m, n
<1>4. ASSUME NEW x \in ToSet(new) PROVE x \in ToSet(s) \cup ToSet(t)
  <2>1. PICK i \in 1..(m + n) : x = new[i]
    BY <1>3 DEF ToSet
  <2>2. CASE i <= m
    <3>1. i \in 1..m /\ x = s[i]
      BY <1>1, <1>2, <2>1, <2>2
    <3>. QED
      BY <1>1, <3>1 DEF ToSet
  <2>3. CASE ~(i <= m)
    <3>1. i - m \in 1..n
      BY <1>1, <2>3
    <3>. QED
      BY <1>1, <1>2, <2>1, <2>3, <3>1 DEF ToSet
  <2>. QED
    BY <2>2, <2>3
<1>5. ASSUME NEW x \in ToSet(s) PROVE x \in ToSet(new)
  <2>1. PICK i \in 1..m : x = s[i]
    BY <1>1 DEF ToSet
  <2>2. i \in 1..(m + n) /\ i <= m
    BY <1>1
  <2>. QED
    BY <1>2, <1>3, <2>1, <2>2 DEF ToSet
<1>6. ASSUME NEW x \in ToSet(t) PROVE x \in ToSet(new)
  <2>1. PICK i \in 1..n : x = t[i]
    BY <1>1 DEF ToSet
  <2>2. m + i \in 1..(m + n) /\ ~(m + i <= m) /\ (m + i) - m = i
    BY <1>1
  <2>3. new[m + i] = x
    BY <1>2, <2>1, <2>2
  <2>. QED
    BY <1>3, <2>2, <2>3 DEF ToSet
<1>. QED
  BY <1>2, <1>4, <1>5, <1>6 DEF new

LEMMA FlatNext ==
  ASSUME NEW S, NEW lists, NEW n \in Nat, NEW list \in Seq(S), FlatTo(lists, n, list), lists[n + 1] \in Seq(S)
  PROVE  LET new == list \o lists[n + 1] IN new \in Seq(S) /\ FlatTo(lists, n + 1, new)
<1>. DEFINE last == lists[n + 1]
            new == list \o last
<1>1. new \in Seq(S) /\ ToSet(new) = ToSet(list) \cup ToSet(last)
  BY ConcatItems
<1>. HIDE DEF new
<1>2. \A x : x \in ToSet(new) <=> (\E k \in 1..n : x \in ToSet(lists[k])) \/ x \in ToSet(lists[n + 1])
  BY <1>1 DEF FlatTo
<1>3. FlatTo(lists, n + 1, new)
  <2>. SUFFICES ASSUME NEW x
                PROVE  x \in ToSet(new) <=> \E k \in 1..(n + 1) : x \in ToSet(lists[k])
    BY DEF FlatTo
  <2>. DEFINE In(k) == x \in ToSet(lists[k])
  <2>1. x \in ToSet(new) <=> (\E k \in 1..n : In(k)) \/ In(n + 1)
    BY <1>2
  <2>. HIDE DEF In
  <2>2. (\E k \in 1..(n + 1) : In(k)) <=> (\E k \in 1..n : In(k)) \/ In(n + 1)
    OBVIOUS
  <2>. QED
    BY <2>1, <2>2 DEF In
<1>. QED
  BY <1>1, <1>3 DEF new

LEMMA FlattenOK ==
  ASSUME NEW S, NEW n \in Nat, NEW lists, DOMAIN lists = 1..n, lists = [k \in 1..n |-> lists[k]],
         \A k \in 1..n : lists[k] \in Seq(S)
  PROVE  FlattenSeq(lists) \in Seq(S) /\ FlatTo(lists, n, FlattenSeq(lists))
<1>. DEFINE Step(f, i) == IF i = 1 THEN lists[i] ELSE f[i - 1] \o lists[i]
            IsIt(f) == f = [i \in 1..n |-> Step(f, i)]
            Fine(f, i) == f[i] \in Seq(S) /\ FlatTo(lists, i, f[i])
<1>0. lists \in Seq(Seq(S)) /\ Len(lists) = n
  <2>1. lists \in Seq(Seq(S))
    BY FunctionIsList
  <2>. QED
    BY <2>1, LenProperties
<1>1. CASE n = 0
  <2>1. lists = <<>>
    BY <1>0, <1>1, EmptySeq
  <2>2. FlattenSeq(lists) = <<>>
    BY <1>0, <1>1, <2>1 DEF FlattenSeq
  <2>3. ToSet(<<>>) = {}
    BY DEF ToSet
  <2>. DEFINE none == <<>>
  <2>4. none \in Seq(S) /\ \A k : k \notin 1..n
    BY <1>1
  <2>. HIDE DEF none
  <2>. QED
    BY <2>2, <2>3, <2>4 DEF FlatTo, none
<1>2. CASE n # 0
  <2>1. ASSUME NEW f, NEW i \in 1..n, f[i] = Step(f, i), i # 1 => Fine(f, i - 1)
        PROVE  Fine(f, i)
    <3>1. CASE i = 1
      <4>1. f[i] = lists[i]
        BY <2>1, <3>1
      <4>. QED
        BY <3>1, <4>1 DEF FlatTo
    <3>2. CASE i # 1
      <4>. DEFINE b == i - 1
                  c == f[b]
      <4>1. b \in Nat /\ b + 1 = i
        BY <3>2
      <4>2. f[i] = c \o lists[b + 1]
        BY <2>1, <3>2, <4>1
      <4>3. c \in Seq(S) /\ FlatTo(lists, b, c)
        BY <2>1, <3>2
      <4>4. lists[b + 1] \in Seq(S)
        BY <4>1
      <4>. HIDE DEF b, c
      <4>. QED
        BY <4>1, <4>2, <4>3, <4>4, FlatNext
    <3>. QED
      BY <3>1, <3>2
  <2>2. \E f : IsIt(f)
    <3>. DEFINE Up(m) == \E g : g = [i \in 1..(m + 1) |-> Step(g, i)]
                N == n - 1
                Bad == {m \in 0..N : ~Up(m)}
    <3>0. N \in Nat /\ N + 1 = n
      BY <1>2
    <3>. HIDE DEF N
    <3>1. SUFFICES Bad = {}
      <4>1. N \in 0..N
        BY <3>0
      <4>2. Up(N)
        <5>. HIDE DEF Up
        <5>. QED
          BY <3>1, <4>1
      <4>. QED
        BY <3>0, <4>2
    <3>2. SUFFICES ASSUME Bad # {} PROVE FALSE
      OBVIOUS
    <3>3. PICK m \in Bad : m # 0 => m - 1 \in 0..N /\ m - 1 \notin Bad
      <4>1. Bad \subseteq 0..N
        OBVIOUS
      <4>. HIDE DEF Bad
      <4>. QED
        BY <3>2, FirstBad, <3>0, <4>1
    <3>4. CASE m = 0
      <4>. DEFINE g == [i \in 1..(0 + 1) |-> lists[i]]
      <4>1. g = [i \in 1..(0 + 1) |-> Step(g, i)]
        OBVIOUS
      <4>. QED
        BY <3>3, <3>4, <4>1
    <3>5. CASE m # 0
      <4>1. m - 1 \in 0..N /\ m - 1 \notin Bad /\ m \in Nat
        <5>1. m \in 0..N
          OBVIOUS
        <5>. HIDE DEF Bad
        <5>. QED
          BY <3>3, <3>5, <3>0, <5>1
      <4>2. PICK g : g = [i \in 1..((m - 1) + 1) |-> Step(g, i)]
        <5>1. Up(m - 1)
          BY <4>1
        <5>. QED
          BY <5>1
      <4>. DEFINE k == m + 1
                  h == [i \in 1..k |-> IF i = k THEN Step(g, k) ELSE g[i]]
      <4>3. \A i \in 1..k : h[i] = Step(h, i)
        <5>0. (m - 1) + 1 = m /\ k \in Nat /\ k - 1 = m /\ k # 1
          BY <4>1, <3>5
        <5>. HIDE DEF k
        <5>1. \A i \in 1..m : g[i] = Step(g, i)
          <6>. HIDE DEF Step
          <6>. QED
            BY <4>2, <5>0
        <5>2. \A i \in 1..k : i # 1 => i - 1 \in 1..m /\ h[i - 1] = g[i - 1]
          BY <4>1, <5>0
        <5>3. \A i \in 1..k : Step(h, i) = Step(g, i)
          <6>. HIDE DEF h
          <6>. QED
            BY <5>2
        <5>4. \A i \in 1..k : h[i] = Step(g, i)
          <6>1. \A i \in 1..k : i = k \/ i \in 1..m
            BY <4>1, <5>0
          <6>. HIDE DEF Step
          <6>. QED
            BY <5>1, <6>1
        <5>. QED
          BY <5>3, <5>4
      <4>4. h = [i \in 1..k |-> Step(h, i)]
        <5>1. h = [i \in 1..k |-> h[i]]
          OBVIOUS
        <5>. HIDE DEF Step, h
        <5>. QED
          BY <5>1, <4>3
      <4>. QED
        BY <4>4, <3>3
    <3>. QED
      BY <3>4, <3>5
  <2>3. PICK f : IsIt(f) /\ FlattenSeq(lists) = f[n]
    <3>. DEFINE c == CHOOSE f : IsIt(f)
    <3>1. IsIt(c)
      BY ZenonT(30), <2>2
    <3>2. FlattenSeq(lists) = c[n]
      BY <1>0, <1>2 DEF FlattenSeq
    <3>. QED
      BY ZenonT(30), <3>1, <3>2
  <2>4. \A i \in 1..n : f[i] = Step(f, i)
    <3>. HIDE DEF Step
    <3>. QED
      BY <2>3
  <2>5. \A i \in 1..n : Fine(f, i)
    <3>. HIDE DEF Step, IsIt, Fine
    <3>. DEFINE Bad == {m \in 0..n : m # 0 /\ ~Fine(f, m)}
    <3>1. SUFFICES ASSUME Bad # {} PROVE FALSE
      OBVIOUS
    <3>2. PICK i \in Bad : i # 0 => i - 1 \in 0..n /\ i - 1 \notin Bad
      <4>1. Bad \subseteq 0..n
        OBVIOUS
      <4>. HIDE DEF Bad
      <4>. QED
        BY <3>1, FirstBad, <4>1
    <3>3. i \in 1..n /\ (i # 1 => Fine(f, i - 1))
      BY <3>2
    <3>. QED
      BY <2>1, <2>4, <3>2, <3>3
  <2>. HIDE DEF IsIt
  <2>. QED
    BY <1>2, <2>3, <2>5
<1>. QED
  BY <1>1, <1>2

-----------------------------------------------------------------------------
(* What is offered                                                         *)

\* A list is one of its own items, and of any set that has them.
LEMMA OfItems ==
  ASSUME NEW S, NEW s \in Seq(S), NEW T, ToSet(s) \subseteq T
  PROVE  s \in Seq(T)
<1>1. /\ Len(s) \in Nat /\ DOMAIN s = 1..Len(s)
      /\ \A i \in 1..Len(s) : s[i] \in T
  BY ListItems
<1>2. s = [k \in 1..Len(s) |-> s[k]]
  BY <1>1, SeqDef
<1>. QED
  BY <1>1, <1>2, FunctionIsList

LEMMA ItemsFinite ==
  ASSUME NEW S, NEW s \in Seq(S)
  PROVE  IsFiniteSet(ToSet(s))
<1>1. Len(s) \in Nat /\ DOMAIN s = 1..Len(s)
  BY ListItems
<1>2. s \in [1..Len(s) -> ToSet(s)]
  BY <1>1, SeqDef DEF ToSet
<1>3. s \in Surjection(1..Len(s), ToSet(s))
  BY <1>1, <1>2 DEF Surjection, ToSet
<1>. QED
  BY <1>1, <1>3, FS_NatSurjection DEF ExistsSurjection

LEMMA SetInList ==
  ASSUME NEW S, IsFiniteSet(S)
  PROVE  SetToSeq(S) \in Seq(S)
<1>. DEFINE n == Cardinality(S)
<1>1. n \in Nat /\ ExistsBijection(1..n, S)
  BY FS_CardinalityType
<1>2. \E f \in [1..n -> S] : IsInjective(f)
  BY <1>1 DEF ExistsBijection, Bijection, Injection
<1>. HIDE DEF n
<1>3. SetToSeq(S) \in [1..n -> S]
  BY <1>2 DEF SetToSeq, n
<1>. QED
  BY <1>1, <1>3, SeqDef

LEMMA AllGroupsOK == AllGroups \in Seq(ToSet(AllGroups))
<1>. DEFINE S == UNION {ToSet(AGroups[p]) : p \in ToSet(AProjects)}
            n == Len(AProjects)
            lists == [k \in 1..n |-> AGroups[AProjects[k]]]
<1>1. n \in Nat /\ DOMAIN AProjects = 1..n /\ \A k \in 1..n : AProjects[k] \in ToSet(AProjects)
  BY ProjectsAssumption, ListItems
<1>2. ASSUME NEW k \in 1..n PROVE lists[k] \in Seq(S)
  <2>. DEFINE p == AProjects[k]
  <2>1. p \in ToSet(AProjects) /\ AGroups[p] \in Seq(ToSet(AGroups[p]))
    BY <1>1, ProjectsAssumption
  <2>2. ToSet(AGroups[p]) \subseteq S
    BY <2>1
  <2>3. lists[k] = AGroups[p]
    OBVIOUS
  <2>. HIDE DEF p, S, lists
  <2>. QED
    BY <2>1, <2>2, <2>3, OfItems
<1>3. DOMAIN lists = 1..n /\ lists = [k \in 1..n |-> lists[k]] /\ AllGroups = FlattenSeq(lists)
  BY <1>1 DEF AllGroups
<1>. HIDE DEF S, n, lists
<1>4. AllGroups \in Seq(S)
  BY <1>1, <1>2, <1>3, FlattenOK
<1>. QED
  BY <1>4, OfItems

LEMMA AllPlotsOK == AllPlots \in Seq(ToSet(AllPlots))
<1>. DEFINE of(g) == ToSet(APlots[g])
            sets == {of(g) : g \in ToSet(AllGroups)}
            S == UNION sets
            n == Len(AllGroups)
            f == [k \in 1..n |-> of(AllGroups[k])]
<1>1. n \in Nat /\ DOMAIN AllGroups = 1..n
  BY AllGroupsOK, ListItems
<1>2. f \in Surjection(1..n, sets)
  <2>. HIDE DEF of, n
  <2>1. \A g : g \in ToSet(AllGroups) <=> \E k \in 1..n : g = AllGroups[k]
    BY <1>1 DEF ToSet
  <2>2. f \in [1..n -> sets]
    BY <2>1
  <2>3. \A x \in sets : \E k \in 1..n : f[k] = x
    BY <2>1
  <2>. HIDE DEF f, sets
  <2>. QED
    BY <2>2, <2>3 DEF Surjection
<1>3. IsFiniteSet(sets)
  <2>. HIDE DEF f, sets, n
  <2>. QED
    BY <1>1, <1>2, FS_NatSurjection DEF ExistsSurjection
<1>4. \A x \in sets : IsFiniteSet(x)
  BY ListsAssumption, ItemsFinite
<1>. HIDE DEF sets
<1>5. IsFiniteSet(S)
  BY <1>3, <1>4, FS_UNION
<1>6. AllPlots = SetToSeq(S)
  BY DEF AllPlots, sets
<1>7. AllPlots \in Seq(S)
  BY <1>5, <1>6, SetInList
<1>. QED
  BY <1>7, OfItems

\* The series of a plot are of that plot.
LEMMA SeriesOfPlot ==
  ASSUME NEW x \in ToSet(AllPlots)
  PROVE  LET series == plotstations(x)
         IN  /\ series \in Seq(ToSet(series)) /\ Len(series) \in Nat \ {0} /\ series[1] \in ToSet(series)
             /\ \A e \in ToSet(series) : e.plot = x
<1>. DEFINE S == {[plot |-> x, station |-> station] : station \in ToSet(AStations[x]) \cup {x, None}}
            of == AStations[x]
            n == Len(of)
            stations == [k \in 1..n |-> [plot |-> x, station |-> of[k]]]
            series == plotstations(x)
<1>1. of \in Seq(ToSet(of))
  BY ListsAssumption
<1>2. n \in Nat /\ DOMAIN of = 1..n /\ \A k \in 1..n : of[k] \in ToSet(of)
  BY <1>1, ListItems
<1>3. /\ of = <<>> => series = <<[plot |-> x, station |-> x]>>
      /\ of # <<>> /\ n = 1 => series = stations
      /\ of # <<>> /\ n # 1 => series = <<[plot |-> x, station |-> None]>> \o stations
  BY <1>2 DEF plotstations
<1>4. of # <<>> => n # 0
  BY <1>1, EmptySeq
<1>. HIDE DEF n
<1>5. stations \in Seq(S) /\ Len(stations) = n
  BY <1>2, SeqDef, LenProperties
<1>. HIDE DEF series, stations, of
<1>6. /\ [plot |-> x, station |-> x] \in S /\ [plot |-> x, station |-> None] \in S
      /\ \A e \in S : e.plot = x
  OBVIOUS
<1>. DEFINE lone == <<[plot |-> x, station |-> x]>>
            merged == <<[plot |-> x, station |-> None]>>
<1>7. lone \in Seq(S) /\ Len(lone) = 1 /\ merged \in Seq(S) /\ Len(merged) = 1
  BY <1>6
<1>. HIDE DEF S, lone, merged
<1>. DEFINE all == merged \o stations
<1>8. all \in Seq(S) /\ Len(all) = 1 + n
  <2>1. all \in Seq(S) /\ Len(all) = Len(merged) + Len(stations)
    BY <1>5, <1>7, ConcatProperties
  <2>. HIDE DEF all
  <2>. QED
    BY <1>5, <1>7, <2>1
<1>12. series = lone \/ series = all \/ (series = stations /\ n = 1)
  BY <1>3, <1>4 DEF lone, merged
<1>. HIDE DEF all
<1>9. series \in Seq(S) /\ Len(series) \in Nat \ {0}
  <2>1. CASE series = lone
    BY <1>7, <2>1
  <2>2. CASE series = all
    BY <1>2, <1>8, <2>2
  <2>3. CASE series = stations /\ n = 1
    <3>1. series \in Seq(S)
      BY <1>5, <2>3
    <3>2. Len(series) = 1
      BY <1>5, <2>3
    <3>. QED
      BY <3>1, <3>2
  <2>. QED
    BY <1>12, <2>1, <2>2, <2>3
<1>10. ToSet(series) \subseteq S /\ series[1] \in ToSet(series)
  BY <1>9, ListItems
<1>11. series \in Seq(ToSet(series))
  BY <1>9, OfItems
<1>. QED
  BY <1>6, <1>9, <1>10, <1>11 DEF series

\* What is selected is offered.
GroupsOK(s) == Chosen(s.groups) \in Seq(ToSet(groups(s)))
PlotsOK(s) == Chosen(s.plots) \in Seq(ToSet(plots(s)))
StationsOK(s) == Chosen(s.stations) \in Seq(ToSet(offeredStations(s)))
SensorsOK(s) == Chosen(s.sensors) \in Seq(ToSet(sensors(s)))

SelectionFields == {"projects", "groups", "plots", "stations", "sensors"}
SelectionOK(s) == DOMAIN s = SelectionFields /\ GroupsOK(s) /\ PlotsOK(s) /\ StationsOK(s) /\ SensorsOK(s)

\* The lists that are offered are lists.
LEMMA GroupsOffered == \A s : groups(s) \in Seq(ToSet(groups(s)))
<1>. TAKE s
<1>1. groups(s) \in Seq(ToSet(AllGroups))
  BY AllGroupsOK, AmongOK DEF groups, Offered
<1>. QED
  BY <1>1, OfItems

LEMMA PlotsOffered == \A s : plots(s) \in Seq(ToSet(plots(s))) /\ ToSet(plots(s)) \subseteq ToSet(AllPlots)
<1>. TAKE s
<1>1. plots(s) \in Seq(ToSet(AllPlots)) /\ ToSet(plots(s)) \subseteq ToSet(AllPlots)
  BY AllPlotsOK, AmongOK DEF plots, Offered
<1>. QED
  BY <1>1, OfItems

LEMMA SensorsOffered == \A s : sensors(s) \in Seq(ToSet(sensors(s)))
<1>. TAKE s
<1>1. sensors(s) \in Seq(ToSet(ASensors))
  BY ListsAssumption, AmongOK DEF sensors
<1>. QED
  BY <1>1, OfItems

LEMMA StationsOffered ==
  ASSUME NEW s, PlotsOK(s)
  PROVE  /\ offeredStations(s) \in Seq(ToSet(offeredStations(s)))
         /\ \A e : e \in ToSet(offeredStations(s)) <=> \E x \in ToSet(Chosen(s.plots)) : e \in ToSet(plotstations(x))
<1>. DEFINE now == Chosen(s.plots)
            n == Len(now)
            S == UNION {ToSet(plotstations(x)) : x \in ToSet(now)}
            lists == [k \in 1..n |-> plotstations(now[k])]
<1>1. now \in Seq(ToSet(plots(s)))
  BY DEF PlotsOK
<1>2. n \in Nat /\ DOMAIN now = 1..n /\ \A k \in 1..n : now[k] \in ToSet(now)
  BY <1>1, ListItems
<1>3. ToSet(now) \subseteq ToSet(AllPlots)
  BY <1>1, ListItems, PlotsOffered
<1>4. offeredStations(s) = FlattenSeq(lists)
  <2>1. s.plots # None => now = s.plots
    BY DEF Chosen
  <2>2. s.plots = None => now = <<>>
    BY DEF Chosen
  <2>3. [k \in DOMAIN now |-> plotstations(s.plots[k])] = lists
    <3>1. CASE s.plots # None
      BY <1>2, <2>1, <3>1
    <3>2. CASE s.plots = None
      <4>1. DOMAIN now = {} /\ 1..n = {}
        BY <1>2, <2>2, <3>2
      <4>. HIDE DEF now, n
      <4>. QED
        BY <4>1
    <3>. QED
      BY <3>1, <3>2
  <2>. QED
    BY <2>3 DEF offeredStations
<1>5. ASSUME NEW k \in 1..n PROVE lists[k] \in Seq(S)
  <2>. DEFINE series == plotstations(now[k])
  <2>1. series \in Seq(ToSet(series))
    BY <1>2, <1>3, SeriesOfPlot
  <2>2. ToSet(series) \subseteq S
    BY <1>2
  <2>3. lists[k] = series
    OBVIOUS
  <2>. HIDE DEF series, S, lists
  <2>. QED
    BY <2>1, <2>2, <2>3, OfItems
<1>6. DOMAIN lists = 1..n /\ lists = [k \in 1..n |-> lists[k]] /\ \A k \in 1..n : lists[k] = plotstations(now[k])
  OBVIOUS
<1>. HIDE DEF S, n, lists, now
<1>7. offeredStations(s) \in Seq(S) /\ FlatTo(lists, n, offeredStations(s))
  BY <1>2, <1>4, <1>5, <1>6, FlattenOK
<1>8. ASSUME NEW e
      PROVE  e \in ToSet(offeredStations(s)) <=> \E x \in ToSet(now) : e \in ToSet(plotstations(x))
  <2>1. e \in ToSet(offeredStations(s)) <=> \E k \in 1..n : e \in ToSet(plotstations(now[k]))
    BY <1>6, <1>7 DEF FlatTo
  <2>2. \A x : x \in ToSet(now) <=> \E k \in 1..n : x = now[k]
    BY <1>2 DEF ToSet
  <2>. QED
    BY <2>1, <2>2
<1>9. offeredStations(s) \in Seq(ToSet(offeredStations(s)))
  BY <1>7, OfItems
<1>. QED
  BY <1>8, <1>9 DEF now

\* The stations that are selected are of their plots, also when these go.
EntriesOK(s) == \A e \in ToSet(Chosen(s.stations)) : e \in ToSet(plotstations(e.plot))

LEMMA EntriesOfPlots ==
  ASSUME NEW s, PlotsOK(s), StationsOK(s)
  PROVE  EntriesOK(s)
<1>. SUFFICES ASSUME NEW e \in ToSet(Chosen(s.stations))
              PROVE  e \in ToSet(plotstations(e.plot))
  BY DEF EntriesOK
<1>1. e \in ToSet(offeredStations(s))
  BY ListItems DEF StationsOK
<1>2. PICK x \in ToSet(Chosen(s.plots)) : e \in ToSet(plotstations(x))
  BY <1>1, StationsOffered
<1>3. x \in ToSet(AllPlots)
  BY ListItems, PlotsOffered DEF PlotsOK
<1>4. e.plot = x
  BY <1>2, <1>3, SeriesOfPlot
<1>. QED
  BY <1>2, <1>4

-----------------------------------------------------------------------------
(* The watchers of the selector                                            *)

\* ListChoices as lists, whatever of.
Choice(model) == Chosen(model) \in Seq(ToSet(Chosen(model)))
ListChoices(s) ==
  DOMAIN s = SelectionFields /\ Choice(s.groups) /\ Choice(s.plots) /\ Choice(s.stations) /\ Choice(s.sensors)

LEMMA ListChosen ==
  ASSUME NEW S, NEW list \in Seq(S)
  PROVE  Chosen(list) \in Seq(S) /\ Choice(list) /\ Choice(None) /\ Chosen(None) \in Seq(S)
<1>1. <<>> \in Seq(S) /\ <<>> \in Seq(ToSet(<<>>))
  BY EmptySeq
<1>2. list \in Seq(ToSet(list))
  BY OfItems
<1>. QED
  BY <1>1, <1>2 DEF Chosen, Choice

LEMMA ChosenIsChoice ==
  ASSUME NEW S, NEW model, Chosen(model) \in Seq(S)
  PROVE  Choice(model)
BY OfItems DEF Choice

LEMMA WatchedOK ==
  ASSUME NEW model, Choice(model), NEW offered, offered \in Seq(ToSet(offered))
  PROVE  Chosen(Watched(model, offered)) \in Seq(ToSet(offered)) /\ Choice(Watched(model, offered))
<1>. DEFINE S == ToSet(offered)
            kept == Among(Chosen(model), S)
            new == Watched(model, offered)
<1>1. kept \in Seq(S)
  <2>1. kept \in Seq(ToSet(Chosen(model))) /\ ToSet(kept) \subseteq S
    BY AmongOK DEF Choice
  <2>. HIDE DEF kept, S
  <2>. QED
    BY <2>1, OfItems
<1>2. offered # <<>> \/ Len(offered) # 1
  OBVIOUS
<1>3. new = None \/ new = offered \/ new = kept
  BY <1>2 DEF Watched
<1>. HIDE DEF kept, new
<1>4. offered \in Seq(S)
  OBVIOUS
<1>. HIDE DEF S
<1>5. Chosen(new) \in Seq(S)
  BY <1>1, <1>3, <1>4, ListChosen
<1>. QED
  BY <1>5, ChosenIsChoice DEF new, S

\* One more or one less.
LEMMA ToggledOK ==
  ASSUME NEW S, NEW model, Chosen(model) \in Seq(S), NEW offered, offered \subseteq S, NEW v \in Toggled(model, offered)
  PROVE  Chosen(v) \in Seq(S)
<1>. DEFINE now == Chosen(model)
<1>1. CASE v = None
  BY <1>1, ListChosen
<1>2. CASE v # None
  <2>1. PICK x \in offered : v = IF x \in ToSet(now) THEN Among(now, ToSet(now) \ {x}) ELSE Append(now, x)
    BY <1>2 DEF Toggled
  <2>2. Among(now, ToSet(now) \ {x}) \in Seq(S)
    BY AmongOK
  <2>. HIDE DEF now
  <2>3. x \in S /\ now \in Seq(S)
    BY DEF now
  <2>4. Append(now, x) \in Seq(S)
    BY <2>3, AppendProperties
  <2>5. v \in Seq(S)
    BY <2>1, <2>2, <2>4
  <2>. QED
    BY <2>5, ListChosen
<1>. QED
  BY <1>1, <1>2

\* What is offered depends on the choices before it.
LEMMA SameOffers ==
  ASSUME NEW s, NEW u
  PROVE  /\ s.projects = u.projects => groups(s) = groups(u)
         /\ s.groups = u.groups => plots(s) = plots(u)
         /\ s.plots = u.plots => offeredStations(s) = offeredStations(u)
         /\ s.plots = u.plots /\ s.stations = u.stations
              => selectedPlotstations(s) = selectedPlotstations(u) /\ sensors(s) = sensors(u)
<1>1. s.plots = u.plots => offeredStations(s) = offeredStations(u)
  BY DEF offeredStations
<1>2. s.plots = u.plots /\ s.stations = u.stations => selectedPlotstations(s) = selectedPlotstations(u)
  BY <1>1 DEF selectedPlotstations, selectedPlotsHaveMultipleStations
<1>3. selectedPlotstations(s) = selectedPlotstations(u) => sensors(s) = sensors(u)
  BY DEF sensors
<1>. QED
  BY <1>1, <1>2, <1>3 DEF groups, plots

LEMMA SensorsWatched ==
  ASSUME NEW s, ListChoices(s)
  PROVE  LET u == watchSensors(s)
         IN  /\ ListChoices(u) /\ SensorsOK(u)
             /\ u.projects = s.projects /\ u.groups = s.groups /\ u.plots = s.plots /\ u.stations = s.stations
<1>. DEFINE new == Watched(s.sensors, sensors(s))
            u == watchSensors(s)
<1>1. /\ DOMAIN u = SelectionFields
      /\ u.projects = s.projects /\ u.groups = s.groups /\ u.plots = s.plots /\ u.stations = s.stations
      /\ u.sensors = new
  BY DEF watchSensors, ListChoices, SelectionFields
<1>. HIDE DEF new, u
<1>2. Chosen(new) \in Seq(ToSet(sensors(s))) /\ Choice(new)
  BY WatchedOK, SensorsOffered DEF ListChoices, new
<1>3. sensors(u) = sensors(s)
  BY <1>1, SameOffers
<1>. QED
  BY <1>1, <1>2, <1>3 DEF ListChoices, SensorsOK, u

LEMMA StationsWatched ==
  ASSUME NEW s, ListChoices(s), PlotsOK(s), EntriesOK(s), NEW old
  PROVE  LET u == watchSelectedPlots(s, old)
         IN  /\ ListChoices(u) /\ StationsOK(u)
             /\ u.projects = s.projects /\ u.groups = s.groups /\ u.plots = s.plots /\ u.sensors = s.sensors
<1>. DEFINE now == Chosen(s.plots)
            before == Chosen(s.stations)
            has(plot) == \E e \in ToSet(before) : e.plot = plot
            stay == {e \in ToSet(before) : e.plot \in ToSet(now) \cap ToSet(old)}
            come == {x \in ToSet(now) \ ToSet(old) : ~has(x)}
            kept == Among(before, stay)
            new == Among(now, come)
            n == Len(new)
            firsts == [k \in 1..n |-> FirstStation(new[k])]
            list == kept \o firsts
            T == ToSet(offeredStations(s))
            u == watchSelectedPlots(s, old)
<1>1. now \in Seq(ToSet(now)) /\ before \in Seq(ToSet(before)) /\ ToSet(now) \subseteq ToSet(AllPlots)
  <2>1. ToSet(now) \subseteq ToSet(plots(s))
    BY ListItems DEF PlotsOK
  <2>. QED
    BY <2>1, PlotsOffered DEF ListChoices, Choice
<1>2. kept \in Seq(ToSet(before)) /\ ToSet(kept) \subseteq stay
  <2>. HIDE DEF stay, before
  <2>. QED
    BY <1>1, AmongOK
<1>3. new \in Seq(ToSet(now))
  <2>. HIDE DEF come, now
  <2>. QED
    BY <1>1, AmongOK
<1>4. \A e : e \in T <=> \E x \in ToSet(now) : e \in ToSet(plotstations(x))
  BY StationsOffered
<1>5. stay \subseteq T
  BY <1>4 DEF EntriesOK
<1>6. /\ DOMAIN u = SelectionFields
      /\ u.projects = s.projects /\ u.groups = s.groups /\ u.plots = s.plots /\ u.sensors = s.sensors
      /\ u.stations = IF list = <<>> THEN None ELSE list
  <2>1. DOMAIN new = 1..n
    <3>. HIDE DEF new, now
    <3>. QED
      BY <1>3, ListItems
  <2>2. [k \in DOMAIN new |-> FirstStation(new[k])] = firsts
    <3>. HIDE DEF new, n
    <3>. QED
      BY <2>1
  <2>3. u = [s EXCEPT !.stations = IF list = <<>> THEN None ELSE list]
    <3>1. u = LET l == kept \o [k \in DOMAIN new |-> FirstStation(new[k])]
              IN  [s EXCEPT !.stations = IF l = <<>> THEN None ELSE l]
      BY DEF watchSelectedPlots
    <3>. HIDE DEF new, kept, u, firsts
    <3>. QED
      BY <2>2, <3>1
  <2>. HIDE DEF list, u
  <2>. QED
    BY <2>3 DEF ListChoices, SelectionFields
<1>. HIDE DEF u
<1>7. kept \in Seq(T)
  <2>1. ToSet(kept) \subseteq T
    BY <1>2, <1>5
  <2>. HIDE DEF kept, T, before
  <2>. QED
    BY <1>2, <2>1, OfItems
<1>. HIDE DEF kept, stay
<1>8. n \in Nat /\ \A k \in 1..n : new[k] \in ToSet(now)
  <2>. HIDE DEF new, now
  <2>1. n \in Nat /\ DOMAIN new = 1..n /\ ToSet(new) \subseteq ToSet(now) /\ \A k \in 1..n : new[k] \in ToSet(new)
    BY <1>3, ListItems
  <2>. QED
    BY <2>1
<1>. HIDE DEF new, come, n
<1>9. firsts \in Seq(T)
  <2>1. ASSUME NEW k \in 1..n PROVE firsts[k] \in T
    <3>. DEFINE x == new[k]
    <3>1. x \in ToSet(now) /\ x \in ToSet(AllPlots)
      BY <1>1, <1>8
    <3>. HIDE DEF x
    <3>2. plotstations(x)[1] \in ToSet(plotstations(x))
      BY <3>1, SeriesOfPlot
    <3>3. FirstStation(x) \in T
      BY <1>4, <3>1, <3>2 DEF FirstStation
    <3>. QED
      BY <3>3 DEF x
  <2>2. DOMAIN firsts = 1..n /\ firsts = [k \in 1..n |-> firsts[k]]
    OBVIOUS
  <2>. HIDE DEF firsts, T
  <2>. QED
    BY <1>8, <2>1, <2>2, FunctionIsList
<1>. HIDE DEF firsts, T
<1>10. list \in Seq(T)
  BY <1>7, <1>9, ConcatItems
<1>. HIDE DEF list
<1>11. Chosen(u.stations) \in Seq(T)
  BY <1>6, <1>10, ListChosen
<1>12. offeredStations(u) = offeredStations(s)
  BY <1>6, SameOffers
<1>13. Choice(u.stations)
  BY <1>11, ChosenIsChoice
<1>. QED
  BY <1>6, <1>11, <1>12, <1>13 DEF ListChoices, StationsOK, u, T

LEMMA PlotsChangedOK ==
  ASSUME NEW s, ListChoices(s), GroupsOK(s), PlotsOK(s), EntriesOK(s), NEW old
  PROVE  LET u == PlotsChanged(s, old) IN SelectionOK(u) /\ u.projects = s.projects
<1>. DEFINE a == watchSensors(s)
            b == watchSelectedPlots(a, old)
            u == watchSensors(b)
<1>1. /\ ListChoices(a)
      /\ a.projects = s.projects /\ a.groups = s.groups /\ a.plots = s.plots /\ a.stations = s.stations
  BY SensorsWatched
<1>. HIDE DEF a
<1>2. PlotsOK(a) /\ EntriesOK(a)
  BY <1>1, SameOffers DEF PlotsOK, EntriesOK
<1>3. /\ ListChoices(b) /\ StationsOK(b)
      /\ b.projects = s.projects /\ b.groups = s.groups /\ b.plots = s.plots
  BY <1>1, <1>2, StationsWatched
<1>. HIDE DEF b
<1>4. /\ ListChoices(u) /\ SensorsOK(u)
      /\ u.projects = s.projects /\ u.groups = s.groups /\ u.plots = s.plots /\ u.stations = b.stations
  BY <1>3, SensorsWatched
<1>5. u = PlotsChanged(s, old)
  BY DEF PlotsChanged, a, b
<1>. HIDE DEF u
<1>6. GroupsOK(u) /\ PlotsOK(u) /\ StationsOK(u)
  BY <1>3, <1>4, SameOffers DEF GroupsOK, PlotsOK, StationsOK
<1>. QED
  BY <1>4, <1>5, <1>6 DEF SelectionOK, ListChoices

LEMMA GroupsChangedOK ==
  ASSUME NEW s, ListChoices(s), GroupsOK(s), EntriesOK(s)
  PROVE  LET u == GroupsChanged(s) IN SelectionOK(u) /\ u.projects = s.projects
<1>. DEFINE new == Watched(s.plots, plots(s))
            a == watchPlots(s)
            old == Chosen(s.plots)
<1>1. /\ DOMAIN a = SelectionFields
      /\ a.projects = s.projects /\ a.groups = s.groups /\ a.stations = s.stations /\ a.sensors = s.sensors
      /\ a.plots = new
  BY DEF watchPlots, ListChoices, SelectionFields
<1>2. GroupsChanged(s) = PlotsChanged(a, old)
  BY DEF GroupsChanged
<1>. HIDE DEF new, a, old
<1>3. Chosen(new) \in Seq(ToSet(plots(s))) /\ Choice(new)
  BY WatchedOK, PlotsOffered DEF ListChoices, new
<1>4. ListChoices(a) /\ GroupsOK(a) /\ PlotsOK(a) /\ EntriesOK(a)
  BY <1>1, <1>3, SameOffers DEF ListChoices, GroupsOK, PlotsOK, EntriesOK
<1>. QED
  BY <1>1, <1>2, <1>4, PlotsChangedOK

LEMMA ProjectsChangedOK ==
  ASSUME NEW s, ListChoices(s), EntriesOK(s)
  PROVE  LET u == ProjectsChanged(s) IN SelectionOK(u) /\ u.projects = s.projects
<1>. DEFINE new == Watched(s.groups, groups(s))
            a == watchGroups(s)
<1>1. /\ DOMAIN a = SelectionFields
      /\ a.projects = s.projects /\ a.plots = s.plots /\ a.stations = s.stations /\ a.sensors = s.sensors
      /\ a.groups = new
  BY DEF watchGroups, ListChoices, SelectionFields
<1>2. ProjectsChanged(s) = GroupsChanged(a)
  BY DEF ProjectsChanged
<1>. HIDE DEF new, a
<1>3. Chosen(new) \in Seq(ToSet(groups(s))) /\ Choice(new)
  BY WatchedOK, GroupsOffered DEF ListChoices, new
<1>4. ListChoices(a) /\ GroupsOK(a) /\ EntriesOK(a)
  BY <1>1, <1>3, SameOffers DEF ListChoices, GroupsOK, EntriesOK
<1>. QED
  BY <1>1, <1>2, <1>4, GroupsChangedOK

\* Without a project nothing is chosen, and nothing is asked for.
AskedOf(s) == [stations |-> selectedPlotstations(s), sensors |-> Chosen(s.sensors)]
NothingAsked == [stations |-> <<>>, sensors |-> <<>>]

LEMMA NoProject ==
  ASSUME NEW s, SelectionOK(s), s.projects = None
  PROVE  AskedOf(s) = NothingAsked
<1>1. ToSet(<<>>) = {}
  BY DEF ToSet
<1>2. ASSUME NEW S, NEW list \in Seq(S), NEW set, set = {} PROVE ToSet(Among(list, set)) = {}
  BY <1>2, AmongOK
<1>3. ASSUME NEW list, list \in Seq({}) PROVE list = <<>>
  BY <1>3, EmptySeq
<1>4. Chosen(None) = <<>>
  BY DEF Chosen
<1>5. Chosen(s.groups) = <<>>
  <2>. DEFINE of == UNION {ToSet(AGroups[x]) : x \in ToSet(Chosen(s.projects))}
  <2>1. of = {}
    BY <1>1, <1>4
  <2>2. groups(s) = Among(AllGroups, of)
    BY DEF groups, Offered
  <2>. HIDE DEF of
  <2>3. ToSet(groups(s)) = {}
    BY <1>2, <2>1, <2>2, AllGroupsOK
  <2>. QED
    BY <1>3, <2>3 DEF SelectionOK, GroupsOK
<1>6. Chosen(s.plots) = <<>>
  <2>. DEFINE of == UNION {ToSet(APlots[x]) : x \in ToSet(Chosen(s.groups))}
  <2>1. of = {}
    BY <1>1, <1>5
  <2>2. plots(s) = Among(AllPlots, of)
    BY DEF plots, Offered
  <2>. HIDE DEF of
  <2>3. ToSet(plots(s)) = {}
    BY <1>2, <2>1, <2>2, AllPlotsOK
  <2>. QED
    BY <1>3, <2>3 DEF SelectionOK, PlotsOK
<1>7. selectedPlotstations(s) = <<>>
  <2>. DEFINE none == [k \in DOMAIN Chosen(s.plots) |-> FirstStation(s.plots[k])]
  <2>1. DOMAIN Chosen(s.plots) = {}
    BY <1>6
  <2>2. none = <<>>
    BY <2>1
  <2>3. ~selectedPlotsHaveMultipleStations(s)
    BY <1>1, <1>6 DEF selectedPlotsHaveMultipleStations
  <2>. QED
    BY <2>2, <2>3 DEF selectedPlotstations
<1>8. Chosen(s.sensors) = <<>>
  <2>. DEFINE of == UNION {sensorSet(e) : e \in ToSet(selectedPlotstations(s))}
  <2>1. of = {}
    BY <1>1, <1>7
  <2>2. sensors(s) = Among(ASensors, of)
    BY DEF sensors
  <2>. HIDE DEF of
  <2>3. ToSet(sensors(s)) = {}
    BY <1>2, <2>1, <2>2, ListsAssumption
  <2>. QED
    BY <1>3, <2>3 DEF SelectionOK, SensorsOK
<1>. QED
  BY <1>7, <1>8 DEF AskedOf, NothingAsked

-----------------------------------------------------------------------------
(* The steps of the selector                                               *)

LEMMA SelectionSound ==
  ASSUME NEW s, SelectionOK(s)
  PROVE  ListChoices(s) /\ EntriesOK(s)
<1>1. Choice(s.groups) /\ Choice(s.plots) /\ Choice(s.stations) /\ Choice(s.sensors)
  BY ChosenIsChoice DEF SelectionOK, GroupsOK, PlotsOK, StationsOK, SensorsOK
<1>2. EntriesOK(s)
  BY EntriesOfPlots DEF SelectionOK
<1>. QED
  BY <1>1, <1>2 DEF ListChoices, SelectionOK

\* The layout knows what is selected, and it is offered.
Reasked(u) == SelectionOK(u.page.sel) /\ u.page.asked = AskedOf(u.page.sel)

\* Something else is selected.
LEMMA SelectsTold ==
  ASSUME TabOK(tab), DiagramOK(tab), NEW S, Selects(S), \A s \in S : SelectionOK(s)
  PROVE  Reasked(tab')
<1>1. DiagramShape(tab) /\ Loaded(tab)
  BY DEF Selects, OnDiagram, OnPage, DiagramOK
<1>2. PICK s \in S : tab' = Tell([tab EXCEPT !.page.sel = s])
  BY DEF Selects
<1>. DEFINE v == [tab EXCEPT !.page.sel = s]
            u == tab'
<1>3. /\ DOMAIN v = DOMAIN tab /\ v.flights = tab.flights /\ v.tidy = tab.tidy
      /\ Rechosen(tab.page, v.page) /\ v.page.sel = s
  BY <1>1 DEF TabOK, DiagramShape, DiagramFields, Rechosen, Selected
<1>4. u = Tell(v)
  BY <1>2
<1>. HIDE DEF v, u
<1>5. DiagramShape(v) /\ TabOK(v) /\ Loaded(v)
  BY <1>1, <1>3, RechosenOK
<1>6. /\ u.page.sel = v.page.sel
      /\ u.page.asked = [stations |-> selectedPlotstations(v.page.sel), sensors |-> Chosen(v.page.sel.sensors)]
  BY <1>4, <1>5, TellOK
<1>. QED
  BY <1>2, <1>3, <1>6 DEF Reasked, AskedOf, u

LEMMA ProjectsSelected ==
  ASSUME TabOK(tab), DiagramOK(tab), SelectionOK(tab.page.sel), selectProjects
  PROVE  Reasked(tab')
<1>. DEFINE s == tab.page.sel
            S == {ProjectsChanged([s EXCEPT !.projects = v]) : v \in Toggled(s.projects, ToSet(AProjects))}
<1>1. ListChoices(s) /\ EntriesOK(s)
  BY SelectionSound
<1>2. Selects(S)
  BY DEF selectProjects
<1>. HIDE DEF s
<1>3. ASSUME NEW v PROVE SelectionOK(ProjectsChanged([s EXCEPT !.projects = v]))
  <2>. DEFINE a == [s EXCEPT !.projects = v]
  <2>1. ListChoices(a) /\ EntriesOK(a)
    BY <1>1 DEF ListChoices, EntriesOK, SelectionFields
  <2>. HIDE DEF a
  <2>2. SelectionOK(ProjectsChanged(a))
    BY <2>1, ProjectsChangedOK
  <2>. QED
    BY <2>2 DEF a
<1>4. \A a \in S : SelectionOK(a)
  BY <1>3
<1>. HIDE DEF S
<1>. QED
  BY <1>2, <1>4, SelectsTold

LEMMA GroupsSelected ==
  ASSUME TabOK(tab), DiagramOK(tab), SelectionOK(tab.page.sel), selectGroups
  PROVE  Reasked(tab')
<1>. DEFINE s == tab.page.sel
            values == Toggled(s.groups, ToSet(groups(s)))
            S == {GroupsChanged([s EXCEPT !.groups = v]) : v \in values}
<1>1. ListChoices(s) /\ EntriesOK(s) /\ GroupsOK(s)
  BY SelectionSound DEF SelectionOK
<1>2. Selects(S)
  BY DEF selectGroups
<1>. HIDE DEF s
<1>3. ASSUME NEW v \in values PROVE SelectionOK(GroupsChanged([s EXCEPT !.groups = v]))
  <2>. DEFINE a == [s EXCEPT !.groups = v]
  <2>1. Chosen(v) \in Seq(ToSet(groups(s)))
    BY <1>1, ToggledOK DEF GroupsOK
  <2>2. /\ DOMAIN a = SelectionFields /\ a.groups = v
        /\ a.projects = s.projects /\ a.plots = s.plots /\ a.stations = s.stations /\ a.sensors = s.sensors
    BY <1>1 DEF ListChoices, SelectionFields
  <2>. HIDE DEF a, values
  <2>3. groups(a) = groups(s) /\ Choice(v)
    BY <2>1, <2>2, SameOffers, ChosenIsChoice
  <2>4. ListChoices(a) /\ EntriesOK(a) /\ GroupsOK(a)
    BY <1>1, <2>1, <2>2, <2>3 DEF ListChoices, EntriesOK, GroupsOK
  <2>5. SelectionOK(GroupsChanged(a))
    BY <2>4, GroupsChangedOK
  <2>. QED
    BY <2>5 DEF a
<1>. HIDE DEF values
<1>4. \A a \in S : SelectionOK(a)
  BY <1>3
<1>. HIDE DEF S
<1>. QED
  BY <1>2, <1>4, SelectsTold

LEMMA PlotsSelected ==
  ASSUME TabOK(tab), DiagramOK(tab), SelectionOK(tab.page.sel), selectPlots
  PROVE  Reasked(tab')
<1>. DEFINE s == tab.page.sel
            old == Chosen(s.plots)
            values == Toggled(s.plots, ToSet(plots(s)))
            S == {PlotsChanged([s EXCEPT !.plots = v], old) : v \in values}
<1>1. ListChoices(s) /\ EntriesOK(s) /\ GroupsOK(s) /\ PlotsOK(s)
  BY SelectionSound DEF SelectionOK
<1>2. Selects(S)
  BY DEF selectPlots
<1>. HIDE DEF s, old
<1>3. ASSUME NEW v \in values PROVE SelectionOK(PlotsChanged([s EXCEPT !.plots = v], old))
  <2>. DEFINE a == [s EXCEPT !.plots = v]
  <2>1. Chosen(v) \in Seq(ToSet(plots(s)))
    BY <1>1, ToggledOK DEF PlotsOK
  <2>2. /\ DOMAIN a = SelectionFields /\ a.plots = v
        /\ a.projects = s.projects /\ a.groups = s.groups /\ a.stations = s.stations /\ a.sensors = s.sensors
    BY <1>1 DEF ListChoices, SelectionFields
  <2>. HIDE DEF a, values
  <2>3. groups(a) = groups(s) /\ plots(a) = plots(s) /\ Choice(v)
    BY <2>1, <2>2, SameOffers, ChosenIsChoice
  <2>4. ListChoices(a) /\ EntriesOK(a) /\ GroupsOK(a) /\ PlotsOK(a)
    BY <1>1, <2>1, <2>2, <2>3 DEF ListChoices, EntriesOK, GroupsOK, PlotsOK
  <2>5. SelectionOK(PlotsChanged(a, old))
    BY <2>4, PlotsChangedOK
  <2>. QED
    BY <2>5 DEF a
<1>. HIDE DEF values
<1>4. \A a \in S : SelectionOK(a)
  BY <1>3
<1>. HIDE DEF S
<1>. QED
  BY <1>2, <1>4, SelectsTold

LEMMA StationsSelected ==
  ASSUME TabOK(tab), DiagramOK(tab), SelectionOK(tab.page.sel), selectStations
  PROVE  Reasked(tab')
<1>. DEFINE s == tab.page.sel
            values == Toggled(s.stations, ToSet(offeredStations(s)))
            S == {watchSensors([s EXCEPT !.stations = v]) : v \in values}
<1>1. ListChoices(s) /\ GroupsOK(s) /\ PlotsOK(s) /\ StationsOK(s)
  BY SelectionSound DEF SelectionOK
<1>2. Selects(S)
  BY DEF selectStations
<1>. HIDE DEF s
<1>3. ASSUME NEW v \in values PROVE SelectionOK(watchSensors([s EXCEPT !.stations = v]))
  <2>. DEFINE a == [s EXCEPT !.stations = v]
              u == watchSensors(a)
  <2>1. Chosen(v) \in Seq(ToSet(offeredStations(s)))
    BY <1>1, ToggledOK DEF StationsOK
  <2>2. /\ DOMAIN a = SelectionFields /\ a.stations = v
        /\ a.projects = s.projects /\ a.groups = s.groups /\ a.plots = s.plots /\ a.sensors = s.sensors
    BY <1>1 DEF ListChoices, SelectionFields
  <2>. HIDE DEF a, values
  <2>3. ListChoices(a)
    BY <1>1, <2>1, <2>2, ChosenIsChoice DEF ListChoices
  <2>4. /\ ListChoices(u) /\ SensorsOK(u)
        /\ u.projects = a.projects /\ u.groups = a.groups /\ u.plots = a.plots /\ u.stations = a.stations
    BY <2>3, SensorsWatched
  <2>. HIDE DEF u
  <2>5. groups(u) = groups(s) /\ plots(u) = plots(s) /\ offeredStations(u) = offeredStations(s)
    BY <2>2, <2>4, SameOffers
  <2>6. SelectionOK(u)
    BY <1>1, <2>1, <2>2, <2>4, <2>5 DEF SelectionOK, ListChoices, GroupsOK, PlotsOK, StationsOK
  <2>. QED
    BY <2>6 DEF u, a
<1>. HIDE DEF values
<1>4. \A a \in S : SelectionOK(a)
  BY <1>3
<1>. HIDE DEF S
<1>. QED
  BY <1>2, <1>4, SelectsTold

\* Other sensors of those that are offered.
LEMMA OtherSensors ==
  ASSUME NEW s, SelectionOK(s), NEW v, Chosen(v) \in Seq(ToSet(sensors(s)))
  PROVE  SelectionOK([s EXCEPT !.sensors = v])
<1>. DEFINE a == [s EXCEPT !.sensors = v]
<1>1. /\ DOMAIN a = SelectionFields /\ a.sensors = v
      /\ a.projects = s.projects /\ a.groups = s.groups /\ a.plots = s.plots /\ a.stations = s.stations
  BY DEF SelectionOK, SelectionFields
<1>. HIDE DEF a
<1>2. /\ groups(a) = groups(s) /\ plots(a) = plots(s) /\ offeredStations(a) = offeredStations(s)
      /\ sensors(a) = sensors(s)
  BY <1>1, SameOffers
<1>3. SelectionOK(a)
  BY <1>1, <1>2 DEF SelectionOK, GroupsOK, PlotsOK, StationsOK, SensorsOK
<1>. QED
  BY <1>3 DEF a

LEMMA SensorsSelected ==
  ASSUME TabOK(tab), DiagramOK(tab), SelectionOK(tab.page.sel), selectSensors
  PROVE  Reasked(tab')
<1>. DEFINE s == tab.page.sel
            can == {x \in ToSet(sensors(s)) : ~disabled(tab.page.aggregation, x)}
            values == Toggled(s.sensors, can)
            S == {[s EXCEPT !.sensors = v] : v \in values}
<1>1. SelectionOK(s) /\ SensorsOK(s)
  BY DEF SelectionOK
<1>2. Selects(S)
  BY DEF selectSensors
<1>3. can \subseteq ToSet(sensors(s))
  OBVIOUS
<1>. HIDE DEF s, can
<1>4. ASSUME NEW v \in values PROVE SelectionOK([s EXCEPT !.sensors = v])
  <2>1. Chosen(v) \in Seq(ToSet(sensors(s)))
    BY <1>1, <1>3, ToggledOK DEF SensorsOK
  <2>. QED
    BY <1>1, <2>1, OtherSensors
<1>. HIDE DEF values
<1>5. \A a \in S : SelectionOK(a)
  BY <1>4
<1>. HIDE DEF S
<1>. QED
  BY <1>2, <1>5, SelectsTold

LEMMA AggregationSelected ==
  ASSUME TabOK(tab), DiagramOK(tab), SelectionOK(tab.page.sel), selectAggregation
  PROVE  SameSelection(tab, tab') \/ Reasked(tab')
<1>1. SameSelection(tab, tab') \/ DropsSensors(tab, tab')
  BY AggregationDone
<1>2. ASSUME DropsSensors(tab, tab') PROVE Reasked(tab')
  <2>. DEFINE s == tab.page.sel
              model == s.sensors
              kept == Aggregated(model)
  <2>1. model # None /\ tab'.page.sel = [s EXCEPT !.sensors = kept]
    <3>1. DOMAIN s = SelectionFields
      BY DEF SelectionOK
    <3>. QED
      BY <1>2, <3>1 DEF DropsSensors, SelectionFields
  <2>2. model \in Seq(ToSet(sensors(s)))
    BY <2>1 DEF SelectionOK, SensorsOK, Chosen
  <2>. HIDE DEF model
  <2>3. kept \in Seq(ToSet(sensors(s)))
    <3>. DEFINE set == {x \in ToSet(model) : AggregationsOf[x] # {}}
    <3>1. kept = Among(model, set)
      BY DEF Aggregated
    <3>. HIDE DEF set, kept
    <3>. QED
      BY <2>2, <3>1, AmongOK
  <2>. HIDE DEF kept
  <2>4. SelectionOK([s EXCEPT !.sensors = kept])
    BY <2>3, ListChosen, OtherSensors
  <2>. QED
    BY <1>2, <2>1, <2>4 DEF Reasked, AskedOf, DropsSensors
<1>. QED
  BY <1>1, <1>2

\* The other steps leave the selection alone.
LEMMA SetsQuiet ==
  ASSUME TabOK(tab), DiagramOK(tab), NEW S, Sets(S),
         \A p \in S : Rechosen(tab.page, p) /\ p.sel = tab.page.sel /\ p.asked = tab.page.asked
  PROVE  SameSelection(tab, tab')
<1>1. DiagramShape(tab) /\ Loaded(tab)
  BY DEF Sets, OnDiagram, OnPage, DiagramOK
<1>2. PICK p \in S : tab' = requestData([tab EXCEPT !.page = p])
  BY DEF Sets
<1>. DEFINE v == [tab EXCEPT !.page = p]
            u == tab'
<1>3. /\ DOMAIN v = DOMAIN tab /\ v.flights = tab.flights /\ v.tidy = tab.tidy /\ v.page = p
  BY DEF TabOK
<1>4. u = requestData(v)
  BY <1>2
<1>. HIDE DEF v, u
<1>5. DiagramShape(v) /\ TabOK(v) /\ Loaded(v)
  BY <1>1, <1>2, <1>3, RechosenOK
<1>6. \A x \in Selected : u.page[x] = v.page[x]
  BY <1>4, <1>5, RequestOK
<1>7. u.page.sel = v.page.sel /\ u.page.asked = v.page.asked
  BY <1>6 DEF Selected
<1>. QED
  BY <1>2, <1>3, <1>7 DEF SameSelection, u

LEMMA QualityQuiet ==
  ASSUME TabOK(tab), DiagramOK(tab), selectQuality \/ selectInterpolation \/ enterTime
  PROVE  SameSelection(tab, tab')
<1>1. DOMAIN tab.page = DiagramFields
  BY DEF selectQuality, selectInterpolation, enterTime, Sets, OnDiagram, OnPage, DiagramOK, DiagramShape
<1>. DEFINE Fine(p) == Rechosen(tab.page, p) /\ p.sel = tab.page.sel /\ p.asked = tab.page.asked
<1>2. \A v : \A x \in {"quality", "interpolation", "start", "end"} : Fine([tab.page EXCEPT ![x] = v])
  BY <1>1 DEF Rechosen, Selected, DiagramFields
<1>3. CASE selectQuality
  <2>. DEFINE values == {"none", "step", "empirical"} \ {q \in {"empirical"} : tab.page.aggregation = "none"}
              S == {[tab.page EXCEPT !.quality = v] : v \in values}
  <2>1. Sets(S)
    BY <1>3 DEF selectQuality
  <2>2. \A p \in S : Fine(p)
    <3>. HIDE DEF Fine
    <3>. QED
      BY <1>2
  <2>. HIDE DEF S
  <2>. QED
    BY <2>1, <2>2, SetsQuiet
<1>4. CASE selectInterpolation
  <2>. DEFINE S == {[tab.page EXCEPT !.interpolation = ~@]}
  <2>1. Sets(S)
    BY <1>4 DEF selectInterpolation
  <2>2. \A p \in S : Fine(p)
    <3>. HIDE DEF Fine
    <3>. QED
      BY <1>2
  <2>. HIDE DEF S
  <2>. QED
    BY <2>1, <2>2, SetsQuiet
<1>5. CASE enterTime
  <2>. DEFINE S == {[tab.page EXCEPT !.start = v] : v \in {None, 1}} \cup {[tab.page EXCEPT !.end = v] : v \in {None, 1}}
  <2>1. Sets(S)
    BY <1>5 DEF enterTime
  <2>2. \A p \in S : Fine(p)
    <3>. HIDE DEF Fine
    <3>. QED
      BY <1>2
  <2>. HIDE DEF S
  <2>. QED
    BY <2>1, <2>2, SetsQuiet
<1>. QED
  BY <1>3, <1>4, <1>5

LEMMA HighQualityQuiet ==
  ASSUME TabOK(tab), DiagramOK(tab), selectHighQuality
  PROVE  SameSelection(tab, tab')
<1>1. DOMAIN tab.page = DiagramFields
  BY DEF selectHighQuality, OnDiagram, OnPage, DiagramOK, DiagramShape
<1>2. tab' = createDiagram([tab EXCEPT !.page.hq = ~@], tab.page.data)
  BY DEF selectHighQuality
<1>. QED
  BY <1>1, <1>2 DEF TabOK, createDiagram, DiagramFields, SameSelection

\* A diagram that is created anew shows other data for the same selection.
LEMMA CreatedQuiet ==
  ASSUME NEW v, NEW data, DOMAIN v = {"page", "flights", "tidy"}, DOMAIN v.page = DiagramFields
  PROVE  SameSelection(v, createDiagram(v, data))
BY DEF createDiagram, DiagramFields, SameSelection

LEMMA QueryQuiet ==
  ASSUME TabOK(tab), DiagramOK(tab), LandQuery \/ FailQuery
  PROVE  SameSelection(tab, tab')
<1>1. DiagramShape(tab) /\ DOMAIN tab.page = DiagramFields
  BY DEF LandQuery, FailQuery, OnDiagram, OnPage, DiagramOK, DiagramShape
<1>2. PICK i \in Queries(tab) : \E overlap, e :
        tab' \in {QueryLanded(UntidyIf(Gone(i), overlap), e), QueryFailed(UntidyIf(Gone(i), overlap), e)}
  BY DEF LandQuery, FailQuery, LandWith, FailWith, Queries
<1>3. PICK overlap, e :
        tab' \in {QueryLanded(UntidyIf(Gone(i), overlap), e), QueryFailed(UntidyIf(Gone(i), overlap), e)}
  BY <1>2
<1>. DEFINE u == UntidyIf(Gone(i), overlap)
            w == tab'
<1>4. u.page = tab.page /\ DOMAIN u = DOMAIN tab
  BY <1>1, QueryGone
<1>5. w = QueryLanded(u, e) \/ w = QueryFailed(u, e)
  BY <1>3
<1>. HIDE DEF u, w
<1>6. DOMAIN u = {"page", "flights", "tidy"} /\ DOMAIN u.page = DiagramFields
  BY <1>1, <1>4 DEF TabOK
<1>7. SameSelection(u, w)
  <2>1. CASE e.key.n < u.page.sent
    BY <1>5, <2>1 DEF QueryLanded, QueryFailed, SameSelection
  <2>2. CASE ~(e.key.n < u.page.sent)
    <3>. DEFINE got == [u EXCEPT !.page.received = e.key.n]
                lost == [u EXCEPT !.page.received = e.key.n, !.page.error = TRUE]
                data == [list |-> e.key.list, settings |-> e.key.settings]
    <3>1. DOMAIN got = {"page", "flights", "tidy"} /\ DOMAIN got.page = DiagramFields /\ SameSelection(u, got)
      BY <1>6 DEF DiagramFields, SameSelection
    <3>2. DOMAIN lost = {"page", "flights", "tidy"} /\ DOMAIN lost.page = DiagramFields /\ SameSelection(u, lost)
      BY <1>6 DEF DiagramFields, SameSelection
    <3>3. w = createDiagram(got, data) \/ w = createDiagram(lost, None)
      BY <1>5, <2>2 DEF QueryLanded, QueryFailed
    <3>. HIDE DEF got, lost, data
    <3>4. SameSelection(got, createDiagram(got, data)) /\ SameSelection(lost, createDiagram(lost, None))
      BY <3>1, <3>2, CreatedQuiet
    <3>. QED
      BY <3>1, <3>2, <3>3, <3>4 DEF SameSelection
  <2>. QED
    BY <2>1, <2>2
<1>. QED
  BY <1>4, <1>7 DEF SameSelection, w

LEMMA WindowQuiet ==
  ASSUME TabOK(tab), DiagramOK(tab), wheelZoom \/ touchZoom \/ drag
  PROVE  SameSelection(tab, tab')
<1>1. PICK S, wheel : ZoomsTo(S, wheel)
  BY DEF wheelZoom, touchZoom, drag
<1>2. DOMAIN tab.page = DiagramFields
  BY <1>1 DEF ZoomsTo, OnDiagram, OnPage, DiagramOK, DiagramShape
<1>3. PICK w \in S : tab' = [tab EXCEPT !.page.window = w, !.page.zoomed = wheel]
  BY <1>1 DEF ZoomsTo
<1>. QED
  BY <1>2, <1>3 DEF TabOK, DiagramFields, SameSelection

LEMMA DiagramSelects ==
  ASSUME TabOK(tab), DiagramOK(tab), SelectionOK(tab.page.sel), DiagramNext
  PROVE  SameSelection(tab, tab') \/ Reasked(tab')
<1>1. CASE selectProjects
  BY <1>1, ProjectsSelected
<1>2. CASE selectGroups
  BY <1>2, GroupsSelected
<1>3. CASE selectPlots
  BY <1>3, PlotsSelected
<1>4. CASE selectStations
  BY <1>4, StationsSelected
<1>5. CASE selectSensors
  BY <1>5, SensorsSelected
<1>6. CASE selectAggregation
  BY <1>6, AggregationSelected
<1>7. CASE selectQuality \/ selectInterpolation \/ enterTime
  BY <1>7, QualityQuiet
<1>8. CASE selectHighQuality
  BY <1>8, HighQualityQuiet
<1>9. CASE LandQuery \/ FailQuery
  BY <1>9, QueryQuiet
<1>10. CASE wheelZoom \/ touchZoom \/ drag
  BY <1>10, WindowQuiet
<1>. QED
  BY <1>1, <1>2, <1>3, <1>4, <1>5, <1>6, <1>7, <1>8, <1>9, <1>10 DEF DiagramNext

-----------------------------------------------------------------------------
(* The selector in the application                                         *)

\* What is selected is offered, and the layout knows it.
Selecting(p) == SelectionOK(p.sel) /\ (Len(AProjects) > 1 => p.asked = AskedOf(p.sel))

SelectorOK(t) ==
  t.page.name = "diagram" =>
    IF Loaded(t) THEN Selecting(t.page) ELSE t.page.sel = NoSelection /\ t.page.asked = NothingAsked

SInv == SelectorOK(tab)

\* The watchers begin with the projects.
LEMMA ProjectsWatched ==
  ASSUME NEW s, ListChoices(s), EntriesOK(s)
  PROVE  SelectionOK(ProjectsChanged(watchProjects(s)))
<1>. DEFINE a == watchProjects(s)
<1>1. /\ DOMAIN a = SelectionFields
      /\ a.groups = s.groups /\ a.plots = s.plots /\ a.stations = s.stations /\ a.sensors = s.sensors
  BY DEF watchProjects, ListChoices, SelectionFields
<1>. HIDE DEF a
<1>2. ListChoices(a) /\ EntriesOK(a)
  BY <1>1 DEF ListChoices, EntriesOK
<1>3. SelectionOK(ProjectsChanged(a))
  BY <1>2, ProjectsChangedOK
<1>. QED
  BY <1>3 DEF a

\* What is selected by itself, and that nothing has to be asked for if there are several
\* projects.
LEMMA FirstSelection ==
  LET s == ProjectsChanged(watchProjects(NoSelection))
  IN  SelectionOK(s) /\ (Len(AProjects) > 1 => AskedOf(s) = NothingAsked)
<1>. DEFINE a == watchProjects(NoSelection)
            s == ProjectsChanged(a)
<1>1. /\ DOMAIN a = SelectionFields
      /\ a.groups = None /\ a.plots = None /\ a.stations = None /\ a.sensors = None
      /\ a.projects = IF Len(AProjects) = 1 THEN AProjects ELSE None
  BY DEF watchProjects, NoSelection, SelectionFields
<1>. HIDE DEF a
<1>2. Chosen(None) = <<>> /\ <<>> \in Seq(ToSet(<<>>)) /\ ToSet(<<>>) = {}
  BY EmptySeq DEF Chosen, ToSet
<1>3. ListChoices(a) /\ EntriesOK(a)
  BY <1>1, <1>2 DEF ListChoices, Choice, EntriesOK
<1>4. SelectionOK(s) /\ s.projects = a.projects
  BY <1>3, ProjectsChangedOK
<1>. HIDE DEF s
<1>5. ASSUME Len(AProjects) > 1
      PROVE  AskedOf(s) = NothingAsked
  <2>1. Len(AProjects) # 1
    BY <1>5
  <2>2. s.projects = None
    BY <1>1, <1>4, <2>1
  <2>. QED
    BY <1>4, <2>2, NoProject
<1>. QED
  BY <1>4, <1>5 DEF s, a

LEMMA Mounted ==
  ASSUME NEW t, TabOK(t), DiagramShape(t), Loaded(t), t.page.asked = NothingAsked
  PROVE  Selecting(mountSelector(t).page)
<1>. DEFINE s == ProjectsChanged(watchProjects(NoSelection))
            v == [t EXCEPT !.page.sel = s]
            asks == selectedPlotsHaveMultipleStations(s) /\ s.sensors # None
            u == mountSelector(t)
<1>1. u = IF asks THEN Tell(v) ELSE v
  BY DEF mountSelector
<1>2. SelectionOK(s) /\ (Len(AProjects) > 1 => AskedOf(s) = NothingAsked)
  BY FirstSelection
<1>. HIDE DEF s, asks, u
<1>3. /\ DOMAIN v = DOMAIN t /\ v.flights = t.flights /\ v.tidy = t.tidy
      /\ Rechosen(t.page, v.page) /\ v.page.sel = s /\ v.page.asked = t.page.asked
  BY DEF TabOK, DiagramShape, DiagramFields, Rechosen, Selected
<1>. HIDE DEF v
<1>4. CASE asks
  <2>1. DiagramShape(v) /\ TabOK(v) /\ Loaded(v)
    BY <1>3, RechosenOK
  <2>2. u = Tell(v)
    BY <1>1, <1>4
  <2>3. /\ u.page.sel = v.page.sel
        /\ u.page.asked = [stations |-> selectedPlotstations(v.page.sel), sensors |-> Chosen(v.page.sel.sensors)]
    BY <2>1, <2>2, TellOK
  <2>4. Selecting(u.page)
    BY <1>2, <1>3, <2>3 DEF Selecting, AskedOf
  <2>. QED
    BY <2>4 DEF u
<1>5. CASE ~asks
  <2>1. u = v
    BY <1>1, <1>5
  <2>2. Selecting(u.page)
    BY <1>2, <1>3, <2>1 DEF Selecting
  <2>. QED
    BY <2>2 DEF u
<1>. QED
  BY <1>4, <1>5

\* Another model.
LEMMA AnotherModel ==
  ASSUME NEW t, TabOK(t), DiagramShape(t), Loaded(t), SelectionOK(t.page.sel)
  PROVE  Reasked(DiagramModelSet(t, FALSE))
<1>. DEFINE a == requestData(t)
            s == ProjectsChanged(watchProjects(t.page.sel))
            v == [a EXCEPT !.page.sel = s]
            u == Tell(v)
<1>1. DiagramModelSet(t, FALSE) = u
  BY DEF DiagramModelSet
<1>2. SelectionOK(s)
  BY SelectionSound, ProjectsWatched
<1>3. Keeps(t, a) /\ DiagramShape(a)
  BY RequestOK
<1>. HIDE DEF a, s
<1>4. TabOK(a) /\ Loaded(a)
  BY <1>3 DEF Keeps, Loaded
<1>5. /\ DOMAIN v = DOMAIN a /\ v.flights = a.flights /\ v.tidy = a.tidy
      /\ Rechosen(a.page, v.page) /\ v.page.sel = s
  BY <1>3, <1>4 DEF TabOK, DiagramShape, DiagramFields, Rechosen, Selected
<1>. HIDE DEF v
<1>6. DiagramShape(v) /\ TabOK(v) /\ Loaded(v)
  BY <1>3, <1>4, <1>5, RechosenOK
<1>7. /\ u.page.sel = v.page.sel
      /\ u.page.asked = [stations |-> selectedPlotstations(v.page.sel), sensors |-> Chosen(v.page.sel.sensors)]
  BY <1>6, TellOK
<1>. HIDE DEF u
<1>8. Reasked(u)
  BY <1>2, <1>5, <1>7 DEF Reasked, AskedOf
<1>. QED
  BY <1>1, <1>8

\* A page that was opened.
LEMMA SelectorOpened ==
  ASSUME NEW t, TabOK(t), NEW failed, StoreOK(t, failed),
         NEW u \in {openOverview(t), openModel(t), openDiagram(t), openMonitoring(t), openStatusPage(t)}
  PROVE  SelectorOK(u)
<1>0. t.tidy => ~HasOrphan(t)
  BY DEF StoreOK
<1>1. CASE u = openOverview(t)
  <2>1. Routes(t, u, OverviewPage)
    BY <1>1, RouteOK DEF openOverview, Opened
  <2>2. u.page.name # "diagram"
    BY <2>1 DEF Routes, OverviewPage
  <2>. QED
    BY <2>2 DEF SelectorOK
<1>2. CASE u = openModel(t)
  <2>. DEFINE page == [name |-> "model", sensor |-> None]
              v == Route(t, page)
  <2>1. Routes(t, v, page)
    BY RouteOK DEF Opened
  <2>2. u = modelInit(v)
    BY <1>2 DEF openModel
  <2>. HIDE DEF v
  <2>3. TabOK(v) /\ v.page.name = "model"
    BY <2>1 DEF Routes
  <2>4. v.tidy => ~HasOrphan(v)
    BY <2>1, RoutedStore
  <2>5. u.page.name = "model"
    <3>1. CASE Loaded(v)
      BY <2>2, <2>3, <3>1 DEF modelInit
    <3>2. CASE ~Loaded(v)
      <4>1. u = modelRefresh(v)
        BY <2>2, <3>2 DEF modelInit
      <4>2. StoreTurns(v, u)
        BY <2>3, <2>4, <3>2, <4>1, ModelAsked
      <4>. QED
        BY <2>3, <4>2 DEF StoreTurns, TabOK
    <3>. QED
      BY <3>1, <3>2
  <2>. QED
    BY <2>5 DEF SelectorOK
<1>3. CASE u = openDiagram(t)
  <2>. DEFINE v == Route(t, openDiagramPage)
  <2>1. Routes(t, v, openDiagramPage)
    BY RouteOK DEF Opened
  <2>2. u = IF Loaded(t) THEN mountSelector(v) ELSE modelInit(v)
    BY <1>3 DEF openDiagram
  <2>. HIDE DEF v
  <2>3. /\ TabOK(v) /\ v.page.name = "diagram"
        /\ DOMAIN v.page = DiagramFields
        /\ v.page.sent = 0 /\ v.page.received = 0 /\ v.page.error = TRUE
        /\ v.page.window = None /\ v.page.zoomed = FALSE
        /\ v.page.sel = NoSelection /\ v.page.asked = NothingAsked
    BY <2>1 DEF Routes, openDiagramPage, DiagramFields, NothingAsked
  <2>4. (v.tidy => ~HasOrphan(v)) /\ (Loaded(v) <=> Loaded(t))
    BY <2>1, RoutedStore
  <2>5. CASE Loaded(t)
    <3>1. ~HasKind(v.flights, {"query"})
      BY <2>1, NoneLeft DEF Apart
    <3>2. WindowOK(v.page) /\ Unasked(v.page)
      BY <2>3 DEF WindowOK, Unasked
    <3>3. DiagramShape(v)
      BY <2>3, <3>1, <3>2, UnaskedShape
    <3>4. Done(v, mountSelector(v))
      BY <2>3, <2>4, <2>5, <3>2, <3>3, MountDone
    <3>5. Loaded(u)
      BY <2>2, <2>4, <2>5, <3>4 DEF Done, Keeps, Loaded
    <3>6. Selecting(mountSelector(v).page)
      BY <2>3, <2>4, <2>5, <3>3, Mounted
    <3>. QED
      BY <2>2, <2>5, <3>5, <3>6 DEF SelectorOK
  <2>6. CASE ~Loaded(t)
    <3>1. u = modelRefresh(v)
      BY <2>2, <2>4, <2>6 DEF modelInit
    <3>2. StoreTurns(v, u) /\ ~Loaded(u)
      BY <2>3, <2>4, <2>6, <3>1, ModelAsked
    <3>3. u.page.sel = v.page.sel /\ u.page.asked = v.page.asked
      BY <2>3, <3>2 DEF StoreTurns, DiagramFields
    <3>. QED
      BY <2>3, <3>2, <3>3 DEF SelectorOK
  <2>. QED
    BY <2>5, <2>6
<1>4. CASE u = openMonitoring(t)
  <2>1. Routes(t, u, MonitoringPage)
    BY <1>4, RouteOK DEF openMonitoring, Opened
  <2>2. u.page.name # "diagram"
    BY <2>1 DEF Routes, MonitoringPage
  <2>. QED
    BY <2>2 DEF SelectorOK
<1>5. CASE u = openStatusPage(t)
  <2>. DEFINE v == Route(t, StatusPage)
              chosen == setProject(v, AProjects[1]).page
              project == chosen.project
              group == chosen.group
              w == [v EXCEPT !.page.project = project, !.page.group = group]
  <2>1. u = IF Loaded(t) THEN refresh(w) ELSE modelInit(v)
    BY <1>5 DEF openStatusPage
  <2>2. Routes(t, v, StatusPage)
    BY RouteOK DEF Opened
  <2>. HIDE DEF v, project, group
  <2>3. DialogPage(v) /\ (v.tidy => ~HasOrphan(v))
    <3>1. TabOK(v) /\ v.page.name = "status" /\ DOMAIN v.page = StatusFields
      BY <2>2 DEF Routes, StatusPage, StatusFields
    <3>2. v.tidy => ~HasOrphan(v)
      BY <2>2, RoutedStore
    <3>. QED
      BY <3>1, <3>2 DEF DialogPage
  <2>4. /\ DOMAIN w = DOMAIN v /\ w.flights = v.flights /\ w.tidy = v.tidy
        /\ DOMAIN w.page = StatusFields
        /\ w.page.dialog = v.page.dialog /\ w.page.name = v.page.name /\ w.page.store = v.page.store
    BY <2>3 DEF DialogPage, TabOK, StatusFields
  <2>. HIDE DEF w
  <2>5. DialogPage(refresh(w))
    BY <2>3, <2>4, PageKept, RowsAsked DEF Kept
  <2>6. CASE Loaded(t)
    BY <2>1, <2>5, <2>6 DEF DialogPage, SelectorOK
  <2>7. CASE ~Loaded(t)
    <3>1. ~Loaded(v)
      BY <2>2, <2>7, RoutedStore
    <3>2. u = modelRefresh(v)
      BY <2>1, <2>7, <3>1 DEF modelInit
    <3>3. StoreTurns(v, u)
      BY <2>3, <3>1, <3>2, ModelAsked DEF DialogPage
    <3>4. u.page.name = "status"
      BY <2>3, <3>3 DEF StoreTurns, DialogPage, TabOK
    <3>. QED
      BY <3>4 DEF SelectorOK
  <2>. QED
    BY <2>6, <2>7
<1>. QED
  BY <1>1, <1>2, <1>3, <1>4, <1>5

LEMMA FirstSelector == Init => SInv
<1>. SUFFICES ASSUME Init
              PROVE  SInv
  OBVIOUS
<1>1. tab \in {Blank, openModel(Blank), openDiagram(Blank), openMonitoring(Blank), openStatusPage(Blank)}
  BY DEF Init, Blank
<1>2. SelectorOK(Blank)
  BY BlankOK DEF SelectorOK
<1>. QED
  BY <1>1, <1>2, BlankOK, SelectorOpened DEF SInv

\* The model is set, or set anew.
LEMMA LandModelSelects ==
  ASSUME IInv, SInv, LandModel, UNCHANGED notes
  PROVE  SInv'
<1>1. PICK v : SetOn(v)
  BY LandModelOK
<1>2. TabOK(tab) /\ DiagramOK(tab) /\ StoreTurns(tab, v)
  BY <1>1 DEF SetOn, IInv, AllOK, PageOK, DiagramOK, TabOK
<1>3. TabOK(v) /\ v.page.name = tab.page.name
  BY <1>2 DEF StoreTurns, TabOK
<1>4. CASE tab.page.name = "diagram"
  <2>1. Loaded(v) /\ DiagramShape(v) /\ tab' = DiagramModelSet(v, ~Loaded(tab)) /\ Keeps(v, tab')
    BY <1>1, <1>4 DEF SetOn
  <2>2. v.page.sel = tab.page.sel /\ v.page.asked = tab.page.asked
    BY <1>2, <1>4 DEF StoreTurns, DiagramOK, DiagramShape, DiagramFields
  <2>3. Loaded(tab')
    BY <2>1 DEF Keeps, Loaded
  <2>4. CASE Loaded(tab)
    <3>1. SelectionOK(v.page.sel)
      BY <1>4, <2>2, <2>4 DEF SInv, SelectorOK, Selecting
    <3>2. tab' = DiagramModelSet(v, FALSE)
      BY <2>1, <2>4 DEF DiagramModelSet
    <3>3. Reasked(tab')
      BY <1>3, <2>1, <3>1, <3>2, AnotherModel
    <3>. QED
      BY <2>3, <3>3 DEF Reasked, Selecting, SInv, SelectorOK
  <2>5. CASE ~Loaded(tab)
    <3>1. v.page.asked = NothingAsked
      BY <1>4, <2>2, <2>5 DEF SInv, SelectorOK
    <3>2. tab' = mountSelector(v)
      BY <2>1, <2>5 DEF DiagramModelSet
    <3>3. Selecting(mountSelector(v).page)
      BY <1>3, <2>1, <3>1, Mounted
    <3>. QED
      BY <2>3, <3>2, <3>3 DEF SInv, SelectorOK
  <2>. QED
    BY <2>4, <2>5
<1>5. CASE tab.page.name = "status"
  <2>1. tab' = setProject(v, AProjects[1])
    BY <1>1, <1>5 DEF SetOn
  <2>2. DialogPage(tab)
    BY <1>2, <1>5 DEF IInv, AllOK, PageOK, StatusOK, StatusShape, DialogPage
  <2>3. DialogPage(v)
    BY <1>2, <1>3, <1>5, <2>2 DEF DialogPage, StoreTurns
  <2>4. DialogPage(tab')
    BY <2>1, <2>3, ProjectKept DEF Kept
  <2>. QED
    BY <2>4 DEF DialogPage, SInv, SelectorOK
<1>6. CASE tab.page.name \notin {"diagram", "status"}
  <2>1. Keeps(v, tab')
    BY <1>1, <1>6 DEF SetOn
  <2>. QED
    BY <1>3, <1>6, <2>1 DEF Keeps, SInv, SelectorOK
<1>. QED
  BY <1>4, <1>5, <1>6

\* Each action of the page for diagrams looks at a model that is there.
LEMMA DiagramLoaded ==
  ASSUME DiagramNext
  PROVE  Loaded(tab)
<1>1. CASE selectProjects \/ selectGroups \/ selectPlots \/ selectStations \/ selectSensors
  BY <1>1 DEF selectProjects, selectGroups, selectPlots, selectStations, selectSensors, Selects, OnDiagram
<1>2. CASE selectAggregation \/ selectHighQuality
  BY ZenonT(30), <1>2 DEF selectAggregation, selectHighQuality, OnDiagram
<1>3. CASE selectQuality \/ selectInterpolation \/ enterTime
  BY <1>3 DEF selectQuality, selectInterpolation, enterTime, Sets, OnDiagram
<1>4. CASE LandQuery \/ FailQuery
  BY <1>4 DEF LandQuery, FailQuery, OnDiagram
<1>5. CASE wheelZoom \/ touchZoom \/ drag
  BY ZenonT(30), <1>5 DEF wheelZoom, touchZoom, drag, ZoomsTo, OnDiagram
<1>. QED
  BY <1>1, <1>2, <1>3, <1>4, <1>5 DEF DiagramNext

\* The store changes, but the model that is there stays, or none comes.
LEMMA StoreTurnsSelector ==
  ASSUME TabOK(tab), DiagramOK(tab), SInv, NEW u, StoreTurns(tab, u), Loaded(u) <=> Loaded(tab)
  PROVE  SelectorOK(u)
<1>1. u.page.name = tab.page.name
  BY DEF StoreTurns, TabOK
<1>2. CASE tab.page.name = "diagram"
  <2>1. u.page.sel = tab.page.sel /\ u.page.asked = tab.page.asked
    BY <1>2 DEF StoreTurns, DiagramOK, DiagramShape, DiagramFields
  <2>. QED
    BY <1>1, <2>1 DEF SInv, SelectorOK, Selecting
<1>3. CASE tab.page.name # "diagram"
  BY <1>1, <1>3 DEF SelectorOK
<1>. QED
  BY <1>2, <1>3

LEMMA SelectorKept == IInv /\ SInv /\ [Next]_vars => SInv'
<1>. SUFFICES ASSUME IInv, SInv, [Next]_vars
              PROVE  SInv'
  OBVIOUS
<1>1. TabOK(tab) /\ StoreOK(tab, fails)
  BY DEF IInv, AllOK
<1>2. DiagramOK(tab)
  BY DEF IInv, AllOK, PageOK, DiagramOK
<1>3. CASE selectPage /\ UNCHANGED notes
  <2>1. tab' \in {openOverview(tab), openModel(tab), openDiagram(tab), openMonitoring(tab), openStatusPage(tab)}
    BY <1>3 DEF selectPage
  <2>. QED
    BY <1>1, <2>1, SelectorOpened DEF SInv
<1>4. CASE selectSensorPage /\ UNCHANGED notes
  <2>1. PICK s : tab' = [tab EXCEPT !.page.sensor = s]
    BY <1>4 DEF selectSensorPage
  <2>2. tab.page.name = "model"
    BY <1>4 DEF selectSensorPage, OnPage
  <2>3. tab'.page.name = "model"
    BY <1>1, <2>1, <2>2 DEF TabOK
  <2>. QED
    BY <2>3 DEF SInv, SelectorOK
<1>5. CASE tryAgain /\ UNCHANGED notes
  <2>1. tab' = modelRefresh(tab) /\ ~Loaded(tab)
    BY <1>5 DEF tryAgain
  <2>2. tab.tidy => ~HasOrphan(tab)
    BY <1>1 DEF StoreOK
  <2>3. StoreTurns(tab, tab') /\ ~Loaded(tab')
    BY <1>1, <2>1, <2>2, ModelAsked
  <2>4. SelectorOK(tab')
    BY <1>1, <1>2, <2>1, <2>3, StoreTurnsSelector
  <2>. QED
    BY <2>4 DEF SInv
<1>6. CASE LandModel /\ UNCHANGED notes
  BY <1>6, LandModelSelects
<1>7. CASE FailModel /\ UNCHANGED notes
  <2>1. PICK i \in Pending(tab, {"model"}) : tab' = setError(UntidyIf(Gone(i), Len(tab.flights) > 1))
    BY <1>7 DEF FailModel, FailWith
  <2>. DEFINE overlap == Len(tab.flights) > 1
              u == UntidyIf(Gone(i), overlap)
              v == tab'
  <2>2. v = setError(UntidyIf(Gone(i), overlap))
    BY <2>1
  <2>3. u.page = tab.page /\ DOMAIN u = DOMAIN tab
    BY <1>1 DEF UntidyIf, Gone, TabOK
  <2>. HIDE DEF overlap, u, v
  <2>4. StoreTurns(tab, v)
    BY <2>2, ModelOver DEF ModelLeft
  <2>5. v.page.store.data = tab.page.store.data
    BY <1>1, <2>2, <2>3 DEF u, setError, TabOK
  <2>6. SelectorOK(v)
    BY <1>1, <1>2, <2>4, <2>5, StoreTurnsSelector DEF Loaded
  <2>. QED
    BY <2>6 DEF SInv, v
<1>8. CASE OnDiagramPage /\ UNCHANGED notes
  <2>1. tab.page.name = "diagram" /\ DiagramNext
    BY <1>8 DEF OnDiagramPage, OnPage
  <2>2. Loaded(tab)
    BY <2>1, DiagramLoaded
  <2>3. Keeps(tab, tab')
    BY <1>1, <1>2, <2>1, DiagramDone DEF Done
  <2>4. Loaded(tab') /\ tab'.page.name = "diagram"
    BY <2>1, <2>2, <2>3 DEF Keeps, Loaded
  <2>5. Selecting(tab.page)
    BY <2>1, <2>2 DEF SInv, SelectorOK
  <2>6. SameSelection(tab, tab') \/ Reasked(tab')
    BY <1>1, <1>2, <2>1, <2>5, DiagramSelects DEF Selecting
  <2>7. Selecting(tab'.page)
    BY <2>5, <2>6 DEF SameSelection, Reasked, Selecting
  <2>. QED
    BY <2>4, <2>7 DEF SInv, SelectorOK
<1>9. CASE OnMonitoringPage /\ UNCHANGED notes
  <2>1. TabOK(tab) /\ MonitoringOK(tab) /\ tab.page.name = "monitoring" /\ MonitoringNext
    BY <1>9 DEF IInv, AllOK, PageOK, OnMonitoringPage, OnMonitoring, OnPage
  <2>2. Keeps(tab, tab')
    BY <2>1, MonitoringNextDone DEF MonitoringDone
  <2>. QED
    BY <2>1, <2>2 DEF Keeps, SInv, SelectorOK
<1>10. CASE OnStatusPage
  <2>1. tab.page.name = "status" /\ StatusNext
    BY <1>10 DEF OnStatusPage, OnPage
  <2>2. tab'.page.name = "status"
    BY <1>1, <2>1, StatusNextDone DEF IInv, AllOK, PageOK, OnPage, StatusDone, Keeps
  <2>. QED
    BY <2>2 DEF SInv, SelectorOK
<1>11. CASE ServeOrphanSave
  <2>1. PICK i \in Pending(tab, {"orphan"}) : tab' = Gone(i)
    BY <1>11 DEF ServeOrphanSave
  <2>2. i \in DOMAIN tab.flights /\ tab.flights[i].kind = "orphan"
    BY DEF Pending
  <2>3. tab'.page = tab.page
    BY <1>1, <2>1, <2>2, OrphanGone
  <2>. QED
    BY <2>3 DEF SInv, SelectorOK, Loaded
<1>12. CASE UNCHANGED vars
  <2>1. tab' = tab
    BY <1>12 DEF vars, browser
  <2>. QED
    BY <2>1 DEF SInv
<1>. QED
  BY <1>3, <1>4, <1>5, <1>6, <1>7, <1>8, <1>9, <1>10, <1>11, <1>12 DEF Next

LEMMA SelectorImplies == SInv => SelectorExact
<1>. SUFFICES ASSUME SInv, OnDiagram
              PROVE  SelectorExact
  BY DEF SelectorExact
<1>. DEFINE s == tab.page.sel
<1>1. Selecting(tab.page)
  BY DEF SInv, SelectorOK, OnDiagram, OnPage
<1>2. ASSUME NEW model, NEW offered, Chosen(model) \in Seq(ToSet(offered))
      PROVE  ToSet(Chosen(model)) \subseteq ToSet(offered)
  BY <1>2, ListItems
<1>3. /\ ToSet(Chosen(s.groups)) \subseteq ToSet(groups(s)) /\ ToSet(Chosen(s.plots)) \subseteq ToSet(plots(s))
      /\ ToSet(Chosen(s.sensors)) \subseteq ToSet(sensors(s))
      /\ ToSet(Chosen(s.stations)) \subseteq ToSet(offeredStations(s))
  BY <1>1, <1>2 DEF Selecting, SelectionOK, GroupsOK, PlotsOK, StationsOK, SensorsOK
<1>4. Len(AProjects) > 1
        => tab.page.asked = [stations |-> selectedPlotstations(s), sensors |-> Chosen(s.sensors)]
  BY <1>1 DEF Selecting, AskedOf
<1>. QED
  BY <1>3, <1>4 DEF SelectorExact

LEMMA AlwaysSelector == Spec => []SInv
<1>1. Init => IInv /\ SInv
  BY FirstInvariant, FirstSelector
<1>2. IInv /\ SInv /\ [Next]_vars => (IInv /\ SInv)'
  BY InvariantKept, SelectorKept
<1>. QED
  BY <1>1, <1>2, PTL DEF Spec

-----------------------------------------------------------------------------
(* The theorems                                                            *)

\* With any number of requests for the model under way: the store never says that it is
\* loading when none is, the pages that need the model have it, wait for it or were told an
\* error, and there is no error if nothing failed.  Only while no two requests for it were
\* under way at once does the store say that it is loading exactly as long as it is, and
\* keep no error beside a model (AppStore).
THEOREM StoreCorrect == Spec => []StoreExact
BY AlwaysInvariant, StoreImplies, PTL

\* The page of a sensor says that no further aggregation is defined exactly if the selector
\* of the diagrams does not offer the sensor (App).
THEOREM SensorPageCorrect == Spec => []SensorPageExact
BY AlwaysInvariant, SensorImplies, PTL

\* In whatever order answers come, the page for diagrams waits exactly while its newest
\* request is under way; then, if it was not told an error, it shows the series and settings
\* that are selected.  If none is selected it shows none, but for a selection that was
\* emptied while an answer was awaited, or if answers overtook each other (AppDiagram).
THEOREM DiagramCorrect == Spec => []DiagramExact
<1>1. IInv => DiagramExact
  BY DiagramImplies
<1>. QED
  BY <1>1, AlwaysInvariant, PTL

\* What the wheel shows of a diagram is within the time there is (AppDiagram).
THEOREM WheelCorrect == Spec => []WheelWithin
<1>1. IInv => WheelWithin
  BY DiagramImplies
<1>. QED
  BY <1>1, AlwaysInvariant, PTL

\* The table for monitoring is of the set that is shown unless the set was changed while its
\* data were under way, and its button is busy exactly then (AppMonitoring).
THEOREM MonitoringCorrect == Spec => []MonitoringExact
<1>1. IInv => MonitoringExact
  BY MonitoringImplies DEF IInv, AllOK, PageOK
<1>. QED
  BY <1>1, AlwaysInvariant, PTL

\* A page for the status of plots at rest shows the plots of its group with what the server
\* has of them, and never waits for what does not come (AppStatus).
THEOREM StatusCorrect == Spec => []StatusExact
BY AlwaysInvariant, StatusImplies, PTL

\* The dialog that can be saved is the one of the plot it names, and the numbers of its tasks
\* and of those that are saved are different, whatever was asked for, changed and saved
\* before (AppStatus).
THEOREM DialogCorrect == Spec => []DialogExact
BY AlwaysDialog, DialogImplies, PTL

\* The class a plot is drawn with is the worst of its cells that are not missing (AppMonitoring).
THEOREM PlotClassCorrect == Spec => []PlotClassExact
BY AlwaysInvariant, PlotClassImplies, PTL

\* Whatever was chosen and taken away above, in whatever order pages and models came: what is
\* selected in the selector for diagrams is offered, and the layout asks for that.
THEOREM SelectorCorrect == Spec => []SelectorExact
BY AlwaysSelector, SelectorImplies, PTL
=============================================================================
