------------------------ MODULE ResilientClientProofs ------------------------
(***************************************************************************)
(* Proofs about ResilientClient, for any limit and window, any failure     *)
(* threshold and recovery time, and any number of tasks, retries and       *)
(* errors.                                                                 *)
(*                                                                         *)
(* The rate limiter counts a list that is cleaned up only when a request   *)
(* arrives.  LimiterInv says that the list, cleaned up, is exactly the     *)
(* requests allowed within the last window.  The lemmas before it are      *)
(* inductions over the list: a set of lists that has the empty one and is  *)
(* closed under Append has them all.                                       *)
(***************************************************************************)
EXTENDS ResilientClient, TLAPS, WellFoundedInduction

-----------------------------------------------------------------------------
(* Induction *)

\* < on the natural numbers, as a set of pairs.
NatLess == {p \in Nat \X Nat : p[1] < p[2]}

\* < is well founded on the natural numbers.
LEMMA NatLessWellFounded == IsWellFoundedOn(NatLess, Nat)
  BY NatLessThanWellFounded, Zenon DEF OpToRel, NatLess

\* A set with 0 and the successor of each member has every natural number.
LEMMA SetInduction ==
    ASSUME NEW T, 0 \in T, \A n \in Nat : n \in T => n + 1 \in T
    PROVE  Nat \subseteq T
<1> SUFFICES ASSUME Nat \ T # {} PROVE FALSE
  OBVIOUS
<1>1. PICK m \in Nat \ T : \A n \in Nat \ T : <<n, m>> \notin NatLess
  <2>1. Nat \ T \subseteq Nat
    OBVIOUS
  <2> QED
    BY <2>1, NatLessWellFounded, WFMin, Zenon
<1>2. m # 0 /\ m - 1 \in Nat /\ m = (m - 1) + 1
  BY <1>1
<1>3. m - 1 \notin T
  BY <1>1, <1>2
<1>4. <<m - 1, m>> \in Nat \X Nat /\ <<m - 1, m>>[1] = m - 1 /\ <<m - 1, m>>[2] = m
  BY <1>2
<1>5. <<m - 1, m>> \in NatLess
  BY <1>2, <1>4 DEF NatLess
<1> QED
  BY <1>1, <1>2, <1>3, <1>5

\* A set with the empty list and every extension of its lists has every list.
LEMMA ListInduction ==
    ASSUME NEW S, NEW T, <<>> \in T, \A s \in Seq(S), a \in S : s \in T => Append(s, a) \in T
    PROVE  Seq(S) \subseteq T
<1> DEFINE L == {n \in Nat : \A s \in Seq(S) : Len(s) = n => s \in T}
<1>1. 0 \in L
  <2>1. \A s \in Seq(S) : Len(s) = 0 => s = <<>>
    OBVIOUS
  <2> QED
    BY <2>1
<1>2. ASSUME NEW n \in Nat, n \in L PROVE n + 1 \in L
  <2> SUFFICES ASSUME NEW s \in Seq(S), Len(s) = n + 1 PROVE s \in T
    OBVIOUS
  <2>1. PICK f : f = SubSeq(s, 1, n)
    OBVIOUS
  <2>2. f \in Seq(S) /\ Len(f) = n /\ s[n + 1] \in S
    BY <2>1
  <2>3. f \in T
    BY <1>2, <2>2
  <2>4. s = Append(f, s[n + 1])
    BY <2>1, <2>2
  <2>5. Append(f, s[n + 1]) \in T
    BY <2>2, <2>3
  <2> QED
    BY <2>4, <2>5
<1> HIDE DEF L
<1>3. Nat \subseteq L
  BY <1>1, <1>2, SetInduction
<1> QED
  <2> SUFFICES ASSUME NEW s \in Seq(S) PROVE s \in T
    OBVIOUS
  <2>1. Len(s) \in L
    BY <1>3
  <2> QED
    BY <2>1 DEF L

-----------------------------------------------------------------------------
(* Cleaning up the list *)

\* The recursion of Younger, for the first n entries.
Filters(kept, ages, limit, n) ==
    kept = [i \in 0..n |->
              IF i = 0 THEN <<>>
              ELSE IF ages[i] < limit THEN Append(kept[i - 1], ages[i]) ELSE kept[i - 1]]

\* The recursion has a solution.
LEMMA FilterExists ==
    ASSUME NEW ages, NEW limit
    PROVE  \A n \in Nat : \E kept : Filters(kept, ages, limit, n)
<1> DEFINE T == {n \in Nat : \E kept : Filters(kept, ages, limit, n)}
<1>1. 0 \in T
  <2>1. Filters([i \in 0..0 |-> <<>>], ages, limit, 0)
    BY DEF Filters
  <2> QED
    BY <2>1
<1>2. ASSUME NEW n \in Nat, n \in T PROVE n + 1 \in T
  <2>1. PICK kept : Filters(kept, ages, limit, n)
    BY <1>2
  <2>2. PICK more : more = [i \in 0..(n + 1) |->
              IF i = n + 1
              THEN IF ages[n + 1] < limit THEN Append(kept[n], ages[n + 1]) ELSE kept[n]
              ELSE kept[i]]
    OBVIOUS
  <2>3. \A i \in 0..n : kept[i] = IF i = 0 THEN <<>>
              ELSE IF ages[i] < limit THEN Append(kept[i - 1], ages[i]) ELSE kept[i - 1]
    BY <2>1 DEF Filters
  <2>4. \A i \in 0..n : more[i] = kept[i]
    BY <2>2
  <2>5. more[n + 1] = IF ages[n + 1] < limit THEN Append(kept[n], ages[n + 1]) ELSE kept[n]
    BY <2>2
  <2>6. ASSUME NEW i \in 0..(n + 1)
        PROVE more[i] = IF i = 0 THEN <<>>
              ELSE IF ages[i] < limit THEN Append(more[i - 1], ages[i]) ELSE more[i - 1]
    <3>1. CASE i = n + 1
      <4>1. i # 0 /\ i - 1 = n /\ more[n] = kept[n]
        BY <2>4, <3>1
      <4> QED
        BY <2>5, <3>1, <4>1
    <3>2. CASE i # n + 1
      <4>1. i \in 0..n /\ (i # 0 => i - 1 \in 0..n)
        BY <2>6, <3>2
      <4>2. more[i] = kept[i] /\ (i # 0 => more[i - 1] = kept[i - 1])
        BY <2>4, <4>1
      <4> QED
        BY <2>3, <4>1, <4>2
    <3> QED
      BY <3>1, <3>2
  <2>7. more = [i \in 0..(n + 1) |-> more[i]]
    BY <2>2
  <2>8. Filters(more, ages, limit, n + 1)
    BY <2>6, <2>7 DEF Filters
  <2> QED
    BY <2>8
<1> HIDE DEF T
<1>3. Nat \subseteq T
  BY <1>1, <1>2, SetInduction
<1> QED
  BY <1>3 DEF T

\* Younger is the last value of its recursion.
LEMMA YoungerFilters ==
    ASSUME NEW S, NEW ages \in Seq(S), NEW limit
    PROVE  \E kept : Filters(kept, ages, limit, Len(ages)) /\ Younger(ages, limit) = kept[Len(ages)]
<1>1. \E kept : kept = [i \in 0..Len(ages) |->
              IF i = 0 THEN <<>>
              ELSE IF ages[i] < limit THEN Append(kept[i - 1], ages[i]) ELSE kept[i - 1]]
  <2>1. Len(ages) \in Nat
    OBVIOUS
  <2>2. \E kept : Filters(kept, ages, limit, Len(ages))
    BY <2>1, FilterExists, Zenon
  <2> QED
    BY <2>2, Zenon DEF Filters
<1> QED
  BY <1>1, Zenon DEF Younger, Filters

\* Lists with the same first n entries are filtered alike up to there.
LEMMA FiltersAgree ==
    ASSUME NEW s, NEW t, NEW limit, NEW n \in Nat, NEW m \in Nat, n <= m,
           \A i \in 1..n : s[i] = t[i],
           NEW f, NEW g, Filters(f, s, limit, n), Filters(g, t, limit, m)
    PROVE  f[n] = g[n]
<1> DEFINE T == {i \in Nat : i <= n => f[i] = g[i]}
<1>1. \A i \in 0..n : f[i] = IF i = 0 THEN <<>>
              ELSE IF s[i] < limit THEN Append(f[i - 1], s[i]) ELSE f[i - 1]
  BY DEF Filters
<1>2. \A i \in 0..m : g[i] = IF i = 0 THEN <<>>
              ELSE IF t[i] < limit THEN Append(g[i - 1], t[i]) ELSE g[i - 1]
  BY DEF Filters
<1>3. 0 \in T
  BY <1>1, <1>2
<1>4. ASSUME NEW i \in Nat, i \in T PROVE i + 1 \in T
  <2> SUFFICES ASSUME i + 1 <= n PROVE f[i + 1] = g[i + 1]
    OBVIOUS
  <2>1. f[i] = g[i] /\ i + 1 \in 1..n /\ i + 1 \in 0..n /\ i + 1 \in 0..m /\ (i + 1) - 1 = i /\ i + 1 # 0
    BY <1>4
  <2>2. s[i + 1] = t[i + 1]
    BY <2>1
  <2>3. f[i + 1] = IF s[i + 1] < limit THEN Append(f[i], s[i + 1]) ELSE f[i]
    BY <1>1, <2>1
  <2>4. g[i + 1] = IF t[i + 1] < limit THEN Append(g[i], t[i + 1]) ELSE g[i]
    BY <1>2, <2>1
  <2> QED
    BY <2>1, <2>2, <2>3, <2>4
<1> HIDE DEF T
<1>5. n \in T
  BY <1>3, <1>4, SetInduction
<1> QED
  BY <1>5 DEF T

\* The empty list has nothing to filter.
LEMMA YoungerEmpty ==
    ASSUME NEW limit
    PROVE  Younger(<<>>, limit) = <<>>
<1>1. <<>> \in Seq({}) /\ Len(<<>>) = 0
  OBVIOUS
<1>2. PICK kept : Filters(kept, <<>>, limit, 0) /\ Younger(<<>>, limit) = kept[0]
  BY <1>1, YoungerFilters
<1> QED
  BY <1>2 DEF Filters

\* Filtering treats the last entry by itself.
LEMMA YoungerAppend ==
    ASSUME NEW S, NEW s \in Seq(S), NEW a \in S, NEW limit
    PROVE  Younger(Append(s, a), limit) =
              IF a < limit THEN Append(Younger(s, limit), a) ELSE Younger(s, limit)
<1>1. PICK t \in Seq(S), n \in Nat :
          /\ t = Append(s, a) /\ n = Len(s) /\ Len(t) = n + 1 /\ t[n + 1] = a
          /\ \A i \in 1..n : s[i] = t[i]
  <2>1. /\ Append(s, a) \in Seq(S) /\ Len(s) \in Nat /\ Len(Append(s, a)) = Len(s) + 1
        /\ Append(s, a)[Len(s) + 1] = a
        /\ \A i \in 1..Len(s) : s[i] = Append(s, a)[i]
    OBVIOUS
  <2> QED
    BY <2>1, Zenon
<1>2. PICK f : Filters(f, s, limit, n) /\ Younger(s, limit) = f[n]
  BY <1>1, YoungerFilters
<1>3. PICK g : Filters(g, t, limit, n + 1) /\ Younger(t, limit) = g[n + 1]
  <2>1. \E g : Filters(g, t, limit, Len(t)) /\ Younger(t, limit) = g[Len(t)]
    BY YoungerFilters
  <2>2. Len(t) = n + 1
    BY <1>1, Zenon
  <2> QED
    BY <2>1, <2>2, Zenon
<1>4. f[n] = g[n]
  <2>1. PICK m \in Nat : m = n + 1 /\ n <= m
    OBVIOUS
  <2>2. Filters(g, t, limit, m) /\ Filters(f, s, limit, n) /\ \A i \in 1..n : s[i] = t[i]
    BY <1>1, <1>2, <1>3, <2>1, Zenon
  <2>3. n <= m
    BY <2>1
  <2> HIDE DEF Filters
  <2> QED
    BY <2>2, <2>3, FiltersAgree
<1>5. g[n + 1] = IF t[n + 1] < limit THEN Append(g[n], t[n + 1]) ELSE g[n]
  <2>1. n + 1 \in 0..(n + 1) /\ n + 1 # 0 /\ (n + 1) - 1 = n
    OBVIOUS
  <2> QED
    BY <1>3, <2>1 DEF Filters
<1> QED
  BY <1>1, <1>2, <1>3, <1>4, <1>5

\* The window is at least one tick long.
LEMMA WindowPositive == Window \in Nat \ {0}
<1>1. PICK w, t \in Nat \ {0} : w = WindowSeconds /\ t = TicksPerSecond
  BY LimiterAssumption
<1>2. w * t \in Nat /\ w * t # 0
  OBVIOUS
<1> QED
  BY <1>1, <1>2 DEF Window

\* Filtering keeps entries below the limit and makes no list longer.
LEMMA YoungerType ==
    ASSUME NEW S, S \subseteq Int, NEW limit \in Int, NEW s \in Seq(S)
    PROVE  /\ Younger(s, limit) \in Seq({a \in S : a < limit})
           /\ Younger(s, limit) \in Seq(S)
           /\ Len(Younger(s, limit)) <= Len(s)
<1> DEFINE B == {a \in S : a < limit}
           T == {x \in Seq(S) : Younger(x, limit) \in Seq(B) /\ Len(Younger(x, limit)) <= Len(x)}
<1>1. <<>> \in T
  <2>1. <<>> \in Seq(S) /\ <<>> \in Seq(B) /\ Len(<<>>) <= Len(<<>>)
    OBVIOUS
  <2> QED
    BY <2>1, YoungerEmpty, Zenon
<1>2. ASSUME NEW x \in Seq(S), NEW a \in S, x \in T PROVE Append(x, a) \in T
  <2>1. PICK y \in Seq(B) : y = Younger(x, limit) /\ Len(y) <= Len(x)
    BY <1>2
  <2>2. Younger(Append(x, a), limit) = IF a < limit THEN Append(y, a) ELSE y
    BY <2>1, YoungerAppend, Zenon
  <2>3. Append(x, a) \in Seq(S) /\ Len(Append(x, a)) = Len(x) + 1 /\ Len(x) \in Nat /\ Len(y) \in Nat
    OBVIOUS
  <2>4. CASE a < limit
    <3>1. a \in B
      BY <2>4
    <3> HIDE DEF B
    <3>2. Append(y, a) \in Seq(B) /\ Len(Append(y, a)) = Len(y) + 1
      BY <3>1
    <3>3. Len(Append(y, a)) <= Len(Append(x, a))
      BY <2>1, <2>3, <3>2
    <3> QED
      BY <2>2, <2>3, <2>4, <3>2, <3>3
  <2>5. CASE ~(a < limit)
    <3>1. Len(y) <= Len(Append(x, a))
      BY <2>1, <2>3
    <3> HIDE DEF B
    <3> QED
      BY <2>2, <2>3, <2>5, <3>1
  <2> QED
    BY <2>4, <2>5
<1> HIDE DEF T
<1>3. Seq(S) \subseteq T
  BY <1>1, <1>2, ListInduction
<1>4. Younger(s, limit) \in Seq(B) /\ Len(Younger(s, limit)) <= Len(s)
  BY <1>3 DEF T
<1>5. Younger(s, limit) \in Seq(S)
  <2>1. PICK y \in Seq(B) : y = Younger(s, limit)
    BY <1>4
  <2>2. y \in Seq(S)
    OBVIOUS
  <2> QED
    BY <2>1, <2>2
<1> QED
  BY <1>4, <1>5

\* Cleaning up twice is cleaning up once.
LEMMA YoungerTwice ==
    ASSUME NEW S, S \subseteq Int, NEW limit \in Int, NEW s \in Seq(S)
    PROVE  Younger(Younger(s, limit), limit) = Younger(s, limit)
<1> DEFINE T == {x \in Seq(S) : Younger(Younger(x, limit), limit) = Younger(x, limit)}
<1>1. <<>> \in T
  <2>1. <<>> \in Seq(S)
    OBVIOUS
  <2> QED
    BY <2>1, YoungerEmpty, Zenon
<1>2. ASSUME NEW x \in Seq(S), NEW a \in S, x \in T PROVE Append(x, a) \in T
  <2>1. PICK y \in Seq(S) : y = Younger(x, limit)
    BY YoungerType
  <2>2. Younger(y, limit) = y
    BY <1>2, <2>1
  <2>3. Younger(Append(x, a), limit) = IF a < limit THEN Append(y, a) ELSE y
    BY <2>1, YoungerAppend, Zenon
  <2>4. Younger(Append(y, a), limit) = IF a < limit THEN Append(y, a) ELSE y
    BY <2>2, YoungerAppend, Zenon
  <2>5. Append(x, a) \in Seq(S)
    OBVIOUS
  <2> QED
    BY <2>2, <2>3, <2>4, <2>5, Zenon
<1> HIDE DEF T
<1>3. Seq(S) \subseteq T
  BY <1>1, <1>2, ListInduction
<1> QED
  BY <1>3 DEF T

-----------------------------------------------------------------------------
(* The list as time passes *)

\* Time treats every entry by itself.
LEMMA AgedAppend ==
    ASSUME NEW s \in Seq(Nat), NEW a \in Nat, NEW n \in Nat
    PROVE  /\ Aged(s, n) \in Seq(0..Window) /\ Len(Aged(s, n)) = Len(s)
           /\ Aged(Append(s, a), n) =
                Append(Aged(s, n), IF a + n < Window THEN a + n ELSE Window)
<1>1. PICK w \in Nat : w = Window
  BY WindowPositive
<1>2. PICK x \in Seq(0..w) : /\ x = [i \in DOMAIN s |-> IF s[i] + n < w THEN s[i] + n ELSE w]
                             /\ Len(x) = Len(s)
  <2> DEFINE y == [i \in DOMAIN s |-> IF s[i] + n < w THEN s[i] + n ELSE w]
  <2>1. Len(s) \in Nat /\ DOMAIN s = 1..Len(s) /\ \A i \in DOMAIN s : s[i] \in Nat
    OBVIOUS
  <2>2. y \in [1..Len(s) -> 0..w]
    BY <2>1
  <2>3. y \in Seq(0..w) /\ Len(y) = Len(s)
    BY <2>1, <2>2
  <2> QED
    BY <2>3, Zenon
<1>3. PICK t \in Seq(Nat) : t = Append(s, a) /\ Len(t) = Len(s) + 1
  <2>1. Append(s, a) \in Seq(Nat) /\ Len(Append(s, a)) = Len(s) + 1
    OBVIOUS
  <2> QED
    BY <2>1, Zenon
<1>4. PICK b \in 0..w : b = IF a + n < w THEN a + n ELSE w
  OBVIOUS
<1>5. [i \in DOMAIN t |-> IF t[i] + n < w THEN t[i] + n ELSE w] = Append(x, b)
  BY <1>2, <1>3, <1>4
<1> QED
  BY <1>1, <1>2, <1>3, <1>4, <1>5 DEF Aged

\* No time changes the empty list.
LEMMA AgedEmpty ==
    ASSUME NEW n
    PROVE  Aged(<<>>, n) = <<>>
  BY DEF Aged

\* A tick takes from the cleaned list what the clean-up after it would.
LEMMA CleanedAfterTick ==
    ASSUME NEW s \in Seq(0..Window)
    PROVE  Cleaned(Aged(s, 1)) = Aged(Younger(Cleaned(s), Window - 1), 1)
<1>1. PICK w \in Nat \ {0} : w = Window
  BY WindowPositive
<1> DEFINE T == {x \in Seq(0..w) : Younger(Aged(x, 1), w) = Aged(Younger(Younger(x, w), w - 1), 1)}
<1>2. <<>> \in T
  <2>1. <<>> \in Seq(0..w)
    OBVIOUS
  <2> QED
    BY <2>1, YoungerEmpty, AgedEmpty, Zenon
<1>3. ASSUME NEW x \in Seq(0..w), NEW a \in 0..w, x \in T PROVE Append(x, a) \in T
  <2>1. x \in Seq(Nat) /\ a \in Nat /\ 0..w \subseteq Int /\ w \in Int /\ w - 1 \in Int
    BY <1>1
  <2>2. PICK c \in Seq(0..w) : c = Younger(x, w)
    BY <2>1, YoungerType
  <2>3. PICK y \in Seq(0..w) : y = Younger(c, w - 1)
    BY <2>1, YoungerType
  <2>4. y \in Seq(Nat)
    BY <2>3
  <2>5. PICK z \in Seq(0..w) : z = Aged(x, 1)
    BY <1>1, <2>1, AgedAppend
  <2>6. PICK b \in 0..w : b = IF a + 1 < w THEN a + 1 ELSE w
    BY <1>1
  <2>7. Aged(Append(x, a), 1) = Append(z, b) /\ Aged(Append(y, a), 1) = Append(Aged(y, 1), b)
    BY <1>1, <2>1, <2>4, <2>5, <2>6, AgedAppend
  <2>8. Younger(Append(z, b), w) = IF b < w THEN Append(Younger(z, w), b) ELSE Younger(z, w)
    BY YoungerAppend, Zenon
  <2>9. Younger(Append(x, a), w) = IF a < w THEN Append(c, a) ELSE c
    BY <2>2, YoungerAppend, Zenon
  <2>10. Younger(Append(c, a), w - 1) = IF a < w - 1 THEN Append(y, a) ELSE y
    BY <2>3, YoungerAppend, Zenon
  <2>11. Younger(z, w) = Aged(y, 1)
    BY <1>3, <2>2, <2>3, <2>5
  <2>12. Append(x, a) \in Seq(0..w)
    OBVIOUS
  <2>13. CASE a < w - 1
    <3>1. a < w /\ b < w
      BY <2>6, <2>13
    <3>2. Younger(Younger(Append(x, a), w), w - 1) = Append(y, a)
      BY <2>9, <2>10, <2>13, <3>1
    <3>3. Younger(Aged(Append(x, a), 1), w) = Append(Aged(y, 1), b)
      BY <2>7, <2>8, <2>11, <3>1
    <3> QED
      BY <2>7, <2>12, <3>2, <3>3
  <2>14. CASE ~(a < w - 1)
    <3>1. ~(b < w)
      BY <2>6, <2>14
    <3>2. Younger(Younger(Append(x, a), w), w - 1) = y
      BY <2>3, <2>9, <2>10, <2>14
    <3>3. Younger(Aged(Append(x, a), 1), w) = Aged(y, 1)
      BY <2>7, <2>8, <2>11, <3>1
    <3> QED
      BY <2>12, <3>2, <3>3
  <2> QED
    BY <2>13, <2>14
<1> HIDE DEF T
<1>4. Seq(0..w) \subseteq T
  BY <1>2, <1>3, ListInduction
<1>5. s \in T
  BY <1>1, <1>4
<1> QED
  BY <1>1, <1>5 DEF T, Cleaned

\* Waiting makes no list longer, and once the first entry of the cleaned list
\* has left the window the list has got shorter.
LEMMA CleanedAfterWait ==
    ASSUME NEW s \in Seq(0..Window), NEW n \in Nat
    PROVE  /\ Len(Cleaned(Aged(s, n))) <= Len(Cleaned(s))
           /\ Cleaned(s) # <<>> /\ Cleaned(s)[1] + n >= Window
                => Len(Cleaned(Aged(s, n))) < Len(Cleaned(s))
<1>1. PICK w \in Nat \ {0} : w = Window
  BY WindowPositive
<1> DEFINE Shorter(x) ==
               /\ Len(Younger(Aged(x, n), w)) <= Len(Younger(x, w))
               /\ Younger(x, w) # <<>> /\ Younger(x, w)[1] + n >= w
                    => Len(Younger(Aged(x, n), w)) < Len(Younger(x, w))
           T == {x \in Seq(0..w) : Shorter(x)}
<1>2. <<>> \in T
  <2>1. <<>> \in Seq(0..w) /\ Len(<<>>) <= Len(<<>>)
    OBVIOUS
  <2>2. Younger(<<>>, w) = <<>> /\ Aged(<<>>, n) = <<>>
    BY YoungerEmpty, AgedEmpty
  <2> QED
    BY <2>1, <2>2
<1>3. ASSUME NEW x \in Seq(0..w), NEW a \in 0..w, x \in T PROVE Append(x, a) \in T
  <2>1. x \in Seq(Nat) /\ a \in Nat /\ 0..w \subseteq Int /\ w \in Int
    BY <1>1
  <2>2. PICK c \in Seq(0..w) : c = Younger(x, w)
    BY <2>1, YoungerType
  <2>3. PICK z \in Seq(0..w) : z = Aged(x, n)
    BY <1>1, <2>1, AgedAppend
  <2>4. PICK d \in Seq(0..w) : d = Younger(z, w)
    BY <2>1, YoungerType
  <2>5. PICK b \in 0..w : b = IF a + n < w THEN a + n ELSE w
    BY <1>1
  <2>6. Aged(Append(x, a), n) = Append(z, b)
    BY <1>1, <2>1, <2>3, <2>5, AgedAppend
  <2>7. Younger(Append(z, b), w) = IF b < w THEN Append(d, b) ELSE d
    BY <2>4, YoungerAppend, Zenon
  <2>8. Younger(Append(x, a), w) = IF a < w THEN Append(c, a) ELSE c
    BY <2>2, YoungerAppend, Zenon
  <2>9. Len(d) <= Len(c) /\ (c # <<>> /\ c[1] + n >= w => Len(d) < Len(c))
    BY <1>3, <2>2, <2>3, <2>4
  <2>10. Len(c) \in Nat /\ Len(d) \in Nat /\ Len(Append(c, a)) = Len(c) + 1
         /\ Len(Append(d, b)) = Len(d) + 1
    OBVIOUS
  <2>11. Append(x, a) \in Seq(0..w)
    OBVIOUS
  <2> HIDE DEF Shorter
  <2>12. CASE ~(a < w)
    <3>1. ~(b < w)
      BY <2>1, <2>5, <2>12
    <3>2. Younger(Append(x, a), w) = c /\ Younger(Aged(Append(x, a), n), w) = d
      BY <2>6, <2>7, <2>8, <2>12, <3>1
    <3> QED
      BY <2>9, <2>11, <3>2 DEF Shorter
  <2>13. CASE a < w
    <3>1. PICK e : e = Younger(Aged(Append(x, a), n), w)
      OBVIOUS
    <3>2. Younger(Append(x, a), w) = Append(c, a) /\ (e = d \/ (b < w /\ e = Append(d, b)))
      BY <2>6, <2>7, <2>8, <2>13, <3>1
    <3>3. Len(e) <= Len(Append(c, a))
      BY <2>9, <2>10, <3>2
    <3>4. ASSUME Append(c, a)[1] + n >= w PROVE Len(e) < Len(Append(c, a))
      <4>1. CASE c = <<>>
        <5>1. Append(c, a)[1] = a /\ Len(c) = 0
          BY <4>1
        <5>2. b = w
          BY <2>5, <3>4, <5>1
        <5>3. e = d
          BY <3>2, <5>2
        <5> QED
          BY <2>9, <2>10, <5>1, <5>3
      <4>2. CASE c # <<>>
        <5>1. Append(c, a)[1] = c[1]
          BY <4>2
        <5>2. Len(d) < Len(c)
          BY <2>9, <3>4, <4>2, <5>1
        <5> QED
          BY <2>10, <3>2, <5>2
      <4> QED
        BY <4>1, <4>2
    <3> QED
      BY <2>11, <3>1, <3>2, <3>3, <3>4 DEF Shorter
  <2> QED
    BY <2>12, <2>13
<1> HIDE DEF T
<1>4. Seq(0..w) \subseteq T
  BY <1>2, <1>3, ListInduction
<1>5. s \in T
  BY <1>1, <1>4
<1> QED
  BY <1>1, <1>5 DEF T, Cleaned

-----------------------------------------------------------------------------
(* The limiter *)

\* The cleaned list is the requests allowed within the last window.
LimiterInv == LimiterTypeOK /\ recent = Cleaned(requests) /\ SlidingLimit

\* A cleaned list has only entries of the window.
LEMMA CleanedType ==
    ASSUME NEW s \in Seq(0..Window)
    PROVE  /\ Cleaned(s) \in Seq(0..Window) /\ Cleaned(s) \in Seq(0..(Window - 1))
           /\ Len(Cleaned(s)) \in Nat /\ Cleaned(Cleaned(s)) = Cleaned(s)
           /\ Cleaned(Append(Cleaned(s), 0)) = Append(Cleaned(s), 0)
<1>1. PICK w \in Nat \ {0} : w = Window
  BY WindowPositive
<1>2. PICK B : B = {a \in 0..w : a < w}
  OBVIOUS
<1>3. 0..w \subseteq Int /\ w \in Int /\ B = 0..(w - 1)
  BY <1>2
<1>4. PICK c \in Seq(0..w) : c = Younger(s, w) /\ c \in Seq(B)
  BY <1>1, <1>2, <1>3, YoungerType
<1>5. Younger(c, w) = c
  BY <1>1, <1>3, <1>4, YoungerTwice
<1>6. 0 \in 0..w /\ 0 < w
  OBVIOUS
<1>7. Younger(Append(c, 0), w) = IF 0 < w THEN Append(Younger(c, w), 0) ELSE Younger(c, w)
  BY <1>6, YoungerAppend, Zenon
<1>8. Len(c) \in Nat
  OBVIOUS
<1> QED
  BY <1>1, <1>3, <1>4, <1>5, <1>6, <1>7, <1>8 DEF Cleaned

\* A request that is allowed enters the window and does not overfill it.
LEMMA AllowStep ==
    ASSUME LimiterInv, Allow
    PROVE  LimiterInv'
<1>1. requests \in Seq(0..Window) /\ recent = Cleaned(requests)
  BY DEF LimiterInv, LimiterTypeOK
<1>2. PICK c : c = Cleaned(requests)
  OBVIOUS
<1>3. requests' = Append(c, 0) /\ recent' = Append(c, 0) /\ ~(Len(c) >= MaxRequests)
  BY <1>1, <1>2 DEF Allow, IsFull
<1>4. /\ c \in Seq(0..Window) /\ c \in Seq(0..(Window - 1)) /\ Len(c) \in Nat
      /\ Cleaned(Append(c, 0)) = Append(c, 0)
  BY <1>1, <1>2, CleanedType
<1>5. 0 \in 0..Window /\ 0 \in 0..(Window - 1) /\ MaxRequests \in Nat
  BY WindowPositive, LimiterAssumption
<1>6. Append(c, 0) \in Seq(0..Window) /\ Append(c, 0) \in Seq(0..(Window - 1))
  BY <1>4, <1>5
<1>7. Len(Append(c, 0)) <= MaxRequests
  BY <1>3, <1>4, <1>5
<1>8. Cleaned(requests)' = Append(c, 0)
  <2>1. Cleaned(requests') = Append(c, 0)
    BY <1>3, <1>4
  <2> QED
    BY <2>1 DEF Cleaned, Younger, Window
<1> QED
  BY <1>3, <1>6, <1>7, <1>8 DEF LimiterInv, LimiterTypeOK, SlidingLimit, Window

\* A request that is turned away only cleans the list up.
LEMMA RejectStep ==
    ASSUME LimiterInv, Reject
    PROVE  LimiterInv'
<1>1. requests \in Seq(0..Window) /\ recent = Cleaned(requests) /\ SlidingLimit
  BY DEF LimiterInv, LimiterTypeOK
<1>2. PICK c : c = Cleaned(requests)
  OBVIOUS
<1>3. requests' = c /\ recent' = c
  BY <1>1, <1>2 DEF Reject
<1>4. c \in Seq(0..Window) /\ c \in Seq(0..(Window - 1)) /\ Cleaned(c) = c
  BY <1>1, <1>2, CleanedType
<1>5. Len(c) <= MaxRequests
  BY <1>1, <1>2 DEF SlidingLimit
<1>6. Cleaned(requests)' = c
  <2>1. Cleaned(requests') = c
    BY <1>3, <1>4
  <2> QED
    BY <2>1 DEF Cleaned, Younger, Window
<1> QED
  BY <1>3, <1>4, <1>5, <1>6 DEF LimiterInv, LimiterTypeOK, SlidingLimit, Window

\* A tick only takes requests out of the window.
LEMMA TickStep ==
    ASSUME LimiterInv, LimiterTick
    PROVE  LimiterInv'
<1>1. requests \in Seq(0..Window) /\ recent = Cleaned(requests) /\ SlidingLimit
  BY DEF LimiterInv, LimiterTypeOK
<1>2. PICK w \in Nat \ {0} : w = Window
  BY WindowPositive
<1>3. PICK c \in Seq(0..w) : c = Cleaned(requests) /\ Len(c) \in Nat
  BY <1>1, <1>2, CleanedType
<1>4. PICK r : r = Aged(requests, 1)
  OBVIOUS
<1>5. requests' = r /\ recent' = Aged(Younger(c, w - 1), 1)
  BY <1>1, <1>2, <1>3, <1>4 DEF LimiterTick
<1>6. requests \in Seq(Nat)
  BY <1>1, <1>2
<1>7. r \in Seq(0..Window)
  BY <1>4, <1>6, AgedAppend
<1>8. Cleaned(r) = Aged(Younger(c, w - 1), 1)
  BY <1>1, <1>2, <1>3, <1>4, CleanedAfterTick
<1>9. Cleaned(r) \in Seq(0..(Window - 1))
  BY <1>7, CleanedType
<1>10. Len(Cleaned(r)) <= MaxRequests
  <2>1. Len(Cleaned(r)) <= Len(c)
    BY <1>1, <1>3, <1>4, CleanedAfterWait
  <2>2. Len(c) <= MaxRequests
    BY <1>1, <1>3 DEF SlidingLimit
  <2>3. Len(Cleaned(r)) \in Nat
    BY <1>7, CleanedType
  <2> QED
    BY <1>3, <2>1, <2>2, <2>3, LimiterAssumption
<1>11. Cleaned(requests)' = Cleaned(r)
  BY <1>5 DEF Cleaned, Younger, Window
<1> QED
  BY <1>5, <1>7, <1>8, <1>9, <1>10, <1>11 DEF LimiterInv, LimiterTypeOK, SlidingLimit, Window

\* Rounding down and adding one unit covers the whole duration.
LEMMA RoundedUp ==
    ASSUME NEW x \in Nat, NEW t \in Nat \ {0}
    PROVE  ((x \div t) + 1) * t \in Nat /\ ((x \div t) + 1) * t >= x
<1>1. PICK q \in Nat, r \in Nat : q = x \div t /\ x = t * q + r /\ r < t
  <2>1. x \div t \in Nat /\ x % t \in Nat /\ x % t < t /\ x = t * (x \div t) + (x % t)
    OBVIOUS
  <2> QED
    BY <2>1
<1>2. (q + 1) * t = t * q + t /\ t * q \in Nat
  OBVIOUS
<1> QED
  BY <1>1, <1>2

\* The hint of a full limiter is long enough.
LEMMA HintSuffices ==
    ASSUME LimiterInv
    PROVE  RetryAfterSuffices
<1> SUFFICES ASSUME IsFull(requests)
             PROVE  ~IsFull(Aged(requests, ResetSeconds(requests) * TicksPerSecond))
  BY DEF RetryAfterSuffices
<1>1. requests \in Seq(0..Window) /\ recent = Cleaned(requests) /\ SlidingLimit
  BY DEF LimiterInv, LimiterTypeOK
<1>2. PICK w \in Nat \ {0} : w = Window
  BY WindowPositive
<1>3. PICK c \in Seq(0..w) : c = Cleaned(requests) /\ Len(c) \in Nat
  BY <1>1, <1>2, CleanedType
<1>4. Len(c) = MaxRequests /\ c # <<>>
  <2>1. Len(c) >= MaxRequests /\ Len(c) <= MaxRequests /\ MaxRequests \in Nat \ {0}
    BY <1>1, <1>3, LimiterAssumption DEF IsFull, SlidingLimit
  <2>2. Len(c) = MaxRequests /\ Len(c) # 0
    BY <1>3, <2>1
  <2> QED
    BY <2>2
<1>5. c[1] \in 0..w
  BY <1>3, <1>4
<1>6. PICK x \in Nat : x = w - c[1]
  BY <1>5
<1>7. PICK n \in Nat : n = ResetSeconds(requests) * TicksPerSecond /\ n >= x
  <2>1. ResetSeconds(requests) = (x \div TicksPerSecond) + 1
    BY <1>2, <1>3, <1>6 DEF ResetSeconds
  <2> QED
    BY <2>1, RoundedUp, LimiterAssumption
<1>8. c[1] + n >= w
  BY <1>5, <1>6, <1>7
<1>9. Len(Cleaned(Aged(requests, n))) < Len(c)
  BY <1>1, <1>2, <1>3, <1>4, <1>8, CleanedAfterWait
<1>10. Len(Cleaned(Aged(requests, n))) \in Nat
  <2>1. requests \in Seq(Nat)
    BY <1>1, <1>2
  <2>2. Aged(requests, n) \in Seq(0..Window)
    BY <2>1, AgedAppend
  <2> QED
    BY <2>2, CleanedType
<1>11. ~(Len(Cleaned(Aged(requests, n))) >= MaxRequests)
  BY <1>3, <1>4, <1>9, <1>10
<1> QED
  BY <1>7, <1>11 DEF IsFull

-----------------------------------------------------------------------------
(* The client and its breaker *)

BreakerInv == BreakerTypeOK /\ ClosedBelowThreshold

\* A request that nobody waits for was lost by an error.
ClientInv ==
    /\ pc \in [Tasks -> {"idle", "sent", "ok", "failed", "backoff"}]
    /\ attempt \in [Tasks -> 0..MaxRetries]
    /\ errors \in 0..MaxErrors
    /\ stray \in 0..errors

IInv == LimiterInv /\ BreakerInv /\ ClientInv

\* The limiter through a step of the client.
LEMMA NextLimiter ==
    ASSUME IInv, [Next]_vars
    PROVE  LimiterInv'
<1>0. LimiterInv
  BY DEF IInv
<1>1. CASE UNCHANGED limiterVars
  <2>1. requests' = requests /\ recent' = recent
    BY <1>1 DEF limiterVars
  <2>2. Cleaned(requests)' = Cleaned(requests)
    BY <2>1 DEF Cleaned, Younger, Window
  <2> QED
    BY <1>0, <2>1, <2>2 DEF LimiterInv, LimiterTypeOK, SlidingLimit, Window
<1>2. CASE Allow
  BY <1>0, <1>2, AllowStep
<1>3. CASE Reject
  BY <1>0, <1>3, RejectStep
<1>4. CASE LimiterTick
  BY <1>0, <1>4, TickStep
<1>5. ASSUME NEW t \in Tasks, TaskStep(t) \/ Cancel(t)
      PROVE  UNCHANGED limiterVars \/ Allow \/ Reject
  BY <1>5 DEF TaskStep, Begin, Answer, AnswerError, TooManyRequests, RequestError,
              Succeed, Backoff, GiveUp, Resend, Cancel
<1>6. CASE StrayArrives
  BY <1>2, <1>3, <1>6 DEF StrayArrives
<1>7. CASE Tick
  BY <1>4, <1>7 DEF Tick
<1>8. CASE UNCHANGED vars
  BY <1>1, <1>8 DEF vars, limiterVars
<1> QED
  BY <1>1, <1>2, <1>3, <1>5, <1>6, <1>7, <1>8 DEF Next

\* The breaker through each of its methods.
LEMMA BreakerSteps ==
    ASSUME BreakerInv
    PROVE  /\ MayRequest /\ CheckState => BreakerInv'
           /\ RecordSuccess => BreakerInv'
           /\ RecordFailure => BreakerInv'
           /\ BreakerTick => BreakerInv'
           /\ UNCHANGED breakerVars => BreakerInv'
<1> USE BreakerAssumption DEF BreakerInv, BreakerTypeOK, ClosedBelowThreshold
<1>1. MayRequest /\ CheckState => BreakerInv'
  BY DEF CheckState
<1>2. RecordSuccess => BreakerInv'
  BY DEF RecordSuccess
<1>3. RecordFailure => BreakerInv'
  BY DEF RecordFailure
<1>4. BreakerTick => BreakerInv'
  BY DEF BreakerTick
<1>5. UNCHANGED breakerVars => BreakerInv'
  BY DEF breakerVars
<1> QED
  BY <1>1, <1>2, <1>3, <1>4, <1>5

\* The breaker through a step of the client.
LEMMA NextBreaker ==
    ASSUME IInv, [Next]_vars
    PROVE  BreakerInv'
<1>1. ASSUME NEW t \in Tasks, TaskStep(t) \/ Cancel(t)
      PROVE  UNCHANGED breakerVars \/ (MayRequest /\ CheckState) \/ RecordSuccess \/ RecordFailure
  BY <1>1 DEF TaskStep, Begin, Answer, AnswerError, TooManyRequests, RequestError,
              Succeed, Backoff, GiveUp, Resend, Cancel
<1>2. StrayArrives => UNCHANGED breakerVars
  BY DEF StrayArrives
<1>3. Tick => BreakerTick
  BY DEF Tick
<1>4. UNCHANGED vars => UNCHANGED breakerVars
  BY DEF vars, breakerVars
<1>5. BreakerInv
  BY DEF IInv
<1> QED
  BY <1>1, <1>2, <1>3, <1>4, <1>5, BreakerSteps DEF Next

\* The tasks through a step.
LEMMA NextClient ==
    ASSUME IInv, [Next]_vars
    PROVE  ClientInv'
<1>0. ClientInv
  BY DEF IInv
<1> USE <1>0, ClientAssumption DEF ClientInv
<1>1. ASSUME NEW t \in Tasks, TaskStep(t) PROVE ClientInv'
  <2>1. CASE Begin(t)
    BY <2>1 DEF Begin, Goto
  <2>2. CASE Answer(t)
    BY <2>2 DEF Answer, Goto
  <2>3. CASE AnswerError(t)
    BY <2>3 DEF AnswerError, Goto, Fault
  <2>4. CASE TooManyRequests(t)
    BY <2>4 DEF TooManyRequests, Goto
  <2>5. CASE RequestError(t)
    BY <2>5 DEF RequestError, Goto, Fault
  <2>6. CASE Succeed(t)
    BY <2>6 DEF Succeed, Goto
  <2>7. CASE Backoff(t)
    BY <2>7 DEF Backoff, Goto
  <2>8. CASE GiveUp(t)
    BY <2>8 DEF GiveUp, Goto
  <2>9. CASE Resend(t)
    BY <2>9 DEF Resend, Goto
  <2> QED
    BY <1>1, <2>1, <2>2, <2>3, <2>4, <2>5, <2>6, <2>7, <2>8, <2>9 DEF TaskStep
<1>2. ASSUME NEW t \in Tasks, Cancel(t) PROVE ClientInv'
  BY <1>2 DEF Cancel, Goto, Fault
<1>3. CASE StrayArrives
  BY <1>3 DEF StrayArrives, clientVars
<1>4. CASE Tick
  BY <1>4 DEF Tick, clientVars
<1>5. CASE UNCHANGED vars
  BY <1>5 DEF vars
<1> QED
  BY <1>1, <1>2, <1>3, <1>4, <1>5 DEF Next

-----------------------------------------------------------------------------
(* The theorems *)

\* The inductive invariant holds in every reachable state.
THEOREM Invariance == Spec => []IInv
<1>1. Init => IInv
  <2> SUFFICES ASSUME Init PROVE IInv
    OBVIOUS
  <2>1. LimiterInv
    <3>1. requests = <<>> /\ recent = <<>>
      BY DEF Init, LimiterInit
    <3>2. Cleaned(requests) = <<>>
      BY <3>1, YoungerEmpty DEF Cleaned
    <3>3. Len(recent) = 0 /\ 0 <= MaxRequests
      BY <3>1, LimiterAssumption
    <3> QED
      BY <3>1, <3>2, <3>3 DEF LimiterInv, LimiterTypeOK, SlidingLimit
  <2>2. BreakerInv
    BY BreakerAssumption DEF Init, BreakerInit, BreakerInv, BreakerTypeOK, ClosedBelowThreshold
  <2>3. ClientInv
    BY ClientAssumption DEF Init, ClientInv
  <2> QED
    BY <2>1, <2>2, <2>3 DEF IInv
<1>2. IInv /\ [Next]_vars => IInv'
  BY NextLimiter, NextBreaker, NextClient DEF IInv
<1> QED
  BY <1>1, <1>2, PTL DEF Spec

\* Every variable keeps its type.
THEOREM TypeCorrect == Spec => []TypeOK
<1>1. IInv => TypeOK
  BY ClientAssumption DEF IInv, LimiterInv, BreakerInv, ClientInv, TypeOK
<1> QED
  BY <1>1, Invariance, PTL

\* SlidingWindowRateLimiter.check never allows more than max_requests within a
\* window, wherever the window starts.
THEOREM WindowIsNeverOverfull == Spec => []SlidingLimit
<1>1. IInv => SlidingLimit
  BY DEF IInv, LimiterInv
<1> QED
  BY <1>1, Invariance, PTL

\* The Retry-After of a rejection is enough for one request to leave the window.
THEOREM RetryAfterIsEnough == Spec => []RetryAfterSuffices
<1>1. IInv => RetryAfterSuffices
  BY HintSuffices DEF IInv
<1> QED
  BY <1>1, Invariance, PTL

\* The breaker is closed exactly while its count is below failure_threshold.
THEOREM BreakerAgreesWithCount == Spec => []ClosedBelowThreshold
<1>1. IInv => ClosedBelowThreshold
  BY DEF IInv, BreakerInv
<1> QED
  BY <1>1, Invariance, PTL

\* An open breaker lets no new request through before it becomes half-open.
THEOREM OpenBreakerAdmitsNobody == Spec => OpenAdmitsNobody
<1>1. IInv /\ [Next]_vars =>
         [state = "OPEN" /\ (Recovered => state' = "OPEN") => InFlight' \subseteq InFlight]_vars
  <2> SUFFICES ASSUME IInv, [Next]_vars, state = "OPEN", Recovered => state' = "OPEN"
               PROVE  InFlight' \subseteq InFlight
    OBVIOUS
  <2>1. pc \in [Tasks -> {"idle", "sent", "ok", "failed", "backoff"}]
    BY DEF IInv, ClientInv
  <2>2. ASSUME NEW t \in Tasks, Begin(t) PROVE FALSE
    BY <2>2 DEF Begin, MayRequest, CheckState
  <2>3. ASSUME NEW t \in Tasks, TaskStep(t) \/ Cancel(t)
        PROVE  pc[t] # "idle" /\ \E point : pc' = [pc EXCEPT ![t] = point]
    BY <2>2, <2>3 DEF TaskStep, Answer, AnswerError, TooManyRequests, RequestError,
                      Succeed, Backoff, GiveUp, Resend, Cancel, Goto
  <2>4. ASSUME NEW t \in Tasks, TaskStep(t) \/ Cancel(t) PROVE InFlight' \subseteq InFlight
    BY <2>1, <2>3, <2>4 DEF InFlight
  <2>5. StrayArrives \/ Tick \/ UNCHANGED vars => pc' = pc
    BY DEF StrayArrives, Tick, clientVars, vars
  <2> QED
    BY <2>4, <2>5 DEF Next, InFlight
<1> QED
  BY <1>1, Invariance, PTL DEF Spec, OpenAdmitsNobody
=============================================================================
