-------------------------- MODULE PriceFeedProofs ---------------------------
(***************************************************************************)
(* Proofs about PriceFeed, for any number of pairs, fetchers and loops,    *)
(* and any quotes of the exchanges.                                        *)
(***************************************************************************)
EXTENDS PriceFeed, FiniteSetTheorems, FunctionTheorems, NaturalsInduction, TLAPS

-----------------------------------------------------------------------------
(* Sorting                                                                 *)

\* induction, for a set instead of a predicate

LEMMA NatSetInduction ==
    ASSUME NEW S, 0 \in S, \A m \in Nat : m \in S => m + 1 \in S
    PROVE  Nat \subseteq S
  <1> DEFINE R == {ss \in Nat \X Nat : ss[1] < ss[2]}
             T == Nat \ S
  <1> SUFFICES ASSUME T # {} PROVE FALSE
    BY Zenon
  <1>1. IsWellFoundedOn(R, Nat)
    BY NatLessThanWellFounded DEF OpToRel
  <1>2. T \in SUBSET Nat
    BY Zenon
  <1> HIDE DEF R, T
  <1>3. PICK x \in T : \A y \in T : ~ (<<y, x>> \in R)
    BY <1>1, <1>2, WFMin, Zenon
  <1>4. \A y \in T : ~ (y < x)
    BY <1>2, <1>3, Zenon DEF R
  <1>5. x \in Nat /\ x # 0 /\ x - 1 \in Nat
    BY <1>2, <1>3 DEF T
  <1>6. x - 1 \in S
    BY <1>4, <1>5 DEF T
  <1> QED BY <1>3, <1>5, <1>6 DEF T

LEMMA Largest ==
    ASSUME NEW n \in Nat \ {0}, NEW s \in [1..n -> Int]
    PROVE  \E k \in 1..n : \A i \in 1..n : s[i] <= s[k]
  <1> DEFINE Has(m) == \E k \in 1..(m + 1) : \A i \in 1..(m + 1) : s[i] <= s[k]
             S == {m \in Nat : m < n => Has(m)}
  <1>1. 0 < n => Has(0)
    <2>1. \A i \in 1..(0 + 1) : i = 1
      OBVIOUS
    <2>2. 1 \in 1..(0 + 1) /\ s[1] \in Int
      OBVIOUS
    <2> QED BY <2>1, <2>2
  <1>2. ASSUME NEW m \in Nat, m < n => Has(m), m + 1 < n PROVE Has(m + 1)
    <2>1. PICK k \in 1..(m + 1) : \A i \in 1..(m + 1) : s[i] <= s[k]
      BY <1>2
    <2> DEFINE l == m + 2
    <2>2. l \in 1..((m + 1) + 1) /\ k \in 1..((m + 1) + 1) /\ k \in 1..n /\ l \in 1..n
      BY <1>2
    <2>3. \A i \in 1..((m + 1) + 1) : i = l \/ i \in 1..(m + 1)
      OBVIOUS
    <2> HIDE DEF l
    <2>4. s[l] \in Int /\ s[k] \in Int
      BY <2>2, Zenon
    <2>5. CASE s[l] <= s[k]
      BY <2>1, <2>2, <2>3, <2>5, SMTT(30)
    <2>6. CASE s[k] <= s[l]
      <3>1. \A i \in 1..(m + 1) : s[i] \in Int
        BY <1>2
      <3>2. \A i \in 1..(m + 1) : s[i] <= s[l]
        BY <2>1, <2>4, <2>6, <3>1, SMTT(30)
      <3> QED BY <2>2, <2>3, <2>4, <3>2, SMTT(30)
    <2> QED BY <2>4, <2>5, <2>6
  <1> HIDE DEF Has
  <1>3. Nat \subseteq S
    <2>1. 0 \in S
      BY <1>1, Zenon
    <2>2. \A m \in Nat : m \in S => m + 1 \in S
      BY <1>2
    <2> HIDE DEF S
    <2> QED BY <2>1, <2>2, NatSetInduction, Zenon
  <1>4. n - 1 \in Nat /\ n - 1 < n /\ (n - 1) + 1 = n
    OBVIOUS
  <1>5. Has(n - 1)
    BY <1>3, <1>4, Zenon
  <1> QED BY <1>4, <1>5, Zenon DEF Has

IsOrder(f, s, n) ==
    /\ f \in [1..n -> 1..n]
    /\ \A i, j \in 1..n : f[i] = f[j] => i = j
    /\ \A i \in 1..n : \E j \in 1..n : f[j] = i
    /\ \A i, j \in 1..n : i <= j => s[f[i]] <= s[f[j]]

\* the order that computeMedian sorts by exists
LEMMA SortingOrder ==
    ASSUME NEW n \in Nat, NEW s \in [1..n -> Int]
    PROVE  \E f : IsOrder(f, s, n)
  <1> DEFINE Sortable(m) == \A r \in [1..m -> Int] : \E f : IsOrder(f, r, m)
             S == {m \in Nat : Sortable(m)}
  <1>1. Sortable(0)
    <2> SUFFICES ASSUME NEW r \in [1..0 -> Int] PROVE IsOrder([i \in 1..0 |-> i], r, 0)
      BY Zenon
    <2> QED BY DEF IsOrder
  <1>2. ASSUME NEW m \in Nat, Sortable(m) PROVE Sortable(m + 1)
    <2> SUFFICES ASSUME NEW r \in [1..(m + 1) -> Int] PROVE \E f : IsOrder(f, r, m + 1)
      BY Zenon
    <2>1. PICK N \in Nat \ {0} : N = m + 1
      OBVIOUS
    <2>2. r \in [1..N -> Int]
      BY <2>1, Zenon
    <2>3. PICK k \in 1..N : \A i \in 1..N : r[i] <= r[k]
      BY <2>2, Largest, Zenon
    \* the largest changes places with the last, and the others are sorted
    <2> DEFINE swap(i) == IF i = k THEN N ELSE IF i = N THEN k ELSE i
               rest == [i \in 1..m |-> r[swap(i)]]
    <2>4. \A i \in 1..N : swap(i) \in 1..N /\ swap(swap(i)) = i /\ (swap(i) = k <=> i = N)
      BY <2>1
    <2>5. \A i \in 1..N : i # N <=> i \in 1..m
      BY <2>1
    <2> HIDE DEF swap
    <2>6. rest \in [1..m -> Int]
      BY <2>2, <2>4, <2>5
    <2>7. PICK g : IsOrder(g, rest, m)
      BY <1>2, <2>6, Zenon
    <2>8. g \in [1..m -> 1..m]
      BY <2>7 DEF IsOrder
    <2> DEFINE f == [i \in 1..N |-> IF i = N THEN k ELSE swap(g[i])]
    <2>9. f[N] = k /\ \A i \in 1..m : g[i] \in 1..m /\ f[i] = swap(g[i]) /\ f[i] \in 1..N /\ f[i] # k
      <3>1. N \in 1..N /\ \A i \in 1..m : i \in 1..N /\ i # N
        BY <2>1
      <3>2. \A i \in 1..m : g[i] \in 1..m
        BY <2>8, Zenon
      <3> QED BY <2>4, <3>1, <3>2, Zenon
    <2> HIDE DEF f
    <2>10. f \in [1..N -> 1..N]
      <3>1. \A i \in 1..N : f[i] \in 1..N
        BY <2>5, <2>9, Zenon
      <3>2. f = [i \in 1..N |-> f[i]]
        BY Zenon DEF f
      <3> QED BY <3>1, <3>2, Zenon
    <2>11. ASSUME NEW i \in 1..N, NEW j \in 1..N, f[i] = f[j] PROVE i = j
      <3>1. CASE i \in 1..m /\ j \in 1..m
        <4>1. swap(g[i]) = swap(g[j])
          BY <2>9, <2>11, <3>1, Zenon
        <4>2. g[i] \in 1..N /\ g[j] \in 1..N
          BY <2>5, <2>9, <3>1
        <4>3. g[i] = g[j]
          BY <2>4, <4>1, <4>2, SMTT(30)
        <4> QED BY <2>7, <3>1, <4>3, Zenon DEF IsOrder
      <3> QED BY <2>5, <2>9, <2>11, <3>1, Zenon
    <2>12. ASSUME NEW i \in 1..N PROVE \E j \in 1..N : f[j] = i
      <3>1. CASE i = k
        BY <2>1, <2>9, <3>1
      <3>2. CASE i # k
        <4>1. swap(i) \in 1..m
          <5>1. swap(i) # N
            BY <2>4, <3>2, Zenon
          <5> QED BY <2>4, <2>5, <5>1, Zenon
        <4>2. PICK j \in 1..m : g[j] = swap(i)
          BY <2>7, <4>1, Zenon DEF IsOrder
        <4>3. j \in 1..N /\ f[j] = i
          <5>1. j \in 1..N
            BY <2>1, <4>2
          <5>2. f[j] = swap(swap(i))
            BY <2>9, <4>2, Zenon
          <5> QED BY <2>4, <5>1, <5>2
        <4> QED BY <4>3, Zenon
      <3> QED BY <3>1, <3>2, Zenon
    <2>13. ASSUME NEW i \in 1..N, NEW j \in 1..N, i <= j PROVE r[f[i]] <= r[f[j]]
      <3>1. CASE j = N
        BY <2>3, <2>9, <2>10, <3>1, Zenon
      <3>2. CASE j # N
        <4>1. i \in 1..m /\ j \in 1..m
          BY <2>5, <2>13, <3>2, SMTT(30)
        <4>2. rest[g[i]] <= rest[g[j]]
          BY <2>7, <2>13, <4>1, Zenon DEF IsOrder
        <4> QED BY <2>9, <4>1, <4>2, SMTT(30)
      <3> QED BY <3>1, <3>2, Zenon
    <2>14. IsOrder(f, r, N)
      BY <2>10, <2>11, <2>12, <2>13, Zenon DEF IsOrder
    <2> QED BY <2>1, <2>14, Zenon
  <1> HIDE DEF Sortable
  <1>3. Nat \subseteq S
    <2>1. 0 \in S
      BY <1>1
    <2>2. \A m \in Nat : m \in S => m + 1 \in S
      BY <1>2
    <2> HIDE DEF S
    <2> QED BY <2>1, <2>2, NatSetInduction, Zenon
  <1>4. Sortable(n)
    BY <1>3
  <1> QED BY <1>4, Zenon DEF Sortable

\* computeMedian's sorted copy is the numbers in such an order
LEMMA SortedCopyIsSorted ==
    ASSUME NEW nums \in Seq(Int)
    PROVE  \E f : /\ IsOrder(f, nums, Len(nums))
                  /\ sortedCopy(nums) = [i \in 1..Len(nums) |-> nums[f[i]]]
  <1> DEFINE n == Len(nums)
  <1>1. n \in Nat /\ DOMAIN nums = 1..n /\ nums \in [1..n -> Int]
    OBVIOUS
  <1> HIDE DEF n
  <1>2. PICK g : IsOrder(g, nums, n)
    BY <1>1, SortingOrder
  <1>3. g \in Bijection(1..n, 1..n) /\ Sorts(g, nums)
    <2>1. g \in Bijection(1..n, 1..n)
      BY <1>2, Fun_IsBij, Zenon DEF IsOrder
    <2> QED BY <1>1, <1>2, <2>1 DEF IsOrder, Sorts
  <1> DEFINE order == CHOOSE o \in Bijection(DOMAIN nums, DOMAIN nums) : Sorts(o, nums)
  <1>4. order \in Bijection(1..n, 1..n) /\ Sorts(order, nums)
    BY <1>1, <1>3
  <1>5. sortedCopy(nums) = [i \in 1..n |-> nums[order[i]]]
    BY <1>1 DEF sortedCopy
  <1> HIDE DEF order
  <1>6. IsOrder(order, nums, n)
    BY <1>1, <1>4, Zenon DEF IsOrder, Sorts, Bijection, Injection, Surjection, IsInjective
  <1> QED BY <1>5, <1>6 DEF n

\* a number that an injection sends k indexes below (or above) counts at least k
LEMMA EnoughOfThem ==
    ASSUME NEW n \in Nat, NEW a \in Nat, NEW b \in Nat, 1 <= a, a <= b + 1, b <= n,
           NEW S \in SUBSET (1..n), NEW f \in [1..n -> 1..n],
           \A i, j \in 1..n : f[i] = f[j] => i = j,
           \A i \in a..b : f[i] \in S
    PROVE  Cardinality(S) \in Nat /\ b - a + 1 <= Cardinality(S)
  <1> DEFINE h == [i \in a..b |-> f[i]]
  <1>1. IsFiniteSet(1..n)
    BY FS_Interval
  <1>2. IsFiniteSet(S)
    BY <1>1, FS_Subset, Zenon
  <1>3. Cardinality(S) \in Nat
    BY <1>2, FS_CardinalityType
  <1>4. \A i \in a..b : i \in 1..n
    OBVIOUS
  <1>5. h \in [a..b -> S]
    BY Zenon
  <1>6. \A i, j \in a..b : h[i] = h[j] => i = j
    BY <1>4, Zenon
  <1> HIDE DEF h
  <1>7. h \in Injection(a..b, S)
    BY <1>5, <1>6, Fun_IsInj, Zenon
  <1>8. Cardinality(a..b) <= Cardinality(S)
    BY <1>2, <1>7, FS_Injection, Zenon
  <1>9. Cardinality(a..b) = IF a > b THEN 0 ELSE b - a + 1
    BY FS_Interval
  <1> QED BY <1>3, <1>8, <1>9

\* what is sorted up to a position is not larger, what is sorted from it on not smaller
LEMMA Ranks ==
    ASSUME NEW n \in Nat, NEW s \in [1..n -> Int], NEW f, IsOrder(f, s, n),
           NEW lo \in 1..n, NEW hi \in 1..n, NEW m \in Int,
           s[f[lo]] <= m, m <= s[f[hi]],
           NEW below \in SUBSET (1..n), \A i \in 1..n : s[i] <= m => i \in below,
           NEW above \in SUBSET (1..n), \A i \in 1..n : s[i] >= m => i \in above
    PROVE  /\ Cardinality(below) \in Nat /\ Cardinality(below) >= lo
           /\ Cardinality(above) \in Nat /\ Cardinality(above) >= n - hi + 1
  <1>1. /\ f \in [1..n -> 1..n]
        /\ \A i, j \in 1..n : f[i] = f[j] => i = j
        /\ \A i, j \in 1..n : i <= j => s[f[i]] <= s[f[j]]
    BY Zenon DEF IsOrder
  <1>2. \A i \in 1..n : f[i] \in 1..n /\ s[f[i]] \in Int
    BY <1>1, Zenon
  <1>3. \A i \in 1..lo : i \in 1..n /\ i <= lo
    OBVIOUS
  <1>4. \A i \in hi..n : i \in 1..n /\ hi <= i
    OBVIOUS
  <1>5. ASSUME NEW i \in 1..lo PROVE f[i] \in below
    <2>1. s[f[i]] <= s[f[lo]]
      BY <1>1, <1>3, Zenon
    <2> QED BY <1>2, <1>3, <2>1
  <1>6. ASSUME NEW i \in hi..n PROVE f[i] \in above
    <2>1. s[f[hi]] <= s[f[i]]
      BY <1>1, <1>4, SMTT(30)
    <2> QED BY <1>2, <1>4, <2>1
  <1>7. Cardinality(below) \in Nat /\ lo - 1 + 1 <= Cardinality(below)
    <2>1. 1 \in Nat /\ lo \in Nat /\ 1 <= 1 /\ 1 <= lo + 1 /\ lo <= n
      OBVIOUS
    <2> QED BY <1>1, <1>5, <2>1, EnoughOfThem, Zenon
  <1>8. Cardinality(above) \in Nat /\ n - hi + 1 <= Cardinality(above)
    <2>1. hi \in Nat /\ 1 <= hi /\ hi <= n + 1 /\ n <= n
      OBVIOUS
    <2> QED BY <1>1, <1>6, <2>1, EnoughOfThem, Zenon
  <1> QED BY <1>7, <1>8

LEMMA MedianIsMedian ==
    ASSUME NEW nums \in Seq(Int), nums # <<>>
    PROVE  /\ computeMedian(nums) \in Int
           /\ IsMedian(computeMedian(nums), nums)
           /\ (\A i \in DOMAIN nums : nums[i] >= 0) => computeMedian(nums) >= 0
  <1>1. PICK n \in Nat \ {0} : n = Len(nums) /\ DOMAIN nums = 1..n /\ nums \in [1..n -> Int]
    OBVIOUS
  <1>2. PICK f : IsOrder(f, nums, n) /\ sortedCopy(nums) = [i \in 1..n |-> nums[f[i]]]
    BY <1>1, SortedCopyIsSorted
  <1>3. \A i \in 1..n : f[i] \in 1..n /\ nums[f[i]] \in Int
    BY <1>1, <1>2, Zenon DEF IsOrder
  <1>4. PICK mid \in Nat : mid = n \div 2
    OBVIOUS
  <1>5. computeMedian(nums) =
            IF n % 2 # 0 THEN sortedCopy(nums)[mid + 1]
            ELSE (sortedCopy(nums)[mid] + sortedCopy(nums)[mid + 1]) \div 2
    BY <1>1, <1>4 DEF computeMedian
  <1>6. ASSUME NEW lo \in 1..n, NEW hi \in 1..n, 2 * lo >= n, 2 * (n - hi + 1) >= n,
               NEW m \in Int, m = computeMedian(nums), nums[f[lo]] <= m, m <= nums[f[hi]]
        PROVE  IsMedian(m, nums)
    <2> DEFINE below == {i \in DOMAIN nums : nums[i] <= m}
               above == {i \in DOMAIN nums : nums[i] >= m}
    <2>1. /\ below \in SUBSET (1..n) /\ \A i \in 1..n : nums[i] <= m => i \in below
          /\ above \in SUBSET (1..n) /\ \A i \in 1..n : nums[i] >= m => i \in above
      BY <1>1
    <2> HIDE DEF below, above
    <2>2. /\ Cardinality(below) \in Nat /\ Cardinality(below) >= lo
          /\ Cardinality(above) \in Nat /\ Cardinality(above) >= n - hi + 1
      <3>1. n \in Nat /\ nums \in [1..n -> Int] /\ IsOrder(f, nums, n)
        BY <1>1, <1>2
      <3>2. nums[f[lo]] <= m /\ m <= nums[f[hi]]
        BY <1>6
      <3> QED BY <2>1, <3>1, <3>2, Ranks, ZenonT(30)
    <2>3. 2 * Cardinality(below) >= n /\ 2 * Cardinality(above) >= n
      BY <1>6, <2>2, SMTT(30)
    <2> QED BY <1>1, <2>3 DEF IsMedian, below, above
  <1>7. CASE n % 2 # 0
    <2>1. mid + 1 \in 1..n /\ 2 * (mid + 1) >= n /\ 2 * (n - (mid + 1) + 1) >= n
      BY <1>4, <1>7
    <2>2. computeMedian(nums) = nums[f[mid + 1]]
      BY <1>2, <1>5, <1>7, <2>1, SMTT(30)
    <2>3. computeMedian(nums) \in Int /\ nums[f[mid + 1]] <= computeMedian(nums)
      BY <1>3, <2>1, <2>2, SMTT(30)
    <2>4. IsMedian(computeMedian(nums), nums)
      BY <1>6, <2>1, <2>2, <2>3, SMTT(30)
    <2> QED BY <1>1, <1>3, <2>1, <2>2, <2>3, <2>4, Zenon
  <1>8. CASE n % 2 = 0
    <2>1. mid \in 1..n /\ mid + 1 \in 1..n /\ 2 * mid >= n /\ 2 * (n - (mid + 1) + 1) >= n
      BY <1>4, <1>8
    <2>2. PICK l \in Int, h \in Int : l = nums[f[mid]] /\ h = nums[f[mid + 1]]
      BY <1>3, <2>1
    <2>3. computeMedian(nums) = (l + h) \div 2
      BY <1>2, <1>5, <1>8, <2>1, <2>2, SMTT(30)
    <2>4. l <= h
      BY <1>2, <2>1, <2>2 DEF IsOrder
    <2>5. PICK m \in Int : m = (l + h) \div 2 /\ l <= m /\ m <= h /\ (l >= 0 => m >= 0)
      BY <2>4
    <2>6. IsMedian(m, nums)
      BY <1>6, <2>1, <2>2, <2>3, <2>5, SMTT(30)
    <2> QED BY <1>1, <1>3, <2>1, <2>2, <2>3, <2>5, <2>6, Zenon
  <1> QED BY <1>1, <1>7, <1>8

-----------------------------------------------------------------------------
(* The polling loop.  ph.cancel is set exactly while a goroutine runs.     *)

PollingInv ==
    /\ PollingTypeOK
    /\ OneLoopAndCloseReachesIt
    /\ cancel # 0 => Active(cancel)
    /\ \A l \in Loops : loop[l].pc = "none" => ~loop[l].done

LEMMA InitPollingInv == Init => PollingInv
  BY StartsAreBounded, SMTT(30)
  DEF Init, PollingInit, PollingInv, PollingTypeOK, OneLoopAndCloseReachesIt, Active, NotStarted, Loops

LEMMA NextPollingInv == PollingInv /\ [Next]_vars => PollingInv'
  <1> SUFFICES ASSUME PollingInv, [Next]_vars PROVE PollingInv'
    OBVIOUS
  <1> USE StartsAreBounded
      DEF PollingInv, PollingTypeOK, OneLoopAndCloseReachesIt, Active, Loops
  <1>1. CASE UNCHANGED pollingVars
    BY <1>1 DEF pollingVars
  <1>2. CASE StartProcessingLoop
    BY <1>2 DEF StartProcessingLoop
  <1>3. CASE Close
    BY <1>3, ZenonT(60) DEF Close
  <1>4. ASSUME NEW l \in Loops,
               TimerFires(l) \/ ExecuteReturns(l) \/ SelectTimer(l) \/ SelectDone(l)
        PROVE  PollingInv'
    <2> DEFINE rec == loop'[l]
    <2>1. /\ loop' = [loop EXCEPT ![l] = rec]
          /\ rec \in [pc : {"execute", "wait", "cleanup"}, done : BOOLEAN, armed : BOOLEAN, tick : BOOLEAN]
          /\ rec.done = loop[l].done
      <3>1. CASE TimerFires(l)
        BY <3>1, ZenonT(30) DEF TimerFires
      <3>2. CASE ExecuteReturns(l)
        BY <3>2, ZenonT(30) DEF ExecuteReturns
      <3>3. CASE SelectTimer(l)
        BY <3>3 DEF SelectTimer
      <3>4. CASE SelectDone(l)
        BY <3>4, ZenonT(60) DEF SelectDone
      <3> QED BY <1>4, <3>1, <3>2, <3>3, <3>4
    <2>2. UNCHANGED cancel /\ Active(l)
      BY <1>4, Zenon DEF TimerFires, ExecuteReturns, SelectTimer, SelectDone
    <2> HIDE DEF rec
    <2> QED BY <2>1, <2>2
  <1>5. ASSUME NEW l \in Loops, cleanup(l) PROVE PollingInv'
    BY <1>5 DEF cleanup
  <1> HIDE DEF PollingInv
  <1> QED
    BY <1>1, <1>2, <1>3, <1>4, <1>5
    DEF Next, LoopStep, ClosesLoop, Timer, ExecuteStep, Faults, Owner, Outside, vars

(* pollingHandler: however StartProcessingLoop, Close, the timer and the   *)
(* end of the goroutine interleave, one goroutine at most runs the         *)
(* executor, and Close can reach it.                                       *)
THEOREM OneLoopAlways == Spec => []OneLoopAndCloseReachesIt
  <1>1. PollingInv => OneLoopAndCloseReachesIt
    BY Zenon DEF PollingInv
  <1> QED BY <1>1, InitPollingInv, NextPollingInv, PTL DEF Spec

-----------------------------------------------------------------------------
(* Prices                                                                  *)

LEMMA DivUnique ==
    ASSUME NEW q \in Nat, NEW d \in Nat \ {0}, NEW r \in 0..(d - 1)
    PROVE  (q * d + r) \div d = q
  OBVIOUS

Multiples == {n \in Nat : \E k \in Nat : n = k * Precision}

\* trim rounds to a multiple of the precision, and leaves such a multiple as it is
LEMMA TrimRounds ==
    /\ \A v \in Nat : trim(v) \in Multiples
    /\ \A v \in Multiples : trim(v) = v
  <1> USE PrecisionIsPositive
  <1>1. ASSUME NEW v \in Nat PROVE trim(v) \in Multiples
    <2>1. (2 * v + Precision) \div (2 * Precision) \in Nat
      OBVIOUS
    <2>2. ASSUME NEW k \in Nat PROVE k * Precision \in Multiples
      BY DEF Multiples
    <2> QED BY <2>1, <2>2, Zenon DEF trim
  <1>2. ASSUME NEW v \in Multiples PROVE trim(v) = v
    <2>1. PICK k \in Nat : v = k * Precision
      BY DEF Multiples
    <2>2. 2 * Precision \in Nat \ {0} /\ Precision \in 0..(2 * Precision - 1)
      OBVIOUS
    <2>3. 2 * v + Precision = k * (2 * Precision) + Precision
      BY <2>1
    <2>4. (2 * v + Precision) \div (2 * Precision) = k
      BY <2>2, <2>3, DivUnique
    <2> QED BY <2>1, <2>4 DEF trim
  <1> QED BY <1>1, <1>2, SMTT(30)

ShownBy(q, f) == q \in QuoteSet /\ (f = "EVM gas price station" => q.value >= 0)

\* a fetcher that answers without an error answers with a price
LEMMA FetchedIsNatural ==
    ASSUME NEW f, NEW q, ShownBy(q, f), FetchPrice(f, q).err = "none"
    PROVE  FetchPrice(f, q).price \in Nat
  <1> USE DEF Price, Failure, StrToPositiveFloat64
  <1>1. q.value \in Int
    BY Zenon DEF ShownBy, QuoteSet
  <1>2. FetchField(q).err = "none" => FetchField(q).price \in Nat
    BY <1>1 DEF FetchField
  <1>3. FetchNumber(q).err = "none" => FetchNumber(q).price \in Nat
    BY <1>1 DEF FetchNumber
  <1>4. FetchFirstEntry(q).err = "none" => FetchFirstEntry(q).price \in Nat
    BY <1>2 DEF FetchFirstEntry
  <1>5. FetchKraken(q).err = "none" => FetchKraken(q).price \in Nat
    BY <1>2 DEF FetchKraken
  <1>6. FetchXExchange(q).err = "none" => FetchXExchange(q).price \in Nat
    BY <1>3 DEF FetchXExchange
  <1>7. f = "EVM gas price station" /\ FetchGasPrice(q).err = "none" => FetchGasPrice(q).price \in Nat
    <2>1. f = "EVM gas price station" => q.value >= 0
      BY Zenon DEF ShownBy
    <2>2. FetchGasPrice(q).err = "none" => FetchGasPrice(q).price = q.value
      BY Zenon DEF FetchGasPrice
    <2>3. q.value >= 0 => q.value \in Nat
      BY <1>1
    <2> QED BY <2>1, <2>2, <2>3, ZenonT(30)
  <1> QED BY <1>2, <1>3, <1>4, <1>5, <1>6, <1>7, ZenonT(30) DEF FetchPrice

-----------------------------------------------------------------------------
(* The notifier                                                            *)

\* what is collected are prices, and the answer of an exchange stays a quote
CollectInv ==
    /\ quote \in [Pairs -> [Fetchers -> QuoteSet]]
    /\ \A p \in Pairs : \A f \in Exchanges[p] : ShownBy(quote[p][f], f)
    /\ asking \in SUBSET Fetchers
    /\ pc = "fetch" => asking \subseteq Exchanges[Pair]
    /\ prices \in Seq(Nat)
    /\ fetched \in Seq(Multiples)
    /\ Len(fetched) <= NumPairs
    /\ pc = "idle" => fetched = <<>>
    /\ pc = "fetch" => Len(fetched) < NumPairs
    /\ pc \in {"compute", "notify", "PriceChanged"} \/ (pc = "returned" /\ result = "ok") =>
         Len(fetched) = NumPairs

LEMMA NaturalsAreIntegers == \A s \in Seq(Nat) : s \in Seq(Int) /\ \A i \in DOMAIN s : s[i] >= 0
  OBVIOUS

LEMMA InitCollectInv == Init => CollectInv
  <1> SUFFICES ASSUME Init PROVE CollectInv
    OBVIOUS
  <1> USE PairsAndFetchers DEF Init, NotifierInit
  <1>1. \A p \in Pairs : \A f \in Exchanges[p] : ShownBy(quote[p][f], f)
    <2> SUFFICES ASSUME NEW p \in Pairs, NEW f \in Exchanges[p] PROVE ShownBy(quote[p][f], f)
      BY Zenon
    <2>1. f \in Fetchers
      BY Zenon DEF Pairs
    <2>2. quote[p][f] \in QuoteSet
      BY <2>1, QuotesAreShown, Zenon
    <2>3. InitialQuote[p][f] \in Quotes[p][f] \cup {InitialQuote[p][f]}
      BY Zenon
    <2>4. f = "EVM gas price station" => InitialQuote[p][f].value >= 0
      BY <2>3, QuotesAreShown, Zenon
    <2>5. quote = InitialQuote
      BY Zenon
    <2> QED BY <2>2, <2>4, <2>5, ZenonT(30) DEF ShownBy
  <1>2. quote \in [Pairs -> [Fetchers -> QuoteSet]]
    BY QuotesAreShown, Zenon
  <1>3. prices = <<>> /\ fetched = <<>> /\ asking = {} /\ pc = "idle"
    BY Zenon
  <1>4. <<>> \in Seq(Nat) /\ <<>> \in Seq(Multiples) /\ Len(<<>>) = 0
    OBVIOUS
  <1>5. Len(fetched) <= NumPairs
    BY <1>3, <1>4, SMTT(30)
  <1> QED BY <1>1, <1>2, <1>3, <1>4, <1>5, ZenonT(30) DEF CollectInv

LEMMA NextCollectInv == CollectInv /\ [Next]_vars => CollectInv'
  <1> SUFFICES ASSUME CollectInv, [Next]_vars PROVE CollectInv'
    BY Zenon
  <1> USE PairsAndFetchers DEF CollectInv, Pair, Pairs
  <1>1. CASE Execute
    BY <1>1 DEF Execute, outsideVars
  <1>2. ASSUME NEW f \in Fetchers, FetcherAnswers(f) PROVE CollectInv'
    <2> DEFINE r == FetchPrice(f, quote[Pair][f])
    <2>1. ShownBy(quote[Pair][f], f)
      BY <1>2 DEF FetcherAnswers
    <2>2. r.err = "none" => r.price \in Nat
      BY <2>1, FetchedIsNatural, Zenon
    <2>3. /\ prices' = IF r.err = "none" THEN Append(prices, r.price) ELSE prices
          /\ pc' \in {"fetch", "crashed"} /\ pc = "fetch"
          /\ asking' = asking \ {f}
          /\ UNCHANGED <<quote, result, fetched>>
      BY <1>2, Zenon DEF FetcherAnswers, outsideVars
    <2> HIDE DEF r
    <2>4. prices' \in Seq(Nat)
      BY <2>2, <2>3
    <2> QED BY <2>3, <2>4, SMTT(30)
  <1>3. ASSUME NEW f \in Fetchers, FetcherFails(f, CtxDone) PROVE CollectInv'
    BY <1>3, Zenon DEF FetcherFails
  <1>4. CASE FetchPriceReturns
    <2>1. CASE Len(prices) < MinResultsNum
      BY <1>4, <2>1 DEF FetchPriceReturns, outsideVars
    <2>2. CASE Len(prices) >= MinResultsNum
      <3>1. prices # <<>>
        BY <2>2
      <3>2. computeMedian(prices) \in Nat
        BY <3>1, MedianIsMedian, NaturalsAreIntegers, SMTT(30)
      <3> DEFINE t == trim(computeMedian(prices))
      <3>3. t \in Multiples
        BY <3>2, TrimRounds, Zenon
      <3>4. /\ fetched' = Append(fetched, t) /\ prices' = <<>>
            /\ UNCHANGED <<quote, result>> /\ pc = "fetch"
            /\ IF Len(fetched) + 1 = NumPairs THEN pc' = "compute" /\ UNCHANGED asking
               ELSE asking' = Exchanges[Len(fetched) + 2] /\ UNCHANGED pc
        BY <1>4, <2>2 DEF FetchPriceReturns, outsideVars
      <3> HIDE DEF t
      <3>5. fetched' \in Seq(Multiples) /\ Len(fetched') = Len(fetched) + 1
        BY <3>3, <3>4
      <3> QED BY <3>4, <3>5
    <2> QED BY <2>1, <2>2
  <1>5. CASE computeNotifyArgsSlice
    BY <1>5, Zenon DEF computeNotifyArgsSlice, outsideVars
  <1>6. CASE notify
    BY <1>6 DEF notify, outsideVars
  <1>7. CASE PriceChanged \/ PriceChangedFails(CtxDone)
    BY <1>7 DEF PriceChanged, PriceChangedFails
  <1>8. CASE Returned
    BY <1>8, SMTT(30) DEF Returned, outsideVars
  <1>9. CASE ChangeQuote
    <2>1. PICK p \in Pairs : \E f \in Exchanges[p] : \E q \in Quotes[p][f] :
                                quote' = [quote EXCEPT ![p][f] = q]
      BY <1>9, Zenon DEF ChangeQuote
    <2>2. PICK f \in Exchanges[p] : \E q \in Quotes[p][f] : quote' = [quote EXCEPT ![p][f] = q]
      BY <2>1, Zenon
    <2>3. PICK q \in Quotes[p][f] : quote' = [quote EXCEPT ![p][f] = q]
      BY <2>2, Zenon
    <2>4. q \in QuoteSet /\ f \in Fetchers
      BY QuotesAreShown, Zenon
    <2>5. ShownBy(q, f)
      BY <2>4, QuotesAreShown, Zenon DEF ShownBy
    <2>6. quote' \in [Pairs -> [Fetchers -> QuoteSet]]
      BY <2>3, <2>4, SMTT(30)
    <2>7. \A p1 \in Pairs : \A f1 \in Exchanges[p1] : ShownBy(quote'[p1][f1], f1)
      BY <2>3, <2>4, <2>5, SMTT(30)
    <2>8. UNCHANGED <<asking, pc, prices, fetched, result>>
      BY <1>9 DEF ChangeQuote, callVars
    <2> QED BY <2>6, <2>7, <2>8, ZenonT(30) DEF CollectInv
  <1>10. CASE AutoSendIntervalElapses \/ UNCHANGED notifierVars
    BY <1>10, Zenon DEF AutoSendIntervalElapses, notifierVars, outsideVars, callVars, ShownBy
  <1> QED
    BY <1>1, <1>2, <1>3, <1>4, <1>5, <1>6, <1>7, <1>8, <1>9, <1>10, ZenonT(30)
    DEF Next, LoopStep, ClosesLoop, Timer, ExecuteStep, Faults, Owner, Outside, vars

(* priceAggregator.FetchPrice: in whatever order the fetchers answer, and  *)
(* whatever numbers they answer with, computeMedian is a median of them.   *)
THEOREM AlwaysMedianOfAnswers == Spec => []MedianOfAnswers
  <1>1. CollectInv => MedianOfAnswers
    BY MedianIsMedian, NaturalsAreIntegers DEF CollectInv, MedianOfAnswers
  <1> QED BY <1>1, InitCollectInv, NextCollectInv, PTL DEF Spec

(* No request has failed and no loop has been closed so far.               *)
Undisturbed == faults = 0 /\ \A l \in Loops : ~loop[l].done

\* what the contract has is what the notifier remembers, up to the step that
\* the conversion to the denominated price may lose
Delivered(p) ==
    /\ lastNotifiedPrices[p] - Precision <= delivered[p] * Precision
    /\ delivered[p] * Precision <= lastNotifiedPrices[p]

Near(p) ==
    Distance(lastNotifiedPrices[p], fetched[p]) * 100 < Percent[p] * lastNotifiedPrices[p]

AfterNotify == pc = "PriceChanged" \/ (pc = "returned" /\ result = "ok")

\* the pairs left out of a notification are near the price remembered for
\* them; the others are remembered before they are delivered
NotifyInv ==
    /\ faults \in Nat
    /\ toNotify \in SUBSET Pairs
    /\ lastNotifiedPrices \in [Pairs -> Multiples]
    /\ delivered \in [Pairs -> Nat]
    /\ pc = "notify" \/ AfterNotify => \A p \in Pairs : p \notin toNotify => Near(p)
    /\ AfterNotify => \A p \in toNotify : lastNotifiedPrices[p] = fetched[p]
    /\ Undisturbed => \A p \in Pairs : (pc = "PriceChanged" /\ p \in toNotify) \/ Delivered(p)

LEMMA InitNotifyInv == Init => NotifyInv
  <1> SUFFICES ASSUME Init PROVE NotifyInv
    BY Zenon
  <1> USE PrecisionIsPositive DEF Init, NotifierInit
  <1>1. 0 \in Multiples /\ 0 * Precision = 0
    BY DEF Multiples
  <1>2. \A p \in Pairs : Delivered(p)
    BY <1>1, SMTT(30) DEF Delivered
  <1> QED BY <1>1, <1>2, SMTT(30) DEF NotifyInv, AfterNotify

LEMMA NextNotifyInv == PollingInv /\ CollectInv /\ NotifyInv /\ [Next]_vars => NotifyInv'
  <1> SUFFICES ASSUME PollingInv, CollectInv, NotifyInv, [Next]_vars PROVE NotifyInv'
    OBVIOUS
  <1> USE PrecisionIsPositive, PairsAndFetchers
  \* a feed that is undisturbed has always been
  <1>1. Undisturbed' => Undisturbed
    <2>1. faults' = faults \/ faults' = faults + 1
      BY ZenonT(30) DEF Next, LoopStep, ClosesLoop, Timer, ExecuteStep, Faults, Owner, Outside, vars, notifierVars,
             outsideVars, Execute, Returned, FetcherAnswers, FetchPriceReturns, computeNotifyArgsSlice,
             notify, PriceChanged, FetcherFails, PriceChangedFails, Fault, ChangeQuote,
             AutoSendIntervalElapses
    <2>2. ASSUME NEW k \in Loops, loop[k].done PROVE loop'[k].done
      <3>1. CASE UNCHANGED pollingVars
        BY <2>2, <3>1, SMTT(30) DEF pollingVars
      <3>2. CASE StartProcessingLoop
        BY <2>2, <3>2 DEF StartProcessingLoop, PollingInv, PollingTypeOK
      <3>3. CASE Close
        BY <2>2, <3>3, SMTT(30) DEF Close, PollingInv, PollingTypeOK
      <3>4. ASSUME NEW l \in Loops,
                   \/ TimerFires(l) \/ ExecuteReturns(l) \/ SelectTimer(l) \/ SelectDone(l) \/ cleanup(l)
            PROVE  loop'[k].done
        BY <2>2, <3>4, SMTT(30) DEF TimerFires, ExecuteReturns, SelectTimer, SelectDone, cleanup, PollingInv, PollingTypeOK
      <3> QED
        BY <3>1, <3>2, <3>3, <3>4, ZenonT(30)
        DEF Next, LoopStep, ClosesLoop, Timer, ExecuteStep, Faults, Owner, Outside, vars
    <2> QED BY <2>1, <2>2, SMTT(30) DEF Undisturbed, NotifyInv
  <1>2. Undisturbed => ~CtxDone
    BY StartsAreBounded DEF Undisturbed, CtxDone, PollingInv, PollingTypeOK, Loops
  \* steps that neither notify nor deliver
  <1>3. ASSUME UNCHANGED <<toNotify, lastNotifiedPrices, delivered>>, faults' \in Nat,
               \/ UNCHANGED <<pc, result, fetched>>
               \/ pc # "PriceChanged" /\ pc' \notin {"notify", "PriceChanged"} /\ ~(pc' = "returned" /\ result' = "ok")
        PROVE  NotifyInv'
    BY <1>1, <1>3, Zenon DEF NotifyInv, AfterNotify, Near, Delivered
  <1>4. faults \in Nat /\ UNCHANGED faults => faults' \in Nat
    BY Zenon
  <1>5. CASE Execute
    BY <1>3, <1>5, SMTT(30) DEF Execute, outsideVars, NotifyInv
  <1>6. ASSUME NEW f \in Fetchers, FetcherAnswers(f) \/ FetcherFails(f, CtxDone) PROVE NotifyInv'
    <2>1. CASE FetcherAnswers(f)
      <3>1. /\ UNCHANGED <<toNotify, lastNotifiedPrices, delivered, faults>>
            /\ pc = "fetch" /\ pc' \in {"fetch", "crashed"}
        BY <2>1 DEF FetcherAnswers, outsideVars
      <3>2. faults' \in Nat
        BY <3>1 DEF NotifyInv
      <3> QED BY <1>3, <3>1, <3>2
    <2>2. CASE FetcherFails(f, CtxDone)
      <3>1. /\ UNCHANGED <<toNotify, lastNotifiedPrices, delivered, pc, result, fetched>>
            /\ faults' = faults \/ faults' = faults + 1
        BY <2>2 DEF FetcherFails, Fault
      <3>2. faults' \in Nat
        BY <3>1 DEF NotifyInv
      <3> QED BY <1>3, <3>1, <3>2
    <2> QED BY <1>6, <2>1, <2>2
  <1>7. CASE FetchPriceReturns
    BY <1>3, <1>7, SMTT(30) DEF FetchPriceReturns, outsideVars, NotifyInv
  <1>8. CASE computeNotifyArgsSlice
    <2>1. /\ pc = "compute" /\ pc' = "notify"
          /\ toNotify' = {p \in Pairs : autoDue \/ shouldNotify(p)}
          /\ UNCHANGED <<faults, delivered, lastNotifiedPrices, fetched>>
      BY <1>8, Zenon DEF computeNotifyArgsSlice, outsideVars
    <2>2. ASSUME NEW p \in Pairs, p \notin toNotify' PROVE Near(p)'
      <3>1. ~shouldNotify(p)
        BY <2>1, <2>2
      <3>2. lastNotifiedPrices[p] \in Nat /\ fetched[p] \in Nat /\ Percent[p] \in Nat
        <4>1. fetched \in Seq(Multiples) /\ Len(fetched) = NumPairs
          BY <2>1 DEF CollectInv
        <4>2. fetched[p] \in Multiples
          BY <4>1 DEF Pairs
        <4>3. lastNotifiedPrices[p] \in Multiples
          BY Zenon DEF NotifyInv
        <4> QED BY <4>2, <4>3 DEF Multiples, Pairs
      <3>3. /\ ~(Distance(lastNotifiedPrices[p], fetched[p]) * 100 >= Percent[p] * lastNotifiedPrices[p])
            /\ Distance(lastNotifiedPrices[p], fetched[p]) \in Nat
        BY <3>1, <3>2, SMTT(30) DEF shouldNotify, Distance
      <3>4. Near(p)
        BY <3>2, <3>3, SMTT(30) DEF Near
      <3> QED BY <2>1, <3>4 DEF Near
    <2> QED BY <1>1, <2>1, <2>2, SMTT(30) DEF NotifyInv, AfterNotify, Delivered
  <1>9. CASE notify
    <2>1. /\ pc = "notify" /\ result' = "ok"
          /\ pc' = IF toNotify = {} THEN "returned" ELSE "PriceChanged"
          /\ lastNotifiedPrices' = [p \in Pairs |-> IF p \in toNotify THEN trim(fetched[p])
                                                    ELSE lastNotifiedPrices[p]]
          /\ UNCHANGED <<faults, delivered, toNotify, fetched>>
      BY <1>9 DEF notify, outsideVars
    <2>2. \A p \in Pairs : fetched[p] \in Multiples /\ trim(fetched[p]) = fetched[p]
      BY <2>1, TrimRounds, SMTT(30) DEF CollectInv, Pairs
    <2>3. lastNotifiedPrices' \in [Pairs -> Multiples]
      BY <2>1, <2>2, SMTT(30) DEF NotifyInv
    <2>4. \A p \in toNotify : lastNotifiedPrices'[p] = fetched[p]
      BY <2>1, <2>2, SMTT(30) DEF NotifyInv
    <2>5. \A p \in Pairs : p \notin toNotify => lastNotifiedPrices'[p] = lastNotifiedPrices[p]
      BY <2>1
    <2>6. \A p \in Pairs : p \notin toNotify => Near(p)'
      BY <2>1, <2>5, SMTT(30) DEF NotifyInv, Near
    <2>7. Undisturbed => \A p \in Pairs : p \notin toNotify => Delivered(p)'
      BY <2>1, <2>5, SMTT(30) DEF NotifyInv, Delivered
    <2> QED BY <1>1, <2>1, <2>3, <2>4, <2>6, <2>7, Zenon DEF NotifyInv, AfterNotify
  <1>10. CASE PriceChanged
    <2>1. PICK short \in {0, 1} :
             delivered' = [p \in Pairs |->
                IF p \notin toNotify THEN delivered[p]
                ELSE IF lastNotifiedPrices[p] \div Precision = 0 THEN 0
                     ELSE lastNotifiedPrices[p] \div Precision - short]
      BY <1>10 DEF PriceChanged
    <2>2. pc = "PriceChanged" /\ pc' = "returned" /\ result' = "ok"
          /\ UNCHANGED <<faults, lastNotifiedPrices, toNotify, fetched>>
      BY <1>10 DEF PriceChanged
    <2>3. ASSUME NEW p \in Pairs, p \in toNotify PROVE delivered'[p] \in Nat /\ Delivered(p)'
      <3>1. PICK k \in Nat : lastNotifiedPrices[p] = k * Precision
        BY ZenonT(30) DEF NotifyInv, Multiples
      <3>2. lastNotifiedPrices[p] \div Precision = k
        <4>1. k * Precision + 0 = k * Precision /\ 0 \in 0..(Precision - 1)
          OBVIOUS
        <4> QED BY <3>1, <4>1, DivUnique
      <3>3. delivered'[p] = IF k = 0 THEN 0 ELSE k - short
        BY <2>1, <2>3, <3>2, Zenon
      <3>4. delivered'[p] \in Nat
        BY <3>3
      <3>5. delivered'[p] * Precision \in {k * Precision, k * Precision - Precision}
            /\ delivered'[p] * Precision <= k * Precision
        BY <3>3
      <3> QED BY <2>2, <3>1, <3>4, <3>5, SMTT(30) DEF Delivered
    <2>4. ASSUME NEW p \in Pairs, p \notin toNotify PROVE delivered'[p] = delivered[p]
      BY <2>1, <2>4, SMTT(30)
    <2>5. delivered' \in [Pairs -> Nat]
      <3>1. \A p \in Pairs : delivered'[p] \in Nat
        BY <2>3, <2>4, SMTT(30) DEF NotifyInv
      <3> QED BY <2>1, <3>1, SMTT(30)
    <2>6. Undisturbed => \A p \in Pairs : Delivered(p)'
      <3> SUFFICES ASSUME Undisturbed, NEW p \in Pairs PROVE Delivered(p)'
        OBVIOUS
      <3>1. CASE p \in toNotify
        BY <2>3, <3>1, Zenon
      <3>2. CASE p \notin toNotify
        <4>1. Delivered(p)
          BY <3>2, Zenon DEF NotifyInv
        <4>2. delivered'[p] = delivered[p] /\ lastNotifiedPrices' = lastNotifiedPrices
          BY <2>2, <2>4, <3>2, Zenon
        <4> QED BY <4>1, <4>2, Zenon DEF Delivered
      <3> QED BY <3>1, <3>2, Zenon
    <2> QED BY <1>1, <2>2, <2>5, <2>6, SMTT(30) DEF NotifyInv, AfterNotify, Near
  <1>11. CASE PriceChangedFails(CtxDone)
    <2>1. (CtxDone /\ faults' = faults) \/ faults' = faults + 1
      BY <1>11, Zenon DEF PriceChangedFails, Fault
    <2>2. /\ pc' = "returned" /\ result' = "error"
          /\ UNCHANGED <<delivered, toNotify, lastNotifiedPrices>>
      BY <1>11, Zenon DEF PriceChangedFails
    <2>3. faults \in Nat
      BY Zenon DEF NotifyInv
    <2>4. faults' \in Nat /\ (faults' = faults + 1 => faults' # 0)
      BY <2>1, <2>3
    <2>5. ~Undisturbed'
      BY <1>1, <1>2, <2>1, <2>4, Zenon DEF Undisturbed
    <2>6. ~AfterNotify' /\ pc' # "notify"
      BY <2>2 DEF AfterNotify
    <2> QED BY <2>2, <2>4, <2>5, <2>6, Zenon DEF NotifyInv
  <1>12. CASE Returned
    <2>1. /\ pc = "returned" /\ pc' = "idle" /\ toNotify' = {}
          /\ UNCHANGED <<faults, delivered, lastNotifiedPrices>>
      BY <1>12, SMTT(30) DEF Returned, outsideVars
    <2>2. ~AfterNotify' /\ pc' # "notify"
      BY <2>1 DEF AfterNotify
    <2>3. Undisturbed' => \A p \in Pairs : Delivered(p)'
      BY <1>1, <2>1 DEF NotifyInv, Delivered
    <2> QED BY <2>1, <2>2, <2>3 DEF NotifyInv
  <1>13. CASE ChangeQuote \/ AutoSendIntervalElapses \/ UNCHANGED notifierVars
    BY <1>3, <1>13
    DEF ChangeQuote, AutoSendIntervalElapses, notifierVars, outsideVars, callVars, NotifyInv
  <1> QED
    BY <1>5, <1>6, <1>7, <1>8, <1>9, <1>10, <1>11, <1>12, <1>13, ZenonT(30)
    DEF Next, LoopStep, ClosesLoop, Timer, ExecuteStep, Faults, Owner, Outside, vars

\* a price near the one remembered is near the one delivered
LEMMA NearIsUpToDate ==
    ASSUME NEW last \in Nat, NEW known \in Nat, NEW now \in Nat, NEW percent \in Nat,
           last - Precision <= known, known <= last,
           last = now \/ Distance(last, now) * 100 < percent * last
    PROVE  \/ Distance(known, now) <= Precision
           \/ (Distance(known, now) - Precision) * 100 < percent * (known + Precision)
  <1> USE PrecisionIsPositive
  <1>1. CASE last = now
    BY <1>1 DEF Distance
  <1>2. CASE Distance(last, now) * 100 < percent * last
    <2>1. Distance(known, now) - Precision <= Distance(last, now)
      BY DEF Distance
    <2>2. Distance(known, now) \in Nat /\ Distance(last, now) \in Nat
      BY DEF Distance
    <2>3. percent * last <= percent * (known + Precision)
      <3>1. PICK d \in Nat : known + Precision = last + d
        OBVIOUS
      <3>2. percent * (last + d) = percent * last + percent * d /\ percent * d \in Nat /\ percent * last \in Nat
        OBVIOUS
      <3> QED BY <3>1, <3>2
    <2>4. percent * last \in Nat /\ percent * (known + Precision) \in Nat
      OBVIOUS
    <2> QED BY <1>2, <2>1, <2>2, <2>3, <2>4, SMTT(30)
  <1> QED BY <1>1, <1>2, SMTT(30)

(* priceNotifier.Execute and mxNotifee.PriceChanged: as long as no request *)
(* fails and no loop is closed, the contract has a price of every pair     *)
(* that is as near to the one just fetched as the pair's percentage asks,  *)
(* for any prices and any subset of the pairs that was notified each time. *)
THEOREM NotifeeAlwaysUpToDate == Spec => []NotifeeIsUpToDate
  <1> DEFINE IInv == PollingInv /\ CollectInv /\ NotifyInv
  <1>1. IInv => NotifeeIsUpToDate
    <2> SUFFICES ASSUME IInv, pc = "returned", result = "ok", Undisturbed, NEW p \in Pairs
                 PROVE  LET known == delivered[p] * Precision
                            off == Distance(known, fetched[p])
                        IN  \/ off <= Precision
                            \/ (off - Precision) * 100 < Percent[p] * (known + Precision)
      BY DEF NotifeeIsUpToDate, Undisturbed
    <2>1. lastNotifiedPrices[p] \in Nat /\ fetched[p] \in Nat /\ Percent[p] \in Nat
      BY PairsAndFetchers, SMTT(30) DEF NotifyInv, CollectInv, Multiples, Pairs
    <2>2. delivered[p] * Precision \in Nat
      BY PrecisionIsPositive DEF NotifyInv
    <2>3. Delivered(p)
      BY DEF NotifyInv
    <2>4. lastNotifiedPrices[p] = fetched[p] \/ Near(p)
      BY DEF NotifyInv, AfterNotify
    <2> QED BY <2>1, <2>2, <2>3, <2>4, NearIsUpToDate, SMTT(30) DEF Delivered, Near
  <1>2. Init => IInv
    BY InitPollingInv, InitCollectInv, InitNotifyInv, SMTT(30)
  <1>3. IInv /\ [Next]_vars => IInv'
    BY NextPollingInv, NextCollectInv, NextNotifyInv
  <1> QED BY <1>1, <1>2, <1>3, PTL DEF Spec
=============================================================================
