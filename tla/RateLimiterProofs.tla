-------------------------- MODULE RateLimiterProofs --------------------------
(***************************************************************************)
(* The sliding-window limiter, for any threads, keys, limit and window:     *)
(* the types, and that a caller is refused only when the window is full, and *)
(* admitted only when it is not as long as callers enter in the order of the *)
(* clock.                                                                   *)
(***************************************************************************)
EXTENDS RateLimiter, FiniteSetTheorems, FunctionTheorems, SequenceTheorems,
        WellFoundedInduction, TLAPS

\* The limiter's parameters as numbers.
LEMMA Numbers == Max \in Nat /\ Max > 0 /\ Window \in Nat /\ Window > 0 /\ MaxTime \in Nat
BY RateLimiterAssumption

\* A nonempty set of natural numbers has a least element.
LEMMA Least ==
  ASSUME NEW S, S \subseteq Nat, S # {}
  PROVE  \E x \in S : \A y \in S : x <= y
<1>1. PICK x \in S : \A y \in S : ~(<<y, x>> \in OpToRel(<, Nat))
  BY WFMin, NatLessThanWellFounded, Zenon
<1>2. \A y \in S : ~(y < x)
  BY <1>1 DEF OpToRel
<1>. QED BY <1>2

-----------------------------------------------------------------------------
(* Pruning a bucket.                                                       *)

\* What a bucket keeps, and where it is in the bucket.
Kept(ts, cutoff) == {k \in DOMAIN ts : ts[k] > cutoff}
Rank(kept, k) == Cardinality({i \in kept : i <= k})

\* A finite set of positions: ranks are its positions counted from 1.
LEMMA Ranks ==
  ASSUME NEW n \in Nat, NEW kept \in SUBSET (1 .. n)
  PROVE  /\ IsFiniteSet(kept) /\ Cardinality(kept) \in Nat /\ Cardinality(kept) <= n
         /\ \A k \in kept : Rank(kept, k) \in 1 .. Cardinality(kept)
         /\ \A i, k \in kept : i < k => Rank(kept, i) < Rank(kept, k)
         /\ \A j \in 1 .. Cardinality(kept) : \E k \in kept : Rank(kept, k) = j
<1>1. IsFiniteSet(1 .. n) /\ Cardinality(1 .. n) = n
  BY FS_Interval
<1>2. IsFiniteSet(kept) /\ Cardinality(kept) <= n
  BY <1>1, FS_Subset
<1>3. Cardinality(kept) \in Nat
  BY <1>2, FS_CardinalityType
<1>9. \A k \in kept : k \in Nat
  OBVIOUS
<1>. DEFINE Upto(k) == {i \in kept : i <= k}
<1>4. ASSUME NEW k PROVE IsFiniteSet(Upto(k)) /\ Cardinality(Upto(k)) <= Cardinality(kept)
                         /\ Cardinality(Upto(k)) \in Nat
  <2>1. Upto(k) \in SUBSET kept
    OBVIOUS
  <2>. HIDE DEF Upto
  <2>. QED BY <1>2, <2>1, FS_Subset, FS_CardinalityType
<1>5. ASSUME NEW i \in kept, NEW k \in kept, i < k
      PROVE  Cardinality(Upto(i)) < Cardinality(Upto(k))
  <2>0. i \in Nat /\ k \in Nat
    BY <1>9
  <2>1. k \in Upto(k) /\ k \notin Upto(i)
    BY <1>5, <2>0
  <2>3. ASSUME NEW x \in Upto(i) PROVE x \in Upto(k)
    BY <1>5, <1>9, <2>0
  <2>. HIDE DEF Upto
  <2>2. Cardinality(Upto(i)) <= Cardinality(Upto(k)) /\ Cardinality(Upto(i)) # Cardinality(Upto(k))
    BY <1>4, <2>1, <2>3, FS_Subset
  <2>. QED BY <1>4, <2>2
<1>6. ASSUME NEW k \in kept PROVE Cardinality(Upto(k)) \in 1 .. Cardinality(kept)
  <2>1. k \in Upto(k)
    OBVIOUS
  <2>. HIDE DEF Upto
  <2>2. Cardinality(Upto(k)) # 0
    BY <1>4, <2>1, FS_EmptySet
  <2>. QED BY <1>3, <1>4, <2>2
<1>7. \A k : Rank(kept, k) = Cardinality(Upto(k))
  BY DEF Rank
<1>. HIDE DEF Upto
<1>8. ASSUME NEW j \in 1 .. Cardinality(kept) PROVE \E k \in kept : Rank(kept, k) = j
  <2>. DEFINE f == [k \in kept |-> Rank(kept, k)]
              T == 1 .. Cardinality(kept)
  <2>1. f \in [kept -> T]
    BY <1>6, <1>7
  <2>2. \A a, b \in kept : f[a] = f[b] => a = b
    <3>1. ASSUME NEW a \in kept, NEW b \in kept, f[a] = f[b] PROVE a = b
      <4>1. f[a] = Cardinality(Upto(a)) /\ f[b] = Cardinality(Upto(b))
        BY <1>7
      <4>3. f[a] \in Nat /\ f[b] \in Nat
        BY <1>4, <4>1
      <4>. HIDE DEF f
      <4>4. Cardinality(Upto(a)) = Cardinality(Upto(b)) /\ Cardinality(Upto(a)) \in Nat
        BY <3>1, <4>1, <4>3
      <4>5. a < b => Cardinality(Upto(a)) < Cardinality(Upto(b))
        BY <1>5
      <4>6. b < a => Cardinality(Upto(b)) < Cardinality(Upto(a))
        BY <1>5
      <4>2. ~(a < b) /\ ~(b < a)
        BY <4>4, <4>5, <4>6
      <4>. QED BY <1>9, <4>2
    <3>. QED BY <3>1
  <2>3. IsFiniteSet(T) /\ Cardinality(T) = Cardinality(kept)
    BY <1>3, FS_Interval
  <2>. HIDE DEF f, T
  <2>4. f \in Injection(kept, T)
    BY <2>1, <2>2, Fun_IsInj
  <2>5. f \in Surjection(kept, T)
    BY <2>3, <2>4, FS_Injection
  <2>6. \E k \in kept : f[k] = j
    <3>1. \A t \in T : \E k \in kept : f[k] = t
      BY <2>5, Fun_SurjectionProperties
    <3>. QED BY <3>1 DEF T
  <2>. QED BY <2>6 DEF f
<1>. QED BY <1>2, <1>3, <1>5, <1>6, <1>7, <1>8

\* A pruned bucket is the part of the bucket that is inside the window, in its
\* order: pos are the positions that stay.
LEMMA LiveProperties ==
  ASSUME NEW ts \in Seq(Nat), NEW cutoff \in Int
  PROVE  /\ Live(ts, cutoff) \in Seq(Nat) /\ Len(Live(ts, cutoff)) <= Len(ts)
         /\ \A j \in 1 .. Len(Live(ts, cutoff)) : Live(ts, cutoff)[j] > cutoff
         /\ \E pos \in [1 .. Len(Live(ts, cutoff)) -> 1 .. Len(ts)] :
              /\ \A j \in 1 .. Len(Live(ts, cutoff)) : Live(ts, cutoff)[j] = ts[pos[j]]
              /\ \A i, j \in 1 .. Len(Live(ts, cutoff)) : pos[i] = pos[j] => i = j
<1>. DEFINE kept == Kept(ts, cutoff)
            n == Cardinality(kept)
            pos == [j \in 1 .. n |-> CHOOSE k \in kept : Rank(kept, k) = j]
<1>1. kept \in SUBSET (1 .. Len(ts)) /\ Len(ts) \in Nat /\ \A k \in kept : ts[k] > cutoff
  BY DEF Kept
<1>2. Live(ts, cutoff) = [j \in 1 .. n |-> ts[pos[j]]]
  BY DEF Live, Kept, Rank
<1>. HIDE DEF kept
<1>3. n \in Nat /\ n <= Len(ts) /\ \A j \in 1 .. n : \E k \in kept : Rank(kept, k) = j
  BY <1>1, Ranks
<1>4. \A j \in 1 .. n : pos[j] \in kept /\ Rank(kept, pos[j]) = j
  BY <1>3
<1>. HIDE DEF pos, n
<1>5. pos \in [1 .. n -> 1 .. Len(ts)]
  BY <1>1, <1>4 DEF pos
<1>6. ASSUME NEW j \in 1 .. n PROVE ts[pos[j]] \in Nat /\ ts[pos[j]] > cutoff
  <2>1. pos[j] \in 1 .. Len(ts) /\ ts[pos[j]] > cutoff
    BY <1>1, <1>4
  <2>. QED BY <2>1
<1>7. Live(ts, cutoff) \in Seq(Nat) /\ Len(Live(ts, cutoff)) = n
  BY <1>2, <1>3, <1>6
<1>. QED BY <1>2, <1>3, <1>4, <1>5, <1>6, <1>7

\* Entries in the order of the clock.
Sorted(ts) == \A i, j \in 1 .. Len(ts) : i <= j => ts[i] <= ts[j]

\* A bucket in the order of the clock loses its first entries.
LEMMA LiveOfSorted ==
  ASSUME NEW ts \in Seq(Nat), NEW cutoff \in Int, Sorted(ts)
  PROVE  \E q \in 0 .. Len(ts) :
           /\ Len(Live(ts, cutoff)) = Len(ts) - q
           /\ \A j \in 1 .. Len(ts) - q : Live(ts, cutoff)[j] = ts[q + j]
           /\ \A k \in 1 .. q : ts[k] <= cutoff
<1>. DEFINE kept == Kept(ts, cutoff)
            n == Cardinality(kept)
            pos == [j \in 1 .. n |-> CHOOSE k \in kept : Rank(kept, k) = j]
<1>1. kept = {k \in 1 .. Len(ts) : ts[k] > cutoff} /\ Len(ts) \in Nat
  BY DEF Kept
<1>2. Live(ts, cutoff) = [j \in 1 .. n |-> ts[pos[j]]]
  BY DEF Live, Kept, Rank
<1>. HIDE DEF kept
<1>3. PICK q \in 0 .. Len(ts) : kept = q + 1 .. Len(ts)
  <2>1. CASE kept = {}
    <3>1. kept = Len(ts) + 1 .. Len(ts)
      BY <1>1, <2>1
    <3>. QED BY <1>1, <3>1
  <2>2. CASE kept # {}
    <3>0. kept \subseteq Nat
      BY <1>1
    <3>1. PICK x \in kept : \A y \in kept : x <= y
      BY <2>2, <3>0, Least
    <3>2. kept = x .. Len(ts)
      BY <1>1, <3>1 DEF Sorted
    <3>3. x - 1 \in 0 .. Len(ts) /\ (x - 1) + 1 = x
      BY <1>1, <3>1
    <3>. QED BY <3>2, <3>3
  <2>. QED BY <2>1, <2>2
<1>4. n = Len(ts) - q
  <2>0. q + 1 \in Int /\ Len(ts) \in Int /\ q <= Len(ts)
    BY <1>1, <1>3
  <2>1. Cardinality(q + 1 .. Len(ts)) = IF q + 1 > Len(ts) THEN 0 ELSE Len(ts) - (q + 1) + 1
    BY <2>0, FS_Interval
  <2>2. Cardinality(q + 1 .. Len(ts)) = Len(ts) - q
    BY <1>1, <2>0, <2>1
  <2>. QED BY <1>3, <2>2
<1>5. ASSUME NEW k \in kept PROVE Rank(kept, k) = k - q
  <2>1. {i \in kept : i <= k} = q + 1 .. k
    BY <1>3
  <2>2. Cardinality(q + 1 .. k) = k - q
    BY <1>3, FS_Interval
  <2>. QED BY <2>1, <2>2 DEF Rank
<1>6. ASSUME NEW j \in 1 .. n PROVE pos[j] = q + j
  <2>1. q + j \in kept /\ Rank(kept, q + j) = j
    BY <1>3, <1>4, <1>5
  <2>2. pos[j] \in kept /\ Rank(kept, pos[j]) = j
    BY <2>1
  <2>. QED BY <1>3, <1>5, <2>2
<1>. HIDE DEF pos, n
<1>7. \A j \in 1 .. n : Live(ts, cutoff)[j] = ts[q + j]
  BY <1>2, <1>6
<1>8. Len(Live(ts, cutoff)) = n
  BY <1>1, <1>2, <1>4
<1>9. \A k \in 1 .. q : ts[k] <= cutoff
  BY <1>1, <1>3
<1>. QED BY <1>4, <1>7, <1>8, <1>9

-----------------------------------------------------------------------------
(* A bucket ev next to the admissions ad of its key.                       *)

\* The bucket holds admissions, each at most once.
Embeds(ev, ad) == \E pos \in [1 .. Len(ev) -> 1 .. Len(ad)] :
  /\ \A j \in 1 .. Len(ev) : ev[j] = ad[pos[j]]
  /\ \A i, j \in 1 .. Len(ev) : pos[i] = pos[j] => i = j

\* The admissions later than cutoff.
Since(ad, cutoff) == {k \in 1 .. Len(ad) : ad[k] > cutoff}

\* An empty bucket holds nothing else.
LEMMA EmbedsEmpty ==
  ASSUME NEW ad \in Seq(Nat) PROVE Embeds(<< >>, ad)
<1>. DEFINE pos == [j \in 1 .. 0 |-> 1]
<1>1. pos \in [1 .. Len(<< >>) -> 1 .. Len(ad)] /\ 1 .. Len(<< >>) = {}
  OBVIOUS
<1>. HIDE DEF pos
<1>2. \A ev : ev = << >> => Embeds(ev, ad)
  BY <1>1 DEF Embeds
<1>. QED BY <1>2

\* Pruning a bucket leaves admissions.
LEMMA EmbedsLive ==
  ASSUME NEW ev \in Seq(Nat), NEW ad \in Seq(Nat), NEW cutoff \in Int, Embeds(ev, ad)
  PROVE  Embeds(Live(ev, cutoff), ad)
<1>. DEFINE fresh == Live(ev, cutoff)
<1>1. PICK pos \in [1 .. Len(ev) -> 1 .. Len(ad)] :
        /\ \A j \in 1 .. Len(ev) : ev[j] = ad[pos[j]]
        /\ \A i, j \in 1 .. Len(ev) : pos[i] = pos[j] => i = j
  BY DEF Embeds
<1>2. PICK in \in [1 .. Len(fresh) -> 1 .. Len(ev)] :
        /\ \A j \in 1 .. Len(fresh) : fresh[j] = ev[in[j]]
        /\ \A i, j \in 1 .. Len(fresh) : in[i] = in[j] => i = j
  BY LiveProperties
<1>. HIDE DEF fresh
<1>. DEFINE at == [j \in 1 .. Len(fresh) |-> pos[in[j]]]
<1>3. at \in [1 .. Len(fresh) -> 1 .. Len(ad)]
  BY <1>1, <1>2
<1>4. \A j \in 1 .. Len(fresh) : fresh[j] = ad[at[j]]
  BY <1>1, <1>2
<1>5. \A i, j \in 1 .. Len(fresh) : at[i] = at[j] => i = j
  BY <1>1, <1>2
<1>6. Embeds(fresh, ad)
  BY <1>3, <1>4, <1>5 DEF Embeds
<1>. QED BY <1>6 DEF fresh

\* A new admission goes to both.
LEMMA EmbedsAppend ==
  ASSUME NEW ev \in Seq(Nat), NEW ad \in Seq(Nat), NEW t \in Nat, Embeds(ev, ad)
  PROVE  Embeds(Append(ev, t), Append(ad, t))
<1>1. PICK pos \in [1 .. Len(ev) -> 1 .. Len(ad)] :
        /\ \A j \in 1 .. Len(ev) : ev[j] = ad[pos[j]]
        /\ \A i, j \in 1 .. Len(ev) : pos[i] = pos[j] => i = j
  BY DEF Embeds
<1>. DEFINE ev2 == Append(ev, t)
            ad2 == Append(ad, t)
            at == [j \in 1 .. Len(ev) + 1 |-> IF j <= Len(ev) THEN pos[j] ELSE Len(ad) + 1]
<1>2. /\ Len(ev) \in Nat /\ Len(ev2) = Len(ev) + 1 /\ ev2[Len(ev) + 1] = t
      /\ \A j \in 1 .. Len(ev) : ev2[j] = ev[j]
  OBVIOUS
<1>3. /\ Len(ad) \in Nat /\ Len(ad2) = Len(ad) + 1 /\ ad2[Len(ad) + 1] = t
      /\ \A j \in 1 .. Len(ad) : ad2[j] = ad[j]
  OBVIOUS
<1>. HIDE DEF ev2, ad2
<1>4. at \in [1 .. Len(ev2) -> 1 .. Len(ad2)]
  BY <1>1, <1>2, <1>3
<1>8. at[Len(ev) + 1] = Len(ad) + 1 /\ \A j \in 1 .. Len(ev) : at[j] = pos[j]
  <2>1. Len(ev) + 1 \in 1 .. Len(ev) + 1 /\ ~(Len(ev) + 1 <= Len(ev))
    BY <1>2
  <2>2. \A j \in 1 .. Len(ev) : j \in 1 .. Len(ev) + 1 /\ j <= Len(ev)
    BY <1>2
  <2>. QED BY <2>1, <2>2
<1>. HIDE DEF at
<1>9. \A j \in 1 .. Len(ev2) : j \in 1 .. Len(ev) \/ j = Len(ev) + 1
  BY <1>2
<1>5. ASSUME NEW j \in 1 .. Len(ev2) PROVE ev2[j] = ad2[at[j]]
  <2>1. CASE j \in 1 .. Len(ev)
    <3>1. ev2[j] = ad[pos[j]] /\ at[j] = pos[j]
      BY <1>1, <1>2, <1>8, <2>1
    <3>2. pos[j] \in 1 .. Len(ad)
      BY <2>1
    <3>. QED BY <1>3, <3>1, <3>2
  <2>2. CASE j = Len(ev) + 1
    BY <1>2, <1>3, <1>8, <2>2
  <2>. QED BY <1>9, <2>1, <2>2
<1>6. ASSUME NEW i \in 1 .. Len(ev2), NEW j \in 1 .. Len(ev2), at[i] = at[j] PROVE i = j
  <2>1. CASE i \in 1 .. Len(ev) /\ j \in 1 .. Len(ev)
    BY <1>1, <1>6, <1>8, <2>1
  <2>2. CASE i \in 1 .. Len(ev) /\ j = Len(ev) + 1
    <3>1. pos[i] = Len(ad) + 1 /\ pos[i] \in 1 .. Len(ad)
      BY <1>6, <1>8, <2>2
    <3>. QED BY <1>3, <3>1
  <2>3. CASE i = Len(ev) + 1 /\ j \in 1 .. Len(ev)
    <3>1. pos[j] = Len(ad) + 1 /\ pos[j] \in 1 .. Len(ad)
      BY <1>6, <1>8, <2>3
    <3>. QED BY <1>3, <3>1
  <2>. QED BY <1>9, <2>1, <2>2, <2>3
<1>7. Embeds(ev2, ad2)
  BY <1>4, <1>5, <1>6 DEF Embeds
<1>. QED BY <1>7 DEF ev2, ad2

\* As many admissions are later than the cutoff as the pruned bucket has entries.
LEMMA EmbedsCount ==
  ASSUME NEW ev \in Seq(Nat), NEW ad \in Seq(Nat), NEW cutoff \in Int, Embeds(ev, ad),
         \A j \in 1 .. Len(ev) : ev[j] > cutoff
  PROVE  Cardinality(Since(ad, cutoff)) >= Len(ev)
<1>. DEFINE S == 1 .. Len(ev)
            T == Since(ad, cutoff)
<1>1. PICK pos \in [1 .. Len(ev) -> 1 .. Len(ad)] :
        /\ \A j \in 1 .. Len(ev) : ev[j] = ad[pos[j]]
        /\ \A i, j \in 1 .. Len(ev) : pos[i] = pos[j] => i = j
  BY DEF Embeds
<1>2. pos \in [S -> T]
  BY <1>1 DEF Since
<1>3. \A i, j \in S : pos[i] = pos[j] => i = j
  BY <1>1
<1>4. IsFiniteSet(T)
  <2>1. IsFiniteSet(1 .. Len(ad)) /\ T \in SUBSET (1 .. Len(ad))
    BY FS_Interval DEF Since
  <2>. HIDE DEF T
  <2>. QED BY <2>1, FS_Subset
<1>9. Len(ev) \in Nat /\ 1 \in Int /\ Len(ev) \in Int
  OBVIOUS
<1>5. Cardinality(S) = Len(ev)
  <2>1. Cardinality(S) = IF 1 > Len(ev) THEN 0 ELSE Len(ev) - 1 + 1
    BY <1>9, FS_Interval
  <2>. QED BY <1>9, <2>1
<1>. HIDE DEF S, T
<1>6. pos \in Injection(S, T)
  BY <1>2, <1>3, Fun_IsInj
<1>7. Cardinality(S) <= Cardinality(T) /\ Cardinality(T) \in Nat
  BY <1>4, <1>6, FS_Injection, FS_CardinalityType
<1>8. Cardinality(T) >= Len(ev)
  BY <1>5, <1>7, <1>9
<1>. QED BY <1>8 DEF T

\* Admissions are not taken back.
LEMMA SinceGrows ==
  ASSUME NEW ad \in Seq(Nat), NEW cutoff \in Int, NEW t \in Nat
  PROVE  /\ Cardinality(Since(ad, cutoff)) \in Nat
         /\ Cardinality(Since(Append(ad, t), cutoff)) \in Nat
         /\ Cardinality(Since(ad, cutoff)) <= Cardinality(Since(Append(ad, t), cutoff))
<1>. DEFINE ad2 == Append(ad, t)
<1>1. ad2 \in Seq(Nat) /\ Len(ad2) = Len(ad) + 1 /\ Len(ad) \in Nat
      /\ \A j \in 1 .. Len(ad) : ad2[j] = ad[j]
  OBVIOUS
<1>. HIDE DEF ad2
<1>2. IsFiniteSet(1 .. Len(ad2))
  BY <1>1, FS_Interval
<1>3. Since(ad, cutoff) \in SUBSET Since(ad2, cutoff) /\ Since(ad2, cutoff) \in SUBSET (1 .. Len(ad2))
  BY <1>1 DEF Since
<1>4. IsFiniteSet(Since(ad2, cutoff))
  BY <1>2, <1>3, FS_Subset
<1>5. IsFiniteSet(Since(ad, cutoff))
      /\ Cardinality(Since(ad, cutoff)) <= Cardinality(Since(ad2, cutoff))
  BY <1>3, <1>4, FS_Subset
<1>6. Cardinality(Since(ad, cutoff)) \in Nat /\ Cardinality(Since(ad2, cutoff)) \in Nat
  BY <1>4, <1>5, FS_CardinalityType
<1>. QED BY <1>5, <1>6 DEF ad2

-----------------------------------------------------------------------------
(* A bucket whose callers entered in the order of the clock, at time now.  *)

\* Any Max + 1 admissions in a row take longer than a window.
Spaced(ad) == \A k \in 1 .. Len(ad) : k > Max => ad[k - Max] <= ad[k] - Window

\* The bucket holds the latest admissions, and the others have expired.
HoldsLatest(ev, ad, now) == \E q \in 0 .. Len(ad) :
  /\ Len(ev) = Len(ad) - q
  /\ \A j \in 1 .. Len(ad) - q : ev[j] = ad[q + j]
  /\ \A k \in 1 .. q : ad[k] <= now - Window

InStep(ev, ad, now) ==
  /\ Sorted(ad) /\ \A k \in 1 .. Len(ad) : ad[k] <= now
  /\ Spaced(ad)
  /\ HoldsLatest(ev, ad, now)

\* Nothing was admitted.
LEMMA InStepEmpty == ASSUME NEW now \in Nat PROVE InStep(<< >>, << >>, now)
<1>1. HoldsLatest(<< >>, << >>, now)
  <2>1. 0 \in 0 .. Len(<< >>)
    OBVIOUS
  <2>. QED BY <2>1 DEF HoldsLatest
<1>. QED BY <1>1 DEF InStep, Sorted, Spaced

\* Time goes on.
LEMMA InStepLater ==
  ASSUME NEW ev \in Seq(Nat), NEW ad \in Seq(Nat), NEW t \in Nat, NEW now \in Nat, now >= t,
         InStep(ev, ad, t)
  PROVE  InStep(ev, ad, now)
<1>1. \A k \in 1 .. Len(ad) : ad[k] \in Nat /\ ad[k] <= now
  BY DEF InStep
<1>2. PICK q \in 0 .. Len(ad) : /\ Len(ev) = Len(ad) - q
                                /\ \A j \in 1 .. Len(ad) - q : ev[j] = ad[q + j]
                                /\ \A k \in 1 .. q : ad[k] <= t - Window
  BY DEF InStep, HoldsLatest
<1>3. \A k \in 1 .. q : ad[k] <= now - Window
  BY <1>1, <1>2, Numbers
<1>4. HoldsLatest(ev, ad, now)
  BY <1>2, <1>3 DEF HoldsLatest
<1>. QED BY <1>1, <1>4 DEF InStep

\* A bucket is swept: all it held has expired with its last entry.
LEMMA InStepSwept ==
  ASSUME NEW ev \in Seq(Nat), NEW ad \in Seq(Nat), NEW now \in Nat, InStep(ev, ad, now),
         ev # << >> => ev[Len(ev)] <= now - Window
  PROVE  InStep(<< >>, ad, now)
<1>1. PICK q \in 0 .. Len(ad) : /\ Len(ev) = Len(ad) - q
                                /\ \A j \in 1 .. Len(ad) - q : ev[j] = ad[q + j]
                                /\ \A k \in 1 .. q : ad[k] <= now - Window
  BY DEF InStep, HoldsLatest
<1>2. ASSUME NEW k \in 1 .. Len(ad) PROVE ad[k] <= now - Window
  <2>1. CASE q = Len(ad)
    BY <1>1, <2>1
  <2>2. CASE q # Len(ad)
    <3>1. Len(ad) - q \in 1 .. Len(ad) - q /\ q + (Len(ad) - q) = Len(ad)
      BY <2>2
    <3>2. ev[Len(ev)] = ad[Len(ad)]
      BY <1>1, <3>1
    <3>3. ev # << >>
      BY <1>1, <3>1
    <3>4. ad[Len(ad)] <= now - Window /\ ad[k] <= ad[Len(ad)]
      BY <3>2, <3>3 DEF InStep, Sorted
    <3>5. ad[k] \in Nat /\ ad[Len(ad)] \in Nat
      OBVIOUS
    <3>. QED BY <3>4, <3>5, Numbers
  <2>. QED BY <2>1, <2>2
<1>3. HoldsLatest(<< >>, ad, now)
  <2>1. Len(ad) \in 0 .. Len(ad) /\ Len(<< >>) = Len(ad) - Len(ad)
    OBVIOUS
  <2>. QED BY <1>2, <2>1 DEF HoldsLatest
<1>. QED BY <1>3 DEF InStep

\* A bucket is pruned: what it loses has expired.
LEMMA InStepLive ==
  ASSUME NEW ev \in Seq(Nat), NEW ad \in Seq(Nat), NEW now \in Nat, InStep(ev, ad, now)
  PROVE  InStep(Live(ev, now - Window), ad, now)
<1>. DEFINE fresh == Live(ev, now - Window)
<1>0. now - Window \in Int
  BY Numbers
<1>1. PICK q \in 0 .. Len(ad) : /\ Len(ev) = Len(ad) - q
                                /\ \A j \in 1 .. Len(ad) - q : ev[j] = ad[q + j]
                                /\ \A k \in 1 .. q : ad[k] <= now - Window
  BY DEF InStep, HoldsLatest
<1>2. Sorted(ev)
  <2>1. ASSUME NEW i \in 1 .. Len(ev), NEW j \in 1 .. Len(ev), i <= j PROVE ev[i] <= ev[j]
    <3>1. i \in 1 .. Len(ad) - q /\ j \in 1 .. Len(ad) - q
          /\ q + i \in 1 .. Len(ad) /\ q + j \in 1 .. Len(ad) /\ q + i <= q + j
      BY <1>1, <2>1
    <3>. QED BY <1>1, <3>1 DEF InStep, Sorted
  <2>. QED BY <2>1 DEF Sorted
<1>3. PICK p \in 0 .. Len(ev) : /\ Len(fresh) = Len(ev) - p
                                /\ \A j \in 1 .. Len(ev) - p : fresh[j] = ev[p + j]
                                /\ \A k \in 1 .. p : ev[k] <= now - Window
  BY <1>0, <1>2, LiveOfSorted
<1>. HIDE DEF fresh
<1>4. q + p \in 0 .. Len(ad) /\ Len(fresh) = Len(ad) - (q + p)
  BY <1>1, <1>3
<1>5. ASSUME NEW j \in 1 .. Len(ad) - (q + p) PROVE fresh[j] = ad[(q + p) + j]
  <2>1. j \in 1 .. Len(ev) - p /\ p + j \in 1 .. Len(ad) - q /\ q + (p + j) = (q + p) + j
    BY <1>1, <1>3
  <2>. QED BY <1>1, <1>3, <2>1
<1>6. ASSUME NEW k \in 1 .. q + p PROVE ad[k] <= now - Window
  <2>1. CASE k <= q
    BY <1>1, <2>1
  <2>2. CASE k > q
    <3>1. k - q \in 1 .. p /\ k - q \in 1 .. Len(ad) - q /\ q + (k - q) = k
      BY <1>1, <1>3, <2>2
    <3>. QED BY <1>1, <1>3, <3>1
  <2>. QED BY <2>1, <2>2
<1>7. HoldsLatest(fresh, ad, now)
  BY <1>4, <1>5, <1>6 DEF HoldsLatest
<1>8. InStep(fresh, ad, now)
  BY <1>7 DEF InStep
<1>. QED BY <1>8 DEF fresh

\* A caller is admitted: fewer than Max are inside the window, so the Max-th
\* before it has expired.
LEMMA InStepAppend ==
  ASSUME NEW ev \in Seq(Nat), NEW ad \in Seq(Nat), NEW now \in Nat, InStep(ev, ad, now),
         Len(ev) < Max
  PROVE  InStep(Append(ev, now), Append(ad, now), now)
<1>. DEFINE ev2 == Append(ev, now)
            ad2 == Append(ad, now)
            n == Len(ad)
<1>1. PICK q \in 0 .. n : /\ Len(ev) = n - q
                          /\ \A j \in 1 .. n - q : ev[j] = ad[q + j]
                          /\ \A k \in 1 .. q : ad[k] <= now - Window
  BY DEF InStep, HoldsLatest
<1>2. /\ n \in Nat /\ Len(ad2) = n + 1 /\ ad2[n + 1] = now
      /\ \A k \in 1 .. n : ad2[k] = ad[k] /\ ad[k] \in Nat
  OBVIOUS
<1>3. /\ Len(ev2) = (n - q) + 1 /\ ev2[(n - q) + 1] = now
      /\ \A k \in 1 .. n - q : ev2[k] = ev[k]
  BY <1>1
<1>4. \A k \in 1 .. n : ad[k] <= now
  BY DEF InStep
<1>5. \A i, j \in 1 .. n : i <= j => ad[i] <= ad[j]
  BY DEF InStep, Sorted
<1>6. \A k \in 1 .. n : k > Max => ad[k - Max] <= ad[k] - Window
  BY DEF InStep, Spaced
<1>. HIDE DEF ev2, ad2, n
<1>7. Sorted(ad2) /\ \A k \in 1 .. Len(ad2) : ad2[k] <= now
  BY <1>2, <1>4, <1>5 DEF Sorted
<1>8. ASSUME NEW k \in 1 .. Len(ad2), k > Max PROVE ad2[k - Max] <= ad2[k] - Window
  <2>1. CASE k <= n
    <3>1. k \in 1 .. n /\ k - Max \in 1 .. n
      BY <1>2, <1>8, <2>1, Numbers
    <3>. QED BY <1>2, <1>6, <1>8, <3>1
  <2>2. CASE k > n
    <3>1. k = n + 1 /\ n - q < Max
      BY <1>1, <1>2, <2>2
    <3>2. k - Max \in 1 .. q /\ k - Max \in 1 .. n
      BY <1>1, <1>2, <1>8, <3>1, Numbers
    <3>. QED BY <1>1, <1>2, <3>1, <3>2
  <2>. QED BY <1>2, <2>1, <2>2
<1>9. HoldsLatest(ev2, ad2, now)
  <2>1. q \in 0 .. Len(ad2) /\ Len(ev2) = Len(ad2) - q
    BY <1>1, <1>2, <1>3
  <2>2. ASSUME NEW j \in 1 .. Len(ad2) - q PROVE ev2[j] = ad2[q + j]
    <3>1. CASE j <= n - q
      <4>1. j \in 1 .. n - q /\ q + j \in 1 .. n
        BY <1>1, <1>2, <3>1
      <4>. QED BY <1>1, <1>2, <1>3, <4>1
    <3>2. CASE j > n - q
      <4>1. j = (n - q) + 1 /\ q + j = n + 1
        BY <1>1, <1>2, <3>2
      <4>. QED BY <1>2, <1>3, <4>1
    <3>. QED BY <1>1, <1>2, <3>1, <3>2
  <2>3. \A k \in 1 .. q : ad2[k] <= now - Window
    BY <1>1, <1>2
  <2>. QED BY <2>1, <2>2, <2>3 DEF HoldsLatest
<1>10. InStep(ev2, ad2, now)
  BY <1>7, <1>8, <1>9 DEF InStep, Spaced
<1>. QED BY <1>10 DEF ev2, ad2

\* Spaced admissions: no window holds more than Max of them.
LEMMA InStepWindow ==
  ASSUME NEW ad \in Seq(Nat), Sorted(ad), Spaced(ad), NEW t \in Nat
  PROVE  InWindow(ad, t) <= Max
<1>. DEFINE W == {k \in 1 .. Len(ad) : t - Window < ad[k] /\ ad[k] <= t}
<1>1. W \subseteq Nat /\ \A k \in W : k \in 1 .. Len(ad) /\ ad[k] \in Nat /\ t - Window < ad[k] /\ ad[k] <= t
  OBVIOUS
<1>2. InWindow(ad, t) = Cardinality(W)
  BY DEF InWindow
<1>. HIDE DEF W
<1>3. CASE W = {}
  BY <1>2, <1>3, FS_EmptySet, Numbers
<1>4. CASE W # {}
  <2>1. PICK x \in W : \A y \in W : x <= y
    BY <1>1, <1>4, Least
  <2>2. ASSUME NEW k \in W PROVE k \in x .. x + Max - 1
    <3>1. k \in Nat /\ x \in Nat /\ x <= k /\ k <= Len(ad) /\ x >= 1
      BY <1>1, <2>1
    <3>2. CASE k >= x + Max
      <4>1. k - Max \in 1 .. Len(ad) /\ k > Max /\ x <= k - Max
        BY <3>1, <3>2, Numbers
      <4>2. ad[k - Max] <= ad[k] - Window /\ ad[x] <= ad[k - Max]
        BY <1>1, <2>1, <4>1 DEF Sorted, Spaced
      <4>3. ad[k - Max] \in Nat /\ ad[k] \in Nat /\ ad[x] \in Nat
        BY <1>1, <2>1, <4>1
      <4>4. FALSE
        BY <1>1, <2>1, <4>2, <4>3, Numbers
      <4>. QED BY <4>4
    <3>. QED BY <3>1, <3>2, Numbers
  <2>3. W \in SUBSET (x .. x + Max - 1) /\ x \in Nat
    BY <1>1, <2>1, <2>2
  <2>4. IsFiniteSet(x .. x + Max - 1) /\ Cardinality(x .. x + Max - 1) = Max
    BY <2>3, FS_Interval, Numbers
  <2>. QED BY <1>2, <2>3, <2>4, FS_Subset
<1>. QED BY <1>3, <1>4

-----------------------------------------------------------------------------
(* Types.                                                                  *)

\* Who called check did so with a key.
TypeInv == TypeOK /\ \A c \in Callers : call[c].at # "idle" => call[c].ip \in Ips

\* The buckets a verdict is made on: after the sweep, if one is due.
Evs(now) == IF Due(now) THEN Swept(now) ELSE events

\* What Enter does, with names for what it computes: the buckets are swept or
\* left, the caller's is pruned, and it is refused or goes on top.
Entered(c, now, ip, evs, fresh) ==
  /\ call[c].at = "waiting" /\ call[c].now = now /\ call[c].ip = ip
  /\ evs = Evs(now) /\ fresh = Live(evs[ip], now - Window)
  /\ lastSweep' = IF Due(now) THEN now ELSE lastSweep
  /\ latest' = IF now > latest THEN now ELSE latest
  /\ ordered' = (ordered /\ now >= latest)
  /\ clock' = clock
  /\ \/ /\ Len(fresh) >= Max
        /\ events' = [evs EXCEPT ![ip] = fresh]
        /\ call' = [call EXCEPT ![c].at = "refused"]
        /\ admitted' = admitted
     \/ /\ Len(fresh) < Max
        /\ events' = [evs EXCEPT ![ip] = Append(fresh, now)]
        /\ call' = [call EXCEPT ![c].at = "admitted"]
        /\ admitted' = [admitted EXCEPT ![ip] = Append(admitted[ip], now)]

\* What entering check does to the buckets and to the caller.
LEMMA EnterEffect ==
  ASSUME TypeInv, NEW c \in Callers, Enter(c)
  PROVE  \E now \in Nat, ip \in Ips, evs \in [Ips -> Seq(Nat)], fresh \in Seq(Nat) :
           Entered(c, now, ip, evs, fresh)
<1>. DEFINE now == call[c].now
            ip == call[c].ip
            evs == Evs(now)
            fresh == Live(evs[ip], now - Window)
<1>1. call[c] \in Call /\ call[c].at = "waiting"
  BY DEF TypeInv, TypeOK, Enter
<1>2. now \in Nat /\ ip \in Ips
  BY <1>1 DEF TypeInv, Call
<1>3. Swept(now) \in [Ips -> Seq(Nat)] /\ events \in [Ips -> Seq(Nat)]
  BY DEF Swept, TypeInv, TypeOK
<1>4. evs \in [Ips -> Seq(Nat)]
  BY <1>3 DEF Evs
<1>5. now - Window \in Int /\ evs[ip] \in Seq(Nat)
  BY <1>2, <1>4, Numbers
<1>6. fresh \in Seq(Nat)
  BY <1>5, LiveProperties
<1>7. Full(fresh) <=> Len(fresh) >= Max
  BY DEF Full
<1>8. ~(Len(fresh) >= Max) <=> Len(fresh) < Max
  BY <1>6, Numbers
<1>9. /\ lastSweep' = IF Due(now) THEN now ELSE lastSweep
      /\ latest' = IF now > latest THEN now ELSE latest
      /\ ordered' = (ordered /\ now >= latest)
      /\ clock' = clock
      /\ \/ /\ Full(fresh)
            /\ events' = [evs EXCEPT ![ip] = fresh]
            /\ call' = [call EXCEPT ![c].at = "refused"]
            /\ admitted' = admitted
         \/ /\ ~Full(fresh)
            /\ events' = [evs EXCEPT ![ip] = Append(fresh, now)]
            /\ call' = [call EXCEPT ![c].at = "admitted"]
            /\ admitted' = [admitted EXCEPT ![ip] = Append(admitted[ip], now)]
  BY Zenon DEF Enter, Evs
<1>. HIDE DEF now, ip, evs, fresh
<1>10. call[c].now = now /\ call[c].ip = ip /\ evs = Evs(now)
       /\ fresh = Live(evs[ip], now - Window)
  BY DEF now, ip, evs, fresh
<1>11. Entered(c, now, ip, evs, fresh)
  BY <1>1, <1>7, <1>8, <1>9, <1>10, Zenon DEF Entered
<1>. QED BY <1>2, <1>4, <1>6, <1>11

\* A caller's record after a step of its own.
LEMMA CallTyped ==
  ASSUME TypeInv, NEW c \in Callers, NEW at \in {"idle", "waiting", "admitted", "refused"}
  PROVE  [call EXCEPT ![c].at = at] \in [Callers -> Call]
BY DEF TypeInv, TypeOK, Call

\* The type invariant is inductive.
LEMMA StepTypeInv ==
  ASSUME TypeInv, [Next]_vars PROVE TypeInv'
<1>0. /\ clock \in Nat /\ lastSweep \in Nat /\ events \in [Ips -> Seq(Nat)]
      /\ call \in [Callers -> Call] /\ admitted \in [Ips -> Seq(Nat)]
      /\ latest \in Nat /\ ordered \in BOOLEAN
  BY DEF TypeInv, TypeOK
<1>1. CASE Tick
  BY <1>0, <1>1 DEF Tick, TypeInv, TypeOK
<1>2. ASSUME NEW c \in Callers, Arrive(c) PROVE TypeInv'
  <2>1. PICK ip \in Ips : call' = [call EXCEPT ![c] = [at |-> "waiting", ip |-> ip, now |-> clock]]
    BY <1>2 DEF Arrive
  <2>2. call' \in [Callers -> Call] /\ \A d \in Callers : call'[d].at # "idle" => call'[d].ip \in Ips
    BY <1>0, <2>1 DEF Call, TypeInv
  <2>. QED BY <1>0, <1>2, <2>2 DEF Arrive, TypeInv, TypeOK
<1>3. ASSUME NEW c \in Callers, Enter(c) PROVE TypeInv'
  <2>0. PICK now \in Nat, ip \in Ips, evs \in [Ips -> Seq(Nat)], fresh \in Seq(Nat) :
           Entered(c, now, ip, evs, fresh)
    BY <1>3, EnterEffect
  <2>2. lastSweep' \in Nat /\ latest' \in Nat /\ ordered' \in BOOLEAN /\ clock' \in Nat
    BY <1>0, <2>0 DEF Entered
  <2>3. Append(fresh, now) \in Seq(Nat) /\ Append(admitted[ip], now) \in Seq(Nat)
    BY <1>0
  <2>4. events' \in [Ips -> Seq(Nat)] /\ admitted' \in [Ips -> Seq(Nat)]
    <3>1. PICK ev \in Seq(Nat) : events' = [evs EXCEPT ![ip] = ev]
      BY <2>0, <2>3 DEF Entered
    <3>2. CASE admitted' = admitted
      BY <1>0, <3>1, <3>2
    <3>3. CASE admitted' = [admitted EXCEPT ![ip] = Append(admitted[ip], now)]
      BY <1>0, <2>3, <3>1, <3>3
    <3>. QED BY <2>0, <3>2, <3>3 DEF Entered
  <2>5. PICK at \in {"admitted", "refused"} : call' = [call EXCEPT ![c].at = at]
    BY <2>0 DEF Entered
  <2>6. call' \in [Callers -> Call]
    BY <2>5, CallTyped
  <2>7. \A d \in Callers : call'[d].at # "idle" => call'[d].ip \in Ips
    BY <1>0, <2>0, <2>5 DEF TypeInv, Call, Entered
  <2>. QED BY <2>2, <2>4, <2>6, <2>7 DEF TypeInv, TypeOK
<1>4. ASSUME NEW c \in Callers, Reset(c) PROVE TypeInv'
  <2>1. events' \in [Ips -> Seq(Nat)] /\ admitted' \in [Ips -> Seq(Nat)]
    BY <1>4 DEF Reset
  <2>2. call' \in [Callers -> Call] /\ \A d \in Callers : call'[d].at # "idle" => call'[d].ip \in Ips
    BY <1>0, <1>4 DEF Reset, Call, TypeInv
  <2>3. lastSweep' \in Nat /\ latest' \in Nat /\ ordered' \in BOOLEAN /\ clock' \in Nat
    BY <1>0, <1>4 DEF Reset
  <2>. QED BY <2>1, <2>2, <2>3 DEF TypeInv, TypeOK
<1>5. CASE UNCHANGED vars
  BY <1>5 DEF vars, TypeInv, TypeOK
<1>. QED BY <1>1, <1>2, <1>3, <1>4, <1>5 DEF Next

-----------------------------------------------------------------------------
(* The limit.                                                              *)

\* The buckets hold admissions.
Held == \A ip \in Ips : Embeds(events[ip], admitted[ip])

\* In order, they hold the latest, and the admissions are spaced.
HeldInOrder == ordered => \A ip \in Ips : InStep(events[ip], admitted[ip], latest)

\* Nothing is swept ahead of the callers.
SweepPast == lastSweep <= latest

LimitInv == TypeInv /\ Held /\ RefusedOnlyWhenFull /\ HeldInOrder /\ SweepPast /\ NoIdleBucket

\* The newest entry of a bucket is inside the window that ends at now.
LastLive(ev, now) == ev # << >> => ev[Len(ev)] > now - Window

\* A bucket before the verdict: swept with its last entry expired, or as it was.
LEMMA EvsCases ==
  ASSUME TypeInv, NEW now \in Nat, NEW ip \in Ips
  PROVE  \/ /\ Evs(now)[ip] = events[ip]
            /\ Due(now) => LastLive(events[ip], now)
         \/ /\ Evs(now)[ip] = << >> /\ Due(now)
            /\ events[ip] # << >> => events[ip][Len(events[ip])] <= now - Window
<1>1. events[ip] \in Seq(Nat) /\ now - Window \in Int
  BY Numbers DEF TypeInv, TypeOK
<1>2. CASE ~Due(now)
  BY <1>2 DEF Evs
<1>3. CASE Due(now)
  <2>1. Evs(now)[ip] = IF events[ip] = << >> \/ events[ip][Len(events[ip])] <= now - Window
                       THEN << >> ELSE events[ip]
    BY <1>3 DEF Evs, Swept
  <2>2. events[ip] # << >> => events[ip][Len(events[ip])] \in Nat
    BY <1>1
  <2>. QED BY <1>1, <1>3, <2>1, <2>2 DEF LastLive
<1>. QED BY <1>2, <1>3

\* A pruned bucket has no expired entry.
LEMMA LiveLast ==
  ASSUME NEW ev \in Seq(Nat), NEW now \in Nat
  PROVE  LastLive(Live(ev, now - Window), now)
<1>. DEFINE fresh == Live(ev, now - Window)
<1>1. now - Window \in Int
  BY Numbers
<1>2. fresh \in Seq(Nat) /\ \A j \in 1 .. Len(fresh) : fresh[j] > now - Window
  BY <1>1, LiveProperties
<1>. HIDE DEF fresh
<1>3. LastLive(fresh, now)
  BY <1>2 DEF LastLive
<1>. QED BY <1>3 DEF fresh

\* Before anybody calls.
LEMMA InitLimit == Init => LimitInv
<1>. SUFFICES ASSUME Init PROVE LimitInv
  OBVIOUS
<1>1. TypeInv
  <2>1. << >> \in Seq(Nat)
    OBVIOUS
  <2>2. call \in [Callers -> Call] /\ \A c \in Callers : call[c].at = "idle"
    BY DEF Init, Call
  <2>. QED BY <2>1, <2>2 DEF Init, TypeInv, TypeOK
<1>2. Held
  <2>1. Embeds(<< >>, << >>)
    <3>1. << >> \in Seq(Nat)
      OBVIOUS
    <3>. QED BY <3>1, EmbedsEmpty
  <2>. QED BY <2>1 DEF Init, Held
<1>3. RefusedOnlyWhenFull
  BY DEF Init, RefusedOnlyWhenFull
<1>4. HeldInOrder
  BY InStepEmpty DEF Init, HeldInOrder
<1>5. SweepPast /\ NoIdleBucket
  BY DEF Init, SweepPast, NoIdleBucket
<1>. QED BY <1>1, <1>2, <1>3, <1>4, <1>5 DEF LimitInv

\* Refusals stay justified when the admissions they rest on are extended.
LEMMA RefusedKept ==
  ASSUME TypeInv, RefusedOnlyWhenFull, NEW c \in Callers, NEW ip \in Ips, NEW t \in Nat,
         call[c].at = "refused",
         NEW ad \in {admitted[ip], Append(admitted[ip], t)}, call[c].ip = ip
  PROVE  Cardinality(Since(ad, call[c].now - Window)) >= Max
<1>1. call[c].now - Window \in Int /\ admitted[ip] \in Seq(Nat)
  BY Numbers DEF TypeInv, TypeOK, Call
<1>2. Cardinality(Since(admitted[ip], call[c].now - Window)) >= Max
  BY DEF RefusedOnlyWhenFull, Since
<1>. DEFINE cut == call[c].now - Window
            older == Since(admitted[ip], cut)
            newer == Since(Append(admitted[ip], t), cut)
<1>3. /\ Cardinality(older) \in Nat /\ Cardinality(newer) \in Nat
      /\ Cardinality(older) <= Cardinality(newer)
  BY <1>1, SinceGrows
<1>4. Cardinality(older) >= Max
  BY <1>2
<1>. HIDE DEF older, newer
<1>5. Cardinality(newer) >= Max
  BY <1>3, <1>4, Numbers
<1>6. CASE ad = admitted[ip]
  BY <1>4, <1>6 DEF older
<1>7. CASE ad = Append(admitted[ip], t)
  BY <1>5, <1>7 DEF newer
<1>. QED BY <1>6, <1>7

\* A caller goes through the critical section.
LEMMA EnterLimit ==
  ASSUME LimitInv, NEW c \in Callers, Enter(c), TypeInv' PROVE LimitInv'
<1>. TypeInv
  BY DEF LimitInv
<1>1. PICK now \in Nat, ip \in Ips, evs \in [Ips -> Seq(Nat)], fresh \in Seq(Nat) :
        Entered(c, now, ip, evs, fresh)
  BY EnterEffect
<1>0. /\ events \in [Ips -> Seq(Nat)] /\ admitted \in [Ips -> Seq(Nat)] /\ call \in [Callers -> Call]
      /\ latest \in Nat /\ lastSweep \in Nat /\ ordered \in BOOLEAN
  BY DEF TypeInv, TypeOK
<1>2. now - Window \in Int /\ Append(fresh, now) \in Seq(Nat) /\ Append(admitted[ip], now) \in Seq(Nat)
  BY <1>0, Numbers
<1>3. fresh = Live(evs[ip], now - Window) /\ evs = Evs(now) /\ call[c].now = now /\ call[c].ip = ip
  BY <1>1 DEF Entered
<1>4. /\ \A i \in Ips \ {ip} : events'[i] = evs[i] /\ admitted'[i] = admitted[i]
      /\ \A d \in Callers \ {c} : call'[d] = call[d]
      /\ call'[c].now = now /\ call'[c].ip = ip
  BY <1>0, <1>1, <1>3 DEF Entered, Call
<1>5. \/ /\ Len(fresh) >= Max /\ events'[ip] = fresh /\ admitted'[ip] = admitted[ip]
         /\ call'[c].at = "refused"
      \/ /\ Len(fresh) < Max /\ events'[ip] = Append(fresh, now)
         /\ admitted'[ip] = Append(admitted[ip], now) /\ call'[c].at = "admitted"
  BY <1>0, <1>1 DEF Entered, Call
<1>6. \A i \in Ips : Embeds(evs[i], admitted[i])
  <2>1. ASSUME NEW i \in Ips PROVE Embeds(evs[i], admitted[i])
    <3>1. evs[i] = events[i] \/ evs[i] = << >>
      BY <1>3, EvsCases
    <3>2. Embeds(<< >>, admitted[i])
      BY <1>0, EmbedsEmpty
    <3>. QED BY <3>1, <3>2 DEF LimitInv, Held
  <2>. QED BY <2>1
<1>7. Embeds(fresh, admitted[ip])
  BY <1>0, <1>2, <1>3, <1>6, EmbedsLive
<1>8. Held'
  <2>1. Embeds(Append(fresh, now), Append(admitted[ip], now))
    BY <1>0, <1>7, EmbedsAppend
  <2>2. \A i \in Ips : Embeds(events'[i], admitted'[i])
    BY <1>4, <1>5, <1>6, <1>7, <2>1
  <2>. QED BY <2>2 DEF Held
<1>9. RefusedOnlyWhenFull'
  <2>1. ASSUME NEW d \in Callers, call'[d].at = "refused"
        PROVE  Cardinality(Since(admitted'[call'[d].ip], call'[d].now - Window)) >= Max
    <3>1. CASE d = c
      <4>1. Len(fresh) >= Max /\ admitted'[ip] = admitted[ip]
        BY <1>5, <2>1, <3>1
      <4>2. \A j \in 1 .. Len(fresh) : fresh[j] > now - Window
        BY <1>2, <1>3, LiveProperties
      <4>3. Cardinality(Since(admitted[ip], now - Window)) >= Len(fresh)
        BY <1>0, <1>2, <1>7, <4>2, EmbedsCount
      <4>4. Cardinality(Since(admitted[ip], now - Window)) \in Nat /\ Len(fresh) \in Nat
        <5>1. admitted[ip] \in Seq(Nat)
          BY <1>0
        <5>2. /\ Cardinality(Since(admitted[ip], now - Window)) \in Nat
              /\ Cardinality(Since(Append(admitted[ip], now), now - Window)) \in Nat
          BY <1>2, <5>1, SinceGrows
        <5>. QED BY <5>2
      <4>. QED BY <1>4, <3>1, <4>1, <4>3, <4>4, Numbers
    <3>2. CASE d # c
      <4>1. call'[d] = call[d] /\ call[d].at = "refused" /\ call[d].ip \in Ips
        BY <1>4, <2>1, <3>2 DEF TypeInv
      <4>2. admitted'[call[d].ip] \in {admitted[call[d].ip], Append(admitted[call[d].ip], now)}
        BY <1>4, <1>5, <4>1
      <4>. QED BY <4>1, <4>2, RefusedKept DEF LimitInv
    <3>. QED BY <3>1, <3>2
  <2>. QED BY <2>1 DEF RefusedOnlyWhenFull, Since
<1>10. SweepPast' /\ latest' \in Nat /\ latest' >= now /\ latest' >= latest
  BY <1>0, <1>1 DEF Entered, LimitInv, SweepPast
<1>11. ASSUME ordered' PROVE ordered /\ now >= latest /\ latest' = now
  <2>1. ordered' = (ordered /\ now >= latest)
    BY <1>1, Zenon DEF Entered
  <2>2. ordered /\ now >= latest
    BY <1>11, <2>1, Zenon
  <2>3. latest' = IF now > latest THEN now ELSE latest
    BY <1>1 DEF Entered
  <2>. QED BY <1>0, <2>2, <2>3
<1>12. HeldInOrder'
  <2>. SUFFICES ASSUME ordered' PROVE \A i \in Ips : InStep(events'[i], admitted'[i], now)
    BY <1>11 DEF HeldInOrder
  <2>1. ASSUME NEW i \in Ips PROVE InStep(evs[i], admitted[i], now)
    <3>1. InStep(events[i], admitted[i], now)
      BY <1>0, <1>11, InStepLater DEF LimitInv, HeldInOrder
    <3>2. InStep(<< >>, admitted[i], now) \/ evs[i] = events[i]
      BY <1>0, <1>3, <3>1, EvsCases, InStepSwept
    <3>3. evs[i] = events[i] \/ evs[i] = << >>
      BY <1>3, EvsCases
    <3>. QED BY <3>1, <3>2, <3>3
  <2>2. InStep(fresh, admitted[ip], now)
    BY <1>0, <1>3, <2>1, InStepLive
  <2>3. Len(fresh) < Max => InStep(Append(fresh, now), Append(admitted[ip], now), now)
    BY <1>0, <2>2, InStepAppend
  <2>. QED BY <1>4, <1>5, <2>1, <2>2, <2>3
<1>13. NoIdleBucket'
  <2>. SUFFICES ASSUME ordered' PROVE \A i \in Ips : LastLive(events'[i], lastSweep')
    BY DEF NoIdleBucket, LastLive
  <2>1. lastSweep' = (IF Due(now) THEN now ELSE lastSweep) /\ lastSweep <= now
    BY <1>0, <1>1, <1>11 DEF Entered, LimitInv, SweepPast
  <2>2. ASSUME NEW i \in Ips PROVE LastLive(evs[i], lastSweep')
    <3>1. LastLive(events[i], lastSweep)
      BY <1>11 DEF LimitInv, NoIdleBucket, LastLive
    <3>2. LastLive(<< >>, lastSweep')
      BY DEF LastLive
    <3>. QED BY <1>3, <2>1, <3>1, <3>2, EvsCases
  <2>3. \A ev \in Seq(Nat) : LastLive(ev, now) => LastLive(ev, lastSweep')
    BY <1>0, <2>1, Numbers DEF LastLive
  <2>4. LastLive(fresh, lastSweep')
    BY <1>3, <2>3, LiveLast
  <2>5. LastLive(Append(fresh, now), now)
    BY Numbers DEF LastLive
  <2>6. LastLive(Append(fresh, now), lastSweep')
    BY <1>2, <2>3, <2>5
  <2>. QED BY <1>4, <1>5, <2>2, <2>4, <2>6
<1>. QED BY <1>8, <1>9, <1>10, <1>12, <1>13 DEF LimitInv

\* A step that moves no bucket.
LEMMA StandsLimit ==
  ASSUME LimitInv, TypeInv', UNCHANGED <<events, lastSweep, admitted, latest, ordered>>,
         \A c \in Callers : call'[c].at = "refused" => call'[c] = call[c]
  PROVE  LimitInv'
BY DEF LimitInv, Held, RefusedOnlyWhenFull, HeldInOrder, SweepPast, NoIdleBucket

\* The invariant of the limit is inductive.
LEMMA StepLimit ==
  ASSUME LimitInv, [Next]_vars PROVE LimitInv'
<1>0. TypeInv /\ TypeInv'
  BY StepTypeInv DEF LimitInv
<1>1. CASE Tick
  BY <1>0, <1>1, StandsLimit DEF Tick
<1>2. ASSUME NEW c \in Callers, Arrive(c) PROVE LimitInv'
  <2>1. PICK r : r.at = "waiting" /\ call' = [call EXCEPT ![c] = r]
    BY <1>2 DEF Arrive
  <2>2. \A d \in Callers : call'[d].at = "refused" => call'[d] = call[d]
    BY <1>0, <2>1 DEF TypeInv, TypeOK
  <2>. QED BY <1>0, <1>2, <2>2, StandsLimit DEF Arrive
<1>3. ASSUME NEW c \in Callers, Enter(c) PROVE LimitInv'
  BY <1>0, <1>3, EnterLimit
<1>4. ASSUME NEW c \in Callers, Reset(c) PROVE LimitInv'
  <2>1. \A ip \in Ips : events'[ip] = << >> /\ admitted'[ip] = << >>
    BY <1>4 DEF Reset
  <2>2. lastSweep' = clock /\ latest' = clock /\ clock \in Nat
    BY <1>0, <1>4 DEF Reset, TypeInv, TypeOK
  <2>3. Held'
    <3>1. Embeds(<< >>, << >>)
      <4>1. << >> \in Seq(Nat)
        OBVIOUS
      <4>. QED BY <4>1, EmbedsEmpty
    <3>. QED BY <2>1, <3>1 DEF Held
  <2>4. RefusedOnlyWhenFull'
    <3>1. \A d \in Callers : call'[d].at # "refused"
      BY <1>0, <1>4 DEF Reset, TypeInv, TypeOK, Call
    <3>. QED BY <3>1 DEF RefusedOnlyWhenFull
  <2>5. HeldInOrder'
    BY <2>1, <2>2, InStepEmpty DEF HeldInOrder
  <2>6. SweepPast' /\ NoIdleBucket'
    BY <2>1, <2>2 DEF SweepPast, NoIdleBucket
  <2>. QED BY <1>0, <2>3, <2>4, <2>5, <2>6 DEF LimitInv
<1>5. CASE UNCHANGED vars
  BY <1>0, <1>5, StandsLimit DEF vars
<1>. QED BY <1>1, <1>2, <1>3, <1>4, <1>5 DEF Next

\* The invariant says that the limit is kept.
LEMMA InvLimit == LimitInv => LimitExact
<1>. SUFFICES ASSUME LimitInv PROVE LimitExact
  OBVIOUS
<1>1. WindowRespectedInOrder
  <2>. SUFFICES ASSUME ordered, NEW ip \in Ips, NEW k \in 1 .. Len(admitted[ip])
                PROVE  InWindow(admitted[ip], admitted[ip][k]) <= Max
    BY DEF WindowRespectedInOrder, WindowRespected
  <2>1. admitted[ip] \in Seq(Nat)
    BY DEF LimitInv, TypeInv, TypeOK
  <2>2. Sorted(admitted[ip]) /\ Spaced(admitted[ip])
    BY DEF LimitInv, HeldInOrder, InStep
  <2>3. admitted[ip][k] \in Nat
    BY <2>1
  <2>. QED BY <2>1, <2>2, <2>3, InStepWindow
<1>. QED BY <1>1 DEF LimitExact, LimitInv

-----------------------------------------------------------------------------
\* It holds in every state.
LEMMA Invariant == Spec => []LimitInv
<1>. QED BY InitLimit, StepLimit, PTL DEF Spec

\* The types hold: in particular buckets stay sequences of times however they
\* are pruned and swept (RateLimiter of _rate_limit.py).
THEOREM TypesHold == Spec => []TypeOK
<1>1. LimitInv => TypeOK
  BY DEF LimitInv, TypeInv
<1>. QED BY <1>1, Invariant, PTL

\* For any number of threads and keys, any limit and any window: while callers
\* enter in the order of the clock, no window holds more than Max admissions
\* and no bucket outlives the sweep; and in any order a caller is refused only
\* if Max admissions are inside its window (check, _sweep and reset).
THEOREM LimitHolds == Spec => []LimitExact
<1>. QED BY Invariant, InvLimit, PTL
=============================================================================
