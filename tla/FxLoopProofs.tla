---------------------------- MODULE FxLoopProofs ----------------------------
(* The render loop for every configuration a user may save: its cache keeps  *)
(* its limit, frames that are shared keep to their effect and length, and    *)
(* the two passes over a virtual segment agree.                              *)
EXTENDS FxLoop, SequenceTheorems, FiniteSetTheorems, WellFoundedInduction,
        TLAPS

-----------------------------------------------------------------------------
(* Induction over sets of numbers, from the well-foundedness of inclusion,   *)
(* and functions by recursion; as in DeviceBookProofs.                       *)
LEMMA LeastNat ==
    ASSUME NEW T, T \subseteq Nat, T # {}
    PROVE  \E x \in T : \A y \in T : x <= y
<1> DEFINE U == {1..n : n \in T}
           R == StrictSubsetOrdering(Nat)
<1>1. IsWellFoundedOn(R, FiniteSubsetsOf(Nat))
  BY FS_StrictSubsetOrderingWellFounded
<1>2. U \subseteq FiniteSubsetsOf(Nat) /\ U # {}
  <2>1. ASSUME NEW n \in T
        PROVE  1..n \in FiniteSubsetsOf(Nat)
    <3>1. n \in Int /\ 1 \in Int /\ 1..n \subseteq Nat
      OBVIOUS
    <3>2. QED  BY <3>1, FS_Interval DEF FiniteSubsetsOf
  <2>2. QED  BY <2>1
<1>3. \E X \in U : \A Y \in U : <<Y, X>> \notin R
  <2> HIDE DEF U, R
  <2>1. QED  BY <1>1, <1>2, WFMin
<1>4. PICK n \in T : \A Y \in U : <<Y, 1..n>> \notin R
  BY <1>3
<1>5. ASSUME NEW m \in T, m < n
      PROVE  FALSE
  <2>1. 1..m \subseteq 1..n /\ n \notin 1..m /\ n \in 1..n
    BY <1>5
  <2>2. 1..m \in SUBSET Nat /\ 1..n \in SUBSET Nat /\ 1..m # 1..n
    BY <2>1
  <2>3. <<1..m, 1..n>> \in R
    BY <2>1, <2>2 DEF StrictSubsetOrdering
  <2>4. QED  BY <1>4, <2>3
<1>6. QED  BY <1>5

LEMMA Induction ==
    ASSUME NEW P, 0 \in P, \A n \in Nat : n \in P => n + 1 \in P
    PROVE  \A n \in Nat : n \in P
<1>1. SUFFICES ASSUME NEW m \in Nat, m \notin P
               PROVE  FALSE
  OBVIOUS
<1>2. PICK x \in Nat \ P : \A y \in Nat \ P : x <= y
  <2>1. Nat \ P \subseteq Nat /\ Nat \ P # {}
    BY <1>1
  <2>2. QED  BY <2>1, LeastNat
<1>3. x # 0 /\ x - 1 \in Nat /\ x - 1 \in P
  BY <1>2
<1>4. QED  BY <1>2, <1>3

(* A recursion on 0..m, which starts at d0 and whose n-th step is op[n]: it   *)
(* defines something, as there is a function with the values it says.        *)
Steps(D, m) == [1..m -> [D -> D]]
Iterates(D, d0, op, k, f) ==
    /\ f \in [0..k -> D] /\ f[0] = d0
    /\ \A n \in 1..k : f[n] = op[n][f[n - 1]]

LEMMA Recursion ==
    ASSUME NEW D, NEW d0 \in D, NEW m \in Nat, NEW op \in Steps(D, m)
    PROVE  \E f : Iterates(D, d0, op, m, f)
<1> DEFINE Upto(f, k) == Iterates(D, d0, op, k, f)
           P == {k \in Nat : k <= m => \E f : Upto(f, k)}
<1>1. 0 \in P
  <2>1. Upto([n \in 0..0 |-> d0], 0)
    BY DEF Iterates
  <2>2. QED  BY <2>1
<1>2. ASSUME NEW k \in Nat, k \in P, k + 1 <= m
      PROVE  \E f : Upto(f, k + 1)
  <2>1. PICK f : Upto(f, k)
    BY <1>2
  <2>2. f[k] \in D /\ op[k + 1] \in [D -> D]
    BY <1>2, <2>1 DEF Iterates, Steps
  <2> DEFINE g == [n \in 0..(k + 1) |-> IF n <= k THEN f[n] ELSE op[k + 1][f[k]]]
  <2>3. g \in [0..(k + 1) -> D]
    BY <2>1, <2>2 DEF Iterates
  <2>4. g[0] = d0
    BY <2>1 DEF Iterates
  <2>5. ASSUME NEW n \in 1..(k + 1)
        PROVE  g[n] = op[n][g[n - 1]]
    <3>1. CASE n <= k
      BY <2>1, <3>1 DEF Iterates
    <3>2. CASE n = k + 1
      BY <2>1, <3>2 DEF Iterates
    <3>3. QED  BY <3>1, <3>2
  <2>6. QED  BY <2>3, <2>4, <2>5 DEF Iterates
<1>3. \A k \in Nat : k \in P
  <2>1. \A k \in Nat : k \in P => k + 1 \in P
    BY <1>2
  <2> HIDE DEF P
  <2>2. QED  BY <1>1, <2>1, Induction
<1>4. QED  BY <1>3
-----------------------------------------------------------------------------
(* The parts of a virtual segment.                                           *)
LEMMA StripKnown ==
    ASSUME NEW m, NEW strips \in Seq(Segs), m.index \in Nat
    PROVE  StripOf(m, strips) \in Segs \cup {NULL}
<1>1. DOMAIN strips = 1..Len(strips) /\ Len(strips) \in Nat
  BY LenProperties
<1>2. \A i \in 1..Len(strips) : strips[i] \in Segs
  BY ElementOfSeq
<1>3. CASE \E i \in DOMAIN strips : strips[i] = m.id
  BY <1>1, <1>2, <1>3 DEF StripOf
<1>4. CASE ~ \E i \in DOMAIN strips : strips[i] = m.id
  <2>1. m.index < Len(strips) => strips[m.index + 1] \in Segs
    BY <1>1, <1>2
  <2>2. QED  BY <1>4, <2>1 DEF StripOf
<1>5. QED  BY <1>3, <1>4

LEMMA PartNat ==
    ASSUME NEW m \in Members, NEW strips \in Seq(Segs)
    PROVE  PartLength(m, strips) \in Nat
<1> DEFINE s == StripOf(m, strips)
<1>1. m.index \in Nat /\ m.start \in Nat /\ m.length \in Nat
  BY DEF Members
<1>2. s \in Segs \cup {NULL}
  BY <1>1, StripKnown
<1> HIDE DEF s
<1>3. CASE s = NULL
  BY <1>3 DEF PartLength, s
<1>4. CASE s # NULL
  <2>1. Leds[s] \in Nat
    BY <1>2, <1>4, LengthAssumption
  <2>2. PartLength(m, strips) =
          IF m.length > 0
          THEN Lesser(m.length, Leds[s] - Lesser(m.start, Leds[s]))
          ELSE Leds[s] - Lesser(m.start, Leds[s])
    BY <1>4 DEF PartLength, PartStart, s
  <2>3. Lesser(m.start, Leds[s]) \in Nat /\ Lesser(m.start, Leds[s]) <= Leds[s]
    BY <1>1, <2>1 DEF Lesser
  <2>4. QED  BY <1>1, <2>1, <2>2, <2>3 DEF Lesser
<1>5. QED  BY <1>3, <1>4

LEMMA WishedNat ==
    ASSUME NEW m \in Members, NEW strips \in Seq(Segs), NEW devs \in SUBSET Devs
    PROVE  /\ Counted(m, strips, devs) \in Nat /\ Wished(m, strips, devs) \in Nat
           /\ Modest(m, devs) => Wished(m, strips, devs) <= Counted(m, strips, devs)
<1>1. PartLength(m, strips) \in Nat /\ m.length \in Nat
  BY PartNat DEF Members
<1> DEFINE w == IF m.id \in devs THEN Leds[m.id] ELSE 0
<1>2. w \in Nat
  BY LengthAssumption
<1>3. CASE m.type = "physical"
  BY <1>1, <1>3 DEF Counted, Wished
<1>4. CASE m.type = "wled"
  <2>1. Counted(m, strips, devs) = w
    BY <1>4 DEF Counted
  <2>2. Wished(m, strips, devs) = IF m.length = 0 THEN w ELSE m.length
    BY <1>4 DEF Wished
  <2>3. Modest(m, devs) => m.length <= w
    BY <1>4 DEF Modest
  <2> HIDE DEF w
  <2>4. QED  BY <1>1, <1>2, <2>1, <2>2, <2>3
<1>5. CASE m.type \notin {"physical", "wled"}
  BY <1>1, <1>5 DEF Counted, Wished, Modest
<1>6. QED  BY <1>3, <1>4, <1>5

LEMMA FrameNat ==
    ASSUME NEW total \in Nat
    PROVE  /\ FrameLength(total) \in Nat
           /\ total < Width => FrameLength(total) = total
<1>1. Width \in Nat \ {0} /\ Default \in Nat
  BY LengthAssumption
<1>2. total % Width \in Nat
  BY <1>1
<1>3. total < Width => total % Width = total
  BY <1>1
<1>4. QED  BY <1>1, <1>2, <1>3 DEF FrameLength
-----------------------------------------------------------------------------
(* The recursions of VirtualSplit, unfolded.                                 *)
SumFrom(ms, strips, devs, sum) ==
    sum = [i \in 0..Len(ms) |->
             IF i = 0 THEN 0 ELSE sum[i - 1] + Counted(ms[i], strips, devs)]
CutFrom(ms, strips, devs, size, cut) ==
    cut = [i \in 0..Len(ms) |->
             IF i = 0 THEN 0
             ELSE Lesser(size, cut[i - 1] + Wished(ms[i], strips, devs))]

LEMMA TotalUnfolds ==
    ASSUME NEW ms \in Seq(Members), NEW strips \in Seq(Segs),
           NEW devs \in SUBSET Devs
    PROVE  \E sum : /\ SumFrom(ms, strips, devs, sum)
                    /\ Total(ms, strips, devs) = sum[Len(ms)]
<1> DEFINE op == [i \in 1..Len(ms) |->
                    [x \in Nat |-> x + Counted(ms[i], strips, devs)]]
           m == Len(ms)
<1>1. m \in Nat
  BY LenProperties
<1>2. op \in Steps(Nat, m)
  <2>1. ASSUME NEW i \in 1..Len(ms), NEW x \in Nat
        PROVE  x + Counted(ms[i], strips, devs) \in Nat
    <3>1. ms[i] \in Members
      BY ElementOfSeq
    <3>2. Counted(ms[i], strips, devs) \in Nat
      BY <3>1, WishedNat
    <3>3. QED  BY <3>2
  <2>2. QED  BY <2>1 DEF Steps
<1>3. PICK f : Iterates(Nat, 0, op, m, f)
  <2> HIDE DEF op, m
  <2>1. QED  BY <1>1, <1>2, Recursion
<1>4. SumFrom(ms, strips, devs, f)
  <2> DEFINE g == [i \in 0..Len(ms) |->
                    IF i = 0 THEN 0 ELSE f[i - 1] + Counted(ms[i], strips, devs)]
  <2>1. ASSUME NEW i \in 0..Len(ms)
        PROVE  f[i] = IF i = 0 THEN 0 ELSE f[i - 1] + Counted(ms[i], strips, devs)
    <3>1. CASE i = 0
      BY <1>3, <3>1 DEF Iterates
    <3>2. CASE i # 0
      <4>1. i \in 1..Len(ms) /\ i - 1 \in 0..Len(ms)
        BY <1>1, <3>2
      <4>2. f[i] = op[i][f[i - 1]] /\ f[i - 1] \in Nat
        BY <1>3, <4>1 DEF Iterates
      <4>3. QED  BY <3>2, <4>1, <4>2
    <3>3. QED  BY <3>1, <3>2
  <2>2. f = g
    BY <1>3, <2>1 DEF Iterates
  <2>3. QED  BY <2>2 DEF SumFrom
<1>5. QED  BY <1>4, Zenon DEF Total, SumFrom

LEMMA SumStep ==
    ASSUME NEW ms, NEW strips, NEW devs, NEW sum, SumFrom(ms, strips, devs, sum),
           NEW k \in 0..Len(ms)
    PROVE  sum[k] = IF k = 0 THEN 0
                    ELSE sum[k - 1] + Counted(ms[k], strips, devs)
<1> DEFINE g == [i \in 0..Len(ms) |->
                  IF i = 0 THEN 0 ELSE sum[i - 1] + Counted(ms[i], strips, devs)]
<1>1. sum = g
  BY Zenon DEF SumFrom
<1>2. sum[k] = g[k]
  <2> HIDE DEF g
  <2>1. QED  BY <1>1
<1>3. QED  BY <1>2, Zenon

LEMMA CutsUnfold ==
    ASSUME NEW ms \in Seq(Members), NEW strips \in Seq(Segs),
           NEW devs \in SUBSET Devs, FrameLength(Total(ms, strips, devs)) \in Nat
    PROVE  CutFrom(ms, strips, devs, FrameLength(Total(ms, strips, devs)),
                   Cuts(ms, strips, devs))
<1> DEFINE size == FrameLength(Total(ms, strips, devs))
           op == [i \in 1..Len(ms) |->
                    [x \in Nat |-> Lesser(size, x + Wished(ms[i], strips, devs))]]
           m == Len(ms)
<1>1. m \in Nat /\ size \in Nat
  BY LenProperties
<1> HIDE DEF size
<1>2. op \in Steps(Nat, m)
  <2>1. ASSUME NEW i \in 1..Len(ms), NEW x \in Nat
        PROVE  Lesser(size, x + Wished(ms[i], strips, devs)) \in Nat
    <3>1. ms[i] \in Members
      BY ElementOfSeq
    <3>2. Wished(ms[i], strips, devs) \in Nat
      BY <3>1, WishedNat
    <3>3. QED  BY <1>1, <3>2 DEF Lesser
  <2>2. QED  BY <2>1 DEF Steps
<1>3. PICK f : Iterates(Nat, 0, op, m, f)
  <2> HIDE DEF op, m
  <2>1. QED  BY <1>1, <1>2, Recursion
<1>4. CutFrom(ms, strips, devs, size, f)
  <2> DEFINE g == [i \in 0..Len(ms) |->
                    IF i = 0 THEN 0
                    ELSE Lesser(size, f[i - 1] + Wished(ms[i], strips, devs))]
  <2>1. ASSUME NEW i \in 0..Len(ms)
        PROVE  f[i] = IF i = 0 THEN 0
                      ELSE Lesser(size, f[i - 1] + Wished(ms[i], strips, devs))
    <3>1. CASE i = 0
      BY <1>3, <3>1 DEF Iterates
    <3>2. CASE i # 0
      <4>1. i \in 1..Len(ms) /\ i - 1 \in 0..Len(ms)
        BY <1>1, <3>2
      <4>2. f[i] = op[i][f[i - 1]] /\ f[i - 1] \in Nat
        BY <1>3, <4>1 DEF Iterates
      <4>3. QED  BY <3>2, <4>1, <4>2
    <3>3. QED  BY <3>1, <3>2
  <2>2. f = g
    BY <1>3, <2>1 DEF Iterates
  <2>3. QED  BY <2>2 DEF CutFrom
<1>5. QED  BY <1>4, Zenon DEF Cuts, CutFrom, size

LEMMA CutStep ==
    ASSUME NEW ms, NEW strips, NEW devs, NEW size, NEW cut,
           CutFrom(ms, strips, devs, size, cut), NEW k \in 0..Len(ms)
    PROVE  cut[k] = IF k = 0 THEN 0
                    ELSE Lesser(size, cut[k - 1] + Wished(ms[k], strips, devs))
<1> DEFINE g == [i \in 0..Len(ms) |->
                  IF i = 0 THEN 0
                  ELSE Lesser(size, cut[i - 1] + Wished(ms[i], strips, devs))]
<1>1. cut = g
  BY Zenon DEF CutFrom
<1>2. cut[k] = g[k]
  <2> HIDE DEF g
  <2>1. QED  BY <1>1
<1>3. QED  BY <1>2, Zenon

(* The sum of the lengths grows from member to member.                       *)
Grows(ms, strips, devs, sum) ==
    /\ sum[0] = 0
    /\ \A i \in 0..Len(ms) : sum[i] \in Nat /\ sum[i] <= Total(ms, strips, devs)
    /\ \A i \in 1..Len(ms) : sum[i] = sum[i - 1] + Counted(ms[i], strips, devs)

LEMMA SumGrows ==
    ASSUME NEW ms \in Seq(Members), NEW strips \in Seq(Segs),
           NEW devs \in SUBSET Devs
    PROVE  /\ Total(ms, strips, devs) \in Nat
           /\ \E sum : Grows(ms, strips, devs, sum)
<1>1. PICK sum : /\ SumFrom(ms, strips, devs, sum)
                 /\ Total(ms, strips, devs) = sum[Len(ms)]
  BY TotalUnfolds
<1>2. Len(ms) \in Nat
  BY LenProperties
<1>3. ASSUME NEW k \in 0..Len(ms)
      PROVE  sum[k] = IF k = 0 THEN 0
                      ELSE sum[k - 1] + Counted(ms[k], strips, devs)
  <2>1. SumFrom(ms, strips, devs, sum)
    BY <1>1
  <2>2. QED  BY <2>1, SumStep
<1>4. sum[0] = 0
  <2>1. 0 \in 0..Len(ms)
    BY <1>2
  <2>2. QED  BY <1>3, <2>1
<1>5. ASSUME NEW k \in 1..Len(ms)
      PROVE  /\ sum[k] = sum[k - 1] + Counted(ms[k], strips, devs)
             /\ Counted(ms[k], strips, devs) \in Nat
  <2>1. k \in 0..Len(ms) /\ k # 0
    BY <1>2
  <2>2. ms[k] \in Members
    BY ElementOfSeq
  <2>3. Counted(ms[k], strips, devs) \in Nat
    BY <2>2, WishedNat
  <2>4. QED  BY <1>3, <2>1, <2>3
<1> DEFINE P == {n \in Nat : n <= Len(ms) =>
                   sum[n] \in Nat /\ \A j \in 0..n : sum[j] \in Nat /\ sum[j] <= sum[n]}
<1>6. 0 \in P
  BY <1>4
<1>7. ASSUME NEW n \in Nat, n \in P, n + 1 <= Len(ms)
      PROVE  /\ sum[n + 1] \in Nat
             /\ \A j \in 0..(n + 1) : sum[j] \in Nat /\ sum[j] <= sum[n + 1]
  <2>1. sum[n] \in Nat /\ \A j \in 0..n : sum[j] \in Nat /\ sum[j] <= sum[n]
    BY <1>2, <1>7
  <2>2. n + 1 \in 1..Len(ms) /\ n + 1 - 1 = n
    BY <1>2, <1>7
  <2>3. sum[n + 1] \in Nat /\ sum[n] <= sum[n + 1]
    <3>1. /\ sum[n + 1] = sum[n] + Counted(ms[n + 1], strips, devs)
          /\ Counted(ms[n + 1], strips, devs) \in Nat
      <4> HIDE DEF P
      <4>1. QED  BY <1>5, <2>2
    <3>2. QED  BY <2>1, <3>1
  <2>4. ASSUME NEW j \in 0..(n + 1)
        PROVE  sum[j] \in Nat /\ sum[j] <= sum[n + 1]
    <3>1. CASE j = n + 1
      BY <2>3, <3>1
    <3>2. CASE j # n + 1
      <4>1. j \in 0..n
        BY <3>2
      <4>2. sum[j] \in Nat /\ sum[j] <= sum[n]
        BY <2>1, <4>1
      <4>3. QED  BY <2>1, <2>3, <4>2
    <3>3. QED  BY <3>1, <3>2
  <2>5. QED  BY <2>3, <2>4
<1>8. \A n \in Nat : n \in P
  <2>1. \A n \in Nat : n \in P => n + 1 \in P
    BY <1>7
  <2> HIDE DEF P
  <2>2. QED  BY <1>6, <2>1, Induction
<1>9. /\ sum[Len(ms)] \in Nat
      /\ \A j \in 0..Len(ms) : sum[j] \in Nat /\ sum[j] <= sum[Len(ms)]
  BY <1>2, <1>8
<1>10. Grows(ms, strips, devs, sum)
  BY <1>1, <1>4, <1>5, <1>9 DEF Grows
<1>11. QED  BY <1>1, <1>9, <1>10

(* No share ends behind the frame; and with modest members and a total that   *)
(* does not overflow, none ends behind the sum of the lengths so far.        *)
Fits(ms, strips, devs) ==
    /\ Total(ms, strips, devs) < Width
    /\ \A j \in DOMAIN ms : Modest(ms[j], devs)

LEMMA SharesFit ==
    ASSUME NEW ms \in Seq(Members), NEW strips \in Seq(Segs),
           NEW devs \in SUBSET Devs, NEW i \in DOMAIN ms
    PROVE  /\ Cuts(ms, strips, devs)[i] <= FrameLength(Total(ms, strips, devs))
           /\ Fits(ms, strips, devs) =>
                Cuts(ms, strips, devs)[i] - Cuts(ms, strips, devs)[i - 1]
                  = Wished(ms[i], strips, devs)
<1> DEFINE total == Total(ms, strips, devs)
           size == FrameLength(total)
           cut == Cuts(ms, strips, devs)
           W(k) == Wished(ms[k], strips, devs)
           C(k) == Counted(ms[k], strips, devs)
<1>1. total \in Nat /\ \E sum : Grows(ms, strips, devs, sum)
  BY SumGrows
<1>2. PICK sum : Grows(ms, strips, devs, sum)
  BY <1>1
<1>3. size \in Nat /\ (total < Width => size = total)
  <2> HIDE DEF total
  <2>1. QED  BY <1>1, FrameNat
<1>4. Len(ms) \in Nat /\ DOMAIN ms = 1..Len(ms)
  BY LenProperties
<1>5. CutFrom(ms, strips, devs, size, cut)
  BY <1>3, CutsUnfold
<1> HIDE DEF total, size, cut
<1>6. cut[0] = 0
  <2>1. 0 \in 0..Len(ms)
    BY <1>4
  <2>2. QED  BY <1>5, <2>1, CutStep
<1>7. ASSUME NEW k \in 1..Len(ms)
      PROVE  /\ cut[k] = Lesser(size, cut[k - 1] + W(k))
             /\ W(k) \in Nat /\ C(k) \in Nat /\ sum[k] = sum[k - 1] + C(k)
             /\ sum[k] \in Nat /\ sum[k - 1] \in Nat /\ sum[k] <= total
             /\ Fits(ms, strips, devs) => W(k) <= C(k)
  <2>1. k \in 0..Len(ms) /\ k # 0 /\ k - 1 \in 0..Len(ms)
    BY <1>4
  <2>2. cut[k] = IF k = 0 THEN 0 ELSE Lesser(size, cut[k - 1] + W(k))
    BY <1>5, <2>1, CutStep
  <2>3. ms[k] \in Members
    BY ElementOfSeq
  <2>4. /\ C(k) \in Nat /\ W(k) \in Nat
        /\ Modest(ms[k], devs) => W(k) <= C(k)
    BY <2>3, WishedNat
  <2>5. Fits(ms, strips, devs) => Modest(ms[k], devs)
    BY <1>4 DEF Fits
  <2>6. /\ sum[k] = sum[k - 1] + C(k)
        /\ sum[k] \in Nat /\ sum[k - 1] \in Nat /\ sum[k] <= total
    BY <1>2, <2>1 DEF Grows, total
  <2>7. QED  BY <2>1, <2>2, <2>4, <2>5, <2>6
<1> HIDE DEF W, C
<1> DEFINE P == {n \in Nat : n <= Len(ms) =>
                   /\ cut[n] \in Nat /\ cut[n] <= size
                   /\ Fits(ms, strips, devs) => cut[n] <= sum[n]}
<1>8. 0 \in P
  <2>1. sum[0] = 0
    BY <1>2 DEF Grows
  <2>2. QED  BY <1>3, <1>6, <2>1
<1>9. ASSUME NEW n \in Nat, n \in P, n + 1 <= Len(ms)
      PROVE  /\ cut[n + 1] \in Nat /\ cut[n + 1] <= size
             /\ Fits(ms, strips, devs) => cut[n + 1] <= sum[n + 1]
  <2>1. n + 1 \in 1..Len(ms) /\ n + 1 - 1 = n
    BY <1>4, <1>9
  <2>2. /\ cut[n] \in Nat /\ cut[n] <= size
        /\ Fits(ms, strips, devs) => cut[n] <= sum[n]
    BY <1>4, <1>9
  <2>3. /\ cut[n + 1] = Lesser(size, cut[n] + W(n + 1))
        /\ W(n + 1) \in Nat /\ C(n + 1) \in Nat /\ sum[n + 1] = sum[n] + C(n + 1)
        /\ sum[n + 1] \in Nat /\ sum[n] \in Nat
        /\ Fits(ms, strips, devs) => W(n + 1) <= C(n + 1)
    <3> HIDE DEF P
    <3>1. QED  BY <1>7, <2>1
  <2>4. cut[n + 1] \in Nat /\ cut[n + 1] <= size
    BY <1>3, <2>2, <2>3 DEF Lesser
  <2>5. ASSUME Fits(ms, strips, devs)  PROVE cut[n + 1] <= sum[n + 1]
    <3>1. cut[n] <= sum[n] /\ W(n + 1) <= C(n + 1)
      BY <2>2, <2>3, <2>5
    <3>2. cut[n + 1] <= cut[n] + W(n + 1)
      BY <1>3, <2>2, <2>3 DEF Lesser
    <3>3. QED  BY ONLY <2>2, <2>3, <2>4, <3>1, <3>2
  <2>6. QED  BY <2>4, <2>5
<1>10. \A n \in Nat : n \in P
  <2>1. \A n \in Nat : n \in P => n + 1 \in P
    BY <1>9
  <2> HIDE DEF P
  <2>2. QED  BY <1>8, <2>1, Induction
<1>11. ASSUME NEW n \in 0..Len(ms)
       PROVE  /\ cut[n] \in Nat /\ cut[n] <= size
              /\ Fits(ms, strips, devs) => cut[n] <= sum[n]
  BY <1>4, <1>10
<1> HIDE DEF P
<1>12. cut[i] <= size
  BY <1>4, <1>11
<1>13. ASSUME Fits(ms, strips, devs)
       PROVE  cut[i] - cut[i - 1] = W(i)
  <2>1. i \in 1..Len(ms) /\ i - 1 \in 0..Len(ms)
    BY <1>4
  <2>2. cut[i - 1] \in Nat /\ cut[i - 1] <= sum[i - 1]
    BY <1>11, <1>13, <2>1
  <2>3. /\ cut[i] = Lesser(size, cut[i - 1] + W(i))
        /\ W(i) \in Nat /\ C(i) \in Nat /\ sum[i] = sum[i - 1] + C(i)
        /\ sum[i] \in Nat /\ sum[i - 1] \in Nat /\ sum[i] <= total /\ W(i) <= C(i)
    BY <1>7, <1>13, <2>1
  <2>4. size = total
    BY <1>3, <1>13 DEF Fits, total
  <2>5. cut[i - 1] + W(i) <= size
    BY <1>1, <2>2, <2>3, <2>4
  <2>6. cut[i] = cut[i - 1] + W(i)
    BY <1>3, <2>2, <2>3, <2>5 DEF Lesser
  <2>7. QED  BY <2>2, <2>3, <2>6
<1>14. QED  BY <1>12, <1>13 DEF W, cut, size, total
-----------------------------------------------------------------------------
(* The invariant: types, a finite cache within its limit, and frames that    *)
(* are what was asked for.  The snapshot is of some configuration.           *)
Snaps == [bind : Seq(Bindings), devs : SUBSET Devs, segs : Seq(Segs),
          virt : SUBSET Segments]
Caching ==
    /\ cache \subseteq Frames /\ IsFiniteSet(cache)
    /\ old \in Nat /\ CacheSize <= CacheMax
Places ==
    /\ cfg \in Configs /\ saving \in BOOLEAN
    /\ fx \in {[bind |-> c.bind, devs |-> c.devs] : c \in Configs}
    /\ pc \in {"snapshot", "gate", "bindings", "local", "virtual"}
    /\ snap \in Snaps
    /\ idx \in 0..(ClearPeriod * CleanupPeriod - 1)
    /\ next \in 1..(Len(snap.bind) + 1) \/ pc \in {"snapshot", "gate"}
    /\ had \in BOOLEAN
    /\ active \subseteq Devs /\ live \subseteq Devs /\ loose \subseteq live
FxInv == Places /\ Caching /\ OwnEffect

LEMMA ConfigTyped ==
    ASSUME NEW c \in Configs
    PROVE  /\ c.bind \in Seq(Bindings) /\ c.devs \in SUBSET Devs
           /\ c.segs \in Seq(Segs) /\ c.assign \in [Segs -> Chosen \cup {NULL}]
           /\ c.virt \in SUBSET Segments
BY ConfigAssumption

LEMMA PeriodPositive ==
    /\ ClearPeriod * CleanupPeriod \in Nat
    /\ ClearPeriod * CleanupPeriod >= 1
<1>1. ClearPeriod \in Nat \ {0} /\ CleanupPeriod \in Nat \ {0}
  BY PeriodAssumption
<1>2. QED  BY <1>1

LEMMA FiniteImage ==
    ASSUME NEW S, IsFiniteSet(S), NEW f, DOMAIN f = S
    PROVE  IsFiniteSet({f[x] : x \in S})
<1> DEFINE T == {f[x] : x \in S}
           g == [x \in S |-> f[x]]
<1>1. g \in Surjection(S, T)
  BY DEF Surjection
<1> HIDE DEF T, g
<1>2. IsFiniteSet(T)
  BY <1>1, FS_Surjection
<1>3. QED  BY <1>2 DEF T

FrameOf(f, e, n) == f \in Frames /\ f.effect = e /\ f.leds = n

LEMMA FrameFits ==
    ASSUME cache \subseteq Frames, NEW e \in STRING, NEW n \in Nat, NEW l \in STRING
    PROVE  FrameOf(Frame(e, n, l), e, n)
<1> DEFINE hits == {f \in cache : f.effect = e /\ f.leds = n}
<1>1. CASE hits # {}
  <2>1. Frame(e, n, l) = CHOOSE f \in hits : TRUE
    BY <1>1 DEF Frame
  <2>2. Frame(e, n, l) \in hits
    BY <1>1, <2>1
  <2>3. QED  BY <2>2 DEF FrameOf
<1>2. CASE hits = {}
  <2>1. Frame(e, n, l) = [effect |-> e, leds |-> n, look |-> l]
    BY <1>2 DEF Frame
  <2>2. QED  BY <2>1 DEF Frames, FrameOf
<1>3. QED  BY <1>1, <1>2

LEMMA CacheNat ==
    ASSUME Caching
    PROVE  /\ Cardinality(cache) \in Nat /\ CacheSize \in Nat
           /\ CacheMax \in Nat /\ CacheSize <= CacheMax
BY FS_CardinalityType, CacheAssumption DEF Caching, CacheSize

LEMMA ReleaseShrinks ==
    ASSUME NEW ds, Release(ds), loose \subseteq live
    PROVE  live' \subseteq live /\ loose' \subseteq live'
<1>1. PICK failed : /\ live' = live \ (ds \ failed)
                    /\ loose' = (loose \ ds) \cup (live \cap failed)
  BY DEF Release
<1>2. QED  BY <1>1

LEMMA InitInv == Init => FxInv
<1>1. SUFFICES ASSUME Init
               PROVE  FxInv
  OBVIOUS
<1>2. snap \in Snaps
  <2>1. <<>> \in Seq(Bindings) /\ <<>> \in Seq(Segs)
    BY EmptySeq
  <2>2. QED  BY <1>1, <2>1 DEF Init, Snaps
<1>3. idx \in 0..(ClearPeriod * CleanupPeriod - 1)
  BY <1>1, PeriodPositive DEF Init
<1>4. Places
  BY <1>1, <1>2, <1>3 DEF Init, Places
<1>5. Caching
  <2>1. cache = {} /\ old = 0
    BY <1>1 DEF Init
  <2>2. IsFiniteSet(cache) /\ Cardinality(cache) = 0
    BY <2>1, FS_EmptySet
  <2>3. QED  BY <2>1, <2>2, CacheAssumption DEF Caching, CacheSize
<1>6. OwnEffect
  BY <1>1 DEF Init, OwnEffect
<1>7. QED  BY <1>4, <1>5, <1>6 DEF FxInv

(* Steps that leave the cache, and steps that leave the frames, alone.       *)
LEMMA CacheAlone ==
    ASSUME Caching, UNCHANGED <<cache, old>>
    PROVE  Caching'
BY DEF Caching, CacheSize

LEMMA FramesAlone ==
    ASSUME OwnEffect, UNCHANGED shown, sent' = sent \/ sent' = Nothing
    PROVE  OwnEffect'
<1>1. (sent # Nothing => /\ sent.frame.effect = sent.want.effect
                         /\ sent.frame.leds = Leds[sent.dev])'
  BY DEF OwnEffect, Nothing
<1>2. (\A s \in Segs : shown[s] # Blank =>
         /\ shown[s].frame.effect = shown[s].want.effect
         /\ shown[s].frame.leds = Leds[s])'
  BY DEF OwnEffect, Blank
<1>3. QED  BY <1>1, <1>2 DEF OwnEffect

LEMMA HandlerInv ==
    ASSUME FxInv, (\E c \in Configs : Save(c)) \/ UpdateConfig \/ SaveFail
    PROVE  FxInv'
<1>1. UNCHANGED <<pc, snap, idx, next, had, active, cache, old, live, loose, sent,
                  shown>>
  BY DEF Save, UpdateConfig, SaveFail
<1>2. /\ cfg' \in Configs /\ saving' \in BOOLEAN
      /\ fx' \in {[bind |-> c.bind, devs |-> c.devs] : c \in Configs}
  BY DEF Save, UpdateConfig, SaveFail, FxInv, Places
<1>3. Places'
  BY <1>1, <1>2 DEF FxInv, Places
<1>4. QED  BY <1>1, <1>3, CacheAlone, FramesAlone DEF FxInv

LEMMA SnapshotInv ==
    ASSUME FxInv, Snapshot
    PROVE  FxInv'
<1>1. snap' \in Snaps
  <2>1. cfg \in Configs
    BY DEF FxInv, Places
  <2>2. PICK c \in Configs : fx = [bind |-> c.bind, devs |-> c.devs]
    BY DEF FxInv, Places
  <2>3. fx.bind \in Seq(Bindings) /\ fx.devs \in SUBSET Devs
    BY <2>2, ConfigTyped
  <2>4. cfg.segs \in Seq(Segs) /\ cfg.virt \in SUBSET Segments
    BY <2>1, ConfigTyped
  <2>5. QED  BY <2>3, <2>4 DEF Snapshot, Snaps
<1>2. Places'
  BY <1>1 DEF Snapshot, FxInv, Places
<1>3. Caching'
  <2>1. cache' = cache /\ (old' = 0 \/ old' = old)
    BY DEF Snapshot
  <2>2. Caching
    BY DEF FxInv
  <2>3. old \in Nat /\ Cardinality(cache) \in Nat /\ old + Cardinality(cache) <= CacheMax
    BY <2>2, CacheNat DEF Caching, CacheSize
  <2>4. old' \in Nat /\ old' + Cardinality(cache) <= CacheMax
    BY <2>1, <2>3, CacheAssumption
  <2>5. QED  BY <2>1, <2>2, <2>4 DEF Caching, CacheSize
<1>4. OwnEffect'
  BY FramesAlone DEF Snapshot, FxInv
<1>5. QED  BY <1>2, <1>3, <1>4 DEF FxInv

LEMMA GateInv ==
    ASSUME FxInv, Rest \/ Gate \/ SkipBinding \/ Cleanup
    PROVE  FxInv'
<1>1. UNCHANGED <<cfg, fx, saving, snap, idx, cache, old, sent, shown>>
  BY DEF Rest, Gate, SkipBinding, Cleanup
<1>2. Len(snap.bind) \in Nat
  <2>1. snap.bind \in Seq(Bindings)
    BY DEF FxInv, Places, Snaps
  <2>2. QED  BY <2>1, LenProperties
<1>3. active' \subseteq active /\ live' \subseteq live /\ loose' \subseteq live'
  <2>1. loose \subseteq live
    BY DEF FxInv, Places
  <2>2. QED  BY <2>1, ReleaseShrinks DEF Rest, Gate, SkipBinding, Cleanup
<1>4. /\ pc' \in {"snapshot", "gate", "bindings", "local", "virtual"}
      /\ next' \in 1..(Len(snap.bind) + 1) \/ pc' \in {"snapshot", "gate"}
      /\ had' \in BOOLEAN
  <2>1. CASE Rest
    BY <2>1 DEF Rest, FxInv, Places
  <2>2. CASE Gate
    BY <1>2, <2>2 DEF Gate
  <2>3. CASE SkipBinding
    <3>1. /\ pc = "bindings" /\ pc' = pc /\ had' = had /\ next' = next + 1
          /\ next <= Len(snap.bind)
      BY <2>3 DEF SkipBinding
    <3>2. next \in 1..(Len(snap.bind) + 1) /\ had \in BOOLEAN
      BY <3>1 DEF FxInv, Places
    <3>3. QED  BY <1>2, <3>1, <3>2
  <2>4. CASE Cleanup
    <3>1. pc = "bindings" /\ pc' = "local" /\ had' = had /\ next' = next
      BY <2>4 DEF Cleanup
    <3>2. next \in 1..(Len(snap.bind) + 1) /\ had \in BOOLEAN
      BY <3>1 DEF FxInv, Places
    <3>3. QED  BY <3>1, <3>2
  <2>5. QED  BY <2>1, <2>2, <2>3, <2>4
<1>5. Places'
  <2>1. Places
    BY DEF FxInv
  <2>2. active' \subseteq Devs /\ live' \subseteq Devs /\ loose' \subseteq live'
    BY <1>3, <2>1 DEF Places
  <2>3. QED  BY <1>1, <1>4, <2>1, <2>2 DEF Places
<1>6. QED  BY <1>1, <1>5, CacheAlone, FramesAlone DEF FxInv

(* A binding's frame is sent, and cached if there is room.                   *)
LEMMA CachedFits ==
    ASSUME Caching, NEW f \in Frames, cache' = Cached(f), old' = old
    PROVE  Caching'
<1>1. /\ Cardinality(cache) \in Nat /\ old \in Nat /\ CacheMax \in Nat
      /\ CacheSize = old + Cardinality(cache) /\ CacheSize <= CacheMax
  BY CacheNat DEF Caching, CacheSize
<1>2. CASE cache' = cache
  BY <1>2, CacheAlone
<1>3. CASE cache' = cache \cup {f} /\ CacheSize < CacheMax
  <2>1. IsFiniteSet(cache)
    BY DEF Caching
  <2>2. /\ IsFiniteSet(cache \cup {f})
        /\ Cardinality(cache \cup {f})
             = IF f \in cache THEN Cardinality(cache) ELSE Cardinality(cache) + 1
    BY <2>1, FS_AddElement
  <2>3. old' + Cardinality(cache \cup {f}) <= CacheMax
    BY <1>1, <1>3, <2>2
  <2>4. cache' \subseteq Frames /\ old' \in Nat
    BY <1>1, <1>3 DEF Caching
  <2>5. QED  BY <1>3, <2>2, <2>3, <2>4 DEF Caching, CacheSize
<1>4. QED  BY <1>2, <1>3 DEF Cached

LEMMA SendInv ==
    ASSUME FxInv, SendBinding
    PROVE  FxInv'
<1> DEFINE b == snap.bind[next]
           f == Frame(b.effect, Leds[b.dev], b.look)
<1>1. snap.bind \in Seq(Bindings) /\ Len(snap.bind) \in Nat /\ snap.devs \subseteq Devs
  <2>1. snap.bind \in Seq(Bindings) /\ snap.devs \subseteq Devs
    BY DEF FxInv, Places, Snaps
  <2>2. QED  BY <2>1, LenProperties
<1>2. next \in 1..Len(snap.bind) /\ pc = "bindings"
  BY <1>1 DEF SendBinding, FxInv, Places
<1>3. b \in Bindings
  BY <1>1, <1>2, ElementOfSeq
<1>4. /\ Drivable(b) /\ active' = active \cup {b.dev} /\ cache' = Cached(f)
      /\ loose' = loose \ {b.dev}
      /\ \/ live' = live \cup {b.dev} /\ sent' = [dev |-> b.dev, frame |-> f, want |-> b]
         \/ UNCHANGED <<live, sent>>
      /\ next' = next + 1
      /\ UNCHANGED <<cfg, fx, saving, pc, snap, idx, had, old, shown>>
  BY DEF SendBinding
<1> HIDE DEF b
<1>5. b.dev \in Devs
  BY <1>1, <1>4 DEF Drivable, Resolved
<1>6. f \in Frames /\ f.effect = b.effect /\ f.leds = Leds[b.dev]
  <2>1. b.effect \in STRING /\ b.look \in STRING /\ Leds[b.dev] \in Nat
    BY <1>3, <1>5, LengthAssumption DEF Bindings
  <2>2. cache \subseteq Frames
    BY DEF FxInv, Caching
  <2>3. FrameOf(f, b.effect, Leds[b.dev])
    BY <2>1, <2>2, FrameFits
  <2>4. QED  BY <2>3 DEF FrameOf
<1> HIDE DEF f
<1>7. Places'
  <2>1. Places
    BY DEF FxInv
  <2>2. active' \subseteq Devs /\ live' \subseteq Devs /\ loose' \subseteq live'
    BY <1>4, <1>5, <2>1 DEF Places
  <2>3. next' \in 1..(Len(snap.bind) + 1)
    BY <1>1, <1>2, <1>4
  <2>4. QED  BY <1>4, <2>1, <2>2, <2>3 DEF Places
<1>8. Caching'
  BY <1>4, <1>6, CachedFits DEF FxInv
<1>9. OwnEffect'
  <2>1. CASE UNCHANGED sent
    BY <1>4, <2>1, FramesAlone DEF FxInv
  <2>2. CASE sent' = [dev |-> b.dev, frame |-> f, want |-> b]
    <3>1. (sent # Nothing => /\ sent.frame.effect = sent.want.effect
                             /\ sent.frame.leds = Leds[sent.dev])'
      BY <1>6, <2>2
    <3>2. shown' = shown
      BY <1>4
    <3>3. QED  BY <3>1, <3>2 DEF FxInv, OwnEffect, Blank
  <2>3. QED  BY <1>4, <2>1, <2>2
<1>10. QED  BY <1>7, <1>8, <1>9 DEF FxInv

(* The strips: however many groups there are, the cache is not filled beyond  *)
(* its limit.                                                                *)
LEMMA StripsTyped ==
    ASSUME FxInv
    PROVE  /\ Strips \subseteq Segs /\ IsFiniteSet(Strips)
           /\ \A s \in Strips : cfg.assign[s] \in Chosen
<1>1. snap.segs \in Seq(Segs) /\ cfg \in Configs
  BY DEF FxInv, Places, Snaps
<1>2. ToSet(snap.segs) \subseteq Segs
  BY <1>1, LenProperties, ElementOfSeq DEF ToSet
<1>3. cfg.assign \in [Segs -> Chosen \cup {NULL}]
  BY <1>1, ConfigTyped
<1>4. IsFiniteSet(ToSet(snap.segs))
  <2>1. Len(snap.segs) \in Nat /\ DOMAIN snap.segs = 1..Len(snap.segs)
    BY <1>1, LenProperties
  <2>2. IsFiniteSet(1..Len(snap.segs))
    <3>1. 1 \in Int /\ Len(snap.segs) \in Int
      BY <2>1
    <3>2. QED  BY <3>1, FS_Interval
  <2>3. IsFiniteSet({snap.segs[i] : i \in 1..Len(snap.segs)})
    BY <2>1, <2>2, FiniteImage
  <2>4. QED  BY <2>1, <2>3 DEF ToSet
<1>5. Strips \subseteq ToSet(snap.segs)
  BY DEF Strips
<1>6. IsFiniteSet(Strips)
  BY <1>4, <1>5, FS_Subset
<1>7. \A s \in Strips : cfg.assign[s] \in Chosen
  BY <1>2, <1>3 DEF Strips
<1>8. QED  BY <1>2, <1>5, <1>6, <1>7

(* What RenderLocal shows on a strip: the frame rendered for a strip with the *)
(* same effect and length.                                                   *)
Shows(first) ==
    /\ \A s \in Strips :
         /\ shown'[s].frame = FrameFor(first[GroupOf(s)])
         /\ shown'[s].want = cfg.assign[s]
         /\ first[GroupOf(s)] \in Strips /\ KeyOf(first[GroupOf(s)]) = KeyOf(s)
    /\ \A s \in Segs \ Strips : shown'[s] = shown[s]
Keys == {KeyOf(s) : s \in {u \in Strips : ~ Hit(u)}}
Fills(kept) ==
    /\ kept \subseteq Keys
    /\ CacheSize + Cardinality(kept) <= CacheMax
    /\ old' = CacheSize + Cardinality(kept)

LEMMA KeysFinite ==
    ASSUME FxInv, NEW kept, kept \subseteq Keys
    PROVE  Cardinality(kept) \in Nat
<1> DEFINE T == {u \in Strips : ~ Hit(u)}
           f == [s \in T |-> KeyOf(s)]
<1>1. IsFiniteSet(T)
  <2>1. T \subseteq Strips /\ IsFiniteSet(Strips)
    BY StripsTyped
  <2> HIDE DEF T
  <2>2. QED  BY <2>1, FS_Subset
<1>2. Keys = {f[s] : s \in T} /\ DOMAIN f = T
  BY DEF Keys
<1> HIDE DEF T, f
<1>3. IsFiniteSet(Keys)
  BY <1>1, <1>2, FiniteImage
<1>4. IsFiniteSet(kept)
  BY <1>3, FS_Subset
<1>5. QED  BY <1>4, FS_CardinalityType

LEMMA LocalShows ==
    ASSUME FxInv, RenderLocal
    PROVE  \E first, kept : Shows(first) /\ Fills(kept)
<1> DEFINE groups == {GroupOf(s) : s \in Strips}
<1>1. PICK first \in [groups -> Strips], kept \in SUBSET Keys :
        /\ CacheSize + Cardinality(kept) <= CacheMax
        /\ \A s, u \in Strips :
             IF KeyOf(s) \in kept
             THEN /\ KeyOf(first[GroupOf(s)]) = KeyOf(s)
                  /\ KeyOf(u) = KeyOf(s) => first[GroupOf(u)] = first[GroupOf(s)]
             ELSE GroupOf(first[GroupOf(s)]) = GroupOf(s)
        /\ shown' = [s \in Segs |-> IF s \in Strips
                                    THEN [frame |-> FrameFor(first[GroupOf(s)]),
                                          want  |-> cfg.assign[s]]
                                    ELSE shown[s]]
        /\ old' = CacheSize + Cardinality(kept)
  BY Zenon DEF RenderLocal, Keys
<1>2. Fills(kept)
  BY <1>1 DEF Fills
<1>3. Strips \subseteq Segs
  BY StripsTyped
<1>4. ASSUME NEW s \in Strips
      PROVE  first[GroupOf(s)] \in Strips /\ KeyOf(first[GroupOf(s)]) = KeyOf(s)
  <2>1. GroupOf(s) \in groups
    OBVIOUS
  <2>2. first[GroupOf(s)] \in Strips
    <3> HIDE DEF groups
    <3>1. QED  BY <1>1, <2>1
  <2>3. CASE KeyOf(s) \in kept
    BY <1>1, <2>2, <2>3, Zenon
  <2>4. CASE KeyOf(s) \notin kept
    <3>1. GroupOf(first[GroupOf(s)]) = GroupOf(s)
      BY <1>1, <2>4, Zenon
    <3>2. QED  BY <2>2, <3>1 DEF GroupOf, KeyOf
  <2>5. QED  BY <2>2, <2>3, <2>4
<1>5. ASSUME NEW s \in Strips
      PROVE  /\ shown'[s].frame = FrameFor(first[GroupOf(s)])
             /\ shown'[s].want = cfg.assign[s]
  <2> DEFINE local == [frame |-> FrameFor(first[GroupOf(s)]), want |-> cfg.assign[s]]
  <2>1. shown'[s] = local
    BY <1>1, <1>3, Zenon
  <2>2. QED  BY <2>1
<1>6. ASSUME NEW s \in Segs \ Strips
      PROVE  shown'[s] = shown[s]
  BY <1>1, <1>6, Zenon
<1>7. Shows(first)
  BY <1>4, <1>5, <1>6 DEF Shows
<1>8. QED  BY <1>2, <1>7

LEMMA LocalInv ==
    ASSUME FxInv, RenderLocal
    PROVE  FxInv'
<1>1. PICK first, kept : Shows(first) /\ Fills(kept)
  BY LocalShows
<1>2. /\ cache' = {} /\ pc' = "virtual"
      /\ UNCHANGED <<cfg, fx, saving, snap, idx, next, had, active, live, loose, sent>>
  BY DEF RenderLocal
<1>3. Places'
  BY <1>2 DEF FxInv, Places, RenderLocal
<1>4. Caching'
  <2>1. CacheSize \in Nat /\ CacheMax \in Nat
    BY CacheNat DEF FxInv
  <2>2. Cardinality(kept) \in Nat
    BY <1>1, KeysFinite DEF Fills
  <2>3. old' \in Nat /\ old' <= CacheMax
    BY <1>1, <2>1, <2>2 DEF Fills
  <2>4. IsFiniteSet({}) /\ Cardinality({}) = 0
    BY FS_EmptySet
  <2>5. QED  BY <1>2, <2>3, <2>4 DEF Caching, CacheSize
<1>5. OwnEffect'
  <2>1. \A s \in Segs : s \in Strips =>
          /\ shown'[s].frame.effect = shown'[s].want.effect
          /\ shown'[s].frame.leds = Leds[s]
    <3>1. SUFFICES ASSUME NEW s \in Strips
                   PROVE  /\ shown'[s].frame.effect = shown'[s].want.effect
                          /\ shown'[s].frame.leds = Leds[s]
      OBVIOUS
    <3> DEFINE r == first[GroupOf(s)]
    <3>2. /\ shown'[s].frame = FrameFor(r) /\ shown'[s].want = cfg.assign[s]
          /\ r \in Strips /\ KeyOf(r) = KeyOf(s)
      BY <1>1, <3>1 DEF Shows
    <3> HIDE DEF r
    <3>3. cfg.assign[r].effect = cfg.assign[s].effect /\ Leds[r] = Leds[s]
      BY <3>2 DEF KeyOf
    <3>4. /\ cfg.assign[r].effect \in STRING /\ cfg.assign[r].look \in STRING
          /\ Leds[r] \in Nat
      <4>1. r \in Segs /\ cfg.assign[r] \in Chosen
        BY <3>2, StripsTyped
      <4>2. QED  BY <4>1, LengthAssumption DEF Chosen
    <3>5. FrameOf(FrameFor(r), cfg.assign[r].effect, Leds[r])
      <4>1. cache \subseteq Frames
        BY DEF FxInv, Caching
      <4>2. QED  BY <3>4, <4>1, FrameFits DEF FrameFor
    <3>6. QED  BY <3>2, <3>3, <3>5 DEF FrameOf
  <2>2. \A s \in Segs : s \notin Strips => shown'[s] = shown[s]
    BY <1>1 DEF Shows
  <2>3. (\A s \in Segs : shown[s] # Blank =>
           /\ shown[s].frame.effect = shown[s].want.effect
           /\ shown[s].frame.leds = Leds[s])'
    BY <2>1, <2>2 DEF FxInv, OwnEffect, Blank
  <2>4. (sent # Nothing => /\ sent.frame.effect = sent.want.effect
                           /\ sent.frame.leds = Leds[sent.dev])'
    BY <1>2 DEF FxInv, OwnEffect, Nothing
  <2>5. QED  BY <2>3, <2>4 DEF OwnEffect
<1>6. QED  BY <1>3, <1>4, <1>5 DEF FxInv

(* The virtual segments: only devices of the snapshot are driven.            *)
LEMMA DrivenKnown ==
    ASSUME FxInv
    PROVE  Driven \subseteq Devs
<1>1. snap.devs \subseteq Devs
  BY DEF FxInv, Places, Snaps
<1>2. ASSUME NEW v \in Virtuals, NEW i \in Reached(v.members, snap.segs, snap.devs),
             v.members[i].type = "wled"
      PROVE  v.members[i].id \in Devs
  BY <1>1, <1>2 DEF Reached
<1>3. QED  BY <1>2 DEF Driven

LEMMA VirtualInv ==
    ASSUME FxInv, RenderVirtual
    PROVE  FxInv'
<1>1. /\ idx' = (idx + 1) % (ClearPeriod * CleanupPeriod) /\ pc' = "snapshot"
      /\ live' \subseteq live \cup Driven
      /\ loose \subseteq live => loose' \subseteq live'
      /\ UNCHANGED <<cfg, fx, saving, snap, next, had, active, cache, old, sent, shown>>
  BY DEF RenderVirtual
<1>2. idx' \in 0..(ClearPeriod * CleanupPeriod - 1)
  <2> DEFINE p == ClearPeriod * CleanupPeriod
  <2>1. p \in Nat /\ p >= 1
    BY PeriodPositive
  <2>2. idx + 1 \in Nat
    BY <2>1 DEF FxInv, Places
  <2> HIDE DEF p
  <2>3. (idx + 1) % p \in 0..(p - 1)
    BY <2>1, <2>2
  <2>4. QED  BY <1>1, <2>3 DEF p
<1>3. Places'
  <2>1. Places
    BY DEF FxInv
  <2>2. live' \subseteq Devs /\ loose' \subseteq live'
    BY <1>1, <2>1, DrivenKnown DEF Places
  <2>3. QED  BY <1>1, <1>2, <2>1, <2>2 DEF Places
<1>4. QED  BY <1>1, <1>3, CacheAlone, FramesAlone DEF FxInv

LEMMA NextInv ==
    ASSUME FxInv, [Next]_vars
    PROVE  FxInv'
<1>1. ASSUME UNCHANGED vars
      PROVE  FxInv'
  <2>1. Places'
    BY <1>1 DEF vars, FxInv, Places
  <2>2. QED  BY <1>1, <2>1, CacheAlone, FramesAlone DEF vars, FxInv
<1>2. QED
  BY <1>1, HandlerInv, SnapshotInv, GateInv, SendInv, LocalInv, VirtualInv
  DEF Next, Loop

THEOREM FxSafe == Spec => []FxInv
<1>1. QED  BY InitInv, NextInv, PTL DEF Spec
-----------------------------------------------------------------------------
(* Types, and the cache's limit: one frame of each effect and length is       *)
(* kept, and never more than CacheMax.                                       *)
THEOREM TypeCorrect == Spec => []TypeOK
<1>1. FxInv => TypeOK
  BY DEF FxInv, Places, Caching, TypeOK
<1>2. QED  BY <1>1, FxSafe, PTL

(* A device or strip shows the effect chosen for it, at its own length.      *)
THEOREM OwnEffectHolds == Spec => []OwnEffect
<1>1. FxInv => OwnEffect
  BY DEF FxInv
<1>2. QED  BY <1>1, FxSafe, PTL

(* The two passes over a virtual segment agree.                              *)
THEOREM OwnShareHolds == Spec => []OwnShare
<1>1. ASSUME FxInv
      PROVE  OwnShare
  <2>1. snap.segs \in Seq(Segs) /\ snap.devs \in SUBSET Devs /\ snap.virt \subseteq Segments
    BY <1>1 DEF FxInv, Places, Snaps
  <2>2. ASSUME NEW v \in Virtuals
        PROVE  v.members \in Seq(Members)
    BY <2>1 DEF Virtuals, Segments
  <2>3. ASSUME NEW v \in Virtuals, NEW i \in DOMAIN v.members
        PROVE  /\ Cuts(v.members, snap.segs, snap.devs)[i]
                    <= FrameLength(Total(v.members, snap.segs, snap.devs))
               /\ Fits(v.members, snap.segs, snap.devs) =>
                    Cuts(v.members, snap.segs, snap.devs)[i]
                      - Cuts(v.members, snap.segs, snap.devs)[i - 1]
                      = Wished(v.members[i], snap.segs, snap.devs)
    BY <2>1, <2>2, SharesFit
  <2>4. QED  BY <2>3 DEF OwnShare, Fits
<1>2. QED  BY <1>1, FxSafe, PTL
-----------------------------------------------------------------------------
(* Every device in live mode is one the loop remembers, or one that refused   *)
(* to leave it when it was last told to, or one a virtual segment drives.    *)
LEMMA ReleaseTracked ==
    ASSUME NEW ds, Release(ds), LiveTracked, active \ ds \subseteq active'
    PROVE  LiveTracked'
<1>1. PICK failed : /\ live' = live \ (ds \ failed)
                    /\ loose' = (loose \ ds) \cup (live \cap failed)
  BY DEF Release
<1>2. ASSUME NEW d \in live'
      PROVE  d \in active' \cup loose'
  <2>1. d \in live /\ (d \in active \/ d \in loose)
    BY <1>1, <1>2 DEF LiveTracked
  <2>2. CASE d \in ds
    BY <1>1, <1>2, <2>1, <2>2
  <2>3. CASE d \notin ds
    BY <1>1, <2>1, <2>3
  <2>4. QED  BY <2>2, <2>3
<1>3. QED  BY <1>2 DEF LiveTracked

LEMMA TrackNext ==
    ASSUME LiveTracked, [Next]_vars
    PROVE  LiveTracked'
<1>1. CASE Gate
  <2>1. \/ Release(active) /\ active' = {}
        \/ UNCHANGED <<live, loose, active>>
    BY <1>1 DEF Gate
  <2>2. QED  BY <2>1, ReleaseTracked DEF LiveTracked
<1>2. CASE Cleanup
  <2> DEFINE gone == active \ Bound(snap.bind, snap.devs)
  <2>1. \/ Release(gone) /\ active' = active \ gone
        \/ UNCHANGED <<live, loose, active>>
    BY <1>2 DEF Cleanup
  <2> HIDE DEF gone
  <2>2. QED  BY <2>1, ReleaseTracked DEF LiveTracked
<1>3. CASE SendBinding
  <2>1. PICK d : /\ active' = active \cup {d} /\ loose' = loose \ {d}
                 /\ live' = live \cup {d} \/ live' = live
    BY <1>3 DEF SendBinding
  <2>2. QED  BY <2>1 DEF LiveTracked
<1>4. CASE RenderVirtual
  <2>1. PICK ds : live' = live \cup ds /\ loose' = loose \cup ds /\ active' = active
    BY <1>4 DEF RenderVirtual
  <2>2. QED  BY <2>1 DEF LiveTracked
<1>5. CASE ~ (Gate \/ Cleanup \/ SendBinding \/ RenderVirtual)
  <2>1. UNCHANGED <<live, loose, active>>
    BY <1>5 DEF Next, Save, UpdateConfig, SaveFail, Loop, Snapshot, Rest, SkipBinding,
                RenderLocal, vars
  <2>2. QED  BY <2>1 DEF LiveTracked
<1>6. QED  BY <1>1, <1>2, <1>3, <1>4, <1>5

(* Whatever fails and whatever is configured, the loop knows of every device  *)
(* in live mode, but for those a release failed for and those a virtual      *)
(* segment drove since the loop last sent to them for a binding              *)
(* (wled_effects.cpp:1881-1890, 1944-1951, 1976-2003).                       *)
THEOREM LiveTrackedHolds == Spec => []LiveTracked
<1>1. Init => LiveTracked
  BY DEF Init, LiveTracked
<1>2. LiveTracked /\ [Next]_vars => LiveTracked'
  BY TrackNext
<1>3. QED  BY <1>1, <1>2, PTL DEF Spec
-----------------------------------------------------------------------------
(* What a round does for the bindings of its snapshot, however many there     *)
(* are: when it has gone through them, each device with a binding that can   *)
(* be rendered is remembered and, unless sending failed, in live mode; the   *)
(* cleanup does not take it away again.                                      *)
Rendered(b) == b.dev \in active /\ (~ NetFails => b.dev \in live)
RoundServes ==
    pc \in {"local", "virtual"} =>
      \A i \in 1..Len(snap.bind) : Drivable(snap.bind[i]) => Rendered(snap.bind[i])
SoFar ==
    pc = "bindings" =>
      \A i \in 1..Len(snap.bind) :
        i < next /\ Drivable(snap.bind[i]) => Rendered(snap.bind[i])
RoundInv == FxInv /\ SoFar /\ RoundServes

LEMMA DrivableBound ==
    ASSUME FxInv, NEW i \in 1..Len(snap.bind), Drivable(snap.bind[i])
    PROVE  snap.bind[i].dev \in Bound(snap.bind, snap.devs)
<1>1. snap.bind[i] \in ToSet(snap.bind)
  <2>1. snap.bind \in Seq(Bindings)
    BY DEF FxInv, Places, Snaps
  <2>2. QED  BY <2>1, LenProperties DEF ToSet
<1>2. QED  BY <1>1 DEF Bound, Drivable

(* No device leaves live mode while an enabled binding of the snapshot leads  *)
(* to it, whatever else is released.                                         *)
BoundKept == \A d \in live \ live' : d \notin Bound(snap.bind, snap.devs)

LEMMA ReleasesUnbound ==
    ASSUME [Next]_vars
    PROVE  BoundKept
<1>1. CASE Gate
  <2>1. CASE \E b \in ToSet(snap.bind) : Enabled(b)
    BY <1>1, <2>1 DEF Gate, BoundKept
  <2>2. CASE ~ \E b \in ToSet(snap.bind) : Enabled(b)
    <3>1. Bound(snap.bind, snap.devs) = {}
      BY <2>2 DEF Bound
    <3>2. QED  BY <3>1 DEF BoundKept
  <2>3. QED  BY <2>1, <2>2
<1>2. CASE Cleanup
  <2>1. live \ live' \subseteq active \ Bound(snap.bind, snap.devs)
    BY <1>2 DEF Cleanup, Release
  <2>2. QED  BY <2>1 DEF BoundKept
<1>3. CASE ~ (Gate \/ Cleanup)
  <2>1. live \subseteq live'
    BY <1>3 DEF Next, Save, UpdateConfig, SaveFail, Loop, Snapshot, Rest, SendBinding,
                SkipBinding, RenderLocal, RenderVirtual, vars
  <2>2. QED  BY <2>1 DEF BoundKept
<1>4. QED  BY <1>1, <1>2, <1>3

THEOREM BoundStayLive == Spec => [][BoundKept]_vars
<1>1. [Next]_vars => [BoundKept]_vars
  BY ReleasesUnbound
<1>2. QED  BY <1>1, PTL DEF Spec

LEMMA RoundNext ==
    ASSUME RoundInv, [Next]_vars
    PROVE  RoundInv'
<1>1. FxInv /\ FxInv' /\ SoFar /\ RoundServes
  BY NextInv DEF RoundInv
<1>2. CASE Snapshot
  <2>1. pc' = "gate"
    BY <1>2 DEF Snapshot
  <2>2. QED  BY <1>1, <2>1 DEF RoundInv, SoFar, RoundServes
<1>3. CASE Rest \/ RenderVirtual
  <2>1. pc' = "snapshot"
    BY <1>3 DEF Rest, RenderVirtual
  <2>2. QED  BY <1>1, <2>1 DEF RoundInv, SoFar, RoundServes
<1>4. CASE Gate
  <2>1. pc' = "bindings" /\ next' = 1
    BY <1>4 DEF Gate
  <2>2. QED  BY <1>1, <2>1 DEF RoundInv, SoFar, RoundServes
<1>5. CASE SendBinding
  <2>1. /\ pc = "bindings" /\ pc' = pc /\ snap' = snap /\ next' = next + 1
        /\ Drivable(snap.bind[next])
        /\ active' = active \cup {snap.bind[next].dev}
        /\ live' = live \cup {snap.bind[next].dev} \/ (NetFails /\ live' = live)
    BY <1>5 DEF SendBinding
  <2>2. next \in Nat
    BY <1>1, <2>1 DEF FxInv, Places
  <2>3. SoFar'
    <3>1. SUFFICES ASSUME NEW i \in 1..Len(snap.bind), i < next + 1,
                          Drivable(snap.bind[i])
                   PROVE  Rendered(snap.bind[i])'
      BY <2>1 DEF SoFar, Drivable, Rendered
    <3>2. CASE i = next
      BY <2>1, <3>2 DEF Rendered
    <3>3. CASE i # next
      <4>1. i < next
        BY <2>2, <3>1, <3>3
      <4>2. Rendered(snap.bind[i])
        BY <1>1, <2>1, <3>1, <4>1 DEF SoFar
      <4>3. QED  BY <2>1, <4>2 DEF Rendered
    <3>4. QED  BY <3>2, <3>3
  <2>4. QED  BY <1>1, <2>1, <2>3 DEF RoundInv, RoundServes
<1>6. CASE SkipBinding
  <2>1. /\ pc = "bindings" /\ pc' = pc /\ snap' = snap /\ next' = next + 1
        /\ ~ Drivable(snap.bind[next]) /\ UNCHANGED <<active, live>>
    BY <1>6 DEF SkipBinding
  <2>2. next \in Nat
    BY <1>1, <2>1 DEF FxInv, Places
  <2>3. SoFar'
    <3>1. SUFFICES ASSUME NEW i \in 1..Len(snap.bind), i < next + 1,
                          Drivable(snap.bind[i])
                   PROVE  Rendered(snap.bind[i])'
      BY <2>1 DEF SoFar, Drivable, Rendered
    <3>2. i # next
      BY <2>1, <3>1
    <3>3. i < next
      BY <2>2, <3>1, <3>2
    <3>4. Rendered(snap.bind[i])
      BY <1>1, <2>1, <3>1, <3>3 DEF SoFar
    <3>5. QED  BY <2>1, <3>4 DEF Rendered
  <2>4. QED  BY <1>1, <2>1, <2>3 DEF RoundInv, RoundServes
<1>7. CASE Cleanup
  <2>1. pc = "bindings" /\ pc' = "local" /\ snap' = snap /\ next > Len(snap.bind)
    BY <1>7 DEF Cleanup
  <2>2. /\ active \ active' \subseteq active \ Bound(snap.bind, snap.devs)
        /\ live \ live' \subseteq active \ Bound(snap.bind, snap.devs)
    BY <1>7 DEF Cleanup, Release
  <2>3. Len(snap.bind) \in Nat /\ next \in Nat
    <3>1. snap.bind \in Seq(Bindings) /\ next \in 1..(Len(snap.bind) + 1)
      BY <1>1, <2>1 DEF FxInv, Places, Snaps
    <3>2. QED  BY <3>1, LenProperties
  <2>4. RoundServes'
    <3>1. SUFFICES ASSUME NEW i \in 1..Len(snap.bind), Drivable(snap.bind[i])
                   PROVE  Rendered(snap.bind[i])'
      BY <2>1 DEF RoundServes, Drivable, Rendered
    <3>2. snap.bind[i].dev \in Bound(snap.bind, snap.devs)
      BY <1>1, <3>1, DrivableBound
    <3>3. Rendered(snap.bind[i])
      <4>1. i < next
        BY <2>1, <2>3
      <4>2. QED  BY <1>1, <2>1, <3>1, <4>1 DEF SoFar
    <3>4. snap'.bind[i].dev = snap.bind[i].dev
      BY <2>1
    <3>5. QED  BY <2>2, <3>2, <3>3, <3>4 DEF Rendered
  <2>5. QED  BY <1>1, <2>1, <2>4 DEF RoundInv, SoFar
<1>8. CASE ~ (Snapshot \/ Rest \/ RenderVirtual \/ Gate \/ SendBinding \/ SkipBinding
              \/ Cleanup)
  <2>1. UNCHANGED <<snap, next, active, live>>
    BY <1>8 DEF Next, Save, UpdateConfig, SaveFail, Loop, RenderLocal, vars
  <2>2. pc' = pc \/ (pc = "local" /\ pc' = "virtual")
    BY <1>8 DEF Next, Save, UpdateConfig, SaveFail, Loop, RenderLocal, vars
  <2>3. SoFar' /\ RoundServes'
    BY <1>1, <2>1, <2>2 DEF SoFar, RoundServes, Drivable, Rendered
  <2>4. QED  BY <1>1, <2>3 DEF RoundInv
<1>9. QED  BY <1>2, <1>3, <1>4, <1>5, <1>6, <1>7, <1>8

THEOREM RoundServesAll == Spec => []RoundServes
<1>1. Init => RoundInv
  <2>1. Init => SoFar /\ RoundServes
    BY DEF Init, SoFar, RoundServes
  <2>2. QED  BY <2>1, InitInv DEF RoundInv
<1>2. RoundInv /\ [Next]_vars => RoundInv'
  BY RoundNext
<1>3. RoundInv => RoundServes
  BY DEF RoundInv
<1>4. QED  BY <1>1, <1>2, <1>3, PTL DEF Spec

-----------------------------------------------------------------------------
(* What a round forgets: without enabled bindings the loop remembers no       *)
(* device, and every CleanupPeriod frames only those its bindings lead to.   *)
RoundForgets ==
    /\ ~ had => active = {}
    /\ pc \in {"local", "virtual"} /\ idx % CleanupPeriod = 0 =>
         active \subseteq Bound(snap.bind, snap.devs)
HadEnabled ==
    pc \in {"bindings", "local", "virtual"} =>
      (had <=> \E b \in ToSet(snap.bind) : Enabled(b))
ForgetInv == FxInv /\ HadEnabled /\ RoundForgets

LEMMA ForgetNext ==
    ASSUME ForgetInv, [Next]_vars
    PROVE  ForgetInv'
<1>1. FxInv /\ FxInv' /\ HadEnabled /\ RoundForgets /\ had \in BOOLEAN
  BY NextInv DEF ForgetInv, FxInv, Places
<1>2. CASE Snapshot \/ Rest \/ RenderVirtual
  <2>1. pc' \in {"snapshot", "gate"} /\ UNCHANGED <<had, active>>
    BY <1>2 DEF Snapshot, Rest, RenderVirtual
  <2>2. QED  BY <1>1, <2>1 DEF ForgetInv, HadEnabled, RoundForgets
<1>3. CASE Gate
  <2> DEFINE has == \E b \in ToSet(snap.bind) : Enabled(b)
  <2>1. /\ pc' = "bindings" /\ snap' = snap /\ had' = has
        /\ IF had /\ ~ has THEN active' = {} ELSE active' = active
    BY <1>3 DEF Gate
  <2>2. HadEnabled'
    BY <2>1 DEF HadEnabled
  <2>3. ~ had' => active' = {}
    BY <1>1, <2>1 DEF RoundForgets
  <2>4. RoundForgets'
    BY <2>1, <2>3 DEF RoundForgets
  <2>5. QED  BY <1>1, <2>2, <2>4 DEF ForgetInv
<1>4. CASE SendBinding
  <2>1. /\ pc = "bindings" /\ next <= Len(snap.bind) /\ Drivable(snap.bind[next])
        /\ UNCHANGED <<pc, snap, had>>
    BY <1>4 DEF SendBinding
  <2>2. HadEnabled'
    BY <1>1, <2>1 DEF HadEnabled
  <2>3. snap.bind[next] \in ToSet(snap.bind)
    <3>1. snap.bind \in Seq(Bindings) /\ next \in 1..(Len(snap.bind) + 1)
      BY <1>1, <2>1 DEF FxInv, Places, Snaps
    <3>2. QED  BY <2>1, <3>1, LenProperties DEF ToSet
  <2>4. had
    BY <1>1, <2>1, <2>3 DEF HadEnabled, Drivable
  <2>5. RoundForgets'
    BY <2>1, <2>4 DEF RoundForgets
  <2>6. QED  BY <1>1, <2>2, <2>5 DEF ForgetInv
<1>5. CASE Cleanup
  <2>1. /\ pc = "bindings" /\ pc' = "local" /\ UNCHANGED <<idx, snap, had>>
        /\ active' \subseteq active
        /\ idx % CleanupPeriod = 0 => active' \subseteq Bound(snap.bind, snap.devs)
    BY <1>5 DEF Cleanup
  <2>2. HadEnabled'
    BY <1>1, <2>1 DEF HadEnabled
  <2>3. RoundForgets'
    BY <1>1, <2>1 DEF RoundForgets
  <2>4. QED  BY <1>1, <2>2, <2>3 DEF ForgetInv
<1>6. CASE ~ (Snapshot \/ Rest \/ RenderVirtual \/ Gate \/ SendBinding \/ Cleanup)
  <2>1. UNCHANGED <<snap, idx, had, active>>
    BY <1>6 DEF Next, Save, UpdateConfig, SaveFail, Loop, SkipBinding, RenderLocal, vars
  <2>2. pc' = pc \/ (pc = "local" /\ pc' = "virtual")
    BY <1>6 DEF Next, Save, UpdateConfig, SaveFail, Loop, SkipBinding, RenderLocal, vars
  <2>3. HadEnabled' /\ RoundForgets'
    BY <1>1, <2>1, <2>2 DEF HadEnabled, RoundForgets
  <2>4. QED  BY <1>1, <2>3 DEF ForgetInv
<1>7. QED  BY <1>2, <1>3, <1>4, <1>5, <1>6

LEMMA ForgetInvariance == Spec => []ForgetInv
<1>1. Init => ForgetInv
  <2>1. Init => HadEnabled /\ RoundForgets
    BY DEF Init, HadEnabled, RoundForgets
  <2>2. QED  BY <2>1, InitInv DEF ForgetInv
<1>2. ForgetInv /\ [Next]_vars => ForgetInv'
  BY ForgetNext
<1>3. QED  BY <1>1, <1>2, PTL DEF Spec

(* The safe half of Released, whatever fails: a loop that last saw no enabled *)
(* binding remembers no device, and from the cleanup, every CleanupPeriod    *)
(* frames, to the end of its round it remembers only devices an enabled      *)
(* binding of its snapshot leads to (wled_effects.cpp:1881-1890, 1976-2003). *)
THEOREM RoundForgetsAll == Spec => []RoundForgets
<1>1. ForgetInv => RoundForgets
  BY DEF ForgetInv
<1>2. QED  BY <1>1, ForgetInvariance, PTL

(* Then the only devices left in live mode are those an enabled binding leads *)
(* to, those that refused to leave it and those a virtual segment drives.    *)
UnboundDark ==
    /\ ~ had => live \subseteq loose
    /\ pc \in {"local", "virtual"} /\ idx % CleanupPeriod = 0 =>
         live \ loose \subseteq Bound(snap.bind, snap.devs)

THEOREM UnboundReleased == Spec => []UnboundDark
<1>1. RoundForgets /\ LiveTracked => UnboundDark
  BY DEF RoundForgets, LiveTracked, UnboundDark
<1>2. QED  BY <1>1, RoundForgetsAll, LiveTrackedHolds, PTL
=============================================================================
