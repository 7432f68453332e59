--------------------------- MODULE DeviceBookProofs ---------------------------
(* The list of devices, for every set of lamps and addresses and whatever the *)
(* user, discovery and restarts do: which steps bring a device in twice, and  *)
(* which take the device from a binding.                                      *)
EXTENDS DeviceBook, SequenceTheorems, FiniteSetTheorems, WellFoundedInduction,
        TLAPS

-----------------------------------------------------------------------------
(* Induction over sets of numbers, from the well-foundedness of inclusion.   *)
LEMMA LeastNat ==
    ASSUME NEW T, T \subseteq Nat, T # {}
    PROVE  \E x \in T : \A y \in T : x <= y
<1> DEFINE U == {1..n : n \in T}
           R == StrictSubsetOrdering(Nat)
<1>1. IsWellFoundedOn(R, FiniteSubsetsOf(Nat))
  BY FS_StrictSubsetOrderingWellFounded
<1>2. U \subseteq FiniteSubsetsOf(Nat) /\ U # {}
  <2>1. ASSUME NEW n \in T
        PROVE  1..n \in FiniteSubsetsOf(Nat)
    <3>1. n \in Int /\ 1 \in Int /\ 1..n \subseteq Nat
      OBVIOUS
    <3>2. QED  BY <3>1, FS_Interval DEF FiniteSubsetsOf
  <2>2. QED  BY <2>1
<1>3. \E X \in U : \A Y \in U : <<Y, X>> \notin R
  <2> HIDE DEF U, R
  <2>1. QED  BY <1>1, <1>2, WFMin
<1>4. PICK n \in T : \A Y \in U : <<Y, 1..n>> \notin R
  BY <1>3
<1>5. ASSUME NEW m \in T, m < n
      PROVE  FALSE
  <2>1. 1..m \subseteq 1..n /\ n \notin 1..m /\ n \in 1..n
    BY <1>5
  <2>2. 1..m \in SUBSET Nat /\ 1..n \in SUBSET Nat /\ 1..m # 1..n
    BY <2>1
  <2>3. <<1..m, 1..n>> \in R
    BY <2>1, <2>2 DEF StrictSubsetOrdering
  <2>4. QED  BY <1>4, <2>3
<1>6. QED  BY <1>5

LEMMA Induction ==
    ASSUME NEW P, 0 \in P, \A n \in Nat : n \in P => n + 1 \in P
    PROVE  \A n \in Nat : n \in P
<1>1. SUFFICES ASSUME NEW m \in Nat, m \notin P
               PROVE  FALSE
  OBVIOUS
<1>2. PICK x \in Nat \ P : \A y \in Nat \ P : x <= y
  <2>1. Nat \ P \subseteq Nat /\ Nat \ P # {}
    BY <1>1
  <2>2. QED  BY <2>1, LeastNat
<1>3. x # 0 /\ x - 1 \in Nat /\ x - 1 \in P
  BY <1>2
<1>4. QED  BY <1>2, <1>3

(* A recursion on 0..m, which starts at d0 and whose n-th step is op[n]: it   *)
(* defines something, as there is a function with the values it says.        *)
Steps(D, m) == [1..m -> [D -> D]]
Iterates(D, d0, op, k, f) ==
    /\ f \in [0..k -> D] /\ f[0] = d0
    /\ \A n \in 1..k : f[n] = op[n][f[n - 1]]

LEMMA Recursion ==
    ASSUME NEW D, NEW d0 \in D, NEW m \in Nat, NEW op \in Steps(D, m)
    PROVE  \E f : Iterates(D, d0, op, m, f)
<1> DEFINE Upto(f, k) == Iterates(D, d0, op, k, f)
           P == {k \in Nat : k <= m => \E f : Upto(f, k)}
<1>1. 0 \in P
  <2>1. Upto([n \in 0..0 |-> d0], 0)
    BY DEF Iterates
  <2>2. QED  BY <2>1
<1>2. ASSUME NEW k \in Nat, k \in P, k + 1 <= m
      PROVE  \E f : Upto(f, k + 1)
  <2>1. PICK f : Upto(f, k)
    BY <1>2
  <2>2. f[k] \in D /\ op[k + 1] \in [D -> D]
    BY <1>2, <2>1 DEF Iterates, Steps
  <2> DEFINE g == [n \in 0..(k + 1) |-> IF n <= k THEN f[n] ELSE op[k + 1][f[k]]]
  <2>3. g \in [0..(k + 1) -> D]
    BY <2>1, <2>2 DEF Iterates
  <2>4. g[0] = d0
    BY <2>1 DEF Iterates
  <2>5. ASSUME NEW n \in 1..(k + 1)
        PROVE  g[n] = op[n][g[n - 1]]
    <3>1. CASE n <= k
      BY <2>1, <3>1 DEF Iterates
    <3>2. CASE n = k + 1
      BY <2>1, <3>2 DEF Iterates
    <3>3. QED  BY <3>1, <3>2
  <2>6. QED  BY <2>3, <2>4, <2>5 DEF Iterates
<1>3. \A k \in Nat : k \in P
  <2>1. \A k \in Nat : k \in P => k + 1 \in P
    BY <1>2
  <2> HIDE DEF P
  <2>2. QED  BY <1>1, <2>1, Induction
<1>4. QED  BY <1>3
-----------------------------------------------------------------------------
(* The recursions of the model, unfolded.                                    *)
KeptFrom(s, I, keep) ==
    keep = [n \in 0..Len(s) |->
              IF n = 0 THEN <<>>
              ELSE IF n \in I THEN Append(keep[n - 1], s[n]) ELSE keep[n - 1]]
KnownFrom(ds, fs, known) ==
    known = [n \in 0..Len(fs) |->
               IF n = 0 THEN ds
               ELSE [d \in Seq(Devices) |-> Upsert(d, fs[n])][known[n - 1]]]

LEMMA KeptUnfolds ==
    ASSUME NEW S, NEW s \in Seq(S), NEW I
    PROVE  \E keep : KeptFrom(s, I, keep) /\ Kept(s, I) = keep[Len(s)]
<1> DEFINE op == [n \in 1..Len(s) |->
                    [d \in Seq(S) |-> IF n \in I THEN Append(d, s[n]) ELSE d]]
           m == Len(s)
<1>1. m \in Nat /\ <<>> \in Seq(S)
  BY LenProperties, EmptySeq
<1>2. op \in Steps(Seq(S), m)
  BY AppendProperties, ElementOfSeq DEF Steps
<1>3. PICK f : Iterates(Seq(S), <<>>, op, m, f)
  <2> HIDE DEF op, m
  <2>1. QED  BY <1>1, <1>2, Recursion
<1>4. KeptFrom(s, I, f)
  <2> DEFINE g == [n \in 0..Len(s) |->
                    IF n = 0 THEN <<>>
                    ELSE IF n \in I THEN Append(f[n - 1], s[n]) ELSE f[n - 1]]
  <2>1. ASSUME NEW n \in 0..Len(s)
        PROVE  f[n] = IF n = 0 THEN <<>>
                      ELSE IF n \in I THEN Append(f[n - 1], s[n]) ELSE f[n - 1]
    <3>1. CASE n = 0
      BY <1>3, <3>1 DEF Iterates
    <3>2. CASE n # 0
      <4>1. n \in 1..Len(s) /\ n - 1 \in 0..Len(s)
        BY <1>1, <3>2
      <4>2. f[n] = op[n][f[n - 1]] /\ f[n - 1] \in Seq(S)
        BY <1>3, <3>2, <4>1 DEF Iterates
      <4>3. QED  BY <3>2, <4>1, <4>2
    <3>3. QED  BY <3>1, <3>2
  <2>2. f = g
    BY <1>3, <2>1 DEF Iterates
  <2>3. QED  BY <2>2 DEF KeptFrom
<1>5. QED  BY <1>4, Zenon DEF Kept, KeptFrom

LEMMA KeptStep ==
    ASSUME NEW s, NEW I, NEW keep, KeptFrom(s, I, keep), NEW k \in 0..Len(s)
    PROVE  keep[k] = IF k = 0 THEN <<>>
                     ELSE IF k \in I THEN Append(keep[k - 1], s[k]) ELSE keep[k - 1]
<1> DEFINE g == [n \in 0..Len(s) |->
                  IF n = 0 THEN <<>>
                  ELSE IF n \in I THEN Append(keep[n - 1], s[n]) ELSE keep[n - 1]]
<1>1. keep = g
  BY Zenon DEF KeptFrom
<1>2. keep[k] = g[k]
  <2> HIDE DEF g
  <2>1. QED  BY <1>1
<1>3. QED  BY <1>2, Zenon

(* What t holds of s: the elements at the indices I up to n, each once, in    *)
(* their order, the j-th being the m[j]-th of s.                             *)
Picks(s, I, n, t, m) ==
    /\ m \in [1..Len(t) -> I \cap 1..n]
    /\ \A j, k \in 1..Len(t) : j < k => m[j] < m[k]
    /\ \A j \in 1..Len(t) : t[j] = s[m[j]]
    /\ \A i \in I \cap 1..n : \E j \in 1..Len(t) : m[j] = i
Picked(s, I, n, t) == \E m : Picks(s, I, n, t, m)

LEMMA KeptPicks ==
    ASSUME NEW S, NEW s \in Seq(S), NEW I
    PROVE  Kept(s, I) \in Seq(S) /\ Picked(s, I, Len(s), Kept(s, I))
<1>1. PICK keep : KeptFrom(s, I, keep) /\ Kept(s, I) = keep[Len(s)]
  BY KeptUnfolds
<1> DEFINE P == {n \in Nat : n <= Len(s) =>
                   keep[n] \in Seq(S) /\ Picked(s, I, n, keep[n])}
<1>2. Len(s) \in Nat
  BY LenProperties
<1>unfolded. \A k \in 0..Len(s) :
        keep[k] = IF k = 0 THEN <<>>
                  ELSE IF k \in I THEN Append(keep[k - 1], s[k]) ELSE keep[k - 1]
  <2>1. KeptFrom(s, I, keep)
    BY <1>1
  <2>2. ASSUME NEW k \in 0..Len(s)
        PROVE  keep[k] = IF k = 0 THEN <<>>
                         ELSE IF k \in I THEN Append(keep[k - 1], s[k])
                         ELSE keep[k - 1]
    BY <2>1, KeptStep
  <2>3. QED  BY <2>2
<1>3. 0 \in P
  <2>1. keep[0] = <<>> /\ <<>> \in Seq(S) /\ Len(<<>>) = 0
    BY <1>1, <1>2, EmptySeq DEF KeptFrom
  <2> DEFINE m == [j \in 1..0 |-> 0]
  <2>2. Picks(s, I, 0, <<>>, m)
    BY DEF Picks
  <2>3. QED  BY <2>1, <2>2 DEF Picked
<1>4. ASSUME NEW n \in Nat, n \in P, n + 1 <= Len(s)
      PROVE  keep[n + 1] \in Seq(S) /\ Picked(s, I, n + 1, keep[n + 1])
  <2>1. keep[n] \in Seq(S) /\ Picked(s, I, n, keep[n]) /\ s[n + 1] \in S
    BY <1>2, <1>4, ElementOfSeq
  <2>2. keep[n + 1] = IF n + 1 \in I THEN Append(keep[n], s[n + 1]) ELSE keep[n]
    <3>1. n + 1 \in 0..Len(s) /\ n + 1 # 0 /\ n + 1 - 1 = n
      BY <1>2, <1>4
    <3>2. QED  BY <1>unfolded, <3>1
  <2>3. PICK m : Picks(s, I, n, keep[n], m)
    BY <2>1 DEF Picked
  <2>4. CASE n + 1 \in I
    <3> DEFINE t == Append(keep[n], s[n + 1])
               L == Len(keep[n])
               q == [j \in 1..Len(t) |-> IF j <= L THEN m[j] ELSE n + 1]
    <3>1. /\ t \in Seq(S) /\ L \in Nat /\ Len(t) = L + 1 /\ t[L + 1] = s[n + 1]
          /\ \A j \in 1..L : t[j] = keep[n][j]
      BY <2>1, AppendProperties, LenProperties
    <3> HIDE DEF t, L
    <3>2. \A j \in 1..L : m[j] \in I \cap 1..n /\ m[j] \in Nat /\ m[j] <= n
      <4>1. m \in [1..L -> I \cap 1..n]
        BY <2>3 DEF Picks, L
      <4>2. \A j \in 1..L : m[j] \in I \cap 1..n
        BY <4>1
      <4>3. \A x \in I \cap 1..n : x \in Nat /\ x <= n
        OBVIOUS
      <4>4. QED  BY <4>2, <4>3
    <3>3. q \in [1..Len(t) -> I \cap 1..(n + 1)]
      BY <3>1, <3>2, <2>4
    <3>4. \A j, k \in 1..Len(t) : j < k => q[j] < q[k]
      BY <3>1, <3>2, <2>3 DEF Picks, L
    <3>5. \A j \in 1..Len(t) : t[j] = s[q[j]]
      BY <3>1, <3>2, <2>3 DEF Picks, L
    <3>6. ASSUME NEW i \in I \cap 1..(n + 1)
          PROVE  \E j \in 1..Len(t) : q[j] = i
      <4>1. CASE i = n + 1
        BY <3>1, <4>1
      <4>2. CASE i # n + 1
        <5>1. PICK j \in 1..L : m[j] = i
          BY <2>3, <3>6, <4>2 DEF Picks, L
        <5>2. q[j] = i /\ j \in 1..Len(t)
          BY <3>1, <5>1
        <5>3. QED  BY <5>2
      <4>3. QED  BY <4>1, <4>2
    <3> HIDE DEF q
    <3>7. Picks(s, I, n + 1, t, q)
      BY <3>3, <3>4, <3>5, <3>6 DEF Picks
    <3>8. QED  BY <2>2, <2>4, <3>1, <3>7 DEF Picked, t
  <2>5. CASE n + 1 \notin I
    <3>1. I \cap 1..(n + 1) = I \cap 1..n
      BY <2>5
    <3>2. Picks(s, I, n + 1, keep[n], m)
      BY <2>3, <3>1 DEF Picks
    <3>3. QED  BY <2>1, <2>2, <2>5, <3>2 DEF Picked
  <2>6. QED  BY <2>4, <2>5
<1>5. \A n \in Nat : n \in P
  <2>1. \A n \in Nat : n \in P => n + 1 \in P
    BY <1>4
  <2> HIDE DEF P
  <2>2. QED  BY <1>3, <2>1, Induction
<1>6. QED  BY <1>1, <1>2, <1>5
-----------------------------------------------------------------------------
(* Lists of devices.                                                         *)
Lists == Seq(Devices)
Configs == [devs : Lists, bind : SUBSET Ids]
Once(ds) == \A i, j \in 1..Len(ds) : ds[i].id = ds[j].id => i = j

Least(I) == IF I = {} THEN 0 ELSE CHOOSE i \in I : \A j \in I : i <= j
Matching(ds, i, a) == {k \in 1..Len(ds) : ds[k].id = i \/ ds[k].addr = a}

MovedTo(ds, i, a) == [ds EXCEPT ![i].addr = a]

LEMMA LeastIn ==
    ASSUME NEW I, I \subseteq Nat
    PROVE  I # {} => Least(I) \in I
<1>1. CASE I # {}
  <2>1. \E i \in I : \A j \in I : i <= j
    BY <1>1, LeastNat
  <2>2. QED  BY <1>1, <2>1 DEF Least
<1>2. QED  BY <1>1

(* Giving a device of the list an address, and adding one with an id of its   *)
(* own.                                                                      *)
LEMMA Moved ==
    ASSUME NEW ds \in Lists, NEW i \in 1..Len(ds), NEW a \in Addrs
    PROVE  /\ MovedTo(ds, i, a) \in Lists /\ IdsOf(MovedTo(ds, i, a)) = IdsOf(ds)
           /\ Once(ds) => Once(MovedTo(ds, i, a))
<1> DEFINE t == [ds EXCEPT ![i].addr = a]
<1>1. ds \in Seq(Devices) /\ ds[i] \in Devices
  BY ElementOfSeq DEF Lists
<1>2. [ds[i] EXCEPT !.addr = a] \in Devices
  BY <1>1 DEF Devices
<1>3. t = [ds EXCEPT ![i] = [ds[i] EXCEPT !.addr = a]]
  OBVIOUS
<1>4. t \in Seq(Devices) /\ Len(t) = Len(ds)
  BY <1>1, <1>2, <1>3, ExceptSeq
<1>5. \A j \in 1..Len(ds) : t[j] = IF j = i THEN [ds[i] EXCEPT !.addr = a] ELSE ds[j]
  BY <1>1, <1>2, <1>3, ExceptSeq
<1>6. \A j \in 1..Len(ds) : t[j].id = ds[j].id
  <2>1. [ds[i] EXCEPT !.addr = a].id = ds[i].id
    BY <1>1 DEF Devices
  <2>2. QED  BY <1>5, <2>1
<1> HIDE DEF t
<1>7. t \in Lists /\ (Once(ds) => Once(t))
  BY <1>4, <1>6 DEF Lists, Once
<1>8. IdsOf(t) = IdsOf(ds)
  <2>1. ToSet(t) = {t[j] : j \in 1..Len(ds)} /\ ToSet(ds) = {ds[j] : j \in 1..Len(ds)}
    BY <1>1, <1>4, LenProperties DEF ToSet
  <2>2. QED  BY <1>6, <2>1 DEF IdsOf
<1>9. QED  BY <1>7, <1>8 DEF t, MovedTo

LEMMA Added ==
    ASSUME NEW ds \in Lists, NEW d \in Devices,
           \A k \in 1..Len(ds) : ds[k].id # d.id
    PROVE  /\ Append(ds, d) \in Lists /\ (Once(ds) => Once(Append(ds, d)))
           /\ IdsOf(ds) \subseteq IdsOf(Append(ds, d))
<1> DEFINE t == Append(ds, d)
<1>1. ds \in Seq(Devices) /\ Len(ds) \in Nat
  BY LenProperties DEF Lists
<1>2. /\ t \in Seq(Devices) /\ Len(t) = Len(ds) + 1 /\ t[Len(ds) + 1] = d
      /\ \A k \in 1..Len(ds) : t[k] = ds[k]
  BY <1>1, AppendProperties
<1> HIDE DEF t
<1>3. t \in Lists /\ (Once(ds) => Once(t))
  BY <1>1, <1>2 DEF Lists, Once
<1>4. IdsOf(ds) \subseteq IdsOf(t)
  <2>1. /\ ToSet(t) = {t[j] : j \in 1..(Len(ds) + 1)}
        /\ ToSet(ds) = {ds[j] : j \in 1..Len(ds)}
    BY <1>1, <1>2, LenProperties DEF ToSet
  <2>2. ToSet(ds) \subseteq ToSet(t)
    <3>1. \A j \in 1..Len(ds) : j \in 1..(Len(ds) + 1) /\ ds[j] = t[j]
      BY <1>1, <1>2
    <3>2. QED  BY <2>1, <3>1
  <2>3. QED  BY <2>2 DEF IdsOf
<1>5. QED  BY <1>3, <1>4 DEF t

(* A device that has been found, or added by hand.                           *)
LEMMA UpsertGood ==
    ASSUME NEW ds \in Lists, NEW f \in Entries
    PROVE  /\ Upsert(ds, f) \in Lists /\ IdsOf(ds) \subseteq IdsOf(Upsert(ds, f))
           /\ Once(ds) => Once(Upsert(ds, f))
<1> DEFINE I == Matching(ds, f.id, f.addr)
<1>1. f.id \in Ids /\ f.addr \in Addrs /\ Len(ds) \in Nat
  BY LenProperties DEF Entries, Lists
<1>2. Upsert(ds, f) = IF Least(I) = 0 THEN Append(ds, Device(f.id, f.addr))
                      ELSE MovedTo(ds, Least(I), f.addr)
  BY DEF Upsert, FirstIndex, Least, Matching, MovedTo
<1>3. I \subseteq 1..Len(ds) /\ (I # {} => Least(I) \in I)
  <2>1. I \subseteq 1..Len(ds) /\ I \subseteq Nat
    BY DEF Matching
  <2> HIDE DEF I
  <2>2. QED  BY <2>1, LeastIn
<1>4. CASE I = {}
  <2>1. Least(I) = 0
    BY <1>4 DEF Least
  <2>2. Device(f.id, f.addr) \in Devices /\ Device(f.id, f.addr).id = f.id
    BY <1>1 DEF Device, Devices
  <2>3. \A k \in 1..Len(ds) : ds[k].id # f.id
    BY <1>4 DEF Matching
  <2>4. QED  BY <1>2, <2>1, <2>2, <2>3, Added
<1>5. CASE I # {}
  <2>1. Least(I) \in 1..Len(ds) /\ Least(I) # 0
    BY <1>1, <1>3, <1>5
  <2>2. Upsert(ds, f) = MovedTo(ds, Least(I), f.addr)
    <3> HIDE DEF I
    <3>1. QED  BY <1>2, <2>1
  <2>3. QED
    <3> HIDE DEF I
    <3>1. QED  BY <1>1, <2>1, <2>2, Moved
<1>6. QED  BY <1>4, <1>5
-----------------------------------------------------------------------------
LEMMA KnownUnfolds ==
    ASSUME NEW ds \in Lists, NEW fs \in Seq(Entries)
    PROVE  \E known : KnownFrom(ds, fs, known) /\ Known(ds, fs) = known[Len(fs)]
<1> DEFINE D == {d \in Seq(Devices) : d \in Lists}
           op == [n \in 1..Len(fs) |-> [d \in D |-> Upsert(d, fs[n])]]
           m == Len(fs)
<1>1. m \in Nat /\ ds \in D
  BY LenProperties DEF Lists
<1>2. op \in Steps(D, m)
  <2>1. ASSUME NEW n \in 1..Len(fs), NEW d \in D
        PROVE  Upsert(d, fs[n]) \in D
    <3>1. fs[n] \in Entries /\ d \in Lists
      BY ElementOfSeq
    <3>2. Upsert(d, fs[n]) \in Lists
      BY <3>1, UpsertGood
    <3>3. QED  BY <3>2 DEF Lists
  <2>2. QED  BY <2>1 DEF Steps
<1>3. PICK f : Iterates(D, ds, op, m, f)
  <2> HIDE DEF D, op, m
  <2>1. QED  BY <1>1, <1>2, Recursion
<1>4. KnownFrom(ds, fs, f)
  <2> DEFINE g == [n \in 0..Len(fs) |->
                    IF n = 0 THEN ds
                    ELSE [d \in Seq(Devices) |-> Upsert(d, fs[n])][f[n - 1]]]
  <2>1. ASSUME NEW n \in 0..Len(fs)
        PROVE  f[n] = IF n = 0 THEN ds
                      ELSE [d \in Seq(Devices) |-> Upsert(d, fs[n])][f[n - 1]]
    <3>1. CASE n = 0
      BY <1>3, <3>1 DEF Iterates
    <3>2. CASE n # 0
      <4>1. n \in 1..Len(fs) /\ n - 1 \in 0..Len(fs)
        BY <1>1, <3>2
      <4>2. f[n] = op[n][f[n - 1]] /\ f[n - 1] \in D
        BY <1>3, <4>1 DEF Iterates
      <4>3. op[n] = [d \in D |-> Upsert(d, fs[n])]
        BY <4>1
      <4>4. f[n] = Upsert(f[n - 1], fs[n]) /\ f[n - 1] \in Seq(Devices)
        BY <4>2, <4>3
      <4>5. QED  BY <3>2, <4>4
    <3>3. QED  BY <3>1, <3>2
  <2>2. f = g
    BY <1>3, <2>1 DEF Iterates
  <2>3. QED  BY <2>2 DEF KnownFrom
<1>5. QED  BY <1>4, Zenon DEF Known, KnownFrom

LEMMA KnownStep ==
    ASSUME NEW ds, NEW fs, NEW known, KnownFrom(ds, fs, known),
           NEW k \in 0..Len(fs)
    PROVE  known[k] = IF k = 0 THEN ds
                      ELSE [d \in Seq(Devices) |-> Upsert(d, fs[k])][known[k - 1]]
<1> DEFINE g == [n \in 0..Len(fs) |->
                  IF n = 0 THEN ds
                  ELSE [d \in Seq(Devices) |-> Upsert(d, fs[n])][known[n - 1]]]
<1>1. known = g
  BY Zenon DEF KnownFrom
<1>2. known[k] = g[k]
  <2> HIDE DEF g
  <2>1. QED  BY <1>1
<1>3. QED  BY <1>2, Zenon

(* However many devices a scan has found: a good list is merged with them     *)
(* into a good list, which keeps its devices.                                *)
LEMMA KnownGood ==
    ASSUME NEW ds \in Lists, NEW fs \in Seq(Entries)
    PROVE  /\ Known(ds, fs) \in Lists /\ IdsOf(ds) \subseteq IdsOf(Known(ds, fs))
           /\ Once(ds) => Once(Known(ds, fs))
<1>1. PICK known : KnownFrom(ds, fs, known) /\ Known(ds, fs) = known[Len(fs)]
  BY KnownUnfolds
<1> DEFINE P == {n \in Nat : n <= Len(fs) =>
                   /\ known[n] \in Lists /\ IdsOf(ds) \subseteq IdsOf(known[n])
                   /\ Once(ds) => Once(known[n])}
<1>2. Len(fs) \in Nat
  BY LenProperties
<1>3. ASSUME NEW k \in 0..Len(fs)
      PROVE  known[k] = IF k = 0 THEN ds
                        ELSE [d \in Seq(Devices) |-> Upsert(d, fs[k])][known[k - 1]]
  <2>1. KnownFrom(ds, fs, known)
    BY <1>1
  <2>2. QED  BY <2>1, KnownStep
<1>4. 0 \in P
  <2>1. 0 \in 0..Len(fs)
    BY <1>2
  <2>2. known[0] = ds
    BY <1>3, <2>1
  <2>3. QED  BY <2>2
<1>5. ASSUME NEW n \in Nat, n \in P, n + 1 <= Len(fs)
      PROVE  /\ known[n + 1] \in Lists /\ IdsOf(ds) \subseteq IdsOf(known[n + 1])
             /\ Once(ds) => Once(known[n + 1])
  <2>1. fs[n + 1] \in Entries /\ known[n] \in Lists /\ known[n] \in Seq(Devices)
    BY <1>2, <1>5, ElementOfSeq DEF Lists
  <2>2. known[n + 1] = Upsert(known[n], fs[n + 1])
    <3>1. n + 1 \in 0..Len(fs) /\ n + 1 # 0 /\ n + 1 - 1 = n
      BY <1>2, <1>5
    <3>2. known[n + 1] = [d \in Seq(Devices) |-> Upsert(d, fs[n + 1])][known[n]]
      BY <1>3, <3>1
    <3>3. QED  BY <2>1, <3>2
  <2>3. /\ known[n + 1] \in Lists /\ IdsOf(known[n]) \subseteq IdsOf(known[n + 1])
        /\ Once(known[n]) => Once(known[n + 1])
    BY <2>1, <2>2, UpsertGood
  <2>4. IdsOf(ds) \subseteq IdsOf(known[n]) /\ (Once(ds) => Once(known[n]))
    BY <1>2, <1>5
  <2>5. QED  BY <2>3, <2>4
<1>6. \A n \in Nat : n \in P
  <2>1. \A n \in Nat : n \in P => n + 1 \in P
    BY <1>5
  <2> HIDE DEF P
  <2>2. QED  BY <1>4, <2>1, Induction
<1>7. QED  BY <1>1, <1>2, <1>6
-----------------------------------------------------------------------------
(* Leaving out devices, and reading a configuration.                         *)
LEMMA KeptGood ==
    ASSUME NEW ds \in Lists, NEW I, I \subseteq 1..Len(ds)
    PROVE  /\ Kept(ds, I) \in Lists /\ ToSet(Kept(ds, I)) = {ds[i] : i \in I}
           /\ Once(ds) => Once(Kept(ds, I))
<1> DEFINE t == Kept(ds, I)
<1>1. ds \in Seq(Devices) /\ Len(ds) \in Nat
  BY LenProperties DEF Lists
<1>2. t \in Seq(Devices) /\ Picked(ds, I, Len(ds), t)
  BY <1>1, KeptPicks
<1> HIDE DEF t
<1>3. PICK m : Picks(ds, I, Len(ds), t, m)
  BY <1>2 DEF Picked
<1>4. Len(t) \in Nat /\ ToSet(t) = {t[j] : j \in 1..Len(t)}
  BY <1>2, LenProperties DEF ToSet
<1>5. \A j \in 1..Len(t) : m[j] \in I /\ m[j] \in 1..Len(ds) /\ t[j] = ds[m[j]]
  BY <1>3 DEF Picks
<1>6. \A i \in I : \E j \in 1..Len(t) : m[j] = i
  BY <1>3 DEF Picks
<1>7. ASSUME Once(ds), NEW i \in 1..Len(t), NEW j \in 1..Len(t), t[i].id = t[j].id
      PROVE  i = j
  <2>1. m[i] = m[j] /\ m[i] \in Nat /\ m[j] \in Nat
    <3>1. /\ m[i] \in 1..Len(ds) /\ t[i] = ds[m[i]]
          /\ m[j] \in 1..Len(ds) /\ t[j] = ds[m[j]]
      BY <1>5
    <3>2. \A k, l \in 1..Len(ds) : ds[k].id = ds[l].id => k = l
      BY <1>7 DEF Once
    <3>3. m[i] = m[j]
      BY ONLY <1>7, <3>1, <3>2
    <3>4. QED  BY <1>1, <3>1, <3>3
  <2>2. \A k, l \in 1..Len(t) : k < l => m[k] < m[l]
    BY <1>3 DEF Picks
  <2>3. ~ (i < j)
    BY <2>1, <2>2
  <2>4. ~ (j < i)
    BY <2>1, <2>2
  <2>5. QED  BY <1>4, <2>3, <2>4
<1>8. ToSet(t) \subseteq {ds[i] : i \in I}
  BY <1>4, <1>5
<1>9. {ds[i] : i \in I} \subseteq ToSet(t)
  <2>1. ASSUME NEW i \in I
        PROVE  ds[i] \in ToSet(t)
    <3>1. PICK j \in 1..Len(t) : m[j] = i
      BY <1>6
    <3>2. ds[i] = t[j]
      BY <1>5, <3>1
    <3>3. QED  BY <1>4, <3>2
  <2>2. QED  BY <2>1
<1>10. /\ t \in Lists /\ ToSet(t) = {ds[i] : i \in I}
       /\ Once(ds) => Once(t)
  BY <1>2, <1>7, <1>8, <1>9 DEF Lists, Once
<1>11. QED  BY <1>10 DEF t

LEMMA DedupedGood ==
    ASSUME NEW ds \in Lists
    PROVE  Deduped(ds) \in Lists /\ (Once(ds) => Once(Deduped(ds)))
<1> DEFINE I == {i \in 1..Len(ds) : \A j \in 1..(i - 1) : ds[j].addr # ds[i].addr}
<1>1. I \subseteq 1..Len(ds) /\ Deduped(ds) = Kept(ds, I)
  BY DEF Deduped
<1> HIDE DEF I
<1>2. QED  BY <1>1, KeptGood

LEMMA DecodedGood ==
    ASSUME NEW c \in Configs
    PROVE  /\ Decoded(c) \in Configs
           /\ Decoded(c).bind \subseteq Named(Decoded(c).devs)
           /\ Once(c.devs) => Once(Decoded(c).devs)
<1>1. c.devs \in Lists /\ c.bind \in SUBSET Ids
  BY DEF Configs, Lists
<1>2. Deduped(c.devs) \in Lists /\ (Once(c.devs) => Once(Deduped(c.devs)))
  BY <1>1, DedupedGood DEF Lists
<1>3. /\ Decoded(c) = [devs |-> Deduped(c.devs),
                       bind |-> c.bind \cap Named(Deduped(c.devs))]
  BY DEF Decoded
<1>4. QED  BY <1>1, <1>2, <1>3 DEF Configs
-----------------------------------------------------------------------------
(* The invariant: types; and a task that is about to write has something to   *)
(* write.                                                                    *)
Tasks == {"web", "scan"}
Ops == {"add", "delete", "apply", "reset"}
BookInv ==
    /\ where \in [Lamps -> Addrs \cup {NULL}]
    /\ devs \in Lists /\ bind \in SUBSET Ids /\ stored \in Configs
    /\ blob \in [Tasks -> Configs \cup {NULL}]
    /\ web.at = "write" => blob["web"] \in Configs
    /\ scan = "write" => blob["scan"] \in Configs
    /\ web \in [at : {"write", "finish"}, op : Ops, id : Addrs \cup {NULL}]
         \/ web = NoRequest
    /\ found \in Seq(Entries)

(* Init.                                                                     *)
LEMMA StoredGood ==
    ASSUME NEW c \in Stored
    PROVE  c \in Configs
<1>1. PICK ds \in BoundedSeq(Devices, MaxStored), bs \in Bindings :
        /\ \A i, j \in DOMAIN ds : i # j => ds[i].id # ds[j].id
        /\ c = Decoded(Config(ds, bs))
  BY DEF Stored
<1>2. PICK m \in 0..MaxStored : ds \in [1..m -> Devices]
  BY <1>1 DEF BoundedSeq, SeqOf
<1>3. m \in Nat
  BY BookAssumption
<1>4. ds \in Seq(Devices) /\ Len(ds) = m /\ DOMAIN ds = 1..m
  BY <1>2, <1>3, SeqDef
<1>5. ds \in Lists
  BY <1>1, <1>4 DEF Lists
<1>6. Config(ds, bs) \in Configs
  BY <1>4, <1>5 DEF Config, Configs, Lists, Bindings
<1>7. QED  BY <1>1, <1>6, DecodedGood

LEMMA InitInv == Init => BookInv
<1>1. SUFFICES ASSUME Init
               PROVE  BookInv
  OBVIOUS
<1>2. stored \in Configs
  BY <1>1, StoredGood DEF Init
<1>3. devs \in Lists /\ bind \in SUBSET Ids
  BY <1>1, <1>2 DEF Init, Configs
<1>4. blob \in [Tasks -> Configs \cup {NULL}] /\ found \in Seq(Entries)
  BY <1>1, EmptySeq DEF Init, Tasks
<1>5. web.at = "idle" /\ web = NoRequest /\ scan = "query"
  BY <1>1 DEF Init, NoRequest
<1>6. where \in [Lamps -> Addrs \cup {NULL}]
  BY <1>1 DEF Init
<1>7. QED  BY <1>2, <1>3, <1>4, <1>5, <1>6 DEF BookInv

(* What a boot leaves, in a restart and after a reset.                       *)
LEMMA BootInv ==
    ASSUME BookInv, Boot, UNCHANGED <<where, stored>>
    PROVE  BookInv'
<1>1. stored \in Configs
  BY DEF BookInv
<1>2. devs' = Decoded(stored).devs /\ bind' = Decoded(stored).bind
  BY DEF Boot
<1>3. Decoded(stored) \in Configs
  BY <1>1, DecodedGood
<1>4. devs' \in Lists /\ bind' \in SUBSET Ids
  BY <1>2, <1>3 DEF Configs
<1>5. blob' \in [Tasks -> Configs \cup {NULL}] /\ found' \in Seq(Entries)
  BY EmptySeq DEF Boot, Tasks
<1>6. web' = NoRequest /\ web'.at = "idle" /\ scan' = "query"
  BY DEF Boot, NoRequest
<1>7. QED  BY <1>4, <1>5, <1>6 DEF BookInv

(* The requests: one lemma on what they have in common, then each.           *)
LEMMA RequestInv ==
    ASSUME BookInv, NEW op \in Ops, NEW i \in Addrs \cup {NULL},
           NEW ds \in Lists, NEW bs \in SUBSET Ids, Request(op, i, ds, bs)
    PROVE  BookInv'
<1>1. devs' \in Lists /\ bind' \in SUBSET Ids /\ Config(ds, bs) \in Configs
  BY DEF Request, Config, Configs
<1>2. /\ blob' \in [Tasks -> Configs \cup {NULL}] /\ blob'["web"] \in Configs
      /\ blob'["scan"] = blob["scan"]
  BY <1>1 DEF Request, BookInv, Tasks
<1>3. web' \in [at : {"write", "finish"}, op : Ops, id : Addrs \cup {NULL}]
  BY DEF Request
<1>4. UNCHANGED <<where, stored, scan, found>>
  BY DEF Request
<1>5. QED  BY <1>1, <1>2, <1>3, <1>4 DEF BookInv

LEMMA AddGood ==
    ASSUME BookInv, NEW a \in Addrs, Add(a)
    PROVE  \E ds \in Lists : /\ Request("add", a, ds, bind)
                             /\ IdsOf(devs) \subseteq IdsOf(ds)
                             /\ Once(devs) => Once(ds)
<1> DEFINE I == Matching(devs, a, a)
<1>1. devs \in Lists /\ Len(devs) \in Nat
  BY LenProperties DEF BookInv, Lists
<1>2. \/ Least(I) = 0 /\ Request("add", a, Append(devs, Device(a, a)), bind)
      \/ \E j \in 1..Len(devs) : Request("add", a, MovedTo(devs, j, a), bind)
  BY DEF Add, FirstIndex, Least, Matching, MovedTo
<1>3. CASE Least(I) = 0 /\ Request("add", a, Append(devs, Device(a, a)), bind)
  <2>1. I \subseteq 1..Len(devs) /\ I \subseteq Nat
    BY DEF Matching
  <2>2. I = {}
    <3> HIDE DEF I
    <3>1. I # {} => Least(I) \in I
      BY <2>1, LeastIn
    <3>2. 0 \notin I
      BY <1>1, <2>1
    <3>3. QED  BY <1>3, <3>1, <3>2
  <2>3. Device(a, a) \in Devices /\ Device(a, a).id = a
    BY DEF Device, Devices, Ids
  <2>4. \A k \in 1..Len(devs) : devs[k].id # Device(a, a).id
    BY <2>2, <2>3 DEF Matching
  <2>5. /\ Append(devs, Device(a, a)) \in Lists
        /\ Once(devs) => Once(Append(devs, Device(a, a)))
        /\ IdsOf(devs) \subseteq IdsOf(Append(devs, Device(a, a)))
    BY <1>1, <2>3, <2>4, Added
  <2>6. QED  BY <1>3, <2>5 DEF Lists
<1>4. CASE \E j \in 1..Len(devs) : Request("add", a, MovedTo(devs, j, a), bind)
  <2>1. PICK j \in 1..Len(devs) : Request("add", a, MovedTo(devs, j, a), bind)
    BY <1>4
  <2>2. /\ MovedTo(devs, j, a) \in Lists /\ IdsOf(MovedTo(devs, j, a)) = IdsOf(devs)
        /\ Once(devs) => Once(MovedTo(devs, j, a))
    BY <1>1, Moved
  <2>3. QED  BY <2>1, <2>2 DEF Lists
<1>5. QED  BY <1>2, <1>3, <1>4

LEMMA WithoutGood ==
    ASSUME BookInv, NEW i, NEW a
    PROVE  /\ Without(i, a) \in Lists /\ (Once(devs) => Once(Without(i, a)))
           /\ \A e \in ToSet(devs) :
                e.id \notin {i, a} /\ e.addr # a => e \in ToSet(Without(i, a))
<1> DEFINE I == {n \in 1..Len(devs) : devs[n].id \notin {i, a} /\ devs[n].addr # a}
<1>1. devs \in Lists /\ ToSet(devs) = {devs[n] : n \in 1..Len(devs)}
  BY LenProperties DEF BookInv, Lists, ToSet
<1>2. I \subseteq 1..Len(devs) /\ Without(i, a) = Kept(devs, I)
  BY DEF Without
<1>3. /\ Without(i, a) \in Lists /\ ToSet(Without(i, a)) = {devs[n] : n \in I}
      /\ Once(devs) => Once(Without(i, a))
  <2> HIDE DEF I
  <2>1. QED  BY <1>1, <1>2, KeptGood
<1>4. QED  BY <1>1, <1>3

LEMMA SentLists == Sent \subseteq Lists
BY BookAssumption DEF Lists, Devices, Ids

LEMMA UserInv ==
    ASSUME BookInv, User
    PROVE  BookInv'
<1>1. devs \in Lists /\ bind \in SUBSET Ids /\ <<>> \in Lists
  <2>1. <<>> \in Lists
    BY EmptySeq DEF Lists
  <2>2. QED  BY <2>1 DEF BookInv, Lists
<1>2. ASSUME NEW a \in Addrs, Add(a)
      PROVE  BookInv'
  <2>1. PICK ds \in Lists : Request("add", a, ds, bind)
    BY <1>2, AddGood
  <2>2. QED  BY <1>1, <2>1, RequestInv DEF Ops
<1>3. ASSUME NEW i, NEW a, Delete(i, a)
      PROVE  BookInv'
  <2>1. Without(i, a) \in Lists /\ bind \ {i, a} \in SUBSET Ids
    BY <1>1, WithoutGood
  <2>2. Request("delete", NULL, Without(i, a), bind \ {i, a})
    BY <1>3 DEF Delete
  <2>3. QED  BY <2>1, <2>2, RequestInv DEF Ops
<1>4. ASSUME NEW ds \in Sent \cup {devs}, NEW bs \in Bindings, Apply(ds, bs)
      PROVE  BookInv'
  <2>1. Config(ds, bs) \in Configs
    BY <1>1, SentLists DEF Config, Configs, Bindings
  <2> DEFINE c == Decoded(Config(ds, bs))
  <2>2. c \in Configs
    BY <2>1, DecodedGood
  <2>3. c.devs \in Lists /\ c.bind \in SUBSET Ids
    <3> HIDE DEF c
    <3>1. QED  BY <2>2 DEF Configs
  <2>4. Request("apply", NULL, c.devs, c.bind)
    BY <1>4 DEF Apply
  <2>5. QED
    <3> HIDE DEF c
    <3>1. QED  BY <2>3, <2>4, RequestInv DEF Ops
<1>5. ASSUME Reset
      PROVE  BookInv'
  <2>1. {} \in SUBSET Ids
    OBVIOUS
  <2>2. QED  BY <1>1, <1>5, <2>1, RequestInv DEF Reset, Ops
<1>6. QED  BY <1>2, <1>3, <1>4, <1>5 DEF User

(* The web server's task goes on with a request.                             *)
LEMMA SaveInv ==
    ASSUME BookInv, Save
    PROVE  BookInv'
<1>1. ASSUME WebFail
      PROVE  BookInv'
  <2>1. /\ blob' \in [Tasks -> Configs \cup {NULL}]
        /\ blob'["scan"] = blob["scan"]
    BY <1>1 DEF WebFail, BookInv, Tasks
  <2>2. web' = NoRequest /\ web'.at = "idle"
    BY <1>1 DEF WebFail, NoRequest
  <2>3. UNCHANGED <<where, devs, bind, stored, scan, found>>
    BY <1>1 DEF WebFail, book
  <2>4. QED  BY <2>1, <2>2, <2>3 DEF BookInv
<1>2. ASSUME WebWrite
      PROVE  BookInv'
  <2>1. /\ blob' \in [Tasks -> Configs \cup {NULL}]
        /\ blob'["scan"] = blob["scan"]
    BY <1>2 DEF WebWrite, BookInv, Tasks
  <2>2. stored' \in Configs
    BY <1>2 DEF WebWrite, BookInv
  <2>3. web \in [at : {"write", "finish"}, op : Ops, id : Addrs \cup {NULL}]
    BY <1>2 DEF WebWrite, BookInv, NoRequest
  <2>4. /\ web' \in [at : {"write", "finish"}, op : Ops, id : Addrs \cup {NULL}]
        /\ web'.at = "finish"
    BY <1>2, <2>3 DEF WebWrite
  <2>5. UNCHANGED <<where, devs, bind, scan, found>>
    BY <1>2 DEF WebWrite, book
  <2>6. QED  BY <2>1, <2>2, <2>4, <2>5 DEF BookInv
<1>3. ASSUME WebFinish
      PROVE  BookInv'
  <2>1. UNCHANGED <<where, stored>>
    BY <1>3 DEF WebFinish
  <2>2. CASE Boot
    BY <2>1, <2>2, BootInv
  <2>3. CASE ~ Boot
    <3>1. web' = NoRequest /\ UNCHANGED <<devs, bind, scan, found, blob>>
      BY <1>3, <2>3 DEF WebFinish, book
    <3>2. web'.at = "idle"
      BY <3>1 DEF NoRequest
    <3>3. QED  BY <2>1, <3>1, <3>2 DEF BookInv
  <2>4. QED  BY <2>2, <2>3
<1>4. QED  BY <1>1, <1>2, <1>3 DEF Save

(* What a scan finds are devices with an address, in whatever order and      *)
(* number the lamps answer: lamps where they are, and addresses.             *)
Genuine ==
    {e \in Entries : \/ e.id \in Lamps /\ e.addr = where[e.id]
                     \/ e.id \in Addrs /\ e.addr = e.id}

LEMMA OnAddressed ==
    ASSUME BookInv
    PROVE  \A l \in On :
             l \in Lamps /\ l \in Ids /\ where[l] \in Addrs /\ where[l] \in Ids
BY DEF BookInv, On, Ids

LEMMA OrdersSeq ==
    ASSUME NEW S, IsFiniteSet(S), NEW p \in Orders(S)
    PROVE  p \in Seq(S)
<1>1. CASE S = {}
  BY <1>1, EmptySeq DEF Orders
<1>2. CASE S # {}
  <2>1. Cardinality(S) \in Nat
    BY FS_CardinalityType
  <2>2. p \in [1..Cardinality(S) -> S]
    BY <1>2 DEF Orders, SetToSeqs
  <2>3. QED  BY <2>1, <2>2, SeqDef
<1>3. QED  BY <1>1, <1>2

LEMMA AnswersSeq ==
    ASSUME BookInv, NEW p \in Seq(On), NEW I, NEW J
    PROVE  [i \in DOMAIN Kept(p, I) |-> Seen(Kept(p, I)[i], where[Kept(p, I)[i]])]
             \o [i \in DOMAIN Kept(p, J) |->
                   Seen(where[Kept(p, J)[i]], where[Kept(p, J)[i]])] \in Seq(Genuine)
<1> DEFINE w == Kept(p, I)
           h == Kept(p, J)
           A == [i \in DOMAIN w |-> Seen(w[i], where[w[i]])]
           B == [i \in DOMAIN h |-> Seen(where[h[i]], where[h[i]])]
<1>1. w \in Seq(On) /\ h \in Seq(On)
  BY KeptPicks
<1> HIDE DEF w, h
<1>2. DOMAIN w = 1..Len(w) /\ DOMAIN h = 1..Len(h) /\ Len(w) \in Nat /\ Len(h) \in Nat
  BY <1>1, LenProperties
<1>3. A \in Seq(Genuine)
  <2>1. ASSUME NEW i \in 1..Len(w)
        PROVE  Seen(w[i], where[w[i]]) \in Genuine
    <3>1. w[i] \in On
      BY <1>1, ElementOfSeq
    <3>2. QED  BY <3>1, OnAddressed DEF Seen, Entries, Genuine
  <2>2. A \in [1..Len(w) -> Genuine]
    BY <1>2, <2>1
  <2> HIDE DEF A
  <2>3. QED  BY <1>2, <2>2, SeqDef
<1>4. B \in Seq(Genuine)
  <2>1. ASSUME NEW i \in 1..Len(h)
        PROVE  Seen(where[h[i]], where[h[i]]) \in Genuine
    <3>1. h[i] \in On
      BY <1>1, ElementOfSeq
    <3>2. QED  BY <3>1, OnAddressed DEF Seen, Entries, Genuine
  <2>2. B \in [1..Len(h) -> Genuine]
    BY <1>2, <2>1
  <2> HIDE DEF B
  <2>3. QED  BY <1>2, <2>2, SeqDef
<1>5. A \o B \in Seq(Genuine)
  <2> HIDE DEF A, B
  <2>1. QED  BY <1>3, <1>4, ConcatProperties
<1>6. QED  BY <1>5 DEF w, h

LEMMA QueryFinds ==
    ASSUME BookInv, Query
    PROVE  found' \in Seq(Genuine)
<1>1. PICK W \in SUBSET On, H \in SUBSET On, p \in Orders(On) :
        found' = [i \in DOMAIN Kept(p, {k \in DOMAIN p : p[k] \in W}) |->
                    Seen(Kept(p, {k \in DOMAIN p : p[k] \in W})[i],
                         where[Kept(p, {k \in DOMAIN p : p[k] \in W})[i]])]
                 \o [i \in DOMAIN Kept(p, {k \in DOMAIN p : p[k] \in H}) |->
                       Seen(where[Kept(p, {k \in DOMAIN p : p[k] \in H})[i]],
                            where[Kept(p, {k \in DOMAIN p : p[k] \in H})[i]])]
  BY Zenon DEF Query
<1>2. IsFiniteSet(On) /\ p \in Seq(On)
  <2>1. On \subseteq Lamps
    BY DEF On
  <2>2. IsFiniteSet(On)
    BY <2>1, BookAssumption, FS_Subset
  <2>3. QED  BY <2>2, OrdersSeq
<1>3. QED
  <2> DEFINE I == {k \in DOMAIN p : p[k] \in W}
             J == {k \in DOMAIN p : p[k] \in H}
  <2> HIDE DEF I, J
  <2>1. found' = [i \in DOMAIN Kept(p, I) |-> Seen(Kept(p, I)[i], where[Kept(p, I)[i]])]
                   \o [i \in DOMAIN Kept(p, J) |->
                         Seen(where[Kept(p, J)[i]], where[Kept(p, J)[i]])]
    BY <1>1 DEF I, J
  <2>2. QED  BY <1>2, <2>1, AnswersSeq

LEMMA QueryInv ==
    ASSUME BookInv, Query
    PROVE  BookInv'
<1>1. found' \in Seq(Entries)
  <2>1. found' \in Seq(Genuine)
    BY QueryFinds
  <2>2. found' \in [1..Len(found') -> Genuine] /\ Len(found') \in Nat
    BY <2>1, LenProperties
  <2>3. found' \in [1..Len(found') -> Entries]
    BY <2>2 DEF Genuine
  <2>4. QED  BY <2>2, <2>3, SeqDef
<1>2. scan' = "merge" /\ UNCHANGED <<where, devs, bind, stored, web, blob>>
  BY DEF Query, book
<1>3. QED  BY <1>1, <1>2 DEF BookInv

LEMMA ScanInv ==
    ASSUME BookInv, Scan
    PROVE  BookInv'
<1>1. ASSUME Merge
      PROVE  BookInv'
  <2>1. devs' \in Lists
    <3>1. devs \in Lists /\ found \in Seq(Entries) /\ devs' = Known(devs, found)
      BY <1>1 DEF BookInv, Lists, Merge
    <3>2. QED  BY <3>1, KnownGood DEF Lists
  <2>2. found' = <<>> /\ UNCHANGED <<where, bind, stored, web>>
    BY <1>1 DEF Merge
  <2>3. Config(devs', bind) \in Configs
    BY <2>1 DEF Config, Configs, BookInv
  <2>4. /\ blob' \in [Tasks -> Configs \cup {NULL}] /\ blob'["web"] = blob["web"]
        /\ scan' = "write" => blob'["scan"] \in Configs
    BY <1>1, <2>3 DEF Merge, BookInv, Tasks
  <2>5. QED  BY <2>1, <2>2, <2>4, EmptySeq DEF BookInv
<1>2. ASSUME ScanWrite
      PROVE  BookInv'
  <2>1. /\ blob' \in [Tasks -> Configs \cup {NULL}] /\ blob'["web"] = blob["web"]
        /\ scan' = "query"
    BY <1>2 DEF ScanWrite, BookInv, Tasks
  <2>2. stored' \in Configs
    BY <1>2 DEF ScanWrite, BookInv
  <2>3. UNCHANGED <<where, devs, bind, web, found>>
    BY <1>2 DEF ScanWrite, book
  <2>4. QED  BY <2>1, <2>2, <2>3 DEF BookInv
<1>3. QED  BY <1>1, <1>2, QueryInv DEF Scan

LEMMA NextInv ==
    ASSUME BookInv, [Next]_vars
    PROVE  BookInv'
<1>1. ASSUME Move
      PROVE  BookInv'
  <2>1. where' \in [Lamps -> Addrs \cup {NULL}]
    BY <1>1 DEF Move, BookInv
  <2>2. UNCHANGED <<devs, bind, stored, web, scan, found, blob>>
    BY <1>1 DEF Move, book
  <2>3. QED  BY <2>1, <2>2 DEF BookInv
<1>2. ASSUME Restart
      PROVE  BookInv'
  BY <1>2, BootInv DEF Restart
<1>3. ASSUME UNCHANGED vars
      PROVE  BookInv'
  BY <1>3 DEF vars, BookInv
<1>4. QED  BY <1>1, <1>2, <1>3, UserInv, SaveInv, ScanInv DEF Next

THEOREM BookSafe == Spec => []BookInv
<1>1. QED  BY InitInv, NextInv, PTL DEF Spec
-----------------------------------------------------------------------------
(* No id comes into the list twice, nor into what is stored or about to be    *)
(* stored, but by a list that a request brings, whatever scans, requests,    *)
(* failing saves and restarts come in whatever order.                        *)
AllOnce ==
    /\ Once(devs) /\ Once(stored.devs)
    /\ web.at = "write" => Once(blob["web"].devs)
    /\ scan = "write" => Once(blob["scan"].devs)
BringsDouble ==
    \E ds \in Sent, bs \in Bindings : Doubled(ds) /\ Apply(ds, bs)

LEMMA OnceClean == Clean <=> AllOnce
BY DEF Clean, AllOnce, Once, Doubled

LEMMA RequestOnce ==
    ASSUME BookInv, AllOnce, NEW op, NEW i, NEW ds, NEW bs, Request(op, i, ds, bs),
           Once(ds)
    PROVE  AllOnce'
<1>1. /\ devs' = ds /\ UNCHANGED <<stored, scan>>
      /\ blob' = [blob EXCEPT !["web"] = Config(ds, bs)]
  BY DEF Request
<1>2. blob'["web"] = Config(ds, bs) /\ blob'["scan"] = blob["scan"]
  BY <1>1 DEF BookInv, Tasks
<1>3. blob'["web"].devs = ds
  BY <1>2 DEF Config
<1>4. QED  BY <1>1, <1>2, <1>3 DEF AllOnce

LEMMA UserOnce ==
    ASSUME BookInv, AllOnce, User
    PROVE  AllOnce' \/ BringsDouble
<1>1. ASSUME NEW a \in Addrs, Add(a)
      PROVE  AllOnce'
  <2>1. PICK ds \in Lists : Request("add", a, ds, bind) /\ (Once(devs) => Once(ds))
    BY <1>1, AddGood
  <2>2. QED  BY <2>1, RequestOnce DEF AllOnce
<1>2. ASSUME NEW i, NEW a, Delete(i, a)
      PROVE  AllOnce'
  <2>1. Request("delete", NULL, Without(i, a), bind \ {i, a}) /\ Once(Without(i, a))
    BY <1>2, WithoutGood DEF Delete, AllOnce
  <2>2. QED  BY <2>1, RequestOnce
<1>3. ASSUME NEW ds \in Sent \cup {devs}, NEW bs \in Bindings, Apply(ds, bs)
      PROVE  AllOnce' \/ BringsDouble
  <2>1. CASE Once(ds)
    <3> DEFINE c == Decoded(Config(ds, bs))
    <3>1. Config(ds, bs) \in Configs /\ Config(ds, bs).devs = ds
      BY SentLists DEF Config, Configs, Bindings, BookInv
    <3>2. Once(c.devs)
      BY <2>1, <3>1, DecodedGood
    <3>3. Request("apply", NULL, c.devs, c.bind)
      BY <1>3 DEF Apply
    <3> HIDE DEF c
    <3>4. QED  BY <3>2, <3>3, RequestOnce
  <2>2. CASE ~ Once(ds)
    <3>1. Doubled(ds)
      BY <2>2 DEF Once, Doubled
    <3>2. ds \in Sent
      BY <2>2 DEF AllOnce
    <3>3. QED  BY <1>3, <3>1, <3>2 DEF BringsDouble
  <2>3. QED  BY <2>1, <2>2
<1>4. ASSUME Reset
      PROVE  AllOnce'
  <2>1. Request("reset", NULL, <<>>, {}) /\ Once(<<>>)
    BY <1>4 DEF Reset, Once
  <2>2. QED  BY <2>1, RequestOnce
<1>5. QED  BY <1>1, <1>2, <1>3, <1>4 DEF User

LEMMA BootOnce ==
    ASSUME BookInv, AllOnce, Boot, UNCHANGED stored
    PROVE  AllOnce'
<1>1. devs' = Decoded(stored).devs /\ web'.at = "idle" /\ scan' = "query"
  BY DEF Boot, NoRequest
<1>2. Once(devs')
  <2>1. stored \in Configs /\ Once(stored.devs)
    BY DEF BookInv, AllOnce
  <2>2. QED  BY <1>1, <2>1, DecodedGood
<1>3. QED  BY <1>1, <1>2 DEF AllOnce

LEMMA NextOnce ==
    ASSUME BookInv, AllOnce, [Next]_vars
    PROVE  AllOnce' \/ BringsDouble
<1>1. ASSUME Query \/ Move \/ UNCHANGED vars
      PROVE  AllOnce'
  <2>1. UNCHANGED <<devs, stored, blob, web>> /\ (scan' = "merge" \/ scan' = scan)
    BY <1>1 DEF Query, Move, vars, book
  <2>2. QED  BY <2>1 DEF AllOnce
<1>2. ASSUME Merge
      PROVE  AllOnce'
  <2>1. devs \in Lists /\ found \in Seq(Entries) /\ devs' = Known(devs, found)
    BY <1>2 DEF BookInv, Merge
  <2>2. Once(devs')
    BY <2>1, KnownGood DEF AllOnce
  <2>3. \/ scan' = "query" /\ blob' = blob
        \/ scan' = "write" /\ blob' = [blob EXCEPT !["scan"] = Config(devs', bind)]
    BY <1>2 DEF Merge
  <2>4. /\ blob'["web"] = blob["web"]
        /\ scan' = "write" => blob'["scan"] = Config(devs', bind)
    BY <2>3 DEF BookInv, Tasks
  <2>5. scan' = "write" => blob'["scan"].devs = devs'
    BY <2>4 DEF Config
  <2>6. UNCHANGED <<stored, web>>
    BY <1>2 DEF Merge
  <2>7. QED  BY <2>2, <2>4, <2>5, <2>6 DEF AllOnce
<1>3. ASSUME ScanWrite
      PROVE  AllOnce'
  <2>1. /\ scan = "write" /\ scan' = "query" /\ stored' \in {blob["scan"], stored}
        /\ blob'["web"] = blob["web"] /\ UNCHANGED <<devs, web>>
    BY <1>3 DEF ScanWrite, book, BookInv, Tasks
  <2>2. QED  BY <2>1 DEF AllOnce
<1>4. ASSUME WebFail \/ WebWrite
      PROVE  AllOnce'
  <2>1. /\ web.at = "write" /\ stored' \in {blob["web"], stored} /\ web'.at # "write"
        /\ blob'["scan"] = blob["scan"] /\ UNCHANGED <<devs, scan>>
    <3>1. CASE WebFail
      BY <3>1 DEF WebFail, book, BookInv, Tasks, NoRequest
    <3>2. CASE WebWrite
      <4>1. web \in [at : {"write", "finish"}, op : Ops, id : Addrs \cup {NULL}]
        BY <3>2 DEF WebWrite, BookInv, NoRequest
      <4>2. web'.at = "finish"
        BY <3>2, <4>1 DEF WebWrite
      <4>3. QED  BY <3>2, <4>2 DEF WebWrite, book, BookInv, Tasks
    <3>3. QED  BY <1>4, <3>1, <3>2
  <2>2. QED  BY <2>1 DEF AllOnce
<1>5. ASSUME WebFinish
      PROVE  AllOnce'
  <2>1. CASE Boot
    BY <1>5, <2>1, BootOnce DEF WebFinish
  <2>2. CASE ~ Boot
    <3>1. web'.at = "idle" /\ UNCHANGED <<devs, stored, scan, blob>>
      BY <1>5, <2>2 DEF WebFinish, book, NoRequest
    <3>2. QED  BY <3>1 DEF AllOnce
  <2>3. QED  BY <2>1, <2>2
<1>6. ASSUME Restart
      PROVE  AllOnce'
  BY <1>6, BootOnce DEF Restart
<1>7. QED  BY <1>1, <1>2, <1>3, <1>4, <1>5, <1>6, UserOnce DEF Next, Scan, Save

THEOREM OneEntryHolds == Spec => OneEntry
<1> DEFINE Keeps == Clean => Clean' \/ BringsDouble
<1>1. ASSUME BookInv, [Next]_vars
      PROVE  Keeps
  <2>1. AllOnce => AllOnce' \/ BringsDouble
    BY <1>1, NextOnce
  <2>2. Clean' <=> AllOnce'
    BY DEF Clean, AllOnce, Once, Doubled
  <2>3. QED  BY <2>1, <2>2, OnceClean
<1>2. BookInv /\ [Next]_vars => [Keeps]_vars
  BY <1>1
<1>3. [Keeps]_vars
        => [Clean => \/ Clean'
                     \/ \E ds \in Sent, bs \in Bindings : Doubled(ds) /\ Apply(ds, bs)]_vars
  BY DEF BringsDouble
<1>4. QED  BY <1>2, <1>3, BookSafe, PTL DEF Spec, OneEntry

(* A binding that names a device by its id loses it only to a request that    *)
(* deletes the device by its address, and an applied configuration has only  *)
(* bindings of devices that are there.                                       *)
ByAddress == \E i, a \in Ids \cup {NULL} : Unnamed(i, a) /\ Delete(i, a)
KeepsBound == bind \cap bind' \cap IdsOf(devs) \subseteq Named(devs') \/ ByAddress
Orphanless == KeepsBound /\ (Read => bind' \subseteq Named(devs'))

LEMMA IdsNamed == \A ds : IdsOf(ds) \subseteq Named(ds)
BY DEF IdsOf, Named

(* The steps that keep the ids, and are not a request that is read.          *)
LEMMA KeepsIds ==
    ASSUME IdsOf(devs) \subseteq IdsOf(devs'), ~ Read
    PROVE  Orphanless
<1>1. IdsOf(devs') \subseteq Named(devs')
  BY IdsNamed
<1>2. QED  BY <1>1 DEF Orphanless, KeepsBound

LEMMA NotRead ==
    ASSUME BookInv, \/ web' = web \/ web' = NoRequest
                    \/ web'.op # "apply" \/ web.at # "idle"
    PROVE  ~ Read
<1>1. "apply" # NULL /\ NoRequest.op = NULL
  BY BookAssumption DEF NoRequest
<1>2. web.at = "idle" => web.op = NULL
  BY DEF BookInv, NoRequest
<1>3. QED  BY <1>1, <1>2 DEF Read

(* The steps after which the bindings are pruned.                            *)
LEMMA Pruned ==
    ASSUME bind' \subseteq Named(devs')
    PROVE  Orphanless
BY DEF Orphanless, KeepsBound

LEMMA UserOrphanless ==
    ASSUME BookInv, User
    PROVE  Orphanless
<1>1. ASSUME NEW a \in Addrs, Add(a)
      PROVE  Orphanless
  <2>1. PICK ds \in Lists : Request("add", a, ds, bind) /\ IdsOf(devs) \subseteq IdsOf(ds)
    BY <1>1, AddGood
  <2>2. devs' = ds /\ web'.op # "apply"
    BY <2>1 DEF Request
  <2>3. QED  BY <2>1, <2>2, KeepsIds, NotRead
<1>2. ASSUME NEW i \in Ids \cup {NULL}, NEW a \in Ids \cup {NULL}, Delete(i, a)
      PROVE  Orphanless
  <2>1. devs' = Without(i, a) /\ bind' = bind \ {i, a} /\ web'.op # "apply"
    BY <1>2 DEF Delete, Request
  <2>2. ASSUME NEW b \in bind \cap bind' \cap IdsOf(devs), b \notin Named(devs')
        PROVE  Unnamed(i, a)
    <3>1. PICK e \in ToSet(devs) : e.id = b
      BY <2>2 DEF IdsOf
    <3>2. b \notin {i, a}
      BY <2>1, <2>2
    <3>3. e \notin ToSet(devs')
      BY <2>2, <3>1 DEF Named
    <3>4. e.addr = a /\ e.id \notin {i, a}
      BY <2>1, <3>1, <3>2, <3>3, WithoutGood
    <3>5. \E n \in 1..Len(devs) : devs[n] = e
      BY <3>1, LenProperties DEF ToSet, BookInv, Lists
    <3>6. QED  BY <3>4, <3>5 DEF Unnamed
  <2>3. KeepsBound
    BY <1>2, <2>2 DEF KeepsBound, ByAddress
  <2>4. QED  BY <2>1, <2>3, NotRead DEF Orphanless
<1>3. ASSUME NEW ds \in Sent \cup {devs}, NEW bs \in Bindings, Apply(ds, bs)
      PROVE  Orphanless
  <2>1. Config(ds, bs) \in Configs
    BY SentLists DEF Config, Configs, Bindings, BookInv
  <2> DEFINE c == Decoded(Config(ds, bs))
  <2>2. c.bind \subseteq Named(c.devs)
    BY <2>1, DecodedGood
  <2>3. devs' = c.devs /\ bind' = c.bind
    BY <1>3 DEF Apply, Request
  <2> HIDE DEF c
  <2>4. QED  BY <2>2, <2>3, Pruned
<1>4. ASSUME Reset
      PROVE  Orphanless
  <2>1. bind' = {}
    BY <1>4 DEF Reset, Request
  <2>2. QED  BY <2>1, Pruned
<1>5. QED  BY <1>1, <1>2, <1>3, <1>4 DEF User

LEMMA BootOrphanless ==
    ASSUME BookInv, Boot
    PROVE  Orphanless
<1>1. stored \in Configs
  BY DEF BookInv
<1>2. Decoded(stored).bind \subseteq Named(Decoded(stored).devs)
  BY <1>1, DecodedGood
<1>3. QED  BY <1>2, Pruned DEF Boot

LEMMA NextOrphanless ==
    ASSUME BookInv, Next
    PROVE  Orphanless
<1>1. ASSUME Query \/ ScanWrite \/ Move
      PROVE  Orphanless
  <2>1. UNCHANGED <<devs, web>>
    BY <1>1 DEF Query, ScanWrite, Move, book
  <2>2. QED  BY <2>1, KeepsIds, NotRead
<1>2. ASSUME Merge
      PROVE  Orphanless
  <2>1. devs \in Lists /\ found \in Seq(Entries) /\ devs' = Known(devs, found) /\ web' = web
    BY <1>2 DEF BookInv, Lists, Merge
  <2>2. IdsOf(devs) \subseteq IdsOf(devs')
    BY <2>1, KnownGood
  <2>3. QED  BY <2>1, <2>2, KeepsIds, NotRead
<1>3. ASSUME WebFail \/ WebWrite
      PROVE  Orphanless
  <2>1. devs' = devs /\ web.at # "idle"
    BY <1>3 DEF WebFail, WebWrite, book
  <2>2. QED  BY <2>1, KeepsIds, NotRead
<1>4. ASSUME WebFinish
      PROVE  Orphanless
  <2>1. CASE Boot
    BY <2>1, BootOrphanless
  <2>2. CASE ~ Boot
    <3>1. devs' = devs /\ web.at # "idle"
      BY <1>4, <2>2 DEF WebFinish, book
    <3>2. QED  BY <3>1, KeepsIds, NotRead
  <2>3. QED  BY <2>1, <2>2
<1>5. ASSUME Restart
      PROVE  Orphanless
  BY <1>5, BootOrphanless DEF Restart
<1>6. QED
  BY <1>1, <1>2, <1>3, <1>4, <1>5, UserOrphanless DEF Next, Scan, Save

THEOREM NoOrphansHolds == Spec => NoOrphans
<1>1. BookInv /\ [Next]_vars => [Orphanless]_vars
  BY NextOrphanless
<1>2. [Orphanless]_vars
        => [/\ \/ bind \cap bind' \cap IdsOf(devs) \subseteq Named(devs')
               \/ \E i, a \in Ids \cup {NULL} : Unnamed(i, a) /\ Delete(i, a)
            /\ Read => bind' \subseteq Named(devs')]_vars
  BY DEF Orphanless, KeepsBound, ByAddress
<1>3. QED  BY <1>1, <1>2, BookSafe, PTL DEF Spec, NoOrphans
-----------------------------------------------------------------------------
(* Reading a configuration (Decoded): of the devices with one address one is  *)
(* left and none of the addresses is lost, bindings name devices, and reading *)
(* what has been read changes nothing more.                                  *)
Apart(ds) == \A i, j \in 1..Len(ds) : ds[i].addr = ds[j].addr => i = j
AddrsOf(ds) == {d.addr : d \in ToSet(ds)}

LEMMA KeptAll ==
    ASSUME NEW S, NEW s \in Seq(S)
    PROVE  Kept(s, 1..Len(s)) = s
<1> DEFINE I == 1..Len(s)
<1>1. PICK keep : KeptFrom(s, I, keep) /\ Kept(s, I) = keep[Len(s)]
  BY KeptUnfolds
<1> HIDE DEF I
<1>2. Len(s) \in Nat
  BY LenProperties
<1>3. ASSUME NEW k \in 0..Len(s)
      PROVE  keep[k] = IF k = 0 THEN <<>>
                       ELSE IF k \in I THEN Append(keep[k - 1], s[k])
                       ELSE keep[k - 1]
  <2>1. KeptFrom(s, I, keep)
    BY <1>1
  <2>2. QED  BY <2>1, KeptStep
<1> DEFINE P == {n \in Nat : n <= Len(s) =>
                   /\ keep[n] \in Seq(S) /\ Len(keep[n]) = n
                   /\ \A j \in 1..n : keep[n][j] = s[j]}
<1>4. 0 \in P
  <2>1. 0 \in 0..Len(s)
    BY <1>2
  <2>2. keep[0] = <<>>
    BY <1>3, <2>1
  <2>3. keep[0] \in Seq(S) /\ Len(keep[0]) = 0
    BY <2>2, EmptySeq
  <2>4. QED  BY <2>3
<1>5. ASSUME NEW n \in Nat, n \in P, n + 1 <= Len(s)
      PROVE  /\ keep[n + 1] \in Seq(S) /\ Len(keep[n + 1]) = n + 1
             /\ \A j \in 1..(n + 1) : keep[n + 1][j] = s[j]
  <2>1. /\ keep[n] \in Seq(S) /\ Len(keep[n]) = n
        /\ \A j \in 1..n : keep[n][j] = s[j]
    BY <1>2, <1>5
  <2>2. keep[n + 1] = Append(keep[n], s[n + 1])
    <3>1. n + 1 \in 0..Len(s) /\ n + 1 # 0 /\ n + 1 - 1 = n
      BY <1>2, <1>5
    <3>2. n + 1 \in I
      BY <1>2, <1>5 DEF I
    <3>3. keep[n + 1] = IF n + 1 = 0 THEN <<>>
                        ELSE IF n + 1 \in I THEN Append(keep[n + 1 - 1], s[n + 1])
                        ELSE keep[n + 1 - 1]
      <4> HIDE DEF P
      <4>1. QED  BY <1>3, <3>1
    <3>4. QED  BY <3>1, <3>2, <3>3
  <2>3. s[n + 1] \in S
    BY <1>2, <1>5, ElementOfSeq
  <2>4. QED  BY <2>1, <2>2, <2>3, AppendProperties
<1>6. \A n \in Nat : n \in P
  <2>1. \A n \in Nat : n \in P => n + 1 \in P
    BY <1>5
  <2> HIDE DEF P
  <2>2. QED  BY <1>4, <2>1, Induction
<1> DEFINE t == keep[Len(s)]
<1>7. t \in Seq(S) /\ Len(t) = Len(s) /\ \A j \in 1..Len(s) : t[j] = s[j]
  BY <1>2, <1>6
<1> HIDE DEF t
<1>8. t = s
  BY <1>7, SeqEqual
<1>9. QED  BY <1>1, <1>8 DEF I, t

LEMMA DedupedApart ==
    ASSUME NEW ds \in Lists
    PROVE  /\ Apart(Deduped(ds)) /\ AddrsOf(Deduped(ds)) = AddrsOf(ds)
           /\ Apart(ds) => Deduped(ds) = ds
<1> DEFINE I == {i \in 1..Len(ds) : \A j \in 1..(i - 1) : ds[j].addr # ds[i].addr}
           t == Deduped(ds)
<1>1. ds \in Seq(Devices) /\ Len(ds) \in Nat
  BY LenProperties DEF Lists
<1>2. t = Kept(ds, I) /\ I \subseteq 1..Len(ds)
  BY DEF Deduped
<1>3. ASSUME NEW i \in I, NEW j \in I, ds[i].addr = ds[j].addr
      PROVE  i = j
  BY <1>1, <1>3
<1>4. ASSUME NEW k \in 1..Len(ds)
      PROVE  \E i \in I : ds[i].addr = ds[k].addr
  <2> DEFINE T == {i \in 1..Len(ds) : ds[i].addr = ds[k].addr}
  <2>1. PICK i \in T : \A j \in T : i <= j
    <3>1. T \subseteq Nat /\ T # {}
      BY <1>1, <1>4
    <3> HIDE DEF T
    <3>2. QED  BY <3>1, LeastNat
  <2>2. QED  BY <1>1, <2>1
<1>5. Apart(ds) => I = 1..Len(ds)
  BY <1>1 DEF Apart
<1> HIDE DEF I
<1>6. PICK m : Picks(ds, I, Len(ds), t, m)
  BY <1>1, <1>2, KeptPicks DEF Picked
<1>7. t \in Seq(Devices) /\ ToSet(t) = {ds[i] : i \in I} /\ Len(t) \in Nat
  <2>1. t \in Seq(Devices) /\ ToSet(t) = {ds[i] : i \in I}
    BY <1>2, KeptGood DEF Lists
  <2>2. QED  BY <2>1, LenProperties
<1>8. Apart(t)
  <2>1. ASSUME NEW i \in 1..Len(t), NEW j \in 1..Len(t), t[i].addr = t[j].addr
        PROVE  i = j
    <3>1. m[i] \in I /\ m[j] \in I /\ t[i] = ds[m[i]] /\ t[j] = ds[m[j]]
      BY <1>6 DEF Picks
    <3>2. m[i] = m[j] /\ m[i] \in Nat
      <4>1. m[i] = m[j]
        BY <1>3, <2>1, <3>1
      <4>2. m[i] \in 1..Len(ds)
        BY <1>2, <3>1
      <4>3. QED  BY <1>1, <4>1, <4>2
    <3>3. \A k, l \in 1..Len(t) : k < l => m[k] < m[l]
      BY <1>6 DEF Picks
    <3>4. ~ (i < j)
      BY <3>2, <3>3
    <3>5. ~ (j < i)
      BY <3>2, <3>3
    <3>6. QED  BY <1>7, <3>4, <3>5
  <2>2. QED  BY <2>1 DEF Apart
<1>9. AddrsOf(t) = AddrsOf(ds)
  <2>1. ToSet(ds) = {ds[i] : i \in 1..Len(ds)}
    BY <1>1, LenProperties DEF ToSet
  <2>2. AddrsOf(t) \subseteq AddrsOf(ds)
    BY <1>2, <1>7, <2>1 DEF AddrsOf
  <2>3. AddrsOf(ds) \subseteq AddrsOf(t)
    BY <1>4, <1>7, <2>1 DEF AddrsOf
  <2>4. QED  BY <2>2, <2>3
<1>10. Apart(ds) => t = ds
  BY <1>1, <1>2, <1>5, KeptAll
<1>11. QED  BY <1>8, <1>9, <1>10 DEF t

THEOREM ReadOnce ==
    ASSUME NEW c \in Configs
    PROVE  /\ Apart(Decoded(c).devs) /\ AddrsOf(Decoded(c).devs) = AddrsOf(c.devs)
           /\ Decoded(c).bind \subseteq Named(Decoded(c).devs)
           /\ Decoded(Decoded(c)) = Decoded(c)
<1> DEFINE d == Decoded(c)
<1>1. c.devs \in Lists /\ d \in Configs /\ d.bind \subseteq Named(d.devs)
  BY DecodedGood DEF Configs, Lists
<1>2. d.devs = Deduped(c.devs)
  BY DEF Decoded
<1>3. Apart(d.devs) /\ AddrsOf(d.devs) = AddrsOf(c.devs)
  BY <1>1, <1>2, DedupedApart
<1> HIDE DEF d
<1>4. Decoded(d) = [devs |-> d.devs, bind |-> d.bind]
  <2>1. d.devs \in Lists
    BY <1>1 DEF Configs, Lists
  <2>2. Deduped(d.devs) = d.devs
    BY <1>3, <2>1, DedupedApart
  <2>3. d.bind \cap Named(d.devs) = d.bind
    BY <1>1
  <2>4. QED  BY <2>2, <2>3 DEF Decoded
<1>5. d = [devs |-> d.devs, bind |-> d.bind]
  BY <1>1 DEF Configs
<1>6. Decoded(d) = d
  BY <1>4, <1>5
<1>7. QED  BY <1>1, <1>3, <1>6 DEF d
-----------------------------------------------------------------------------
(* Discovery's own list.                                                     *)
NotedFrom(st, fs, noted) ==
    noted = [n \in 0..Len(fs) |->
               IF n = 0 THEN st
               ELSE [s \in Seq(Entries) |-> Note(s, fs[n])][noted[n - 1]]]

(* One device found is noted: t has it, and what t has not of st had its id   *)
(* or its address.                                                           *)
NoteOf(st, f, t) ==
    /\ t \in Seq(Entries)
    /\ \E i \in 1..Len(t) : t[i] = f
    /\ \A i \in 1..Len(st) :
         /\ i \in 1..Len(t)
         /\ t[i] = st[i] \/ (t[i] = f /\ (st[i].id = f.id \/ st[i].addr = f.addr))

LEMMA NoteTyped ==
    ASSUME NEW st \in Seq(Entries), NEW f \in Entries
    PROVE  NoteOf(st, f, Note(st, f))
<1> DEFINE I == Matching(st, f.id, f.addr)
           t == Note(st, f)
<1>1. Len(st) \in Nat
  BY LenProperties
<1>2. t = IF Least(I) = 0 THEN Append(st, f) ELSE [st EXCEPT ![Least(I)] = f]
  BY DEF Note, FirstIndex, Least, Matching
<1>3. I \subseteq 1..Len(st) /\ (I # {} => Least(I) \in I)
  <2>1. I \subseteq 1..Len(st) /\ I \subseteq Nat
    BY DEF Matching
  <2> HIDE DEF I
  <2>2. QED  BY <2>1, LeastIn
<1>4. CASE I = {}
  <2>1. t = Append(st, f)
    BY <1>2, <1>4 DEF Least
  <2>2. /\ t \in Seq(Entries) /\ Len(t) = Len(st) + 1 /\ t[Len(st) + 1] = f
        /\ \A i \in 1..Len(st) : t[i] = st[i]
    BY <2>1, AppendProperties
  <2> HIDE DEF t
  <2>3. \E i \in 1..Len(t) : t[i] = f
    <3>1. Len(t) \in 1..Len(t) /\ t[Len(t)] = f
      BY <1>1, <2>2
    <3>2. QED  BY <3>1
  <2>4. \A i \in 1..Len(st) : i \in 1..Len(t) /\ t[i] = st[i]
    BY <1>1, <2>2
  <2>5. NoteOf(st, f, t)
    BY <2>2, <2>3, <2>4 DEF NoteOf
  <2>6. QED  BY <2>5 DEF t
<1>5. CASE I # {}
  <2> DEFINE k == Least(I)
  <2>1. k \in 1..Len(st) /\ k # 0 /\ (st[k].id = f.id \/ st[k].addr = f.addr)
    <3>1. k \in I
      BY <1>3, <1>5
    <3>2. QED  BY <1>1, <3>1 DEF Matching
  <2>2. t = [st EXCEPT ![k] = f]
    <3> HIDE DEF I
    <3>1. QED  BY <1>2, <2>1
  <2> HIDE DEF k, t
  <2>3. /\ t \in Seq(Entries) /\ Len(t) = Len(st)
        /\ \A i \in 1..Len(st) : t[i] = IF i = k THEN f ELSE st[i]
    BY <2>1, <2>2, ExceptSeq
  <2>4. \E i \in 1..Len(t) : t[i] = f
    BY <2>1, <2>3
  <2>5. ASSUME NEW i \in 1..Len(st)
        PROVE  /\ i \in 1..Len(t)
               /\ t[i] = st[i] \/ (t[i] = f /\ (st[i].id = f.id \/ st[i].addr = f.addr))
    <3>1. CASE i = k
      BY <2>1, <2>3, <3>1
    <3>2. CASE i # k
      BY <2>3, <3>2
    <3>3. QED  BY <3>1, <3>2
  <2>6. NoteOf(st, f, t)
    BY <2>3, <2>4, <2>5 DEF NoteOf
  <2>7. QED  BY <2>6 DEF t
<1>6. QED  BY <1>4, <1>5

LEMMA NotedUnfolds ==
    ASSUME NEW st \in Seq(Entries), NEW fs \in Seq(Entries)
    PROVE  \E noted : NotedFrom(st, fs, noted) /\ Noted(st, fs) = noted[Len(fs)]
<1> DEFINE op == [n \in 1..Len(fs) |-> [s \in Seq(Entries) |-> Note(s, fs[n])]]
           m == Len(fs)
<1>1. m \in Nat
  BY LenProperties
<1>2. op \in Steps(Seq(Entries), m)
  <2>1. ASSUME NEW n \in 1..Len(fs), NEW s \in Seq(Entries)
        PROVE  Note(s, fs[n]) \in Seq(Entries)
    <3>1. fs[n] \in Entries
      BY ElementOfSeq
    <3>2. NoteOf(s, fs[n], Note(s, fs[n]))
      BY <3>1, NoteTyped
    <3>3. QED  BY <3>2 DEF NoteOf
  <2>2. QED  BY <2>1 DEF Steps
<1>3. PICK f : Iterates(Seq(Entries), st, op, m, f)
  <2> HIDE DEF op, m
  <2>1. QED  BY <1>1, <1>2, Recursion
<1>4. NotedFrom(st, fs, f)
  <2> DEFINE g == [n \in 0..Len(fs) |->
                    IF n = 0 THEN st
                    ELSE [s \in Seq(Entries) |-> Note(s, fs[n])][f[n - 1]]]
  <2>1. ASSUME NEW n \in 0..Len(fs)
        PROVE  f[n] = IF n = 0 THEN st
                      ELSE [s \in Seq(Entries) |-> Note(s, fs[n])][f[n - 1]]
    <3>1. CASE n = 0
      BY <1>3, <3>1 DEF Iterates
    <3>2. CASE n # 0
      <4>1. n \in 1..Len(fs)
        BY <1>1, <3>2
      <4>2. f[n] = op[n][f[n - 1]]
        BY <1>3, <4>1 DEF Iterates
      <4>3. op[n] = [s \in Seq(Entries) |-> Note(s, fs[n])]
        BY <4>1
      <4>4. QED  BY <3>2, <4>2, <4>3
    <3>3. QED  BY <3>1, <3>2
  <2>2. f = g
    BY <1>3, <2>1 DEF Iterates
  <2>3. QED  BY <2>2 DEF NotedFrom
<1>5. QED  BY <1>4, Zenon DEF Noted, NotedFrom

LEMMA NotedStep ==
    ASSUME NEW st, NEW fs, NEW noted, NotedFrom(st, fs, noted),
           NEW k \in 0..Len(fs)
    PROVE  noted[k] = IF k = 0 THEN st
                      ELSE [s \in Seq(Entries) |-> Note(s, fs[k])][noted[k - 1]]
<1> DEFINE g == [n \in 0..Len(fs) |->
                  IF n = 0 THEN st
                  ELSE [s \in Seq(Entries) |-> Note(s, fs[n])][noted[n - 1]]]
<1>1. noted = g
  BY Zenon DEF NotedFrom
<1>2. noted[k] = g[k]
  <2> HIDE DEF g
  <2>1. QED  BY <1>1
<1>3. QED  BY <1>2, Zenon

(* The devices found agree where each is; then the address of each is noted   *)
(* and not overwritten by those noted after it.                              *)
Coherent(fs) ==
    \A i, j \in 1..Len(fs) : fs[i].id = fs[j].id => fs[i].addr = fs[j].addr
Marked(st, fs, n) ==
    \A k \in 1..n : \E i \in 1..Len(st), g \in 1..n :
      st[i] = fs[g] /\ fs[g].addr = fs[k].addr

LEMMA NoteMarks ==
    ASSUME NEW fs \in Seq(Entries), Coherent(fs), NEW n \in Nat, n + 1 <= Len(fs),
           NEW st \in Seq(Entries), Marked(st, fs, n)
    PROVE  /\ Note(st, fs[n + 1]) \in Seq(Entries)
           /\ Marked(Note(st, fs[n + 1]), fs, n + 1)
<1> DEFINE f == fs[n + 1]
           t == Note(st, f)
<1>1. Len(fs) \in Nat /\ f \in Entries /\ n + 1 \in 1..Len(fs)
  BY LenProperties, ElementOfSeq
<1>2. NoteOf(st, f, t)
  BY <1>1, NoteTyped
<1> HIDE DEF t
<1>3. ASSUME NEW k \in 1..(n + 1)
      PROVE  \E i \in 1..Len(t), g \in 1..(n + 1) :
               t[i] = fs[g] /\ fs[g].addr = fs[k].addr
  <2>1. CASE k = n + 1
    BY <1>2, <2>1 DEF NoteOf
  <2>2. CASE k # n + 1
    <3>1. PICK i \in 1..Len(st), g \in 1..n : st[i] = fs[g] /\ fs[g].addr = fs[k].addr
      <4>1. k \in 1..n
        BY <2>2
      <4>2. QED  BY <4>1 DEF Marked
    <3>2. i \in 1..Len(t) /\ g \in 1..(n + 1) /\ g \in 1..Len(fs)
      BY <1>1, <1>2, <3>1 DEF NoteOf
    <3>3. CASE t[i] = st[i]
      BY <3>1, <3>2, <3>3
    <3>4. CASE t[i] = f /\ (st[i].id = f.id \/ st[i].addr = f.addr)
      <4>1. f.addr = fs[g].addr
        BY <1>1, <3>1, <3>2, <3>4 DEF Coherent
      <4>2. t[i] = fs[n + 1] /\ fs[n + 1].addr = fs[k].addr /\ n + 1 \in 1..(n + 1)
        BY <3>1, <3>4, <4>1
      <4>3. QED  BY <3>2, <4>2
    <3>5. QED  BY <1>2, <3>1, <3>3, <3>4 DEF NoteOf
  <2>3. QED  BY <2>1, <2>2
<1>4. t \in Seq(Entries) /\ Marked(t, fs, n + 1)
  BY <1>2, <1>3 DEF NoteOf, Marked
<1>5. QED  BY <1>4 DEF t

LEMMA NotedMarks ==
    ASSUME NEW st \in Seq(Entries), NEW fs \in Seq(Entries), Coherent(fs)
    PROVE  Noted(st, fs) \in Seq(Entries) /\ AddrsOf(fs) \subseteq AddrsOf(Noted(st, fs))
<1>1. PICK noted : NotedFrom(st, fs, noted) /\ Noted(st, fs) = noted[Len(fs)]
  BY NotedUnfolds
<1> DEFINE P == {n \in Nat : n <= Len(fs) =>
                   noted[n] \in Seq(Entries) /\ Marked(noted[n], fs, n)}
<1>2. Len(fs) \in Nat /\ DOMAIN fs = 1..Len(fs)
  BY LenProperties
<1>3. ASSUME NEW k \in 0..Len(fs)
      PROVE  noted[k] = IF k = 0 THEN st
                        ELSE [s \in Seq(Entries) |-> Note(s, fs[k])][noted[k - 1]]
  <2>1. NotedFrom(st, fs, noted)
    BY <1>1
  <2>2. QED  BY <2>1, NotedStep
<1>4. 0 \in P
  <2>1. 0 \in 0..Len(fs)
    BY <1>2
  <2>2. noted[0] = st
    BY <1>3, <2>1
  <2>3. QED  BY <2>2 DEF Marked
<1>5. ASSUME NEW n \in Nat, n \in P, n + 1 <= Len(fs)
      PROVE  noted[n + 1] \in Seq(Entries) /\ Marked(noted[n + 1], fs, n + 1)
  <2>1. noted[n] \in Seq(Entries) /\ Marked(noted[n], fs, n)
    BY <1>2, <1>5
  <2>2. noted[n + 1] = Note(noted[n], fs[n + 1])
    <3>1. n + 1 \in 0..Len(fs) /\ n + 1 # 0 /\ n + 1 - 1 = n
      BY <1>2, <1>5
    <3>2. PICK k \in 0..Len(fs) : k = n + 1 /\ k # 0 /\ k - 1 = n
      BY ONLY <3>1
    <3>3. noted[k] = IF k = 0 THEN st
                     ELSE [s \in Seq(Entries) |-> Note(s, fs[k])][noted[k - 1]]
      BY ONLY <1>3, <3>2
    <3>4. noted[k] = [s \in Seq(Entries) |-> Note(s, fs[k])][noted[n]]
      BY ONLY <3>2, <3>3
    <3>5. QED  BY <2>1, <3>2, <3>4
  <2>3. QED  BY <1>5, <2>1, <2>2, NoteMarks
<1>6. \A n \in Nat : n \in P
  <2>1. \A n \in Nat : n \in P => n + 1 \in P
    BY <1>5
  <2> HIDE DEF P
  <2>2. QED  BY <1>4, <2>1, Induction
<1> DEFINE t == noted[Len(fs)]
<1>7. t \in Seq(Entries) /\ Marked(t, fs, Len(fs))
  BY <1>2, <1>6
<1> HIDE DEF t, P
<1>8. AddrsOf(fs) \subseteq AddrsOf(t)
  <2>1. ASSUME NEW k \in 1..Len(fs)
        PROVE  fs[k].addr \in AddrsOf(t)
    <3>1. PICK i \in 1..Len(t) : t[i].addr = fs[k].addr
      BY <1>7 DEF Marked
    <3>2. t[i] \in ToSet(t)
      BY <1>7, LenProperties DEF ToSet
    <3>3. QED  BY <3>1, <3>2 DEF AddrsOf
  <2>2. QED  BY <1>2, <2>1 DEF AddrsOf, ToSet
<1>9. QED  BY <1>1, <1>7, <1>8 DEF t

(* Of the entries with one address the last stays: it has an entry for each,  *)
(* and no address twice.                                                     *)
LEMMA LastApart ==
    ASSUME NEW st \in Seq(Entries)
    PROVE  /\ LastOnly(st) \in Seq(Entries)
           /\ Apart(LastOnly(st)) /\ AddrsOf(LastOnly(st)) = AddrsOf(st)
<1> DEFINE I == {i \in 1..Len(st) :
                   \A j \in (i + 1)..Len(st) : st[j].addr # st[i].addr}
           t == LastOnly(st)
<1>1. Len(st) \in Nat /\ ToSet(st) = {st[i] : i \in 1..Len(st)}
  BY LenProperties DEF ToSet
<1>2. t = Kept(st, I) /\ I \subseteq 1..Len(st)
  BY DEF LastOnly
<1>3. ASSUME NEW i \in I, NEW j \in I, st[i].addr = st[j].addr
      PROVE  i = j
  BY <1>1, <1>3
<1>4. ASSUME NEW k \in 1..Len(st)
      PROVE  \E i \in I : st[i].addr = st[k].addr
  <2> DEFINE T == {n \in 0..Len(st) : n # Len(st) /\ st[Len(st) - n].addr = st[k].addr}
  <2>1. PICK n \in T : \A m \in T : n <= m
    <3>1. T \subseteq Nat
      BY <1>1
    <3>2. Len(st) - k \in T
      BY <1>1
    <3> HIDE DEF T
    <3>3. QED  BY <3>1, <3>2, LeastNat
  <2> DEFINE i == Len(st) - n
  <2>2. i \in 1..Len(st) /\ st[i].addr = st[k].addr
    BY <1>1, <2>1
  <2>3. ASSUME NEW j \in (i + 1)..Len(st), st[j].addr = st[i].addr
        PROVE  FALSE
    <3>1. Len(st) - j \in T /\ Len(st) - j < n
      <4>1. j \in Nat /\ j >= 1 /\ j <= Len(st) /\ n \in Nat
        BY <1>1, <2>1, <2>2, <2>3
      <4>2. Len(st) - j \in 0..Len(st) /\ Len(st) - j # Len(st) /\ Len(st) - (Len(st) - j) = j
        BY <1>1, <4>1
      <4>3. Len(st) - j < n
        BY <1>1, <2>3, <4>1
      <4>4. QED  BY <2>2, <2>3, <4>2, <4>3
    <3>2. n <= Len(st) - j
      BY <2>1, <3>1
    <3>3. n \in Nat /\ Len(st) - j \in Nat
      BY <1>1, <2>1, <3>1
    <3> HIDE DEF T, i
    <3>4. QED  BY <3>1, <3>2, <3>3
  <2>4. i \in I
    BY <2>2, <2>3
  <2>5. QED  BY <2>2, <2>4
<1> HIDE DEF I
<1>5. t \in Seq(Entries) /\ Picked(st, I, Len(st), t)
  BY <1>2, KeptPicks
<1>6. PICK m : Picks(st, I, Len(st), t, m)
  BY <1>5 DEF Picked
<1> HIDE DEF t
<1>7. Len(t) \in Nat /\ ToSet(t) = {t[i] : i \in 1..Len(t)}
  BY <1>5, LenProperties DEF ToSet
<1>8. \A i \in 1..Len(t) : m[i] \in I /\ m[i] \in 1..Len(st) /\ t[i] = st[m[i]]
  BY <1>2, <1>6 DEF Picks
<1>9. Apart(t)
  <2>1. ASSUME NEW i \in 1..Len(t), NEW j \in 1..Len(t), t[i].addr = t[j].addr
        PROVE  i = j
    <3>1. m[i] = m[j] /\ m[i] \in Nat
      <4>1. m[i] = m[j]
        BY <1>3, <1>8, <2>1
      <4>2. m[i] \in 1..Len(st)
        BY <1>8
      <4>3. QED  BY <1>1, <4>1, <4>2
    <3>2. \A k, l \in 1..Len(t) : k < l => m[k] < m[l]
      BY <1>6 DEF Picks
    <3>3. ~ (i < j)
      BY <3>1, <3>2
    <3>4. ~ (j < i)
      BY <3>1, <3>2
    <3>5. QED  BY <1>7, <3>3, <3>4
  <2>2. QED  BY <2>1 DEF Apart
<1>10. AddrsOf(t) \subseteq AddrsOf(st)
  BY <1>1, <1>7, <1>8 DEF AddrsOf
<1>11. AddrsOf(st) \subseteq AddrsOf(t)
  <2>1. ASSUME NEW k \in 1..Len(st)
        PROVE  st[k].addr \in AddrsOf(t)
    <3>1. PICK i \in I : st[i].addr = st[k].addr
      BY <1>4
    <3>2. PICK j \in 1..Len(t) : m[j] = i
      BY <1>2, <1>6 DEF Picks
    <3>3. t[j] \in ToSet(t) /\ t[j].addr = st[k].addr
      BY <1>7, <1>8, <3>1, <3>2
    <3>4. QED  BY <3>3 DEF AddrsOf
  <2>2. QED  BY <1>1, <2>1 DEF AddrsOf
<1>12. t \in Seq(Entries) /\ Apart(t) /\ AddrsOf(t) = AddrsOf(st)
  BY <1>5, <1>9, <1>10, <1>11
<1>13. QED  BY <1>12 DEF t

(* The invariant: s_status is a list of entries, and what a scan has found    *)
(* and not merged yet agrees where each device is, whatever has moved since. *)
StatusInv ==
    /\ BookInv
    /\ status \in Seq(Entries)
    /\ web.at # "idle" /\ web.op = "add" => web.id \in Addrs
    /\ Coherent(found)

LEMMA BookStatus ==
    ASSUME NEW ds \in Lists
    PROVE  Book(ds) \in Seq(Entries)
<1>1. ds \in Seq(Devices) /\ Len(ds) \in Nat
  BY LenProperties DEF Lists
<1>2. ASSUME NEW i \in 1..Len(ds)
      PROVE  Unseen(ds[i].id, ds[i].addr) \in Entries
  <2>1. ds[i] \in Devices
    BY <1>1, ElementOfSeq
  <2>2. QED  BY <2>1 DEF Devices, Unseen, Entries
<1>3. Book(ds) \in [1..Len(ds) -> Entries]
  BY <1>2 DEF Book
<1>4. QED  BY <1>1, <1>3, SeqDef

LEMMA NothingFound == Coherent(<<>>)
BY EmptySeq DEF Coherent

LEMMA QueryCoherent ==
    ASSUME BookInv, Query
    PROVE  Coherent(found')
<1>1. found' \in Seq(Genuine)
  BY QueryFinds
<1>2. ASSUME NEW i \in 1..Len(found'), NEW j \in 1..Len(found'),
             found'[i].id = found'[j].id
      PROVE  found'[i].addr = found'[j].addr
  <2>1. found'[i] \in Genuine /\ found'[j] \in Genuine
    BY <1>1, ElementOfSeq
  <2>2. QED  BY <1>2, <2>1, BookAssumption DEF Genuine
<1>3. QED  BY <1>2 DEF Coherent

LEMMA RegisteredTyped ==
    ASSUME status \in Seq(Entries), web.id \in Addrs
    PROVE  Registered \in Seq(Entries)
<1> DEFINE I == {k \in 1..Len(status) : status[k].id = web.id}
           e == Unseen(web.id, web.id)
<1>1. Registered = IF Least(I) = 0 THEN Append(status, e)
                   ELSE [status EXCEPT ![Least(I)] = e]
  BY DEF Registered, FirstIndex, Least
<1>2. e \in Entries
  BY DEF Unseen, Entries, Ids
<1>3. I \subseteq 1..Len(status) /\ (I # {} => Least(I) \in I)
  <2>1. I \subseteq 1..Len(status) /\ I \subseteq Nat
    OBVIOUS
  <2> HIDE DEF I
  <2>2. QED  BY <2>1, LeastIn
<1> HIDE DEF I, e
<1>4. CASE I = {}
  BY <1>1, <1>2, <1>4, AppendProperties DEF Least
<1>5. CASE I # {}
  <2> DEFINE k == Least(I)
  <2>1. k \in 1..Len(status) /\ k # 0
    <3>1. k \in I /\ I \subseteq 1..Len(status) /\ Len(status) \in Nat
      BY <1>3, <1>5, LenProperties
    <3> HIDE DEF k
    <3>2. k \in 1..Len(status)
      BY <3>1, Zenon
    <3>3. QED  BY <3>1, <3>2
  <2>2. Registered = [status EXCEPT ![k] = e]
    BY <1>1, <2>1
  <2> HIDE DEF k
  <2>3. QED  BY <1>2, <2>1, <2>2, ExceptSeq
<1>6. QED  BY <1>4, <1>5

LEMMA MergeStatus ==
    ASSUME StatusInv, Merge
    PROVE  /\ status' \in Seq(Entries) /\ Apart(status')
           /\ AddrsOf(found) \subseteq AddrsOf(status')
<1>1. status' = LastOnly(Noted(status, found))
  BY DEF Merge
<1>2. /\ Noted(status, found) \in Seq(Entries)
      /\ AddrsOf(found) \subseteq AddrsOf(Noted(status, found))
  BY NotedMarks DEF StatusInv, BookInv
<1>3. QED  BY <1>1, <1>2, LastApart

LEMMA InitStatus == Init => StatusInv
<1>1. SUFFICES ASSUME Init
               PROVE  StatusInv
  OBVIOUS
<1>2. BookInv
  BY <1>1, InitInv
<1>3. status = Book(devs) /\ found = <<>> /\ web = NoRequest
  BY <1>1 DEF Init
<1>4. status \in Seq(Entries)
  BY <1>2, <1>3, BookStatus DEF BookInv
<1>5. web.at = "idle"
  BY <1>3 DEF NoRequest
<1>6. QED  BY <1>2, <1>3, <1>4, <1>5, NothingFound DEF StatusInv

(* The requests leave the status to wled_discovery_register_manual, which the *)
(* web server's task calls when it has saved.                                *)
LEMMA UserStatus ==
    ASSUME StatusInv, User
    PROVE  StatusInv'
<1>1. PICK op, i, ds, bs :
        Request(op, i, ds, bs) /\ (op = "add" => i \in Addrs)
  <2>1. ASSUME NEW a \in Addrs, Add(a)
        PROVE  \E ds : Request("add", a, ds, bind) /\ a \in Addrs
    BY <2>1 DEF Add
  <2>2. (\E a \in Addrs : Add(a))
          => \E i, ds, bs : Request("add", i, ds, bs) /\ i \in Addrs
    BY <2>1
  <2>3. (\E i, a \in Ids \cup {NULL} : Delete(i, a))
          => \E i, ds, bs : Request("delete", i, ds, bs) /\ "delete" # "add"
    BY DEF Delete
  <2>4. (\E ds \in Sent \cup {devs}, bs \in Bindings : Apply(ds, bs))
          => \E i, ds, bs : Request("apply", i, ds, bs) /\ "apply" # "add"
    BY DEF Apply
  <2>5. Reset => \E i, ds, bs : Request("reset", i, ds, bs) /\ "reset" # "add"
    BY DEF Reset
  <2>6. QED  BY <2>2, <2>3, <2>4, <2>5, Zenon DEF User
<1>2. BookInv'
  BY UserInv DEF StatusInv
<1>3. UNCHANGED <<status, found>> /\ web'.op = op /\ web'.id = i
  BY <1>1 DEF Request
<1>4. QED  BY <1>1, <1>2, <1>3 DEF StatusInv, Coherent

LEMMA BootStatus ==
    ASSUME BookInv', Boot
    PROVE  StatusInv'
<1>1. devs' \in Lists
  BY DEF BookInv
<1>2. status' = Book(devs') /\ found' = <<>> /\ web'.at = "idle"
  BY DEF Boot, NoRequest
<1>3. status' \in Seq(Entries)
  BY <1>1, <1>2, BookStatus
<1>4. Coherent(found')
  BY <1>2, NothingFound
<1>5. QED  BY <1>2, <1>3, <1>4 DEF StatusInv, Coherent

LEMMA SaveStatus ==
    ASSUME StatusInv, Save
    PROVE  StatusInv'
<1>1. BookInv'
  BY SaveInv DEF StatusInv
<1>2. ASSUME WebFail
      PROVE  StatusInv'
  <2>1. UNCHANGED <<status, found>> /\ web'.at = "idle"
    BY <1>2 DEF WebFail, NoRequest
  <2>2. QED  BY <1>1, <2>1 DEF StatusInv, Coherent
<1>3. ASSUME WebWrite
      PROVE  StatusInv'
  <2>1. UNCHANGED <<status, found>> /\ web.at = "write"
    BY <1>3 DEF WebWrite
  <2>2. web'.op = web.op /\ web'.id = web.id
    <3>1. web \in [at : {"write", "finish"}, op : Ops, id : Addrs \cup {NULL}]
      BY <2>1 DEF StatusInv, BookInv, NoRequest
    <3>2. QED  BY <1>3, <3>1 DEF WebWrite
  <2>3. QED  BY <1>1, <2>1, <2>2 DEF StatusInv, Coherent
<1>4. ASSUME WebFinish
      PROVE  StatusInv'
  <2>1. CASE Boot
    BY <1>1, <2>1, BootStatus
  <2>2. CASE ~ Boot
    <3>1. web' = NoRequest /\ found' = found
      BY <1>4, <2>2 DEF WebFinish
    <3>2. status' \in Seq(Entries)
      <4>1. CASE web.op = "add" /\ status' = Registered
        BY <1>4, <4>1, RegisteredTyped DEF WebFinish, StatusInv
      <4>2. CASE status' = status
        BY <4>2 DEF StatusInv
      <4>3. QED  BY <1>4, <2>2, <4>1, <4>2 DEF WebFinish
    <3>3. web'.at = "idle"
      BY <3>1 DEF NoRequest
    <3>4. QED  BY <1>1, <3>1, <3>2, <3>3 DEF StatusInv, Coherent
  <2>3. QED  BY <2>1, <2>2
<1>5. QED  BY <1>2, <1>3, <1>4 DEF Save

LEMMA NextStatus ==
    ASSUME StatusInv, [Next]_vars
    PROVE  StatusInv'
<1>1. BookInv'
  BY NextInv DEF StatusInv
<1>2. ASSUME Query
      PROVE  StatusInv'
  <2>1. UNCHANGED <<status, web>>
    BY <1>2 DEF Query
  <2>2. Coherent(found')
    BY <1>2, QueryCoherent DEF StatusInv
  <2>3. QED  BY <1>1, <2>1, <2>2 DEF StatusInv, Coherent
<1>3. ASSUME Merge
      PROVE  StatusInv'
  <2>1. found' = <<>> /\ web' = web /\ status' \in Seq(Entries)
    BY <1>3, MergeStatus DEF Merge
  <2>2. Coherent(found')
    BY <2>1, NothingFound
  <2>3. QED  BY <1>1, <2>1, <2>2 DEF StatusInv, Coherent
<1>4. ASSUME ScanWrite \/ Move \/ UNCHANGED vars
      PROVE  StatusInv'
  <2>1. UNCHANGED <<status, web, found>>
    BY <1>4 DEF ScanWrite, Move, vars
  <2>2. QED  BY <1>1, <2>1 DEF StatusInv, Coherent
<1>5. ASSUME Restart
      PROVE  StatusInv'
  BY <1>1, <1>5, BootStatus DEF Restart
<1>6. QED
  BY <1>2, <1>3, <1>4, <1>5, UserStatus, SaveStatus DEF Next, Scan

(* What discovery shows after a merge has each address once, and each address *)
(* where the scan has found a device: none is lost because devices have       *)
(* exchanged addresses, were found twice, or were registered meanwhile.      *)
MergeShows == Merge => Apart(status') /\ AddrsOf(found) \subseteq AddrsOf(status')

(* So it is after every merge, whatever led to it.                           *)
THEOREM MergeShowsFound == Spec => [][MergeShows]_vars
<1>1. Spec => []StatusInv
  BY InitStatus, NextStatus, PTL DEF Spec
<1>2. StatusInv /\ [Next]_vars => [MergeShows]_vars
  BY MergeStatus DEF MergeShows
<1>3. QED  BY <1>1, <1>2, PTL DEF Spec
=============================================================================
