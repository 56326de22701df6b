--------------------------- MODULE SoftSerialProofs ---------------------------
(***************************************************************************)
(* Proofs about SoftSerial, for every length of a byte and of a bit, every *)
(* latency of the interrupt below half a bit, every size of the buffers    *)
(* and all answers.                                                        *)
(***************************************************************************)
EXTENDS SoftSerial, SequenceTheorems, WellFoundedInduction, TLAPS

-----------------------------------------------------------------------------
(* Decoding a sequence of changes                                          *)

(* A set of naturals has a first element.                                  *)
LEMMA First ==
  ASSUME NEW K \in SUBSET Nat, K # {}
  PROVE  \E x \in K : \A y \in K : x <= y
<1>1. PICK x \in K : \A y \in K : ~(<<y, x>> \in OpToRel(<, Nat))
  BY NatLessThanWellFounded, WFMin, Zenon
<1>2. ASSUME NEW y \in K
      PROVE  x <= y
  <2>1. x \in Nat /\ y \in Nat
    OBVIOUS
  <2>2. ~(y < x)
    BY <1>1, <2>1 DEF OpToRel
  <2> QED BY <2>1, <2>2
<1> QED BY <1>2

(* What holds of 0 and of a successor holds of all.                        *)
LEMMA Steps ==
  ASSUME NEW n \in Nat, NEW T \in SUBSET (0 .. n), 0 \in T,
         \A k \in 1 .. n : k - 1 \in T => k \in T
  PROVE  n \in T
<1> SUFFICES ASSUME n \notin T PROVE FALSE
  OBVIOUS
<1> DEFINE K == (0 .. n) \ T
<1>1. K \in SUBSET Nat /\ K # {}
  OBVIOUS
<1> HIDE DEF K
<1>2. PICK x \in K : \A y \in K : x <= y
  BY <1>1, First
<1>3. x \in 1 .. n /\ x \notin T
  BY <1>2 DEF K
<1>4. x - 1 \in T
  <2>1. x - 1 \in 0 .. n /\ ~(x <= x - 1)
    BY <1>3
  <2> QED BY <1>2, <2>1 DEF K
<1> QED BY <1>3, <1>4

(* The states that DecodeAll goes through.                                 *)
IsRun(f, r, s) == f = [k \in 0 .. Len(s) |-> IF k = 0 THEN r ELSE Decode(f[k - 1], s[k])]

(* There is one such function, so it is the one that DecodeAll defines.    *)
LEMMA RunExists ==
  ASSUME NEW r, NEW S, NEW s \in Seq(S)
  PROVE  \E f : IsRun(f, r, s)
<1> DEFINE P(f, n) == f = [k \in 0 .. n |-> IF k = 0 THEN r ELSE Decode(f[k - 1], s[k])]
           T == {n \in 0 .. Len(s) : \E f : P(f, n)}
<1>1. Len(s) \in Nat
  BY LenProperties
<1>2. 0 \in T
  <2> DEFINE f == [k \in 0 .. 0 |-> r]
  <2>1. P(f, 0)
    OBVIOUS
  <2> HIDE DEF f
  <2> QED BY <1>1, <2>1
<1>3. ASSUME NEW n \in 1 .. Len(s), n - 1 \in T
      PROVE  n \in T
  <2>1. PICK f : P(f, n - 1)
    BY <1>3
  <2> DEFINE g == [k \in 0 .. n |-> IF k = n THEN Decode(f[n - 1], s[n]) ELSE f[k]]
  <2>2. n - 1 \in Nat /\ n \in Nat /\ n # 0
    BY <1>1
  <2>3. ASSUME NEW k \in 0 .. n
        PROVE  g[k] = IF k = 0 THEN r ELSE Decode(g[k - 1], s[k])
    <3>1. CASE k = n
      <4>1. k - 1 \in 0 .. n /\ k - 1 # n /\ k # 0
        BY <2>2, <3>1
      <4>2. g[k - 1] = f[k - 1]
        BY <4>1
      <4>3. g[k] = Decode(f[n - 1], s[n])
        BY <3>1
      <4> QED BY <3>1, <4>1, <4>2, <4>3
    <3>2. CASE k = 0
      BY <2>1, <2>2, <3>2
    <3>3. CASE k \notin {0, n}
      <4>1. k - 1 \in 0 .. n /\ k - 1 # n /\ k \in 0 .. n - 1
        BY <2>2, <3>3
      <4>2. g[k - 1] = f[k - 1] /\ g[k] = f[k]
        BY <3>3, <4>1
      <4> HIDE DEF g
      <4>3. f[k] = IF k = 0 THEN r ELSE Decode(f[k - 1], s[k])
        BY <2>1, <4>1
      <4> QED BY <4>2, <4>3
    <3> QED BY <3>1, <3>2, <3>3
  <2>4. P(g, n)
    BY <2>3
  <2> HIDE DEF g
  <2> QED BY <2>4
<1>4. Len(s) \in T
  <2> HIDE DEF T
  <2>1. T \in SUBSET (0 .. Len(s))
    BY DEF T
  <2> QED BY <1>1, <1>2, <1>3, <2>1, Steps
<1> QED BY <1>4 DEF IsRun

(* DecodeAll is the end of its run.                                        *)
LEMMA RunEnds ==
  ASSUME NEW r, NEW S, NEW s \in Seq(S)
  PROVE  \E f : IsRun(f, r, s) /\ DecodeAll(r, s) = f[Len(s)]
<1> DEFINE g == CHOOSE f : IsRun(f, r, s)
<1>1. IsRun(g, r, s)
  <2>1. \E f : IsRun(f, r, s)
    BY RunExists
  <2> QED BY <2>1
<1>2. DecodeAll(r, s) = g[Len(s)]
  BY Zenon DEF DecodeAll, IsRun
<1> QED BY <1>1, <1>2

(* The steps of a run.                                                     *)
LEMMA RunSteps ==
  ASSUME NEW f, NEW r, NEW S, NEW s \in Seq(S), IsRun(f, r, s)
  PROVE  /\ Len(s) \in Nat /\ f[0] = r
         /\ \A k \in 1 .. Len(s) : f[k] = Decode(f[k - 1], s[k]) /\ k - 1 \in 0 .. Len(s)
<1>1. Len(s) \in Nat
  BY LenProperties
<1>2. \A k \in 0 .. Len(s) : f[k] = IF k = 0 THEN r ELSE Decode(f[k - 1], s[k])
  BY DEF IsRun
<1>3. 0 \in 0 .. Len(s) /\ \A k \in 1 .. Len(s) : k \in 0 .. Len(s) /\ k # 0 /\ k - 1 \in 0 .. Len(s)
  BY <1>1
<1> HIDE DEF IsRun
<1> QED BY <1>1, <1>2, <1>3

LEMMA DecodeNone ==
  ASSUME NEW r
  PROVE  DecodeAll(r, << >>) = r
<1>1. << >> \in Seq({}) /\ Len(<< >>) = 0
  OBVIOUS
<1>2. PICK f : IsRun(f, r, << >>) /\ DecodeAll(r, << >>) = f[Len(<< >>)]
  BY <1>1, RunEnds
<1> QED BY <1>1, <1>2, RunSteps

(* Two runs that start alike or meet after one change end alike.           *)
LEMMA RunsMeet ==
  ASSUME NEW q, NEW r, NEW S, NEW s \in Seq(S), s # << >>, Decode(q, s[1]) = Decode(r, s[1])
  PROVE  DecodeAll(q, s) = DecodeAll(r, s)
<1>1. PICK f : IsRun(f, q, s) /\ DecodeAll(q, s) = f[Len(s)]
  BY RunEnds
<1>2. PICK g : IsRun(g, r, s) /\ DecodeAll(r, s) = g[Len(s)]
  BY RunEnds
<1>3. /\ Len(s) \in Nat \ {0} /\ f[0] = q /\ g[0] = r
      /\ \A k \in 1 .. Len(s) : f[k] = Decode(f[k - 1], s[k]) /\ g[k] = Decode(g[k - 1], s[k])
  BY <1>1, <1>2, RunSteps, EmptySeq
<1> DEFINE T == {k \in 0 .. Len(s) - 1 : f[k + 1] = g[k + 1]}
<1>4. 0 \in T
  <2>1. f[1] = Decode(f[0], s[1]) /\ g[1] = Decode(g[0], s[1])
    <3>1. 1 \in 1 .. Len(s) /\ 1 - 1 = 0
      BY <1>3
    <3> QED BY <1>3, <3>1
  <2> QED BY <1>3, <2>1
<1>5. ASSUME NEW k \in 1 .. Len(s) - 1, k - 1 \in T
      PROVE  k \in T
  <2>1. k + 1 \in 1 .. Len(s) /\ k + 1 - 1 = k /\ k - 1 + 1 = k /\ k \in 0 .. Len(s) - 1
    BY <1>3
  <2>2. f[k] = g[k]
    BY <1>5, <2>1
  <2> QED BY <1>3, <2>1, <2>2
<1>6. Len(s) - 1 \in T
  <2>1. T \in SUBSET (0 .. Len(s) - 1) /\ Len(s) - 1 \in Nat
    BY <1>3
  <2> HIDE DEF T
  <2> QED BY <1>4, <1>5, <2>1, Steps
<1>7. Len(s) - 1 + 1 = Len(s)
  BY <1>3
<1> QED BY <1>1, <1>2, <1>6, <1>7

(* One more change.                                                        *)
LEMMA DecodeOneMore ==
  ASSUME NEW r, NEW S, NEW s \in Seq(S), NEW c \in S
  PROVE  DecodeAll(r, Append(s, c)) = Decode(DecodeAll(r, s), c)
<1> DEFINE t == Append(s, c)
<1>0. /\ t \in Seq(S) /\ Len(t) = Len(s) + 1 /\ Len(s) \in Nat
      /\ \A k \in 1 .. Len(s) : t[k] = s[k]
      /\ t[Len(s) + 1] = c
  BY AppendProperties, LenProperties
<1> HIDE DEF t
<1>1. PICK f : IsRun(f, r, s) /\ DecodeAll(r, s) = f[Len(s)]
  BY RunEnds
<1>2. PICK g : IsRun(g, r, t) /\ DecodeAll(r, t) = g[Len(t)]
  BY <1>0, RunEnds
<1>3. /\ f[0] = r
      /\ \A k \in 1 .. Len(s) : f[k] = Decode(f[k - 1], s[k])
  BY <1>1, RunSteps
<1>4. /\ g[0] = r
      /\ \A k \in 1 .. Len(t) : g[k] = Decode(g[k - 1], t[k])
  BY <1>0, <1>2, RunSteps
<1> DEFINE T == {k \in 0 .. Len(s) : f[k] = g[k]}
<1>5. 0 \in T
  BY <1>0, <1>3, <1>4
<1>6. ASSUME NEW k \in 1 .. Len(s), k - 1 \in T
      PROVE  k \in T
  <2>1. k \in 1 .. Len(t) /\ t[k] = s[k] /\ k \in 0 .. Len(s)
    BY <1>0
  <2> QED BY <1>3, <1>4, <1>6, <2>1
<1>7. Len(s) \in T
  <2>1. T \in SUBSET (0 .. Len(s))
    OBVIOUS
  <2> HIDE DEF T
  <2> QED BY <1>0, <1>5, <1>6, <2>1, Steps
<1>8. g[Len(t)] = Decode(g[Len(s)], c)
  <2>1. Len(t) \in 1 .. Len(t) /\ Len(t) - 1 = Len(s)
    BY <1>0
  <2> QED BY <1>0, <1>4, <2>1
<1> QED BY <1>1, <1>2, <1>7, <1>8 DEF t

-----------------------------------------------------------------------------
(* Counting bits                                                           *)

LEMMA Divided ==
  ASSUME NEW a \in Nat, NEW b \in Nat \ {0}
  PROVE  /\ a \div b \in Nat /\ a % b \in Nat /\ a % b < b
         /\ a = (a \div b) * b + (a % b)
OBVIOUS

(* A multiple of b that is above another is above it by b at least.        *)
LEMMA Multiples ==
  ASSUME NEW b \in Nat \ {0}, NEW m \in Int, NEW n \in Int, m < n
  PROVE  m * b + b <= n * b
<1>1. n * b = m * b + (n - m) * b
  OBVIOUS
<1>2. (n - m) * b = (n - m - 1) * b + b
  OBVIOUS
<1>3. n - m - 1 \in Nat
  OBVIOUS
<1>4. (n - m - 1) * b >= 0
  BY <1>3
<1>5. m * b \in Int /\ n * b \in Int /\ (n - m) * b \in Int /\ (n - m - 1) * b \in Int
  OBVIOUS
<1> QED BY <1>1, <1>2, <1>4, <1>5

(* A quotient and a remainder are the only ones.                           *)
LEMMA DividedOnce ==
  ASSUME NEW b \in Nat \ {0}, NEW q \in Nat, NEW r \in Nat, r < b
  PROVE  (q * b + r) \div b = q /\ (q * b + r) % b = r
<1> DEFINE a == q * b + r
           p == a \div b
           t == a % b
<1>0. a \in Nat /\ q * b \in Nat /\ a = q * b + r
  OBVIOUS
<1> HIDE DEF a
<1>1. p \in Nat /\ t \in Nat /\ t < b /\ a = p * b + t /\ p * b \in Nat
  <2>1. p \in Nat /\ t \in Nat /\ t < b /\ a = p * b + t
    BY <1>0, Divided
  <2> HIDE DEF p, t
  <2> QED BY <2>1
<1> HIDE DEF p, t
<1>2. ~(p < q)
  <2> SUFFICES ASSUME p < q PROVE FALSE
    OBVIOUS
  <2>1. p * b + b <= q * b
    BY <1>1, Multiples
  <2> QED BY <1>0, <1>1, <2>1
<1>3. ~(q < p)
  <2> SUFFICES ASSUME q < p PROVE FALSE
    OBVIOUS
  <2>1. q * b + b <= p * b
    BY <1>1, Multiples
  <2> QED BY <1>0, <1>1, <2>1
<1>4. p = q
  BY <1>1, <1>2, <1>3
<1>5. t = r
  BY <1>0, <1>1, <1>4
<1> QED BY <1>4, <1>5 DEF p, t, a

(* The constants, as the proofs use them.                                  *)
LEMMA Sizes ==
  /\ DataBits \in Nat \ {0} /\ BitCycles \in Nat \ {0} /\ MaxLatency \in Nat
  /\ 2 * MaxLatency < BitCycles /\ MaxGap \in Nat /\ Wrap \in Nat
  /\ BufCapacity \in Nat \ {0} /\ IsrCapacity \in Nat /\ Timeout \in Nat
  /\ Frame \in Nat /\ Frame = (DataBits + 2) * BitCycles /\ MaxGap + Frame < (Wrap - 1) * BitCycles
BY SoftSerialAssumption DEF Frame

(* A byte and the pause behind it are fewer bits than wrap the count.      *)
LEMMA WrapIsLong == DataBits + 2 < Wrap - 1
<1> SUFFICES ASSUME ~(DataBits + 2 < Wrap - 1) PROVE FALSE
  OBVIOUS
<1>1. (Wrap - 1) * BitCycles <= (DataBits + 2) * BitCycles
  <2>1. CASE Wrap - 1 = DataBits + 2
    BY <2>1, Sizes
  <2>2. CASE Wrap - 1 < DataBits + 2
    <3>1. (Wrap - 1) * BitCycles + BitCycles <= (DataBits + 2) * BitCycles
      BY <2>2, Sizes, Multiples
    <3>2. (Wrap - 1) * BitCycles \in Int /\ (DataBits + 2) * BitCycles \in Int /\ BitCycles \in Nat
      BY Sizes
    <3> QED BY <3>1, <3>2
  <2> QED BY <2>1, <2>2, Sizes
<1>2. (Wrap - 1) * BitCycles \in Int /\ (DataBits + 2) * BitCycles \in Int
  BY Sizes
<1> QED BY <1>1, <1>2, Sizes

LEMMA Unwrapped ==
  ASSUME NEW x \in Nat, x < Wrap
  PROVE  x % Wrap = x
<1>1. Wrap \in Nat \ {0}
  BY Sizes
<1>2. (0 * Wrap + x) % Wrap = x
  BY <1>1, DividedOnce
<1>3. 0 * Wrap + x = x
  BY <1>1
<1> QED BY <1>2, <1>3

(* BitCount is a count of bits.                                            *)
LEMMA BitCountType ==
  ASSUME NEW d \in Int
  PROVE  BitCount(d) \in Nat
<1>1. CASE d < 0
  BY <1>1 DEF BitCount
<1>2. CASE ~(d < 0)
  <2> DEFINE x == d \div BitCycles + (IF d % BitCycles > BitCycles \div 2 THEN 1 ELSE 0)
  <2>1. x \in Nat
    <3>1. d \in Nat /\ BitCycles \in Nat \ {0}
      BY <1>2, Sizes
    <3>2. d \div BitCycles \in Nat
      BY <3>1, Divided
    <3> QED BY <3>2
  <2>2. BitCount(d) = x % Wrap
    BY <1>2 DEF BitCount
  <2> HIDE DEF x
  <2>3. Wrap \in Nat \ {0}
    BY Sizes, WrapIsLong
  <2> QED BY <2>1, <2>2, <2>3, Divided
<1> QED BY <1>1, <1>2

(* n bits, read at most a latency early or late, count as n.               *)
LEMMA BitCountOf ==
  ASSUME NEW n \in Nat, n < Wrap, NEW e \in Int, 0 - MaxLatency <= e, e <= MaxLatency
  PROVE  BitCount(n * BitCycles + e) = n
<1> DEFINE d == n * BitCycles + e
           h == BitCycles \div 2
<1>0. /\ BitCycles \in Nat \ {0} /\ MaxLatency \in Nat /\ 2 * MaxLatency < BitCycles
      /\ n * BitCycles \in Nat
  BY Sizes
<1>1. h \in Nat /\ h * 2 <= BitCycles /\ BitCycles <= h * 2 + 1
  <2>1. h \in Nat /\ BitCycles % 2 \in Nat /\ BitCycles % 2 < 2
        /\ BitCycles = h * 2 + (BitCycles % 2)
    BY <1>0, Divided
  <2> HIDE DEF h
  <2> QED BY <2>1, <1>0
<1> HIDE DEF h
<1>2. d = n * BitCycles + e /\ d \in Int
  BY <1>0
<1>3. CASE e >= 0
  <2>1. d \div BitCycles = n /\ d % BitCycles = e
    BY <1>0, <1>3, DividedOnce
  <2>2. ~(d < 0)
    BY <1>0, <1>2, <1>3
  <2>3. ~(e > h)
    BY <1>0, <1>1
  <2> HIDE DEF d
  <2>4. BitCount(d) = (n + 0) % Wrap
    BY <2>1, <2>2, <2>3 DEF BitCount, h
  <2>5. n + 0 = n
    OBVIOUS
  <2> QED BY <2>4, <2>5, Unwrapped DEF d
<1>4. CASE e < 0 /\ n = 0
  <2>1. d < 0
    BY <1>0, <1>4
  <2> QED BY <1>4, <2>1 DEF BitCount
<1>5. CASE e < 0 /\ n # 0
  <2>1. BitCycles + e \in Nat /\ BitCycles + e < BitCycles /\ n - 1 \in Nat
        /\ BitCycles + e > h
    BY <1>0, <1>1, <1>5
  <2>2. d = (n - 1) * BitCycles + (BitCycles + e)
    BY <1>0
  <2>3. d \div BitCycles = n - 1 /\ d % BitCycles = BitCycles + e
    <3> DEFINE p == n - 1
               x == BitCycles + e
    <3>1. p \in Nat /\ x \in Nat /\ x < BitCycles /\ d = p * BitCycles + x
      BY <2>1, <2>2
    <3> HIDE DEF p, x, d
    <3>2. d \div BitCycles = p /\ d % BitCycles = x
      BY <1>0, <3>1, DividedOnce
    <3> QED BY <3>2 DEF p, x
  <2>4. ~(d < 0)
    <3>1. (n - 1) * BitCycles \in Nat
      BY <1>0, <2>1
    <3> QED BY <2>1, <2>2, <3>1
  <2> HIDE DEF d
  <2>5. BitCount(d) = (n - 1 + 1) % Wrap
    BY <2>1, <2>3, <2>4 DEF BitCount, h
  <2>6. n - 1 + 1 = n
    OBVIOUS
  <2> QED BY <2>5, <2>6, Unwrapped DEF d
<1> QED BY <1>3, <1>4, <1>5

(* A longer time counts as so many bits at least, as long as no count      *)
(* wraps.                                                                  *)
LEMMA BitCountAtLeast ==
  ASSUME NEW n \in Nat, NEW d \in Int, n * BitCycles - MaxLatency <= d, d <= (Wrap - 1) * BitCycles
  PROVE  BitCount(d) >= n
<1> DEFINE h == BitCycles \div 2
           q == d \div BitCycles
           r == d % BitCycles
<1>0. /\ BitCycles \in Nat \ {0} /\ MaxLatency \in Nat /\ 2 * MaxLatency < BitCycles
      /\ Wrap \in Nat /\ Wrap > 2
      /\ n * BitCycles \in Nat /\ (Wrap - 1) * BitCycles \in Int
  BY Sizes, WrapIsLong
<1>1. h \in Nat /\ h * 2 <= BitCycles /\ BitCycles <= h * 2 + 1
  <2>1. h \in Nat /\ BitCycles % 2 \in Nat /\ BitCycles % 2 < 2
        /\ BitCycles = h * 2 + (BitCycles % 2)
    BY <1>0, Divided
  <2> HIDE DEF h
  <2> QED BY <2>1, <1>0
<1> HIDE DEF h
<1>2. CASE d < 0
  <2>1. n = 0
    <3> SUFFICES ASSUME n > 0 PROVE FALSE
      OBVIOUS
    <3>1. 0 * BitCycles + BitCycles <= n * BitCycles
      BY <1>0, Multiples
    <3>2. 0 * BitCycles = 0
      BY <1>0
    <3> QED BY <1>0, <1>2, <3>1, <3>2
  <2> QED BY <1>2, <2>1 DEF BitCount
<1>3. CASE ~(d < 0)
  <2>1. q \in Nat /\ r \in Nat /\ r < BitCycles /\ d = q * BitCycles + r
    BY <1>0, <1>3, Divided
  <2>2. BitCount(d) = (q + (IF r > h THEN 1 ELSE 0)) % Wrap
    BY <1>3 DEF BitCount, h
  <2> HIDE DEF q, r
  <2>3. q * BitCycles \in Nat
    BY <1>0, <2>1
  <2>4. q <= Wrap - 1 /\ (q = Wrap - 1 => r = 0)
    <3>1. CASE q > Wrap - 1
      <4>1. (Wrap - 1) * BitCycles + BitCycles <= q * BitCycles
        BY <1>0, <2>1, <3>1, Multiples
      <4> QED BY <1>0, <2>1, <2>3, <4>1
    <3>2. CASE q = Wrap - 1
      BY <1>0, <2>1, <2>3, <3>2
    <3> QED BY <1>0, <2>1, <3>1, <3>2
  <2>5. q >= n \/ (q = n - 1 /\ r > h)
    <3>1. CASE q + 1 < n
      <4>1. (q + 1) * BitCycles + BitCycles <= n * BitCycles
        BY <1>0, <2>1, <3>1, Multiples
      <4>2. (q + 1) * BitCycles = q * BitCycles + BitCycles
        BY <1>0, <2>1
      <4> QED BY <1>0, <2>1, <2>3, <4>1, <4>2
    <3>2. CASE q + 1 = n
      <4>1. n * BitCycles = q * BitCycles + BitCycles
        BY <1>0, <2>1, <3>2
      <4> QED BY <1>0, <1>1, <2>1, <2>3, <3>2, <4>1
    <3> QED BY <2>1, <3>1, <3>2
  <2> DEFINE x == q + (IF r > h THEN 1 ELSE 0)
  <2>6. x \in Nat /\ x < Wrap /\ x >= n
    BY <1>0, <1>1, <2>1, <2>4, <2>5
  <2>7. BitCount(d) = x % Wrap
    BY <2>2
  <2> HIDE DEF x
  <2> QED BY <2>6, <2>7, Unwrapped
<1> QED BY <1>2, <1>3

-----------------------------------------------------------------------------
(* One change                                                              *)

(* What the decoder is between two changes.                                *)
RxRecord == [bit : -1 .. DataBits, byte : Seq({0, 1}), cycle : Int, level : {0, 1},
             buffer : Seq(Bytes), refused : BOOLEAN]

RxOK(r) ==
  /\ r \in RxRecord /\ Len(r.buffer) <= BufCapacity
  /\ r.bit < DataBits => Len(r.byte) = r.bit + 1

ChangeRecord == [cycle : Int, level : {0, 1}]

(* n bits of one level                                                     *)
Bits(level, n) == [i \in 1 .. n |-> level]

(* t is what a push of b into q's buffer leaves.                           *)
Pushed(q, t, b) ==
  IF Len(q.buffer) < BufCapacity THEN t.buffer = Append(q.buffer, b) /\ t.refused = q.refused
  ELSE t.buffer = q.buffer /\ t.refused = TRUE

Untouched(q, t) == t.buffer = q.buffer /\ t.refused = q.refused

LEMMA MoreBits ==
  ASSUME NEW byte \in Seq({0, 1}), NEW level \in {0, 1}, NEW n \in Nat
  PROVE  /\ byte \o Bits(level, n) \in Seq({0, 1})
         /\ Len(byte \o Bits(level, n)) = Len(byte) + n
         /\ \A i \in 1 .. Len(byte) + n :
              (byte \o Bits(level, n))[i] = IF i <= Len(byte) THEN byte[i] ELSE level
<1> DEFINE b == Bits(level, n)
<1>1. b \in Seq({0, 1}) /\ Len(b) = n /\ \A i \in 1 .. n : b[i] = level
  BY DEF Bits
<1> HIDE DEF b
<1>2. /\ byte \o b \in Seq({0, 1}) /\ Len(byte \o b) = Len(byte) + Len(b)
      /\ \A i \in 1 .. Len(byte) + Len(b) :
           (byte \o b)[i] = IF i <= Len(byte) THEN byte[i] ELSE b[i - Len(byte)]
  BY <1>1, ConcatProperties
<1>3. Len(byte) \in Nat
  OBVIOUS
<1>4. ASSUME NEW i \in 1 .. Len(byte) + n
      PROVE  (byte \o b)[i] = IF i <= Len(byte) THEN byte[i] ELSE level
  BY <1>1, <1>2, <1>3
<1> QED BY <1>1, <1>2, <1>4 DEF b

LEMMA PushIs ==
  ASSUME NEW r, RxOK(r), NEW b \in Bytes
  PROVE  LET t == Push(r, b) IN
         /\ t \in RxRecord /\ Len(t.buffer) <= BufCapacity
         /\ t.bit = r.bit /\ t.byte = r.byte /\ t.cycle = r.cycle /\ t.level = r.level
         /\ Pushed(r, t, b)
<1>1. /\ r \in RxRecord /\ Len(r.buffer) <= BufCapacity /\ r.buffer \in Seq(Bytes)
      /\ BufCapacity \in Nat
  BY Sizes DEF RxOK, RxRecord
<1>2. CASE Len(r.buffer) < BufCapacity
  <2> DEFINE a == Append(r.buffer, b)
             t == [r EXCEPT !.buffer = a]
  <2>1. a \in Seq(Bytes) /\ Len(a) = Len(r.buffer) + 1 /\ Len(r.buffer) \in Nat
    BY <1>1, AppendProperties, LenProperties
  <2>2. Push(r, b) = t
    BY <1>2 DEF Push
  <2> HIDE DEF a
  <2>3. /\ t \in RxRecord /\ t.buffer = a /\ t.refused = r.refused
        /\ t.bit = r.bit /\ t.byte = r.byte /\ t.cycle = r.cycle /\ t.level = r.level
    BY <1>1, <2>1 DEF RxRecord
  <2> HIDE DEF t
  <2>4. Len(t.buffer) <= BufCapacity
    BY <1>1, <1>2, <2>1, <2>3
  <2>5. Pushed(r, t, b)
    BY <1>2, <2>3 DEF Pushed, a
  <2> QED BY <2>2, <2>3, <2>4, <2>5
<1>3. CASE ~(Len(r.buffer) < BufCapacity)
  <2> DEFINE t == [r EXCEPT !.refused = TRUE]
  <2>1. Push(r, b) = t
    BY <1>3 DEF Push
  <2>2. /\ t \in RxRecord /\ t.buffer = r.buffer /\ t.refused = TRUE
        /\ t.bit = r.bit /\ t.byte = r.byte /\ t.cycle = r.cycle /\ t.level = r.level
    BY <1>1 DEF RxRecord
  <2> HIDE DEF t
  <2>3. Pushed(r, t, b)
    BY <1>3, <2>2 DEF Pushed
  <2> QED BY <1>1, <2>1, <2>2, <2>3
<1> QED BY <1>2, <1>3

LEMMA StopBitIs ==
  ASSUME NEW r, RxOK(r), NEW level \in {0, 1}, r.byte \in Bytes
  PROVE  LET t == StopBit(r, level) IN
         /\ RxOK(t) /\ t.bit = DataBits /\ t.byte = << >>
         /\ t.cycle = r.cycle /\ t.level = r.level
         /\ level = 1 => Pushed(r, t, r.byte)
         /\ level = 0 => Untouched(r, t)
<1> DEFINE p == IF level = 1 THEN Push(r, r.byte) ELSE r
           t == [p EXCEPT !.bit = DataBits, !.byte = << >>]
<1>1. /\ p \in RxRecord /\ Len(p.buffer) <= BufCapacity
      /\ p.cycle = r.cycle /\ p.level = r.level
      /\ level = 1 => Pushed(r, p, r.byte)
      /\ level = 0 => Untouched(r, p)
  <2>1. CASE level = 1
    BY <2>1, PushIs
  <2>2. CASE level = 0
    BY <2>2 DEF RxOK, Untouched
  <2> QED BY <2>1, <2>2
<1> HIDE DEF p
<1>2. /\ t \in RxRecord /\ t.bit = DataBits /\ t.byte = << >> /\ t.buffer = p.buffer
      /\ t.refused = p.refused /\ t.cycle = p.cycle /\ t.level = p.level
  <2>1. DataBits \in -1 .. DataBits /\ << >> \in Seq({0, 1})
    BY Sizes
  <2> QED BY <1>1, <2>1 DEF RxRecord
<1>3. StopBit(r, level) = t
  BY DEF StopBit, p
<1> HIDE DEF t
<1>4. RxOK(t)
  BY <1>1, <1>2, Sizes DEF RxOK
<1> QED BY <1>1, <1>2, <1>3, <1>4 DEF Pushed, Untouched

(* A sequence of bits that is as long as a byte is a byte.                 *)
LEMMA BitsAreByte ==
  ASSUME NEW byte \in Seq({0, 1}), Len(byte) = DataBits
  PROVE  byte \in Bytes
BY LenProperties DEF Bytes

(* n data bits of a level take r to t: they do not fill its byte, or they  *)
(* fill it and are followed by its stop bit.                               *)
Carried(r, t, level, n) ==
  LET d == DataBits - 1 - r.bit
  IN  /\ RxOK(t) /\ t.cycle = r.cycle /\ t.level = r.level
      /\ n <= d => /\ t.bit = r.bit + n /\ t.byte = r.byte \o Bits(level, n)
                   /\ Untouched(r, t)
      /\ n > d => /\ t.bit = DataBits /\ t.byte = << >> /\ d \in Nat
                  /\ r.byte \o Bits(level, d) \in Bytes
                  /\ level = 1 => Pushed(r, t, r.byte \o Bits(level, d))
                  /\ level = 0 => Untouched(r, t)

LEMMA DataThenStopIs ==
  ASSUME NEW r, RxOK(r), r.bit < DataBits, NEW level \in {0, 1}, NEW n \in Nat
  PROVE  Carried(r, DataThenStop(r, level, n), level, n)
<1> DEFINE f == DataBits - 1 - r.bit
           d == Shortest(n, f)
           byte == r.byte \o Bits(level, d)
           x == r.bit + d
           s == [r EXCEPT !.bit = x, !.byte = byte]
<1>1. /\ r \in RxRecord /\ r.bit \in -1 .. DataBits - 1 /\ r.byte \in Seq({0, 1})
      /\ Len(r.byte) = r.bit + 1 /\ DataBits \in Nat \ {0}
  <2>1. r \in RxRecord /\ Len(r.byte) = r.bit + 1
    BY DEF RxOK
  <2>2. r.bit \in -1 .. DataBits /\ r.byte \in Seq({0, 1})
    BY <2>1 DEF RxRecord
  <2>3. DataBits \in Nat \ {0}
    BY Sizes
  <2>4. r.bit \in -1 .. DataBits - 1
    BY <2>2, <2>3
  <2> QED BY <2>1, <2>2, <2>3, <2>4
<1>2. /\ f \in Nat /\ d \in Nat /\ d <= f /\ (n <= f => d = n) /\ (n > f => d = f)
      /\ x \in -1 .. DataBits - 1 /\ x = r.bit + d /\ (n > f <=> x = DataBits - 1 /\ n > d)
  BY <1>1 DEF Shortest
<1> HIDE DEF f, d, x
<1>3. byte \in Seq({0, 1}) /\ Len(byte) = x + 1
  <2>1. byte \in Seq({0, 1}) /\ Len(byte) = Len(r.byte) + d
    BY <1>1, <1>2, MoreBits
  <2> HIDE DEF byte
  <2> QED BY <1>1, <1>2, <2>1
<1>4. DataThenStop(r, level, n) = IF s.bit = DataBits - 1 /\ n > d THEN StopBit(s, level) ELSE s
  BY DEF DataThenStop, Bits, f, d, x
<1> HIDE DEF byte
<1>5. /\ s \in RxRecord /\ s.bit = x /\ s.byte = byte /\ s.cycle = r.cycle
      /\ s.level = r.level /\ s.buffer = r.buffer /\ s.refused = r.refused
  <2>1. x \in -1 .. DataBits
    BY <1>1, <1>2
  <2> QED BY <1>1, <1>3, <2>1 DEF RxRecord
<1> HIDE DEF s
<1>6. RxOK(s)
  BY <1>3, <1>5 DEF RxOK
<1>7. CASE n <= f
  <2>1. ~(s.bit = DataBits - 1 /\ n > d)
    BY <1>2, <1>5, <1>7
  <2>2. DataThenStop(r, level, n) = s
    BY <1>4, <2>1
  <2>3. d = n /\ ~(n > f)
    BY <1>2, <1>7
  <2>4. s.bit = r.bit + n /\ s.byte = r.byte \o Bits(level, n)
    BY <1>2, <1>5, <2>3 DEF byte
  <2> HIDE DEF f
  <2> QED BY <1>5, <1>6, <2>2, <2>3, <2>4 DEF Untouched, f, Carried
<1>8. CASE n > f
  <2>1. s.bit = DataBits - 1 /\ n > d /\ d = f /\ ~(n <= f)
    BY <1>1, <1>2, <1>5, <1>8
  <2>2. DataThenStop(r, level, n) = StopBit(s, level)
    BY <1>4, <2>1
  <2>3. s.byte \in Bytes
    <3>1. Len(byte) = DataBits
      BY <1>1, <1>3, <1>5, <2>1
    <3> QED BY <1>3, <1>5, <3>1, BitsAreByte
  <2> DEFINE t == StopBit(s, level)
  <2>4. /\ RxOK(t) /\ t.bit = DataBits /\ t.byte = << >>
        /\ t.cycle = s.cycle /\ t.level = s.level
        /\ level = 1 => Pushed(s, t, s.byte)
        /\ level = 0 => Untouched(s, t)
    BY <1>6, <2>3, StopBitIs
  <2> HIDE DEF t
  <2>5. /\ level = 1 => Pushed(r, t, byte)
        /\ level = 0 => Untouched(r, t)
    BY <1>5, <2>4 DEF Pushed, Untouched
  <2>6. DataThenStop(r, level, n) = t
    BY <2>2 DEF t
  <2>7. byte = r.byte \o Bits(level, f) /\ byte \in Bytes
    BY <2>1, <2>3, <1>5 DEF byte
  <2> QED BY <1>2, <1>5, <2>1, <2>4, <2>5, <2>6, <2>7 DEF f, Carried
<1> QED BY <1>1, <1>2, <1>7, <1>8

(* A change between two bytes, or no change: the time and the level.       *)
LEMMA DecodeIdle ==
  ASSUME NEW r, RxOK(r), NEW c \in ChangeRecord,
         BitCount(c.cycle - r.cycle) = 0 \/ (r.bit = DataBits /\ r.level = 1)
  PROVE  LET t == Decode(r, c) IN
         /\ RxOK(t) /\ t.cycle = c.cycle /\ t.level = c.level
         /\ t.bit = r.bit /\ t.byte = r.byte /\ Untouched(r, t)
<1> DEFINE t == [r EXCEPT !.cycle = c.cycle, !.level = c.level]
<1>1. r \in RxRecord /\ c.cycle \in Int /\ c.level \in {0, 1} /\ DataBits \in Nat
  BY Sizes DEF RxOK, ChangeRecord
<1>2. Decode(r, c) = t
  <2>1. BitCount(c.cycle - r.cycle) = 0 \/ (r.bit >= DataBits /\ r.level = 1)
    BY <1>1
  <2> QED BY <2>1 DEF Decode
<1>3. /\ t \in RxRecord /\ t.cycle = c.cycle /\ t.level = c.level
      /\ t.bit = r.bit /\ t.byte = r.byte /\ t.buffer = r.buffer /\ t.refused = r.refused
  BY <1>1 DEF RxRecord
<1> HIDE DEF t
<1> QED BY <1>2, <1>3 DEF RxOK, Untouched

(* A change within a frame: n bits of the level since the change before.   *)
(* The first of them is the start bit if that was its beginning.           *)
LEMMA DecodeBits ==
  ASSUME NEW r, RxOK(r), NEW c \in ChangeRecord, NEW n \in Nat \ {0},
         BitCount(c.cycle - r.cycle) = n, r.bit < DataBits \/ r.level = 0
  PROVE  LET t == Decode(r, c)
             starts == r.bit = DataBits
             d == IF starts THEN DataBits ELSE DataBits - 1 - r.bit
             m == IF starts THEN n - 1 ELSE n
             before == IF starts THEN << >> ELSE r.byte
         IN  /\ RxOK(t) /\ t.cycle = c.cycle /\ t.level = c.level
             /\ m <= d => /\ t.bit = (IF starts THEN -1 ELSE r.bit) + m
                          /\ t.byte = before \o Bits(r.level, m)
                          /\ Untouched(r, t)
             /\ m > d => /\ t.bit = DataBits /\ t.byte = << >>
                         /\ before \o Bits(r.level, d) \in Bytes
                         /\ r.level = 1 => Pushed(r, t, before \o Bits(r.level, d))
                         /\ r.level = 0 => Untouched(r, t)
<1> DEFINE s == [r EXCEPT !.cycle = c.cycle, !.level = c.level]
           q == [s EXCEPT !.bit = -1, !.byte = << >>]
<1>1. /\ r \in RxRecord /\ c.cycle \in Int /\ c.level \in {0, 1} /\ DataBits \in Nat \ {0}
      /\ r.bit \in -1 .. DataBits /\ r.level \in {0, 1}
  BY Sizes DEF RxOK, RxRecord, ChangeRecord
<1>2. /\ s \in RxRecord /\ s.cycle = c.cycle /\ s.level = c.level
      /\ s.bit = r.bit /\ s.byte = r.byte /\ s.buffer = r.buffer /\ s.refused = r.refused
  BY <1>1 DEF RxRecord
<1>3. /\ q \in RxRecord /\ q.cycle = c.cycle /\ q.level = c.level
      /\ q.bit = -1 /\ q.byte = << >> /\ q.buffer = r.buffer /\ q.refused = r.refused
  <2>1. -1 \in -1 .. DataBits /\ << >> \in Seq({0, 1})
    BY <1>1
  <2> QED BY <1>1, <2>1 DEF RxRecord
<1>4. Decode(r, c) = IF r.bit >= DataBits THEN DataThenStop(q, 0, n - 1)
                     ELSE DataThenStop(s, r.level, n)
  <2>1. ~(n = 0 \/ (r.bit >= DataBits /\ r.level = 1))
    BY <1>1
  <2> QED BY <2>1 DEF Decode
<1> HIDE DEF s, q
<1>5. RxOK(s) /\ RxOK(q)
  <2>1. Len(<< >>) = 0 /\ -1 + 1 = 0
    OBVIOUS
  <2> QED BY <1>2, <1>3, <2>1 DEF RxOK
<1>6. CASE r.bit = DataBits
  <2>1. r.level = 0 /\ r.bit >= DataBits /\ n - 1 \in Nat /\ DataBits - 1 - q.bit = DataBits
        /\ q.bit < DataBits
    BY <1>1, <1>3, <1>6
  <2> DEFINE k == n - 1
             t == DataThenStop(q, 0, k)
  <2>2. Decode(r, c) = t
    BY <1>4, <2>1
  <2>3. /\ RxOK(t) /\ t.cycle = q.cycle /\ t.level = q.level
        /\ n - 1 <= DataBits => /\ t.bit = q.bit + (n - 1) /\ t.byte = q.byte \o Bits(0, n - 1)
                                /\ Untouched(q, t)
        /\ n - 1 > DataBits => /\ t.bit = DataBits /\ t.byte = << >>
                               /\ q.byte \o Bits(0, DataBits) \in Bytes
                               /\ Untouched(q, t)
    <3>1. PICK low : low = 0
      OBVIOUS
    <3>2. low \in {0, 1} /\ k \in Nat
      BY <2>1, <3>1
    <3>3. Carried(q, DataThenStop(q, low, k), low, k)
      <4> HIDE DEF k
      <4> QED BY <1>5, <2>1, <3>2, DataThenStopIs
    <3>4. Carried(q, t, 0, k)
      BY <3>1, <3>3
    <3> HIDE DEF t
    <3> QED BY <2>1, <3>4 DEF Carried, k
  <2> HIDE DEF t
  <2> QED BY <1>3, <1>6, <2>1, <2>2, <2>3 DEF Untouched
<1>7. CASE r.bit # DataBits
  <2>1. ~(r.bit >= DataBits) /\ s.bit < DataBits
    BY <1>1, <1>2, <1>7
  <2> DEFINE v == r.level
             t == DataThenStop(s, v, n)
             d == DataBits - 1 - r.bit
  <2>2. Decode(r, c) = t
    BY <1>4, <2>1
  <2>3. /\ RxOK(t) /\ t.cycle = s.cycle /\ t.level = s.level
        /\ n <= d => /\ t.bit = r.bit + n /\ t.byte = r.byte \o Bits(r.level, n)
                     /\ Untouched(s, t)
        /\ n > d => /\ t.bit = DataBits /\ t.byte = << >>
                    /\ r.byte \o Bits(r.level, d) \in Bytes
                    /\ r.level = 1 => Pushed(s, t, r.byte \o Bits(r.level, d))
                    /\ r.level = 0 => Untouched(s, t)
    <3>1. v \in {0, 1} /\ n \in Nat
      BY <1>1
    <3>2. Carried(s, t, v, n)
      <4> HIDE DEF v
      <4> QED BY <1>5, <2>1, <3>1, DataThenStopIs
    <3>3. DataBits - 1 - s.bit = d /\ s.bit = r.bit /\ s.byte = r.byte
      BY <1>2
    <3> HIDE DEF t, d
    <3> QED BY <3>2, <3>3 DEF Carried
  <2> HIDE DEF t
  <2> QED BY <1>2, <1>7, <2>2, <2>3 DEF Untouched, Pushed
<1> QED BY <1>6, <1>7

(* Two such records are equal when their fields are.                       *)
LEMMA SameRx ==
  ASSUME NEW q \in RxRecord, NEW r \in RxRecord,
         q.bit = r.bit, q.byte = r.byte, q.cycle = r.cycle, q.level = r.level,
         q.buffer = r.buffer, q.refused = r.refused
  PROVE  q = r
BY DEF RxRecord

LEMMA DecodeType ==
  ASSUME NEW r, RxOK(r), NEW c \in ChangeRecord
  PROVE  RxOK(Decode(r, c)) /\ Decode(r, c).cycle = c.cycle /\ Decode(r, c).level = c.level
<1> DEFINE n == BitCount(c.cycle - r.cycle)
<1>1. n \in Nat /\ r.bit \in -1 .. DataBits /\ r.level \in {0, 1} /\ DataBits \in Nat
  <2>1. c.cycle - r.cycle \in Int /\ r.bit \in -1 .. DataBits /\ r.level \in {0, 1}
    BY DEF ChangeRecord, RxOK, RxRecord
  <2> QED BY <2>1, BitCountType, Sizes
<1>2. CASE n = 0 \/ (r.bit = DataBits /\ r.level = 1)
  BY <1>2, DecodeIdle
<1>3. CASE n # 0 /\ (r.bit < DataBits \/ r.level = 0)
  <2>1. n \in Nat \ {0}
    BY <1>1, <1>3
  <2> HIDE DEF n
  <2>2. BitCount(c.cycle - r.cycle) = n
    BY DEF n
  <2> QED BY <1>3, <2>1, <2>2, DecodeBits
<1> QED BY <1>1, <1>2, <1>3

(* A byte made up to its end.                                              *)
LEMMA CompleteIs ==
  ASSUME NEW r, RxOK(r), r.bit < DataBits
  PROVE  LET t == Complete(r)
             d == DataBits - 1 - r.bit
         IN  /\ RxOK(t) /\ t.cycle = Expected(r) /\ t.level = 1
             /\ t.bit = DataBits /\ t.byte = << >> /\ d \in Nat
             /\ r.byte \o Bits(r.level, d) \in Bytes
             /\ r.level = 1 => Pushed(r, t, r.byte \o Bits(r.level, d))
             /\ r.level = 0 => Untouched(r, t)
<1> DEFINE d == DataBits - 1 - r.bit
           n == DataBits - r.bit
           c == [cycle |-> Expected(r), level |-> 1]
           t == Decode(r, c)
<1>1. /\ r.bit \in -1 .. DataBits /\ r.cycle \in Int /\ r.level \in {0, 1}
      /\ DataBits \in Nat \ {0} /\ BitCycles \in Nat /\ MaxLatency \in Nat
  BY Sizes DEF RxOK, RxRecord
<1>2. n \in Nat \ {0} /\ n < Wrap /\ n > d /\ d \in Nat
  BY <1>1, WrapIsLong, Sizes
<1>3. n * BitCycles \in Int /\ c.cycle = r.cycle + n * BitCycles /\ c.level = 1
  BY <1>1, <1>2 DEF Expected
<1>4. c \in ChangeRecord
  <2>1. Expected(r) \in Int
    BY <1>1, <1>3 DEF Expected
  <2> QED BY <2>1 DEF ChangeRecord
<1>5. Complete(r) = t
  BY DEF Complete
<1> HIDE DEF c, n, d
<1>6. BitCount(c.cycle - r.cycle) = n
  <2>1. BitCount(n * BitCycles + 0) = n
    BY <1>1, <1>2, BitCountOf
  <2>2. c.cycle - r.cycle = n * BitCycles + 0
    BY <1>1, <1>3
  <2> QED BY <2>1, <2>2
<1> HIDE DEF t
<1>7. r.bit # DataBits
  BY <1>1
<1>8. /\ RxOK(t) /\ t.cycle = c.cycle /\ t.level = c.level
      /\ t.bit = DataBits /\ t.byte = << >>
      /\ r.byte \o Bits(r.level, DataBits - 1 - r.bit) \in Bytes
      /\ r.level = 1 => Pushed(r, t, r.byte \o Bits(r.level, DataBits - 1 - r.bit))
      /\ r.level = 0 => Untouched(r, t)
  <2>1. n > DataBits - 1 - r.bit
    BY <1>2 DEF d
  <2> QED BY <1>2, <1>4, <1>6, <1>7, <2>1, DecodeBits DEF t
<1> QED BY <1>2, <1>5, <1>8 DEF c, d

(* A change that comes when the byte is over finds it complete, also if it *)
(* was made up before.                                                     *)
LEMMA CompleteFirst ==
  ASSUME NEW r, RxOK(r), r.bit < DataBits, r.level = 1, NEW c \in ChangeRecord,
         BitCount(c.cycle - r.cycle) >= DataBits - r.bit
  PROVE  /\ Decode(Complete(r), c) = Decode(r, c)
         /\ Decode(r, c).bit = DataBits
         /\ Pushed(r, Decode(r, c), r.byte \o Bits(1, DataBits - 1 - r.bit))
<1> DEFINE n == BitCount(c.cycle - r.cycle)
           b == r.byte \o Bits(1, DataBits - 1 - r.bit)
           u == Complete(r)
           t == Decode(r, c)
           v == Decode(u, c)
<1>1. /\ r.bit \in -1 .. DataBits /\ r.bit # DataBits /\ DataBits \in Nat \ {0}
      /\ n \in Nat \ {0} /\ n > DataBits - 1 - r.bit
  <2>1. c.cycle - r.cycle \in Int /\ r.bit \in -1 .. DataBits
    BY DEF ChangeRecord, RxOK, RxRecord
  <2>2. n \in Nat
    BY <2>1, BitCountType
  <2> HIDE DEF n
  <2>3. n >= DataBits - r.bit
    BY DEF n
  <2> QED BY <2>1, <2>2, <2>3, Sizes
<1>2. /\ RxOK(u) /\ u.level = 1 /\ u.bit = DataBits /\ u.byte = << >>
      /\ Pushed(r, u, b)
  BY CompleteIs
<1> HIDE DEF u
<1>3. /\ RxOK(v) /\ v.cycle = c.cycle /\ v.level = c.level
      /\ v.bit = u.bit /\ v.byte = u.byte /\ Untouched(u, v)
  BY <1>2, DecodeIdle
<1> HIDE DEF v
<1>4. /\ RxOK(t) /\ t.cycle = c.cycle /\ t.level = c.level
      /\ t.bit = DataBits /\ t.byte = << >> /\ Pushed(r, t, b)
  <2> HIDE DEF n
  <2>1. BitCount(c.cycle - r.cycle) = n
    BY DEF n
  <2> QED BY <1>1, <2>1, DecodeBits
<1> HIDE DEF t, b
<1>5. t.buffer = v.buffer /\ t.refused = v.refused
  BY <1>2, <1>3, <1>4 DEF Pushed, Untouched
<1>6. t = v
  <2>1. t \in RxRecord /\ v \in RxRecord
    BY <1>3, <1>4 DEF RxOK
  <2> QED BY <1>2, <1>3, <1>4, <1>5, <2>1, SameRx
<1> QED BY <1>4, <1>6 DEF t, v, u, b

(* The type of what decoding leaves.                                       *)
LEMMA DecodeAllType ==
  ASSUME NEW r, RxOK(r), NEW s \in Seq(ChangeRecord)
  PROVE  RxOK(DecodeAll(r, s))
<1>1. PICK f : IsRun(f, r, s) /\ DecodeAll(r, s) = f[Len(s)]
  BY RunEnds
<1>2. /\ Len(s) \in Nat /\ f[0] = r
      /\ \A k \in 1 .. Len(s) : f[k] = Decode(f[k - 1], s[k])
  BY <1>1, RunSteps
<1> DEFINE T == {k \in 0 .. Len(s) : RxOK(f[k])}
<1>3. 0 \in T
  BY <1>2
<1>4. ASSUME NEW k \in 1 .. Len(s), k - 1 \in T
      PROVE  k \in T
  <2>1. s[k] \in ChangeRecord /\ k \in 0 .. Len(s)
    BY <1>2, ElementOfSeq
  <2>2. RxOK(Decode(f[k - 1], s[k]))
    BY <1>4, <2>1, DecodeType
  <2> QED BY <1>2, <2>1, <2>2
<1>5. Len(s) \in T
  <2>1. T \in SUBSET (0 .. Len(s))
    OBVIOUS
  <2> HIDE DEF T
  <2> QED BY <1>2, <1>3, <1>4, <2>1, Steps
<1> QED BY <1>1, <1>5

-----------------------------------------------------------------------------
(* The line                                                                *)

(* The level of a frame: the start bit, the data bits, the stop bit.       *)
Bit(b, i) == IF i = 0 THEN 0 ELSE IF i <= DataBits THEN b[i] ELSE 1

LEMMA BitType ==
  ASSUME NEW b \in Bytes, NEW i \in 0 .. DataBits + 1
  PROVE  Bit(b, i) \in {0, 1}
<1>1. DataBits \in Nat
  BY Sizes
<1>2. i = 0 \/ i \in 1 .. DataBits \/ ~(i <= DataBits)
  BY <1>1
<1> QED BY <1>2 DEF Bit, Bytes

(* Where a time lies in its frame.                                         *)
LEMMA BitAt ==
  ASSUME NEW t \in 0 .. Frame - 1
  PROVE  \E k \in 0 .. DataBits + 1 :
           /\ k * BitCycles \in Nat /\ k * BitCycles <= t /\ t < k * BitCycles + BitCycles
           /\ t \div BitCycles = k
<1> DEFINE k == t \div BitCycles
           r == t % BitCycles
<1>1. /\ DataBits \in Nat /\ BitCycles \in Nat \ {0} /\ Frame \in Nat
      /\ Frame = (DataBits + 2) * BitCycles
  BY Sizes
<1>2. k \in Nat /\ r \in Nat /\ r < BitCycles /\ t = k * BitCycles + r
  <2>1. t \in Nat
    BY <1>1
  <2> QED BY <1>1, <2>1, Divided
<1>3. k * BitCycles \in Nat
  <2> HIDE DEF k
  <2> QED BY <1>1, <1>2
<1>4. k <= DataBits + 1
  <2> HIDE DEF k, r
  <2> SUFFICES ASSUME k > DataBits + 1 PROVE FALSE
    BY <1>1, <1>2
  <2>1. CASE k = DataBits + 2
    BY <1>1, <1>2, <1>3, <2>1
  <2>2. CASE k > DataBits + 2
    <3>1. (DataBits + 2) * BitCycles + BitCycles <= k * BitCycles
      BY <1>1, <1>2, <2>2, Multiples
    <3> QED BY <1>1, <1>2, <1>3, <3>1
  <2> QED BY <1>1, <1>2, <2>1, <2>2
<1>5. k \in 0 .. DataBits + 1 /\ k * BitCycles <= t /\ t < k * BitCycles + BitCycles
  <2> HIDE DEF k, r
  <2> QED BY <1>1, <1>2, <1>3, <1>4
<1> QED BY <1>3, <1>5

(* A time is in one bit only.                                              *)
LEMMA BitOnce ==
  ASSUME NEW t \in Int, NEW j \in Int, NEW k \in Int,
         j * BitCycles <= t, t < j * BitCycles + BitCycles,
         k * BitCycles <= t, t < k * BitCycles + BitCycles
  PROVE  j = k
<1>1. BitCycles \in Nat \ {0} /\ j * BitCycles \in Int /\ k * BitCycles \in Int
  BY Sizes
<1>2. ~(j < k)
  <2> SUFFICES ASSUME j < k PROVE FALSE
    OBVIOUS
  <2>1. j * BitCycles + BitCycles <= k * BitCycles
    BY <1>1, Multiples
  <2> QED BY <1>1, <2>1
<1>3. ~(k < j)
  <2> SUFFICES ASSUME k < j PROVE FALSE
    OBVIOUS
  <2>1. k * BitCycles + BitCycles <= j * BitCycles
    BY <1>1, Multiples
  <2> QED BY <1>1, <2>1
<1> QED BY <1>2, <1>3

LEMMA LevelIs ==
  ASSUME NEW b \in Bytes, NEW t \in 0 .. Frame - 1, NEW k \in 0 .. DataBits + 1,
         k * BitCycles <= t, t < k * BitCycles + BitCycles
  PROVE  Level(b, t) = Bit(b, k)
<1>1. PICK m \in 0 .. DataBits + 1 :
           /\ m * BitCycles <= t /\ t < m * BitCycles + BitCycles /\ t \div BitCycles = m
  BY BitAt
<1>2. /\ DataBits \in Nat \ {0} /\ BitCycles \in Nat \ {0} /\ t \in Nat
      /\ k * BitCycles \in Int /\ m * BitCycles \in Int /\ (DataBits + 1) * BitCycles \in Int
      /\ 1 * BitCycles = BitCycles /\ 0 * BitCycles = 0
  BY Sizes
<1>3. m = k
  <2>1. t \in Int /\ m \in Int /\ k \in Int
    BY <1>2
  <2> QED BY <1>1, <2>1, BitOnce
<1>4. CASE k = 0
  <2>1. t < BitCycles
    BY <1>2, <1>4
  <2> QED BY <1>4, <2>1 DEF Level, Bit
<1>5. CASE k \in 1 .. DataBits
  <2>1. 1 * BitCycles <= k * BitCycles
    <3>1. CASE k = 1
      BY <1>2, <3>1
    <3>2. CASE 1 < k
      <4>1. 1 * BitCycles + BitCycles <= k * BitCycles
        BY <1>2, <3>2, Multiples
      <4> QED BY <1>2, <4>1
    <3> QED BY <1>5, <3>1, <3>2
  <2>2. k * BitCycles + BitCycles <= (DataBits + 1) * BitCycles
    <3>1. k < DataBits + 1 /\ k \in Int /\ DataBits + 1 \in Int
      BY <1>2, <1>5
    <3> QED BY <1>2, <3>1, Multiples
  <2>3. ~(t < BitCycles) /\ t < (DataBits + 1) * BitCycles
    BY <1>2, <2>1, <2>2
  <2>4. k # 0 /\ k <= DataBits
    BY <1>2, <1>5
  <2> QED BY <1>1, <1>3, <2>3, <2>4 DEF Level, Bit
<1>6. CASE k = DataBits + 1
  <2>1. 1 * BitCycles + BitCycles <= (DataBits + 1) * BitCycles
    <3>1. 1 < DataBits + 1 /\ DataBits + 1 \in Int
      BY <1>2
    <3> QED BY <1>2, <3>1, Multiples
  <2>2. ~(t < BitCycles) /\ ~(t < (DataBits + 1) * BitCycles)
    BY <1>2, <1>6, <2>1
  <2>3. k # 0 /\ ~(k <= DataBits)
    BY <1>2, <1>6
  <2> QED BY <2>2, <2>3 DEF Level, Bit
<1> QED BY <1>2, <1>4, <1>5, <1>6

LEMMA LineType ==
  ASSUME NEW o \in Seq(Bytes), NEW t \in -1 .. Frame - 1, t # -1 => o # << >>
  PROVE  Line(o, t) \in {0, 1}
<1>1. CASE t = -1
  BY <1>1 DEF Line
<1>2. CASE t # -1
  <2>1. t \in 0 .. Frame - 1 /\ Head(o) \in Bytes
    BY <1>2, Sizes, HeadTailProperties
  <2>2. PICK k \in 0 .. DataBits + 1 : k * BitCycles <= t /\ t < k * BitCycles + BitCycles
    BY <2>1, BitAt
  <2>3. Level(Head(o), t) = Bit(Head(o), k) /\ Bit(Head(o), k) \in {0, 1}
    BY <2>1, <2>2, LevelIs, BitType
  <2> QED BY <1>2, <2>3 DEF Line
<1> QED BY <1>1, <1>2

-----------------------------------------------------------------------------
(* The kinds of all variables                                              *)

(* What is left to send is the end of the answer.                          *)
BoardType ==
  /\ out \in Seq(Bytes) /\ answer \in Seq(Bytes)
  /\ Len(out) <= Len(answer) /\ \A i \in 1 .. Len(out) : out[i] = answer[i + Over]
  /\ phase \in -1 .. Frame - 1 /\ (phase # -1 => out # << >>)
  /\ quiet \in 0 .. Silent

(* A change that waits is one between two bits, and not long ago.          *)
EdgeType ==
  /\ edge \in -1 .. MaxLatency
  /\ edge # -1 => phase # -1 /\ \E k \in 0 .. DataBits + 1 : k * BitCycles = phase - edge

Change == [cycle : 0 .. Timeout, level : {0, 1}]

HubType ==
  /\ isrBuffer \in Seq(Change) /\ Len(isrBuffer) <= IsrCapacity
  /\ RxOK(rx)
  /\ got \in Seq(Bytes) /\ old \in Seq(Bytes)
  /\ now \in 0 .. Timeout
  /\ isrAvail \in Nat /\ due \in Nat

FlagType ==
  /\ rxEnabled \in BOOLEAN /\ raced \in BOOLEAN /\ isrOverflow \in BOOLEAN
  /\ poll \in {"none", "rxBits", "done"}

(* Between exchanges the hub records nothing and does not poll.            *)
Deaf == ~rxEnabled => edge = -1 /\ poll = "none"

TypeInv == BoardType /\ EdgeType /\ HubType /\ FlagType /\ Deaf

LEMMA TypeInit ==
  ASSUME Init
  PROVE  TypeInv
<1>1. /\ << >> \in Seq(Bytes) /\ << >> \in Seq(Change) /\ << >> \in Seq({0, 1}) /\ Len(<< >>) = 0
  OBVIOUS
<1>2. /\ DataBits \in Nat \ {0} /\ MaxLatency \in Nat /\ MaxGap \in Nat /\ Timeout \in Nat
      /\ IsrCapacity \in Nat /\ BufCapacity \in Nat /\ Frame \in Nat
  BY Sizes
<1>3. BoardType
  <2>1. Silent \in 0 .. Silent /\ -1 \in -1 .. Frame - 1
    BY <1>2 DEF Silent
  <2>2. /\ out = << >> /\ answer = << >> /\ phase = -1 /\ quiet = Silent
    BY DEF Init
  <2>3. \A i \in 1 .. Len(out) : FALSE
    BY <1>1, <2>2
  <2> QED BY <1>1, <2>1, <2>2, <2>3 DEF BoardType
<1>4. EdgeType
  BY <1>2 DEF Init, EdgeType
<1>5. RxOK(Idle)
  <2>1. DataBits \in -1 .. DataBits /\ 0 \in Int /\ 1 \in {0, 1} /\ FALSE \in BOOLEAN
        /\ ~(DataBits < DataBits)
    BY <1>2
  <2> QED BY <1>1, <1>2, <2>1 DEF RxOK, RxRecord, Idle
<1>6. HubType
  BY <1>1, <1>2, <1>5 DEF Init, HubType
<1>7. FlagType /\ Deaf
  BY DEF Init, FlagType, Deaf
<1> QED BY <1>3, <1>4, <1>6, <1>7 DEF TypeInv

LEMMA TypeStartBit ==
  ASSUME TypeInv, StartBit
  PROVE  TypeInv'
<1>1. /\ out # << >> /\ phase = -1 /\ phase' = 0 /\ edge' = IF Changes(out, 0) THEN 0 ELSE edge
      /\ UNCHANGED <<out, quiet, isrBuffer, rx, isrOverflow, poll, isrAvail, held, rxEnabled, got, now,
                     answer, old, due, raced>>
  BY DEF StartBit, hubVars, history
<1>2. DataBits \in Nat /\ BitCycles \in Nat \ {0} /\ Frame \in Nat /\ Frame > 0 /\ MaxLatency \in Nat
  <2>1. 0 * BitCycles + BitCycles <= (DataBits + 2) * BitCycles
    <3>1. 0 < DataBits + 2 /\ DataBits + 2 \in Int
      BY Sizes
    <3> QED BY <3>1, Sizes, Multiples
  <2>2. 0 * BitCycles = 0 /\ (DataBits + 2) * BitCycles \in Int
    BY Sizes
  <2> QED BY <2>1, <2>2, Sizes
<1>3. BoardType'
  <2>1. 0 \in -1 .. Frame - 1 /\ 0 # -1
    BY <1>2
  <2>2. Over' = Over
    BY <1>1 DEF Over
  <2> QED BY <1>1, <2>1, <2>2 DEF TypeInv, BoardType
<1>4. EdgeType'
  <2>1. edge = -1
    BY <1>1 DEF TypeInv, EdgeType
  <2>2. 0 \in 0 .. DataBits + 1 /\ 0 * BitCycles = 0 - 0
    BY <1>2
  <2>3. edge' \in -1 .. MaxLatency /\ (edge' # -1 => edge' = 0)
    BY <1>1, <1>2, <2>1
  <2> QED BY <1>1, <2>2, <2>3 DEF EdgeType
<1>5. HubType' /\ FlagType'
  BY <1>1 DEF TypeInv, HubType, FlagType
<1>6. Deaf'
  BY <1>1 DEF TypeInv, Deaf, Changes
<1> QED BY <1>3, <1>4, <1>5, <1>6 DEF TypeInv

(* What the next moment of a frame is.                                     *)
LEMMA NextBit ==
  ASSUME NEW t \in 0 .. Frame - 1, t + 1 # Frame,
         NEW k \in 0 .. DataBits + 1, k * BitCycles <= t, t < k * BitCycles + BitCycles
  PROVE  /\ t + 1 \in 0 .. Frame - 1
         /\ \/ t + 1 < k * BitCycles + BitCycles
            \/ k + 1 \in 1 .. DataBits + 1 /\ t + 1 = (k + 1) * BitCycles
<1>1. /\ DataBits \in Nat \ {0} /\ BitCycles \in Nat \ {0} /\ Frame \in Nat /\ t \in Nat
      /\ Frame = (DataBits + 2) * BitCycles /\ k * BitCycles \in Int
      /\ (k + 1) * BitCycles = k * BitCycles + BitCycles
  BY Sizes
<1>2. t + 1 \in 0 .. Frame - 1
  BY <1>1
<1>3. CASE k = DataBits + 1
  <2>1. k * BitCycles + BitCycles = Frame
    BY <1>1, <1>3
  <2> QED BY <1>1, <1>2, <2>1
<1>4. CASE k # DataBits + 1
  <2>1. k + 1 \in 1 .. DataBits + 1
    BY <1>1, <1>4
  <2>2. t + 1 < k * BitCycles + BitCycles \/ t + 1 = k * BitCycles + BitCycles
    BY <1>1
  <2> QED BY <1>1, <1>2, <2>1, <2>2
<1> QED BY <1>3, <1>4

LEMMA LastBit ==
  /\ Frame - 1 \in 0 .. Frame - 1 /\ DataBits + 1 \in 0 .. DataBits + 1
  /\ (DataBits + 1) * BitCycles <= Frame - 1
  /\ Frame - 1 < (DataBits + 1) * BitCycles + BitCycles
  /\ Frame = (DataBits + 1) * BitCycles + BitCycles
<1>1. /\ DataBits \in Nat \ {0} /\ BitCycles \in Nat \ {0} /\ Frame \in Nat
      /\ Frame = (DataBits + 2) * BitCycles /\ (DataBits + 1) * BitCycles \in Nat
  BY Sizes
<1>2. (DataBits + 2) * BitCycles = (DataBits + 1) * BitCycles + BitCycles
  BY <1>1
<1> QED BY <1>1, <1>2

(* A change that waits is of the frame under way, also when the next       *)
(* moment ends it.                                                         *)
LEMMA EdgeInFrame ==
  ASSUME BoardType, EdgeType, edge # -1, edge < MaxLatency
  PROVE  phase + 1 # Frame
<1>1. PICK k \in 0 .. DataBits + 1 : k * BitCycles = phase - edge
  BY DEF EdgeType
<1> SUFFICES ASSUME phase + 1 = Frame PROVE FALSE
  OBVIOUS
<1>2. /\ DataBits \in Nat /\ BitCycles \in Nat \ {0} /\ MaxLatency \in Nat /\ 2 * MaxLatency < BitCycles
      /\ edge \in Nat /\ k * BitCycles \in Int /\ (DataBits + 1) * BitCycles \in Int /\ Frame \in Nat
  BY Sizes DEF EdgeType
<1>3. k * BitCycles <= (DataBits + 1) * BitCycles
  <2>1. CASE k = DataBits + 1
    BY <1>2, <2>1
  <2>2. CASE k < DataBits + 1
    <3>1. k * BitCycles + BitCycles <= (DataBits + 1) * BitCycles
      BY <1>2, <2>2, Multiples
    <3> QED BY <1>2, <3>1
  <2> QED BY <1>2, <2>1, <2>2
<1>4. phase = Frame - 1 /\ Frame = (DataBits + 1) * BitCycles + BitCycles
  <2>1. phase \in Int
    BY <1>2 DEF BoardType
  <2> QED BY <1>2, <2>1, LastBit
<1> QED BY <1>1, <1>2, <1>3, <1>4

(* The line changes between two bits of a frame, and not at its end.       *)
LEMMA ChangeAtBit ==
  ASSUME BoardType, phase # -1,
         NEW o, NEW p, p = (IF phase + 1 = Frame THEN -1 ELSE phase + 1),
         o = (IF phase + 1 = Frame THEN Tail(out) ELSE out)
  PROVE  Line(o, p) # Line(out, phase) =>
           p = phase + 1 /\ \E k \in 1 .. DataBits + 1 : k * BitCycles = p
<1>1. /\ phase \in 0 .. Frame - 1 /\ Head(out) \in Bytes
  BY Sizes, HeadTailProperties DEF BoardType
<1>2. PICK k \in 0 .. DataBits + 1 :
           /\ k * BitCycles \in Nat /\ k * BitCycles <= phase /\ phase < k * BitCycles + BitCycles
  BY <1>1, BitAt
<1>3. Line(out, phase) = Bit(Head(out), k)
  BY <1>1, <1>2, LevelIs DEF Line
<1>4. CASE phase + 1 = Frame
  <2>1. phase = Frame - 1
    BY <1>1, <1>4, Sizes
  <2>2. k = DataBits + 1
    <3>1. /\ (DataBits + 1) * BitCycles <= phase /\ phase < (DataBits + 1) * BitCycles + BitCycles
          /\ phase \in Int /\ k \in Int /\ DataBits + 1 \in Int
      BY <1>1, <2>1, LastBit, Sizes
    <3> QED BY <1>2, <3>1, BitOnce
  <2>3. Bit(Head(out), k) = 1
    <3>1. DataBits + 1 # 0 /\ ~(DataBits + 1 <= DataBits)
      BY Sizes
    <3> QED BY <2>2, <3>1 DEF Bit
  <2>4. Line(o, p) = 1
    BY <1>4 DEF Line
  <2> QED BY <1>3, <2>3, <2>4
<1>5. CASE phase + 1 # Frame
  <2>1. /\ phase + 1 \in 0 .. Frame - 1
        /\ \/ phase + 1 < k * BitCycles + BitCycles
           \/ k + 1 \in 1 .. DataBits + 1 /\ phase + 1 = (k + 1) * BitCycles
    BY <1>1, <1>2, <1>5, NextBit
  <2>2. p = phase + 1 /\ o = out /\ p # -1
    BY <1>5, <2>1, Sizes
  <2>3. CASE phase + 1 < k * BitCycles + BitCycles
    <3>1. k * BitCycles <= phase + 1
      BY <1>1, <1>2, Sizes
    <3>2. Level(Head(out), phase + 1) = Bit(Head(out), k)
      BY <1>1, <2>1, <2>3, <3>1, LevelIs
    <3>3. Line(o, p) = Bit(Head(out), k)
      BY <2>2, <3>2 DEF Line
    <3> QED BY <1>3, <3>3
  <2>4. CASE k + 1 \in 1 .. DataBits + 1 /\ phase + 1 = (k + 1) * BitCycles
    BY <2>2, <2>4
  <2> QED BY <2>1, <2>3, <2>4
<1> QED BY <1>4, <1>5

(* A shorter answer is the end of the same one.                            *)
LEMMA OneByteLess ==
  ASSUME BoardType, out # << >>
  PROVE  /\ Tail(out) \in Seq(Bytes) /\ Len(Tail(out)) = Len(out) - 1
         /\ Len(out) \in Nat \ {0} /\ Len(answer) \in Nat
         /\ \A i \in 1 .. Len(out) - 1 : Tail(out)[i] = out[i + 1]
         /\ Head(out) = answer[Over + 1] /\ Over + 1 \in 1 .. Len(answer) /\ Head(out) \in Bytes
         /\ \A i \in 1 .. Len(out) - 1 : Tail(out)[i] = answer[i + (Len(answer) - (Len(out) - 1))]
<1>1. out \in Seq(Bytes) /\ answer \in Seq(Bytes)
  BY DEF BoardType
<1>2. /\ Tail(out) \in Seq(Bytes) /\ Len(Tail(out)) = Len(out) - 1
      /\ Len(out) \in Nat \ {0} /\ Len(answer) \in Nat /\ Head(out) = out[1] /\ Head(out) \in Bytes
      /\ \A i \in 1 .. Len(out) - 1 : Tail(out)[i] = out[i + 1]
  BY <1>1, HeadTailProperties, LenProperties, EmptySeq
<1>3. /\ Over = Len(answer) - Len(out) /\ Len(out) <= Len(answer)
      /\ \A i \in 1 .. Len(out) : out[i] = answer[i + Over]
  BY DEF BoardType, Over
<1>4. 1 \in 1 .. Len(out) /\ 1 + Over = Over + 1 /\ Over + 1 \in 1 .. Len(answer)
  BY <1>2, <1>3
<1>5. ASSUME NEW i \in 1 .. Len(out) - 1
      PROVE  Tail(out)[i] = answer[i + (Len(answer) - (Len(out) - 1))]
  <2>1. i + 1 \in 1 .. Len(out) /\ i + 1 + Over = i + (Len(answer) - (Len(out) - 1))
    BY <1>2, <1>3
  <2> QED BY <1>2, <1>3, <2>1
<1> QED BY <1>2, <1>3, <1>4, <1>5

LEMMA TypeTick ==
  ASSUME TypeInv, Tick
  PROVE  TypeInv'
<1>1. /\ edge < MaxLatency /\ now < Timeout
      /\ now' = IF rxEnabled THEN now + 1 ELSE now
      /\ UNCHANGED <<isrBuffer, rx, isrOverflow, poll, isrAvail, rxEnabled, got, answer, old, due, raced>>
  BY DEF Tick
<1>2. /\ MaxLatency \in Nat /\ Timeout \in Nat /\ Frame \in Nat /\ Silent \in Nat /\ quiet \in 0 .. Silent
      /\ edge \in -1 .. MaxLatency /\ phase \in -1 .. Frame - 1 /\ now \in 0 .. Timeout
  BY Sizes DEF Silent, TypeInv, BoardType, EdgeType, HubType
<1>3. now' \in 0 .. Timeout
  BY <1>1, <1>2
<1>4. HubType' /\ FlagType'
  <2>1. FlagType'
    BY <1>1 DEF TypeInv, FlagType
  <2> QED BY <1>1, <1>3, <2>1 DEF TypeInv, HubType
<1>5. CASE phase = -1
  <2>1. /\ quiet' = Shortest(quiet + 1, Silent)
        /\ edge' = IF edge >= 0 THEN edge + 1 ELSE edge
        /\ UNCHANGED <<out, phase>>
    BY <1>5 DEF Tick
  <2>2. quiet' \in 0 .. Silent
    BY <1>2, <2>1 DEF Shortest
  <2>3. Over' = Over
    BY <1>1, <2>1 DEF Over
  <2>4. BoardType'
    BY <1>1, <2>1, <2>2, <2>3 DEF TypeInv, BoardType
  <2>5. edge = -1 /\ edge' = -1
    <3>1. edge = -1
      BY <1>5 DEF TypeInv, EdgeType
    <3> QED BY <2>1, <3>1
  <2>6. EdgeType' /\ Deaf'
    BY <1>1, <1>2, <2>5 DEF EdgeType, TypeInv, Deaf
  <2> QED BY <1>4, <2>4, <2>6 DEF TypeInv
<1>6. CASE phase # -1
  <2>1. /\ phase' = (IF phase + 1 = Frame THEN -1 ELSE phase + 1)
        /\ out' = (IF phase + 1 = Frame THEN Tail(out) ELSE out)
        /\ quiet' = 0
        /\ edge' = IF edge >= 0 THEN edge + 1
                   ELSE IF Changes(out', phase') THEN 0 ELSE edge
    BY <1>6 DEF Tick
  <2>2. out # << >> /\ BoardType /\ EdgeType
    BY <1>6 DEF TypeInv, BoardType
  <2>3. BoardType'
    <3>1. phase' \in -1 .. Frame - 1
      BY <1>2, <2>1
    <3>2. CASE phase + 1 = Frame
      <4>1. out' = Tail(out) /\ phase' = -1 /\ answer' = answer
        BY <1>1, <2>1, <3>2
      <4>2. /\ Tail(out) \in Seq(Bytes) /\ Len(Tail(out)) = Len(out) - 1
            /\ Len(out) \in Nat \ {0} /\ Len(answer) \in Nat
            /\ \A i \in 1 .. Len(out) - 1 : Tail(out)[i] = answer[i + (Len(answer) - (Len(out) - 1))]
        BY <2>2, OneByteLess
      <4>3. Over' = Len(answer) - (Len(out) - 1) /\ Len(out') = Len(out) - 1
        BY <4>1, <4>2 DEF Over
      <4>4. answer \in Seq(Bytes) /\ Len(out) <= Len(answer)
        BY <2>2 DEF BoardType
      <4>5. Len(out') <= Len(answer')
        BY <4>1, <4>2, <4>3, <4>4
      <4>6. \A i \in 1 .. Len(out') : out'[i] = answer'[i + Over']
        BY <4>1, <4>2, <4>3
      <4>7. quiet' \in 0 .. Silent
        BY <1>2, <2>1
      <4> QED BY <3>1, <4>1, <4>2, <4>4, <4>5, <4>6, <4>7 DEF BoardType
    <3>3. CASE phase + 1 # Frame
      <4>1. out' = out /\ Over' = Over /\ quiet' \in 0 .. Silent /\ answer' = answer
        BY <1>1, <1>2, <2>1, <3>3 DEF Over
      <4> QED BY <2>2, <3>1, <4>1 DEF BoardType
    <3> QED BY <3>2, <3>3
  <2>4. CASE edge # -1
    <3>1. phase + 1 # Frame
      BY <1>1, <2>2, <2>4, EdgeInFrame
    <3>2. PICK k \in 0 .. DataBits + 1 : k * BitCycles = phase - edge
      BY <2>2, <2>4 DEF EdgeType
    <3>3. edge' = edge + 1 /\ phase' = phase + 1
      BY <1>2, <2>1, <2>4, <3>1
    <3>4. edge' \in -1 .. MaxLatency /\ phase' - edge' = phase - edge /\ phase' # -1
      BY <1>1, <1>2, <1>6, <3>3
    <3>5. EdgeType'
      BY <3>2, <3>4 DEF EdgeType
    <3>6. Deaf'
      BY <1>1, <2>4 DEF TypeInv, Deaf
    <3> QED BY <1>4, <2>3, <3>5, <3>6 DEF TypeInv
  <2>5. CASE edge = -1
    <3>1. edge' = IF Changes(out', phase') THEN 0 ELSE -1
      BY <2>1, <2>5
    <3>2. Changes(out', phase') => phase' = phase + 1 /\ \E k \in 1 .. DataBits + 1 : k * BitCycles = phase'
      <4>1. Line(out', phase') # Line(out, phase) =>
              phase' = phase + 1 /\ \E k \in 1 .. DataBits + 1 : k * BitCycles = phase'
        BY <1>6, <2>1, <2>2, ChangeAtBit
      <4> QED BY <4>1 DEF Changes
    <3>3. CASE Changes(out', phase')
      <4>1. PICK k \in 1 .. DataBits + 1 : k * BitCycles = phase'
        BY <3>2, <3>3
      <4>2. edge' = 0 /\ phase' = phase + 1
        BY <3>1, <3>2, <3>3
      <4>3. k \in 0 .. DataBits + 1 /\ k * BitCycles = phase' - edge' /\ phase' # -1 /\ edge' \in -1 .. MaxLatency
        BY <1>2, <1>6, <4>1, <4>2, Sizes
      <4>4. EdgeType'
        BY <4>3 DEF EdgeType
      <4>5. Deaf'
        BY <1>1, <3>3 DEF TypeInv, Deaf, Changes
      <4> QED BY <1>4, <2>3, <4>4, <4>5 DEF TypeInv
    <3>4. CASE ~Changes(out', phase')
      <4>1. edge' = -1
        BY <3>1, <3>4
      <4>2. EdgeType' /\ Deaf'
        BY <1>1, <1>2, <4>1 DEF EdgeType, TypeInv, Deaf
      <4> QED BY <1>4, <2>3, <4>2 DEF TypeInv
    <3> QED BY <3>3, <3>4
  <2> QED BY <2>4, <2>5
<1> QED BY <1>5, <1>6

(* A change of the ring is one that the decoder takes.                     *)
LEMMA ChangesInt ==
  /\ Change \subseteq ChangeRecord
  /\ \A s \in Seq(Change) : s \in Seq(ChangeRecord)
<1>1. Change \subseteq ChangeRecord
  BY Sizes DEF Change, ChangeRecord
<1> QED BY <1>1, SeqMonotonic

LEMMA DrainedType ==
  ASSUME NEW r, RxOK(r), HubType
  PROVE  RxOK(Drained(r))
<1>1. isrBuffer \in Seq(ChangeRecord)
  BY ChangesInt DEF HubType
<1> QED BY <1>1, DecodeAllType DEF Drained

LEMMA CompleteType ==
  ASSUME NEW r, RxOK(r)
  PROVE  RxOK(Complete(r))
<1>1. CASE r.bit < DataBits
  BY <1>1, CompleteIs
<1>2. CASE ~(r.bit < DataBits)
  BY <1>2 DEF Complete
<1> QED BY <1>1, <1>2

LEMMA TypeRxBitISR ==
  ASSUME TypeInv, RxBitISR
  PROVE  TypeInv'
<1> DEFINE c == [cycle |-> now, level |-> Line(out, phase)]
<1>1. /\ edge' = -1
      /\ \/ Len(isrBuffer) < IsrCapacity /\ isrBuffer' = Append(isrBuffer, c) /\ UNCHANGED isrOverflow
         \/ isrOverflow' = TRUE /\ UNCHANGED isrBuffer
      /\ UNCHANGED <<out, phase, quiet, rx, poll, isrAvail, held, rxEnabled, got, now, answer, old, due, raced>>
  BY DEF RxBitISR, boardVars, history
<1>2. c \in Change
  <2>1. out \in Seq(Bytes) /\ phase \in -1 .. Frame - 1 /\ (phase # -1 => out # << >>) /\ now \in 0 .. Timeout
    BY DEF TypeInv, BoardType, HubType
  <2> QED BY <2>1, LineType DEF Change
<1> HIDE DEF c
<1>3. isrBuffer \in Seq(Change) /\ Len(isrBuffer) <= IsrCapacity /\ IsrCapacity \in Nat
  BY Sizes DEF TypeInv, HubType
<1>4. isrBuffer' \in Seq(Change) /\ Len(isrBuffer') <= IsrCapacity
  <2>1. CASE Len(isrBuffer) < IsrCapacity /\ isrBuffer' = Append(isrBuffer, c)
    <3>1. Append(isrBuffer, c) \in Seq(Change) /\ Len(Append(isrBuffer, c)) = Len(isrBuffer) + 1
          /\ Len(isrBuffer) \in Nat
      BY <1>2, <1>3, AppendProperties, LenProperties
    <3> QED BY <1>3, <2>1, <3>1
  <2>2. CASE UNCHANGED isrBuffer
    BY <1>3, <2>2
  <2> QED BY <1>1, <2>1, <2>2
<1>5. HubType'
  BY <1>1, <1>4 DEF TypeInv, HubType
<1>6. BoardType'
  <2>1. Over' = Over
    BY <1>1 DEF Over
  <2> QED BY <1>1, <2>1 DEF TypeInv, BoardType
<1>7. EdgeType' /\ Deaf'
  BY <1>1, Sizes DEF EdgeType, TypeInv, Deaf
<1>8. FlagType'
  <2>1. isrOverflow' \in BOOLEAN
    BY <1>1 DEF TypeInv, FlagType
  <2> QED BY <1>1, <2>1 DEF TypeInv, FlagType
<1> QED BY <1>5, <1>6, <1>7, <1>8 DEF TypeInv

(* What the request leaves of the decoder.                                 *)
Emptied == [rx EXCEPT !.buffer = << >>]

Flushed == Complete(Drained(Emptied))

LEMMA FlushedType ==
  ASSUME TypeInv
  PROVE  RxOK(Emptied) /\ RxOK(Drained(Emptied)) /\ RxOK(Flushed)
<1>1. /\ rx \in RxRecord /\ << >> \in Seq(Bytes) /\ Len(<< >>) = 0 /\ BufCapacity \in Nat
      /\ rx.bit < DataBits => Len(rx.byte) = rx.bit + 1
  BY Sizes DEF TypeInv, HubType, RxOK
<1>2. Emptied \in RxRecord /\ Emptied.buffer = << >> /\ Emptied.bit = rx.bit /\ Emptied.byte = rx.byte
  BY <1>1 DEF Emptied, RxRecord
<1>3. RxOK(Emptied)
  BY <1>1, <1>2 DEF RxOK
<1>4. HubType
  BY DEF TypeInv
<1> QED BY <1>3, <1>4, DrainedType, CompleteType DEF Flushed

LEMMA RequestIs ==
  ASSUME Request
  PROVE  /\ ~rxEnabled /\ out = << >>
         /\ rx' = [Flushed EXCEPT !.bit = DataBits, !.cycle = 0, !.level = 1, !.refused = FALSE]
         /\ old' = Flushed.buffer
         /\ isrBuffer' = << >> /\ isrOverflow' = FALSE
         /\ rxEnabled' = TRUE /\ now' = 0 /\ got' = << >>
         /\ out' \in Answers \cup {<< >>} /\ answer' = out'
         /\ raced' = FALSE
         /\ UNCHANGED <<phase, quiet, edge, poll, isrAvail, held, due>>
BY DEF Request, Flushed, Emptied

LEMMA TypeRequest ==
  ASSUME TypeInv, Request
  PROVE  TypeInv' /\ rx'.bit = DataBits /\ rx'.level = 1 /\ rx'.buffer = old' /\ rx'.refused = FALSE
<1>1. /\ Flushed \in RxRecord /\ Len(Flushed.buffer) <= BufCapacity /\ DataBits \in Nat \ {0}
  BY Sizes, FlushedType DEF RxOK
<1>2. /\ rx' \in RxRecord /\ rx'.bit = DataBits /\ rx'.buffer = Flushed.buffer
      /\ rx'.level = 1 /\ rx'.refused = FALSE
  <2>1. DataBits \in -1 .. DataBits
    BY <1>1
  <2> DEFINE t == [Flushed EXCEPT !.bit = DataBits, !.cycle = 0, !.level = 1, !.refused = FALSE]
  <2>2. t \in RxRecord /\ t.bit = DataBits /\ t.buffer = Flushed.buffer /\ t.level = 1 /\ t.refused = FALSE
    <3> DEFINE f == Flushed
               d == DataBits
               u == [f EXCEPT !.bit = d, !.cycle = 0, !.level = 1, !.refused = FALSE]
    <3>1. f \in RxRecord /\ d \in -1 .. DataBits /\ 0 \in Int /\ 1 \in {0, 1} /\ FALSE \in BOOLEAN
      BY <1>1, <2>1
    <3> HIDE DEF f, d
    <3>2. u \in RxRecord
      BY <3>1 DEF RxRecord
    <3>3. u.bit = d /\ u.buffer = f.buffer /\ u.level = 1 /\ u.refused = FALSE
      BY <3>1 DEF RxRecord
    <3> QED BY <3>2, <3>3 DEF f, d
  <2>3. rx' = t
    BY RequestIs
  <2> HIDE DEF t
  <2> QED BY <2>2, <2>3
<1>3. RxOK(rx')
  BY <1>1, <1>2 DEF RxOK
<1>4. HubType'
  <2>1. << >> \in Seq(Change) /\ Len(<< >>) = 0 /\ << >> \in Seq(Bytes) /\ IsrCapacity \in Nat /\ Timeout \in Nat
    BY Sizes
  <2>2. Flushed.buffer \in Seq(Bytes)
    BY <1>1 DEF RxRecord
  <2>3. isrAvail' \in Nat /\ due' \in Nat
    BY RequestIs DEF TypeInv, HubType
  <2> QED BY <1>3, <2>1, <2>2, <2>3, RequestIs DEF HubType
<1>5. BoardType'
  <2>1. out' \in Seq(Bytes)
    <3>1. \A a \in Answers : a \in Seq(Bytes)
      BY SoftSerialAssumption
    <3>2. << >> \in Seq(Bytes)
      OBVIOUS
    <3> QED BY <3>1, <3>2, RequestIs
  <2>2. answer' = out' /\ Len(out') \in Nat
    BY <2>1, RequestIs
  <2>3. Over' = 0
    BY <2>2 DEF Over
  <2>4. \A i \in 1 .. Len(out') : out'[i] = answer'[i + Over']
    <3> TAKE i \in 1 .. Len(out')
    <3>1. i + Over' = i
      BY <2>2, <2>3
    <3> QED BY <2>2, <3>1
  <2>5. phase = -1
    BY RequestIs DEF TypeInv, BoardType
  <2>6. Len(out') <= Len(answer')
    BY <2>2
  <2> QED BY <2>1, <2>2, <2>4, <2>5, <2>6, RequestIs DEF TypeInv, BoardType
<1>6. EdgeType'
  BY RequestIs DEF TypeInv, EdgeType
<1>7. FlagType' /\ Deaf'
  BY RequestIs DEF TypeInv, FlagType, Deaf
<1> QED BY <1>1, <1>2, <1>4, <1>5, <1>6, <1>7, RequestIs DEF TypeInv

LEMMA TypeAvailable ==
  ASSUME TypeInv, Available
  PROVE  TypeInv'
<1>1. /\ rxEnabled /\ poll' = "rxBits" /\ isrAvail' = Len(isrBuffer)
      /\ due' = IF isrBuffer = << >> /\ (phase # -1 \/ quiet > MaxLatency) THEN Len(old) + Over ELSE 0
      /\ UNCHANGED <<out, phase, quiet, edge, isrBuffer, rx, isrOverflow, held, rxEnabled, now, got,
                     answer, old, raced>>
  BY DEF Available, boardVars
<1>2. BoardType' /\ EdgeType'
  <2>1. Over' = Over
    BY <1>1 DEF Over
  <2> QED BY <1>1, <2>1 DEF TypeInv, BoardType, EdgeType
<1>3. HubType'
  <2>1. Len(isrBuffer) \in Nat /\ Len(old) \in Nat /\ Len(answer) \in Nat /\ Len(out) \in Nat
        /\ Len(out) <= Len(answer)
    BY LenProperties DEF TypeInv, BoardType, HubType
  <2>2. isrAvail' \in Nat
    BY <1>1, <2>1
  <2>3. due' \in Nat
    <3>1. Len(old) + Over \in Nat
      BY <2>1 DEF Over
    <3> QED BY <1>1, <3>1
  <2> QED BY <1>1, <2>2, <2>3 DEF TypeInv, HubType
<1>4. FlagType' /\ Deaf'
  BY <1>1 DEF TypeInv, FlagType, Deaf
<1> QED BY <1>2, <1>3, <1>4 DEF TypeInv

(* What a poll decodes.                                                    *)
Polled == Drained(IF FauxDue THEN Complete(rx) ELSE rx)

LEMMA PolledType ==
  ASSUME TypeInv
  PROVE  RxOK(Polled)
<1>1. RxOK(rx) /\ HubType
  BY DEF TypeInv, HubType
<1>2. RxOK(IF FauxDue THEN Complete(rx) ELSE rx)
  BY <1>1, CompleteType
<1> QED BY <1>1, <1>2, DrainedType DEF Polled

(* A character leaves the buffer for the hub: both together stay the same. *)
LEMMA ReadOne ==
  ASSUME NEW r, RxOK(r), r.buffer # << >>, NEW g \in Seq(Bytes)
  PROVE  LET t == [r EXCEPT !.buffer = Tail(@)] IN
         /\ RxOK(t) /\ Append(g, Head(r.buffer)) \in Seq(Bytes)
         /\ t.bit = r.bit /\ t.byte = r.byte /\ t.cycle = r.cycle /\ t.level = r.level
         /\ t.refused = r.refused /\ t.buffer = Tail(r.buffer)
<1> DEFINE b == Tail(r.buffer)
           t == [r EXCEPT !.buffer = b]
<1>1. r \in RxRecord /\ r.buffer \in Seq(Bytes) /\ Len(r.buffer) <= BufCapacity /\ BufCapacity \in Nat
  BY Sizes DEF RxOK, RxRecord
<1>2. b \in Seq(Bytes) /\ Len(b) = Len(r.buffer) - 1 /\ Head(r.buffer) \in Bytes /\ Len(r.buffer) \in Nat
  BY <1>1, HeadTailProperties, LenProperties
<1> HIDE DEF b
<1>3. /\ t \in RxRecord /\ t.bit = r.bit /\ t.byte = r.byte /\ t.cycle = r.cycle
      /\ t.level = r.level /\ t.refused = r.refused /\ t.buffer = b
  BY <1>1, <1>2 DEF RxRecord
<1> HIDE DEF t
<1>4. Len(t.buffer) <= BufCapacity
  BY <1>1, <1>2, <1>3
<1>5. RxOK(t)
  BY <1>3, <1>4 DEF RxOK
<1>6. Append(g, Head(r.buffer)) \in Seq(Bytes)
  BY <1>2, AppendProperties
<1> QED BY <1>3, <1>5, <1>6 DEF t, b

LEMMA RxBitsIs ==
  ASSUME RxBits
  PROVE  /\ poll = "rxBits" /\ edge = -1
         /\ raced' = (raced \/ (FauxDue /\ isrBuffer # << >>
                                  /\ BitCount(Expected(rx) - isrBuffer[1].cycle) > 0))
         /\ isrBuffer' = << >> /\ isrAvail' = 0 /\ due' = 0
         /\ \/ Polled.buffer = << >> /\ rx' = Polled /\ poll' = "none" /\ UNCHANGED got
            \/ /\ Polled.buffer # << >> /\ rx' = [Polled EXCEPT !.buffer = Tail(@)]
               /\ got' = Append(got, Head(Polled.buffer)) /\ poll' \in {"none", "done"}
         /\ UNCHANGED <<out, phase, quiet, edge, isrOverflow, rxEnabled, now, answer, old>>
BY DEF RxBits, Polled, boardVars

LEMMA TypeRxBits ==
  ASSUME TypeInv, RxBits
  PROVE  TypeInv'
<1>1. RxOK(rx') /\ got' \in Seq(Bytes)
  <2>1. got \in Seq(Bytes)
    BY DEF TypeInv, HubType
  <2>2. CASE Polled.buffer = << >> /\ rx' = Polled /\ UNCHANGED got
    BY <2>1, <2>2, PolledType
  <2>3. CASE /\ Polled.buffer # << >> /\ rx' = [Polled EXCEPT !.buffer = Tail(@)]
             /\ got' = Append(got, Head(Polled.buffer))
    <3> DEFINE r == Polled
    <3>1. RxOK(r) /\ r.buffer # << >>
      BY <2>3, PolledType
    <3> HIDE DEF r
    <3>2. RxOK([r EXCEPT !.buffer = Tail(@)]) /\ Append(got, Head(r.buffer)) \in Seq(Bytes)
      BY <2>1, <3>1, ReadOne
    <3> QED BY <2>3, <3>2 DEF r
  <2> QED BY <2>2, <2>3, RxBitsIs
<1>2. BoardType' /\ EdgeType'
  <2>1. Over' = Over
    BY RxBitsIs DEF Over
  <2> QED BY <2>1, RxBitsIs DEF TypeInv, BoardType, EdgeType
<1>3. HubType'
  <2>1. << >> \in Seq(Change) /\ Len(<< >>) = 0 /\ IsrCapacity \in Nat
    BY Sizes
  <2>2. old' = old /\ now' = now /\ isrBuffer' = << >> /\ isrAvail' = 0 /\ due' = 0
    BY RxBitsIs
  <2> QED BY <1>1, <2>1, <2>2 DEF TypeInv, HubType
<1>4. rxEnabled
  BY RxBitsIs DEF TypeInv, Deaf
<1>5. FlagType' /\ Deaf'
  <2>1. raced' \in BOOLEAN
    BY RxBitsIs DEF TypeInv, FlagType
  <2>2. poll' \in {"none", "done"} /\ rxEnabled' = rxEnabled /\ isrOverflow' = isrOverflow
    BY RxBitsIs
  <2> QED BY <1>4, <2>1, <2>2 DEF TypeInv, FlagType, Deaf
<1> QED BY <1>2, <1>3, <1>5 DEF TypeInv

LEMMA TypeQuiet ==
  ASSUME TypeInv, TimeOut \/ StopListening \/ UNCHANGED vars
  PROVE  TypeInv'
<1>1. UNCHANGED <<out, phase, quiet, edge, isrBuffer, rx, isrOverflow, isrAvail, got, answer, old,
                  due, raced>>
  BY DEF TimeOut, StopListening, vars, boardVars, hubVars, history
<1>2. BoardType' /\ EdgeType'
  <2>1. Over' = Over
    BY <1>1 DEF Over
  <2> QED BY <1>1, <2>1 DEF TypeInv, BoardType, EdgeType
<1>3. now' = now \/ now' = 0
  BY DEF TimeOut, StopListening, vars
<1>4. HubType'
  BY <1>1, <1>3, Sizes DEF TypeInv, HubType
<1>5. FlagType' /\ Deaf'
  <2>1. CASE TimeOut
    BY <1>1, <2>1 DEF TimeOut, TypeInv, FlagType, Deaf
  <2>2. CASE StopListening
    BY <1>1, <2>2 DEF StopListening, TypeInv, FlagType, Deaf
  <2>3. CASE UNCHANGED vars
    BY <1>1, <2>3 DEF vars, hubVars, TypeInv, FlagType, Deaf
  <2> QED BY <2>1, <2>2, <2>3
<1> QED BY <1>2, <1>4, <1>5 DEF TypeInv

LEMMA TypeStep ==
  ASSUME TypeInv, [Next]_vars
  PROVE  TypeInv'
<1>1. CASE StartBit
  BY <1>1, TypeStartBit
<1>2. CASE Tick
  BY <1>2, TypeTick
<1>3. CASE RxBitISR
  BY <1>3, TypeRxBitISR
<1>4. CASE Request
  BY <1>4, TypeRequest
<1>5. CASE Available
  BY <1>5, TypeAvailable
<1>6. CASE RxBits
  BY <1>6, TypeRxBits
<1>7. CASE TimeOut \/ StopListening \/ UNCHANGED vars
  BY <1>7, TypeQuiet
<1> QED BY <1>1, <1>2, <1>3, <1>4, <1>5, <1>6, <1>7 DEF Next

LEMMA TypeInvHolds == Spec => []TypeInv
<1>1. Init => TypeInv
  BY TypeInit
<1>2. TypeInv /\ [Next]_vars => TypeInv'
  BY TypeStep
<1> QED BY <1>1, <1>2, PTL DEF Spec

(* Every variable keeps its kind and no buffer holds more than it can: the *)
(* ring its IsrCapacity changes, m_buffer its BufCapacity bytes, and a     *)
(* byte decoded DataBits bits, however the changes lie.                    *)
THEOREM TypeCorrect == Spec => []TypeOK
<1>1. TypeInv => TypeOK
  <2> SUFFICES ASSUME TypeInv PROVE TypeOK
    OBVIOUS
  <2>1. rx.bit \in -1 .. DataBits /\ rx.level \in {0, 1} /\ rx.cycle \in Int
        /\ rx.buffer \in Seq(Bytes) /\ Len(rx.buffer) <= BufCapacity
    BY DEF TypeInv, HubType, RxOK, RxRecord
  <2> QED BY <2>1 DEF TypeInv, BoardType, EdgeType, HubType, TypeOK, Change
<1> QED BY <1>1, TypeInvHolds, PTL

-----------------------------------------------------------------------------
(* Where the decoder is on the line: z is what it will be when all changes *)
(* of the ring are decoded.                                                *)

(* The first n data bits of a byte.                                        *)
FirstBits(b, n) == [i \in 1 .. n |-> b[i]]

(* z has decoded the frame of b that began at s up to the change before    *)
(* bit j, and recorded this change at most a latency late.                 *)
Recorded(z, b, s, j) ==
  /\ z.cycle - (s + j * BitCycles) \in 0 .. MaxLatency
  /\ IF j = 0 THEN z.bit = DataBits /\ z.level = 0
     ELSE z.bit = j - 2 /\ z.byte = FirstBits(b, j - 1) /\ z.level = Bit(b, j)

(* No change waits but the beginning of the frame under way.               *)
AtRest == IF phase = -1 THEN edge = -1 ELSE edge = phase

(* All bytes that were sent are decoded.                                   *)
Between(z) == z.bit = DataBits /\ z.level = 1 /\ AtRest

(* From bit j on the line has kept its level, up to now or to the change   *)
(* that waits.                                                             *)
Seen(b, j, level) ==
  \/ /\ edge = -1
     /\ \A i \in j .. DataBits + 1 : i * BitCycles <= phase => Bit(b, i) = level
  \/ /\ edge # -1
     /\ \E k \in j + 1 .. DataBits + 1 :
          /\ k * BitCycles = phase - edge /\ Bit(b, k) # level
          /\ \A i \in j .. k - 1 : Bit(b, i) = level

(* The byte under way is being decoded.                                    *)
UnderWay(z, j) ==
  /\ phase # -1 /\ j * BitCycles <= phase
  /\ Recorded(z, Head(out), now - phase, j)
  /\ Seen(Head(out), j, z.level)

Since(z, j, l) == now - (IF phase = -1 THEN 0 ELSE phase) - (z.cycle - j * BitCycles - l + Frame)

(* The frame of the byte last sent is over, but since bit j the line was   *)
(* high, and no change said so.                                            *)
Past(z, j, l) ==
  /\ Over >= 1
  /\ Recorded(z, answer[Over], z.cycle - j * BitCycles - l, j)
  /\ \A i \in j .. DataBits + 1 : Bit(answer[Over], i) = 1
  /\ AtRest
  /\ Since(z, j, l) >= 0
  /\ phase = -1 => quiet <= Since(z, j, l)
  /\ out # << >> => Since(z, j, l) <= MaxGap
  /\ out # << >> /\ phase = -1 => Since(z, j, l) = quiet

(* m bytes of the answer are decoded.                                      *)
Place(z, m) ==
  \/ m = Over /\ Between(z)
  \/ m = Over /\ \E j \in 0 .. DataBits + 1 : UnderWay(z, j)
  \/ m = Over - 1 /\ \E j \in 1 .. DataBits + 1 : \E l \in 0 .. MaxLatency : Past(z, j, l)

LEMMA LengthsAre ==
  ASSUME BoardType
  PROVE  /\ Len(answer) \in Nat /\ Len(out) \in Nat /\ Over \in Nat /\ Over <= Len(answer)
         /\ out # << >> => Over < Len(answer) /\ out[1] = answer[Over + 1]
<1>1. /\ Len(answer) \in Nat /\ Len(out) \in Nat /\ Len(out) <= Len(answer)
      /\ Over = Len(answer) - Len(out) /\ (out # << >> => Len(out) # 0)
  BY LenProperties, EmptySeq DEF BoardType, Over
<1>2. out # << >> => out[1] = answer[Over + 1]
  <2> SUFFICES ASSUME out # << >> PROVE out[1] = answer[Over + 1]
    OBVIOUS
  <2>1. 1 \in 1 .. Len(out) /\ 1 + Over = Over + 1
    BY <1>1
  <2> QED BY <2>1 DEF BoardType
<1> QED BY <1>1, <1>2

LEMMA PlaceType ==
  ASSUME TypeInv, NEW z, NEW m, Place(z, m)
  PROVE  m \in 0 .. Len(answer)
<1>1. /\ Len(answer) \in Nat /\ Over \in Nat /\ Over <= Len(answer)
  BY LengthsAre DEF TypeInv
<1>2. m = Over \/ (m = Over - 1 /\ Over >= 1)
  BY DEF Place, Past
<1> QED BY <1>1, <1>2

(* The beginning of a frame is a change.                                   *)
LEMMA StartIsLow ==
  ASSUME BoardType, NEW t \in 0 .. MaxLatency, t \in 0 .. Frame - 1, out # << >>
  PROVE  /\ Line(out, t) = 0
         /\ \A i \in 0 .. DataBits + 1 : i * BitCycles <= t => i = 0
<1>1. /\ BitCycles \in Nat \ {0} /\ MaxLatency \in Nat /\ 2 * MaxLatency < BitCycles /\ DataBits \in Nat
      /\ t \in Nat /\ t < BitCycles /\ 0 * BitCycles = 0 /\ t # -1
  BY Sizes
<1>2. Head(out) \in Bytes
  BY HeadTailProperties DEF BoardType
<1>3. Level(Head(out), t) = Bit(Head(out), 0)
  <2>1. 0 \in 0 .. DataBits + 1 /\ 0 * BitCycles <= t /\ t < 0 * BitCycles + BitCycles
    BY <1>1
  <2> QED BY <1>2, <2>1, LevelIs
<1>4. Line(out, t) = 0
  BY <1>1, <1>3 DEF Line, Bit
<1>5. ASSUME NEW i \in 0 .. DataBits + 1, i * BitCycles <= t, i # 0
      PROVE  FALSE
  <2>1. 0 < i /\ i \in Int /\ i * BitCycles \in Int
    BY <1>1, <1>5
  <2>2. 0 * BitCycles + BitCycles <= i * BitCycles
    BY <1>1, <2>1, Multiples
  <2> QED BY <1>1, <1>5, <2>1, <2>2
<1> QED BY <1>4, <1>5

LEMMA PlaceStartBit ==
  ASSUME TypeInv, StartBit, rxEnabled, NEW z, NEW m, Place(z, m)
  PROVE  Place(z, m)'
<1>1. /\ out # << >> /\ phase = -1 /\ phase' = 0 /\ edge' = IF Changes(out, 0) THEN 0 ELSE edge
      /\ UNCHANGED <<out, quiet, rxEnabled, now, answer>>
  BY DEF StartBit, hubVars, history
<1>2. edge' = 0
  <2>1. 0 \in 0 .. MaxLatency /\ 0 \in 0 .. Frame - 1
    BY Sizes, LastBit
  <2>2. Line(out, 0) = 0
    BY <1>1, <2>1, StartIsLow DEF TypeInv
  <2>3. Line(out, phase) = 1
    BY <1>1 DEF Line
  <2> QED BY <1>1, <2>2, <2>3 DEF Changes
<1>3. Over' = Over /\ AtRest'
  BY <1>1, <1>2 DEF Over, AtRest
<1>4. CASE m = Over /\ Between(z)
  BY <1>3, <1>4 DEF Place, Between
<1>5. ASSUME NEW j \in 1 .. DataBits + 1, NEW l \in 0 .. MaxLatency, Past(z, j, l)
      PROVE  Past(z, j, l)'
  <2>1. Since(z, j, l)' = Since(z, j, l)
    BY <1>1 DEF Since
  <2>2. phase' # -1 /\ answer'[Over'] = answer[Over]
    BY <1>1, <1>3
  <2> QED BY <1>1, <1>3, <1>5, <2>1, <2>2 DEF Past
<1> QED BY <1>1, <1>3, <1>4, <1>5 DEF Place, UnderWay

(* Time passes on a silent line.                                           *)
LEMMA PlaceTickSilent ==
  ASSUME TypeInv, Tick, rxEnabled, phase = -1, NEW z, RxOK(z), NEW m, Place(z, m)
  PROVE  Place(z, m)'
<1>1. /\ now' = now + 1
      /\ out # << >> /\ out # answer => quiet < MaxGap
      /\ quiet' = Shortest(quiet + 1, Silent)
      /\ edge' = IF edge >= 0 THEN edge + 1 ELSE edge
      /\ UNCHANGED <<out, phase, rxEnabled, answer>>
  BY DEF Tick
<1>2. edge = -1 /\ edge' = -1 /\ phase' = -1
  <2>1. edge = -1
    BY DEF TypeInv, EdgeType
  <2> QED BY <1>1, <2>1
<1>3. Over' = Over /\ AtRest'
  BY <1>1, <1>2 DEF Over, AtRest
<1>4. CASE m = Over /\ Between(z)
  BY <1>3, <1>4 DEF Place, Between
<1>5. ASSUME NEW j \in 1 .. DataBits + 1, NEW l \in 0 .. MaxLatency, Past(z, j, l)
      PROVE  Past(z, j, l)'
  <2> DEFINE g == Since(z, j, l)
  <2>1. /\ Over >= 1 /\ g >= 0 /\ quiet <= g
        /\ out # << >> => g <= MaxGap /\ g = quiet
    BY <1>2, <1>5 DEF Past
  <2>2. g' = g + 1 /\ g \in Int
    <3> DEFINE e == z.cycle - j * BitCycles - l + Frame
    <3>1. e \in Int /\ now \in Int
      <4>1. z.cycle \in Int /\ now \in Int
        BY Sizes DEF RxOK, RxRecord, TypeInv, HubType
      <4>2. j * BitCycles \in Int /\ l \in Int /\ Frame \in Int
        BY Sizes
      <4> QED BY <4>1, <4>2
    <3>2. phase = -1 /\ phase' = -1 /\ now' = now + 1
      BY <1>1, <1>2
    <3>3. g = now - 0 - e
      BY <3>2 DEF Since
    <3>4. g' = now' - 0 - e
      BY <3>2 DEF Since
    <3> HIDE DEF e, g
    <3> QED BY <3>1, <3>2, <3>3, <3>4
  <2> HIDE DEF g
  <2>3. /\ MaxGap \in Nat /\ Silent \in Nat /\ MaxGap < Silent /\ quiet \in 0 .. Silent
    BY Sizes DEF Silent, TypeInv, BoardType
  <2>4. quiet' <= g'
    BY <1>1, <2>1, <2>2, <2>3 DEF Shortest
  <2>5. out # << >> => g' <= MaxGap /\ g' = quiet'
    <3> SUFFICES ASSUME out # << >> PROVE g' <= MaxGap /\ g' = quiet'
      OBVIOUS
    <3>1. out # answer
      <4>1. Len(out) # Len(answer)
        <5>1. Len(answer) \in Nat /\ Len(out) \in Nat
          BY LengthsAre DEF TypeInv
        <5> QED BY <2>1, <5>1 DEF Over
      <4> QED BY <4>1
    <3>2. quiet < MaxGap /\ g <= MaxGap /\ g = quiet
      BY <1>1, <2>1, <3>1
    <3> QED BY <1>1, <2>2, <2>3, <3>2 DEF Shortest
  <2>6. g' >= 0
    BY <2>1, <2>2
  <2>7. Recorded(z, answer[Over], z.cycle - j * BitCycles - l, j)'
    BY <1>1, <1>3, <1>5 DEF Past, Recorded
  <2>8. \A i \in j .. DataBits + 1 : Bit(answer'[Over'], i) = 1
    BY <1>1, <1>3, <1>5 DEF Past
  <2>9. Over' >= 1 /\ out' = out
    BY <1>1, <1>3, <2>1
  <2> QED BY <1>3, <2>4, <2>5, <2>6, <2>7, <2>8, <2>9 DEF Past, g
<1> QED BY <1>2, <1>3, <1>4, <1>5 DEF Place, UnderWay

(* Time passes in a frame whose beginning was not recorded yet.            *)
LEMMA PlaceTickWaiting ==
  ASSUME TypeInv, Tick, rxEnabled, phase # -1, edge # -1, NEW z, RxOK(z), NEW m, Place(z, m)
  PROVE  Place(z, m)'
<1>1. /\ now' = now + 1 /\ edge < MaxLatency
      /\ phase' = (IF phase + 1 = Frame THEN -1 ELSE phase + 1)
      /\ out' = (IF phase + 1 = Frame THEN Tail(out) ELSE out)
      /\ edge' = IF edge >= 0 THEN edge + 1
                 ELSE IF Changes(out', phase') THEN 0 ELSE edge
      /\ UNCHANGED <<rxEnabled, answer>>
  BY DEF Tick
<1>2. phase \in Nat /\ edge \in Nat /\ now \in Int
  BY Sizes DEF TypeInv, BoardType, EdgeType, HubType
<1>3. phase + 1 # Frame
  BY <1>1, EdgeInFrame DEF TypeInv
<1>4. phase' = phase + 1 /\ edge' = edge + 1 /\ out' = out /\ phase' # -1 /\ edge' # -1
  BY <1>1, <1>2, <1>3
<1>5. Over' = Over /\ phase' - edge' = phase - edge /\ now' - phase' = now - phase
  BY <1>1, <1>2, <1>4 DEF Over
<1>6. AtRest => AtRest'
  BY <1>2, <1>4 DEF AtRest
<1>7. CASE m = Over /\ Between(z)
  BY <1>5, <1>6, <1>7 DEF Place, Between
<1>8. ASSUME NEW j \in 0 .. DataBits + 1, UnderWay(z, j)
      PROVE  UnderWay(z, j)'
  <2>1. j * BitCycles <= phase'
    <3>1. j * BitCycles \in Int /\ j * BitCycles <= phase
      BY <1>8, Sizes DEF UnderWay
    <3> QED BY <1>2, <1>4, <3>1
  <2>2. Recorded(z, Head(out), now - phase, j)'
    BY <1>4, <1>5, <1>8 DEF UnderWay, Recorded
  <2>3. Seen(Head(out), j, z.level)'
    BY <1>4, <1>5, <1>8 DEF UnderWay, Seen
  <2> QED BY <1>4, <2>1, <2>2, <2>3 DEF UnderWay
<1>9. ASSUME NEW j \in 1 .. DataBits + 1, NEW l \in 0 .. MaxLatency, Past(z, j, l)
      PROVE  Past(z, j, l)'
  <2>1. Since(z, j, l)' = Since(z, j, l)
    BY <1>4, <1>5 DEF Since
  <2>2. answer'[Over'] = answer[Over]
    BY <1>1, <1>5
  <2> QED BY <1>4, <1>5, <1>6, <1>9, <2>1, <2>2 DEF Past, Recorded
<1> QED BY <1>5, <1>7, <1>8, <1>9 DEF Place

(* The next moment of a frame all of whose changes are recorded.           *)
LEMMA PlaceTickFrame ==
  ASSUME TypeInv, Tick, rxEnabled, phase # -1, edge = -1, phase + 1 # Frame,
         NEW z, RxOK(z), NEW j \in 0 .. DataBits + 1, UnderWay(z, j)
  PROVE  UnderWay(z, j)' /\ Over' = Over
<1> DEFINE b == Head(out)
<1>1. /\ now' = now + 1
      /\ phase' = phase + 1 /\ out' = out
      /\ edge' = IF Changes(out, phase + 1) THEN 0 ELSE -1
      /\ UNCHANGED <<rxEnabled, answer>>
  BY DEF Tick
<1>2. /\ phase \in 0 .. Frame - 1 /\ now \in Int /\ b \in Bytes /\ BitCycles \in Nat \ {0} /\ DataBits \in Nat
      /\ phase \in Int
  BY Sizes, HeadTailProperties DEF TypeInv, BoardType, HubType
<1> HIDE DEF b
<1>3. /\ j * BitCycles <= phase /\ Recorded(z, b, now - phase, j)
      /\ \A i \in j .. DataBits + 1 : i * BitCycles <= phase => Bit(b, i) = z.level
  BY DEF UnderWay, Seen, b
<1>4. PICK k \in 0 .. DataBits + 1 :
           /\ k * BitCycles \in Nat /\ k * BitCycles <= phase /\ phase < k * BitCycles + BitCycles
  BY <1>2, BitAt
<1>5. /\ phase + 1 \in 0 .. Frame - 1
      /\ \/ phase + 1 < k * BitCycles + BitCycles
         \/ k + 1 \in 1 .. DataBits + 1 /\ phase + 1 = (k + 1) * BitCycles
  BY <1>2, <1>4, NextBit
<1>6. Line(out, phase) = Bit(b, k)
  BY <1>2, <1>4, LevelIs DEF Line, b
<1>7. j <= k
  <2> SUFFICES ASSUME k < j PROVE FALSE
    BY <1>2
  <2>1. k * BitCycles + BitCycles <= j * BitCycles
    BY <1>2, Multiples
  <2>2. j * BitCycles \in Int
    BY <1>2
  <2> QED BY <1>2, <1>3, <1>4, <2>1, <2>2
<1>8. Bit(b, k) = z.level
  BY <1>2, <1>3, <1>4, <1>7
<1>9. /\ phase' # -1 /\ j * BitCycles <= phase' /\ Head(out') = b /\ now' - phase' = now - phase
  <2>1. j * BitCycles \in Int
    BY <1>2
  <2> QED BY <1>1, <1>2, <1>3, <2>1 DEF b
<1>10. Recorded(z, b, now' - phase', j)
  BY <1>3, <1>9
<1>11. ASSUME NEW i \in j .. DataBits + 1, i * BitCycles <= phase + 1
       PROVE  i <= k \/ (i = k + 1 /\ phase + 1 = i * BitCycles)
  <2>1. i \in Int /\ k \in Int /\ i * BitCycles \in Int
    BY <1>2
  <2>2. CASE phase + 1 < k * BitCycles + BitCycles
    <3> SUFFICES ASSUME k < i PROVE FALSE
      BY <2>1
    <3>1. k * BitCycles + BitCycles <= i * BitCycles
      BY <1>2, <2>1, Multiples
    <3> QED BY <1>2, <1>4, <1>11, <2>1, <2>2, <3>1
  <2>3. CASE phase + 1 = (k + 1) * BitCycles
    <3>1. (k + 1) * BitCycles \in Int
      BY <1>2
    <3>2. ~(k + 1 < i)
      <4> SUFFICES ASSUME k + 1 < i PROVE FALSE
        OBVIOUS
      <4>1. (k + 1) * BitCycles + BitCycles <= i * BitCycles
        BY <1>2, <2>1, Multiples
      <4> QED BY <1>2, <1>11, <2>1, <2>3, <3>1, <4>1
    <3> QED BY <2>1, <2>3, <3>2
  <2> QED BY <1>5, <2>2, <2>3
<1>12. ASSUME NEW i \in j .. k
       PROVE  Bit(b, i) = z.level
  <2>1. i \in j .. DataBits + 1 /\ i * BitCycles \in Int /\ i \in Int
    BY <1>2
  <2>2. i * BitCycles <= phase
    <3>1. CASE i = k
      BY <1>4, <3>1
    <3>2. CASE i < k
      <4>1. i * BitCycles + BitCycles <= k * BitCycles
        BY <1>2, <2>1, <3>2, Multiples
      <4> QED BY <1>2, <1>4, <2>1, <4>1
    <3> QED BY <1>2, <3>1, <3>2
  <2> QED BY <1>3, <2>1, <2>2
<1>13. CASE phase + 1 < k * BitCycles + BitCycles
  <2>1. Line(out, phase + 1) = Bit(b, k)
    <3>1. k * BitCycles <= phase + 1 /\ phase + 1 # -1
      BY <1>2, <1>4
    <3> QED BY <1>2, <1>5, <1>13, <3>1, LevelIs DEF Line, b
  <2>2. edge' = -1
    BY <1>1, <1>6, <2>1 DEF Changes
  <2>3. ASSUME NEW i \in j .. DataBits + 1, i * BitCycles <= phase + 1
        PROVE  Bit(b, i) = z.level
    <3>1. i <= k
      <4>1. (k + 1) * BitCycles = k * BitCycles + BitCycles
        BY <1>2
      <4>2. i = k + 1 => ~(phase + 1 = i * BitCycles)
        BY <1>2, <1>4, <1>13, <4>1
      <4> QED BY <1>11, <2>3, <4>2
    <3>2. i \in j .. k
      BY <1>2, <3>1
    <3> QED BY <1>12, <3>2
  <2>4. Seen(b, j, z.level)'
    BY <1>1, <1>9, <2>2, <2>3 DEF Seen, b
  <2> QED BY <1>1, <1>9, <1>10, <2>4 DEF UnderWay, Over, b
<1>14. CASE k + 1 \in 1 .. DataBits + 1 /\ phase + 1 = (k + 1) * BitCycles
  <2> DEFINE n == k + 1
  <2>0. n \in j + 1 .. DataBits + 1 /\ n \in 0 .. DataBits + 1 /\ n \in Int /\ n * BitCycles = phase + 1
        /\ n - 1 = k
    BY <1>2, <1>7, <1>14
  <2> HIDE DEF n
  <2>1. Line(out, phase + 1) = Bit(b, n)
    <3>1. n * BitCycles <= phase + 1 /\ phase + 1 < n * BitCycles + BitCycles /\ phase + 1 # -1
      BY <1>2, <2>0
    <3> QED BY <1>2, <1>5, <2>0, <3>1, LevelIs DEF Line, b
  <2>2. CASE Bit(b, n) = z.level
    <3>1. edge' = -1
      BY <1>1, <1>6, <1>8, <2>1, <2>2 DEF Changes
    <3>2. ASSUME NEW i \in j .. DataBits + 1, i * BitCycles <= phase + 1
          PROVE  Bit(b, i) = z.level
      <4>1. i \in j .. k \/ i = n
        BY <1>2, <1>11, <2>0, <3>2
      <4> QED BY <1>12, <2>2, <4>1
    <3>3. Seen(b, j, z.level)'
      BY <1>1, <1>9, <3>1, <3>2 DEF Seen, b
    <3> QED BY <1>1, <1>9, <1>10, <3>3 DEF UnderWay, Over, b
  <2>3. CASE Bit(b, n) # z.level
    <3>1. edge' = 0
      BY <1>1, <1>6, <1>8, <2>1, <2>3 DEF Changes
    <3>2. n * BitCycles = phase' - edge' /\ edge' # -1
      BY <1>1, <1>2, <2>0, <3>1
    <3>3. \A i \in j .. n - 1 : Bit(b, i) = z.level
      BY <1>12, <2>0
    <3>4. Seen(b, j, z.level)'
      BY <1>1, <2>0, <2>3, <3>2, <3>3 DEF Seen, b
    <3> QED BY <1>1, <1>9, <1>10, <3>4 DEF UnderWay, Over, b
  <2> QED BY <2>2, <2>3
<1> QED BY <1>5, <1>13, <1>14

(* The end of a frame that is being decoded: the byte is complete on the   *)
(* line, and the decoder will know by the time that passes.                *)
LEMMA PlaceTickEnd ==
  ASSUME TypeInv, Tick, rxEnabled, phase # -1, edge = -1, phase + 1 = Frame,
         NEW z, RxOK(z), NEW j \in 0 .. DataBits + 1, UnderWay(z, j)
  PROVE  /\ Over' = Over + 1
         /\ j \in 1 .. DataBits + 1 /\ \E l \in 0 .. MaxLatency : Past(z, j, l)'
<1>1. /\ now' = now + 1 /\ quiet' = 0
      /\ phase' = -1 /\ out' = Tail(out)
      /\ edge' = IF Changes(out', phase') THEN 0 ELSE -1
      /\ UNCHANGED <<rxEnabled, answer>>
  BY DEF Tick
<1>2. /\ phase \in Int /\ now \in Int /\ Head(out) \in Bytes /\ BitCycles \in Nat \ {0} /\ DataBits \in Nat
      /\ MaxLatency \in Nat /\ MaxGap \in Nat /\ Frame \in Int
  BY Sizes, HeadTailProperties DEF TypeInv, BoardType, HubType
<1>3. z.cycle \in Int /\ z.level \in {0, 1} /\ j * BitCycles \in Int
  BY <1>2 DEF RxOK, RxRecord
<1> PICK b : b = Head(out)
  OBVIOUS
<1> PICK s : s = now - phase
  OBVIOUS
<1>4. edge' = -1
  <2>1. ~(Line(out', phase') # Line(out, phase))
    <3>1. Line(out', phase') # Line(out, phase) => phase' = phase + 1
      BY <1>1, ChangeAtBit DEF TypeInv
    <3>2. phase' # phase + 1
      BY <1>1, <1>2, Sizes
    <3> QED BY <3>1, <3>2
  <2> QED BY <1>1, <2>1 DEF Changes
<1>5. /\ Over' = Over + 1 /\ Over \in Nat /\ answer'[Over'] = b
  <2>1. /\ out \in Seq(Bytes) /\ out # << >>
    BY DEF TypeInv, BoardType
  <2>2. Len(Tail(out)) = Len(out) - 1 /\ b = out[1] /\ Len(out) \in Nat
    BY <2>1, HeadTailProperties, LenProperties
  <2>3. /\ Len(answer) \in Nat /\ Over \in Nat /\ out[1] = answer[Over + 1]
    BY <2>1, LengthsAre DEF TypeInv
  <2>4. Over' = Over + 1
    <3>1. Len(out') = Len(out) - 1 /\ Len(answer') = Len(answer)
      BY <1>1, <2>2
    <3> QED BY <2>2, <2>3, <3>1 DEF Over
  <2> QED BY <1>1, <2>2, <2>3, <2>4
<1>6. /\ j * BitCycles <= phase /\ Recorded(z, b, s, j)
      /\ \A i \in j .. DataBits + 1 : i * BitCycles <= phase => Bit(b, i) = z.level
  BY DEF UnderWay, Seen
<1>7. s = now - phase /\ s \in Int
  BY <1>2
<1>8. PICK l \in 0 .. MaxLatency : l \in Int /\ z.cycle - j * BitCycles - l = s
  <2>1. z.cycle - (s + j * BitCycles) \in 0 .. MaxLatency
    BY <1>6 DEF Recorded
  <2>2. z.cycle - (s + j * BitCycles) \in Int
        /\ z.cycle - j * BitCycles - (z.cycle - (s + j * BitCycles)) = s
    BY <1>3, <1>7
  <2> QED BY <2>1, <2>2
<1>9. ASSUME NEW i \in j .. DataBits + 1
      PROVE  Bit(b, i) = z.level
  <2>1. i * BitCycles <= (DataBits + 1) * BitCycles
    <3>1. CASE i = DataBits + 1
      BY <1>2, <3>1
    <3>2. CASE i < DataBits + 1
      <4>1. i \in Int /\ DataBits + 1 \in Int /\ i * BitCycles \in Int /\ (DataBits + 1) * BitCycles \in Int
        BY <1>2
      <4>2. i * BitCycles + BitCycles <= (DataBits + 1) * BitCycles
        BY <1>2, <3>2, <4>1, Multiples
      <4> QED BY <1>2, <4>1, <4>2
    <3> QED BY <1>2, <3>1, <3>2
  <2>2. i * BitCycles <= phase
    <3>1. i * BitCycles \in Int /\ (DataBits + 1) * BitCycles \in Int
      BY <1>2
    <3> QED BY <1>2, <2>1, <3>1, LastBit
  <2> QED BY <1>6, <2>2
<1>10. z.level = 1
  <2>1. DataBits + 1 \in j .. DataBits + 1 /\ DataBits + 1 # 0 /\ ~(DataBits + 1 <= DataBits)
    BY <1>2
  <2>2. Bit(b, DataBits + 1) = 1
    BY <2>1 DEF Bit
  <2> QED BY <1>9, <2>1, <2>2
<1>11. j \in 1 .. DataBits + 1
  <2>1. j # 0
    BY <1>6, <1>10 DEF Recorded
  <2> QED BY <2>1
<1>12. Past(z, j, l)'
  <2>1. Since(z, j, l)' = 0
    <3>1. Since(z, j, l)' = now + 1 - 0 - (s + Frame)
      <4>1. Since(z, j, l)' = now' - 0 - (z.cycle - j * BitCycles - l + Frame)
        BY <1>1 DEF Since
      <4> QED BY <1>1, <1>2, <1>7, <1>8, <4>1
    <3> QED BY <1>2, <1>7, <3>1
  <2>2. AtRest'
    BY <1>1, <1>4 DEF AtRest
  <2>3. Recorded(z, answer[Over], z.cycle - j * BitCycles - l, j)'
    BY <1>5, <1>6, <1>8 DEF Recorded
  <2>4. \A i \in j .. DataBits + 1 : Bit(answer'[Over'], i) = 1
    BY <1>5, <1>9, <1>10
  <2>5. Over' >= 1 /\ quiet' <= 0 /\ 0 >= 0 /\ 0 <= MaxGap
    BY <1>1, <1>2, <1>5
  <2> QED BY <1>1, <2>1, <2>2, <2>3, <2>4, <2>5 DEF Past
<1> QED BY <1>5, <1>8, <1>11, <1>12

LEMMA PlaceTick ==
  ASSUME TypeInv, Tick, rxEnabled, NEW z, RxOK(z), NEW m, Place(z, m)
  PROVE  Place(z, m)'
<1>1. CASE phase = -1
  BY <1>1, PlaceTickSilent
<1>2. CASE phase # -1 /\ edge # -1
  BY <1>2, PlaceTickWaiting
<1>3. CASE phase # -1 /\ edge = -1
  <2>1. ~AtRest
    BY <1>3 DEF AtRest
  <2>2. m = Over /\ \E j \in 0 .. DataBits + 1 : UnderWay(z, j)
    BY <2>1 DEF Place, Between, Past
  <2>3. PICK j \in 0 .. DataBits + 1 : UnderWay(z, j)
    BY <2>2
  <2>4. CASE phase + 1 # Frame
    <3>1. UnderWay(z, j)' /\ Over' = Over
      BY <1>3, <2>3, <2>4, PlaceTickFrame
    <3> QED BY <2>2, <3>1 DEF Place
  <2>5. CASE phase + 1 = Frame
    <3>1. /\ Over' = Over + 1
          /\ j \in 1 .. DataBits + 1 /\ \E l \in 0 .. MaxLatency : Past(z, j, l)'
      BY <1>3, <2>3, <2>5, PlaceTickEnd
    <3>2. Over \in Nat
      BY LengthsAre DEF TypeInv
    <3>3. m = Over' - 1
      BY <2>2, <3>1, <3>2
    <3> QED BY <3>1, <3>3 DEF Place
  <2> QED BY <2>4, <2>5
<1> QED BY <1>1, <1>2, <1>3

(* The bits up to a change, put behind those before, are those of b.       *)
LEMMA BitsUpTo ==
  ASSUME NEW b \in Bytes, NEW j \in 1 .. DataBits + 1, NEW k \in j .. DataBits + 1,
         NEW v \in {0, 1}, \A i \in j .. k - 1 : Bit(b, i) = v,
         NEW byte, byte = FirstBits(b, j - 1)
  PROVE  byte \o Bits(v, k - j) = FirstBits(b, k - 1)
<1> DEFINE t == FirstBits(b, k - 1)
           n == k - j
           s == byte \o Bits(v, n)
<1>1. DataBits \in Nat /\ j - 1 \in Nat /\ k - 1 \in Nat /\ n \in Nat /\ n = k - j
  BY Sizes
<1>2. \A i \in 1 .. DataBits : b[i] \in {0, 1}
  BY DEF Bytes
<1>3. byte \in Seq({0, 1}) /\ Len(byte) = j - 1 /\ \A i \in 1 .. j - 1 : byte[i] = b[i]
  <2>1. \A i \in 1 .. j - 1 : b[i] \in {0, 1}
    BY <1>1, <1>2
  <2> QED BY <1>1, <2>1 DEF FirstBits
<1>4. t \in Seq({0, 1}) /\ Len(t) = k - 1 /\ \A i \in 1 .. k - 1 : t[i] = b[i]
  <2>1. \A i \in 1 .. k - 1 : b[i] \in {0, 1}
    BY <1>1, <1>2
  <2> QED BY <1>1, <2>1 DEF FirstBits
<1> HIDE DEF t, n
<1>5. /\ s \in Seq({0, 1}) /\ Len(s) = Len(byte) + n
      /\ \A i \in 1 .. Len(byte) + n : s[i] = IF i <= Len(byte) THEN byte[i] ELSE v
  BY <1>1, <1>3, MoreBits
<1> HIDE DEF s
<1>6. Len(s) = k - 1
  BY <1>1, <1>3, <1>5
<1>7. ASSUME NEW i \in 1 .. k - 1
      PROVE  s[i] = t[i]
  <2>1. CASE i <= j - 1
    BY <1>1, <1>3, <1>4, <1>5, <1>6, <2>1
  <2>2. CASE ~(i <= j - 1)
    <3>1. i \in j .. k - 1 /\ i # 0 /\ i <= DataBits
      BY <1>1, <2>2
    <3>2. b[i] = v
      BY <3>1 DEF Bit
    <3>3. s[i] = v
      BY <1>1, <1>3, <1>5, <1>6, <2>2
    <3> QED BY <1>4, <3>2, <3>3
  <2> QED BY <2>1, <2>2
<1>8. s = t
  BY <1>4, <1>5, <1>6, <1>7, SeqEqual
<1> QED BY <1>8 DEF s, t, n

(* A byte whose frame is over lacks nothing but high bits.                 *)
LEMMA PastByte ==
  ASSUME TypeInv, NEW z, RxOK(z), NEW j \in 1 .. DataBits + 1, NEW l \in 0 .. MaxLatency,
         Past(z, j, l)
  PROVE  /\ z.bit = j - 2 /\ z.bit < DataBits /\ z.level = 1
         /\ Over \in 1 .. Len(answer) /\ answer[Over] \in Bytes
         /\ z.byte \o Bits(1, DataBits - 1 - z.bit) = answer[Over]
<1>1. Over \in 1 .. Len(answer)
  <2>1. Over \in Nat /\ Over <= Len(answer) /\ Len(answer) \in Nat /\ Over >= 1
    BY LengthsAre DEF TypeInv, Past
  <2> QED BY <2>1
<1>2. PICK b \in Bytes : b = answer[Over]
  BY <1>1, ElementOfSeq DEF TypeInv, BoardType
<1>3. DataBits \in Nat /\ j # 0
  BY Sizes
<1>4. z.bit = j - 2 /\ z.byte = FirstBits(b, j - 1) /\ z.level = Bit(b, j)
  BY <1>2, <1>3 DEF Past, Recorded
<1>5. \A i \in j .. DataBits + 1 : Bit(b, i) = 1
  BY <1>2 DEF Past
<1>6. z.level = 1 /\ z.bit < DataBits /\ DataBits - 1 - z.bit = DataBits + 1 - j
  BY <1>3, <1>4, <1>5
<1>7. z.byte \o Bits(1, DataBits + 1 - j) = FirstBits(b, DataBits)
  <2> DEFINE k == DataBits + 1
  <2>1. k \in j .. DataBits + 1 /\ \A i \in j .. k - 1 : Bit(b, i) = 1
    BY <1>3, <1>5
  <2>2. DataBits + 1 - j = k - j /\ DataBits = k - 1 /\ 1 \in {0, 1}
    BY <1>3
  <2> HIDE DEF k
  <2>3. z.byte \o Bits(1, k - j) = FirstBits(b, k - 1)
    BY <1>4, <2>1, <2>2, BitsUpTo
  <2> QED BY <2>2, <2>3
<1>8. FirstBits(b, DataBits) = b
  BY DEF Bytes, FirstBits
<1> QED BY <1>1, <1>2, <1>4, <1>6, <1>7, <1>8

(* The beginning of a frame is recorded.                                   *)
LEMMA StartRecorded ==
  ASSUME TypeInv, RxBitISR, phase # -1, edge = phase,
         NEW t, t.cycle = now, t.level = Line(out, phase), t.bit = DataBits
  PROVE  UnderWay(t, 0)'
<1>1. edge' = -1 /\ UNCHANGED <<out, phase, now>>
  BY DEF RxBitISR, boardVars
<1>2. /\ phase \in 0 .. MaxLatency /\ phase \in 0 .. Frame - 1 /\ out # << >> /\ now \in Int
  <2>1. /\ phase \in -1 .. Frame - 1 /\ edge \in -1 .. MaxLatency /\ Frame \in Nat /\ MaxLatency \in Nat
        /\ out # << >> /\ now \in Int
    BY Sizes DEF TypeInv, BoardType, EdgeType, HubType
  <2> QED BY <2>1
<1>3. Line(out, phase) = 0 /\ \A i \in 0 .. DataBits + 1 : i * BitCycles <= phase => i = 0
  BY <1>2, StartIsLow DEF TypeInv
<1>4. PICK b : b = Head(out)
  OBVIOUS
<1>5. 0 * BitCycles = 0
  BY Sizes
<1>6. Recorded(t, b, now - phase, 0)
  <2>1. t.cycle - (now - phase + 0 * BitCycles) = phase
    BY <1>2, <1>5
  <2> QED BY <1>2, <1>3, <2>1 DEF Recorded
<1>7. \A i \in 0 .. DataBits + 1 : i * BitCycles <= phase => Bit(b, i) = t.level
  BY <1>3 DEF Bit
<1>8. Recorded(t, Head(out), now - phase, 0)'
  BY <1>1, <1>4, <1>6 DEF Recorded
<1>9. Seen(Head(out), 0, t.level)'
  BY <1>1, <1>4, <1>7 DEF Seen
<1>10. 0 * BitCycles <= phase
  BY <1>2, <1>5
<1> QED BY <1>1, <1>8, <1>9, <1>10 DEF UnderWay

(* What the interrupt records.                                             *)
Recording(c) == c \in ChangeRecord /\ c.cycle = now /\ c.level = Line(out, phase)

(* The first change after a pause, ...                                     *)
LEMMA RecordStart ==
  ASSUME TypeInv, RxBitISR, NEW z, RxOK(z), Between(z),
         NEW t, NEW c, Recording(c), t = Decode(z, c)
  PROVE  UnderWay(t, 0)' /\ Untouched(z, t)
<1>1. phase # -1 /\ edge = phase /\ z.bit = DataBits /\ z.level = 1
  BY DEF RxBitISR, TypeInv, EdgeType, Between, AtRest
<1>2. t.cycle = now /\ t.level = Line(out, phase) /\ t.bit = DataBits /\ Untouched(z, t)
  BY <1>1, DecodeIdle DEF Recording
<1> QED BY <1>1, <1>2, StartRecorded

(* ... a change within a frame ...                                         *)
LEMMA RecordBit ==
  ASSUME TypeInv, RxBitISR, NEW z, RxOK(z), NEW j \in 0 .. DataBits + 1, UnderWay(z, j),
         NEW t, NEW c, Recording(c), t = Decode(z, c)
  PROVE  (\E k \in 0 .. DataBits + 1 : UnderWay(t, k)') /\ Untouched(z, t)
<1>1. edge' = -1 /\ edge # -1 /\ UNCHANGED <<out, phase, now>>
  BY Sizes DEF RxBitISR, boardVars
<1>2. /\ phase \in 0 .. Frame - 1 /\ phase \in Int /\ now \in Int /\ edge \in 0 .. MaxLatency
      /\ out # << >> /\ Head(out) \in Bytes
  BY <1>1, Sizes, HeadTailProperties DEF TypeInv, BoardType, HubType, EdgeType
<1>3. PICK b \in Bytes : b = Head(out)
  BY <1>2
<1>4. PICK s \in Int : s = now - phase
  BY <1>2
<1>5. PICK l \in 0 .. MaxLatency : l = z.cycle - (s + j * BitCycles)
  BY <1>3, <1>4 DEF UnderWay, Recorded
<1>6. PICK k \in j + 1 .. DataBits + 1 :
           /\ k * BitCycles = phase - edge /\ Bit(b, k) # z.level
           /\ \A i \in j .. k - 1 : Bit(b, i) = z.level
  BY <1>1, <1>3 DEF UnderWay, Seen
<1>7. /\ DataBits \in Nat \ {0} /\ BitCycles \in Nat \ {0} /\ MaxLatency \in Nat
      /\ 2 * MaxLatency < BitCycles
      /\ z.cycle \in Int /\ z.bit \in -1 .. DataBits /\ z.level \in {0, 1}
      /\ j * BitCycles \in Int /\ k * BitCycles \in Int
  BY Sizes DEF RxOK, RxRecord
<1>8. k * BitCycles <= phase /\ phase < k * BitCycles + BitCycles
  BY <1>2, <1>6, <1>7
<1>9. Line(out, phase) = Bit(b, k)
  <2>1. k \in 0 .. DataBits + 1 /\ phase # -1
    BY <1>2, <1>7
  <2> QED BY <1>2, <1>3, <1>8, <2>1, LevelIs DEF Line
<1>10. PICK n \in Nat \ {0} : n = k - j /\ n < Wrap
  <2>1. k - j \in Nat \ {0} /\ k - j <= DataBits + 1
    BY <1>7
  <2>2. k - j < Wrap
    BY <1>7, <2>1, Sizes, WrapIsLong
  <2> QED BY <2>1, <2>2
<1>11. BitCount(c.cycle - z.cycle) = n
  <2>1. n * BitCycles = k * BitCycles - j * BitCycles
    BY <1>7, <1>10
  <2>2. n * BitCycles \in Int /\ edge \in Int /\ l \in Int
    BY <1>2, <1>7
  <2>3. c.cycle - z.cycle = n * BitCycles + (edge - l)
    <3>1. z.cycle = s + j * BitCycles + l
      BY <1>5, <1>7, <2>2
    <3>2. k * BitCycles = phase - edge /\ s = now - phase /\ c.cycle = now
      BY <1>4, <1>6 DEF Recording
    <3>3. PICK u \in Int, v \in Int, w \in Int :
               u = j * BitCycles /\ v = k * BitCycles /\ w = n * BitCycles
      BY <1>7, <2>2
    <3>4. PICK at \in Int : at = z.cycle
      BY <1>7
    <3>5. /\ w = v - u /\ at = s + u + l /\ v = phase - edge /\ s = now - phase
          /\ phase \in Int /\ now \in Int
      BY <1>2, <2>1, <3>1, <3>2, <3>3, <3>4
    <3>6. now - at = w + (edge - l)
      BY <2>2, <3>5
    <3> QED BY <3>2, <3>3, <3>4, <3>6
  <2>4. edge - l \in Int /\ 0 - MaxLatency <= edge - l /\ edge - l <= MaxLatency
    BY <1>2, <1>7
  <2>5. BitCount(n * BitCycles + (edge - l)) = n
    BY <1>10, <2>4, BitCountOf
  <2> QED BY <2>3, <2>5
<1>12. /\ t.cycle = now /\ t.level = Bit(b, k) /\ t.bit = k - 2 /\ t.byte = FirstBits(b, k - 1)
       /\ Untouched(z, t)
  <2>1. CASE j = 0
    <3>1. z.bit = DataBits /\ z.level = 0
      BY <1>3, <2>1 DEF UnderWay, Recorded
    <3>2. n - 1 <= DataBits /\ k - 2 = -1 + (n - 1)
      BY <1>7, <1>10, <2>1
    <3>3. /\ t.cycle = c.cycle /\ t.level = c.level /\ t.bit = -1 + (n - 1)
          /\ t.byte = << >> \o Bits(0, n - 1) /\ Untouched(z, t)
      BY <1>11, <3>1, <3>2, DecodeBits DEF Recording
    <3>4. << >> \o Bits(0, n - 1) = FirstBits(b, k - 1)
      <4>1. 1 \in 1 .. DataBits + 1 /\ k \in 1 .. DataBits + 1 /\ n - 1 = k - 1 /\ 0 \in {0, 1}
        BY <1>7, <1>10, <2>1
      <4>2. \A i \in 1 .. k - 1 : Bit(b, i) = 0
        BY <1>6, <1>7, <2>1, <3>1
      <4>3. << >> = FirstBits(b, 1 - 1)
        BY DEF FirstBits
      <4>4. << >> \o Bits(0, k - 1) = FirstBits(b, k - 1)
        BY <4>1, <4>2, <4>3, BitsUpTo
      <4> QED BY <4>1, <4>4
    <3> QED BY <1>9, <3>2, <3>3, <3>4 DEF Recording
  <2>2. CASE j # 0
    <3>1. z.bit = j - 2 /\ z.byte = FirstBits(b, j - 1) /\ z.bit # DataBits /\ z.bit < DataBits
      BY <1>3, <1>7, <2>2 DEF UnderWay, Recorded
    <3>2. n <= DataBits - 1 - z.bit /\ k - 2 = z.bit + n
      BY <1>7, <1>10, <3>1
    <3>3. /\ t.cycle = c.cycle /\ t.level = c.level /\ t.bit = z.bit + n
          /\ t.byte = z.byte \o Bits(z.level, n) /\ Untouched(z, t)
      BY <1>11, <3>1, <3>2, DecodeBits DEF Recording
    <3>4. z.byte \o Bits(z.level, k - j) = FirstBits(b, k - 1)
      <4>1. j \in 1 .. DataBits + 1 /\ k \in j .. DataBits + 1
        BY <1>7, <2>2
      <4>2. PICK v, byte : v = z.level /\ byte = z.byte
        OBVIOUS
      <4>3. v \in {0, 1} /\ \A i \in j .. k - 1 : Bit(b, i) = v
        BY <1>6, <1>7, <4>2
      <4>4. byte = FirstBits(b, j - 1)
        BY <3>1, <4>2
      <4>5. byte \o Bits(v, k - j) = FirstBits(b, k - 1)
        BY <4>1, <4>3, <4>4, BitsUpTo
      <4> QED BY <4>2, <4>5
    <3> QED BY <1>9, <1>10, <3>2, <3>3, <3>4 DEF Recording
  <2> QED BY <2>1, <2>2
<1>13. UnderWay(t, k)'
  <2>1. Recorded(t, b, s, k)
    <3>1. t.cycle - (s + k * BitCycles) = edge
      BY <1>2, <1>4, <1>6, <1>7, <1>12
    <3>2. k # 0
      BY <1>7
    <3> QED BY <1>2, <1>12, <3>1, <3>2 DEF Recorded
  <2>2. Recorded(t, Head(out), now - phase, k)'
    BY <1>1, <1>3, <1>4, <2>1 DEF Recorded
  <2>3. ASSUME NEW i \in k .. DataBits + 1, i * BitCycles <= phase
        PROVE  Bit(b, i) = t.level
    <3>1. i = k
      <4> SUFFICES ASSUME k < i PROVE FALSE
        BY <1>7
      <4>1. i \in Int /\ i * BitCycles \in Int /\ k \in Int
        BY <1>7
      <4>2. k * BitCycles + BitCycles <= i * BitCycles
        BY <1>7, <4>1, Multiples
      <4> QED BY <1>2, <1>7, <1>8, <2>3, <4>1, <4>2
    <3> QED BY <1>12, <3>1
  <2>4. Seen(Head(out), k, t.level)'
    BY <1>1, <1>3, <2>3 DEF Seen
  <2> QED BY <1>1, <1>2, <1>8, <2>2, <2>4 DEF UnderWay
<1>14. k \in 0 .. DataBits + 1
  BY <1>7
<1> QED BY <1>12, <1>13, <1>14

(* How long ago a byte began that is over.                                 *)
LEMMA PastLength ==
  ASSUME TypeInv, NEW z, RxOK(z), NEW j \in 1 .. DataBits + 1, NEW l \in 0 .. MaxLatency,
         Past(z, j, l), out # << >>, NEW d, d = now - z.cycle
  PROVE  BitCount(d) >= DataBits + 2 - j
<1> DEFINE g == Since(z, j, l)
           p == IF phase = -1 THEN 0 ELSE phase
<1>1. /\ DataBits \in Nat \ {0} /\ BitCycles \in Nat \ {0} /\ MaxLatency \in Nat
      /\ 2 * MaxLatency < BitCycles /\ MaxGap \in Nat /\ Frame \in Nat
      /\ Frame = (DataBits + 2) * BitCycles /\ MaxGap + Frame < (Wrap - 1) * BitCycles
      /\ (Wrap - 1) * BitCycles \in Int
      /\ z.cycle \in Int /\ now \in Int /\ j * BitCycles \in Int
      /\ (DataBits + 2 - j) * BitCycles \in Int
  BY Sizes DEF RxOK, RxRecord, TypeInv, HubType
<1>2. p \in 0 .. MaxLatency
  BY Sizes DEF Past, AtRest, TypeInv, BoardType, EdgeType
<1>3. g = now - p - (z.cycle - j * BitCycles - l + Frame)
  BY DEF Since
<1>4. g >= 0 /\ g <= MaxGap
  BY DEF Past
<1> HIDE DEF g, p
<1>5. (DataBits + 2 - j) * BitCycles = Frame - j * BitCycles
  BY <1>1
<1>6. l \in Int /\ p \in Int
  BY <1>1, <1>2
<1>7. d = g + p - l + Frame - j * BitCycles /\ g \in Int
  <2>1. PICK e \in Int : e = j * BitCycles
    BY <1>1
  <2>2. PICK y \in Int : y = z.cycle
    BY <1>1
  <2>3. g = now - p - (y - e - l + Frame) /\ d = now - y
    BY <1>3, <2>1, <2>2
  <2>4. d = g + p - l + Frame - e /\ g \in Int
    BY <1>1, <1>6, <2>3
  <2> QED BY <2>1, <2>4
<1>8. BitCycles <= j * BitCycles
  <2>1. CASE j = 1
    BY <1>1, <2>1
  <2>2. CASE 1 < j
    <3>1. 1 * BitCycles + BitCycles <= j * BitCycles /\ 1 * BitCycles = BitCycles
      BY <1>1, <2>2, Multiples
    <3> QED BY <1>1, <3>1
  <2> QED BY <2>1, <2>2
<1>9. /\ (DataBits + 2 - j) * BitCycles - MaxLatency <= d /\ d <= (Wrap - 1) * BitCycles
      /\ d \in Int
  BY <1>1, <1>2, <1>4, <1>5, <1>6, <1>7, <1>8
<1>10. DataBits + 2 - j \in Nat
  BY <1>1
<1> QED BY <1>9, <1>10, BitCountAtLeast

(* ... and the beginning of a frame behind a byte that is not complete:    *)
(* it is complete with this change.                                        *)
LEMMA RecordNext ==
  ASSUME TypeInv, RxBitISR, NEW z, RxOK(z), NEW j \in 1 .. DataBits + 1,
         NEW l \in 0 .. MaxLatency, Past(z, j, l),
         NEW t, NEW c, Recording(c), t = Decode(z, c)
  PROVE  UnderWay(t, 0)' /\ Pushed(z, t, answer[Over])
<1>1. phase # -1 /\ edge = phase /\ out # << >>
  BY DEF RxBitISR, TypeInv, BoardType, EdgeType, Past, AtRest
<1>2. /\ z.bit = j - 2 /\ z.bit < DataBits /\ z.level = 1
      /\ z.byte \o Bits(1, DataBits - 1 - z.bit) = answer[Over]
  BY PastByte
<1>3. BitCount(c.cycle - z.cycle) >= DataBits - z.bit
  <2>1. BitCount(c.cycle - z.cycle) >= DataBits + 2 - j
    BY <1>1, PastLength DEF Recording
  <2>2. DataBits - z.bit = DataBits + 2 - j
    BY <1>2, Sizes
  <2> QED BY <2>1, <2>2
<1>4. t.bit = DataBits /\ Pushed(z, t, answer[Over])
  BY <1>2, <1>3, CompleteFirst DEF Recording
<1>5. t.cycle = now /\ t.level = Line(out, phase)
  BY DecodeType DEF Recording
<1> QED BY <1>1, <1>4, <1>5, StartRecorded

-----------------------------------------------------------------------------
(* What decoding does to the buffer                                        *)

Alike(q, r) == q.bit = r.bit /\ q.byte = r.byte /\ q.cycle = r.cycle /\ q.level = r.level

(* Two decoders that differ in their buffers only push the same byte.      *)
LEMMA DecodeAlike ==
  ASSUME NEW q, RxOK(q), NEW r, RxOK(r), Alike(q, r), NEW c \in ChangeRecord
  PROVE  /\ Alike(Decode(q, c), Decode(r, c))
         /\ \/ Untouched(q, Decode(q, c)) /\ Untouched(r, Decode(r, c))
            \/ \E b \in Bytes : Pushed(q, Decode(q, c), b) /\ Pushed(r, Decode(r, c), b)
<1> DEFINE x == BitCount(c.cycle - r.cycle)
<1>1. x \in Nat /\ r.bit \in -1 .. DataBits /\ r.level \in {0, 1} /\ DataBits \in Nat
  <2>1. c.cycle - r.cycle \in Int /\ r.bit \in -1 .. DataBits /\ r.level \in {0, 1}
    BY DEF ChangeRecord, RxOK, RxRecord
  <2> QED BY <2>1, BitCountType, Sizes
<1>2. CASE x = 0 \/ (r.bit = DataBits /\ r.level = 1)
  <2>1. /\ Decode(q, c).cycle = c.cycle /\ Decode(q, c).level = c.level
        /\ Decode(q, c).bit = q.bit /\ Decode(q, c).byte = q.byte /\ Untouched(q, Decode(q, c))
    BY <1>2, DecodeIdle DEF Alike
  <2>2. /\ Decode(r, c).cycle = c.cycle /\ Decode(r, c).level = c.level
        /\ Decode(r, c).bit = r.bit /\ Decode(r, c).byte = r.byte /\ Untouched(r, Decode(r, c))
    BY <1>2, DecodeIdle
  <2> QED BY <2>1, <2>2 DEF Alike
<1>3. CASE x # 0 /\ (r.bit < DataBits \/ r.level = 0)
  <2>1. PICK n \in Nat \ {0} : n = x
    BY <1>1, <1>3
  <2>2. PICK d : d = IF r.bit = DataBits THEN DataBits ELSE DataBits - 1 - r.bit
    OBVIOUS
  <2>3. PICK m : m = IF r.bit = DataBits THEN n - 1 ELSE n
    OBVIOUS
  <2>4. PICK before : before = IF r.bit = DataBits THEN << >> ELSE r.byte
    OBVIOUS
  <2>5. PICK bit : bit = IF r.bit = DataBits THEN -1 ELSE r.bit
    OBVIOUS
  <2> DEFINE After(o, t) ==
        /\ t.cycle = c.cycle /\ t.level = c.level
        /\ m <= d => t.bit = bit + m /\ t.byte = before \o Bits(r.level, m) /\ Untouched(o, t)
        /\ m > d => /\ t.bit = DataBits /\ t.byte = << >>
                    /\ before \o Bits(r.level, d) \in Bytes
                    /\ r.level = 1 => Pushed(o, t, before \o Bits(r.level, d))
                    /\ r.level = 0 => Untouched(o, t)
  <2>6. After(r, Decode(r, c))
    BY <1>3, <2>1, <2>2, <2>3, <2>4, <2>5, DecodeBits
  <2>7. After(q, Decode(q, c))
    <3>1. BitCount(c.cycle - q.cycle) = n /\ (q.bit < DataBits \/ q.level = 0)
          /\ q.bit = r.bit /\ q.byte = r.byte /\ q.level = r.level
      BY <1>3, <2>1 DEF Alike
    <3>2. /\ d = (IF q.bit = DataBits THEN DataBits ELSE DataBits - 1 - q.bit)
          /\ m = (IF q.bit = DataBits THEN n - 1 ELSE n)
          /\ before = (IF q.bit = DataBits THEN << >> ELSE q.byte)
          /\ bit = (IF q.bit = DataBits THEN -1 ELSE q.bit)
      BY <3>1, <2>2, <2>3, <2>4, <2>5
    <3>3. LET t == Decode(q, c) IN
          /\ t.cycle = c.cycle /\ t.level = c.level
          /\ m <= d => t.bit = bit + m /\ t.byte = before \o Bits(q.level, m) /\ Untouched(q, t)
          /\ m > d => /\ t.bit = DataBits /\ t.byte = << >>
                      /\ before \o Bits(q.level, d) \in Bytes
                      /\ q.level = 1 => Pushed(q, t, before \o Bits(q.level, d))
                      /\ q.level = 0 => Untouched(q, t)
      BY <3>1, <3>2, DecodeBits
    <3> QED BY <3>1, <3>3
  <2>8. m \in Int /\ d \in Int
    BY <1>1, <2>2, <2>3
  <2>9. CASE m <= d
    <3>1. ~(m > d)
      BY <2>8, <2>9
    <3> QED BY <2>6, <2>7, <2>9, <3>1 DEF Alike
  <2>10. CASE m > d
    <3>1. ~(m <= d)
      BY <2>8, <2>10
    <3> QED BY <1>1, <2>6, <2>7, <2>10, <3>1 DEF Alike
  <2> QED BY <2>8, <2>9, <2>10
<1> QED BY <1>1, <1>2, <1>3

(* t's buffer begins with r's.                                             *)
Grown(r, t) ==
  /\ Len(r.buffer) <= Len(t.buffer) /\ \A i \in 1 .. Len(r.buffer) : t.buffer[i] = r.buffer[i]
  /\ r.refused => t.refused

LEMMA DecodeGrows ==
  ASSUME NEW r, RxOK(r), NEW c \in ChangeRecord
  PROVE  Grown(r, Decode(r, c))
<1> PICK t : t = Decode(r, c)
  OBVIOUS
<1>1. r.buffer \in Seq(Bytes) /\ Len(r.buffer) \in Nat /\ r.refused \in BOOLEAN
  BY LenProperties DEF RxOK, RxRecord
<1>2. Untouched(r, t) \/ \E b \in Bytes : Pushed(r, t, b)
  BY DecodeAlike DEF Alike
<1>3. CASE Untouched(r, t)
  BY <1>1, <1>3 DEF Untouched, Grown
<1>4. ASSUME NEW b \in Bytes, Pushed(r, t, b)
      PROVE  Grown(r, t)
  <2>1. CASE Len(r.buffer) < BufCapacity
    <3>1. t.buffer = Append(r.buffer, b) /\ t.refused = r.refused
      BY <1>4, <2>1 DEF Pushed
    <3>2. /\ Len(Append(r.buffer, b)) = Len(r.buffer) + 1
          /\ \A i \in 1 .. Len(r.buffer) : Append(r.buffer, b)[i] = r.buffer[i]
      BY <1>1, AppendProperties
    <3>3. Len(r.buffer) <= Len(t.buffer)
      BY <1>1, <3>1, <3>2
    <3> QED BY <3>1, <3>2, <3>3 DEF Grown
  <2>2. CASE ~(Len(r.buffer) < BufCapacity)
    BY <1>1, <1>4, <2>2 DEF Pushed, Grown
  <2> QED BY <2>1, <2>2
<1> QED BY <1>2, <1>3, <1>4

LEMMA DecodeAllGrows ==
  ASSUME NEW r, RxOK(r), NEW s \in Seq(ChangeRecord)
  PROVE  Grown(r, DecodeAll(r, s))
<1>1. PICK f : IsRun(f, r, s) /\ DecodeAll(r, s) = f[Len(s)]
  BY RunEnds
<1>2. /\ Len(s) \in Nat /\ f[0] = r
      /\ \A k \in 1 .. Len(s) : f[k] = Decode(f[k - 1], s[k])
  BY <1>1, RunSteps
<1>3. Len(r.buffer) \in Nat
  BY LenProperties DEF RxOK, RxRecord
<1> DEFINE T == {k \in 0 .. Len(s) : RxOK(f[k]) /\ Grown(r, f[k])}
<1>4. 0 \in T
  BY <1>2, <1>3 DEF Grown
<1>5. ASSUME NEW k \in 1 .. Len(s), k - 1 \in T
      PROVE  k \in T
  <2>1. s[k] \in ChangeRecord /\ k \in 0 .. Len(s)
    BY <1>2, ElementOfSeq
  <2>2. PICK q : q = f[k - 1]
    OBVIOUS
  <2>3. RxOK(q) /\ Grown(r, q)
    BY <1>5, <2>2
  <2>4. RxOK(Decode(q, s[k])) /\ Grown(q, Decode(q, s[k]))
    BY <2>1, <2>3, DecodeType, DecodeGrows
  <2>5. PICK t : t = Decode(q, s[k])
    OBVIOUS
  <2>6. Grown(r, t)
    <3>1. Len(q.buffer) \in Nat /\ Len(t.buffer) \in Nat
      BY <2>3, <2>4, <2>5, LenProperties DEF RxOK, RxRecord
    <3>2. Len(r.buffer) <= Len(t.buffer)
      BY <1>3, <2>3, <2>4, <2>5, <3>1 DEF Grown
    <3>3. \A i \in 1 .. Len(r.buffer) : t.buffer[i] = r.buffer[i]
      BY <1>3, <2>3, <2>4, <2>5, <3>1 DEF Grown
    <3> QED BY <2>3, <2>4, <2>5, <3>2, <3>3 DEF Grown
  <2> QED BY <1>2, <2>1, <2>2, <2>4, <2>5, <2>6
<1>6. Len(s) \in T
  <2>1. T \in SUBSET (0 .. Len(s))
    OBVIOUS
  <2> HIDE DEF T
  <2> QED BY <1>2, <1>4, <1>5, <2>1, Steps
<1> QED BY <1>1, <1>6

-----------------------------------------------------------------------------
(* What is decoded is what was sent                                        *)

(* Of z's bytes, behind those read, each is the one sent, m of this answer *)
(* behind those the request left; once one was refused the buffer is full, *)
(* and some are missing.                                                   *)
Sent(i) == IF i <= Len(old) THEN old[i] ELSE answer[i - Len(old)]

Content(z, m) ==
  /\ rx.refused => z.refused
  /\ ~rx.refused =>
       /\ \A i \in 1 .. Len(got) : got[i] = Sent(i)
       /\ \A i \in 1 .. Len(z.buffer) : z.buffer[i] = Sent(Len(got) + i)
       /\ Len(got) + Len(z.buffer) <= Len(old) + m
       /\ IF z.refused THEN Len(z.buffer) = BufCapacity /\ Len(got) + Len(z.buffer) < Len(old) + m
          ELSE Len(got) + Len(z.buffer) = Len(old) + m

LEMMA ContentPush ==
  ASSUME TypeInv, NEW z, RxOK(z), NEW m \in Nat, Content(z, m),
         NEW t, Pushed(z, t, answer[m + 1]), m + 1 \in 1 .. Len(answer)
  PROVE  Content(t, m + 1)
<1> PICK b : b = answer[m + 1]
  OBVIOUS
<1>1. /\ b \in Bytes /\ Len(old) \in Nat /\ Len(got) \in Nat
      /\ z.buffer \in Seq(Bytes) /\ Len(z.buffer) \in Nat /\ Len(z.buffer) <= BufCapacity
      /\ BufCapacity \in Nat
  <2>1. answer \in Seq(Bytes) /\ old \in Seq(Bytes) /\ got \in Seq(Bytes) /\ z.buffer \in Seq(Bytes)
        /\ Len(z.buffer) <= BufCapacity
    BY DEF TypeInv, BoardType, HubType, RxOK, RxRecord
  <2>2. b \in Bytes
    BY <2>1, ElementOfSeq
  <2> QED BY <2>1, <2>2, LenProperties, Sizes
<1>2. CASE Len(z.buffer) < BufCapacity
  <2>1. t.buffer = Append(z.buffer, b) /\ t.refused = z.refused
    BY <1>2 DEF Pushed
  <2>2. /\ Len(t.buffer) = Len(z.buffer) + 1
        /\ \A i \in 1 .. Len(z.buffer) : t.buffer[i] = z.buffer[i]
        /\ t.buffer[Len(z.buffer) + 1] = b
    BY <1>1, <2>1, AppendProperties
  <2>3. rx.refused => t.refused
    BY <2>1 DEF Content
  <2>4. SUFFICES ASSUME ~rx.refused
                 PROVE  Content(t, m + 1)
    BY <2>3 DEF Content
  <2>5. ~z.refused /\ Len(got) + Len(z.buffer) = Len(old) + m
    BY <1>1, <1>2, <2>4 DEF Content
  <2>6. \A i \in 1 .. Len(got) : got[i] = Sent(i)
    BY <2>4 DEF Content
  <2>7. Len(got) + Len(t.buffer) = Len(old) + (m + 1)
    <3>1. Len(t.buffer) = Len(z.buffer) + 1 /\ Len(got) + Len(z.buffer) = Len(old) + m
      BY <2>2, <2>5
    <3>2. Len(got) \in Nat /\ Len(z.buffer) \in Nat /\ Len(old) \in Nat
      BY <1>1
    <3> QED BY <3>1, <3>2
  <2>8. ASSUME NEW i \in 1 .. Len(t.buffer)
        PROVE  t.buffer[i] = Sent(Len(got) + i)
    <3>1. CASE i \in 1 .. Len(z.buffer)
      BY <2>2, <2>4, <3>1 DEF Content
    <3>2. CASE i = Len(z.buffer) + 1
      <4>1. PICK g \in Nat, h \in Nat, o \in Nat :
                 g = Len(got) /\ h = Len(z.buffer) /\ o = Len(old)
        BY <1>1
      <4>2. g + h = o + m /\ i = h + 1 /\ m \in Nat
        BY <1>1, <2>5, <3>2, <4>1
      <4>3. ~(g + i <= o) /\ g + i - o = m + 1
        BY <4>2
      <4>4. PICK j : j = Len(got) + i
        OBVIOUS
      <4>5. ~(j <= Len(old)) /\ j - Len(old) = m + 1
        BY <4>1, <4>3, <4>4
      <4>6. Sent(j) = answer[m + 1]
        BY <4>5 DEF Sent
      <4>7. t.buffer[i] = b
        BY <2>2, <3>2
      <4>8. Sent(Len(got) + i) = b
        BY <4>4, <4>6
      <4> QED BY <4>7, <4>8, Zenon
    <3>3. i \in 1 .. Len(z.buffer) \/ i = Len(z.buffer) + 1
      <4>1. PICK h \in Nat : h = Len(z.buffer) /\ Len(t.buffer) = h + 1
        BY <1>1, <2>2
      <4> QED BY <4>1
    <3> QED BY <3>1, <3>2, <3>3, Zenon
  <2>9. ~t.refused /\ Len(got) + Len(t.buffer) <= Len(old) + (m + 1)
    <3>1. Len(old) + (m + 1) \in Int
      BY <1>1
    <3> QED BY <2>1, <2>5, <2>7, <3>1
  <2> QED BY <2>3, <2>4, <2>6, <2>7, <2>8, <2>9 DEF Content
<1>3. CASE ~(Len(z.buffer) < BufCapacity)
  <2>1. t.buffer = z.buffer /\ t.refused = TRUE /\ Len(z.buffer) = BufCapacity
    BY <1>1, <1>3 DEF Pushed
  <2>2. SUFFICES ASSUME ~rx.refused
                 PROVE  Content(t, m + 1)
    BY <2>1 DEF Content
  <2>3. Len(got) + Len(z.buffer) <= Len(old) + m
    BY <2>2 DEF Content
  <2>4. Len(got) + Len(t.buffer) < Len(old) + (m + 1)
    BY <1>1, <2>1, <2>3
  <2>5. Len(got) + Len(t.buffer) <= Len(old) + (m + 1)
    BY <1>1, <2>1, <2>4
  <2> QED BY <2>1, <2>2, <2>4, <2>5 DEF Content
<1> QED BY <1>2, <1>3

LEMMA ContentSame ==
  ASSUME NEW z, NEW m, Content(z, m), NEW t, Untouched(z, t)
  PROVE  Content(t, m)
BY DEF Content, Untouched

(* A poll that begins when the line has been silent leaves nothing sent    *)
(* undecoded: it counts a last byte that is only overdue.                  *)
Overdue == isrBuffer = << >> /\ rx.bit < DataBits /\ now > Expected(rx)

Told(m) ==
  poll = "rxBits" /\ due > 0 =>
    /\ isrAvail = 0
    /\ Len(old) + m >= due \/ (Overdue /\ Len(old) + m + 1 >= due)

Listening == rxEnabled /\ ~raced /\ ~isrOverflow

DecodeInv ==
  Listening => \E z, m : z = Drained(rx) /\ Place(z, m) /\ Content(z, m) /\ Told(m)

(* With the first change of the ring a byte that is not complete will be,  *)
(* or it came before the end of the byte, and a stop bit that is made up   *)
(* behind it is one too many.                                              *)
FirstInv ==
  Listening /\ isrBuffer # << >> /\ rx.bit < DataBits =>
    \/ rx.level = 1 /\ BitCount(isrBuffer[1].cycle - rx.cycle) >= DataBits - rx.bit
    \/ BitCount(Expected(rx) - isrBuffer[1].cycle) > 0

(* What an exchange leaves: m bytes decoded, and one perhaps that only     *)
(* lacks its stop bit.                                                     *)
Kept(z, m) ==
  /\ m \in 0 .. Len(answer) /\ Content(z, m)
  /\ m = Len(answer) => z.bit = DataBits
  /\ m < Len(answer) /\ z.bit = DataBits - 1 => z.byte = answer[m + 1]

KeptInv ==
  ~rxEnabled /\ ~raced /\ ~isrOverflow => \E z, m : z = Drained(rx) /\ Kept(z, m)

SerialInv == TypeInv /\ DecodeInv /\ FirstInv /\ KeptInv

(* When the end of a byte is overdue its frame is over.                    *)
LEMMA ExpectedIs ==
  ASSUME NEW z, RxOK(z), NEW s \in Int, NEW l \in Int, NEW j \in 1 .. DataBits + 1,
         z.cycle = s + j * BitCycles + l, z.bit = j - 2
  PROVE  Expected(z) = s + l + Frame /\ Expected(z) \in Int
<1>1. /\ DataBits \in Nat /\ BitCycles \in Nat /\ z.cycle \in Int /\ j \in Int
      /\ j * BitCycles \in Int /\ (DataBits + 2 - j) * BitCycles \in Int
      /\ Frame = (DataBits + 2) * BitCycles /\ Frame \in Int
  BY Sizes DEF RxOK, RxRecord
<1>2. DataBits - z.bit = DataBits + 2 - j
  BY <1>1
<1>3. (DataBits + 2 - j) * BitCycles = Frame - j * BitCycles
  BY <1>1
<1>4. Expected(z) = z.cycle + (DataBits + 2 - j) * BitCycles
  BY <1>2 DEF Expected
<1> QED BY <1>1, <1>3, <1>4

LEMMA OverdueIsPast ==
  ASSUME TypeInv, NEW z, RxOK(z), z.bit < DataBits, now > Expected(z), NEW m, Place(z, m)
  PROVE  /\ m = Over - 1 /\ Over \in 1 .. Len(answer)
         /\ \E j \in 1 .. DataBits + 1, l \in 0 .. MaxLatency : Past(z, j, l)
<1>1. z.bit # DataBits
  BY Sizes DEF RxOK, RxRecord
<1>2. ASSUME NEW j \in 0 .. DataBits + 1, UnderWay(z, j)
      PROVE  FALSE
  <2>1. j # 0
    BY <1>1, <1>2 DEF UnderWay, Recorded
  <2>2. PICK s : s = now - phase
    OBVIOUS
  <2>3. /\ phase \in 0 .. Frame - 1 /\ phase \in Int /\ now \in Int /\ Frame \in Int
        /\ MaxLatency \in Nat /\ z.cycle \in Int /\ j * BitCycles \in Int /\ DataBits \in Nat
    BY <1>2, Sizes DEF UnderWay, TypeInv, BoardType, HubType, RxOK, RxRecord
  <2>4. PICK l \in Int : l = z.cycle - (s + j * BitCycles)
    BY <2>2, <2>3
  <2>5. l >= 0 /\ z.bit = j - 2
    BY <1>2, <2>1, <2>2, <2>3, <2>4 DEF UnderWay, Recorded
  <2>6. z.cycle = s + j * BitCycles + l /\ s \in Int /\ j \in 1 .. DataBits + 1
    BY <2>1, <2>2, <2>3, <2>4
  <2>7. Expected(z) = s + l + Frame
    BY <2>5, <2>6, ExpectedIs
  <2> QED BY <2>2, <2>3, <2>5, <2>6, <2>7
<1>3. m = Over - 1 /\ \E j \in 1 .. DataBits + 1 : \E l \in 0 .. MaxLatency : Past(z, j, l)
  BY <1>1, <1>2 DEF Place, Between
<1>4. Over \in 1 .. Len(answer)
  BY <1>3, PastByte
<1> QED BY <1>3, <1>4

LEMMA SerialTypes ==
  ASSUME TypeInv
  PROVE  /\ Len(answer) \in Nat /\ Len(old) \in Nat /\ Len(got) \in Nat /\ due \in Nat
         /\ DataBits \in Nat \ {0} /\ RxOK(rx) /\ rx.bit \in -1 .. DataBits
         /\ isrBuffer \in Seq(ChangeRecord) /\ RxOK(Drained(rx))
         /\ isrBuffer = << >> => Drained(rx) = rx
<1>1. /\ answer \in Seq(Bytes) /\ old \in Seq(Bytes) /\ got \in Seq(Bytes) /\ due \in Nat
      /\ RxOK(rx) /\ isrBuffer \in Seq(Change) /\ HubType
  BY DEF TypeInv, BoardType, HubType
<1>2. rx.bit \in -1 .. DataBits
  BY <1>1 DEF RxOK, RxRecord
<1>3. isrBuffer = << >> => Drained(rx) = rx
  BY DecodeNone DEF Drained
<1> QED BY <1>1, <1>2, <1>3, LenProperties, Sizes, ChangesInt, DrainedType

(* The ring has one change more.                                           *)
LEMMA RecordedOne ==
  ASSUME TypeInv, RxBitISR, Listening'
  PROVE  /\ Listening
         /\ \E c \in ChangeRecord : /\ Recording(c) /\ isrBuffer' = Append(isrBuffer, c)
                                    /\ Drained(rx)' = Decode(Drained(rx), c)
<1>1. PICK c : c = [cycle |-> now, level |-> Line(out, phase)]
  OBVIOUS
<1>2. c \in ChangeRecord
  <2>1. out \in Seq(Bytes) /\ phase \in -1 .. Frame - 1 /\ (phase # -1 => out # << >>) /\ now \in Int
    BY Sizes DEF TypeInv, BoardType, HubType
  <2> QED BY <1>1, <2>1, LineType DEF ChangeRecord
<1>3. Recording(c)
  BY <1>1, <1>2 DEF Recording
<1>4. Listening /\ isrBuffer' = Append(isrBuffer, c) /\ rx' = rx
  <2>1. ~isrOverflow' /\ rxEnabled' /\ ~raced'
    BY DEF Listening
  <2> QED BY <1>1, <2>1 DEF RxBitISR, Listening, history
<1>5. Drained(rx)' = Decode(Drained(rx), c)
  <2>1. isrBuffer \in Seq(ChangeRecord)
    BY SerialTypes
  <2>2. DecodeAll(rx, Append(isrBuffer, c)) = Decode(DecodeAll(rx, isrBuffer), c)
    BY <1>2, <2>1, DecodeOneMore
  <2> QED BY <1>4, <2>2 DEF Drained
<1> QED BY <1>2, <1>3, <1>4, <1>5

LEMMA PlaceRxBitISR ==
  ASSUME TypeInv, RxBitISR, NEW z, RxOK(z), NEW m, Place(z, m),
         NEW t, NEW c, Recording(c), t = Decode(z, c)
  PROVE  /\ m \in Nat
         /\ \/ m = Over /\ Place(t, m)' /\ Untouched(z, t)
            \/ /\ m + 1 \in 1 .. Len(answer)
               /\ Place(t, m + 1)' /\ Pushed(z, t, answer[m + 1])
<1>1. m \in Nat /\ Over \in Nat
  BY PlaceType, LengthsAre DEF TypeInv
<1>2. Over' = Over
  BY DEF RxBitISR, boardVars, history, Over
<1>3. 0 \in 0 .. DataBits + 1
  BY Sizes
<1>4. CASE m = Over /\ Between(z)
  <2>1. UnderWay(t, 0)' /\ Untouched(z, t)
    BY <1>4, RecordStart
  <2> QED BY <1>1, <1>2, <1>3, <1>4, <2>1 DEF Place
<1>5. ASSUME m = Over, NEW j \in 0 .. DataBits + 1, UnderWay(z, j)
      PROVE  Place(t, m)' /\ Untouched(z, t)
  <2>1. (\E k \in 0 .. DataBits + 1 : UnderWay(t, k)') /\ Untouched(z, t)
    BY <1>5, RecordBit
  <2> QED BY <1>2, <1>5, <2>1 DEF Place
<1>6. ASSUME m = Over - 1, NEW j \in 1 .. DataBits + 1, NEW l \in 0 .. MaxLatency, Past(z, j, l)
      PROVE  /\ m + 1 \in 1 .. Len(answer)
             /\ Place(t, m + 1)' /\ Pushed(z, t, answer[m + 1])
  <2>1. UnderWay(t, 0)' /\ Pushed(z, t, answer[Over]) /\ Over \in 1 .. Len(answer)
    BY <1>6, RecordNext, PastByte
  <2>2. m + 1 = Over
    BY <1>1, <1>6
  <2> QED BY <1>2, <1>3, <2>1, <2>2 DEF Place
<1> QED BY <1>1, <1>4, <1>5, <1>6 DEF Place

LEMMA DecodeRxBitISR ==
  ASSUME SerialInv, RxBitISR, Listening'
  PROVE  DecodeInv'
<1>0. TypeInv /\ DecodeInv
  BY DEF SerialInv
<1>1. PICK c \in ChangeRecord : /\ Recording(c) /\ isrBuffer' = Append(isrBuffer, c)
                                /\ Drained(rx)' = Decode(Drained(rx), c)
  BY <1>0, RecordedOne
<1>2. PICK z, m : z = Drained(rx) /\ Place(z, m) /\ Content(z, m) /\ Told(m)
  BY <1>0, RecordedOne DEF DecodeInv
<1>3. PICK t : t = Decode(z, c)
  OBVIOUS
<1>4. /\ UNCHANGED <<rx, got, old, answer, poll, due, isrAvail, out>>
  BY DEF RxBitISR, boardVars, history
<1>5. RxOK(z) /\ t = Drained(rx)'
  BY <1>0, <1>1, <1>2, <1>3, SerialTypes
<1>6. m \in Nat
  BY <1>0, <1>1, <1>2, <1>3, <1>5, PlaceRxBitISR
<1>7. CASE m = Over /\ Place(t, m)' /\ Untouched(z, t)
  <2>1. Content(t, m)'
    <3>1. Content(t, m)
      BY <1>2, <1>7, ContentSame
    <3> QED BY <1>4, <3>1 DEF Content, Sent
  <2>2. Told(m)'
    <3>1. ~Overdue
      <4> SUFFICES ASSUME Overdue PROVE FALSE
        OBVIOUS
      <4>1. z = rx
        BY <1>0, <1>2, SerialTypes DEF Overdue
      <4>2. m = Over - 1 /\ Over \in Nat
        BY <1>0, <1>2, <1>5, <4>1, OverdueIsPast, LengthsAre DEF Overdue, TypeInv
      <4> QED BY <1>7, <4>2
    <3> QED BY <1>2, <1>4, <3>1 DEF Told
  <2> QED BY <1>5, <1>7, <2>1, <2>2 DEF DecodeInv
<1>8. CASE /\ m + 1 \in 1 .. Len(answer)
           /\ Place(t, m + 1)' /\ Pushed(z, t, answer[m + 1])
  <2> PICK n : n = m + 1
    OBVIOUS
  <2>1. Content(t, n)'
    <3>1. Content(t, n)
      BY <1>0, <1>2, <1>5, <1>6, <1>8, ContentPush
    <3> QED BY <1>4, <3>1 DEF Content, Sent
  <2>2. Told(n)'
    <3>1. Len(old) + m >= due => Len(old) + (m + 1) >= due
      BY <1>0, <1>6, SerialTypes
    <3>2. Len(old) + m + 1 = Len(old) + (m + 1)
      BY <1>0, <1>6, SerialTypes
    <3> QED BY <1>2, <1>4, <3>1, <3>2 DEF Told
  <2> QED BY <1>5, <1>8, <2>1, <2>2 DEF DecodeInv
<1> QED BY <1>0, <1>1, <1>2, <1>3, <1>5, <1>7, <1>8, PlaceRxBitISR

(* A first change that comes before the end of the byte comes so early     *)
(* that a bit at least is missing.                                         *)
LEMMA EarlyChange ==
  ASSUME TypeInv, RxBitISR, NEW z, RxOK(z), z.bit < DataBits,
         NEW j \in 0 .. DataBits + 1, UnderWay(z, j)
  PROVE  BitCount(Expected(z) - now) > 0
<1>1. /\ phase \in 0 .. Frame - 1 /\ phase \in Int /\ now \in Int /\ edge \in 0 .. MaxLatency
      /\ edge # -1 /\ Frame \in Int /\ DataBits \in Nat /\ BitCycles \in Nat \ {0}
      /\ MaxLatency \in Nat /\ 2 * MaxLatency < BitCycles /\ MaxGap \in Nat
      /\ MaxGap + Frame < (Wrap - 1) * BitCycles /\ (Wrap - 1) * BitCycles \in Int
      /\ z.cycle \in Int /\ j * BitCycles \in Int
  BY Sizes DEF UnderWay, RxBitISR, TypeInv, BoardType, EdgeType, HubType, RxOK, RxRecord
<1>2. j # 0
  BY <1>1 DEF UnderWay, Recorded
<1>3. PICK s \in Int : s = now - phase
  BY <1>1
<1>4. PICK l \in 0 .. MaxLatency : l = z.cycle - (s + j * BitCycles)
  BY <1>3 DEF UnderWay, Recorded
<1>5. Expected(z) = s + l + Frame /\ Expected(z) \in Int
  <2>1. l \in Int /\ z.cycle = s + j * BitCycles + l /\ j \in 1 .. DataBits + 1
    BY <1>1, <1>2, <1>3, <1>4
  <2>2. z.bit = j - 2
    BY <1>2 DEF UnderWay, Recorded
  <2> QED BY <1>3, <2>1, <2>2, ExpectedIs
<1>6. PICK k \in j + 1 .. DataBits + 1 : k * BitCycles = phase - edge
  BY <1>1 DEF UnderWay, Seen
<1>7. k * BitCycles <= (DataBits + 1) * BitCycles /\ BitCycles <= k * BitCycles
  <2>1. k \in Int /\ DataBits + 1 \in Int /\ 0 < k /\ k * BitCycles \in Int
        /\ (DataBits + 1) * BitCycles \in Int /\ 0 * BitCycles = 0
    BY <1>1
  <2>2. CASE k = DataBits + 1
    <3>1. 0 * BitCycles + BitCycles <= k * BitCycles
      BY <1>1, <2>1, Multiples
    <3> QED BY <1>1, <2>1, <2>2, <3>1
  <2>3. CASE k < DataBits + 1
    <3>1. k * BitCycles + BitCycles <= (DataBits + 1) * BitCycles
      BY <1>1, <2>1, <2>3, Multiples
    <3>2. 0 * BitCycles + BitCycles <= k * BitCycles
      BY <1>1, <2>1, Multiples
    <3> QED BY <1>1, <2>1, <3>1, <3>2
  <2> QED BY <1>1, <2>2, <2>3
<1>8. (DataBits + 1) * BitCycles \in Int /\ k * BitCycles \in Int
      /\ Frame = (DataBits + 1) * BitCycles + BitCycles /\ 1 * BitCycles = BitCycles
  BY <1>1, LastBit
<1>9. PICK d \in Int : d = Expected(z) - now
  BY <1>1, <1>5
<1>10. 1 * BitCycles - MaxLatency <= d /\ d <= (Wrap - 1) * BitCycles
  <2>1. d = l + Frame - phase
    BY <1>1, <1>3, <1>5, <1>9
  <2>2. phase <= (DataBits + 1) * BitCycles + MaxLatency /\ BitCycles <= phase
    BY <1>1, <1>6, <1>7, <1>8
  <2> QED BY <1>1, <1>8, <2>1, <2>2
<1>11. BitCount(d) >= 1
  BY <1>10, BitCountAtLeast
<1> QED BY <1>9, <1>11, BitCountType

LEMMA FirstRxBitISR ==
  ASSUME SerialInv, RxBitISR, Listening'
  PROVE  FirstInv'
<1>0. TypeInv /\ DecodeInv /\ FirstInv
  BY DEF SerialInv
<1>1. PICK c \in ChangeRecord : Recording(c) /\ isrBuffer' = Append(isrBuffer, c)
  BY <1>0, RecordedOne
<1>2. isrBuffer \in Seq(ChangeRecord) /\ RxOK(rx) /\ rx.bit \in -1 .. DataBits
      /\ DataBits \in Nat
  BY <1>0, SerialTypes
<1>3. rx' = rx /\ Expected(rx)' = Expected(rx) /\ Listening
  BY <1>0, RecordedOne DEF RxBitISR, Expected
<1> SUFFICES ASSUME rx.bit < DataBits
             PROVE  \/ rx.level = 1 /\ BitCount(isrBuffer'[1].cycle - rx.cycle) >= DataBits - rx.bit
                    \/ BitCount(Expected(rx) - isrBuffer'[1].cycle) > 0
  BY <1>3 DEF FirstInv
<1>4. CASE isrBuffer # << >>
  <2>1. isrBuffer'[1] = isrBuffer[1]
    <3>1. Len(isrBuffer) \in Nat \ {0}
      BY <1>2, <1>4, EmptySeq
    <3> QED BY <1>1, <1>2, <3>1, AppendProperties
  <2> QED BY <1>0, <1>3, <1>4, <2>1 DEF FirstInv
<1>5. CASE isrBuffer = << >>
  <2>1. isrBuffer'[1] = c
    <3>1. Len(isrBuffer) = 0
      BY <1>5
    <3> QED BY <1>1, <1>2, <3>1, AppendProperties
  <2>2. PICK m : Place(rx, m)
    BY <1>0, <1>3, <1>5, SerialTypes DEF DecodeInv
  <2>3. CASE \E j \in 0 .. DataBits + 1 : UnderWay(rx, j)
    <3>1. BitCount(Expected(rx) - now) > 0
      BY <1>0, <1>2, <2>3, EarlyChange
    <3> QED BY <1>1, <2>1, <3>1 DEF Recording
  <2>4. ASSUME NEW j \in 1 .. DataBits + 1, NEW l \in 0 .. MaxLatency, Past(rx, j, l)
        PROVE  rx.level = 1 /\ BitCount(c.cycle - rx.cycle) >= DataBits - rx.bit
    <3>1. out # << >>
      BY <1>0 DEF RxBitISR, TypeInv, BoardType, EdgeType
    <3>2. rx.level = 1 /\ rx.bit = j - 2
      BY <1>0, <1>2, <2>4, PastByte
    <3>3. BitCount(c.cycle - rx.cycle) >= DataBits + 2 - j
      BY <1>0, <1>1, <1>2, <2>4, <3>1, PastLength DEF Recording
    <3>4. DataBits - rx.bit = DataBits + 2 - j
      BY <1>2, <3>2
    <3> QED BY <3>2, <3>3, <3>4
  <2>5. ~Between(rx)
    BY <1>2 DEF Between
  <2> QED BY <2>1, <2>2, <2>3, <2>4, <2>5 DEF Place
<1> QED BY <1>4, <1>5

(* The steps that leave the ring and the decoder alone                     *)
Standing == UNCHANGED <<isrBuffer, rx, isrOverflow, rxEnabled, got, answer, old, raced>>

LEMMA FirstStanding ==
  ASSUME FirstInv, Standing
  PROVE  FirstInv'
BY DEF FirstInv, Standing, Listening, Expected

LEMMA ContentStanding ==
  ASSUME Standing, NEW z, NEW m, Content(z, m)
  PROVE  Content(z, m)'
BY DEF Standing, Content, Sent

LEMMA PlaceUnchanged ==
  ASSUME UNCHANGED <<out, phase, quiet, edge, now, answer>>, NEW z, NEW m, Place(z, m)
  PROVE  Place(z, m)'
<1>1. Over' = Over /\ AtRest' = AtRest
  BY DEF Over, AtRest
<1>2. CASE m = Over /\ Between(z)
  BY <1>1, <1>2 DEF Place, Between
<1>3. ASSUME NEW j \in 0 .. DataBits + 1, UnderWay(z, j)
      PROVE  UnderWay(z, j)'
  BY <1>3 DEF UnderWay, Recorded, Seen
<1>4. ASSUME NEW j \in 1 .. DataBits + 1, NEW l \in 0 .. MaxLatency, Past(z, j, l)
      PROVE  Past(z, j, l)'
  <2>1. Since(z, j, l)' = Since(z, j, l)
    BY DEF Since
  <2> QED BY <1>1, <1>4, <2>1 DEF Past, Recorded
<1> QED BY <1>1, <1>2, <1>3, <1>4 DEF Place

(* A poll begins: what is sent is decoded, up to a byte that is overdue.   *)
LEMMA ToldAvailable ==
  ASSUME TypeInv, Available, NEW m, Place(Drained(rx), m)
  PROVE  Told(m)'
<1>1. /\ edge = -1 /\ isrAvail' = Len(isrBuffer)
      /\ due' = IF isrBuffer = << >> /\ (phase # -1 \/ quiet > MaxLatency) THEN Len(old) + Over ELSE 0
      /\ UNCHANGED <<isrBuffer, rx, now, old>>
  BY DEF Available
<1>2. m \in Nat /\ Over \in Nat /\ Len(old) \in Nat
  BY PlaceType, LengthsAre, SerialTypes DEF TypeInv
<1> SUFFICES ASSUME due' > 0
             PROVE  isrAvail' = 0 /\ (Len(old) + m >= due' \/ (Overdue /\ Len(old) + m + 1 >= due'))
  BY <1>1 DEF Told, Overdue, Expected
<1>3. isrBuffer = << >> /\ (phase # -1 \/ quiet > MaxLatency) /\ due' = Len(old) + Over
  BY <1>1
<1>4. isrAvail' = 0 /\ Drained(rx) = rx
  BY <1>1, <1>3, SerialTypes
<1>5. CASE m = Over
  BY <1>2, <1>3, <1>4, <1>5
<1>6. ASSUME NEW j \in 1 .. DataBits + 1, NEW l \in 0 .. MaxLatency, Past(rx, j, l), m = Over - 1
      PROVE  Overdue /\ Len(old) + m + 1 >= due'
  <2>1. Len(old) + m + 1 >= due'
    BY <1>2, <1>3, <1>6
  <2>2. phase = -1 /\ quiet > MaxLatency
    BY <1>1, <1>3, <1>6, Sizes DEF Past, AtRest, TypeInv, BoardType
  <2>3. rx.bit = j - 2 /\ rx.bit < DataBits
    BY <1>6, PastByte, SerialTypes
  <2>4. /\ Frame \in Int /\ MaxLatency \in Nat /\ rx.cycle \in Int /\ now \in Int
        /\ j * BitCycles \in Int /\ l \in Int /\ quiet \in Int
    BY Sizes DEF TypeInv, BoardType, HubType, RxOK, RxRecord
  <2>5. PICK s \in Int : s = rx.cycle - j * BitCycles - l
    BY <2>4
  <2>6. rx.cycle = s + j * BitCycles + l
    BY <2>4, <2>5
  <2>7. Expected(rx) = s + l + Frame
    BY <2>3, <2>4, <2>6, ExpectedIs, SerialTypes
  <2>8. now - 0 - (s + Frame) >= quiet
    <3>1. Since(rx, j, l) = now - 0 - (s + Frame)
      <4>1. Since(rx, j, l) = now - 0 - (rx.cycle - j * BitCycles - l + Frame)
        BY <2>2 DEF Since
      <4> QED BY <2>4, <2>5, <4>1
    <3>2. Since(rx, j, l) >= quiet
      BY <1>6, <2>2, <2>4, <2>5, <3>1 DEF Past
    <3> QED BY <3>1, <3>2
  <2>9. now > Expected(rx)
    BY <2>2, <2>4, <2>5, <2>7, <2>8
  <2> QED BY <1>3, <2>1, <2>3, <2>9 DEF Overdue
<1> QED BY <1>4, <1>5, <1>6 DEF Place

LEMMA DecodeStanding ==
  ASSUME SerialInv, StartBit \/ Tick \/ Available \/ TimeOut \/ UNCHANGED vars, Listening'
  PROVE  DecodeInv'
<1>0. TypeInv /\ DecodeInv
  BY DEF SerialInv
<1>1. Standing
  BY DEF StartBit, Tick, Available, TimeOut, vars, boardVars, hubVars, history, Standing
<1>2. Listening /\ rxEnabled
  BY <1>1 DEF Standing, Listening
<1>3. PICK z, m : z = Drained(rx) /\ Place(z, m) /\ Content(z, m) /\ Told(m)
  BY <1>0, <1>2 DEF DecodeInv
<1>4. RxOK(z) /\ z = Drained(rx)'
  BY <1>0, <1>1, <1>3, SerialTypes DEF Standing, Drained
<1>5. Content(z, m)'
  BY <1>1, <1>3, ContentStanding
<1>6. Place(z, m)'
  <2>1. CASE StartBit
    BY <1>0, <1>2, <1>3, <2>1, PlaceStartBit
  <2>2. CASE Tick
    BY <1>0, <1>2, <1>3, <1>4, <2>2, PlaceTick
  <2>3. CASE Available \/ TimeOut \/ UNCHANGED vars
    <3>1. UNCHANGED <<out, phase, quiet, edge, now, answer>>
      BY <2>3 DEF Available, TimeOut, vars, boardVars, history
    <3> QED BY <1>3, <3>1, PlaceUnchanged
  <2> QED BY <2>1, <2>2, <2>3
<1>7. Told(m)'
  <2>1. CASE StartBit \/ UNCHANGED vars
    <3>1. UNCHANGED <<poll, due, isrAvail, isrBuffer, rx, now, old>>
      BY <2>1 DEF StartBit, vars, hubVars, history
    <3> QED BY <1>3, <3>1 DEF Told, Overdue, Expected
  <2>2. CASE Tick
    <3>1. UNCHANGED <<poll, due, isrAvail, isrBuffer, rx, old>> /\ now' = now + 1
      BY <1>2, <2>2 DEF Tick
    <3>2. now \in Int /\ Expected(rx) \in Int /\ Expected(rx)' = Expected(rx)
      <4>1. rx.cycle \in Int /\ rx.bit \in Int /\ now \in Int /\ DataBits \in Int
        BY <1>0, Sizes DEF TypeInv, HubType, RxOK, RxRecord
      <4>2. (DataBits - rx.bit) * BitCycles \in Int
        BY <4>1, Sizes
      <4> QED BY <3>1, <4>1, <4>2 DEF Expected
    <3>3. Overdue => Overdue'
      BY <3>1, <3>2 DEF Overdue
    <3> QED BY <1>3, <3>1, <3>3 DEF Told
  <2>3. CASE Available
    BY <1>0, <1>3, <2>3, ToldAvailable
  <2>4. CASE TimeOut
    BY <2>4 DEF TimeOut, Told
  <2> QED BY <2>1, <2>2, <2>3, <2>4
<1> QED BY <1>3, <1>4, <1>5, <1>6, <1>7 DEF DecodeInv

LEMMA PlaceAlike ==
  ASSUME NEW r, NEW t, Alike(t, r), NEW m, Place(r, m)
  PROVE  Place(t, m)
<1>1. CASE m = Over /\ Between(r)
  BY <1>1 DEF Place, Between, Alike
<1>2. ASSUME NEW j \in 0 .. DataBits + 1, UnderWay(r, j)
      PROVE  UnderWay(t, j)
  BY <1>2 DEF UnderWay, Recorded, Alike
<1>3. ASSUME NEW j \in 1 .. DataBits + 1, NEW l \in 0 .. MaxLatency, Past(r, j, l)
      PROVE  Past(t, j, l)
  <2>1. Since(t, j, l) = Since(r, j, l)
    BY DEF Since, Alike
  <2> QED BY <1>3, <2>1 DEF Past, Recorded, Alike
<1> QED BY <1>1, <1>2, <1>3 DEF Place

(* What a poll decodes is what the changes say: a stop bit that it makes   *)
(* up is one that the next change would have brought, or the last one.     *)
LEMMA PolledIs ==
  ASSUME SerialInv, RxBits, Listening'
  PROVE  \E m : /\ m \in Nat /\ Place(Polled, m) /\ Content(Polled, m)
                /\ due > 0 => Len(old) + m >= due
<1>0. TypeInv /\ DecodeInv /\ FirstInv
  BY DEF SerialInv
<1>1. /\ poll = "rxBits" /\ edge = -1 /\ Listening
      /\ ~(FauxDue /\ isrBuffer # << >> /\ BitCount(Expected(rx) - isrBuffer[1].cycle) > 0)
  <2>1. rxEnabled' /\ ~raced' /\ ~isrOverflow'
    BY DEF Listening
  <2>2. poll = "rxBits" /\ edge = -1 /\ rxEnabled /\ ~isrOverflow
    <3>1. poll = "rxBits" /\ edge = -1 /\ rxEnabled' = rxEnabled /\ isrOverflow' = isrOverflow
      BY RxBitsIs
    <3> QED BY <2>1, <3>1
  <2>3. raced' = (raced \/ (FauxDue /\ isrBuffer # << >>
                             /\ BitCount(Expected(rx) - isrBuffer[1].cycle) > 0))
    BY RxBitsIs
  <2> QED BY Zenon, <2>1, <2>2, <2>3 DEF Listening
<1>2. PICK z, m : z = Drained(rx) /\ Place(z, m) /\ Content(z, m) /\ Told(m)
  BY <1>0, <1>1 DEF DecodeInv
<1>3. /\ m \in Nat /\ Over \in Nat /\ Len(old) \in Nat /\ RxOK(rx) /\ RxOK(z)
      /\ isrBuffer \in Seq(ChangeRecord)
  BY <1>0, <1>2, PlaceType, LengthsAre, SerialTypes DEF TypeInv
<1>4. CASE FauxDue /\ isrBuffer = << >>
  <2>1. /\ rx.bit < DataBits /\ now > Expected(rx) /\ Overdue
    BY <1>4 DEF FauxDue, Overdue
  <2>2. z = rx
    BY <1>0, <1>2, <1>4, SerialTypes
  <2>3. /\ m = Over - 1 /\ Over \in 1 .. Len(answer)
        /\ \E j \in 1 .. DataBits + 1, l \in 0 .. MaxLatency : Past(rx, j, l)
    BY <1>0, <1>2, <1>3, <2>1, <2>2, OverdueIsPast
  <2>4. PICK j \in 1 .. DataBits + 1, l \in 0 .. MaxLatency : Past(rx, j, l)
    BY <2>3
  <2>5. PICK t : t = Complete(rx)
    OBVIOUS
  <2>6. /\ rx.level = 1 /\ rx.byte \o Bits(1, DataBits - 1 - rx.bit) = answer[Over]
    BY <1>0, <1>3, <2>4, PastByte
  <2>7. t.bit = DataBits /\ t.level = 1 /\ Pushed(rx, t, answer[Over])
    BY <1>3, <2>1, <2>5, <2>6, CompleteIs
  <2>8. AtRest
    BY <2>4 DEF Past
  <2>9. m + 1 = Over /\ m + 1 \in 1 .. Len(answer)
    BY <1>3, <2>3
  <2>10. Place(t, m + 1)
    BY <2>7, <2>8, <2>9 DEF Place, Between
  <2>11. Content(t, m + 1)
    BY <1>0, <1>2, <1>3, <2>2, <2>7, <2>9, ContentPush
  <2>12. Polled = t
    BY <1>4, <2>5, DecodeNone DEF Polled, Drained
  <2>13. due > 0 => Len(old) + (m + 1) >= due
    <3>1. due > 0 => Len(old) + m >= due \/ Len(old) + m + 1 >= due
      BY <1>1, <1>2 DEF Told
    <3> QED BY <1>0, <1>3, <3>1, SerialTypes
  <2> QED BY <1>3, <2>10, <2>11, <2>12, <2>13
<1>5. CASE ~FauxDue \/ isrBuffer # << >>
  <2>1. Polled = z
    <3>1. CASE ~FauxDue
      BY <1>2, <3>1 DEF Polled
    <3>2. CASE FauxDue /\ isrBuffer # << >>
      <4>1. rx.bit < DataBits
        BY <3>2 DEF FauxDue
      <4>2. rx.level = 1 /\ BitCount(isrBuffer[1].cycle - rx.cycle) >= DataBits - rx.bit
        BY <1>0, <1>1, <3>2, <4>1 DEF FirstInv
      <4>3. isrBuffer[1] \in ChangeRecord
        <5>1. Len(isrBuffer) \in Nat \ {0}
          BY <1>3, <3>2, EmptySeq
        <5>2. 1 \in 1 .. Len(isrBuffer)
          BY <5>1
        <5> QED BY <1>3, <5>2, ElementOfSeq
      <4>4. Decode(Complete(rx), isrBuffer[1]) = Decode(rx, isrBuffer[1])
        BY <1>3, <4>1, <4>2, <4>3, CompleteFirst
      <4>5. Drained(Complete(rx)) = Drained(rx)
        BY <1>3, <3>2, <4>4, RunsMeet DEF Drained
      <4> QED BY <1>2, <3>2, <4>5 DEF Polled
    <3> QED BY <1>5, <3>1, <3>2
  <2>2. due > 0 => Len(old) + m >= due
    <3>1. ASSUME due > 0, Overdue
          PROVE  FALSE
      <4>1. isrAvail = 0
        BY <1>1, <1>2, <3>1 DEF Told
      <4>2. FauxDue /\ isrBuffer = << >>
        BY <3>1, <4>1 DEF FauxDue, Overdue
      <4> QED BY <1>5, <4>2
    <3> QED BY <1>1, <1>2, <3>1 DEF Told
  <2> QED BY <1>2, <1>3, <2>1, <2>2
<1> QED BY <1>4, <1>5

(* A poll reads the first character, or there is none.                     *)
LEMMA PolledReads ==
  ASSUME TypeInv, RxBits, NEW r, r = Polled, NEW t, t = rx'
  PROVE  /\ RxOK(r) /\ RxOK(t) /\ Alike(t, r) /\ t.refused = r.refused
         /\ \/ t.buffer = r.buffer /\ got' = got
            \/ /\ Len(r.buffer) \in Nat \ {0} /\ t.buffer = Tail(r.buffer)
               /\ Len(t.buffer) = Len(r.buffer) - 1
               /\ \A i \in 1 .. Len(t.buffer) : t.buffer[i] = r.buffer[i + 1]
               /\ Len(got') = Len(got) + 1 /\ got'[Len(got) + 1] = r.buffer[1]
               /\ \A i \in 1 .. Len(got) : got'[i] = got[i]
<1>1. RxOK(r) /\ r.buffer \in Seq(Bytes) /\ got \in Seq(Bytes)
  BY PolledType DEF RxOK, RxRecord, TypeInv, HubType
<1>2. CASE r.buffer = << >> /\ rx' = r /\ UNCHANGED got
  BY <1>1, <1>2 DEF Alike
<1>3. CASE /\ r.buffer # << >> /\ rx' = [r EXCEPT !.buffer = Tail(@)]
           /\ got' = Append(got, Head(r.buffer))
  <2>1. /\ RxOK(t) /\ t.bit = r.bit /\ t.byte = r.byte /\ t.cycle = r.cycle /\ t.level = r.level
        /\ t.refused = r.refused /\ t.buffer = Tail(r.buffer)
    BY <1>1, <1>3, ReadOne
  <2>2. /\ Len(t.buffer) = Len(r.buffer) - 1 /\ Len(r.buffer) \in Nat \ {0}
        /\ Head(r.buffer) \in Bytes /\ Head(r.buffer) = r.buffer[1]
        /\ \A i \in 1 .. Len(t.buffer) : t.buffer[i] = r.buffer[i + 1]
    BY <1>1, <1>3, <2>1, HeadTailProperties, EmptySeq
  <2>3. /\ Len(got') = Len(got) + 1 /\ got'[Len(got) + 1] = r.buffer[1]
        /\ \A i \in 1 .. Len(got) : got'[i] = got[i]
    BY <1>1, <1>3, <2>2, AppendProperties
  <2> QED BY <1>1, <2>1, <2>2, <2>3 DEF Alike
<1> QED BY <1>2, <1>3, RxBitsIs

LEMMA ContentRead ==
  ASSUME TypeInv, RxBits, NEW m \in Nat, NEW r, r = Polled, Content(r, m), NEW t, t = rx'
  PROVE  Content(t, m)'
<1>1. /\ RxOK(r) /\ RxOK(t) /\ t.refused = r.refused
      /\ Len(got) \in Nat /\ Len(old) \in Nat /\ old' = old /\ answer' = answer
      /\ Len(r.buffer) \in Nat
  <2>1. r.buffer \in Seq(Bytes)
    BY PolledType DEF RxOK, RxRecord
  <2> QED BY <2>1, PolledReads, SerialTypes, RxBitsIs, LenProperties
<1>2. ASSUME NEW i
      PROVE  Sent(i)' = Sent(i)
  BY <1>1 DEF Sent
<1> SUFFICES ASSUME ~t.refused
             PROVE  /\ \A i \in 1 .. Len(got') : got'[i] = Sent(i)
                    /\ \A i \in 1 .. Len(t.buffer) : t.buffer[i] = Sent(Len(got') + i)
                    /\ Len(got') + Len(t.buffer) = Len(old) + m
  <2>1. ~t.refused /\ Len(got') + Len(t.buffer) = Len(old) + m
          => Len(got') + Len(t.buffer) <= Len(old) + m
    BY <1>1
  <2>2. \A i : Sent(i)' = Sent(i)
    BY <1>2
  <2>3. rx'.refused = t.refused
    OBVIOUS
  <2> HIDE DEF Sent
  <2> QED BY <1>1, <2>1, <2>2, <2>3 DEF Content
<1>3. /\ \A i \in 1 .. Len(got) : got[i] = Sent(i)
      /\ \A i \in 1 .. Len(r.buffer) : r.buffer[i] = Sent(Len(got) + i)
      /\ Len(got) + Len(r.buffer) = Len(old) + m
  BY <1>1 DEF Content
<1>4. CASE t.buffer = r.buffer /\ got' = got
  BY <1>3, <1>4
<1>5. CASE /\ Len(r.buffer) \in Nat \ {0} /\ t.buffer = Tail(r.buffer)
           /\ Len(t.buffer) = Len(r.buffer) - 1
           /\ \A i \in 1 .. Len(t.buffer) : t.buffer[i] = r.buffer[i + 1]
           /\ Len(got') = Len(got) + 1 /\ got'[Len(got) + 1] = r.buffer[1]
           /\ \A i \in 1 .. Len(got) : got'[i] = got[i]
  <2>1. Len(got') + Len(t.buffer) = Len(old) + m
    <3>1. PICK a \in Nat, b \in Nat, c \in Nat :
               a = Len(got) /\ b = Len(r.buffer) /\ c = Len(old)
      BY <1>1
    <3>2. Len(got') = a + 1 /\ Len(t.buffer) = b - 1 /\ a + b = c + m
      BY <1>3, <1>5, <3>1
    <3>3. a + 1 + (b - 1) = c + m
      BY <3>2
    <3> QED BY <3>1, <3>2, <3>3
  <2>2. ASSUME NEW i \in 1 .. Len(got')
        PROVE  got'[i] = Sent(i)
    <3>1. CASE i \in 1 .. Len(got)
      BY <1>3, <1>5, <3>1
    <3>2. CASE i = Len(got) + 1
      <4>1. 1 \in 1 .. Len(r.buffer)
        BY <1>5
      <4> QED BY <1>3, <1>5, <3>2, <4>1
    <3> QED BY <1>1, <1>5, <3>1, <3>2
  <2>3. ASSUME NEW i \in 1 .. Len(t.buffer)
        PROVE  t.buffer[i] = Sent(Len(got') + i)
    <3>1. i + 1 \in 1 .. Len(r.buffer) /\ Len(got) + (i + 1) = Len(got') + i
      BY <1>1, <1>5
    <3> QED BY <1>3, <1>5, <3>1
  <2> QED BY <2>1, <2>2, <2>3
<1> QED BY <1>4, <1>5, PolledReads

LEMMA DecodeRxBits ==
  ASSUME SerialInv, RxBits, Listening'
  PROVE  DecodeInv' /\ FirstInv'
<1>0. TypeInv
  BY DEF SerialInv
<1>1. PICK m \in Nat : Place(Polled, m) /\ Content(Polled, m)
  BY PolledIs
<1>2. PICK r : r = Polled
  OBVIOUS
<1>3. PICK t : t = rx'
  OBVIOUS
<1>4. Content(t, m)'
  BY <1>0, <1>1, <1>2, <1>3, ContentRead
<1>5. Place(t, m)'
  <2>1. Place(t, m)
    BY <1>0, <1>1, <1>2, <1>3, PolledReads, PlaceAlike
  <2>2. UNCHANGED <<out, phase, quiet, edge, now, answer>>
    BY RxBitsIs
  <2> QED BY <2>1, <2>2, PlaceUnchanged
<1>6. isrBuffer' = << >> /\ poll' # "rxBits"
  BY RxBitsIs
<1>7. t = Drained(rx)'
  BY <1>3, <1>6, DecodeNone DEF Drained
<1>8. Told(m)' /\ FirstInv'
  BY <1>6 DEF Told, FirstInv
<1> QED BY <1>4, <1>5, <1>7, <1>8 DEF DecodeInv

LEMMA DecodeRequest ==
  ASSUME TypeInv, Request
  PROVE  DecodeInv' /\ FirstInv'
<1>1. PICK t : t = rx'
  OBVIOUS
<1>2. t.bit = DataBits /\ t.level = 1 /\ t.buffer = old' /\ t.refused = FALSE
  BY <1>1, TypeRequest
<1>3. /\ ~rxEnabled /\ out = << >> /\ isrBuffer' = << >> /\ got' = << >> /\ answer' = out'
      /\ UNCHANGED <<phase, edge, poll>>
  BY RequestIs
<1>4. /\ phase' = -1 /\ edge' = -1 /\ poll' # "rxBits"
  BY <1>3 DEF TypeInv, BoardType, Deaf
<1>5. out' \in Seq(Bytes) /\ old' \in Seq(Bytes)
  BY TypeRequest DEF TypeInv, BoardType, HubType
<1>6. Len(out') \in Nat /\ Len(old') \in Nat /\ Len(<< >>) = 0
  BY <1>5, LenProperties
<1>7. Over' = 0
  <2>1. Over' = Len(out') - Len(out')
    BY <1>3 DEF Over
  <2> QED BY <1>6, <2>1
<1>8. Place(t, 0)'
  BY <1>2, <1>4, <1>7 DEF Place, Between, AtRest
<1>9. Content(t, 0)'
  <2>1. ASSUME NEW i \in 1 .. Len(t.buffer)
        PROVE  t.buffer[i] = IF Len(got') + i <= Len(old') THEN old'[Len(got') + i]
                             ELSE answer'[Len(got') + i - Len(old')]
    <3>1. Len(got') + i = i /\ i <= Len(old')
      BY <1>2, <1>3, <1>6
    <3> QED BY <1>2, <3>1
  <2>2. Len(got') + Len(t.buffer) = Len(old') + 0 /\ Len(got') + Len(t.buffer) <= Len(old') + 0
    BY <1>2, <1>3, <1>6
  <2>3. \A i \in 1 .. Len(got') : FALSE
    BY <1>3, <1>6
  <2> QED BY <1>1, <1>2, <2>1, <2>2, <2>3 DEF Content, Sent
<1>10. t = Drained(rx)'
  BY <1>1, <1>3, DecodeNone DEF Drained
<1>11. Told(0)' /\ FirstInv'
  BY <1>3, <1>4 DEF Told, FirstInv
<1> QED BY <1>8, <1>9, <1>10, <1>11 DEF DecodeInv

(* Whenever the hub stops listening, that is what it has.                  *)
LEMMA KeptListening ==
  ASSUME TypeInv, DecodeInv, Listening
  PROVE  \E z, m : z = Drained(rx) /\ Kept(z, m)
<1>1. PICK z, m : z = Drained(rx) /\ Place(z, m) /\ Content(z, m)
  BY DEF DecodeInv
<1>2. /\ m \in 0 .. Len(answer) /\ Len(answer) \in Nat /\ Over \in Nat /\ Over <= Len(answer)
      /\ out # << >> => Over < Len(answer) /\ out[1] = answer[Over + 1]
  BY <1>1, PlaceType, LengthsAre DEF TypeInv
<1>3. RxOK(z) /\ DataBits \in Nat \ {0}
  BY <1>1, SerialTypes
<1>4. CASE m = Over /\ Between(z)
  <2>1. z.bit = DataBits /\ z.bit # DataBits - 1
    BY <1>3, <1>4 DEF Between
  <2> QED BY <1>1, <1>2, <2>1 DEF Kept
<1>5. ASSUME m = Over, NEW j \in 0 .. DataBits + 1, UnderWay(z, j)
      PROVE  Kept(z, m)
  <2>1. out # << >> /\ out \in Seq(Bytes) /\ Head(out) = out[1] /\ Head(out) \in Bytes
    BY <1>5, HeadTailProperties DEF UnderWay, TypeInv, BoardType
  <2>2. m < Len(answer) /\ m # Len(answer) /\ Head(out) = answer[m + 1]
    BY <1>2, <1>5, <2>1
  <2>3. ASSUME z.bit = DataBits - 1
        PROVE  z.byte = answer[m + 1]
    <3>1. j = DataBits + 1 /\ z.byte = FirstBits(Head(out), j - 1)
      BY <1>3, <1>5, <2>3 DEF UnderWay, Recorded
    <3>2. j - 1 = DataBits
      BY <1>3, <3>1
    <3>3. FirstBits(Head(out), DataBits) = Head(out)
      BY <2>1 DEF Bytes, FirstBits
    <3> QED BY <2>2, <3>1, <3>2, <3>3
  <2> QED BY <1>1, <1>2, <2>2, <2>3 DEF Kept
<1>6. ASSUME m = Over - 1, NEW j \in 1 .. DataBits + 1, NEW l \in 0 .. MaxLatency, Past(z, j, l)
      PROVE  Kept(z, m)
  <2>1. m < Len(answer) /\ m # Len(answer) /\ m + 1 = Over
    BY <1>2, <1>6
  <2>2. ASSUME z.bit = DataBits - 1
        PROVE  z.byte = answer[m + 1]
    <3>1. z.byte \o Bits(1, DataBits - 1 - z.bit) = answer[Over]
      BY <1>3, <1>6, PastByte
    <3>2. DataBits - 1 - z.bit = 0
      BY <1>3, <2>2
    <3>3. Bits(1, 0) = << >>
      BY DEF Bits
    <3>4. z.byte \o << >> = z.byte
      <4>1. z.byte \in Seq({0, 1})
        BY <1>3 DEF RxOK, RxRecord
      <4> QED BY <4>1, ConcatEmptySeq
    <3> QED BY <2>1, <3>1, <3>2, <3>3, <3>4
  <2> QED BY <1>1, <1>2, <2>1, <2>2 DEF Kept
<1> QED BY <1>1, <1>4, <1>5, <1>6 DEF Place

LEMMA KeptStep ==
  ASSUME SerialInv, [Next]_vars, ~rxEnabled'
  PROVE  KeptInv'
<1>0. TypeInv /\ DecodeInv /\ KeptInv
  BY DEF SerialInv
<1>1. CASE ~rxEnabled
  <2>1. edge = -1 /\ poll = "none"
    BY <1>0, <1>1 DEF TypeInv, Deaf
  <2>2. StartBit \/ Tick \/ UNCHANGED vars
    BY <1>1, <2>1 DEF Next, RxBitISR, Request, Available, RxBits, TimeOut, StopListening
  <2>3. Standing
    BY <2>2 DEF StartBit, Tick, vars, hubVars, history, Standing
  <2> SUFFICES ASSUME ~rxEnabled', ~raced', ~isrOverflow'
               PROVE  \E z, m : z = Drained(rx)' /\ Kept(z, m)'
    BY DEF KeptInv
  <2>4. PICK z, m : z = Drained(rx) /\ Kept(z, m)
    BY <1>0, <1>1, <2>3 DEF KeptInv, Standing
  <2>5. z = Drained(rx)' /\ answer' = answer
    BY <2>3, <2>4 DEF Standing, Drained
  <2>6. Content(z, m)'
    BY <2>3, <2>4, ContentStanding DEF Kept
  <2>7. Kept(z, m)'
    BY <2>4, <2>5, <2>6 DEF Kept
  <2> QED BY <2>5, <2>7
<1>2. CASE rxEnabled
  <2>1. StopListening
    <3>1. CASE Request
      BY <3>1, RequestIs
    <3>2. CASE RxBits
      BY <1>2, <3>2, RxBitsIs
    <3>3. CASE StartBit \/ Tick \/ RxBitISR \/ Available \/ TimeOut \/ UNCHANGED vars
      BY <1>2, <3>3 DEF StartBit, Tick, RxBitISR, Available, TimeOut, vars, hubVars
    <3> QED BY <3>1, <3>2, <3>3 DEF Next
  <2>2. UNCHANGED <<isrBuffer, rx, isrOverflow, got, answer, old, raced>>
    BY <2>1 DEF StopListening
  <2> SUFFICES ASSUME ~rxEnabled', ~raced', ~isrOverflow'
               PROVE  \E z, m : z = Drained(rx)' /\ Kept(z, m)'
    BY DEF KeptInv
  <2>3. Listening
    BY <1>2, <2>2 DEF Listening
  <2>4. PICK z, m : z = Drained(rx) /\ Kept(z, m)
    BY <1>0, <2>3, KeptListening
  <2>5. z = Drained(rx)'
    BY <2>2, <2>4 DEF Drained
  <2>6. Content(z, m)'
    BY <2>2, <2>4 DEF Kept, Content, Sent
  <2>7. Kept(z, m)'
    BY <2>2, <2>4, <2>6 DEF Kept
  <2> QED BY <2>5, <2>7
<1> QED BY <1>1, <1>2

LEMMA SerialInit ==
  ASSUME Init
  PROVE  SerialInv
<1>1. TypeInv
  BY TypeInit
<1>2. ~rxEnabled /\ answer = << >> /\ old = << >> /\ got = << >> /\ isrBuffer = << >> /\ rx = Idle
  BY DEF Init
<1>3. DecodeInv /\ FirstInv
  BY <1>2 DEF DecodeInv, FirstInv, Listening
<1>4. KeptInv
  <2>1. PICK z : z = rx
    OBVIOUS
  <2>2. /\ z.bit = DataBits /\ z.buffer = << >> /\ z.refused = FALSE /\ rx.refused = FALSE
        /\ Len(<< >>) = 0
    BY <1>2, <2>1 DEF Idle
  <2>3. Content(z, 0)
    <3>1. \A i \in 1 .. 0 : FALSE
      OBVIOUS
    <3> QED BY <1>2, <2>2, <3>1 DEF Content
  <2>4. Kept(z, 0)
    BY <1>2, <2>2, <2>3 DEF Kept
  <2>5. z = Drained(rx)
    BY <1>2, <2>1, DecodeNone DEF Drained
  <2> QED BY <2>4, <2>5 DEF KeptInv
<1> QED BY <1>1, <1>3, <1>4 DEF SerialInv

LEMMA SerialStep ==
  ASSUME SerialInv, [Next]_vars
  PROVE  SerialInv'
<1>0. TypeInv /\ DecodeInv /\ FirstInv
  BY DEF SerialInv
<1>1. TypeInv'
  BY <1>0, TypeStep
<1>2. DecodeInv' /\ FirstInv'
  <2>0. CASE ~Listening'
    BY <2>0 DEF DecodeInv, FirstInv
  <2>1. CASE Listening' /\ (StartBit \/ Tick \/ Available \/ TimeOut \/ UNCHANGED vars)
    <3>1. DecodeInv'
      BY <2>1, DecodeStanding
    <3>2. Standing
      BY <2>1 DEF StartBit, Tick, Available, TimeOut, vars, boardVars, hubVars, history, Standing
    <3> QED BY <1>0, <3>1, <3>2, FirstStanding
  <2>2. CASE Listening' /\ RxBitISR
    BY <2>2, DecodeRxBitISR, FirstRxBitISR
  <2>3. CASE Listening' /\ RxBits
    BY <2>3, DecodeRxBits
  <2>4. CASE Request
    BY <1>0, <2>4, DecodeRequest
  <2>5. CASE Listening' /\ StopListening
    BY <2>5 DEF StopListening, Listening
  <2> QED BY <2>0, <2>1, <2>2, <2>3, <2>4, <2>5 DEF Next
<1>3. KeptInv'
  <2>1. CASE rxEnabled'
    BY <2>1 DEF KeptInv
  <2>2. CASE ~rxEnabled'
    BY <2>2, KeptStep
  <2> QED BY <2>1, <2>2
<1> QED BY <1>1, <1>2, <1>3 DEF SerialInv

LEMMA SerialInvHolds == Spec => []SerialInv
<1>1. Init => SerialInv
  BY SerialInit
<1>2. SerialInv /\ [Next]_vars => SerialInv'
  BY SerialStep
<1> QED BY <1>1, <1>2, PTL DEF Spec

-----------------------------------------------------------------------------
(* The properties                                                          *)

LEMMA PrefixIs ==
  ASSUME NEW S, NEW s \in Seq(S), NEW t \in Seq(S), Len(s) <= Len(t),
         \A i \in 1 .. Len(s) : s[i] = t[i]
  PROVE  IsPrefix(s, t)
<1> PICK n : n = Len(s)
  OBVIOUS
<1>1. n \in Nat /\ Len(t) \in Nat
  BY LenProperties
<1>2. /\ \A i \in 1 .. n : s[i] \in S
      /\ \A i \in 1 .. n : t[i] \in S
  BY <1>1, ElementOfSeq
<1>3. /\ SubSeq(s, 1, n) \in Seq(S) /\ Len(SubSeq(s, 1, n)) = (IF 1 <= n THEN n - 1 + 1 ELSE 0)
      /\ \A i \in 1 .. n - 1 + 1 : SubSeq(s, 1, n)[i] = s[1 + i - 1]
  BY <1>1, <1>2, SubSeqProperties
<1>4. /\ SubSeq(t, 1, n) \in Seq(S) /\ Len(SubSeq(t, 1, n)) = (IF 1 <= n THEN n - 1 + 1 ELSE 0)
      /\ \A i \in 1 .. n - 1 + 1 : SubSeq(t, 1, n)[i] = t[1 + i - 1]
  BY <1>1, <1>2, SubSeqProperties
<1>5. (IF 1 <= n THEN n - 1 + 1 ELSE 0) = n /\ n - 1 + 1 = n
  BY <1>1
<1>6. ASSUME NEW i \in 1 .. n
      PROVE  SubSeq(s, 1, n)[i] = SubSeq(t, 1, n)[i]
  <2>1. 1 + i - 1 = i
    BY <1>1
  <2> QED BY <1>3, <1>4, <1>5, <2>1
<1>7. SubSeq(s, 1, n) = SubSeq(t, 1, n)
  BY <1>3, <1>4, <1>5, <1>6, SeqEqual
<1> QED BY <1>7 DEF IsPrefix

(* What was read and what is in the buffer is what was sent.               *)
LEMMA InOrder ==
  ASSUME SerialInv, rxEnabled, Sound
  PROVE  IsPrefix(Decoded, old \o answer)
<1>0. TypeInv /\ DecodeInv
  BY DEF SerialInv
<1>1. Listening /\ ~rx.refused
  BY DEF Sound, Listening
<1>2. PICK z, m : z = Drained(rx) /\ Place(z, m) /\ Content(z, m)
  BY <1>0, <1>1 DEF DecodeInv
<1>3. /\ m \in 0 .. Len(answer) /\ Len(answer) \in Nat /\ Len(old) \in Nat /\ Len(got) \in Nat
      /\ RxOK(rx) /\ RxOK(z) /\ isrBuffer \in Seq(ChangeRecord)
  BY <1>0, <1>2, PlaceType, SerialTypes
<1>4. /\ got \in Seq(Bytes) /\ old \in Seq(Bytes) /\ answer \in Seq(Bytes)
      /\ rx.buffer \in Seq(Bytes) /\ z.buffer \in Seq(Bytes)
      /\ Len(rx.buffer) \in Nat /\ Len(z.buffer) \in Nat
  BY <1>0, <1>3, LenProperties DEF TypeInv, BoardType, HubType, RxOK, RxRecord
<1>5. Grown(rx, z)
  BY <1>2, <1>3, DecodeAllGrows DEF Drained
<1>6. /\ \A i \in 1 .. Len(got) : got[i] = Sent(i)
      /\ \A i \in 1 .. Len(z.buffer) : z.buffer[i] = Sent(Len(got) + i)
      /\ Len(got) + Len(z.buffer) <= Len(old) + m
  BY <1>1, <1>2 DEF Content
<1>7. /\ Decoded \in Seq(Bytes) /\ Len(Decoded) = Len(got) + Len(rx.buffer)
      /\ \A i \in 1 .. Len(got) + Len(rx.buffer) :
           Decoded[i] = IF i <= Len(got) THEN got[i] ELSE rx.buffer[i - Len(got)]
  BY <1>4, ConcatProperties DEF Decoded
<1>8. /\ old \o answer \in Seq(Bytes) /\ Len(old \o answer) = Len(old) + Len(answer)
      /\ \A i \in 1 .. Len(old) + Len(answer) : (old \o answer)[i] = Sent(i)
  BY <1>4, ConcatProperties DEF Sent
<1>9. Len(Decoded) <= Len(old \o answer)
  <2>1. Len(rx.buffer) <= Len(z.buffer)
    BY <1>5 DEF Grown
  <2> QED BY <1>3, <1>4, <1>6, <1>7, <1>8, <2>1
<1>10. ASSUME NEW i \in 1 .. Len(Decoded)
       PROVE  Decoded[i] = (old \o answer)[i]
  <2>1. (old \o answer)[i] = Sent(i)
    BY <1>3, <1>4, <1>7, <1>8, <1>9
  <2>2. CASE i <= Len(got)
    <3>1. i \in 1 .. Len(got) /\ i \in 1 .. Len(got) + Len(rx.buffer)
      BY <1>3, <1>4, <1>7, <2>2
    <3> QED BY <1>6, <1>7, <2>1, <2>2, <3>1
  <2>3. CASE ~(i <= Len(got))
    <3>1. PICK k : k = i - Len(got)
      OBVIOUS
    <3>2. /\ k \in 1 .. Len(rx.buffer) /\ k \in 1 .. Len(z.buffer) /\ Len(got) + k = i
          /\ i \in 1 .. Len(got) + Len(rx.buffer)
      BY <1>3, <1>4, <1>5, <1>7, <2>3, <3>1 DEF Grown
    <3>3. Decoded[i] = rx.buffer[k]
      BY <1>7, <2>3, <3>1, <3>2
    <3>4. rx.buffer[k] = z.buffer[k]
      BY <1>5, <3>2 DEF Grown
    <3>5. z.buffer[k] = Sent(i)
      BY <1>6, <3>2
    <3> QED BY <2>1, <3>3, <3>4, <3>5
  <2> QED BY <2>2, <2>3
<1> QED BY <1>7, <1>8, <1>9, <1>10, PrefixIs

(* Whenever the task polls and however late the interrupt runs, what is    *)
(* read is what the board sent, in order and without a hole.               *)
THEOREM DecodedInOrderHolds == Spec => []DecodedInOrder
<1>1. SerialInv => DecodedInOrder
  BY InOrder DEF DecodedInOrder
<1> QED BY <1>1, SerialInvHolds, PTL

(* A poll that began on a silent line without changes to decode leaves     *)
(* every byte sent by then readable: it makes up the stop bit that no      *)
(* change told of.                                                         *)
THEOREM NothingWithheldHolds == Spec => NothingWithheld
<1>1. ASSUME SerialInv, [Next]_vars
      PROVE  [poll = "rxBits" /\ poll' # "rxBits" /\ Sound' => Len(Decoded') >= due]_vars
  <2>0. TypeInv
    BY <1>1 DEF SerialInv
  <2> SUFFICES ASSUME poll = "rxBits", poll' # "rxBits", Sound'
               PROVE  Len(Decoded') >= due
    OBVIOUS
  <2>1. RxBits
    <3>1. CASE StartBit \/ Tick \/ RxBitISR \/ UNCHANGED vars
      BY <3>1 DEF StartBit, Tick, RxBitISR, vars, hubVars
    <3>2. CASE Request
      BY <3>2, RequestIs
    <3>3. CASE Available \/ TimeOut \/ StopListening
      BY <3>3 DEF Available, TimeOut, StopListening
    <3> QED BY <1>1, <3>1, <3>2, <3>3 DEF Next
  <2>2. Listening' /\ ~rx'.refused
    <3>1. rxEnabled
      BY <2>0 DEF TypeInv, Deaf
    <3>2. rxEnabled'
      BY <2>1, <3>1 DEF RxBits
    <3> QED BY <3>2 DEF Sound, Listening
  <2>3. PICK m \in Nat : Content(Polled, m) /\ (due > 0 => Len(old) + m >= due)
    BY <1>1, <2>1, <2>2, PolledIs
  <2>4. PICK r : r = Polled
    OBVIOUS
  <2>5. PICK t : t = rx'
    OBVIOUS
  <2>6. RxOK(r) /\ RxOK(t) /\ ~r.refused
    BY <2>0, <2>1, <2>2, <2>4, <2>5, PolledReads
  <2>7. Len(got) + Len(r.buffer) = Len(old) + m
    BY <2>3, <2>4, <2>6 DEF Content
  <2>8. /\ Len(got) \in Nat /\ Len(r.buffer) \in Nat /\ Len(old) \in Nat /\ due \in Nat
        /\ t.buffer \in Seq(Bytes) /\ got' \in Seq(Bytes)
    <3>1. TypeInv'
      BY <2>0, <1>1, TypeStep
    <3>2. r.buffer \in Seq(Bytes) /\ t.buffer \in Seq(Bytes)
      BY <2>6 DEF RxOK, RxRecord
    <3>3. got' \in Seq(Bytes)
      BY <3>1 DEF TypeInv, HubType
    <3> QED BY <2>0, <3>2, <3>3, SerialTypes, LenProperties
  <2>9. Len(got') + Len(t.buffer) = Len(old) + m
    <3>1. CASE t.buffer = r.buffer /\ got' = got
      BY <2>7, <3>1
    <3>2. CASE Len(t.buffer) = Len(r.buffer) - 1 /\ Len(got') = Len(got) + 1
      <4>1. PICK a \in Nat, b \in Nat, c \in Nat :
                 a = Len(got) /\ b = Len(r.buffer) /\ c = Len(old)
        BY <2>8
      <4>2. Len(got') = a + 1 /\ Len(t.buffer) = b - 1 /\ a + b = c + m
        BY <2>7, <3>2, <4>1
      <4>3. a + 1 + (b - 1) = c + m
        BY <4>2
      <4> QED BY <4>1, <4>2, <4>3
    <3> QED BY <2>0, <2>1, <2>4, <2>5, <3>1, <3>2, PolledReads
  <2>10. Len(Decoded') = Len(got') + Len(t.buffer)
    BY <2>5, <2>8, ConcatProperties DEF Decoded
  <2> QED BY <2>3, <2>8, <2>9, <2>10
<1> QED BY <1>1, SerialInvHolds, PTL DEF Spec, NothingWithheld

(* What decoding adds to an empty buffer it adds to any, until it is full. *)
LEMMA DecodeAllAdds ==
  ASSUME NEW q, RxOK(q), NEW r, RxOK(r), Alike(q, r), q.buffer = << >>,
         NEW s \in Seq(ChangeRecord)
  PROVE  /\ RxOK(DecodeAll(q, s)) /\ Alike(DecodeAll(q, s), DecodeAll(r, s))
         /\ ~DecodeAll(r, s).refused
              => DecodeAll(r, s).buffer = r.buffer \o DecodeAll(q, s).buffer
<1>0. PICK p : p = r.buffer
  OBVIOUS
<1>1. PICK f : IsRun(f, q, s) /\ DecodeAll(q, s) = f[Len(s)]
  BY RunEnds
<1>2. PICK g : IsRun(g, r, s) /\ DecodeAll(r, s) = g[Len(s)]
  BY RunEnds
<1>3. /\ Len(s) \in Nat /\ f[0] = q /\ g[0] = r
      /\ \A k \in 1 .. Len(s) : f[k] = Decode(f[k - 1], s[k]) /\ g[k] = Decode(g[k - 1], s[k])
  BY <1>1, <1>2, RunSteps
<1>4. p \in Seq(Bytes) /\ Len(p) \in Nat /\ BufCapacity \in Nat
  BY <1>0, LenProperties, Sizes DEF RxOK, RxRecord
<1> DEFINE Adds(x, y) == /\ RxOK(x) /\ RxOK(y) /\ Alike(x, y)
                         /\ ~y.refused => y.buffer = p \o x.buffer
           T == {k \in 0 .. Len(s) : Adds(f[k], g[k])}
<1>5. 0 \in T
  <2>1. p \o << >> = p
    BY <1>4, ConcatEmptySeq
  <2>2. Adds(q, r)
    BY <1>0, <2>1
  <2> HIDE DEF Adds
  <2> QED BY <1>3, <2>2
<1>6. ASSUME NEW k \in 1 .. Len(s), k - 1 \in T
      PROVE  k \in T
  <2>1. PICK x : x = f[k - 1]
    OBVIOUS
  <2>2. PICK y : y = g[k - 1]
    OBVIOUS
  <2>3. PICK c \in ChangeRecord : c = s[k]
    BY <1>3, ElementOfSeq
  <2>4. RxOK(x) /\ RxOK(y) /\ Alike(x, y) /\ (~y.refused => y.buffer = p \o x.buffer)
    BY <1>6, <2>1, <2>2
  <2>5. PICK x1 : x1 = Decode(x, c)
    OBVIOUS
  <2>6. PICK y1 : y1 = Decode(y, c)
    OBVIOUS
  <2>7. /\ Alike(x1, y1) /\ RxOK(x1) /\ RxOK(y1)
        /\ \/ Untouched(x, x1) /\ Untouched(y, y1)
           \/ \E b \in Bytes : Pushed(x, x1, b) /\ Pushed(y, y1, b)
    BY <2>3, <2>4, <2>5, <2>6, DecodeAlike, DecodeType
  <2>8. /\ x.buffer \in Seq(Bytes) /\ Len(x.buffer) \in Nat /\ y.buffer \in Seq(Bytes)
        /\ Len(y.buffer) \in Nat
    BY <2>4, LenProperties DEF RxOK, RxRecord
  <2>9. ASSUME ~y1.refused
        PROVE  y1.buffer = p \o x1.buffer
    <3>1. CASE Untouched(x, x1) /\ Untouched(y, y1)
      BY <2>4, <2>9, <3>1 DEF Untouched
    <3>2. ASSUME NEW b \in Bytes, Pushed(x, x1, b), Pushed(y, y1, b)
          PROVE  y1.buffer = p \o x1.buffer
      <4>1. Len(y.buffer) < BufCapacity /\ y1.buffer = Append(y.buffer, b) /\ ~y.refused
        BY <2>9, <3>2 DEF Pushed
      <4>2. y.buffer = p \o x.buffer
        BY <2>4, <4>1
      <4>3. Len(y.buffer) = Len(p) + Len(x.buffer)
        BY <1>4, <2>8, <4>2, ConcatProperties
      <4>4. Len(x.buffer) < BufCapacity
        <5>1. PICK a \in Nat, h \in Nat, n \in Nat :
                   a = Len(p) /\ h = Len(x.buffer) /\ n = Len(y.buffer)
          BY <1>4, <2>8
        <5>2. n = a + h /\ n < BufCapacity
          BY <4>1, <4>3, <5>1
        <5>3. h < BufCapacity
          BY <1>4, <5>2
        <5> QED BY <5>1, <5>3
      <4>5. x1.buffer = Append(x.buffer, b)
        BY <3>2, <4>4 DEF Pushed
      <4>6. b \in Bytes
        BY <3>2
      <4>7. Append(p \o x.buffer, b) = p \o Append(x.buffer, b)
        <5>1. PICK t \in Seq(Bytes) : t = x.buffer
          BY <2>8
        <5>2. <<b>> \in Seq(Bytes)
          BY <4>6
        <5>3. p \in Seq(Bytes) /\ t \in Seq(Bytes) /\ p \o t \in Seq(Bytes)
          BY <1>4, <5>1, ConcatProperties
        <5>4. Append(p \o t, b) = (p \o t) \o <<b>> /\ Append(t, b) = t \o <<b>>
          BY <4>6, <5>3, AppendIsConcat
        <5>5. ASSUME NEW e \in Seq(Bytes)
              PROVE  (p \o t) \o e = p \o (t \o e)
          BY <5>3, <5>5, ConcatAssociative
        <5>6. (p \o t) \o <<b>> = p \o (t \o <<b>>)
          BY <5>2, <5>5, Zenon
        <5> QED BY <5>1, <5>4, <5>6
      <4> QED BY <4>1, <4>2, <4>5, <4>7
    <3> QED BY <2>7, <3>1, <3>2
  <2>10. f[k] = x1 /\ g[k] = y1 /\ k \in 0 .. Len(s)
    BY <1>3, <2>1, <2>2, <2>3, <2>5, <2>6
  <2> QED BY <2>7, <2>9, <2>10
<1>7. Len(s) \in T
  <2>1. T \in SUBSET (0 .. Len(s))
    OBVIOUS
  <2> HIDE DEF T
  <2> QED BY <1>3, <1>5, <1>6, <2>1, Steps
<1> QED BY <1>0, <1>1, <1>2, <1>7

(* A sequence of one element.                                              *)
LEMMA OneIs ==
  ASSUME NEW S, NEW s \in Seq(S), NEW e \in S
  PROVE  /\ Len(s) = 1 /\ s[1] = e => s = <<e>>
         /\ Len(s) = 0 => s = << >>
<1>1. <<e>> \in Seq(S) /\ Len(<<e>>) = 1 /\ <<e>>[1] = e
  OBVIOUS
<1>2. ASSUME Len(s) = 1, s[1] = e
      PROVE  s = <<e>>
  <2>1. \A i \in 1 .. Len(s) : s[i] = <<e>>[i]
    BY <1>1, <1>2
  <2> QED BY <1>1, <1>2, <2>1, SeqEqual
<1>3. Len(s) = 0 => s = << >>
  BY EmptySeq
<1> QED BY <1>2, <1>3

(* What is made of an answer that was read up to its line feed.            *)
LEMMA Leftover ==
  ASSUME SerialInv, Request, Sound,
         answer # << >>, Last(answer) = LF, got = old \o Front(answer)
  PROVE  \/ old' \in {<< >>, <<LF>>}
         \/ Len(old') = 1 /\ old'[1][DataBits] = 1
<1>0. TypeInv /\ KeptInv
  BY DEF SerialInv
<1>1. ~raced /\ ~isrOverflow /\ ~rx.refused /\ ~rxEnabled
  BY RequestIs DEF Sound
<1>2. PICK z, m : z = Drained(rx) /\ Kept(z, m)
  BY <1>0, <1>1 DEF KeptInv
<1>3. PICK n : n = Len(answer)
  OBVIOUS
<1>4. /\ n \in Nat \ {0} /\ answer \in Seq(Bytes) /\ old \in Seq(Bytes)
      /\ Len(old) \in Nat /\ Len(got) \in Nat /\ DataBits \in Nat \ {0} /\ BufCapacity \in Nat \ {0} /\ LF \in Bytes
      /\ answer[n] = LF /\ RxOK(rx) /\ RxOK(z) /\ isrBuffer \in Seq(ChangeRecord)
  <2>1. answer \in Seq(Bytes) /\ old \in Seq(Bytes)
    BY <1>0 DEF TypeInv, BoardType, HubType
  <2>2. n \in Nat \ {0}
    BY <1>3, <2>1, EmptySeq
  <2>3. answer[n] = LF
    BY <1>3 DEF Last
  <2>4. LF \in Bytes
    BY SoftSerialAssumption
  <2> QED BY <1>0, <1>2, <2>1, <2>2, <2>3, <2>4, SerialTypes, Sizes
<1>5. Len(got) = Len(old) + (n - 1)
  <2>1. \A i \in 1 .. n - 1 : answer[i] \in Bytes
    BY <1>3, <1>4, ElementOfSeq
  <2>2. PICK k \in Nat : k = n - 1
    BY <1>4
  <2>3. /\ SubSeq(answer, 1, k) \in Seq(Bytes)
        /\ Len(SubSeq(answer, 1, k)) = (IF 1 <= k THEN k - 1 + 1 ELSE 0)
    BY <2>1, <2>2, SubSeqProperties
  <2>4. Front(answer) = SubSeq(answer, 1, k)
    BY <1>3, <2>2 DEF Front
  <2>5. Front(answer) \in Seq(Bytes) /\ Len(Front(answer)) = n - 1
    BY <2>2, <2>3, <2>4
  <2>6. Len(old \o Front(answer)) = Len(old) + Len(Front(answer))
    BY <1>4, <2>5, ConcatProperties
  <2> QED BY <2>5, <2>6
<1>6. /\ m \in 0 .. n
      /\ m = n => z.bit = DataBits
      /\ m < n /\ z.bit = DataBits - 1 => z.byte = answer[m + 1]
      /\ \A i \in 1 .. Len(z.buffer) : z.buffer[i] = Sent(Len(got) + i)
      /\ IF z.refused THEN Len(z.buffer) = BufCapacity /\ Len(got) + Len(z.buffer) < Len(old) + m
         ELSE Len(got) + Len(z.buffer) = Len(old) + m
  BY <1>1, <1>2, <1>3 DEF Kept, Content
<1>7. z.buffer \in Seq(Bytes) /\ Len(z.buffer) \in Nat
  BY <1>4, LenProperties DEF RxOK, RxRecord
<1>8. ~z.refused /\ Len(z.buffer) = m + 1 - n
  <2>1. ~z.refused
    <3> SUFFICES ASSUME z.refused PROVE FALSE
      OBVIOUS
    <3>1. Len(z.buffer) = BufCapacity /\ Len(got) + Len(z.buffer) < Len(old) + m
      BY <1>6
    <3> QED BY <1>4, <1>5, <1>6, <1>7, <3>1
  <2>2. Len(got) + Len(z.buffer) = Len(old) + m
    BY <1>6, <2>1
  <2>3. PICK a \in Nat, k \in Nat, o \in Nat :
             a = Len(got) /\ k = Len(z.buffer) /\ o = Len(old)
    BY <1>4, <1>5, <1>7
  <2>4. a = o + (n - 1) /\ a + k = o + m
    BY <1>5, <2>2, <2>3
  <2>5. m \in Int /\ n \in Int
    BY <1>4, <1>6
  <2>6. k = m + 1 - n
    BY <2>4, <2>5
  <2> QED BY <2>1, <2>3, <2>6
<1>9. PICK y : y = Drained(Emptied)
  OBVIOUS
<1>10. RxOK(y) /\ Alike(y, z) /\ z.buffer = rx.buffer \o y.buffer
  <2>1. PICK e : e = Emptied
    OBVIOUS
  <2>2. RxOK(e)
    BY <1>0, <2>1, FlushedType
  <2>3. Alike(e, rx) /\ e.buffer = << >>
    BY <1>4, <2>1 DEF Emptied, Alike, RxOK, RxRecord
  <2>4. y = DecodeAll(e, isrBuffer) /\ z = DecodeAll(rx, isrBuffer)
    BY <1>2, <1>9, <2>1 DEF Drained
  <2>5. RxOK(rx) /\ isrBuffer \in Seq(ChangeRecord) /\ ~z.refused
    BY <1>4, <1>8
  <2> QED BY <2>2, <2>3, <2>4, <2>5, DecodeAllAdds
<1>11. /\ y.buffer \in Seq(Bytes) /\ Len(y.buffer) \in Nat
       /\ rx.buffer \in Seq(Bytes) /\ Len(rx.buffer) \in Nat
       /\ y.bit \in -1 .. DataBits /\ y.level \in {0, 1} /\ y.byte \in Seq({0, 1})
       /\ y.bit < DataBits => Len(y.byte) = y.bit + 1
  BY <1>4, <1>10, LenProperties DEF RxOK, RxRecord
<1>12. /\ Len(z.buffer) = Len(rx.buffer) + Len(y.buffer)
       /\ \A i \in 1 .. Len(rx.buffer) + Len(y.buffer) :
            z.buffer[i] = IF i <= Len(rx.buffer) THEN rx.buffer[i] ELSE y.buffer[i - Len(rx.buffer)]
  <2>1. PICK a \in Seq(Bytes) : a = rx.buffer
    BY <1>11
  <2>2. PICK b \in Seq(Bytes) : b = y.buffer
    BY <1>11
  <2>3. z.buffer = a \o b
    BY <1>10, <2>1, <2>2
  <2>4. /\ Len(a \o b) = Len(a) + Len(b)
        /\ \A i \in 1 .. Len(a) + Len(b) :
             (a \o b)[i] = IF i <= Len(a) THEN a[i] ELSE b[i - Len(a)]
    BY ConcatProperties
  <2>5. Len(z.buffer) = Len(rx.buffer) + Len(y.buffer)
    BY <2>1, <2>2, <2>3, <2>4
  <2>6. \A i \in 1 .. Len(rx.buffer) + Len(y.buffer) :
          z.buffer[i] = IF i <= Len(rx.buffer) THEN rx.buffer[i] ELSE y.buffer[i - Len(rx.buffer)]
    BY <2>1, <2>2, <2>3, <2>4
  <2> QED BY <2>5, <2>6
<1>13. PICK w : w = Complete(y)
  OBVIOUS
<1>14. old' = w.buffer
  BY <1>9, <1>13, RequestIs DEF Flushed
<1>15. CASE m = n
  <2>1. w = y
    <3>1. ~(y.bit < DataBits)
      BY <1>4, <1>6, <1>10, <1>15 DEF Alike
    <3> QED BY <1>13, <3>1 DEF Complete
  <2>2. Len(z.buffer) = 1
    BY <1>4, <1>8, <1>15
  <2>3. z.buffer[1] = LF
    <3>1. 1 \in 1 .. Len(z.buffer) /\ Len(got) + 1 = Len(old) + n
      BY <1>4, <1>5, <2>2
    <3>2. ~(Len(old) + n <= Len(old)) /\ Len(old) + n - Len(old) = n
      BY <1>4
    <3> QED BY <1>4, <1>6, <3>1, <3>2 DEF Sent
  <2>4. CASE Len(y.buffer) = 0
    BY <1>4, <1>11, <1>14, <2>1, <2>4, OneIs
  <2>5. CASE Len(y.buffer) # 0
    <3>1. Len(y.buffer) = 1 /\ Len(rx.buffer) = 0
      <4>1. PICK a \in Nat, b \in Nat : a = Len(rx.buffer) /\ b = Len(y.buffer)
        BY <1>11
      <4>2. a + b = 1 /\ b # 0
        BY <1>12, <2>2, <2>5, <4>1
      <4>3. a = 0 /\ b = 1
        BY <4>2
      <4> QED BY <4>1, <4>3
    <3>2. y.buffer[1] = LF
      <4>1. 1 \in 1 .. Len(rx.buffer) + Len(y.buffer) /\ ~(1 <= Len(rx.buffer))
            /\ 1 - Len(rx.buffer) = 1
        BY <3>1
      <4> QED BY <1>12, <2>3, <4>1
    <3>3. y.buffer = <<LF>>
      BY <1>4, <1>11, <3>1, <3>2, OneIs
    <3> QED BY <1>14, <2>1, <3>3
  <2> QED BY <2>4, <2>5
<1>16. CASE m # n
  <2>1. m = n - 1 /\ Len(z.buffer) = 0 /\ Len(y.buffer) = 0
    <3>1. PICK a \in Nat, b \in Nat, k \in Nat :
               a = Len(rx.buffer) /\ b = Len(y.buffer) /\ k = Len(z.buffer)
      BY <1>7, <1>11
    <3>2. k = a + b /\ k = m + 1 - n
      BY <1>8, <1>12, <3>1
    <3>3. m \in 0 .. n - 1 /\ n \in Nat
      BY <1>4, <1>6, <1>16
    <3>4. m = n - 1 /\ k = 0 /\ b = 0
      BY <3>2, <3>3
    <3> QED BY <3>1, <3>4
  <2>2. y.buffer = << >>
    BY <1>4, <1>11, <2>1, OneIs
  <2>3. CASE ~(y.bit < DataBits)
    BY <1>13, <1>14, <2>2, <2>3 DEF Complete
  <2>4. CASE y.bit < DataBits /\ y.level = 0
    BY <1>10, <1>13, <1>14, <2>2, <2>4, CompleteIs DEF Untouched
  <2>5. CASE y.bit < DataBits /\ y.level = 1
    <3>1. PICK d : d = DataBits - 1 - y.bit
      OBVIOUS
    <3>2. PICK v : v = y.byte \o Bits(1, d)
      OBVIOUS
    <3>3. d \in Nat /\ v \in Bytes /\ Pushed(y, w, v)
      BY <1>10, <1>13, <2>5, <3>1, <3>2, CompleteIs
    <3>4. w.buffer = Append(<< >>, v)
      BY <1>4, <2>1, <2>2, <3>3 DEF Pushed
    <3>5. w.buffer = <<v>>
      BY <3>4
    <3>6. CASE d = 0
      <4>1. v = y.byte
        <5>1. Bits(1, 0) = << >>
          BY DEF Bits
        <5> QED BY <1>11, <3>2, <3>6, <5>1, ConcatEmptySeq
      <4>2. z.bit = DataBits - 1 /\ z.byte = y.byte
        BY <1>4, <1>10, <1>11, <3>1, <3>6 DEF Alike
      <4>3. m < n /\ m + 1 = n
        BY <1>4, <2>1
      <4>4. v = LF
        BY <1>4, <1>6, <4>1, <4>2, <4>3
      <4> QED BY <1>14, <3>5, <4>4
    <3>7. CASE d # 0
      <4>1. /\ Len(y.byte) \in Nat
            /\ \A i \in 1 .. Len(y.byte) + d : v[i] = IF i <= Len(y.byte) THEN y.byte[i] ELSE 1
        BY <1>11, <3>2, <3>3, MoreBits, LenProperties
      <4>2. DataBits \in 1 .. Len(y.byte) + d /\ ~(DataBits <= Len(y.byte))
        <5>1. PICK h \in Nat : h = Len(y.byte)
          BY <4>1
        <5>2. y.bit \in Int /\ h = y.bit + 1 /\ d = DataBits - 1 - y.bit
          BY <1>11, <2>5, <3>1, <5>1
        <5>3. h + d = DataBits /\ d # 0 /\ d \in Nat /\ DataBits \in Nat \ {0}
          BY <1>4, <3>3, <3>7, <5>2
        <5>4. DataBits \in 1 .. h + d /\ ~(DataBits <= h)
          BY <5>3
        <5> QED BY <5>1, <5>4
      <4>3. v[DataBits] = 1
        BY <4>1, <4>2
      <4>4. Len(<<v>>) = 1 /\ <<v>>[1] = v
        OBVIOUS
      <4> QED BY <1>14, <3>5, <4>3, <4>4
    <3> QED BY <3>6, <3>7
  <2> QED BY <1>11, <2>3, <2>4, <2>5
<1> QED BY <1>15, <1>16

(* When an answer was heard up to its carriage return, at most one         *)
(* character heads the next exchange: its line feed, or, if that was cut   *)
(* off, one with its highest bit set.                                      *)
THEOREM LeftoverIsLineEndHolds == Spec => LeftoverIsLineEnd
<1>1. ASSUME SerialInv, [Next]_vars
      PROVE  [~rxEnabled /\ rxEnabled' /\ Sound
              /\ answer # << >> /\ Last(answer) = LF /\ got = old \o Front(answer)
              => \/ old' \in {<< >>, <<LF>>}
                 \/ Len(old') = 1 /\ old'[1][DataBits] = 1]_vars
  <2> SUFFICES ASSUME ~rxEnabled, rxEnabled', Sound,
                      answer # << >>, Last(answer) = LF, got = old \o Front(answer)
               PROVE  \/ old' \in {<< >>, <<LF>>}
                      \/ Len(old') = 1 /\ old'[1][DataBits] = 1
    OBVIOUS
  <2>1. Request
    <3>1. CASE StartBit \/ Tick \/ RxBitISR \/ RxBits \/ UNCHANGED vars
      BY <3>1 DEF StartBit, Tick, RxBitISR, RxBits, vars, hubVars
    <3>2. CASE Available \/ TimeOut \/ StopListening
      BY <3>2 DEF Available, TimeOut, StopListening
    <3> QED BY <1>1, <3>1, <3>2 DEF Next
  <2> QED BY <1>1, <2>1, Leftover
<1> QED BY <1>1, SerialInvHolds, PTL DEF Spec, LeftoverIsLineEnd
=============================================================================
