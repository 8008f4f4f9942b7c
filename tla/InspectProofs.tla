---------------------------- MODULE InspectProofs ----------------------------
(***************************************************************************)
(* Theorems about Inspect, for all datadirs and all flags: the walks over  *)
(* a header and over bodies.meta find their field whatever was encoded     *)
(* before it, a manifest is true about the datadir it names, its hash and  *)
(* time are of the block it names, and the capabilities it advertises are  *)
(* exact.                                                                  *)
(*                                                                         *)
(* The readers of RLP are recursive functions.  A set takes the place of   *)
(* the predicate of an induction over them, see Induction; that one of     *)
(* them is what its definition says is shown by constructing it, see       *)
(* Iteration.                                                              *)
(***************************************************************************)
EXTENDS Inspect, WellFoundedInduction, SequenceTheorems, TLAPS

(* The datadir stays one that a node leaves.                               *)
DatadirInv ==
  /\ DOMAIN dd = {"head", "time", "chain", "scheme", "tail", "txTail", "root", "id",
                  "triedb", "fields", "header", "meta", "txKey", "damage"}
  /\ dd.head \in Number /\ dd.time \in Number /\ dd.tail \in Number /\ dd.txTail \in Number
  /\ dd.scheme \in {"path", "hash"}
  /\ dd.root \in BOOLEAN /\ dd.id \in BOOLEAN /\ dd.triedb \in BOOLEAN /\ dd.txKey \in BOOLEAN
  /\ dd.fields \in Seq(Seq(Byte)) /\ dd.header \in Seq(Byte)
  /\ dd.meta \in Seq(Byte) \cup {None}
  /\ WellFormed(dd)

(* What was read is the truth until a node runs; nothing but what every    *)
(* flag overrides may remain unread.                                       *)
TruthInv ==
  /\ pc = "inspect" => ~Inspected /\ manifest = None /\ caps = None
  /\ Inspected =>
       /\ info.val.scheme = dd.scheme
       /\ ~ran => info.val.block = dd.head /\ info.val.chain = dd.chain
  /\ pc \notin {"inspect", "err", "panic"} /\ ~Inspected => ~NeedAutoDetect

(* The hash that was read is of the block and the time that were read.     *)
HashInv ==
  Inspected /\ Parseable =>
    /\ info.val.hash = [number |-> info.val.block, time |-> info.val.time]
    /\ info.val.hash \in HashType

(* The capabilities c are those of the datadir.                            *)
Exact(c) ==
  /\ c.head = dd.head
  /\ c.blocks = Oldest(ServedBlocks)
  /\ c.tx = Oldest(ServedTx)
  /\ c.state # None => c.state = Oldest(ServedState)

(* The datadir is as Inspect saw it.                                       *)
Current == Parseable /\ ~ran /\ dd.head + 1 \in Number

(* Capabilities that are under construction, as far as they are.           *)
CapsInv ==
  /\ pc \in {"inspect", "wire", "chainTail"} => caps = None
  /\ pc \in {"chainTail", "txTail"} => Inspected
  /\ Current /\ pc = "txTail" => caps.tail = dd.tail
  /\ Current /\ pc # "txTail" /\ caps # None => Exact(caps)

-----------------------------------------------------------------------------
(* Induction, and functions that are defined by recursion.                 *)

(* Natural numbers are well ordered.                                       *)
LEMMA Least ==
  ASSUME NEW T \in SUBSET Nat, T # {}
  PROVE  \E m \in T : \A k \in T : m <= k
  <1>1. \E m \in T : \A k \in T : ~(<<k, m>> \in OpToRel(<, Nat))
    BY WFMin, NatLessThanWellFounded
  <1>2. PICK m \in T : \A k \in T : ~(k < m)
    BY <1>1 DEF OpToRel
  <1>3. QED
    BY <1>2

(* Induction up to n, for a set in the place of a predicate.               *)
LEMMA Induction ==
  ASSUME NEW n \in Nat, NEW T, 0 \in T,
         \A i \in 0..(n - 1) : i \in T => i + 1 \in T
  PROVE  \A i \in 0..n : i \in T
  <1> DEFINE Bad == {i \in 0..n : i \notin T}
  <1>1. SUFFICES ASSUME Bad # {} PROVE FALSE
    OBVIOUS
  <1>2. PICK m \in Bad : \A k \in Bad : m <= k
    <2>1. Bad \in SUBSET Nat
      OBVIOUS
    <2> HIDE DEF Bad
    <2> QED BY <1>1, <2>1, Least
  <1>3. m # 0 /\ m - 1 \in 0..(n - 1) /\ m - 1 \notin Bad
    BY <1>2
  <1>4. QED
    BY <1>2, <1>3

(* A function on 0..n that is defined by what it is at 0 and by a step     *)
(* exists, hence is the one that a recursive definition chooses.           *)
Steps(n, D) == [1..n -> [D -> D]]

Iterates(f, n, D, d, step) ==
  /\ f \in [0..n -> D] /\ f[0] = d
  /\ \A i \in 1..n : f[i] = step[i][f[i - 1]]

LEMMA Iteration ==
  ASSUME NEW n \in Nat, NEW D, NEW d \in D, NEW step \in Steps(n, D)
  PROVE  \E f : Iterates(f, n, D, d, step)
  <1> DEFINE Upto(k, f) == f[0] = d /\ \A i \in 1..k : f[i] = step[i][f[i - 1]]
             T == {k \in 0..n : \E f \in [0..k -> D] : Upto(k, f)}
  <1>1. 0 \in T
    <2>1. [i \in 0..0 |-> d] \in [0..0 -> D] /\ Upto(0, [i \in 0..0 |-> d])
      OBVIOUS
    <2>2. \E f \in [0..0 -> D] : Upto(0, f)
      BY <2>1
    <2>3. QED
      BY <2>2
  <1>2. ASSUME NEW k \in 0..(n - 1), k \in T
        PROVE  k + 1 \in T
    <2>1. PICK f \in [0..k -> D] : Upto(k, f)
      BY <1>2
    <2> DEFINE g == [i \in 0..(k + 1) |-> IF i = k + 1 THEN step[k + 1][f[k]] ELSE f[i]]
    <2>2. step[k + 1] \in [D -> D]
      BY DEF Steps
    <2>3. g \in [0..(k + 1) -> D]
      BY <2>1, <2>2
    <2>4. Upto(k + 1, g)
      BY <2>1
    <2>5. \E h \in [0..(k + 1) -> D] : Upto(k + 1, h)
      BY <2>3, <2>4
    <2>6. QED
      BY <2>5
  <1>3. n \in T
    <2> HIDE DEF T
    <2>1. \A i \in 0..n : i \in T
      BY <1>1, <1>2, Induction
    <2> QED BY <2>1
  <1>4. QED
    BY <1>3 DEF Iterates

-----------------------------------------------------------------------------
(* Numbers.                                                                *)

LEMMA Sizes ==
  /\ Single \in Nat \ {0} /\ Short \in Nat \ {0} /\ Word \in Nat \ {0} /\ Word <= Short
  /\ Base \in Nat /\ Base >= 7
  /\ StrLong = Single + Short /\ ListStart = StrLong + Word + 1
  /\ ListLong = ListStart + Short /\ Base = ListLong + Word + 1
  BY RLPAssumption DEF Base, StrLong, ListStart, ListLong

LEMMA PowerDef ==
  /\ Power \in [0..Word -> Nat \ {0}]
  /\ Power[0] = 1
  /\ \A i \in 1..Word : Power[i] = Base * Power[i - 1]
  <1> DEFINE D == Nat \ {0}
             one == 1
             step == [i \in 1..Word |-> [v \in D |-> Base * v]]
  <1>1. step \in Steps(Word, D) /\ one \in D
    BY Sizes DEF Steps
  <1>2. PICK f : Iterates(f, Word, D, one, step)
    <2>1. Word \in Nat
      BY Sizes
    <2> HIDE DEF D, one, step
    <2> QED BY <1>1, <2>1, Iteration
  <1>3. f = [i \in 0..Word |-> IF i = 0 THEN 1 ELSE Base * f[i - 1]]
    <2>1. ASSUME NEW i \in 1..Word PROVE f[i] = Base * f[i - 1]
      <3>1. f[i - 1] \in D /\ f[i] = step[i][f[i - 1]]
        <4> HIDE DEF D, step
        <4> QED BY <1>2, Sizes DEF Iterates
      <3>2. QED
        BY <3>1
    <2>2. QED
      BY <1>2, <2>1 DEF Iterates
  <1>4. Power = [i \in 0..Word |-> IF i = 0 THEN 1 ELSE Base * Power[i - 1]]
    BY <1>3 DEF Power
  <1>5. \A i \in 0..Word : Power[i] \in D
    <2> DEFINE T == {i \in 0..Word : Power[i] \in D}
    <2>1. 0 \in T
      BY <1>4, Sizes
    <2>2. ASSUME NEW i \in 0..(Word - 1), i \in T PROVE i + 1 \in T
      <3>1. i + 1 \in 0..Word /\ Power[i + 1] = Base * Power[i]
        BY <1>4, Sizes
      <3>2. QED
        BY <2>2, <3>1, Sizes
    <2> HIDE DEF T
    <2>3. \A i \in 0..Word : i \in T
      BY <2>1, <2>2, Sizes, Induction
    <2>4. QED
      BY <2>3 DEF T
  <1>6. QED
    BY <1>4, <1>5, Sizes

LEMMA PowerGrows ==
  ASSUME NEW j \in 0..Word
  PROVE  \A i \in 0..j : Power[i] <= Power[j]
  <1> DEFINE T == {k \in 0..j : Power[j - k] <= Power[j]}
  <1>1. 0 \in T
    BY PowerDef, Sizes
  <1>2. ASSUME NEW k \in 0..(j - 1), k \in T PROVE k + 1 \in T
    <2>1. /\ Power[j - k] = Base * Power[j - (k + 1)]
          /\ Power[j - k] \in Nat /\ Power[j - (k + 1)] \in Nat /\ Power[j] \in Nat
      <3>1. j - k \in 1..Word /\ (j - k) - 1 = j - (k + 1) /\ j - (k + 1) \in 0..Word
        BY Sizes
      <3>2. QED
        BY <3>1, PowerDef
    <2>2. Power[j - (k + 1)] <= Power[j - k]
      BY <2>1, Sizes
    <2>3. QED
      BY <1>2, <2>1, <2>2
  <1> HIDE DEF T
  <1>3. \A k \in 0..j : k \in T
    BY <1>1, <1>2, Sizes, Induction
  <1>4. \A i \in 0..j : j - i \in T
    BY <1>3, Sizes
  <1>5. QED
    BY <1>4, Sizes DEF T

LEMMA UintSize ==
  /\ Uint64 \in Nat /\ Uint64 >= 7
  /\ Power[Word - 1] \in Nat \ {0} /\ Uint64 = Base * Power[Word - 1]
  <1>1. /\ Word \in 1..Word /\ Word - 1 \in 0..Word
    BY Sizes
  <1>2. Uint64 = Base * Power[Word - 1] /\ Power[Word - 1] \in Nat \ {0} /\ Uint64 \in Nat
    BY <1>1, PowerDef DEF Uint64
  <1>3. QED
    BY <1>2, Sizes

LEMMA UintPositive == Uint64 \in Nat /\ Uint64 >= 7
  BY UintSize

LEMMA AsIntType ==
  ASSUME NEW n \in Int
  PROVE  AsInt(n) \in Int
  <1>1. Uint64 \in Nat /\ Uint64 # 0
    BY UintSize
  <1>2. QED
    BY <1>1 DEF AsInt

LEMMA AsIntSmall ==
  ASSUME NEW n \in Nat, 2 * n < Uint64
  PROVE  AsInt(n) = n
  <1>1. Uint64 \in Nat /\ n < Uint64
    BY UintSize
  <1>2. n % Uint64 = n
    BY <1>1
  <1>3. QED
    BY <1>1, <1>2 DEF AsInt

LEMMA AsIntNumber ==
  ASSUME NEW n \in Number
  PROVE  IF 2 * n < Uint64 THEN AsInt(n) = n ELSE AsInt(n) < 0
  <1>1. Uint64 \in Nat /\ Uint64 >= 7 /\ n \in Nat /\ n < Uint64
    BY UintSize DEF Number
  <1>2. n % Uint64 = n
    BY <1>1
  <1>3. QED
    BY <1>1, <1>2 DEF AsInt

LEMMA AsUintAsInt ==
  ASSUME NEW n \in Number
  PROVE  AsUint(AsInt(n)) = n
  <1>1. Uint64 \in Nat /\ Uint64 >= 7 /\ n \in Nat /\ n < Uint64
    BY UintSize DEF Number
  <1>2. n % Uint64 = n /\ (n - Uint64) % Uint64 = n
    BY <1>1
  <1>3. QED
    BY <1>1, <1>2 DEF AsInt, AsUint

-----------------------------------------------------------------------------
(* readBEUint.                                                             *)

(* The n bytes of buf at off.                                              *)
Bytes(buf, off, n) == \A i \in 1..n : buf[off + i] \in Byte

(* The values v that readBEUint goes through.                              *)
Accumulates(v, buf, off, n) ==
  /\ v \in [0..n -> Int] /\ v[0] = 0
  /\ \A i \in 1..n : v[i] = AsInt((v[i - 1] * Base) + buf[off + i])

LEMMA ReadDef ==
  ASSUME NEW buf, NEW off \in Int, NEW n \in Nat, Bytes(buf, off, n)
  PROVE  \E v : Accumulates(v, buf, off, n) /\ ReadBEUint(buf, off, n) = v[n]
  <1> DEFINE zero == 0
             add(i) == [v \in Int |-> AsInt((v * Base) + buf[off + i])]
             step == [i \in 1..n |-> add(i)]
             Eq(v) == v = [i \in 0..n |-> IF i = 0 THEN 0
                                         ELSE AsInt((v[i - 1] * Base) + buf[off + i])]
  <1>1. step \in Steps(n, Int) /\ zero \in Int
    <2>1. ASSUME NEW i \in 1..n, NEW v \in Int
          PROVE  AsInt((v * Base) + buf[off + i]) \in Int
      <3>1. buf[off + i] \in Int /\ Base \in Int
        BY Sizes DEF Bytes, Byte
      <3>2. (v * Base) + buf[off + i] \in Int
        BY <3>1
      <3>3. QED
        BY <3>2, AsIntType
    <2>2. \A i \in 1..n : add(i) \in [Int -> Int]
      BY <2>1
    <2>3. QED
      <3> HIDE DEF add
      <3> QED BY <2>2 DEF Steps
  <1>2. PICK f : Iterates(f, n, Int, zero, step)
    <2> HIDE DEF zero, step
    <2> QED BY <1>1, Iteration
  <1>3. f \in [0..n -> Int] /\ f[0] = 0
    BY <1>2 DEF Iterates
  <1>4. ASSUME NEW i \in 1..n PROVE f[i] = AsInt((f[i - 1] * Base) + buf[off + i])
    <2>1. f[i - 1] \in Int /\ f[i] = step[i][f[i - 1]]
      <3> HIDE DEF step
      <3> QED BY <1>2, <1>3 DEF Iterates
    <2>2. QED
      BY <2>1
  <1>5. Eq(f)
    BY <1>3, <1>4
  <1>6. PICK v : Eq(v) /\ ReadBEUint(buf, off, n) = v[n]
    BY <1>5 DEF ReadBEUint
  <1>7. v[0] = 0 /\ \A i \in 1..n : v[i] = AsInt((v[i - 1] * Base) + buf[off + i])
    BY <1>6
  <1>8. \A i \in 0..n : v[i] \in Int
    <2> DEFINE T == {i \in 0..n : v[i] \in Int}
    <2>1. 0 \in T
      BY <1>7
    <2>2. ASSUME NEW i \in 0..(n - 1), i \in T PROVE i + 1 \in T
      <3>1. v[i + 1] = step[i + 1][v[i]] /\ v[i] \in Int
        BY <1>7, <2>2
      <3>2. QED
        <4> HIDE DEF step
        <4>1. step[i + 1] \in [Int -> Int]
          BY <1>1 DEF Steps
        <4>2. QED
          BY <3>1, <4>1
    <2> HIDE DEF T
    <2>3. \A i \in 0..n : i \in T
      BY <2>1, <2>2, Induction
    <2>4. QED
      BY <2>3 DEF T
  <1>9. Accumulates(v, buf, off, n)
    BY <1>6, <1>7, <1>8 DEF Accumulates
  <1>10. QED
    BY <1>6, <1>9

LEMMA ReadType ==
  ASSUME NEW buf, NEW off \in Int, NEW n \in Nat, Bytes(buf, off, n)
  PROVE  ReadBEUint(buf, off, n) \in Int
  BY ReadDef DEF Accumulates

(* Fewer bytes than an int has do not overflow it.                         *)
LEMMA ReadSmall ==
  ASSUME NEW buf, NEW off \in Int, NEW n \in 0..(Word - 1), Bytes(buf, off, n)
  PROVE  /\ ReadBEUint(buf, off, n) \in Nat
         /\ 7 * ReadBEUint(buf, off, n) < Uint64
  <1>1. PICK v : Accumulates(v, buf, off, n) /\ ReadBEUint(buf, off, n) = v[n]
    BY ReadDef, Sizes
  <1> DEFINE T == {i \in 0..n : v[i] \in 0..(Power[i] - 1)}
  <1>2. 0 \in T
    BY <1>1, PowerDef DEF Accumulates
  <1>3. ASSUME NEW i \in 0..n
        PROVE  Power[i] \in Nat \ {0} /\ Base * Power[i] <= Uint64
    <2>1. i \in 0..(Word - 1) /\ Word - 1 \in 0..Word /\ i \in 0..Word
      BY Sizes
    <2>2. Power[i] <= Power[Word - 1] /\ Power[i] \in Nat \ {0}
      BY <2>1, PowerGrows, PowerDef
    <2>3. QED
      BY <2>2, UintSize, Sizes
  <1>4. ASSUME NEW i \in 0..(n - 1), i \in T PROVE i + 1 \in T
    <2> DEFINE x == buf[off + (i + 1)]
               p == Power[i]
               w == v[i]
    <2>1. v[i + 1] = AsInt((w * Base) + x)
      BY <1>1 DEF Accumulates
    <2>2. x \in 0..(Base - 1) /\ w \in 0..(p - 1) /\ p \in Nat /\ Base \in Nat /\ Base >= 7
      <3>1. i + 1 \in 1..n /\ i \in 0..n
        BY Sizes
      <3>2. x \in Byte
        BY <3>1 DEF Bytes
      <3>3. p \in Nat
        BY <1>3, <3>1
      <3>4. QED
        BY <1>4, <3>2, <3>3, Sizes DEF Byte
    <2>3. Power[i + 1] = Base * p
      BY PowerDef, Sizes
    <2>4. Power[i + 1] \in Nat /\ Base * Power[i + 1] <= Uint64
      BY <1>3
    <2> HIDE DEF x, p, w
    <2>5. (w * Base) + x \in 0..((Base * p) - 1)
      <3>1. (w + 1) * Base <= p * Base
        BY <2>2
      <3>2. QED
        BY <2>2, <3>1
    <2>6. 7 * Power[i + 1] <= Uint64
      BY <2>2, <2>4, UintSize
    <2>7. (w * Base) + x \in Nat /\ 2 * ((w * Base) + x) < Uint64
      BY <2>3, <2>4, <2>5, <2>6, UintSize
    <2>8. v[i + 1] = (w * Base) + x
      BY <2>1, <2>7, AsIntSmall
    <2>9. QED
      BY <2>3, <2>5, <2>8
  <1>5. n \in T
    <2> HIDE DEF T
    <2>1. n \in Nat
      BY Sizes
    <2>2. \A i \in 0..n : i \in T
      BY <1>2, <1>4, <2>1, Induction
    <2>3. QED
      BY <2>1, <2>2
  <1>6. v[n] \in 0..(Power[n] - 1) /\ Power[n] \in Nat \ {0} /\ Base * Power[n] <= Uint64
    BY <1>3, <1>5, Sizes
  <1>7. QED
    BY <1>1, <1>6, Sizes, UintSize

(* What is read depends on the bytes that are read alone.                  *)
LEMMA ReadSame ==
  ASSUME NEW buf, NEW bug, NEW off \in Int, NEW n \in Nat, Bytes(buf, off, n),
         \A i \in 1..n : buf[off + i] = bug[off + i]
  PROVE  ReadBEUint(buf, off, n) = ReadBEUint(bug, off, n)
  <1>1. PICK v : Accumulates(v, buf, off, n) /\ ReadBEUint(buf, off, n) = v[n]
    BY ReadDef
  <1>2. Bytes(bug, off, n)
    BY DEF Bytes
  <1>3. PICK w : Accumulates(w, bug, off, n) /\ ReadBEUint(bug, off, n) = w[n]
    BY <1>2, ReadDef
  <1> DEFINE T == {i \in 0..n : v[i] = w[i]}
  <1>4. 0 \in T
    BY <1>1, <1>3 DEF Accumulates
  <1>5. ASSUME NEW i \in 0..(n - 1), i \in T PROVE i + 1 \in T
    <2>1. /\ v[i + 1] = AsInt((v[i] * Base) + buf[off + (i + 1)])
          /\ w[i + 1] = AsInt((w[i] * Base) + bug[off + (i + 1)])
      BY <1>1, <1>3 DEF Accumulates
    <2>2. QED
      BY <1>5, <2>1
  <1>6. n \in T
    <2> HIDE DEF T
    <2>1. \A i \in 0..n : i \in T
      BY <1>4, <1>5, Induction
    <2>2. QED
      BY <2>1
  <1>7. QED
    BY <1>1, <1>3, <1>6

-----------------------------------------------------------------------------
(* Big-endian integers.                                                    *)

LEMMA Division ==
  ASSUME NEW n \in Nat, NEW m \in Nat \ {0}
  PROVE  /\ n \div m \in Nat /\ n % m \in 0..(m - 1)
         /\ n = (m * (n \div m)) + (n % m)
         /\ n \div m <= n
  <1> DEFINE q == n \div m
             r == n % m
  <1>1. q \in Nat /\ r \in 0..(m - 1) /\ n = (m * q) + r
    OBVIOUS
  <1> HIDE DEF q, r
  <1>2. m * q >= q
    BY <1>1
  <1>3. q <= n
    BY <1>1, <1>2
  <1>4. QED
    BY <1>1, <1>3 DEF q, r

LEMMA Quotient ==
  ASSUME NEW n \in Nat, NEW m \in Nat \ {0}, NEW s \in Nat, m * s <= n, n < m * (s + 1)
  PROVE  n \div m = s
  <1>1. n = (m * (n \div m)) + (n % m) /\ n \div m \in Nat /\ n % m \in 0..(m - 1)
    BY Division
  <1> DEFINE q == n \div m
             r == n % m
  <1> HIDE DEF q, r
  <1>2. q \in Nat /\ r \in 0..(m - 1) /\ n = (m * q) + r
    BY <1>1 DEF q, r
  <1>3. ~(q >= s + 1)
    <2>1. q >= s + 1 => m * q >= m * (s + 1)
      BY <1>2
    <2>2. QED
      BY <1>2, <2>1
  <1>4. ~(s >= q + 1)
    <2>1. s >= q + 1 => m * s >= m * (q + 1)
      BY <1>2
    <2>2. m * (q + 1) = (m * q) + m
      BY <1>2
    <2>3. QED
      BY <1>2, <2>1, <2>2
  <1>5. QED
    BY <1>2, <1>3, <1>4 DEF q

LEMMA DivDiv ==
  ASSUME NEW n \in Nat, NEW b \in Nat \ {0}, NEW p \in Nat \ {0}
  PROVE  n \div (b * p) = (n \div p) \div b
  <1> DEFINE q == n \div p
             r == n % p
             s == q \div b
             t == q % b
  <1>1. q \in Nat /\ r \in 0..(p - 1) /\ n = (p * q) + r
    OBVIOUS
  <1>2. s \in Nat /\ t \in 0..(b - 1) /\ q = (b * s) + t
    <2> HIDE DEF q
    <2> QED BY <1>1
  <1> HIDE DEF q, r, s, t
  <1>3. n = ((b * p) * s) + (p * t) + r
    BY <1>1, <1>2
  <1>4. p * t >= 0 /\ (p * t) + p <= b * p
    <2>1. p * (t + 1) <= p * b
      BY <1>2
    <2>2. QED
      BY <1>2, <2>1
  <1>5. (b * p) * (s + 1) = ((b * p) * s) + (b * p) /\ b * p \in Nat \ {0}
    BY <1>2
  <1>6. (b * p) * s <= n /\ n < (b * p) * (s + 1)
    <2> DEFINE x == (b * p) * s
               y == b * p
               z == p * t
    <2>1. x \in Int /\ y \in Int /\ z \in Int
      BY <1>2
    <2>2. n = x + z + r /\ z >= 0 /\ z + p <= y
      BY <1>3, <1>4
    <2> HIDE DEF x, y, z
    <2>3. x <= n /\ n < x + y
      BY <1>1, <2>1, <2>2
    <2>4. QED
      BY <1>5, <2>3 DEF x, y
  <1>7. n \div (b * p) = s
    BY <1>2, <1>5, <1>6, Quotient
  <1>8. QED
    BY <1>7 DEF s, q

LEMMA DigitsIs ==
  ASSUME NEW n \in Nat
  PROVE  /\ Digits(n) \in 0..Word
         /\ n < Power[Digits(n)] \/ Digits(n) = Word
         /\ n \in Number => n < Power[Digits(n)]
         /\ \A j \in 0..(Digits(n) - 1) : Power[j] <= n
  <1> DEFINE T == {k \in 0..Word : n < Power[k] \/ k = Word}
  <1>1. Word \in T /\ T \in SUBSET Nat
    BY Sizes
  <1>2. PICK k \in T : \A j \in T : k <= j
    <2> HIDE DEF T
    <2> QED BY <1>1, Least
  <1>3. ASSUME NEW j \in 0..(k - 1) PROVE Power[j] <= n
    <2>1. j \in 0..Word /\ j \notin T
      BY <1>2, Sizes
    <2>2. Power[j] \in Nat /\ n \in Nat
      BY <2>1, PowerDef
    <2>3. QED
      BY <2>1, <2>2
  <1>4. \E d \in 0..Word : (n < Power[d] \/ d = Word) /\ \A j \in 0..(d - 1) : Power[j] <= n
    BY <1>2, <1>3
  <1>5. /\ Digits(n) \in 0..Word /\ (n < Power[Digits(n)] \/ Digits(n) = Word)
        /\ \A j \in 0..(Digits(n) - 1) : Power[j] <= n
    BY <1>4 DEF Digits
  <1>6. n \in Number => n < Power[Word]
    BY UintSize DEF Number, Uint64
  <1>7. QED
    BY <1>5, <1>6

LEMMA BEType ==
  ASSUME NEW n \in Nat
  PROVE  /\ BE(n) \in Seq(Byte) /\ Len(BE(n)) = Digits(n)
         /\ Digits(n) \in 0..Word
         /\ \A i \in 1..Digits(n) : BE(n)[i] = (n \div Power[Digits(n) - i]) % Base
  <1> DEFINE k == Digits(n)
  <1>1. k \in 0..Word /\ k \in Nat
    BY DigitsIs, Sizes
  <1>2. BE(n) = [i \in 1..k |-> (n \div Power[k - i]) % Base]
    BY DEF BE
  <1> HIDE DEF k
  <1>3. ASSUME NEW i \in 1..k PROVE (n \div Power[k - i]) % Base \in Byte
    <2>1. k - i \in 0..Word
      BY <1>1, Sizes
    <2>2. Power[k - i] \in Nat \ {0} /\ n \in Nat
      BY <2>1, PowerDef
    <2>3. n \div Power[k - i] \in Nat
      BY <2>2, Division
    <2>4. QED
      BY <2>3, Sizes DEF Byte
  <1>4. BE(n) \in [1..k -> Byte]
    BY <1>2, <1>3
  <1>5. BE(n) \in Seq(Byte) /\ Len(BE(n)) = k
    BY <1>1, <1>4
  <1>6. QED
    BY <1>1, <1>2, <1>5 DEF k

(* Reading an integer that was written: it may come out negative, and is   *)
(* right as a uint64.                                                      *)
LEMMA ReadBE ==
  ASSUME NEW n \in Number, NEW buf, NEW off \in Int,
         \A i \in 1..Digits(n) : buf[off + i] = BE(n)[i]
  PROVE  ReadBEUint(buf, off, Digits(n)) = AsInt(n)
  <1> DEFINE k == Digits(n)
             a(i) == n \div Power[k - i]
  <1>1. /\ k \in 0..Word /\ k \in Nat /\ n < Power[k] /\ n \in Nat
        /\ BE(n) \in Seq(Byte) /\ Len(BE(n)) = k
        /\ \A i \in 1..k : buf[off + i] = a(i) % Base
    BY DigitsIs, BEType, Sizes, UintSize DEF Number
  <1>2. Bytes(buf, off, k)
    BY <1>1 DEF Bytes
  <1>3. PICK v : Accumulates(v, buf, off, k) /\ ReadBEUint(buf, off, k) = v[k]
    BY <1>1, <1>2, ReadDef
  <1> HIDE DEF k
  <1>4. ASSUME NEW i \in 0..k
        PROVE  k - i \in 0..Word /\ Power[k - i] \in Nat \ {0} /\ a(i) \in Nat
    <2>1. k - i \in 0..Word
      BY <1>1, Sizes
    <2>2. Power[k - i] \in Nat \ {0}
      BY <2>1, PowerDef
    <2>3. a(i) \in Nat
      BY <1>1, <2>2, Division
    <2>4. QED
      BY <2>1, <2>2, <2>3
  <1> DEFINE T == {i \in 0..k : v[i] = AsInt(a(i))}
  <1>5. 0 \in T
    <2>1. Power[k] \in Nat \ {0}
      BY <1>1, PowerDef
    <2>2. n \div Power[k] = 0
      <3>1. Power[k] * 0 <= n /\ n < Power[k] * (0 + 1)
        BY <1>1, <2>1
      <3>2. QED
        BY <1>1, <2>1, <3>1, Quotient
    <2>3. a(0) = 0
      <3>1. k - 0 = k
        BY <1>1
      <3>2. QED
        BY <2>2, <3>1
    <2>4. AsInt(0) = 0
      BY AsIntSmall, UintSize
    <2>5. QED
      BY <1>1, <1>3, <2>3, <2>4 DEF Accumulates
  <1>6. ASSUME NEW i \in 0..(k - 1), i \in T PROVE i + 1 \in T
    <2> DEFINE p == Power[k - (i + 1)]
               c == a(i + 1)
    <2>1. /\ k - i \in 1..Word /\ (k - i) - 1 = k - (i + 1)
          /\ i + 1 \in 1..k /\ i + 1 \in 0..k /\ i \in 0..k
      BY <1>1, Sizes
    <2>2. Power[k - i] = Base * p /\ p \in Nat \ {0} /\ c \in Nat /\ a(i) \in Nat
      BY <1>4, <2>1, PowerDef
    <2>3. a(i) = c \div Base
      <3>1. a(i) = n \div (Base * p)
        <4> HIDE DEF p
        <4> QED BY <2>2
      <3>2. c = n \div p
        OBVIOUS
      <3>3. Base \in Nat \ {0}
        BY Sizes
      <3> HIDE DEF p, c, a
      <3>4. n \div (Base * p) = (n \div p) \div Base
        BY <1>1, <2>2, <3>3, DivDiv
      <3>5. QED
        BY <3>1, <3>2, <3>4
    <2>4. c = (Base * a(i)) + (c % Base) /\ Base * a(i) <= c
      <3> HIDE DEF a, c
      <3> QED BY <2>2, <2>3, Sizes
    <2>5. c <= n
      <3>1. c = n \div p
        OBVIOUS
      <3>2. p \in Nat \ {0}
        BY <2>2
      <3> HIDE DEF p, a, c
      <3>3. QED
        BY <1>1, <3>1, <3>2, Division
    <2>6. AsInt(a(i)) = a(i)
      <3>1. 2 * a(i) < Uint64
        <4> DEFINE b == a(i)
        <4>1. b \in Nat /\ Base * b <= n /\ n < Uint64 /\ 7 * b <= Base * b
          <5>1. c \in Nat /\ b \in Nat /\ Base * b <= c
            BY <2>2, <2>4
          <5>2. n < Uint64
            BY UintSize DEF Number
          <5> HIDE DEF b, c
          <5>3. 7 * b <= Base * b
            BY <5>1, Sizes
          <5>4. QED
            BY <1>1, <2>5, <5>1, <5>2, <5>3, Sizes
        <4> HIDE DEF b
        <4>2. 2 * b < Uint64
          <5>1. n \in Nat /\ b \in Nat /\ n < Uint64 /\ 7 * b <= n
            <6>1. Base * b \in Nat
              BY <4>1, Sizes
            <6>2. QED
              BY <1>1, <4>1, <6>1
          <5>2. QED
            BY <5>1, UintPositive
        <4>3. QED
          BY <4>2 DEF b
      <3>2. QED
        BY <2>2, <3>1, AsIntSmall
    <2>7. v[i + 1] = AsInt((v[i] * Base) + buf[off + (i + 1)])
      BY <1>3, <2>1 DEF Accumulates
    <2>8. buf[off + (i + 1)] = c % Base
      BY <1>1, <2>1
    <2>9. v[i] = a(i)
      BY <1>6, <2>6
    <2>10. (a(i) * Base) + (c % Base) = c
      <3> DEFINE b == a(i)
                 d == c % Base
      <3>1. b \in Nat /\ c = (Base * b) + d /\ d \in Int
        <4> HIDE DEF c
        <4> QED BY <2>2, <2>4, Sizes
      <3> HIDE DEF b, c, d
      <3>2. (b * Base) + d = c
        BY <3>1, Sizes
      <3>3. QED
        BY <3>2 DEF b, d
    <2>11. QED
      <3>1. v[i + 1] = AsInt(c)
        BY <2>7, <2>8, <2>9, <2>10
      <3>2. QED
        BY <2>1, <3>1
  <1>7. k \in T
    <2> HIDE DEF T
    <2>1. \A i \in 0..k : i \in T
      BY <1>1, <1>5, <1>6, Induction
    <2>2. QED
      BY <1>1, <2>1
  <1>8. a(k) = n
    <2>1. k - k = 0 /\ Power[0] = 1
      BY <1>1, PowerDef
    <2>2. n \div 1 = n
      BY <1>1, Quotient
    <2>3. QED
      BY <2>1, <2>2
  <1>9. QED
    BY <1>3, <1>7, <1>8 DEF k

-----------------------------------------------------------------------------
(* One item.                                                               *)

Results == [st : {"ok", "err", "panic"}, off : Int, val : Int]

LEMMA ResultTypes ==
  /\ Error \in Results /\ Panic \in Results
  /\ \A off, val \in Int : Ok(off, val) \in Results
  BY DEF Results, Error, Panic, Ok

(* What is skipped of an item whose length takes l bytes.                  *)
SkipLong(buf, off, l) ==
  IF off + 1 + l > Len(buf) THEN Error
  ELSE Ok(AsInt(off + 1 + l + ReadBEUint(buf, off + 1, l)), 0)

(* The prefix classes: the long ones announce at most Word bytes.          *)
LEMMA SkipIs ==
  ASSUME NEW buf \in Seq(Byte), NEW off \in 0..(Len(buf) - 1)
  PROVE  LET b == buf[off + 1] IN
         /\ b \in Byte
         /\ b < Single => SkipRLPItem(buf, off) = Ok(off + 1, 0)
         /\ b \in Single..StrLong => SkipRLPItem(buf, off) = Ok(off + 1 + b - Single, 0)
         /\ b > StrLong /\ b < ListStart =>
              /\ b - StrLong \in 1..Word
              /\ SkipRLPItem(buf, off) = SkipLong(buf, off, b - StrLong)
         /\ b \in ListStart..ListLong => SkipRLPItem(buf, off) = Ok(off + 1 + b - ListStart, 0)
         /\ b > ListLong =>
              /\ b - ListLong \in 1..Word
              /\ SkipRLPItem(buf, off) = SkipLong(buf, off, b - ListLong)
  <1> DEFINE b == buf[off + 1]
  <1>1. off + 1 \in 1..Len(buf) /\ Len(buf) \in Nat
    OBVIOUS
  <1>2. b \in Byte
    BY <1>1
  <1>3. SkipRLPItem(buf, off) = ItemEnd(buf, off, b, Error)
    BY <1>1 DEF SkipRLPItem, HasByte
  <1> HIDE DEF b
  <1>4. b \in Int /\ b >= 0 /\ b < Base
    BY <1>2, Sizes DEF Byte
  <1>5. /\ Single <= StrLong /\ StrLong < ListStart /\ ListStart <= ListLong
        /\ Single \in Nat /\ StrLong \in Nat /\ ListStart \in Nat /\ ListLong \in Nat
        /\ b > StrLong /\ b < ListStart => b - StrLong \in 1..Word
        /\ b > ListLong => b - ListLong \in 1..Word
    BY <1>4, Sizes
  <1> DEFINE c1 == b < Single
             c2 == b >= Single /\ b <= StrLong
             c3 == b > StrLong /\ b < ListStart
             c4 == b >= ListStart /\ b <= ListLong
             c5 == b > ListLong
  <1>6. SkipRLPItem(buf, off) =
          CASE c1 -> Ok(off + 1, 0)
            [] c2 -> Ok(off + 1 + b - Single, 0)
            [] c3 -> SkipLong(buf, off, b - StrLong)
            [] c4 -> Ok(off + 1 + b - ListStart, 0)
            [] c5 -> SkipLong(buf, off, b - ListLong)
    BY <1>3 DEF ItemEnd, SkipLong
  <1>7. /\ c1 => ~c2 /\ ~c3 /\ ~c4 /\ ~c5
        /\ c2 => ~c1 /\ ~c3 /\ ~c4 /\ ~c5
        /\ c3 => ~c1 /\ ~c2 /\ ~c4 /\ ~c5
        /\ c4 => ~c1 /\ ~c2 /\ ~c3 /\ ~c5
        /\ c5 => ~c1 /\ ~c2 /\ ~c3 /\ ~c4
    BY <1>4, <1>5
  <1>8. /\ b \in Single..StrLong => c2
        /\ b \in ListStart..ListLong => c4
    BY <1>4, <1>5
  <1> HIDE DEF c1, c2, c3, c4, c5
  <1>9. /\ c1 => SkipRLPItem(buf, off) = Ok(off + 1, 0)
        /\ c2 => SkipRLPItem(buf, off) = Ok(off + 1 + b - Single, 0)
        /\ c3 => SkipRLPItem(buf, off) = SkipLong(buf, off, b - StrLong)
        /\ c4 => SkipRLPItem(buf, off) = Ok(off + 1 + b - ListStart, 0)
        /\ c5 => SkipRLPItem(buf, off) = SkipLong(buf, off, b - ListLong)
    BY <1>6, <1>7
  <1>10. QED
    BY <1>2, <1>5, <1>8, <1>9 DEF b, c1, c3, c5

(* The bytes that are read when a length is.                               *)
LEMMA BytesIn ==
  ASSUME NEW buf \in Seq(Byte), NEW off \in Nat, NEW n \in Nat, off + n <= Len(buf)
  PROVE  Bytes(buf, off, n)
  <1>1. ASSUME NEW i \in 1..n PROVE buf[off + i] \in Byte
    <2>1. off + i \in 1..Len(buf)
      OBVIOUS
    <2>2. QED
      BY <2>1
  <1>2. QED
    BY <1>1 DEF Bytes

(* The item is in the buffer, at off.                                      *)
At(buf, off, item) ==
  off + Len(item) <= Len(buf) /\ \A j \in 1..Len(item) : buf[off + j] = item[j]

(* The length n of bytes that fit in memory, read from its encoding.       *)
LEMMA SkipLength ==
  ASSUME NEW buf \in Seq(Byte), 4 * Len(buf) <= Uint64, NEW off \in 0..(Len(buf) - 1),
         NEW n \in Nat, off + 1 + Digits(n) + n <= Len(buf),
         \A i \in 1..Digits(n) : buf[off + 1 + i] = BE(n)[i]
  PROVE  SkipLong(buf, off, Digits(n)) = Ok(off + 1 + Digits(n) + n, 0)
  <1>1. n \in Number /\ Digits(n) \in Nat /\ 2 * n < Uint64
    <2>1. Len(buf) \in Nat /\ Uint64 \in Nat /\ Digits(n) \in Nat
      <3>1. Digits(n) \in 0..Word
        BY DigitsIs
      <3>2. QED
        BY <3>1, UintPositive, Sizes
    <2>2. 2 * n < Uint64
      BY <2>1
    <2>3. QED
      BY <2>1, <2>2 DEF Number
  <1>2. ReadBEUint(buf, off + 1, Digits(n)) = n
    <2>1. ReadBEUint(buf, off + 1, Digits(n)) = AsInt(n)
      BY <1>1, ReadBE
    <2>2. QED
      BY <1>1, <2>1, AsIntSmall
  <1>3. AsInt(off + 1 + Digits(n) + n) = off + 1 + Digits(n) + n
    <2> DEFINE e == off + 1 + Digits(n) + n
    <2>1. e \in Nat /\ 2 * e < Uint64
      <3>1. e \in Nat /\ e <= Len(buf) /\ Len(buf) \in Nat
        BY <1>1
      <3> HIDE DEF e
      <3>2. QED
        BY <3>1, UintPositive
    <2> HIDE DEF e
    <2>2. AsInt(e) = e
      BY <2>1, AsIntSmall
    <2>3. QED
      BY <2>2 DEF e
  <1>4. QED
    BY <1>1, <1>2, <1>3 DEF SkipLong

LEMMA Joined ==
  ASSUME NEW s \in Seq(Byte), NEW t \in Seq(Byte)
  PROVE  /\ s \o t \in Seq(Byte) /\ Len(s \o t) = Len(s) + Len(t)
         /\ \A i \in 1..Len(s) : (s \o t)[i] = s[i]
         /\ \A i \in 1..Len(t) : (s \o t)[Len(s) + i] = t[i]
  OBVIOUS

(* p is b behind its prefix, a length of k bytes unless a byte says it.    *)
Behind(p, b, k, short) ==
  /\ Len(b) <= Short =>
       /\ Len(p) = 1 + Len(b) /\ p[1] = short + Len(b)
       /\ \A j \in 1..Len(b) : p[1 + j] = b[j]
  /\ Len(b) > Short =>
       /\ k \in 1..Word
       /\ Len(p) = 1 + k + Len(b) /\ p[1] = short + Short + k
       /\ \A j \in 1..k : p[1 + j] = BE(Len(b))[j]
       /\ \A j \in 1..Len(b) : p[1 + k + j] = b[j]

LEMMA PrefixedIs ==
  ASSUME NEW b \in Seq(Byte), NEW short \in Nat, NEW long,
         long = short + Short, long + Word < Base
  PROVE  /\ Prefixed(short, long, b) \in Seq(Byte)
         /\ Behind(Prefixed(short, long, b), b, Digits(Len(b)), short)
  <1> DEFINE k == Digits(Len(b))
             p == Prefixed(short, long, b)
             c == BE(Len(b))
  <1>1. c \in Seq(Byte) /\ Len(c) = k /\ k \in 0..Word /\ k \in Nat /\ Len(b) \in Nat
    BY BEType, Sizes
  <1>2. CASE Len(b) <= Short
    <2>1. p = <<short + Len(b)>> \o b /\ short + Len(b) \in Byte
      BY <1>1, <1>2, Sizes DEF Prefixed, Byte
    <2> HIDE DEF p, k
    <2>2. p \in Seq(Byte) /\ Len(p) = 1 + Len(b) /\ p[1] = short + Len(b)
      BY <2>1
    <2>3. \A j \in 1..Len(b) : p[1 + j] = b[j]
      BY <2>1
    <2>4. QED
      BY <1>1, <1>2, <2>2, <2>3, Sizes DEF p, k, Behind
  <1>3. CASE Len(b) > Short
    <2>1. p = <<long + k>> \o c \o b
      BY <1>1, <1>3, Sizes DEF Prefixed
    <2>2. k \in 1..Word
      <3>1. k # 0
        <4>1. Power[0] = 1 /\ 0 \in 0..Word
          BY PowerDef, Sizes
        <4>2. ASSUME k = 0 PROVE FALSE
          <5>1. Len(b) < Power[0] \/ 0 = Word
            BY <4>2, <1>1, DigitsIs
          <5>2. QED
            BY <5>1, <4>1, <1>3, <1>1, Sizes
        <4>3. QED
          BY <4>2
      <3>2. QED
        BY <3>1, <1>1
    <2>3. long + k \in Byte
      BY <2>2, Sizes DEF Byte
    <2> HIDE DEF p, k, c
    <2>4. /\ p \in Seq(Byte) /\ Len(p) = (1 + k) + Len(b) /\ p[1] = long + k
          /\ \A j \in 1..k : p[1 + j] = c[j]
          /\ \A j \in 1..Len(b) : p[(1 + k) + j] = b[j]
      <3> DEFINE x == <<long + k>>
                 y == x \o c
      <3>1. x \in Seq(Byte) /\ Len(x) = 1 /\ x[1] = long + k
        BY <2>3
      <3>2. p = y \o b
        BY <2>1
      <3> HIDE DEF x
      <3>3. /\ y \in Seq(Byte) /\ Len(y) = 1 + k /\ y[1] = x[1]
            /\ \A j \in 1..k : y[1 + j] = c[j]
        <4>1. /\ y \in Seq(Byte) /\ Len(y) = Len(x) + Len(c)
              /\ \A i \in 1..Len(x) : y[i] = x[i]
              /\ \A i \in 1..Len(c) : y[Len(x) + i] = c[i]
          BY <1>1, <3>1, Joined
        <4> HIDE DEF y
        <4>2. QED
          BY <1>1, <3>1, <4>1
      <3> HIDE DEF y
      <3>4. /\ p \in Seq(Byte) /\ Len(p) = (1 + k) + Len(b)
            /\ \A j \in 1..(1 + k) : p[j] = y[j]
            /\ \A j \in 1..Len(b) : p[(1 + k) + j] = b[j]
        <4>1. /\ p \in Seq(Byte) /\ Len(p) = Len(y) + Len(b)
              /\ \A i \in 1..Len(y) : p[i] = y[i]
              /\ \A i \in 1..Len(b) : p[Len(y) + i] = b[i]
          BY <3>2, <3>3, Joined
        <4>2. QED
          BY <3>3, <4>1
      <3>5. QED
        BY <1>1, <3>1, <3>3, <3>4
    <2>5. QED
      BY <1>1, <1>3, <2>2, <2>4, Sizes DEF p, k, c, Behind
  <1>4. QED
    BY <1>1, <1>2, <1>3, Sizes


(* A string or a list is skipped to its end.                               *)
LEMMA SkipPrefixed ==
  ASSUME NEW buf \in Seq(Byte), Fits(buf), NEW off \in Nat, NEW b \in Seq(Byte),
         NEW short \in {Single, ListStart}, NEW p \in Seq(Byte),
         Behind(p, b, Digits(Len(b)), short), At(buf, off, p)
  PROVE  SkipRLPItem(buf, off) = Ok(off + Len(p), 0)
  <1> DEFINE k == Digits(Len(b))
             c == buf[off + 1]
  <1>1. Len(b) \in Nat /\ k \in 0..Word /\ k \in Nat
    BY DigitsIs, Sizes
  <1>2. Len(buf) \in Nat /\ off + Len(p) <= Len(buf) /\ 4 * Len(buf) <= Uint64
    BY DEF At, Fits
  <1>3. CASE Len(b) <= Short
    <2>1. Len(p) = 1 + Len(b) /\ c = short + Len(b)
      <3>1. Len(p) = 1 + Len(b) /\ p[1] = short + Len(b)
        BY <1>3 DEF Behind
      <3>2. buf[off + 1] = p[1]
        BY <1>1, <3>1 DEF At
      <3>3. QED
        BY <3>1, <3>2
    <2>2. off \in 0..(Len(buf) - 1)
      BY <1>1, <1>2, <2>1
    <2>3. \/ c \in Single..StrLong /\ SkipRLPItem(buf, off) = Ok(off + 1 + c - Single, 0)
             /\ short = Single
          \/ c \in ListStart..ListLong /\ SkipRLPItem(buf, off) = Ok(off + 1 + c - ListStart, 0)
             /\ short = ListStart
      <3>1. CASE short = Single
        <4>1. c \in Single..StrLong
          BY <1>1, <1>3, <2>1, <3>1, Sizes
        <4>2. QED
          BY <2>2, <3>1, <4>1, SkipIs
      <3>2. CASE short = ListStart
        <4>1. c \in ListStart..ListLong
          BY <1>1, <1>3, <2>1, <3>2, Sizes
        <4>2. QED
          BY <2>2, <3>2, <4>1, SkipIs
      <3>3. QED
        BY <3>1, <3>2
    <2> HIDE DEF c
    <2>4. off + 1 + c - short = off + Len(p)
      BY <1>1, <2>1, Sizes
    <2>5. QED
      BY <2>3, <2>4
  <1>4. CASE Len(b) > Short
    <2>1. /\ k \in 1..Word /\ Len(p) = 1 + k + Len(b) /\ p[1] = short + Short + k
          /\ \A j \in 1..k : p[1 + j] = BE(Len(b))[j]
      BY <1>4 DEF Behind
    <2>2. c = short + Short + k
      BY <1>1, <2>1 DEF At
    <2>3. off \in 0..(Len(buf) - 1)
      BY <1>1, <1>2, <2>1
    <2>4. SkipRLPItem(buf, off) = SkipLong(buf, off, k)
      <3>1. CASE short = Single
        <4>1. c > StrLong /\ c < ListStart /\ c - StrLong = k
          BY <2>1, <2>2, <3>1, Sizes
        <4>2. QED
          BY <2>3, <4>1, SkipIs
      <3>2. CASE short = ListStart
        <4>1. c > ListLong /\ c - ListLong = k
          BY <2>1, <2>2, <3>2, Sizes
        <4>2. QED
          BY <2>3, <4>1, SkipIs
      <3>3. QED
        BY <3>1, <3>2
    <2>5. \A i \in 1..k : buf[off + 1 + i] = BE(Len(b))[i]
      <3>1. ASSUME NEW i \in 1..k PROVE buf[off + 1 + i] = BE(Len(b))[i]
        <4>1. 1 + i \in 1..Len(p) /\ off + (1 + i) = off + 1 + i
          BY <1>1, <2>1
        <4>2. buf[off + (1 + i)] = p[1 + i]
          BY <4>1 DEF At
        <4>3. QED
          BY <2>1, <4>1, <4>2
      <3>2. QED
        BY <3>1
    <2>6. off + 1 + k + Len(b) <= Len(buf)
      BY <1>1, <1>2, <2>1
    <2>7. SkipLong(buf, off, k) = Ok(off + 1 + k + Len(b), 0)
      BY <1>1, <1>2, <2>3, <2>5, <2>6, SkipLength
    <2>8. off + 1 + k + Len(b) = off + Len(p)
      BY <1>1, <2>1
    <2>9. QED
      BY <2>4, <2>7, <2>8
  <1>5. QED
    BY <1>1, <1>3, <1>4, Sizes

LEMMA SkipItem ==
  ASSUME NEW buf \in Seq(Byte), Fits(buf), NEW off \in Nat,
         NEW item \in Seq(Byte), IsItem(item), At(buf, off, item)
  PROVE  SkipRLPItem(buf, off) = Ok(off + Len(item), 0)
  <1>1. PICK b \in Seq(Byte) : \/ item = EncodeBytes(b)
                               \/ item = Prefixed(ListStart, ListLong, b)
    <2>1. PICK k \in 1..Len(item) + 1 :
            \/ item = EncodeBytes(SubSeq(item, k, Len(item)))
            \/ item = Prefixed(ListStart, ListLong, SubSeq(item, k, Len(item)))
      BY DEF IsItem
    <2>2. SubSeq(item, k, Len(item)) \in Seq(Byte)
      OBVIOUS
    <2>3. QED
      BY <2>1, <2>2
  <1>2. CASE item = Prefixed(ListStart, ListLong, b)
    <2>1. Behind(item, b, Digits(Len(b)), ListStart)
      BY <1>2, PrefixedIs, Sizes
    <2>2. QED
      BY <2>1, SkipPrefixed
  <1>3. CASE item = EncodeBytes(b) /\ Len(b) = 1 /\ b[1] < Single
    <2>1. item = b
      BY <1>3 DEF EncodeBytes
    <2>2. buf[off + 1] < Single /\ off \in 0..(Len(buf) - 1)
      <3>1. Len(item) = 1 /\ item[1] < Single /\ Len(buf) \in Nat
        BY <1>3, <2>1
      <3>2. off + 1 <= Len(buf) /\ buf[off + 1] = item[1]
        BY <3>1 DEF At
      <3>3. QED
        BY <3>1, <3>2
    <2>3. SkipRLPItem(buf, off) = Ok(off + 1, 0)
      BY <2>2, SkipIs
    <2>4. QED
      BY <1>3, <2>1, <2>3
  <1>4. CASE item = EncodeBytes(b) /\ ~(Len(b) = 1 /\ b[1] < Single)
    <2>1. item = Prefixed(Single, StrLong, b)
      BY <1>4 DEF EncodeBytes
    <2>2. Behind(item, b, Digits(Len(b)), Single)
      BY <2>1, PrefixedIs, Sizes
    <2>3. QED
      BY <2>2, SkipPrefixed
  <1>5. QED
    BY <1>1, <1>2, <1>3, <1>4

(* The first item of a list is behind its prefix.                          *)
LEMMA EnterIs ==
  ASSUME NEW b \in Seq(Byte), NEW p \in Seq(Byte), Fits(p),
         p = Prefixed(ListStart, ListLong, b)
  PROVE  /\ EnterRLPList(p, 0).st = "ok"
         /\ EnterRLPList(p, 0).off = Len(p) - Len(b)
         /\ At(p, Len(p) - Len(b), b)
         /\ Len(p) - Len(b) \in Nat
  <1> DEFINE k == Digits(Len(b))
  <1>1. Behind(p, b, k, ListStart) /\ Len(b) \in Nat /\ k \in Nat
    <2>1. Behind(p, b, k, ListStart)
      BY PrefixedIs, Sizes
    <2>2. QED
      BY <2>1, DigitsIs, Sizes
  <1>2. CASE Len(b) <= Short
    <2>1. Len(p) = 1 + Len(b) /\ p[1] = ListStart + Len(b) /\ \A j \in 1..Len(b) : p[1 + j] = b[j]
      BY <1>1, <1>2 DEF Behind
    <2>2. p[1] >= ListStart /\ p[1] <= ListLong /\ HasByte(p, 0)
      BY <1>1, <1>2, <2>1, Sizes DEF HasByte
    <2>3. EnterRLPList(p, 0) = Ok(1, p[1] - ListStart)
      <3>1. 0 + 1 = 1 /\ ~(p[1] < ListStart) /\ ~(p[1] > ListLong)
        BY <1>1, <1>2, <2>1, Sizes
      <3>2. QED
        BY <2>2, <3>1 DEF EnterRLPList
    <2>4. QED
      BY <1>1, <2>1, <2>3 DEF Ok, At
  <1>3. CASE Len(b) > Short
    <2>1. /\ k \in 1..Word /\ Len(p) = 1 + k + Len(b) /\ p[1] = ListLong + k
          /\ \A j \in 1..Len(b) : p[1 + k + j] = b[j]
      BY <1>1, <1>3, Sizes DEF Behind
    <2>2. HasByte(p, 0)
      BY <1>1, <2>1 DEF HasByte
    <2>3. /\ p[1] > ListLong /\ ~(p[1] < ListStart) /\ ~(p[1] <= ListLong)
          /\ p[1] - ListLong = k /\ ~(1 + k > Len(p))
      <3>1. ListLong \in Nat /\ ListStart \in Nat /\ ListStart <= ListLong
        BY Sizes
      <3>2. k \in Nat /\ k # 0 /\ Len(p) = 1 + k + Len(b) /\ p[1] = ListLong + k
        BY <2>1
      <3> HIDE DEF k
      <3>3. QED
        BY <1>1, <3>1, <3>2
    <2>4. EnterRLPList(p, 0) = Ok(1 + k, ReadBEUint(p, 1, k))
      BY <2>2, <2>3 DEF EnterRLPList
    <2>5. Len(p) - Len(b) = 1 + k
      BY <1>1, <2>1
    <2>6. QED
      BY <1>1, <2>1, <2>4, <2>5 DEF Ok, At
  <1>4. QED
    BY <1>1, <1>2, <1>3, Sizes

(* An integer that was written is read.                                    *)
LEMMA ReadUint ==
  ASSUME NEW buf \in Seq(Byte), NEW off \in Nat, NEW n \in Number,
         At(buf, off, EncodeUint(n))
  PROVE  ReadRLPUint(buf, off).st = "ok" /\ ReadRLPUint(buf, off).val = n
  <1> DEFINE k == Digits(n)
             b == BE(n)
             c == buf[off + 1]
  <1>1. /\ n \in Nat /\ b \in Seq(Byte) /\ Len(b) = k /\ k \in 0..Word /\ k \in Nat
        /\ n < Power[k] /\ k <= Short /\ Len(buf) \in Nat
    <2>1. n \in Nat
      BY UintSize DEF Number
    <2>2. k \in 0..Word /\ n < Power[k]
      BY <2>1, DigitsIs
    <2>3. b \in Seq(Byte) /\ Len(b) = k
      BY <2>1, BEType
    <2>4. QED
      BY <2>1, <2>2, <2>3, Sizes
  <1>2. CASE k = 1 /\ b[1] < Single
    <2>1. EncodeUint(n) = b
      BY <1>1, <1>2 DEF EncodeUint, EncodeBytes
    <2>2. c = b[1] /\ HasByte(buf, off)
      <3>1. off + 1 <= Len(buf) /\ c = b[1]
        <4>1. At(buf, off, b) /\ Len(b) = 1
          BY <1>1, <1>2, <2>1
        <4> HIDE DEF b
        <4>2. QED
          BY <4>1 DEF At
      <3>2. QED
        BY <1>1, <3>1 DEF HasByte
    <2>3. b[1] = n
      <3>1. b[1] = (n \div Power[k - 1]) % Base
        <4>1. 1 \in 1..k
          BY <1>2
        <4> HIDE DEF k
        <4>2. QED
          BY <1>1, <4>1, BEType DEF k
      <3>2. Power[k - 1] = 1 /\ n < Base
        BY <1>1, <1>2, PowerDef, Sizes
      <3>3. n \div 1 = n /\ n % Base = n
        <4>1. n \in Nat
          BY <1>1
        <4>2. 1 * n <= n /\ n < 1 * (n + 1) /\ 1 \in Nat \ {0}
          BY <4>1
        <4>3. n \div 1 = n
          BY <4>1, <4>2, Quotient
        <4>4. Base \in Nat \ {0} /\ n < Base
          BY <3>2, Sizes
        <4>5. n % Base = n
          BY <4>1, <4>4
        <4>6. QED
          BY <4>3, <4>5
      <3>4. QED
        BY <3>1, <3>2, <3>3
    <2>4. ReadRLPUint(buf, off) = Ok(off + 1, c)
      BY <1>1, <1>2, <2>2, <2>3, Sizes DEF ReadRLPUint
    <2>5. QED
      BY <2>2, <2>3, <2>4 DEF Ok
  <1>3. CASE ~(k = 1 /\ b[1] < Single)
    <2>1. EncodeUint(n) = Prefixed(Single, StrLong, b)
      BY <1>1, <1>3 DEF EncodeUint, EncodeBytes
    <2> DEFINE p == EncodeUint(n)
    <2>2. Behind(p, b, Digits(Len(b)), Single)
      BY <1>1, <2>1, PrefixedIs, Sizes
    <2>3. Len(p) = 1 + k /\ p[1] = Single + k /\ \A j \in 1..k : p[1 + j] = b[j]
      BY <1>1, <2>2 DEF Behind
    <2>4. c = Single + k /\ off + 1 + k <= Len(buf) /\ HasByte(buf, off)
      <3> HIDE DEF p
      <3> QED BY <1>1, <2>3 DEF At, HasByte, p
    <2>5. \A i \in 1..k : buf[(off + 1) + i] = b[i]
      <3>1. ASSUME NEW i \in 1..k PROVE buf[(off + 1) + i] = b[i]
        <4>1. 1 + i \in 1..Len(p) /\ off + (1 + i) = (off + 1) + i
          BY <1>1, <2>3
        <4>2. buf[off + (1 + i)] = p[1 + i]
          BY <4>1 DEF At
        <4>3. QED
          BY <2>3, <4>1, <4>2
      <3>2. QED
        BY <3>1
    <2>6. ReadBEUint(buf, off + 1, k) = AsInt(n)
      <3>1. off + 1 \in Int
        OBVIOUS
      <3> HIDE DEF b
      <3>2. \A i \in 1..Digits(n) : buf[(off + 1) + i] = BE(n)[i]
        BY <2>5 DEF b
      <3>3. QED
        BY <3>1, <3>2, ReadBE, Zenon
    <2>7. ReadRLPUint(buf, off) = Ok(off + 1 + k, AsUint(AsInt(n)))
      <3>1. c - Single = k /\ ~(k < 0) /\ ~(k > Short) /\ ~(k > Word) /\ ~(off + 1 + k > Len(buf))
        BY <1>1, <2>4, Sizes
      <3>2. QED
        BY <2>4, <2>6, <3>1 DEF ReadRLPUint
    <2>8. QED
      BY <2>7, AsUintAsInt DEF Ok
  <1>4. QED
    BY <1>2, <1>3


-----------------------------------------------------------------------------
(* Bytes that are cut short.                                               *)

Cut(p, h) == Len(p) <= Len(h) /\ \A i \in 1..Len(p) : p[i] = h[i]

LEMMA ReadCut ==
  ASSUME NEW p \in Seq(Byte), NEW h \in Seq(Byte), Cut(p, h),
         NEW off \in Nat, NEW n \in Nat, off + n <= Len(p)
  PROVE  ReadBEUint(p, off, n) = ReadBEUint(h, off, n)
  <1>1. ASSUME NEW i \in 1..n PROVE p[off + i] = h[off + i]
    <2>1. off + i \in 1..Len(p)
      OBVIOUS
    <2>2. QED
      BY <2>1 DEF Cut
  <1>2. Bytes(p, off, n)
    BY BytesIn
  <1>3. off \in Int
    OBVIOUS
  <1>4. \A i \in 1..n : p[off + i] = h[off + i]
    BY <1>1
  <1>5. QED
    BY <1>2, <1>3, <1>4, ReadSame, Zenon

LEMMA SkipCut ==
  ASSUME NEW p \in Seq(Byte), NEW h \in Seq(Byte), Cut(p, h), NEW off \in Nat
  PROVE  SkipRLPItem(p, off).st = "err" \/ SkipRLPItem(p, off) = SkipRLPItem(h, off)
  <1>1. CASE off >= Len(p)
    <2>1. SkipRLPItem(p, off) = Error
      BY <1>1 DEF SkipRLPItem, HasByte, NoByte
    <2>2. QED
      BY <2>1 DEF Error
  <1>2. CASE off < Len(p)
    <2> DEFINE b == p[off + 1]
    <2>1. /\ off \in 0..(Len(p) - 1) /\ off \in 0..(Len(h) - 1) /\ b = h[off + 1]
          /\ b \in Byte /\ b \in Int /\ b >= 0 /\ b < Base
      <3>1. off + 1 \in 1..Len(p) /\ Len(p) <= Len(h)
        BY <1>2 DEF Cut
      <3>2. b = h[off + 1] /\ b \in Byte
        BY <3>1 DEF Cut
      <3>3. QED
        BY <3>1, <3>2, Sizes DEF Byte
    <2>2. ASSUME NEW l \in 1..Word
          PROVE  SkipLong(p, off, l) = Error \/ SkipLong(p, off, l) = SkipLong(h, off, l)
      <3>1. CASE off + 1 + l > Len(p)
        BY <3>1 DEF SkipLong
      <3>2. CASE ~(off + 1 + l > Len(p))
        <4>1. /\ off + 1 \in Nat /\ l \in Nat /\ (off + 1) + l <= Len(p)
              /\ ~(off + 1 + l > Len(h))
          BY <3>2, Sizes DEF Cut
        <4>2. ReadBEUint(p, off + 1, l) = ReadBEUint(h, off + 1, l)
          BY <4>1, ReadCut
        <4>3. QED
          BY <3>2, <4>1, <4>2 DEF SkipLong
      <3>3. QED
        BY <3>1, <3>2
    <2> HIDE DEF b
    <2>3. CASE b < Single \/ b \in Single..StrLong \/ b \in ListStart..ListLong
      BY <2>1, <2>3, SkipIs DEF b
    <2>4. CASE b > StrLong /\ b < ListStart
      <3>1. /\ b - StrLong \in 1..Word
            /\ SkipRLPItem(p, off) = SkipLong(p, off, b - StrLong)
            /\ SkipRLPItem(h, off) = SkipLong(h, off, b - StrLong)
        BY <2>1, <2>4, SkipIs DEF b
      <3>2. QED
        BY <2>2, <3>1 DEF Error
    <2>5. CASE b > ListLong
      <3>1. /\ b - ListLong \in 1..Word
            /\ SkipRLPItem(p, off) = SkipLong(p, off, b - ListLong)
            /\ SkipRLPItem(h, off) = SkipLong(h, off, b - ListLong)
        BY <2>1, <2>5, SkipIs DEF b
      <3>2. QED
        BY <2>2, <3>1 DEF Error
    <2>6. QED
      BY <2>1, <2>3, <2>4, <2>5, Sizes
  <1>3. QED
    BY <1>1, <1>2

LEMMA EnterCut ==
  ASSUME NEW p \in Seq(Byte), NEW h \in Seq(Byte), Cut(p, h)
  PROVE  EnterRLPList(p, 0).st = "err" \/ EnterRLPList(p, 0) = EnterRLPList(h, 0)
  <1>1. CASE Len(p) = 0
    <2>1. EnterRLPList(p, 0) = Error
      BY <1>1 DEF EnterRLPList, HasByte, NoByte
    <2>2. QED
      BY <2>1 DEF Error
  <1>2. CASE Len(p) # 0
    <2> DEFINE b == p[1]
               l == b - ListLong
    <2>1. /\ HasByte(p, 0) /\ HasByte(h, 0) /\ b = h[1] /\ b \in Int /\ b < Base
          /\ Len(p) <= Len(h) /\ Len(p) \in Nat /\ Len(h) \in Nat
      <3>1. 1 \in 1..Len(p) /\ Len(p) <= Len(h)
        BY <1>2 DEF Cut
      <3>2. b = h[1] /\ b \in Byte
        BY <3>1 DEF Cut
      <3>3. QED
        BY <3>1, <3>2, Sizes DEF Byte, HasByte
    <2>2. ASSUME NEW q \in {p, h}
          PROVE  /\ b < ListStart => EnterRLPList(q, 0) = Error
                 /\ b \in ListStart..ListLong => EnterRLPList(q, 0) = Ok(1, b - ListStart)
                 /\ b > ListLong =>
                      EnterRLPList(q, 0) = IF 1 + l > Len(q) THEN Error
                                           ELSE Ok(1 + l, ReadBEUint(q, 1, l))
      <3>1. HasByte(q, 0) /\ q[1] = b
        BY <2>1
      <3> HIDE DEF b
      <3>2. EnterRLPList(q, 0) =
              CASE b >= ListStart /\ b <= ListLong -> Ok(1, b - ListStart)
                [] b < ListStart                   -> Error
                [] b > ListLong -> IF 1 + l > Len(q) THEN Error
                                   ELSE Ok(1 + l, ReadBEUint(q, 1, l))
        <4>1. 0 + 1 = 1
          OBVIOUS
        <4>2. QED
          BY <3>1, <4>1 DEF EnterRLPList
      <3>3. ListStart \in Int /\ ListLong \in Int /\ ListStart <= ListLong /\ b \in Int
        BY <2>1, Sizes
      <3> HIDE DEF l
      <3>4. QED
        BY <3>2, <3>3
    <2>3. CASE b > ListLong
      <3>1. l \in Nat
        BY <2>1, <2>3, Sizes
      <3>2. CASE 1 + l > Len(p)
        BY <2>2, <2>3, <3>2 DEF Error
      <3>3. CASE ~(1 + l > Len(p))
        <4>1. ReadBEUint(p, 1, l) = ReadBEUint(h, 1, l)
          <5> HIDE DEF l
          <5> QED BY <2>1, <3>1, <3>3, ReadCut
        <4>2. ~(1 + l > Len(h))
          <5> HIDE DEF l
          <5> QED BY <2>1, <3>1, <3>3
        <4>3. QED
          BY <2>2, <2>3, <3>3, <4>1, <4>2
      <3>4. QED
        BY <3>2, <3>3
    <2>4. CASE b < ListStart
      BY <2>2, <2>4 DEF Error
    <2>5. CASE b \in ListStart..ListLong
      BY <2>2, <2>5
    <2>6. QED
      BY <2>1, <2>3, <2>4, <2>5, Sizes
  <1>3. QED
    BY <1>1, <1>2

LEMMA UintCut ==
  ASSUME NEW p \in Seq(Byte), NEW h \in Seq(Byte), Cut(p, h), NEW off \in Nat
  PROVE  ReadRLPUint(p, off).st = "err" \/ ReadRLPUint(p, off) = ReadRLPUint(h, off)
  <1>1. CASE off >= Len(p)
    <2>1. ReadRLPUint(p, off) = Error
      BY <1>1 DEF ReadRLPUint, HasByte, NoByte
    <2>2. QED
      BY <2>1 DEF Error
  <1>2. CASE off < Len(p)
    <2> DEFINE b == p[off + 1]
               l == b - Single
    <2>1. /\ HasByte(p, off) /\ HasByte(h, off) /\ b = h[off + 1] /\ b \in Int
          /\ Len(p) <= Len(h) /\ Len(p) \in Nat /\ Len(h) \in Nat
      <3>1. off + 1 \in 1..Len(p) /\ Len(p) <= Len(h)
        BY <1>2 DEF Cut
      <3>2. b = h[off + 1] /\ b \in Byte
        BY <3>1 DEF Cut
      <3>3. QED
        BY <3>1, <3>2, Sizes DEF Byte, HasByte
    <2>2. ASSUME NEW q \in {p, h}
          PROVE  ReadRLPUint(q, off) =
                   IF l < 0 THEN Ok(off + 1, b)
                   ELSE IF l > Short \/ l > Word \/ off + 1 + l > Len(q) THEN Error
                   ELSE Ok(off + 1 + l, AsUint(ReadBEUint(q, off + 1, l)))
      BY <2>1 DEF ReadRLPUint
    <2>3. l \in Int
      BY <2>1, Sizes
    <2> HIDE DEF b, l
    <2>4. CASE ~(l < 0) /\ ~(off + 1 + l > Len(p))
      <3>1. ReadBEUint(p, off + 1, l) = ReadBEUint(h, off + 1, l)
        <4>1. l \in Nat /\ off + 1 \in Nat /\ (off + 1) + l <= Len(p)
          BY <2>1, <2>3, <2>4
        <4>2. QED
          BY <4>1, ReadCut
      <3>2. ~(off + 1 + l > Len(h))
        BY <2>1, <2>3, <2>4
      <3>3. ReadRLPUint(p, off) = ReadRLPUint(h, off)
        BY <2>2, <2>4, <3>1, <3>2
      <3>4. QED
        BY <3>3
    <2>5. CASE l < 0
      BY <2>2, <2>5
    <2>6. CASE ~(l < 0) /\ off + 1 + l > Len(p)
      BY <2>2, <2>6 DEF Error
    <2>7. QED
      BY <2>4, <2>5, <2>6
  <1>3. QED
    BY <1>1, <1>2


-----------------------------------------------------------------------------
(* The items of a list.                                                    *)

(* F[i] is what the first i items are together.                            *)
Flattens(F, items) ==
  /\ F \in [0..Len(items) -> Seq(Byte)] /\ F[0] = <<>>
  /\ \A i \in 1..Len(items) : F[i] = F[i - 1] \o items[i]

LEMMA FlattenIs ==
  ASSUME NEW items \in Seq(Seq(Byte))
  PROVE  \E F : Flattens(F, items) /\ FlattenSeq(items) = F[Len(items)]
  <1> DEFINE m == Len(items)
  <1>1. m \in Nat /\ <<>> \in Seq(Byte) /\ \A i \in 1..m : items[i] \in Seq(Byte)
    OBVIOUS
  <1>2. CASE m = 0
    <2>1. items = <<>> /\ FlattenSeq(items) = <<>>
      BY <1>2 DEF FlattenSeq
    <2> DEFINE F == [i \in 0..0 |-> <<>>]
    <2>2. F \in [0..m -> Seq(Byte)] /\ F[0] = <<>> /\ \A i \in 1..m : F[i] = F[i - 1] \o items[i]
      BY <1>1, <1>2
    <2>3. F[m] = <<>>
      BY <1>2
    <2> HIDE DEF F
    <2>4. Flattens(F, items)
      BY <2>2 DEF Flattens
    <2>5. QED
      BY <2>1, <2>3, <2>4
  <1>3. CASE m # 0
    <2> DEFINE n == m - 1
               first == items[1]
               add(i) == [s \in Seq(Byte) |-> s \o items[i + 1]]
               step == [i \in 1..n |-> add(i)]
               Eq(f) == f = [i \in 1..m |-> IF i = 1 THEN items[i] ELSE f[i - 1] \o items[i]]
    <2>1. n \in Nat /\ first \in Seq(Byte) /\ m = n + 1
      BY <1>1, <1>3
    <2>2. step \in Steps(n, Seq(Byte))
      <3>1. ASSUME NEW i \in 1..n PROVE add(i) \in [Seq(Byte) -> Seq(Byte)]
        <4>1. items[i + 1] \in Seq(Byte)
          BY <1>1
        <4>2. \A s \in Seq(Byte) : s \o items[i + 1] \in Seq(Byte)
          BY <4>1, Joined
        <4>3. QED
          BY <4>2
      <3>2. QED
        <4> HIDE DEF add
        <4> QED BY <3>1 DEF Steps
    <2>3. PICK g : Iterates(g, n, Seq(Byte), first, step)
      <3> HIDE DEF n, first, step
      <3> QED BY <2>1, <2>2, Iteration
    <2>4. \E f : Eq(f)
      <3> DEFINE f == [i \in 1..m |-> g[i - 1]]
      <3>1. f[1] = items[1]
        BY <2>1, <2>3 DEF Iterates
      <3>2. ASSUME NEW i \in 2..m PROVE f[i] = f[i - 1] \o items[i]
        <4>1. i - 1 \in 1..n /\ (i - 1) - 1 \in 0..n /\ i - 1 \in 1..m /\ (i - 1) + 1 = i
          BY <2>1
        <4>2. g[i - 1] = step[i - 1][g[(i - 1) - 1]] /\ g[(i - 1) - 1] \in Seq(Byte)
          <5> HIDE DEF step, n
          <5> QED BY <2>3, <4>1 DEF Iterates
        <4>3. g[i - 1] = g[(i - 1) - 1] \o items[i]
          BY <4>1, <4>2
        <4>4. f[i - 1] = g[(i - 1) - 1] /\ f[i] = g[i - 1]
          BY <4>1
        <4>5. QED
          BY <4>3, <4>4
      <3>3. Eq(f)
        <4>1. f = [i \in 1..m |-> f[i]]
          OBVIOUS
        <4>2. \A i \in 1..m : f[i] = IF i = 1 THEN items[i] ELSE f[i - 1] \o items[i]
          <5>1. \A i \in 1..m : i = 1 \/ i \in 2..m
            BY <1>1
          <5> HIDE DEF f, m
          <5> QED BY <3>1, <3>2, <5>1
        <4> HIDE DEF f
        <4>3. QED
          BY <4>1, <4>2
      <3>4. QED
        <4> HIDE DEF f, Eq
        <4> QED BY <3>3
    <2>5. PICK f : Eq(f) /\ FlattenSeq(items) = f[m]
      <3>1. FlattenSeq(items) = LET f == CHOOSE f : Eq(f) IN f[m]
        BY <1>3 DEF FlattenSeq
      <3> HIDE DEF Eq
      <3>2. QED
        BY <2>4, <3>1
    <2>6. f[1] = items[1] /\ \A i \in 2..m : f[i] = f[i - 1] \o items[i]
      <3>1. \A i \in 1..m : f[i] = IF i = 1 THEN items[i] ELSE f[i - 1] \o items[i]
        BY <2>5
      <3>2. 1 \in 1..m /\ \A i \in 2..m : i \in 1..m /\ i # 1
        BY <1>1, <1>3
      <3> HIDE DEF m
      <3>3. QED
        BY <3>1, <3>2
    <2>7. \A i \in 1..m : f[i] \in Seq(Byte)
      <3> DEFINE T == {i \in 0..n : f[i + 1] \in Seq(Byte)}
      <3>1. 0 \in T
        BY <2>1, <2>6
      <3>2. ASSUME NEW i \in 0..(n - 1), i \in T PROVE i + 1 \in T
        <4>1. (i + 1) + 1 \in 2..m /\ ((i + 1) + 1) - 1 = i + 1
          BY <2>1
        <4>2. f[(i + 1) + 1] = f[i + 1] \o items[(i + 1) + 1] /\ items[(i + 1) + 1] \in Seq(Byte)
          <5> DEFINE j == (i + 1) + 1
          <5>1. j \in 2..m /\ j \in 1..m /\ j - 1 = i + 1
            BY <2>1
          <5> HIDE DEF j, m
          <5>2. f[j] = f[j - 1] \o items[j] /\ items[j] \in Seq(Byte)
            BY <1>1, <2>6, <5>1
          <5>3. QED
            BY <5>1, <5>2 DEF j
        <4>3. f[(i + 1) + 1] \in Seq(Byte)
          BY <3>2, <4>2, Joined
        <4>4. QED
          BY <2>1, <4>3
      <3> HIDE DEF T
      <3>3. \A i \in 0..n : i \in T
        <4> HIDE DEF n
        <4> QED BY <2>1, <3>1, <3>2, Induction
      <3>4. \A i \in 1..m : i - 1 \in T
        BY <2>1, <3>3
      <3>5. QED
        BY <2>1, <3>4 DEF T
    <2> DEFINE F == [i \in 0..m |-> IF i = 0 THEN <<>> ELSE f[i]]
    <2>8. F \in [0..m -> Seq(Byte)] /\ F[0] = <<>> /\ F[m] = f[m]
      BY <1>1, <1>3, <2>7
    <2>9. ASSUME NEW i \in 1..m PROVE F[i] = F[i - 1] \o items[i]
      <3>1. CASE i = 1
        <4>1. items[1] \in Seq(Byte)
          BY <1>1, <3>1
        <4>2. <<>> \o items[1] = items[1]
          BY <4>1
        <4>3. F[1] = f[1] /\ F[1 - 1] = <<>>
          BY <1>1, <1>3
        <4>4. QED
          BY <2>6, <3>1, <4>2, <4>3
      <3>2. CASE i # 1
        <4>1. i \in 2..m /\ i - 1 \in 1..m
          BY <1>1, <3>2
        <4>2. F[i] = f[i] /\ F[i - 1] = f[i - 1]
          BY <1>1, <3>2
        <4>3. QED
          BY <2>6, <4>1, <4>2
      <3>3. QED
        BY <3>1, <3>2
    <2> HIDE DEF F
    <2>10. Flattens(F, items)
      BY <2>8, <2>9 DEF Flattens
    <2>11. QED
      BY <2>5, <2>8, <2>10
  <1>4. QED
    BY <1>2, <1>3

(* Each item is behind the ones before it.                                 *)
LEMMA Positions ==
  ASSUME NEW items \in Seq(Seq(Byte)), NEW F, Flattens(F, items), NEW i \in 1..Len(items)
  PROVE  At(F[Len(items)], Len(F[i - 1]), items[i])
  <1> DEFINE m == Len(items)
             o == Len(F[i - 1])
             t == items[i]
             T == {j \in 0..(m - i) : At(F[i + j], o, t)}
  <1>0. /\ F \in [0..m -> Seq(Byte)]
        /\ \A j \in 1..m : F[j] = F[j - 1] \o items[j]
    BY Zenon DEF Flattens
  <1>1. m \in Nat /\ t \in Seq(Byte) /\ F[i - 1] \in Seq(Byte) /\ o \in Nat
    <2>1. m \in Nat /\ t \in Seq(Byte)
      OBVIOUS
    <2>2. i - 1 \in 0..m
      BY <2>1
    <2> HIDE DEF m
    <2>3. F[i - 1] \in Seq(Byte)
      BY <1>0, <2>2
    <2>4. QED
      BY <2>1, <2>3
  <1>2. 0 \in T
    <2>1. F[i] = F[i - 1] \o t
      BY <1>0
    <2>2. At(F[i], o, t)
      <3> DEFINE e == F[i - 1]
      <3>1. /\ Len(F[i]) = o + Len(t)
            /\ \A j \in 1..Len(t) : F[i][o + j] = t[j]
        <4>1. e \in Seq(Byte) /\ F[i] = e \o t /\ o = Len(e)
          BY <1>1, <2>1
        <4> HIDE DEF e, o, t
        <4>2. QED
          BY <1>1, <4>1, Joined
      <3>2. QED
        <4> HIDE DEF o, t
        <4> QED BY <1>1, <3>1 DEF At
    <2>3. i + 0 = i /\ 0 \in 0..(m - i)
      <3>1. i \in Int /\ i <= m
        BY <1>1
      <3> HIDE DEF m
      <3>2. QED
        BY <1>1, <3>1
    <2>4. QED
      BY <2>2, <2>3
  <1>3. ASSUME NEW j \in 0..((m - i) - 1), j \in T PROVE j + 1 \in T
    <2> DEFINE a == F[i + j]
               b == items[i + (j + 1)]
               c == F[i + (j + 1)]
    <2>1. /\ i + j \in 0..m /\ i + (j + 1) \in 1..m /\ (i + (j + 1)) - 1 = i + j
      BY <1>1
    <2>2. a \in Seq(Byte) /\ b \in Seq(Byte) /\ c = a \o b /\ At(a, o, t)
      <3>1. c = a \o b
        <4>1. F[i + (j + 1)] = F[(i + (j + 1)) - 1] \o items[i + (j + 1)]
          BY <1>0, <2>1
        <4>2. QED
          BY <2>1, <4>1
      <3>2. a \in Seq(Byte)
        BY <1>0, <2>1
      <3>3. b \in Seq(Byte)
        BY <2>1
      <3>4. At(a, o, t)
        BY <1>3
      <3>5. QED
        BY <3>1, <3>2, <3>3, <3>4
    <2> HIDE DEF a, b, c, o, t
    <2>3. At(c, o, t)
      <3>1. /\ o \in Nat /\ Len(t) \in Nat /\ Len(a) \in Nat /\ Len(c) \in Nat
            /\ Len(c) >= Len(a) /\ \A k \in 1..Len(a) : c[k] = a[k]
        <4>1. Len(c) \in Nat /\ Len(c) >= Len(a) /\ \A k \in 1..Len(a) : c[k] = a[k]
          BY <2>2, Joined
        <4>2. QED
          BY <1>1, <2>2, <4>1
      <3>2. o + Len(t) <= Len(a)
        BY <2>2 DEF At
      <3>3. \A k \in 1..Len(t) : a[o + k] = t[k]
        BY <2>2 DEF At
      <3>4. \A k \in 1..Len(t) : o + k \in 1..Len(a)
        BY <3>1, <3>2
      <3>5. \A k \in 1..Len(t) : c[o + k] = t[k]
        BY <3>1, <3>3, <3>4
      <3>6. o + Len(t) <= Len(c)
        BY <3>1, <3>2
      <3>7. QED
        BY <3>5, <3>6 DEF At
    <2>4. QED
      BY <1>1, <2>3 DEF c
  <1>4. m - i \in T
    <2> HIDE DEF T
    <2>1. m - i \in Nat
      BY <1>1
    <2>2. \A j \in 0..(m - i) : j \in T
      BY <1>2, <1>3, <2>1, Induction
    <2>3. QED
      BY <2>1, <2>2
  <1>5. i + (m - i) = m
    BY <1>1
  <1>6. QED
    BY <1>4, <1>5

-----------------------------------------------------------------------------
(* The walk.                                                               *)

LEMMA SkipType ==
  ASSUME NEW buf \in Seq(Byte), NEW off \in Int
  PROVE  SkipRLPItem(buf, off) \in Results
  <1>1. CASE ~HasByte(buf, off)
    BY <1>1, ResultTypes DEF SkipRLPItem, NoByte
  <1>2. CASE HasByte(buf, off)
    <2> DEFINE b == buf[off + 1]
    <2>1. off \in 0..(Len(buf) - 1) /\ off \in Nat /\ Len(buf) \in Nat
      BY <1>2 DEF HasByte
    <2>2. b \in Int
      <3>1. b \in Byte
        BY <2>1, SkipIs
      <3>2. QED
        BY <3>1 DEF Byte
    <2>3. ASSUME NEW l \in 1..Word PROVE SkipLong(buf, off, l) \in Results
      <3>1. CASE off + 1 + l > Len(buf)
        BY <3>1, ResultTypes DEF SkipLong
      <3>2. CASE ~(off + 1 + l > Len(buf))
        <4>1. off + 1 \in Nat /\ l \in Nat /\ (off + 1) + l <= Len(buf)
          BY <2>1, <3>2, Sizes
        <4>2. Bytes(buf, off + 1, l)
          BY <4>1, BytesIn
        <4>3. ReadBEUint(buf, off + 1, l) \in Int
          BY <4>1, <4>2, ReadType
        <4>4. AsInt(off + 1 + l + ReadBEUint(buf, off + 1, l)) \in Int
          BY <4>1, <4>3, AsIntType
        <4>5. QED
          BY <3>2, <4>4, ResultTypes DEF SkipLong
      <3>3. QED
        BY <3>1, <3>2
    <2> HIDE DEF b
    <2>4. CASE b < Single
      BY <2>1, <2>4, SkipIs, ResultTypes DEF b
    <2>5. CASE b \in Single..StrLong
      <3>1. off + 1 + b - Single \in Int
        BY <2>2, Sizes
      <3>2. QED
        BY <2>1, <2>5, <3>1, SkipIs, ResultTypes DEF b
    <2>6. CASE b > StrLong /\ b < ListStart
      <3>1. /\ b - StrLong \in 1..Word
            /\ SkipRLPItem(buf, off) = SkipLong(buf, off, b - StrLong)
        BY <2>1, <2>6, SkipIs DEF b
      <3>2. QED
        BY <2>3, <3>1
    <2>7. CASE b \in ListStart..ListLong
      <3>1. off + 1 + b - ListStart \in Int
        BY <2>2, Sizes
      <3>2. QED
        BY <2>1, <2>7, <3>1, SkipIs, ResultTypes DEF b
    <2>8. CASE b > ListLong
      <3>1. /\ b - ListLong \in 1..Word
            /\ SkipRLPItem(buf, off) = SkipLong(buf, off, b - ListLong)
        BY <2>1, <2>8, SkipIs DEF b
      <3>2. QED
        BY <2>3, <3>1
    <2>9. QED
      BY <2>2, <2>4, <2>5, <2>6, <2>7, <2>8, Sizes
  <1>3. QED
    BY <1>1, <1>2

(* What a list may begin with, and where its items are said to be.         *)
LEMMA EnterClasses ==
  ASSUME NEW buf \in Seq(Byte)
  PROVE  \/ EnterRLPList(buf, 0) = Error
         \/ \E off \in Nat, val \in Int : EnterRLPList(buf, 0) = Ok(off, val)
  <1>1. CASE ~HasByte(buf, 0)
    <2>1. Len(buf) = 0
      BY <1>1 DEF HasByte
    <2>2. QED
      BY <1>1, <2>1 DEF EnterRLPList, NoByte
  <1>2. CASE HasByte(buf, 0)
    <2> DEFINE b == buf[1]
               l == b - ListLong
    <2>1. b \in Int /\ b >= 0 /\ b < Base /\ Len(buf) \in Nat
      <3>1. b \in Byte
        BY <1>2 DEF HasByte
      <3>2. QED
        BY <3>1, Sizes DEF Byte
    <2>2. EnterRLPList(buf, 0) =
            CASE b >= ListStart /\ b <= ListLong -> Ok(1, b - ListStart)
              [] b < ListStart                   -> Error
              [] b > ListLong -> IF 1 + l > Len(buf) THEN Error
                                 ELSE Ok(1 + l, ReadBEUint(buf, 1, l))
      <3>1. 0 + 1 = 1
        OBVIOUS
      <3>2. QED
        BY <1>2, <3>1 DEF EnterRLPList
    <2> HIDE DEF b
    <2>3. CASE b < ListStart
      BY <2>1, <2>2, <2>3, Sizes
    <2>4. CASE b >= ListStart /\ b <= ListLong
      <3>1. EnterRLPList(buf, 0) = Ok(1, b - ListStart) /\ b - ListStart \in Int
        BY <2>1, <2>2, <2>4, Sizes
      <3>2. QED
        BY <3>1
    <2>5. CASE b > ListLong
      <3>1. EnterRLPList(buf, 0) = IF 1 + l > Len(buf) THEN Error
                                   ELSE Ok(1 + l, ReadBEUint(buf, 1, l))
        <4>1. ~(b < ListStart) /\ ~(b <= ListLong)
          BY <2>1, <2>5, Sizes
        <4> HIDE DEF l
        <4>2. QED
          BY <2>2, <2>5, <4>1
      <3>2. l \in Nat
        BY <2>1, <2>5, Sizes
      <3> HIDE DEF l
      <3>3. CASE ~(1 + l > Len(buf))
        <4>1. Bytes(buf, 1, l)
          BY <2>1, <3>2, <3>3, BytesIn
        <4>2. ReadBEUint(buf, 1, l) \in Int /\ 1 + l \in Nat
          BY <3>2, <4>1, ReadType
        <4>3. QED
          BY <3>1, <3>3, <4>2
      <3>4. QED
        BY <3>1, <3>3
    <2>6. QED
      BY <2>1, <2>3, <2>4, <2>5, Sizes
  <1>3. QED
    BY <1>1, <1>2

(* The results w that a walk over n items goes through.                    *)
Walks(w, buf, n) ==
  /\ w \in [0..n -> Results] /\ w[0] = EnterRLPList(buf, 0)
  /\ \A i \in 1..n :
       w[i] = IF w[i - 1].st = "ok" THEN SkipRLPItem(buf, w[i - 1].off) ELSE w[i - 1]

LEMMA WalkDef ==
  ASSUME NEW buf \in Seq(Byte), NEW n \in Nat
  PROVE  \E w : /\ Walks(w, buf, n)
                /\ ReadItem(buf, n) = IF w[n].st = "ok" THEN ReadRLPUint(buf, w[n].off)
                                      ELSE w[n]
  <1> DEFINE enter == EnterRLPList(buf, 0)
             next == [r \in Results |-> IF r.st = "ok" THEN SkipRLPItem(buf, r.off) ELSE r]
             step == [i \in 1..n |-> next]
             Eq(w) == w = [i \in 0..n |->
                             IF i = 0 THEN EnterRLPList(buf, 0)
                             ELSE IF w[i - 1].st = "ok" THEN SkipRLPItem(buf, w[i - 1].off)
                                  ELSE w[i - 1]]
  <1>1. step \in Steps(n, Results) /\ enter \in Results
    <2>1. \A r \in Results : r.off \in Int
      BY DEF Results
    <2>2. \A r \in Results : (IF r.st = "ok" THEN SkipRLPItem(buf, r.off) ELSE r) \in Results
      BY <2>1, SkipType
    <2>3. next \in [Results -> Results]
      BY <2>2
    <2>4. enter \in Results
      BY EnterClasses, ResultTypes
    <2>5. QED
      <3> HIDE DEF next
      <3> QED BY <2>3, <2>4 DEF Steps
  <1>2. PICK f : Iterates(f, n, Results, enter, step)
    <2> HIDE DEF enter, step
    <2> QED BY <1>1, Iteration
  <1>3. f \in [0..n -> Results] /\ f[0] = enter
    BY <1>2 DEF Iterates
  <1>4. ASSUME NEW i \in 1..n
        PROVE  f[i] = IF f[i - 1].st = "ok" THEN SkipRLPItem(buf, f[i - 1].off) ELSE f[i - 1]
    <2>1. f[i - 1] \in Results /\ f[i] = step[i][f[i - 1]]
      <3> HIDE DEF step
      <3> QED BY <1>2, <1>3 DEF Iterates
    <2>2. QED
      BY <2>1
  <1>5. Eq(f)
    BY <1>3, <1>4
  <1>6. PICK w : Eq(w) /\ ReadItem(buf, n) = IF w[n].st = "ok" THEN ReadRLPUint(buf, w[n].off)
                                             ELSE w[n]
    <2>1. ReadItem(buf, n) = LET w == CHOOSE w : Eq(w) IN
                             IF w[n].st = "ok" THEN ReadRLPUint(buf, w[n].off) ELSE w[n]
      BY DEF ReadItem
    <2> HIDE DEF Eq
    <2>2. QED
      BY <1>5, <2>1
  <1>7. /\ w[0] = EnterRLPList(buf, 0)
        /\ \A i \in 1..n :
             w[i] = IF w[i - 1].st = "ok" THEN SkipRLPItem(buf, w[i - 1].off) ELSE w[i - 1]
        /\ w = [i \in 0..n |-> w[i]]
    BY <1>6
  <1>8. \A i \in 0..n : w[i] \in Results
    <2> DEFINE T == {i \in 0..n : w[i] \in Results}
    <2>1. 0 \in T
      BY <1>1, <1>7
    <2>2. ASSUME NEW i \in 0..(n - 1), i \in T PROVE i + 1 \in T
      <3>1. (i + 1) - 1 = i /\ i + 1 \in 1..n /\ w[i] \in Results
        BY <2>2
      <3>2. w[i + 1] = IF w[i].st = "ok" THEN SkipRLPItem(buf, w[i].off) ELSE w[i]
        BY <1>7, <3>1
      <3>3. w[i].off \in Int
        BY <3>1 DEF Results
      <3>4. w[i + 1] \in Results
        BY <3>1, <3>2, <3>3, SkipType
      <3>5. QED
        BY <3>1, <3>4
    <2> HIDE DEF T
    <2>3. \A i \in 0..n : i \in T
      BY <2>1, <2>2, Induction
    <2>4. QED
      BY <2>3 DEF T
  <1> HIDE DEF Eq
  <1>9. Walks(w, buf, n)
    BY <1>7, <1>8 DEF Walks
  <1>10. QED
    BY <1>6, <1>9


LEMMA EncodeType ==
  ASSUME NEW b \in Seq(Byte)
  PROVE  /\ EncodeBytes(b) \in Seq(Byte) /\ IsItem(EncodeBytes(b))
  <1>1. CASE Len(b) = 1 /\ b[1] < Single
    <2>1. EncodeBytes(b) = b
      BY <1>1 DEF EncodeBytes
    <2>2. b = SubSeq(b, 1, Len(b)) /\ 1 \in 1..Len(b) + 1
      OBVIOUS
    <2>3. QED
      BY <2>1, <2>2 DEF IsItem
  <1>2. CASE ~(Len(b) = 1 /\ b[1] < Single)
    <2> DEFINE p == EncodeBytes(b)
               k == (Len(p) - Len(b)) + 1
               c == SubSeq(p, k, Len(p))
    <2>1. p = Prefixed(Single, StrLong, b)
      BY <1>2 DEF EncodeBytes
    <2>2. p \in Seq(Byte) /\ Behind(p, b, Digits(Len(b)), Single)
      BY <2>1, PrefixedIs, Sizes
    <2>3. Len(b) \in Nat /\ Digits(Len(b)) \in Nat
      BY DigitsIs, Sizes
    <2> HIDE DEF p
    <2>4. k \in 1..Len(p) + 1 /\ \A j \in 1..Len(b) : p[(k - 1) + j] = b[j]
      <3>1. CASE Len(b) <= Short
        <4>1. Len(p) = 1 + Len(b) /\ \A j \in 1..Len(b) : p[1 + j] = b[j]
          BY <2>2, <3>1 DEF Behind
        <4>2. k - 1 = 1
          BY <2>3, <4>1
        <4> HIDE DEF k
        <4>3. k \in 1..Len(p) + 1
          BY <2>3, <4>1 DEF k
        <4>4. QED
          BY <4>1, <4>2, <4>3
      <3>2. CASE Len(b) > Short
        <4> DEFINE l == 1 + Digits(Len(b))
        <4>1. Len(p) = l + Len(b) /\ \A j \in 1..Len(b) : p[l + j] = b[j]
          BY <2>2, <3>2 DEF Behind
        <4>2. l \in Nat /\ l > 0
          BY <2>3
        <4> HIDE DEF l
        <4>3. k - 1 = l /\ k \in 1..Len(p) + 1
          BY <2>3, <4>1, <4>2
        <4> HIDE DEF k
        <4>4. QED
          BY <4>1, <4>3
      <3>3. QED
        BY <2>3, <3>1, <3>2, Sizes
    <2>5. c = b
      <3>1. c \in Seq(Byte) /\ Len(c) = Len(b)
        BY <2>2, <2>3, <2>4
      <3>2. ASSUME NEW j \in 1..Len(b) PROVE c[j] = b[j]
        <4>1. c[j] = p[(k - 1) + j]
          BY <2>2, <2>3, <2>4
        <4>2. QED
          BY <2>4, <4>1
      <3> HIDE DEF c
      <3>3. QED
        BY <3>1, <3>2
    <2>6. IsItem(p)
      <3> HIDE DEF k
      <3>1. p = EncodeBytes(SubSeq(p, k, Len(p)))
        BY <2>5 DEF p
      <3>2. QED
        BY <2>4, <3>1 DEF IsItem
    <2>7. QED
      BY <2>2, <2>6 DEF p
  <1>3. QED
    BY <1>1, <1>2

LEMMA UintType ==
  ASSUME NEW n \in Nat
  PROVE  EncodeUint(n) \in Seq(Byte) /\ IsItem(EncodeUint(n))
  <1>1. BE(n) \in Seq(Byte)
    BY BEType
  <1>2. QED
    BY <1>1, EncodeType DEF EncodeUint

LEMMA ListType ==
  ASSUME NEW items \in Seq(Seq(Byte))
  PROVE  FlattenSeq(items) \in Seq(Byte) /\ EncodeList(items) \in Seq(Byte)
  <1>1. PICK F : Flattens(F, items) /\ FlattenSeq(items) = F[Len(items)]
    BY FlattenIs
  <1>2. Len(items) \in 0..Len(items)
    OBVIOUS
  <1>3. FlattenSeq(items) \in Seq(Byte)
    BY <1>1, <1>2 DEF Flattens
  <1>4. QED
    BY <1>3, PrefixedIs, Sizes DEF EncodeList

(* A walk over a list of items comes by each of them.                      *)
LEMMA WalkList ==
  ASSUME NEW items \in Seq(Seq(Byte)), NEW n \in 0..(Len(items) - 1),
         \A i \in 1..n : IsItem(items[i]),
         NEW h \in Seq(Byte), h = EncodeList(items), Fits(h),
         NEW w, Walks(w, h, n)
  PROVE  \A i \in 0..n : w[i].st = "ok" /\ w[i].off \in Nat /\ At(h, w[i].off, items[i + 1])
  <1>1. PICK F : Flattens(F, items) /\ FlattenSeq(items) = F[Len(items)]
    BY FlattenIs
  <1> DEFINE m == Len(items)
             flat == F[m]
             pre == Len(h) - Len(flat)
             T == {i \in 0..n : w[i].st = "ok" /\ w[i].off = pre + Len(F[i])}
  <1>0. F \in [0..m -> Seq(Byte)] /\ F[0] = <<>> /\ \A i \in 1..m : F[i] = F[i - 1] \o items[i]
    BY <1>1, Zenon DEF Flattens
  <1>2. m \in Nat /\ n \in Nat /\ n < m
    <2>1. m \in Nat
      OBVIOUS
    <2> HIDE DEF m
    <2>2. n \in 0..(m - 1)
      BY DEF m
    <2>3. QED
      BY <2>1, <2>2
  <1>3. \A i \in 1..m : items[i] \in Seq(Byte)
    OBVIOUS
  <1> HIDE DEF m
  <1>4. flat \in Seq(Byte)
    <2>1. m \in 0..m
      BY <1>2
    <2>2. QED
      BY <1>0, <2>1
  <1>5. h = Prefixed(ListStart, ListLong, flat)
    BY <1>1 DEF EncodeList, m
  <1> HIDE DEF flat
  <1>6. /\ EnterRLPList(h, 0).st = "ok" /\ EnterRLPList(h, 0).off = pre
        /\ At(h, pre, flat) /\ pre \in Nat
    BY <1>4, <1>5, EnterIs
  <1> HIDE DEF pre
  <1>7. ASSUME NEW i \in 0..n
        PROVE  /\ F[i] \in Seq(Byte) /\ Len(F[i]) \in Nat
               /\ At(h, pre + Len(F[i]), items[i + 1])
    <2> DEFINE o == Len(F[i])
               t == items[i + 1]
    <2>1. i + 1 \in 1..m /\ (i + 1) - 1 = i /\ i \in 0..m
      BY <1>2
    <2>2. At(flat, o, t)
      <3>1. At(F[m], Len(F[(i + 1) - 1]), items[i + 1])
        BY <1>1, <2>1, Positions DEF m
      <3>2. QED
        BY <2>1, <3>1 DEF flat
    <2>3. F[i] \in Seq(Byte) /\ o \in Nat /\ t \in Seq(Byte)
      <3>1. F[i] \in Seq(Byte)
        BY <1>0, <2>1
      <3>2. t \in Seq(Byte)
        BY <1>3, <2>1
      <3>3. QED
        BY <3>1, <3>2
    <2> HIDE DEF o, t
    <2>4. At(h, pre + o, t)
      <3>1. /\ pre + Len(flat) <= Len(h) /\ \A j \in 1..Len(flat) : h[pre + j] = flat[j]
            /\ o + Len(t) <= Len(flat) /\ \A j \in 1..Len(t) : flat[o + j] = t[j]
            /\ Len(flat) \in Nat /\ Len(t) \in Nat /\ Len(h) \in Nat
        BY <1>4, <1>6, <2>2, <2>3 DEF At
      <3>2. ASSUME NEW j \in 1..Len(t) PROVE h[(pre + o) + j] = t[j]
        <4>1. o + j \in 1..Len(flat) /\ pre + (o + j) = (pre + o) + j
          BY <1>6, <2>3, <3>1
        <4>2. h[pre + (o + j)] = flat[o + j]
          BY <3>1, <4>1
        <4>3. QED
          BY <3>1, <4>1, <4>2
      <3>3. (pre + o) + Len(t) <= Len(h)
        BY <1>6, <2>3, <3>1
      <3>4. QED
        BY <3>2, <3>3 DEF At
    <2>5. QED
      BY <2>3, <2>4 DEF o, t
  <1>8. 0 \in T
    <2>1. w[0] = EnterRLPList(h, 0)
      BY DEF Walks
    <2>2. Len(F[0]) = 0
      BY <1>0
    <2>3. pre + Len(F[0]) = pre
      BY <1>6, <2>2
    <2>4. 0 \in 0..n
      BY <1>2
    <2>5. QED
      BY <1>6, <2>1, <2>3, <2>4
  <1>9. ASSUME NEW i \in 0..(n - 1), i \in T PROVE i + 1 \in T
    <2> DEFINE o == Len(F[i])
               t == items[i + 1]
    <2>1. i \in 0..n /\ i + 1 \in 1..n /\ i + 1 \in 1..m /\ (i + 1) - 1 = i /\ i + 1 \in 0..n
      BY <1>2
    <2>2. w[i].st = "ok" /\ w[i].off = pre + o
      BY <1>9
    <2>3. w[i + 1] = SkipRLPItem(h, pre + o)
      BY <2>1, <2>2 DEF Walks
    <2>4. o \in Nat /\ t \in Seq(Byte) /\ IsItem(t) /\ At(h, pre + o, t) /\ F[i] \in Seq(Byte)
      BY <1>3, <1>7, <2>1
    <2>5. F[i + 1] = F[i] \o t
      BY <1>0, <2>1
    <2>6. Len(F[i + 1]) = o + Len(t)
      BY <2>4, <2>5, Joined
    <2> HIDE DEF o, t
    <2>7. SkipRLPItem(h, pre + o) = Ok((pre + o) + Len(t), 0)
      <3>1. pre + o \in Nat
        BY <1>6, <2>4
      <3>2. QED
        BY <2>4, <3>1, SkipItem
    <2>8. w[i + 1].st = "ok" /\ w[i + 1].off = (pre + o) + Len(t)
      BY <2>3, <2>7 DEF Ok
    <2>9. (pre + o) + Len(t) = pre + Len(F[i + 1])
      BY <1>6, <2>4, <2>6
    <2>10. QED
      BY <2>1, <2>8, <2>9
  <1>10. \A i \in 0..n : i \in T
    <2> HIDE DEF T
    <2> QED BY <1>2, <1>8, <1>9, Induction
  <1>11. ASSUME NEW i \in 0..n
         PROVE  w[i].st = "ok" /\ w[i].off \in Nat /\ At(h, w[i].off, items[i + 1])
    <2>1. w[i].st = "ok" /\ w[i].off = pre + Len(F[i])
      BY <1>10
    <2>2. QED
      BY <1>6, <1>7, <2>1
  <1>12. QED
    BY <1>11

(* Item number n of the list h, from 0, is the integer v.                  *)
HasField(h, items, n, v) ==
  /\ items \in Seq(Seq(Byte)) /\ n \in 0..(Len(items) - 1)
  /\ \A i \in 1..n : IsItem(items[i])
  /\ v \in Number /\ items[n + 1] = EncodeUint(v)
  /\ h \in Seq(Byte) /\ h = EncodeList(items) /\ Fits(h)

(* The field is read, and of bytes that are cut short nothing but it.      *)
LEMMA ReadList ==
  ASSUME NEW h, NEW items, NEW n, NEW v, HasField(h, items, n, v)
  PROVE  /\ ReadItem(h, n).st = "ok" /\ ReadItem(h, n).val = v
         /\ \A p \in Seq(Byte) : Cut(p, h) =>
              ReadItem(p, n).st = "err" \/ ReadItem(p, n) = ReadItem(h, n)
  <1>0. /\ items \in Seq(Seq(Byte)) /\ n \in 0..(Len(items) - 1)
        /\ \A i \in 1..n : IsItem(items[i])
        /\ v \in Number /\ items[n + 1] = EncodeUint(v)
        /\ h \in Seq(Byte) /\ h = EncodeList(items) /\ Fits(h)
    BY DEF HasField
  <1>1. n \in Nat
    BY <1>0
  <1>2. PICK w : /\ Walks(w, h, n)
                 /\ ReadItem(h, n) = IF w[n].st = "ok" THEN ReadRLPUint(h, w[n].off) ELSE w[n]
    BY <1>0, <1>1, WalkDef
  <1>3. \A i \in 0..n : w[i].st = "ok" /\ w[i].off \in Nat /\ At(h, w[i].off, items[i + 1])
    BY <1>0, <1>2, WalkList
  <1>4. w[n].st = "ok" /\ w[n].off \in Nat /\ At(h, w[n].off, EncodeUint(v))
    BY <1>0, <1>1, <1>3
  <1>5. ReadItem(h, n) = ReadRLPUint(h, w[n].off)
    BY <1>2, <1>4
  <1>6. ASSUME NEW p \in Seq(Byte), Cut(p, h)
        PROVE  ReadItem(p, n).st = "err" \/ ReadItem(p, n) = ReadItem(h, n)
    <2>1. PICK x : /\ Walks(x, p, n)
                   /\ ReadItem(p, n) = IF x[n].st = "ok" THEN ReadRLPUint(p, x[n].off) ELSE x[n]
      BY <1>1, WalkDef
    <2> DEFINE T == {i \in 0..n : x[i].st = "err" \/ x[i] = w[i]}
    <2>2. 0 \in T
      <3>1. x[0] = EnterRLPList(p, 0) /\ w[0] = EnterRLPList(h, 0)
        BY <1>2, <2>1 DEF Walks
      <3>2. QED
        BY <1>0, <1>1, <1>6, <3>1, EnterCut
    <2>3. ASSUME NEW i \in 0..(n - 1), i \in T PROVE i + 1 \in T
      <3>1. i \in 0..n /\ i + 1 \in 1..n /\ (i + 1) - 1 = i /\ i + 1 \in 0..n
        BY <1>1
      <3>2. x[i + 1] = IF x[i].st = "ok" THEN SkipRLPItem(p, x[i].off) ELSE x[i]
        BY <2>1, <3>1 DEF Walks
      <3>3. w[i + 1] = SkipRLPItem(h, w[i].off)
        BY <1>2, <1>3, <3>1 DEF Walks
      <3>4. CASE x[i].st = "err"
        BY <3>1, <3>2, <3>4
      <3>5. CASE x[i] = w[i]
        <4>1. x[i + 1] = SkipRLPItem(p, w[i].off) /\ w[i].off \in Nat
          BY <1>3, <3>1, <3>2, <3>5
        <4>2. h \in Seq(Byte)
          BY <1>0
        <4>3. \/ SkipRLPItem(p, w[i].off).st = "err"
              \/ SkipRLPItem(p, w[i].off) = SkipRLPItem(h, w[i].off)
          BY <1>6, <4>1, <4>2, SkipCut
        <4>4. QED
          BY <3>1, <3>3, <4>1, <4>3
      <3>6. QED
        BY <2>3, <3>4, <3>5
    <2>4. n \in T
      <3> HIDE DEF T
      <3>1. \A i \in 0..n : i \in T
        BY <1>1, <2>2, <2>3, Induction
      <3>2. QED
        BY <1>1, <3>1
    <2>5. CASE x[n].st = "err"
      BY <2>1, <2>5
    <2>6. CASE x[n] = w[n]
      <3>1. ReadItem(p, n) = ReadRLPUint(p, w[n].off)
        BY <1>4, <2>1, <2>6
      <3>2. QED
        BY <1>0, <1>4, <1>5, <1>6, <3>1, UintCut
    <2>7. QED
      BY <2>4, <2>5, <2>6
  <1>7. QED
    BY <1>0, <1>4, <1>5, <1>6, ReadUint

-----------------------------------------------------------------------------
(* Bytes that are not what geth writes.                                    *)

Narrow(buf) == \A i \in 1..Len(buf) : ~WideLength(buf[i])

(* Lengths of fewer bytes than an int has lead forward.                    *)
LEMMA SkipForward ==
  ASSUME NEW buf \in Seq(Byte), Fits(buf), Narrow(buf), NEW off \in Nat
  PROVE  \/ SkipRLPItem(buf, off) = Error
         \/ \E o \in Nat : SkipRLPItem(buf, off) = Ok(o, 0)
  <1>1. CASE ~HasByte(buf, off)
    <2>1. off >= Len(buf)
      BY <1>1 DEF HasByte
    <2>2. QED
      BY <1>1, <2>1 DEF SkipRLPItem, NoByte
  <1>2. CASE HasByte(buf, off)
    <2> DEFINE b == buf[off + 1]
    <2>1. /\ off \in 0..(Len(buf) - 1) /\ Len(buf) \in Nat /\ 4 * Len(buf) <= Uint64
          /\ Uint64 \in Nat /\ off + 1 \in 1..Len(buf)
      BY <1>2, UintSize DEF HasByte, Fits
    <2>2. b \in Int /\ b # StrLong + Word /\ b # ListLong + Word
      <3>1. b \in Byte
        BY <2>1, SkipIs
      <3>2. ~WideLength(b)
        BY <2>1 DEF Narrow
      <3>3. QED
        BY <3>1, <3>2 DEF Byte, WideLength
    <2>3. ASSUME NEW l \in 1..(Word - 1)
          PROVE  \/ SkipLong(buf, off, l) = Error
                 \/ \E o \in Nat : SkipLong(buf, off, l) = Ok(o, 0)
      <3>1. CASE off + 1 + l > Len(buf)
        BY <3>1 DEF SkipLong
      <3>2. CASE ~(off + 1 + l > Len(buf))
        <4> DEFINE x == ReadBEUint(buf, off + 1, l)
                   o == off + 1 + l + x
        <4>1. off + 1 \in Nat /\ l \in Nat /\ (off + 1) + l <= Len(buf) /\ l \in 0..(Word - 1)
          BY <2>1, <3>2, Sizes
        <4>2. Bytes(buf, off + 1, l)
          BY <4>1, BytesIn
        <4>3. x \in Nat /\ 7 * x < Uint64
          BY <4>1, <4>2, ReadSmall
        <4> HIDE DEF x
        <4>4. o \in Nat /\ 2 * o < Uint64
          BY <2>1, <4>1, <4>3
        <4> HIDE DEF o
        <4>5. AsInt(o) = o
          BY <4>4, AsIntSmall
        <4>6. SkipLong(buf, off, l) = Ok(AsInt(o), 0)
          BY <3>2 DEF SkipLong, o, x
        <4>7. QED
          BY <4>4, <4>5, <4>6
      <3>3. QED
        BY <3>1, <3>2
    <2> HIDE DEF b
    <2>4. CASE b < Single
      <3>1. SkipRLPItem(buf, off) = Ok(off + 1, 0) /\ off + 1 \in Nat
        BY <2>1, <2>4, SkipIs DEF b
      <3>2. QED
        BY <3>1
    <2>5. CASE b \in Single..StrLong
      <3>1. SkipRLPItem(buf, off) = Ok(off + 1 + b - Single, 0)
        BY <2>1, <2>5, SkipIs DEF b
      <3>2. off + 1 + b - Single \in Nat
        BY <2>1, <2>2, <2>5, Sizes
      <3>3. QED
        BY <3>1, <3>2
    <2>6. CASE b > StrLong /\ b < ListStart
      <3>1. /\ b - StrLong \in 1..Word
            /\ SkipRLPItem(buf, off) = SkipLong(buf, off, b - StrLong)
        BY <2>1, <2>6, SkipIs DEF b
      <3>2. b - StrLong \in 1..(Word - 1)
        BY <2>2, <3>1, Sizes
      <3>3. QED
        BY <2>3, <3>1, <3>2
    <2>7. CASE b \in ListStart..ListLong
      <3>1. SkipRLPItem(buf, off) = Ok(off + 1 + b - ListStart, 0)
        BY <2>1, <2>7, SkipIs DEF b
      <3>2. off + 1 + b - ListStart \in Nat
        BY <2>1, <2>2, <2>7, Sizes
      <3>3. QED
        BY <3>1, <3>2
    <2>8. CASE b > ListLong
      <3>1. /\ b - ListLong \in 1..Word
            /\ SkipRLPItem(buf, off) = SkipLong(buf, off, b - ListLong)
        BY <2>1, <2>8, SkipIs DEF b
      <3>2. b - ListLong \in 1..(Word - 1)
        BY <2>2, <3>1, Sizes
      <3>3. QED
        BY <2>3, <3>1, <3>2
    <2>9. QED
      BY <2>2, <2>4, <2>5, <2>6, <2>7, <2>8, Sizes
  <1>3. QED
    BY <1>1, <1>2

LEMMA NoPanic ==
  ASSUME NEW buf \in Seq(Byte), Fits(buf), Narrow(buf), NEW n \in Nat
  PROVE  ReadItem(buf, n).st # "panic"
  <1>1. PICK w : /\ Walks(w, buf, n)
                 /\ ReadItem(buf, n) = IF w[n].st = "ok" THEN ReadRLPUint(buf, w[n].off)
                                       ELSE w[n]
    BY WalkDef
  <1> DEFINE T == {i \in 0..n : w[i].st = "err" \/ (w[i].st = "ok" /\ w[i].off \in Nat)}
  <1>2. 0 \in T
    <2>1. w[0] = EnterRLPList(buf, 0)
      BY <1>1 DEF Walks
    <2>2. QED
      BY <2>1, EnterClasses DEF Error, Ok
  <1>3. ASSUME NEW i \in 0..(n - 1), i \in T PROVE i + 1 \in T
    <2>1. i \in 0..n /\ i + 1 \in 1..n /\ (i + 1) - 1 = i /\ i + 1 \in 0..n
      OBVIOUS
    <2>2. w[i + 1] = IF w[i].st = "ok" THEN SkipRLPItem(buf, w[i].off) ELSE w[i]
      BY <1>1, <2>1 DEF Walks
    <2>3. CASE w[i].st = "err"
      BY <2>1, <2>2, <2>3
    <2>4. CASE w[i].st = "ok" /\ w[i].off \in Nat
      <3>1. w[i + 1] = SkipRLPItem(buf, w[i].off)
        BY <2>2, <2>4
      <3>2. QED
        BY <2>1, <2>4, <3>1, SkipForward DEF Error, Ok
    <2>5. QED
      BY <1>3, <2>3, <2>4
  <1>4. n \in T
    <2> HIDE DEF T
    <2>1. \A i \in 0..n : i \in T
      BY <1>2, <1>3, Induction
    <2>2. QED
      BY <2>1
  <1>5. ASSUME NEW off \in Nat PROVE ReadRLPUint(buf, off).st # "panic"
    <2>1. CASE HasByte(buf, off)
      BY <2>1 DEF ReadRLPUint, Ok, Error
    <2>2. CASE ~HasByte(buf, off)
      <3>1. off >= Len(buf)
        BY <2>2 DEF HasByte
      <3>2. QED
        BY <2>2, <3>1 DEF ReadRLPUint, NoByte, Error
    <2>3. QED
      BY <2>1, <2>2
  <1>6. QED
    BY <1>1, <1>4, <1>5

-----------------------------------------------------------------------------
(* The datadir.                                                            *)

LEMMA InitDatadir == Init => DatadirInv /\ req \in RequestType
  <1>1. SUFFICES ASSUME Init PROVE DatadirInv /\ req \in RequestType
    OBVIOUS
  <1>2. PICK c \in Cases : dd = c.dd /\ req = c.req
    BY <1>1 DEF Init
  <1>3. c.dd \in DatadirType /\ c.req \in RequestType /\ WellFormed(c.dd)
    BY InspectAssumption DEF CaseType
  <1>4. QED
    BY <1>2, <1>3 DEF DatadirInv, DatadirType

LEMMA NewFieldsType ==
  /\ NewFields \in Seq(Seq(Byte)) /\ Len(NewFields) = TimeIndex
  /\ \A i \in 1..TimeIndex : IsItem(NewFields[i])
  <1>1. TimeIndex \in Nat
    BY InspectAssumption, UintSize DEF Number
  <1>2. \A i \in 1..TimeIndex : EncodeUint(i) \in Seq(Byte) /\ IsItem(EncodeUint(i))
    BY <1>1, UintType
  <1>3. NewFields \in [1..TimeIndex -> Seq(Byte)] /\ \A i \in 1..TimeIndex : IsItem(NewFields[i])
    BY <1>2 DEF NewFields
  <1>4. QED
    BY <1>1, <1>3

(* The items of a header, and of bodies.meta.                              *)
LEMMA HeaderItems ==
  ASSUME NEW before \in Seq(Seq(Byte)), NEW time \in Number
  PROVE  LET items == before \o <<EncodeUint(time), EncodeUint(1)>> IN
         /\ items \in Seq(Seq(Byte)) /\ Len(items) = Len(before) + 2
         /\ \A i \in 1..Len(before) : items[i] = before[i]
         /\ items[Len(before) + 1] = EncodeUint(time)
         /\ Header(before, time) = EncodeList(items) /\ Header(before, time) \in Seq(Byte)
  <1> DEFINE a == EncodeUint(time)
             b == EncodeUint(1)
             two == <<a, b>>
             items == before \o two
  <1>1. a \in Seq(Byte) /\ b \in Seq(Byte)
    BY UintType, UintSize DEF Number
  <1>2. Header(before, time) = EncodeList(items)
    BY DEF Header
  <1> HIDE DEF a, b
  <1>3. two \in Seq(Seq(Byte)) /\ Len(two) = 2 /\ two[1] = a
    BY <1>1
  <1> HIDE DEF two
  <1> DEFINE S == Seq(Byte)
  <1> HIDE DEF S
  <1>10. before \in Seq(S) /\ two \in Seq(S) /\ Len(before) \in Nat
    BY <1>3 DEF S
  <1>11. /\ items \in Seq(S) /\ Len(items) = Len(before) + Len(two)
         /\ \A i \in 1..Len(before) : items[i] = before[i]
         /\ items[Len(before) + 1] = two[1]
    <2>1. /\ items \in Seq(S) /\ Len(items) = Len(before) + Len(two)
          /\ \A i \in 1..(Len(before) + Len(two)) :
               items[i] = IF i <= Len(before) THEN before[i] ELSE two[i - Len(before)]
      BY <1>10, ConcatProperties
    <2> HIDE DEF items
    <2> DEFINE k == Len(before)
    <2>2. k \in Nat /\ (k + 1) - k = 1 /\ k + 1 \in 1..(k + Len(two)) /\ ~(k + 1 <= k)
      BY <1>3, <1>10
    <2>3. \A i \in 1..k : i \in 1..(k + Len(two)) /\ i <= k
      BY <1>3, <1>10
    <2> HIDE DEF k
    <2>4. items[k + 1] = two[1]
      BY <2>1, <2>2 DEF k
    <2>5. \A i \in 1..k : items[i] = before[i]
      BY <2>1, <2>3 DEF k
    <2>6. QED
      BY <2>1, <2>4, <2>5 DEF k
  <1>4. /\ items \in Seq(Seq(Byte)) /\ Len(items) = Len(before) + 2
        /\ \A i \in 1..Len(before) : items[i] = before[i]
        /\ items[Len(before) + 1] = a
    BY <1>3, <1>11 DEF S
  <1> HIDE DEF items
  <1>5. EncodeList(items) \in Seq(Byte)
    BY <1>4, ListType
  <1>6. QED
    BY <1>2, <1>4, <1>5 DEF items, two, a, b

LEMMA MetaItems ==
  ASSUME NEW tail \in Number, NEW whole \in {MetaV1(tail), MetaV2(tail)}
  PROVE  \E items \in Seq(Seq(Byte)) :
           /\ whole = EncodeList(items) /\ whole \in Seq(Byte)
           /\ 1 \in 0..(Len(items) - 1)
           /\ IsItem(items[1]) /\ items[1 + 1] = EncodeUint(tail)
  <1> DEFINE a == EncodeUint(1)
             b == EncodeUint(2)
             c == EncodeUint(tail)
             d == EncodeUint(Base - 1)
  <1>1. /\ a \in Seq(Byte) /\ IsItem(a) /\ b \in Seq(Byte) /\ IsItem(b)
        /\ c \in Seq(Byte) /\ d \in Seq(Byte)
    <2>1. tail \in Nat /\ Base - 1 \in Nat
      BY UintPositive, Sizes DEF Number
    <2>2. QED
      BY <2>1, UintType
  <1>2. whole = EncodeList(<<a, c>>) \/ whole = EncodeList(<<b, c, d>>)
    BY DEF MetaV1, MetaV2
  <1> HIDE DEF a, b, c, d
  <1>3. CASE whole = EncodeList(<<a, c>>)
    <2> DEFINE items == <<a, c>>
    <2>1. /\ items \in Seq(Seq(Byte)) /\ Len(items) = 2
          /\ items[1] = a /\ items[1 + 1] = c
      BY <1>1
    <2> HIDE DEF items
    <2>2. whole = EncodeList(items)
      BY <1>3 DEF items
    <2>3. whole \in Seq(Byte) /\ 1 \in 0..(Len(items) - 1)
      BY <2>1, <2>2, ListType
    <2>4. QED
      BY <1>1, <2>1, <2>2, <2>3 DEF c
  <1>4. CASE whole = EncodeList(<<b, c, d>>)
    <2> DEFINE items == <<b, c, d>>
    <2>1. /\ items \in Seq(Seq(Byte)) /\ Len(items) = 3
          /\ items[1] = b /\ items[1 + 1] = c
      BY <1>1
    <2> HIDE DEF items
    <2>2. whole = EncodeList(items)
      BY <1>4 DEF items
    <2>3. whole \in Seq(Byte) /\ 1 \in 0..(Len(items) - 1)
      BY <2>1, <2>2, ListType
    <2>4. QED
      BY <1>1, <2>1, <2>2, <2>3 DEF c
  <1>5. QED
    BY <1>2, <1>3, <1>4

LEMMA AdvanceDatadir ==
  ASSUME DatadirInv, NodeAdvance
  PROVE  /\ DatadirInv'
         /\ dd'.scheme = dd.scheme /\ dd'.chain = dd.chain /\ dd'.damage = dd.damage
  <1>1. PICK tail \in {dd.tail, dd.head}, tx \in {dd.txTail, dd.head} :
          dd' = [dd EXCEPT !.head = @ + 1, !.time = dd.head,
                           !.fields = NewFields, !.header = Header(NewFields, dd.head),
                           !.tail = tail, !.meta = MetaV2(tail),
                           !.txTail = tx, !.txKey = tx > 0]
    BY DEF NodeAdvance
  <1>2. /\ dd'.head = dd.head + 1 /\ dd'.time = dd.head /\ dd'.tail = tail /\ dd'.txTail = tx
        /\ dd'.txKey = (tx > 0)
        /\ dd'.fields = NewFields /\ dd'.header = Header(NewFields, dd.head)
        /\ dd'.meta = MetaV2(tail)
        /\ dd'.scheme = dd.scheme /\ dd'.chain = dd.chain /\ dd'.damage = dd.damage
        /\ dd'.root = dd.root /\ dd'.id = dd.id /\ dd'.triedb = dd.triedb
        /\ DOMAIN dd' = DOMAIN dd
    BY <1>1 DEF DatadirInv
  <1>3. dd.head \in Nat /\ dd.tail \in Nat /\ dd.txTail \in Nat /\ dd.head \in Number
    BY UintPositive DEF DatadirInv, Number
  <1>4. tail <= dd.head + 1 /\ tx <= dd.head + 1 /\ tail \in Number /\ tx \in Number
    BY <1>3 DEF DatadirInv, WellFormed
  <1>5. dd'.head \in Number
    BY <1>2 DEF NodeAdvance
  <1>6. dd'.header \in Seq(Byte) /\ Fits(dd'.header)
    <2>1. Fits(Header(NewFields, dd.head))
      BY <1>3, InspectAssumption
    <2>2. Header(NewFields, dd.head) \in Seq(Byte)
      BY <1>3, HeaderItems, NewFieldsType
    <2>3. QED
      BY <1>2, <2>1, <2>2
  <1>7. dd'.meta \in Seq(Byte) /\ Fits(dd'.meta) /\ dd'.meta # None
    BY <1>2, <1>4, MetaItems, InspectAssumption
  <1>8. /\ dd'.fields \in Seq(Seq(Byte)) /\ Len(dd'.fields) = TimeIndex
        /\ \A i \in 1..TimeIndex : IsItem(dd'.fields[i])
    BY <1>2, NewFieldsType
  <1>9. /\ dd'.header = Header(dd'.fields, dd'.time)
        /\ dd'.meta \in {MetaV1(dd'.tail), MetaV2(dd'.tail)}
    BY <1>2
  <1>10. WellFormed(dd')
    <2>1. /\ dd'.scheme = "path" <=> dd'.root \/ dd'.id
          /\ dd'.triedb => dd'.scheme = "path"
      BY <1>2 DEF DatadirInv, WellFormed
    <2>2. dd'.tail <= dd'.head /\ dd'.txTail <= dd'.head
      BY <1>2, <1>4
    <2>3. /\ Stored(dd'.header, Header(dd'.fields, dd'.time), dd'.damage)
          /\ Fits(Header(dd'.fields, dd'.time))
      BY <1>6, <1>9 DEF Stored
    <2>4. \E whole \in {MetaV1(dd'.tail), MetaV2(dd'.tail)} :
            Fits(whole) /\ Stored(dd'.meta, whole, dd'.damage)
      BY <1>7, <1>9 DEF Stored
    <2>5. QED
      BY <1>6, <1>7, <1>8, <2>1, <2>2, <2>3, <2>4, Zenon DEF WellFormed
  <1>11. QED
    BY <1>2, <1>3, <1>4, <1>5, <1>6, <1>7, <1>8, <1>10 DEF DatadirInv

LEMMA StopDatadir ==
  ASSUME DatadirInv, NodeStop
  PROVE  /\ DatadirInv'
         /\ dd'.scheme = dd.scheme /\ dd'.chain = dd.chain /\ dd'.damage = dd.damage
         /\ dd'.head = dd.head /\ dd'.tail = dd.tail /\ dd'.txTail = dd.txTail
         /\ dd'.txKey = dd.txKey
  <1>1. dd' = [dd EXCEPT !.triedb = @ \/ dd.scheme = "path"]
    BY DEF NodeStop
  <1>2. /\ dd'.scheme = dd.scheme /\ dd'.chain = dd.chain /\ dd'.damage = dd.damage
        /\ dd'.head = dd.head /\ dd'.tail = dd.tail /\ dd'.txTail = dd.txTail
        /\ dd'.txKey = dd.txKey /\ dd'.time = dd.time
        /\ dd'.root = dd.root /\ dd'.id = dd.id
        /\ dd'.fields = dd.fields /\ dd'.header = dd.header /\ dd'.meta = dd.meta
        /\ DOMAIN dd' = DOMAIN dd /\ dd'.triedb = (dd.triedb \/ dd.scheme = "path")
    BY <1>1 DEF DatadirInv
  <1>3. dd'.triedb \in BOOLEAN /\ (dd'.triedb => dd'.scheme = "path")
    BY <1>2 DEF DatadirInv, WellFormed
  <1>4. WellFormed(dd')
    BY <1>2, <1>3, Zenon DEF DatadirInv, WellFormed
  <1>5. QED
    BY <1>2, <1>3, <1>4 DEF DatadirInv

(* Only a node writes to the datadir.                                      *)
LEMMA StepDatadir ==
  ASSUME DatadirInv, [Next]_vars
  PROVE  DatadirInv'
  <1>1. CASE NodeAdvance
    BY <1>1, AdvanceDatadir
  <1>2. CASE NodeStop
    BY <1>2, StopDatadir
  <1>3. CASE UNCHANGED dd
    BY <1>3 DEF DatadirInv, WellFormed
  <1>4. QED
    BY <1>1, <1>2, <1>3
    DEF Next, Tool, Node, InspectDatadir, Wire, ReadChainTail, ReadTxTail, Preflight,
        MakeManifest, UploadParts, NodeStart, vars

LEMMA StepReq == ASSUME [Next]_vars PROVE req' = req
  BY DEF Next, Tool, Node, InspectDatadir, Wire, ReadChainTail, ReadTxTail, Preflight,
         MakeManifest, UploadParts, NodeStart, NodeAdvance, NodeStop, vars

-----------------------------------------------------------------------------
(* What is read of the datadir.                                            *)

(* Of bytes that geth wrote, and that may be cut short since.              *)
LEMMA StoredRead ==
  ASSUME NEW whole, NEW items, NEW n, NEW v, HasField(whole, items, n, v),
         NEW b \in Seq(Byte), NEW damage, Stored(b, whole, damage)
  PROVE  /\ ReadItem(b, n).st = "ok" => ReadItem(b, n).val = v
         /\ "bytes" \notin damage => ReadItem(b, n).st = "ok"
         /\ ReadItem(b, n).st # "panic"
  <1>1. /\ ReadItem(whole, n).st = "ok" /\ ReadItem(whole, n).val = v
        /\ \A p \in Seq(Byte) : Cut(p, whole) =>
             ReadItem(p, n).st = "err" \/ ReadItem(p, n) = ReadItem(whole, n)
    BY ReadList
  <1>2. CASE b = whole
    BY <1>1, <1>2
  <1>3. CASE b # whole
    <2>1. PICK k \in 0..Len(whole) : b = SubSeq(whole, 1, k)
      BY <1>3 DEF Stored
    <2>2. Cut(b, whole)
      BY <2>1 DEF Cut
    <2>3. "bytes" \in damage
      BY <1>3 DEF Stored
    <2>4. QED
      BY <1>1, <2>2, <2>3
  <1>4. QED
    BY <1>2, <1>3

LEMMA HeaderRead ==
  ASSUME DatadirInv
  PROVE  LET r == ReadHeaderTimestamp(dd) IN
         /\ r.st = "ok" => "garbage" \in dd.damage \/ r.val = dd.time
         /\ dd.damage \cap {"bytes", "garbage"} = {} => r.st = "ok"
         /\ r.st = "panic" => /\ "garbage" \in dd.damage
                              /\ \E i \in DOMAIN dd.header : WideLength(dd.header[i])
  <1> DEFINE r == ReadHeaderTimestamp(dd)
             items == dd.fields \o <<EncodeUint(dd.time), EncodeUint(1)>>
             whole == Header(dd.fields, dd.time)
  <1>1. r = ReadItem(dd.header, TimeIndex) /\ dd.header \in Seq(Byte) /\ Fits(dd.header)
    BY DEF ReadHeaderTimestamp, DatadirInv, WellFormed
  <1>2. TimeIndex \in Nat
    BY InspectAssumption, UintSize DEF Number
  <1>3. CASE "garbage" \notin dd.damage
    <2>1. /\ Len(dd.fields) = TimeIndex /\ \A i \in 1..TimeIndex : IsItem(dd.fields[i])
          /\ Fits(whole) /\ Stored(dd.header, whole, dd.damage)
      BY <1>3 DEF DatadirInv, WellFormed
    <2>2. dd.fields \in Seq(Seq(Byte)) /\ dd.time \in Number
      BY DEF DatadirInv
    <2>3. /\ items \in Seq(Seq(Byte)) /\ Len(items) = TimeIndex + 2
          /\ \A i \in 1..TimeIndex : items[i] = dd.fields[i]
          /\ items[TimeIndex + 1] = EncodeUint(dd.time)
          /\ whole = EncodeList(items) /\ whole \in Seq(Byte)
      BY <2>1, <2>2, HeaderItems
    <2> HIDE DEF items, whole, r
    <2>4. TimeIndex \in 0..(Len(items) - 1) /\ \A i \in 1..TimeIndex : IsItem(items[i])
      BY <1>2, <2>1, <2>3
    <2>5. /\ r.st = "ok" => r.val = dd.time
          /\ "bytes" \notin dd.damage => r.st = "ok"
          /\ r.st # "panic"
      <3>1. HasField(whole, items, TimeIndex, dd.time)
        BY <2>1, <2>2, <2>3, <2>4 DEF HasField
      <3>2. QED
        BY <1>1, <2>1, <3>1, StoredRead
    <2>6. QED
      BY <2>5 DEF r
  <1>4. CASE "garbage" \in dd.damage
    <2>1. r.st = "panic" => ~Narrow(dd.header)
      BY <1>1, <1>2, NoPanic
    <2>2. ~Narrow(dd.header) => \E i \in DOMAIN dd.header : WideLength(dd.header[i])
      BY <1>1 DEF Narrow
    <2>3. QED
      BY <1>4, <2>1, <2>2
  <1>5. QED
    BY <1>3, <1>4

LEMMA TailRead ==
  ASSUME DatadirInv
  PROVE  LET r == ChainFreezerTail(dd) IN
         /\ r.st = "ok" => "garbage" \in dd.damage \/ r.val = dd.tail
         /\ dd.damage \cap {"bytes", "garbage"} = {} => r.st = "ok"
         /\ r.st = "panic" => /\ "garbage" \in dd.damage
                              /\ \E i \in DOMAIN dd.meta : WideLength(dd.meta[i])
  <1> DEFINE r == ChainFreezerTail(dd)
  <1>1. CASE dd.meta = None
    <2>1. r = Ok(0, 0)
      BY <1>1 DEF ChainFreezerTail
    <2>2. "garbage" \notin dd.damage => dd.tail = 0
      BY <1>1 DEF DatadirInv, WellFormed
    <2> HIDE DEF r
    <2>3. QED
      BY <2>1, <2>2 DEF Ok, r
  <1>2. CASE dd.meta # None
    <2>1. r = ReadItem(dd.meta, 1) /\ dd.meta \in Seq(Byte) /\ Fits(dd.meta)
      BY <1>2 DEF ChainFreezerTail, DatadirInv, WellFormed
    <2>2. CASE "garbage" \notin dd.damage
      <3>1. PICK whole \in {MetaV1(dd.tail), MetaV2(dd.tail)} :
              Fits(whole) /\ Stored(dd.meta, whole, dd.damage)
        BY <1>2, <2>2 DEF DatadirInv, WellFormed
      <3>2. dd.tail \in Number
        BY DEF DatadirInv
      <3>3. PICK items \in Seq(Seq(Byte)) :
              /\ whole = EncodeList(items) /\ whole \in Seq(Byte)
              /\ 1 \in 0..(Len(items) - 1)
              /\ IsItem(items[1]) /\ items[1 + 1] = EncodeUint(dd.tail)
        BY <3>2, MetaItems
      <3>4. \A i \in 1..1 : IsItem(items[i])
        BY <3>3
      <3> HIDE DEF r
      <3>5. /\ r.st = "ok" => r.val = dd.tail
            /\ "bytes" \notin dd.damage => r.st = "ok"
            /\ r.st # "panic"
        <4>1. HasField(whole, items, 1, dd.tail)
          BY <3>1, <3>2, <3>3, <3>4 DEF HasField
        <4>2. QED
          BY <2>1, <3>1, <4>1, StoredRead
      <3>6. QED
        BY <3>5 DEF r
    <2>3. CASE "garbage" \in dd.damage
      <3>1. r.st = "panic" => ~Narrow(dd.meta)
        BY <2>1, NoPanic
      <3>2. ~Narrow(dd.meta) => \E i \in DOMAIN dd.meta : WideLength(dd.meta[i])
        BY <2>1 DEF Narrow
      <3>3. QED
        BY <2>3, <3>1, <3>2
    <2>4. QED
      BY <2>2, <2>3
  <1>3. QED
    BY <1>1, <1>2

LEMMA DatadirReads == DatadirInv => ReadsTheField
  BY HeaderRead, TailRead DEF ReadsTheField

(* The timestamp of the head and the tail of the freezer are read right,   *)
(* for every encoding of the fields before them and every integer; bytes   *)
(* that are cut short give an error or the field itself, and no bytes make *)
(* the tool index below a buffer unless they hold a length of eight bytes. *)
THEOREM ReadsTheFieldTheorem == Spec => []ReadsTheField
  <1>1. Init => DatadirInv
    BY InitDatadir
  <1>2. DatadirInv /\ [Next]_vars => DatadirInv'
    BY StepDatadir
  <1>3. QED
    BY <1>1, <1>2, DatadirReads, PTL DEF Spec

-----------------------------------------------------------------------------
(* What was read, and what the manifest says of it.                        *)

(* Inspect returns what the datadir holds, and nothing while a node runs.  *)
LEMMA InspectReads ==
  ASSUME DatadirInv, InspectResult.st = "ok"
  PROVE  /\ InspectResult.val.block = dd.head
         /\ InspectResult.val.chain = dd.chain
         /\ InspectResult.val.scheme = dd.scheme
         /\ InspectResult.val.hash = Hash(dd)
         /\ InspectResult.val.time = ReadHeaderTimestamp(dd).val
         /\ ReadHeaderTimestamp(dd).st = "ok"
  <1> DEFINE time == ReadHeaderTimestamp(dd)
             val  == [ block |-> dd.head, hash |-> Hash(dd), time |-> time.val,
                       chain |-> dd.chain, scheme |-> ReadStateScheme(dd) ]
  <1>1. InspectResult = [st |-> "ok", val |-> val] /\ time.st = "ok"
    <2> HIDE DEF val
    <2>1. Error.st # "ok"
      BY DEF Error
    <2>2. InspectResult =
            IF ~Openable \/ dd.damage \cap {"LastBlock", "number", "header"} # {} THEN Error
            ELSE IF time.st # "ok" THEN time
            ELSE IF "config" \in dd.damage THEN Error
            ELSE [st |-> "ok", val |-> val]
      BY DEF InspectResult, val
    <2> QED BY <2>1, <2>2
  <1>2. ReadStateScheme(dd) = dd.scheme
    BY DEF DatadirInv, WellFormed, ReadStateScheme
  <1>3. QED
    BY <1>1, <1>2

LEMMA TruthInspect ==
  ASSUME DatadirInv, TruthInv, InspectDatadir
  PROVE  TruthInv'
  <1>1. info' = InspectResult /\ dd' = dd /\ req' = req /\ ran' = ran
    BY DEF InspectDatadir
  <1>2. Inspected' <=> InspectResult.st = "ok"
    BY <1>1 DEF Inspected
  <1>3. pc' # "inspect"
    BY DEF InspectDatadir
  <1>4. Inspected' => /\ info'.val.scheme = dd'.scheme
                      /\ info'.val.block = dd'.head /\ info'.val.chain = dd'.chain
    BY <1>1, <1>2, InspectReads
  <1>5. pc' \notin {"inspect", "err", "panic"} /\ ~Inspected' => ~NeedAutoDetect'
    BY <1>1, <1>2 DEF InspectDatadir, NeedAutoDetect
  <1>6. QED
    BY <1>3, <1>4, <1>5 DEF TruthInv

LEMMA TruthStep ==
  ASSUME DatadirInv, TruthInv, [Next]_vars
  PROVE  TruthInv'
  <1>1. CASE InspectDatadir
    BY <1>1, TruthInspect
  <1>2. CASE Wire \/ ReadChainTail \/ ReadTxTail \/ Preflight \/ MakeManifest \/ UploadParts
    <2>1. info' = info /\ dd' = dd /\ req' = req /\ ran' = ran
      BY <1>2 DEF Wire, ReadChainTail, ReadTxTail, Preflight, MakeManifest, UploadParts
    <2>2. pc \notin {"inspect", "err", "panic"} /\ pc' # "inspect"
      BY <1>2 DEF Wire, ReadChainTail, ReadTxTail, Preflight, MakeManifest, UploadParts
    <2>3. Inspected' = Inspected /\ NeedAutoDetect' = NeedAutoDetect
      BY <2>1 DEF Inspected, NeedAutoDetect
    <2>4. QED
      BY <2>1, <2>2, <2>3 DEF TruthInv
  <1>3. CASE Node \/ UNCHANGED vars
    <2>1. info' = info /\ req' = req /\ pc' = pc /\ caps' = caps /\ manifest' = manifest
      BY <1>3 DEF Node, NodeStart, NodeAdvance, NodeStop, vars
    <2>2. dd'.scheme = dd.scheme /\ dd'.chain = dd.chain
      BY <1>3, AdvanceDatadir, StopDatadir DEF Node, NodeStart, vars
    <2>3. pc # "inspect" /\ ~ran' => ~ran /\ dd'.head = dd.head
      <3>1. CASE NodeAdvance
        BY <3>1 DEF NodeAdvance
      <3>2. CASE NodeStop
        BY <3>2, StopDatadir DEF NodeStop
      <3>3. CASE NodeStart \/ UNCHANGED vars
        BY <3>3 DEF NodeStart, vars
      <3>4. QED
        BY <1>3, <3>1, <3>2, <3>3 DEF Node
    <2>4. Inspected' = Inspected /\ NeedAutoDetect' = NeedAutoDetect
      BY <2>1 DEF Inspected, NeedAutoDetect
    <2>5. QED
      BY <2>1, <2>2, <2>3, <2>4 DEF TruthInv
  <1>4. QED
    BY <1>1, <1>2, <1>3 DEF Next, Tool

(* What is made of it.                                                     *)
LEMMA ManifestTruth ==
  ASSUME DatadirInv, TruthInv, MakeManifest
  PROVE  TruthfulManifest'
  <1>1. /\ manifest'.name = IF req.name THEN None ELSE <<Chain, req.role, Block>>
        /\ manifest'.block = Block /\ manifest'.chain = Chain
        /\ manifest'.scheme = IF Inspected THEN info.val.scheme ELSE DetectStateScheme(dd)
    BY DEF MakeManifest
  <1>2. dd' = dd /\ req' = req /\ ran' = ran /\ info' = info /\ Inspected' = Inspected
    BY DEF MakeManifest, Inspected
  <1>3. pc = "scheme"
    BY DEF MakeManifest
  <1>4. ~ran => /\ req.block = None => Block = dd.head
                /\ req.chain = None => Chain = dd.chain
    BY <1>3 DEF TruthInv, NeedAutoDetect, Block, Chain, HeadBlock, ChainID
  <1>5. Inspected => manifest'.scheme = dd.scheme
    BY <1>1 DEF TruthInv
  <1>6. ~Inspected /\ manifest'.scheme = "path" => dd.scheme = "path"
    BY <1>1 DEF DetectStateScheme, DatadirInv, WellFormed
  <1>7. QED
    BY <1>1, <1>2, <1>4, <1>5, <1>6 DEF TruthfulManifest

LEMMA ManifestTruthStep ==
  ASSUME DatadirInv, TruthInv, TruthfulManifest, [Next]_vars
  PROVE  TruthfulManifest'
  <1>1. CASE MakeManifest
    BY <1>1, ManifestTruth
  <1>2. CASE InspectDatadir
    <2>1. manifest' = None
      BY <1>2 DEF InspectDatadir, TruthInv
    <2>2. QED
      BY <2>1 DEF TruthfulManifest
  <1>3. CASE UNCHANGED <<dd, req, info, ran, manifest>>
    BY <1>3 DEF TruthfulManifest, Inspected
  <1>4. CASE Node
    <2>1. info' = info /\ req' = req /\ manifest' = manifest /\ Inspected' = Inspected
      BY <1>4 DEF Node, NodeStart, NodeAdvance, NodeStop, Inspected
    <2>2. dd'.scheme = dd.scheme /\ dd'.chain = dd.chain
      BY <1>4, AdvanceDatadir, StopDatadir DEF Node, NodeStart
    <2>3. manifest # None /\ ~ran' => ~ran /\ dd'.head = dd.head
      <3>1. CASE NodeAdvance
        BY <3>1 DEF NodeAdvance, TruthInv
      <3>2. CASE NodeStop
        BY <3>2, StopDatadir DEF NodeStop
      <3>3. CASE NodeStart
        BY <3>3 DEF NodeStart
      <3>4. QED
        BY <1>4, <3>1, <3>2, <3>3 DEF Node
    <2>4. QED
      BY <2>1, <2>2, <2>3 DEF TruthfulManifest
  <1>5. QED
    BY <1>1, <1>2, <1>3, <1>4
    DEF Next, Tool, Wire, ReadChainTail, ReadTxTail, Preflight, UploadParts, vars

LEMMA InitTruth == Init => TruthInv /\ TruthfulManifest
  BY DEF Init, TruthInv, TruthfulManifest, Inspected, Error

(* What no flag overrides is the truth about the datadir, whatever flags   *)
(* and damage there are, and a state scheme is never claimed wrongly.      *)
THEOREM TruthTheorem == Spec => []TruthfulManifest
  <1>1. Init => DatadirInv /\ TruthInv /\ TruthfulManifest
    BY InitDatadir, InitTruth
  <1>2. DatadirInv /\ TruthInv /\ TruthfulManifest /\ [Next]_vars =>
          (DatadirInv /\ TruthInv /\ TruthfulManifest)'
    BY StepDatadir, TruthStep, ManifestTruthStep
  <1>3. QED
    BY <1>1, <1>2, PTL DEF Spec

-----------------------------------------------------------------------------
(* The block, its hash and its time.                                       *)

LEMMA TimeIsRight ==
  ASSUME DatadirInv, Parseable, ReadHeaderTimestamp(dd).st = "ok"
  PROVE  ReadHeaderTimestamp(dd).val = dd.time
  BY DatadirReads DEF ReadsTheField, Parseable

LEMMA TailIsRight ==
  ASSUME DatadirInv, Parseable, ChainFreezerTail(dd).st = "ok"
  PROVE  ChainFreezerTail(dd).val = dd.tail
  BY DatadirReads DEF ReadsTheField, Parseable

LEMMA StepParseable == ASSUME DatadirInv, [Next]_vars PROVE Parseable' = Parseable
  <1>1. dd'.damage = dd.damage
    BY AdvanceDatadir, StopDatadir
    DEF Next, Tool, Node, InspectDatadir, Wire, ReadChainTail, ReadTxTail, Preflight,
        MakeManifest, UploadParts, NodeStart, vars
  <1>2. QED
    BY <1>1 DEF Parseable

LEMMA HashStep ==
  ASSUME DatadirInv, HashInv, [Next]_vars
  PROVE  HashInv'
  <1>1. CASE InspectDatadir
    <2>1. info' = InspectResult /\ dd' = dd
      BY <1>1 DEF InspectDatadir
    <2>2. Inspected' /\ Parseable' => InspectResult.st = "ok" /\ Parseable
      BY <2>1, StepParseable DEF Inspected
    <2>3. Hash(dd) \in HashType
      BY DEF Hash, HashType, DatadirInv
    <2>4. ASSUME Inspected', Parseable'
          PROVE  /\ info'.val.block = dd.head /\ info'.val.time = dd.time
                 /\ info'.val.hash = Hash(dd)
      BY <2>1, <2>2, <2>4, InspectReads, TimeIsRight
    <2>5. QED
      BY <2>3, <2>4 DEF HashInv, Hash
  <1>2. CASE UNCHANGED info
    BY <1>2, StepParseable DEF HashInv, Inspected
  <1>3. QED
    BY <1>1, <1>2
    DEF Next, Tool, Node, Wire, ReadChainTail, ReadTxTail, Preflight,
        MakeManifest, UploadParts, NodeStart, NodeAdvance, NodeStop, vars

LEMMA TravelStep ==
  ASSUME DatadirInv, HashInv, HeadTravelsTogether, [Next]_vars
  PROVE  HeadTravelsTogether'
  <1>1. CASE MakeManifest
    <2>1. /\ manifest'.block = Block
          /\ manifest'.hash = HeadHash
          /\ manifest'.time = HeadTimestamp
      BY <1>1 DEF MakeManifest
    <2>2. CASE HeadApplies /\ Parseable
      <3>1. Inspected /\ info.val.block = Block
        BY <2>2 DEF HeadApplies, HeadBlock
      <3>2. /\ info.val.hash = [number |-> Block, time |-> info.val.time]
            /\ info.val.hash \in HashType
        BY <2>2, <3>1 DEF HashInv
      <3>3. /\ manifest'.hash = [number |-> Block, time |-> info.val.time]
            /\ manifest'.time = AsInt(info.val.time)
        BY <2>1, <2>2, <3>2 DEF HeadHash, HeadTimestamp
      <3>4. manifest'.hash # None
        BY <3>2, <3>3, InspectAssumption
      <3>5. IF 2 * info.val.time < Uint64
            THEN AsInt(info.val.time) = info.val.time
            ELSE AsInt(info.val.time) < 0
        <4>1. info.val.time \in Number
          BY <3>2 DEF HashType
        <4>2. QED
          BY <4>1, AsIntNumber
      <3>6. QED
        BY <2>1, <3>3, <3>4, <3>5 DEF HeadTravelsTogether
    <2>3. CASE ~HeadApplies
      BY <2>1, <2>3 DEF HeadTravelsTogether, HeadHash, HeadTimestamp
    <2>4. CASE ~Parseable
      BY <2>4, StepParseable DEF HeadTravelsTogether
    <2>5. QED
      BY <2>2, <2>3, <2>4
  <1>2. CASE UNCHANGED manifest
    BY <1>2, StepParseable DEF HeadTravelsTogether
  <1>3. QED
    BY <1>1, <1>2
    DEF Next, Tool, Node, InspectDatadir, Wire, ReadChainTail, ReadTxTail, Preflight,
        UploadParts, NodeStart, NodeAdvance, NodeStop, vars

(* A manifest never pairs a block with the hash or the time of another,    *)
(* whatever --block says and whatever a node does meanwhile.               *)
THEOREM TravelTheorem == Spec => []HeadTravelsTogether
  <1>1. Init => DatadirInv /\ HashInv /\ HeadTravelsTogether
    <2>1. Init => HashInv /\ HeadTravelsTogether
      BY DEF Init, HashInv, Inspected, Error, HeadTravelsTogether
    <2>2. QED
      BY <2>1, InitDatadir
  <1>2. /\ DatadirInv /\ HashInv /\ HeadTravelsTogether
        /\ [Next]_vars
        => (DatadirInv /\ HashInv /\ HeadTravelsTogether)'
    BY StepDatadir, HashStep, TravelStep
  <1>3. QED
    BY <1>1, <1>2, PTL DEF Spec

-----------------------------------------------------------------------------
(* The capabilities.                                                       *)

LEMMA OldestIs ==
  ASSUME NEW S \in SUBSET Int, NEW m \in S, \A x \in S : m <= x
  PROVE  Oldest(S) = m
  <1>1. \A n \in S : (\A x \in S : n <= x) => n = m
    OBVIOUS
  <1>2. QED
    BY <1>1 DEF Oldest

LEMMA SmallUint ==
  ASSUME NEW n \in Number
  PROVE  AsUint(n) = n
  <1> DEFINE u == Uint64
  <1>1. u \in Nat \ {0} /\ n \in 0..(u - 1) /\ AsUint(n) = n % u
    BY UintSize DEF Number, AsUint
  <1>2. QED
    <2> HIDE DEF u
    <2> QED BY <1>1

LEMMA HeadNat == ASSUME DatadirInv
                 PROVE  dd.head \in Nat /\ dd.tail \in Nat /\ dd.txTail \in Nat
  BY UintSize DEF DatadirInv, Number

LEMMA BlocksExact == ASSUME DatadirInv PROVE dd.tail = Oldest(ServedBlocks)
  <1>1. dd.tail <= dd.head
    BY DEF DatadirInv, WellFormed
  <1>2. dd.tail \in ServedBlocks /\ ServedBlocks \in SUBSET Int
    BY <1>1, HeadNat DEF ServedBlocks
  <1>3. \A n \in ServedBlocks : dd.tail <= n
    BY DEF ServedBlocks
  <1>4. QED
    BY <1>2, <1>3, OldestIs

LEMMA TxExact ==
  ASSUME DatadirInv
  PROVE  Larger(dd.tail, IF dd.txKey THEN dd.txTail ELSE 0) = Oldest(ServedTx)
  <1> DEFINE m == Larger(dd.tail, IF dd.txKey THEN dd.txTail ELSE 0)
  <1>1. dd.tail <= dd.head /\ dd.txTail <= dd.head
    BY DEF DatadirInv, WellFormed
  <1>2. CASE dd.txKey
    <2>1. m = Larger(dd.tail, dd.txTail)
      BY <1>2
    <2>2. ServedTx = {n \in 0..dd.head : n >= dd.tail /\ n >= dd.txTail}
      BY <1>2 DEF ServedTx, ServedBlocks
    <2>3. m \in ServedTx /\ ServedTx \in SUBSET Int /\ \A n \in ServedTx : m <= n
      <3> HIDE DEF m
      <3> QED BY <1>1, <2>1, <2>2, HeadNat DEF Larger
    <2>4. QED
      BY <2>3, OldestIs
  <1>3. CASE ~dd.txKey
    <2>1. m = dd.tail
      BY <1>3, HeadNat DEF Larger
    <2>2. ServedTx = ServedBlocks
      BY <1>3 DEF ServedTx, ServedBlocks
    <2>3. QED
      BY <2>1, <2>2, BlocksExact
  <1>4. QED
    BY <1>2, <1>3 DEF DatadirInv

LEMMA StateExact ==
  ASSUME DatadirInv, req \in RequestType, dd.head + 1 \in Number,
         NEW i, i.block = dd.head, i.scheme = dd.scheme,
         DeriveStateRange(i, req.role) # None
  PROVE  DeriveStateRange(i, req.role) = Oldest(ServedState)
  <1>1. dd.head \in Nat /\ TriesInMemory \in Nat \ {0}
    BY HeadNat, InspectAssumption
  <1>2. req.role \in {"full", "archive"}
    BY DEF RequestType
  <1>3. CASE req.role = "archive"
    <2>1. CASE dd.scheme = "path"
      BY <1>3, <2>1 DEF DeriveStateRange
    <2>2. CASE dd.scheme = "hash"
      <3>1. ServedState = 0..dd.head
        BY <1>3, <2>2 DEF ServedState
      <3>2. DeriveStateRange(i, req.role) = 0
        BY <1>3, <2>2 DEF DeriveStateRange
      <3>3. 0 \in ServedState /\ ServedState \in SUBSET Int /\ \A n \in ServedState : 0 <= n
        BY <1>1, <3>1
      <3>4. QED
        BY <3>2, <3>3, OldestIs
    <2>3. QED
      BY <2>1, <2>2 DEF DatadirInv
  <1>4. CASE req.role = "full"
    <2> DEFINE m == IF dd.head + 1 > TriesInMemory THEN dd.head + 1 - TriesInMemory ELSE 0
    <2>1. DeriveStateRange(i, req.role) = m
      <3>1. AsUint(i.block + 1) = dd.head + 1
        BY SmallUint
      <3>2. QED
        <4> DEFINE next == AsUint(i.block + 1)
        <4>1. DeriveStateRange(i, req.role) =
                IF next > TriesInMemory THEN next - TriesInMemory ELSE 0
          BY <1>4 DEF DeriveStateRange
        <4>2. next = dd.head + 1
          BY <3>1
        <4> HIDE DEF next
        <4>3. QED
          BY <1>1, <4>1, <4>2
    <2>2. ServedState = {n \in 0..dd.head : dd.head < n + TriesInMemory}
      BY <1>4 DEF ServedState
    <2>3. m \in ServedState /\ ServedState \in SUBSET Int /\ \A n \in ServedState : m <= n
      BY <1>1, <2>2
    <2>4. QED
      <3> HIDE DEF m
      <3> QED BY <2>1, <2>3, OldestIs
  <1>5. QED
    BY <1>2, <1>3, <1>4

LEMMA CurrentStep ==
  ASSUME DatadirInv, UNCHANGED <<dd, ran>>
  PROVE  Current' = Current
  BY DEF Current, Parseable

(* As long as no node has run, what a node would serve stays the same.     *)
LEMMA ServedStep ==
  ASSUME DatadirInv, pc # "inspect", Current', [Next]_vars
  PROVE  /\ Current /\ dd'.head = dd.head
         /\ ServedBlocks' = ServedBlocks /\ ServedTx' = ServedTx
         /\ ServedState' = ServedState
  <1>1. ~NodeAdvance
    BY DEF NodeAdvance, Current
  <1>2. /\ dd'.head = dd.head /\ dd'.tail = dd.tail /\ dd'.txTail = dd.txTail
        /\ dd'.txKey = dd.txKey /\ dd'.scheme = dd.scheme
    BY <1>1, StopDatadir
    DEF Next, Tool, Node, InspectDatadir, Wire, ReadChainTail, ReadTxTail, Preflight,
        MakeManifest, UploadParts, NodeStart, vars
  <1>3. ~ran' => ~ran
    BY <1>1
    DEF Next, Tool, Node, InspectDatadir, Wire, ReadChainTail, ReadTxTail, Preflight,
        MakeManifest, UploadParts, NodeStart, NodeStop, vars
  <1>4. Current
    BY <1>2, <1>3, StepParseable DEF Current
  <1>5. QED
    BY <1>2, <1>4, StepReq DEF ServedBlocks, ServedTx, ServedState

(* The three opens of the database saw one datadir, unless a node has run. *)
LEMMA CapsStep ==
  ASSUME DatadirInv, req \in RequestType, TruthInv, CapsInv, [Next]_vars
  PROVE  CapsInv'
  <1>1. CASE ReadChainTail
    <2>1. UNCHANGED <<dd, ran, info>>
      BY <1>1 DEF ReadChainTail
    <2>2. pc = "chainTail" /\ Inspected /\ Inspected' = Inspected
      BY <1>1 DEF ReadChainTail, CapsInv, Inspected
    <2>3. CASE ChainFreezerTail(dd).st = "ok"
      <3>1. pc' = "txTail" /\ caps' = [tail |-> ChainFreezerTail(dd).val]
        BY <1>1, <2>3 DEF ReadChainTail
      <3>2. QED
        <4>1. Current => ChainFreezerTail(dd).val = dd.tail
          BY <2>3, TailIsRight DEF Current
        <4>2. caps'.tail = ChainFreezerTail(dd).val
          BY <3>1
        <4>3. Current' = Current /\ dd' = dd
          BY <2>1, CurrentStep
        <4>4. QED
          BY <2>2, <3>1, <4>1, <4>2, <4>3 DEF CapsInv
    <2>4. CASE ChainFreezerTail(dd).st # "ok"
      <3>1. pc' \in {"panic", "run"} /\ caps' = None
        BY <1>1, <2>4 DEF ReadChainTail
      <3>2. QED
        BY <3>1 DEF CapsInv
    <2>5. QED
      BY <2>3, <2>4
  <1>2. CASE ReadTxTail
    <2>1. UNCHANGED <<dd, ran, info, req>> /\ pc = "txTail" /\ pc' = "run"
      BY <1>2 DEF ReadTxTail
    <2>2. Inspected
      BY <2>1 DEF CapsInv
    <2>3. CASE caps' = None
      BY <2>1, <2>3 DEF CapsInv
    <2>4. CASE caps' = [ head   |-> info.val.block,
                         blocks |-> caps.tail,
                         tx     |-> Larger(caps.tail, IF dd.txKey THEN dd.txTail ELSE 0),
                         state  |-> DeriveStateRange(info.val, req.role) ]
      <3>1. SUFFICES ASSUME Current
                     PROVE  Exact(caps)'
        BY <2>1, <2>2, CurrentStep DEF CapsInv, Inspected
      <3>2. info.val.block = dd.head /\ info.val.scheme = dd.scheme
        BY <2>2, <3>1 DEF TruthInv, Current
      <3>3. caps.tail = dd.tail
        BY <2>1, <3>1 DEF CapsInv
      <3>4. /\ caps'.head = info.val.block
            /\ caps'.blocks = caps.tail
            /\ caps'.tx = Larger(caps.tail, IF dd.txKey THEN dd.txTail ELSE 0)
            /\ caps'.state = DeriveStateRange(info.val, req.role)
        BY <2>4
      <3>5. Exact(caps')
        <4>1. caps'.state # None => caps'.state = Oldest(ServedState)
          BY <3>1, <3>2, <3>4, StateExact DEF Current
        <4>2. QED
          BY <3>2, <3>3, <3>4, <4>1, BlocksExact, TxExact DEF Exact
      <3>6. QED
        BY <2>1, <3>5 DEF Exact, ServedBlocks, ServedTx, ServedState
    <2>5. QED
      BY <1>2, <2>3, <2>4 DEF ReadTxTail
  <1>3. CASE InspectDatadir \/ Wire \/ Preflight \/ MakeManifest \/ UploadParts
    <2>1. UNCHANGED <<dd, ran, req, caps>>
      BY <1>3 DEF InspectDatadir, Wire, Preflight, MakeManifest, UploadParts
    <2>2. pc # "txTail" /\ pc' # "txTail"
      BY <1>3 DEF InspectDatadir, Wire, Preflight, MakeManifest, UploadParts
    <2>3. pc' \in {"wire", "chainTail"} => caps = None
      BY <1>3 DEF InspectDatadir, Wire, Preflight, MakeManifest, UploadParts, CapsInv
    <2>4. pc' # "inspect"
      BY <1>3 DEF InspectDatadir, Wire, Preflight, MakeManifest, UploadParts
    <2>5. pc' = "chainTail" => Inspected'
      BY <1>3 DEF InspectDatadir, Wire, Preflight, MakeManifest, UploadParts,
                  HeadApplies, HeadBlock, Inspected
    <2>6. Exact(caps)' = Exact(caps)
      BY <2>1 DEF Exact, ServedBlocks, ServedTx, ServedState
    <2>7. QED
      BY <2>1, <2>2, <2>3, <2>4, <2>5, <2>6, CurrentStep DEF CapsInv
  <1>4. CASE Node \/ UNCHANGED vars
    <2>1. UNCHANGED <<pc, info, caps>> /\ Inspected' = Inspected
      BY <1>4 DEF Node, NodeStart, NodeAdvance, NodeStop, vars, Inspected
    <2>2. CASE pc = "inspect"
      BY <2>1, <2>2 DEF CapsInv
    <2>3. CASE pc # "inspect"
      <3>1. Current' => Current
        BY <2>3, ServedStep
      <3>2. Current' /\ Exact(caps) => Exact(caps)'
        BY <2>1, <2>3, ServedStep DEF Exact
      <3>3. Current' => dd'.tail = dd.tail
        BY <2>3, <1>4, StopDatadir DEF Node, NodeStart, NodeAdvance, Current, vars
      <3>4. QED
        BY <2>1, <3>1, <3>2, <3>3 DEF CapsInv
    <2>4. QED
      BY <2>2, <2>3
  <1>5. QED
    BY <1>1, <1>2, <1>3, <1>4 DEF Next, Tool

LEMMA ServeableStep ==
  ASSUME DatadirInv, TruthInv, CapsInv, CapabilitiesServeable, [Next]_vars
  PROVE  CapabilitiesServeable'
  <1>1. CASE MakeManifest
    <2>1. manifest'.caps = caps
      BY <1>1 DEF MakeManifest
    <2>2. pc = "scheme" /\ UNCHANGED <<dd, ran, req>>
      BY <1>1 DEF MakeManifest
    <2>3. CASE Current /\ caps # None
      <3>1. Exact(caps)
        BY <2>2, <2>3 DEF CapsInv
      <3>2. dd' = dd /\ ServedBlocks' = ServedBlocks /\ ServedTx' = ServedTx
            /\ ServedState' = ServedState
        BY <2>2 DEF ServedBlocks, ServedTx, ServedState
      <3>3. QED
        BY <2>1, <3>1, <3>2 DEF CapabilitiesServeable, Exact
    <2>4. CASE ~Current \/ caps = None
      <3>1. ~Current' \/ manifest'.caps = None
        BY <2>1, <2>2, <2>4, CurrentStep
      <3>2. QED
        BY <3>1 DEF CapabilitiesServeable, Current
    <2>5. QED
      BY <2>3, <2>4
  <1>2. CASE ~MakeManifest
    <2>1. manifest' = manifest
      BY <1>2
      DEF Next, Tool, Node, InspectDatadir, Wire, ReadChainTail, ReadTxTail, Preflight,
          UploadParts, NodeStart, NodeAdvance, NodeStop, vars
    <2>2. SUFFICES ASSUME manifest # None, manifest.caps # None, Current'
                   PROVE  Exact(manifest.caps)'
      BY <2>1 DEF CapabilitiesServeable, Current, Exact
    <2>3. pc # "inspect"
      BY <2>2 DEF TruthInv
    <2>4. Exact(manifest.caps)
      BY <2>2, <2>3, ServedStep DEF CapabilitiesServeable, Current, Exact
    <2>5. QED
      BY <2>1, <2>2, <2>3, <2>4, ServedStep DEF Exact
  <1>3. QED
    BY <1>1, <1>2

(* Capabilities that are published are exact, for every role, head, window *)
(* and pruned tail, as long as no node ran between the reads.              *)
THEOREM ServeableTheorem == Spec => []CapabilitiesServeable
  <1>1. Init => /\ DatadirInv /\ req \in RequestType
                /\ TruthInv /\ CapsInv /\ CapabilitiesServeable
    <2>1. Init => CapsInv /\ CapabilitiesServeable
      BY DEF Init, CapsInv, CapabilitiesServeable
    <2>2. QED
      BY <2>1, InitDatadir, InitTruth
  <1>2. /\ DatadirInv /\ req \in RequestType
        /\ TruthInv /\ CapsInv /\ CapabilitiesServeable
        /\ [Next]_vars
        => (/\ DatadirInv /\ req \in RequestType
            /\ TruthInv /\ CapsInv /\ CapabilitiesServeable)'
    BY StepDatadir, StepReq, TruthStep, CapsStep, ServeableStep
  <1>3. QED
    BY <1>1, <1>2, PTL DEF Spec

=============================================================================
