--------------------------------- MODULE RLP ---------------------------------
(***************************************************************************)
(* internal/datadir/header.go: the reader of single RLP fields.  A buffer  *)
(* is a sequence of bytes, an offset is counted from 0 as in Go.           *)
(*                                                                         *)
(* The sizes of the encoding are parameters, so that a buffer TLC can      *)
(* enumerate reaches every prefix class and every integer boundary.  Go's  *)
(* are Single = 128, Short = 55 and Word = 8, hence 256 bytes and 64 bits. *)
(***************************************************************************)
EXTENDS Integers, SequencesExt

CONSTANTS
  Single,     \* bytes below it stand for themselves (0x80)
  Short,      \* longest length a one-byte prefix can say (55)
  Word        \* bytes of a length, and of an int (8)

Base      == Single + 2 * (Short + 1 + Word)
StrLong   == Single + Short                 \* 0xb7
ListStart == StrLong + Word + 1             \* 0xc0
ListLong  == ListStart + Short              \* 0xf7

Byte      == 0..(Base - 1)

ASSUME RLPAssumption ==
  /\ Single \in Nat \ {0} /\ Short \in Nat \ {0} /\ Word \in Nat \ {0}
  /\ Word <= Short

(* Values of a uint64, and Go's int of the same width.                     *)
Power[i \in 0..Word] == IF i = 0 THEN 1 ELSE Base * Power[i - 1]
Uint64    == Power[Word]
Number    == 0..(Uint64 - 1)

AsInt(n)  == LET r == n % Uint64 IN IF 2 * r >= Uint64 THEN r - Uint64 ELSE r
AsUint(n) == n % Uint64

Ok(off, val) == [st |-> "ok", off |-> off, val |-> val]
Error        == [st |-> "err", off |-> 0, val |-> 0]
Panic        == [st |-> "panic", off |-> 0, val |-> 0]   \* index out of range

(* readBEUint of the n bytes at off: v << 8 | x in an int.                 *)
ReadBEUint(buf, off, n) ==
  LET v[i \in 0..n] == IF i = 0 THEN 0 ELSE AsInt((v[i - 1] * Base) + buf[off + i])
  IN  v[n]

(* Go's buf[off] behind the guard off >= len(buf).                         *)
HasByte(buf, off) == 0 <= off /\ off < Len(buf)
NoByte(buf, off)  == IF off >= Len(buf) THEN Error ELSE Panic

(* enterRLPList: the offset of the first item.                             *)
EnterRLPList(buf, off) ==
  IF ~HasByte(buf, off) THEN NoByte(buf, off)
  ELSE LET b      == buf[off + 1]
           lenlen == b - ListLong
       IN
       CASE b >= ListStart /\ b <= ListLong -> Ok(off + 1, b - ListStart)
         [] b < ListStart                   -> Error
         [] b > ListLong ->
              IF off + 1 + lenlen > Len(buf) THEN Error
              ELSE Ok(off + 1 + lenlen, ReadBEUint(buf, off + 1, lenlen))

(* Where an item ends whose first byte is b and whose length, unless b     *)
(* says it, takes lenlen bytes; short is what is done when those are cut   *)
(* off by the end of the buffer.                                           *)
ItemEnd(buf, off, b, short) ==
  LET skipLong(lenlen) ==
        IF off + 1 + lenlen > Len(buf) THEN short
        ELSE Ok(AsInt(off + 1 + lenlen + ReadBEUint(buf, off + 1, lenlen)), 0)
  IN
  CASE b < Single                      -> Ok(off + 1, 0)
    [] b >= Single /\ b <= StrLong     -> Ok(off + 1 + b - Single, 0)
    [] b > StrLong /\ b < ListStart    -> skipLong(b - StrLong)
    [] b >= ListStart /\ b <= ListLong -> Ok(off + 1 + b - ListStart, 0)
    [] b > ListLong                    -> skipLong(b - ListLong)

(* Faulty variant: a length cut off by the end of the buffer is read.      *)
SkipRLPItemUnchecked(buf, off) ==
  IF HasByte(buf, off) THEN ItemEnd(buf, off, buf[off + 1], Panic) ELSE NoByte(buf, off)

(* skipRLPItem: the offset of the next item.  Nothing bounds it, neither   *)
(* the buffer nor, for a length of Word bytes, zero.                       *)
SkipRLPItem(buf, off) ==
  IF HasByte(buf, off) THEN ItemEnd(buf, off, buf[off + 1], Error) ELSE NoByte(buf, off)

(* readRLPUint                                                             *)
ReadRLPUint(buf, off) ==
  IF ~HasByte(buf, off) THEN NoByte(buf, off)
  ELSE LET sLen == buf[off + 1] - Single IN
       IF sLen < 0 THEN Ok(off + 1, buf[off + 1])
       ELSE IF sLen > Short \/ sLen > Word \/ off + 1 + sLen > Len(buf) THEN Error
       ELSE Ok(off + 1 + sLen, AsUint(ReadBEUint(buf, off + 1, sLen)))

(* Item number n, from 0, of the list in buf: the walk readHeaderTimestamp *)
(* and readFreezerMetaTail share.                                          *)
ReadItem(buf, n) ==
  LET item[i \in 0..n] ==
        IF i = 0 THEN EnterRLPList(buf, 0)
        ELSE IF item[i - 1].st = "ok" THEN SkipRLPItem(buf, item[i - 1].off) ELSE item[i - 1]
  IN  IF item[n].st = "ok" THEN ReadRLPUint(buf, item[n].off) ELSE item[n]

-----------------------------------------------------------------------------
(* What geth writes: rlp.Encode.                                           *)

(* Big-endian, without leading zeros, in at most a word.                   *)
Digits(n) ==
  CHOOSE k \in 0..Word : (n < Power[k] \/ k = Word) /\ \A j \in 0..(k - 1) : Power[j] <= n
BE(n)     == [i \in 1..Digits(n) |-> (n \div Power[Digits(n) - i]) % Base]

Prefixed(short, long, b) ==
  IF Len(b) <= Short THEN <<short + Len(b)>> \o b
  ELSE <<long + Digits(Len(b))>> \o BE(Len(b)) \o b

EncodeBytes(b) ==
  IF Len(b) = 1 /\ b[1] < Single THEN b ELSE Prefixed(Single, StrLong, b)

EncodeUint(n) == EncodeBytes(BE(n))

(* A list of items that are encoded already.                               *)
EncodeList(items) == Prefixed(ListStart, ListLong, FlattenSeq(items))

=============================================================================
