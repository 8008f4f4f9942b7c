--------------------------- MODULE MultipartProofs ---------------------------
(***************************************************************************)
(* What the multipart writer guarantees for any part size, concurrency,    *)
(* part limit and set of buffers, whoever calls it; and, since uploadPart  *)
(* is one of its callers, for every part that is streamed into it.         *)
(***************************************************************************)
EXTENDS PartStream, FiniteSetTheorems, SequenceTheorems, WellFoundedInduction, TLAPS

(* What the types of memory rest on: the bytes of a Write fit, and what is *)
(* about to be sent, or is being sent, is a buffer.                        *)
DataInv ==
  /\ produced + left <= MaxBytes
  /\ pc = "send" => body \in Buffers
  /\ \A p \in InFlight : bodyOf[p] \in Buffers

TypeInv == TypeOK /\ DataInv

-----------------------------------------------------------------------------

LEMMA ChunkLemma ==
  ASSUME TypeInv, NEW n \in Nat, n <= left
  PROVE  Chunk(n) \in Seq(0..MaxBytes) /\ Len(Chunk(n)) = n
<1>1. produced \in Nat /\ left \in Nat /\ produced + n <= MaxBytes /\ MaxBytes \in Nat
  BY MultipartAssumption DEF TypeInv, TypeOK, DataInv
<1>2. Chunk(n) \in [1..n -> 0..MaxBytes]
  BY <1>1 DEF Chunk
<1> QED BY <1>2, SeqDef, LenProperties DEF Chunk

LEMMA AppendChunk ==
  ASSUME TypeInv, NEW n \in Nat, n <= left, Len(mem[buf]) + n <= PartSize
  PROVE  /\ mem[buf] \o Chunk(n) \in Seq(0..MaxBytes)
         /\ Len(mem[buf] \o Chunk(n)) = Len(mem[buf]) + n
<1>1. mem[buf] \in Seq(0..MaxBytes)
  BY DEF TypeInv, TypeOK
<1>2. Chunk(n) \in Seq(0..MaxBytes) /\ Len(Chunk(n)) = n
  BY ChunkLemma
<1> DEFINE s == mem[buf]
           t == Chunk(n)
<1> HIDE DEF s, t
<1>3. s \in Seq(0..MaxBytes) /\ t \in Seq(0..MaxBytes) /\ Len(t) = n
  BY <1>1, <1>2 DEF s, t
<1>4. s \o t \in Seq(0..MaxBytes) /\ Len(s \o t) = Len(s) + n
  BY <1>3, ConcatProperties
<1> QED BY <1>4 DEF s, t

LEMMA FitLemma ==
  ASSUME NEW max \in Nat, NEW p \in 0..max, NEW l \in 0..max, p + l <= max,
         NEW k \in 0..l
  PROVE  k \in 0..max /\ p + k <= max
OBVIOUS

LEMMA TypeInit == Init => TypeInv
<1> SUFFICES ASSUME Init PROVE TypeInv
  OBVIOUS
<1>1. MaxBytes \in Nat /\ PartSize \in Nat \ {0} /\ None \notin Buffers
  BY MultipartAssumption
<1>2. mem \in [Buffers -> Seq(0..MaxBytes)] /\ \A b \in Buffers : Len(mem[b]) <= PartSize
  BY <1>1, EmptySeq DEF Init
<1>3. server \in [PartNums -> Seq(0..MaxBytes)] /\ parts \in Seq(PartNums)
  BY EmptySeq DEF Init
<1>4. InFlight = {}
  BY DEF Init, InFlight
<1>5. pc \in Phases /\ pc # "send"
  BY DEF Init, Phases
<1>6. DataInv
  BY <1>1, <1>4, <1>5 DEF Init, DataInv
<1>7. /\ worker \in [PartNums -> {"idle", "upload", "release", "gone"}]
      /\ bodyOf \in [PartNums -> Buffers \cup {None}]
      /\ owner \in [Buffers -> {"free", "mine", "other"}]
  BY DEF Init
<1>8. /\ left \in 0..MaxBytes /\ produced \in 0..MaxBytes /\ partNum \in Nat
  BY <1>1 DEF Init
<1>a. /\ ret \in {"fill", "wait"} /\ buf \in Buffers /\ body \in Buffers \cup {None}
      /\ term \in {"none", "wait", "remote", "aborted"}
      /\ upload \in {"open", "completed", "aborted"}
  BY DEF Init
<1>b. closing \in BOOLEAN /\ overtaken \in BOOLEAN /\ failed \in BOOLEAN /\ ctx \in BOOLEAN
  BY DEF Init
<1>9. TypeOK
  BY <1>2, <1>3, <1>5, <1>7, <1>8, <1>a, <1>b DEF TypeOK
<1> QED BY <1>6, <1>9 DEF TypeInv

(* What a step may do to the buffers, for the actions that only move the   *)
(* program counters: nothing.                                              *)
LEMMA TypeStep == TypeInv /\ [Next]_vars => TypeInv'
<1> SUFFICES ASSUME TypeInv, [Next]_vars PROVE TypeInv'
  OBVIOUS
<1> USE MultipartAssumption DEF callVars, abortVars, bufVars, workVars, serverVars
<1>1. CASE Fill
  <2> DEFINE room == PartSize - Len(mem[buf])
             n    == IF left > room THEN room ELSE left
  <2>1. Len(mem[buf]) \in Nat /\ Len(mem[buf]) <= PartSize /\ left \in Nat
    BY LenProperties DEF TypeInv, TypeOK
  <2>2. n \in Nat /\ n <= left /\ Len(mem[buf]) + n <= PartSize
    <3>1. PartSize \in Nat /\ room \in Nat /\ Len(mem[buf]) + room = PartSize
      BY <2>1
    <3> HIDE DEF room
    <3>2. CASE left > room
      BY <2>1, <3>1, <3>2
    <3>3. CASE ~(left > room)
      BY <2>1, <3>1, <3>3
    <3> QED BY <3>2, <3>3
  <2>3. /\ mem' = [mem EXCEPT ![buf] = @ \o Chunk(n)]
        /\ produced' = produced + n /\ left' = left - n
        /\ pc' \in {"idle", "fill"}
        /\ UNCHANGED <<ret, closing, partNum, abortVars, buf, body, owner, workVars,
                       serverVars, ctx>>
    BY <1>1 DEF Fill
  <2> HIDE DEF n
  <2>4. /\ mem' \in [Buffers -> Seq(0..MaxBytes)]
        /\ \A b \in Buffers : Len(mem'[b]) <= PartSize
    BY <2>2, <2>3, AppendChunk DEF TypeInv, TypeOK
  <2>5. produced' \in 0..MaxBytes /\ left' \in 0..MaxBytes /\ produced' + left' <= MaxBytes
    BY <2>2, <2>3 DEF TypeInv, TypeOK, DataInv
  <2>6. DataInv'
    BY <2>3, <2>5 DEF TypeInv, DataInv, InFlight
  <2>7. pc' \in Phases
    BY <2>3 DEF Phases
  <2>8. UNCHANGED <<ret, closing, partNum, term, overtaken, buf, body, owner, worker, bodyOf,
                    parts, failed, upload, server, object, ctx>>
    BY <2>3
  <2>9. TypeOK'
    <3> HIDE DEF callVars, abortVars, bufVars, workVars, serverVars
    <3> QED BY <2>4, <2>5, <2>7, <2>8 DEF TypeInv, TypeOK
  <2> QED BY <2>6, <2>9 DEF TypeInv
<1>2. CASE \E n \in 1..MaxBytes : WriteCall(n)
  BY <1>2 DEF WriteCall, TypeInv, TypeOK, DataInv, InFlight, Phases
<1>3. ASSUME NEW to \in {"fill", "wait"}, Rotate(to),
             UNCHANGED <<produced, abortVars, workVars, serverVars, ctx>>,
             closing' \in BOOLEAN, left' \in 0..left
      PROVE  TypeInv'
  <2>1. /\ mem' \in [Buffers -> Seq(0..MaxBytes)]
        /\ \A b \in Buffers : Len(mem'[b]) <= PartSize
        /\ owner' \in [Buffers -> {"free", "mine", "other"}]
        /\ buf' \in Buffers /\ body' \in Buffers
    BY <1>3, EmptySeq DEF Rotate, TypeInv, TypeOK
  <2>2. partNum' \in Nat /\ ret' \in {"fill", "wait"} /\ pc' = "send"
    BY <1>3 DEF Rotate, TypeInv, TypeOK
  <2>3. left' \in 0..MaxBytes /\ produced' + left' <= MaxBytes
    <3>1. produced' = produced /\ left' \in 0..left
      BY <1>3
    <3>2. /\ produced \in 0..MaxBytes /\ left \in 0..MaxBytes /\ MaxBytes \in Nat
          /\ produced + left <= MaxBytes
      BY DEF TypeInv, TypeOK, DataInv
    <3> QED BY <3>1, <3>2, FitLemma
  <2> QED BY <1>3, <2>1, <2>2, <2>3 DEF TypeInv, TypeOK, DataInv, InFlight, Phases
<1>4. CASE DispatchFull
  <2>1. CASE failed
    BY <1>4, <2>1 DEF DispatchFull, TypeInv, TypeOK, DataInv, InFlight, Phases
  <2>2. CASE ~failed
    <3>1. closing \in BOOLEAN /\ left \in 0..left
      BY DEF TypeInv, TypeOK
    <3>2. /\ Rotate("fill") /\ left' = left /\ closing' = closing
          /\ UNCHANGED <<produced, abortVars, workVars, serverVars, ctx>>
      BY <1>4, <2>2 DEF DispatchFull
    <3> QED BY <1>3, <3>1, <3>2
  <2> QED BY <2>1, <2>2
<1>5. CASE CloseCall
  <2>1. CASE mem[buf] = <<>> \/ failed
    BY <1>5, <2>1 DEF CloseCall, TypeInv, TypeOK, DataInv, InFlight, Phases
  <2>2. CASE ~(mem[buf] = <<>> \/ failed)
    <3>1. left \in 0..left
      BY DEF TypeInv, TypeOK
    <3>2. /\ Rotate("wait") /\ left' = left /\ closing' = TRUE
          /\ UNCHANGED <<produced, abortVars, workVars, serverVars, ctx>>
      BY <1>5, <2>2 DEF CloseCall
    <3> QED BY <1>3, <3>1, <3>2
  <2> QED BY <2>1, <2>2
<1>6. CASE Send
  BY <1>6 DEF Send, TypeInv, TypeOK, DataInv, InFlight, Phases
<1>7. ASSUME NEW pn \in PartNums, UploadOnePart(pn) PROVE TypeInv'
  <2>1. mem[bodyOf[pn]] \in Seq(0..MaxBytes)
    BY <1>7 DEF UploadOnePart, TypeInv, TypeOK, DataInv, InFlight
  <2>2. Append(parts, pn) \in Seq(PartNums)
    BY AppendProperties DEF TypeInv, TypeOK
  <2>3. /\ server' \in [PartNums -> Seq(0..MaxBytes)]
        /\ parts' \in Seq(PartNums)
        /\ failed' \in BOOLEAN
        /\ worker' = [worker EXCEPT ![pn] = "release"]
    BY <1>7, <2>1, <2>2 DEF UploadOnePart, TypeInv, TypeOK
  <2>4. InFlight' \subseteq InFlight
    BY <1>7, <2>3 DEF UploadOnePart, TypeInv, TypeOK, InFlight
  <2> QED BY <1>7, <2>3, <2>4 DEF UploadOnePart, TypeInv, TypeOK, DataInv
<1>8. ASSUME NEW pn \in PartNums, ReleaseBuf(pn) PROVE TypeInv'
  BY <1>8 DEF ReleaseBuf, TypeInv, TypeOK, DataInv, InFlight
<1>9. CASE CloseWait \/ AbortCall \/ AbortWait \/ AbortRemote \/ Cancel
  <2>1. CASE CloseWait
    BY <2>1 DEF CloseWait, Ended, TypeInv, TypeOK, DataInv, InFlight, Phases
  <2>2. CASE AbortCall
    BY <2>2 DEF AbortCall, Ended, TypeInv, TypeOK, DataInv, InFlight, Phases
  <2>3. CASE AbortWait
    BY <2>3 DEF AbortWait, Ended, TypeInv, TypeOK, DataInv, InFlight, Phases
  <2>4. CASE AbortRemote
    BY <2>4 DEF AbortRemote, Ended, TypeInv, TypeOK, DataInv, InFlight, Phases
  <2>5. CASE Cancel
    BY <2>5 DEF Cancel, Ended, TypeInv, TypeOK, DataInv, InFlight, Phases
  <2> QED BY <1>9, <2>1, <2>2, <2>3, <2>4, <2>5
<1>10. CASE Complete
  BY <1>10 DEF Complete, TypeInv, TypeOK, DataInv, InFlight, Phases
<1>11. ASSUME NEW b \in Buffers, OtherGet(b) \/ OtherPut(b) PROVE TypeInv'
  <2>1. PartSize \in Nat \ {0} /\ <<0>> \in Seq({0}) /\ Len(<<0>>) = 1 /\ 0 \in 0..MaxBytes
    OBVIOUS
  <2>2. /\ mem' \in [Buffers -> Seq(0..MaxBytes)]
        /\ \A c \in Buffers : Len(mem'[c]) <= PartSize
    <3>1. CASE OtherGet(b)
      <4>1. mem' = [mem EXCEPT ![b] = <<0>>] /\ <<0>> \in Seq(0..MaxBytes)
        BY <3>1, <2>1 DEF OtherGet
      <4> QED BY <4>1, <2>1 DEF TypeInv, TypeOK
    <3>2. CASE OtherPut(b)
      BY <3>2 DEF OtherPut, TypeInv, TypeOK
    <3> QED BY <1>11, <3>1, <3>2
  <2>3. owner' \in [Buffers -> {"free", "mine", "other"}]
    BY <1>11 DEF OtherGet, OtherPut, TypeInv, TypeOK
  <2>4. UNCHANGED <<callVars, buf, body, workVars, serverVars, ctx>>
    BY <1>11 DEF OtherGet, OtherPut
  <2> QED BY <2>2, <2>3, <2>4 DEF TypeInv, TypeOK, DataInv, InFlight
<1>12. CASE UNCHANGED vars
  BY <1>12 DEF vars, TypeInv, TypeOK, DataInv, InFlight
<1> QED BY <1>1, <1>2, <1>4, <1>5, <1>6, <1>7, <1>8, <1>9, <1>10, <1>11, <1>12
        DEF Next, Internal

(* The types, for any parameters: in particular no buffer ever holds more  *)
(* than PartSize bytes, and a Write's bytes are all accounted for.         *)
THEOREM TypeCorrect == Spec => []TypeOK
<1>1. Init => TypeInv
  BY TypeInit
<1>2. TypeInv /\ [Next]_vars => TypeInv'
  BY TypeStep
<1>3. TypeInv => TypeOK
  BY DEF TypeInv
<1> QED BY <1>1, <1>2, <1>3, PTL DEF Spec

(* A step keeps the buffers apart: what is rotated in was in the pool, and *)
(* what goes back to the pool is the body of one worker only.              *)
LEMMA ExclusiveStep == TypeInv /\ BuffersExclusive /\ [Next]_vars => BuffersExclusive'
<1> SUFFICES ASSUME TypeInv, BuffersExclusive, [Next]_vars PROVE BuffersExclusive'
  OBVIOUS
<1> USE DEF callVars, abortVars, bufVars, workVars, serverVars
<1>0. /\ worker \in [PartNums -> {"idle", "upload", "release", "gone"}]
      /\ bodyOf \in [PartNums -> Buffers \cup {None}]
      /\ owner \in [Buffers -> {"free", "mine", "other"}]
      /\ buf \in Buffers /\ ret # "send"
      /\ pc = "send" => body \in Buffers
      /\ \A p \in InFlight : bodyOf[p] \in Buffers
  BY DEF TypeInv, TypeOK, DataInv
(* The actions that leave the buffers and the workers alone.               *)
<1>1. ASSUME UNCHANGED <<buf, owner, worker, bodyOf>>,
             pc' = "send" => pc = "send" /\ UNCHANGED body
      PROVE  BuffersExclusive'
  BY <1>1 DEF BuffersExclusive, InFlight
<1>2. ASSUME NEW to \in {"fill", "wait"}, Rotate(to), pc # "send",
             UNCHANGED <<worker, bodyOf>>
      PROVE  BuffersExclusive'
  <2>1. PICK b \in Buffers : /\ owner[b] = "free" /\ buf' = b
                             /\ owner' = [owner EXCEPT ![b] = "mine"]
    BY <1>2 DEF Rotate
  <2>2. body' = buf /\ InFlight' = InFlight
    BY <1>2 DEF Rotate, InFlight
  <2>3. /\ owner[buf] = "mine" /\ b # buf
        /\ \A p \in InFlight :
             owner[bodyOf[p]] = "mine" /\ bodyOf[p] # b /\ bodyOf[p] # buf
    BY <2>1 DEF BuffersExclusive
  <2> QED BY <1>0, <1>2, <2>1, <2>2, <2>3 DEF BuffersExclusive
<1>3. CASE Send
  <2> DEFINE pn == partNum - 1
  <2>1. /\ pc = "send" /\ pc' = ret
        /\ worker' = [worker EXCEPT ![pn] = "upload"]
        /\ bodyOf' = [bodyOf EXCEPT ![pn] = body]
        /\ UNCHANGED <<buf, owner>>
    BY <1>3 DEF Send
  <2> HIDE DEF pn
  <2>2. InFlight' \subseteq InFlight \cup {pn}
    BY <1>0, <2>1 DEF InFlight
  <2>3. \A p \in InFlight' : IF p = pn THEN bodyOf'[p] = body
                                      ELSE p \in InFlight /\ bodyOf'[p] = bodyOf[p]
    BY <1>0, <2>1, <2>2 DEF InFlight
  <2> QED BY <1>0, <2>1, <2>3 DEF BuffersExclusive
<1>4. ASSUME NEW pn \in PartNums, UploadOnePart(pn) PROVE BuffersExclusive'
  <2>1. InFlight' = InFlight
    BY <1>0, <1>4 DEF UploadOnePart, InFlight
  <2> QED BY <1>4, <2>1 DEF UploadOnePart, BuffersExclusive
<1>5. ASSUME NEW pn \in PartNums, ReleaseBuf(pn) PROVE BuffersExclusive'
  <2>1. /\ pn \in InFlight /\ InFlight' = InFlight \ {pn}
        /\ owner' = [owner EXCEPT ![bodyOf[pn]] = "free"]
        /\ UNCHANGED <<buf, body, bodyOf, pc>>
    BY <1>0, <1>5 DEF ReleaseBuf, InFlight
  <2> QED BY <1>0, <2>1 DEF BuffersExclusive
<1>6. ASSUME NEW b \in Buffers, OtherGet(b) \/ OtherPut(b) PROVE BuffersExclusive'
  <2>1. /\ owner[b] # "mine"
        /\ \A c \in Buffers : owner[c] = "mine" => owner'[c] = "mine"
        /\ UNCHANGED <<buf, body, bodyOf, worker, pc>>
    BY <1>0, <1>6 DEF OtherGet, OtherPut
  <2> QED BY <1>0, <2>1 DEF BuffersExclusive, InFlight
<1>7. CASE DispatchFull
  <2>1. CASE failed
    BY <1>1, <1>7, <2>1 DEF DispatchFull
  <2>2. CASE ~failed
    BY <1>2, <1>7, <2>2 DEF DispatchFull
  <2> QED BY <2>1, <2>2
<1>8. CASE CloseCall
  <2>1. CASE mem[buf] = <<>> \/ failed
    BY <1>1, <1>8, <2>1 DEF CloseCall
  <2>2. CASE ~(mem[buf] = <<>> \/ failed)
    BY <1>2, <1>8, <2>2 DEF CloseCall
  <2> QED BY <2>1, <2>2
<1>9. CASE \E n \in 1..MaxBytes : WriteCall(n)
  BY <1>1, <1>9 DEF WriteCall
<1>10. CASE Fill \/ CloseWait \/ Complete \/ AbortCall \/ AbortWait \/ AbortRemote \/ Cancel
  BY <1>1, <1>10 DEF Fill, CloseWait, Complete, AbortCall, AbortWait, AbortRemote, Cancel
<1>11. CASE UNCHANGED vars
  BY <1>1, <1>11 DEF vars
<1> QED BY <1>3, <1>4, <1>5, <1>6, <1>7, <1>8, <1>9, <1>10, <1>11 DEF Next, Internal

(* The bytes of an UploadPart request belong to it alone: no writer, this  *)
(* one included, fills a buffer that waits or is being sent, for any pool, *)
(* any concurrency and any order in which the workers end.                 *)
THEOREM ExclusiveTheorem == Spec => []BuffersExclusive
<1>1. Init => TypeInv
  BY TypeInit
<1>2. Init => BuffersExclusive
  BY DEF Init, BuffersExclusive, InFlight
<1>3. TypeInv /\ BuffersExclusive /\ [Next]_vars => (TypeInv /\ BuffersExclusive)'
  BY TypeStep, ExclusiveStep
<1> QED BY <1>1, <1>2, <1>3, PTL DEF Spec

-----------------------------------------------------------------------------

CloseTail == {"complete", "abortRemote", "closed", "closeErr"}

(* Where Close and Abort stand, and what they know of the workers.         *)
ProtocolInv ==
  /\ closing <=> pc \in {"wait"} \cup CloseTail \/ (pc = "send" /\ ret = "wait")
  /\ closing => term = "none"
  /\ term # "none" => failed
  /\ term # "none" /\ pc = "send" => overtaken
  /\ pc \in CloseTail => InFlight = {}
  /\ term \in {"remote", "aborted"} =>
       \/ InFlight = {}
       \/ overtaken /\ pc # "send" /\ \E pn \in PartNums : InFlight = {pn}

LEMMA ProtocolStep == TypeInv /\ ProtocolInv /\ [Next]_vars => ProtocolInv'
<1> SUFFICES ASSUME TypeInv, ProtocolInv, [Next]_vars PROVE ProtocolInv'
  OBVIOUS
<1> USE DEF callVars, abortVars, bufVars, workVars, serverVars, CloseTail
<1>0. /\ worker \in [PartNums -> {"idle", "upload", "release", "gone"}]
      /\ ret \in {"fill", "wait"}
      /\ closing \in BOOLEAN /\ overtaken \in BOOLEAN /\ failed \in BOOLEAN
      /\ term \in {"none", "wait", "remote", "aborted"}
  BY DEF TypeInv, TypeOK
<1>1. CASE Fill
  BY <1>0, <1>1 DEF Fill, ProtocolInv, InFlight
<1>2. CASE \E n \in 1..MaxBytes : WriteCall(n)
  BY <1>0, <1>2 DEF WriteCall, ProtocolInv, InFlight
<1>3. CASE DispatchFull
  <2>1. CASE failed
    BY <1>0, <1>3, <2>1 DEF DispatchFull, ProtocolInv, InFlight
  <2>2. CASE ~failed
    <3>1. /\ pc = "fill" /\ pc' = "send" /\ ret' = "fill"
          /\ UNCHANGED <<closing, abortVars, worker, failed>>
      BY <1>3, <2>2 DEF DispatchFull, Rotate
    <3> QED BY <1>0, <2>2, <3>1 DEF ProtocolInv, InFlight
  <2> QED BY <2>1, <2>2
<1>4. CASE CloseCall
  <2>1. CASE mem[buf] = <<>> \/ failed
    BY <1>0, <1>4, <2>1 DEF CloseCall, ProtocolInv, InFlight
  <2>2. CASE ~(mem[buf] = <<>> \/ failed)
    <3>1. /\ pc = "idle" /\ term = "none" /\ closing' = TRUE
          /\ pc' = "send" /\ ret' = "wait"
          /\ UNCHANGED <<abortVars, worker, failed>>
      BY <1>4, <2>2 DEF CloseCall, Rotate
    <3> QED BY <1>0, <3>1 DEF ProtocolInv, InFlight
  <2> QED BY <2>1, <2>2
<1>5. CASE Send
  <2> DEFINE pn == partNum - 1
  <2>1. /\ pc = "send" /\ pc' = ret
        /\ worker' = [worker EXCEPT ![pn] = "upload"]
        /\ UNCHANGED <<ret, closing, abortVars, failed>>
    BY <1>5 DEF Send
  <2> HIDE DEF pn
  <2>2. InFlight = {} => InFlight' = {} \/ (pn \in PartNums /\ InFlight' = {pn})
    BY <1>0, <2>1 DEF InFlight
  <2> QED BY <1>0, <2>1, <2>2 DEF ProtocolInv
<1>6. ASSUME NEW pn \in PartNums, UploadOnePart(pn) PROVE ProtocolInv'
  <2>1. InFlight' = InFlight
    BY <1>0, <1>6 DEF UploadOnePart, InFlight
  <2>2. (failed => failed') /\ UNCHANGED <<pc, ret, closing, abortVars>>
    BY <1>6 DEF UploadOnePart
  <2> QED BY <1>0, <2>1, <2>2 DEF ProtocolInv
<1>7. ASSUME NEW pn \in PartNums, ReleaseBuf(pn) PROVE ProtocolInv'
  <2>1. InFlight' \subseteq InFlight
    BY <1>0, <1>7 DEF ReleaseBuf, InFlight
  <2>2. UNCHANGED <<pc, ret, closing, abortVars, failed>>
    BY <1>7 DEF ReleaseBuf
  <2> QED BY <1>0, <2>1, <2>2 DEF ProtocolInv
<1>8. CASE CloseWait
  BY <1>0, <1>8 DEF CloseWait, ProtocolInv, InFlight
<1>9. CASE Complete
  BY <1>0, <1>9 DEF Complete, ProtocolInv, InFlight
<1>10. CASE AbortCall
  BY <1>0, <1>10 DEF AbortCall, ProtocolInv, InFlight
<1>11. CASE AbortWait
  BY <1>0, <1>11 DEF AbortWait, ProtocolInv, InFlight
<1>12. CASE AbortRemote
  BY <1>0, <1>12 DEF AbortRemote, ProtocolInv, InFlight
<1>13. CASE Cancel \/ (\E b \in Buffers : OtherGet(b) \/ OtherPut(b)) \/ UNCHANGED vars
  <2>1. UNCHANGED <<pc, ret, closing, abortVars, failed, worker>>
    BY <1>13 DEF Cancel, OtherGet, OtherPut, vars
  <2> QED BY <2>1 DEF ProtocolInv, InFlight
<1> QED BY <1>1, <1>2, <1>3, <1>4, <1>5, <1>6, <1>7, <1>8, <1>9, <1>10, <1>11, <1>12, <1>13
        DEF Next, Internal

(* The multipart upload is completed or aborted with no request under way, *)
(* or, if Abort overtook a Write, with that one: for any number of parts   *)
(* and workers (wg.Wait in Close and in Abort).                            *)
THEOREM QuietTheorem == Spec => []QuietTermination
<1>1. Init => TypeInv
  BY TypeInit
<1>2. Init => ProtocolInv
  BY DEF Init, ProtocolInv, CloseTail, InFlight
<1>3. TypeInv /\ ProtocolInv /\ [Next]_vars => (TypeInv /\ ProtocolInv)'
  BY TypeStep, ProtocolStep
<1>4. ProtocolInv => QuietTermination
  <2> SUFFICES ASSUME ProtocolInv, Terminating
               PROVE  Cardinality(InFlight) <= IF overtaken THEN 1 ELSE 0
    BY DEF QuietTermination
  <2>1. CASE InFlight = {}
    <3>1. Cardinality(InFlight) = 0
      BY <2>1, FS_EmptySet
    <3> QED BY <3>1
  <2>2. CASE overtaken /\ \E pn \in PartNums : InFlight = {pn}
    <3>1. Cardinality(InFlight) = 1
      BY <2>2, FS_Singleton
    <3> QED BY <2>2, <3>1
  <2> QED BY <2>1, <2>2 DEF ProtocolInv, CloseTail, Terminating
<1> QED BY <1>1, <1>2, <1>3, <1>4, PTL DEF Spec

-----------------------------------------------------------------------------

LEMMA DivLemma ==
  ASSUME NEW p \in Nat \ {0}, NEW n \in Nat, NEW k \in Nat, k * p <= n
  PROVE  k <= n \div p /\ n \div p \in Nat
<1> DEFINE q == n \div p
<1>1. q \in Nat /\ n < q * p + p
  OBVIOUS
<1> HIDE DEF q
<1>2. k * p < (q + 1) * p
  BY <1>1
<1>3. ~(k >= q + 1)
  BY <1>1, <1>2
<1> QED BY <1>1, <1>3 DEF q

LEMMA SumLemma ==
  ASSUME NEW a \in Nat, NEW b \in Nat, NEW n \in Nat, NEW max \in Nat,
         NEW c \in 0..max, a + b = c
  PROVE  a + (b + n) = c + n /\ a <= max
OBVIOUS

(* Part numbers follow the bytes: so many full parts, and what is in the   *)
(* buffer; each number is used once.                                       *)
CountInv ==
  /\ partNum \in Nat \ {0}
  /\ ~closing => (partNum - 1) * PartSize + Len(mem[buf]) = produced
  /\ \A p \in PartNums : p >= partNum => worker[p] = "idle"
  /\ pc = "send" => partNum - 1 \in PartNums /\ worker[partNum - 1] = "idle"

LEMMA CountStep ==
  TypeInv /\ BuffersExclusive /\ ProtocolInv /\ CountInv /\ [Next]_vars => CountInv'
<1> SUFFICES ASSUME TypeInv, BuffersExclusive, ProtocolInv, CountInv, [Next]_vars
             PROVE  CountInv'
  OBVIOUS
<1> USE DEF callVars, abortVars, bufVars, workVars, serverVars
<1>0. /\ worker \in [PartNums -> {"idle", "upload", "release", "gone"}]
      /\ buf \in Buffers /\ ret # "send"
      /\ PartSize \in Nat \ {0} /\ MaxBytes \in Nat
      /\ partNum \in Nat \ {0}
      /\ produced \in 0..MaxBytes
      /\ mem \in [Buffers -> Seq(0..MaxBytes)]
      /\ Len(mem[buf]) \in Nat
      /\ \A c \in Buffers : Len(mem[c]) \in Nat
  BY MultipartAssumption, LenProperties DEF TypeInv, TypeOK, CountInv
(* The actions that write no byte of the stream.                           *)
<1>1. ASSUME UNCHANGED <<partNum, produced, buf>>, mem'[buf] = mem[buf],
             closing => closing',
             \A p \in PartNums : worker[p] = "idle" => worker'[p] = "idle",
             pc' = "send" => pc = "send"
      PROVE  CountInv'
  BY <1>0, <1>1 DEF CountInv
<1>2. CASE Fill
  <2> DEFINE room == PartSize - Len(mem[buf])
             n    == IF left > room THEN room ELSE left
             full == (partNum - 1) * PartSize
  <2>1. Len(mem[buf]) <= PartSize /\ left \in Nat
    BY <1>0 DEF TypeInv, TypeOK
  <2>2. n \in Nat /\ n <= left /\ Len(mem[buf]) + n <= PartSize
    <3>1. PartSize \in Nat /\ room \in Nat /\ Len(mem[buf]) + room = PartSize
      BY <1>0, <2>1
    <3> HIDE DEF room
    <3>2. CASE left > room
      BY <1>0, <2>1, <3>1, <3>2
    <3>3. CASE ~(left > room)
      BY <1>0, <2>1, <3>1, <3>3
    <3> QED BY <3>2, <3>3
  <2>3. /\ mem' = [mem EXCEPT ![buf] = @ \o Chunk(n)]
        /\ produced' = produced + n
        /\ pc' # "send"
        /\ UNCHANGED <<closing, partNum, buf, worker>>
    BY <1>2 DEF Fill
  <2> HIDE DEF n
  <2>4. Len(mem'[buf]) = Len(mem[buf]) + n
    BY <1>0, <2>2, <2>3, AppendChunk
  <2>5. full \in Nat
    BY <1>0
  <2>6. ~closing => full + Len(mem[buf]) = produced
    BY DEF CountInv
  <2> HIDE DEF full
  <2>7. ~closing => full + Len(mem'[buf]) = produced'
    <3>1. SUFFICES ASSUME ~closing PROVE full + (Len(mem[buf]) + n) = produced + n
      BY <2>3, <2>4
    <3>2. full + Len(mem[buf]) = produced
      BY <2>6, <3>1
    <3>3. /\ MaxBytes \in Nat /\ produced \in 0..MaxBytes
          /\ Len(mem[buf]) \in Nat /\ n \in Nat
      BY <1>0, <2>2
    <3> QED BY <2>5, <3>2, <3>3, SumLemma
  <2> QED BY <1>0, <2>3, <2>7 DEF CountInv, full
(* dispatchBuffered, with a full buffer or with the last one.              *)
<1>3. ASSUME NEW to \in {"fill", "wait"}, Rotate(to), UNCHANGED <<produced, worker>>,
             ~closing,
             \/ closing'
             \/ ~closing' /\ Len(mem[buf]) = PartSize
      PROVE  CountInv'
  <2> DEFINE k == partNum - 1
  <2>1. /\ k \in Nat /\ k + 1 = partNum
        /\ partNum' = partNum + 1 /\ pc' = "send"
        /\ buf' \in Buffers /\ mem'[buf'] = <<>>
    BY <1>0, <1>3 DEF Rotate
  <2>2. k * PartSize + Len(mem[buf]) = produced /\ k * PartSize \in Nat
    BY <1>0, <1>3, <2>1 DEF CountInv
  <2>3. k * PartSize <= MaxBytes
    <3>1. MaxBytes \in Nat /\ produced \in 0..MaxBytes /\ Len(mem[buf]) \in Nat
      BY <1>0
    <3> HIDE DEF k
    <3> DEFINE full == k * PartSize
    <3>2. full \in Nat /\ full + Len(mem[buf]) = produced
      BY <2>2
    <3> HIDE DEF full
    <3>3. full <= MaxBytes
      BY <3>1, <3>2, SumLemma
    <3> QED BY <3>3 DEF full
  <2>4. k <= MaxBytes \div PartSize /\ MaxBytes \div PartSize \in Nat
    <3>1. PartSize \in Nat \ {0} /\ MaxBytes \in Nat /\ k \in Nat
      BY <1>0, <2>1
    <3> HIDE DEF k
    <3> QED BY <2>3, <3>1, DivLemma
  <2>5. partNum \in PartNums
    BY <1>0, <2>1, <2>4 DEF PartNums
  <2>6. worker[partNum] = "idle"
    BY <1>0, <2>5 DEF CountInv
  <2>7. ~closing' => partNum * PartSize + 0 = produced
    <3>1. (k + 1) * PartSize = k * PartSize + PartSize
      BY <1>0, <2>1
    <3> QED BY <1>0, <1>3, <2>1, <2>2, <3>1
  <2>8. partNum' - 1 = partNum /\ partNum' \in Nat \ {0} /\ Len(mem'[buf']) = 0
    BY <1>0, <2>1, EmptySeq
  <2>9. \A p \in PartNums : p >= partNum' => worker'[p] = "idle"
    <3>1. \A p \in PartNums : p \in Nat
      BY <2>4 DEF PartNums
    <3> QED BY <1>0, <1>3, <2>1, <3>1 DEF CountInv
  <2> HIDE DEF k
  <2>10. ~closing' => (partNum' - 1) * PartSize + Len(mem'[buf']) = produced'
    BY <1>3, <2>7, <2>8
  <2> QED BY <1>3, <2>5, <2>6, <2>8, <2>9, <2>10 DEF CountInv
<1>4. CASE DispatchFull
  <2>1. CASE failed
    BY <1>1, <1>4, <2>1 DEF DispatchFull
  <2>2. CASE ~failed
    <3>1. ~closing
      BY <1>4 DEF DispatchFull, ProtocolInv, CloseTail
    <3> QED BY <1>3, <1>4, <2>2, <3>1 DEF DispatchFull
  <2> QED BY <2>1, <2>2
<1>5. CASE CloseCall
  <2>1. CASE mem[buf] = <<>> \/ failed
    BY <1>1, <1>5, <2>1 DEF CloseCall
  <2>2. CASE ~(mem[buf] = <<>> \/ failed)
    <3>1. ~closing
      BY <1>5 DEF CloseCall, ProtocolInv, CloseTail
    <3> QED BY <1>3, <1>5, <2>2, <3>1 DEF CloseCall
  <2> QED BY <2>1, <2>2
<1>6. CASE Send
  <2> DEFINE pn == partNum - 1
  <2>1. /\ pn \in PartNums /\ pn < partNum /\ pc' = ret
        /\ worker' = [worker EXCEPT ![pn] = "upload"]
        /\ UNCHANGED <<produced, closing, partNum, buf, mem>>
    BY <1>0, <1>6 DEF Send, CountInv
  <2> HIDE DEF pn
  <2>2. \A p \in PartNums : p >= partNum => worker'[p] = "idle"
    <3>1. \A p \in PartNums : p >= partNum => p # pn
      BY <1>0, <2>1 DEF PartNums
    <3> QED BY <1>0, <2>1, <3>1 DEF CountInv
  <2> QED BY <1>0, <2>1, <2>2 DEF CountInv
<1>7. ASSUME NEW pn \in PartNums, UploadOnePart(pn) \/ ReleaseBuf(pn) PROVE CountInv'
  BY <1>0, <1>1, <1>7 DEF UploadOnePart, ReleaseBuf
<1>8. ASSUME NEW b \in Buffers, OtherGet(b) \/ OtherPut(b) PROVE CountInv'
  <2>1. owner[b] # "mine" /\ b # buf
    BY <1>8 DEF OtherGet, OtherPut, BuffersExclusive
  <2>2. mem'[buf] = mem[buf]
    BY <1>0, <1>8, <2>1 DEF OtherGet, OtherPut
  <2> QED BY <1>1, <1>8, <2>2 DEF OtherGet, OtherPut
<1>9. CASE \E n \in 1..MaxBytes : WriteCall(n)
  BY <1>1, <1>9 DEF WriteCall
<1>10. CASE CloseWait \/ Complete \/ AbortCall \/ AbortWait \/ AbortRemote \/ Cancel
  BY <1>1, <1>10 DEF CloseWait, Complete, AbortCall, AbortWait, AbortRemote, Cancel
<1>11. CASE UNCHANGED vars
  BY <1>1, <1>11 DEF vars
<1> QED BY <1>2, <1>4, <1>5, <1>6, <1>7, <1>8, <1>9, <1>10, <1>11 DEF Next, Internal

LEMMA InFlightFinite == IsFiniteSet(InFlight) /\ Cardinality(InFlight) \in Nat
<1>1. MaxBytes \div PartSize + 1 \in Nat
  BY MultipartAssumption
<1>2. IsFiniteSet(PartNums)
  BY <1>1, FS_Interval DEF PartNums
<1> QED BY <1>2, FS_Subset, FS_CardinalityType DEF InFlight

LEMMA OneMore ==
  ASSUME NEW S, NEW x, IsFiniteSet(S)
  PROVE  /\ IsFiniteSet(S \cup {x}) /\ Cardinality(S \cup {x}) \in Nat
         /\ Cardinality(S \cup {x}) <= Cardinality(S) + 1
<1>1. IsFiniteSet(S \cup {x}) /\ Cardinality(S \cup {x}) \in Nat /\ Cardinality(S) \in Nat
  BY FS_AddElement, FS_CardinalityType
<1>2. Cardinality(S \cup {x}) = IF x \in S THEN Cardinality(S) ELSE Cardinality(S) + 1
  BY FS_AddElement
<1> QED BY <1>1, <1>2

(* No buffer is held without a purpose, and tokens bound the workers.      *)
HeldInv ==
  /\ Cardinality(InFlight) <= Concurrency
  /\ \A b \in Held : \/ b = buf
                     \/ pc = "send" /\ b = body
                     \/ \E p \in InFlight : b = bodyOf[p]

LEMMA HeldStep ==
  TypeInv /\ BuffersExclusive /\ CountInv /\ HeldInv /\ [Next]_vars => HeldInv'
<1> SUFFICES ASSUME TypeInv, BuffersExclusive, CountInv, HeldInv, [Next]_vars PROVE HeldInv'
  OBVIOUS
<1> USE DEF callVars, abortVars, bufVars, workVars, serverVars
<1>0. /\ worker \in [PartNums -> {"idle", "upload", "release", "gone"}]
      /\ bodyOf \in [PartNums -> Buffers \cup {None}]
      /\ owner \in [Buffers -> {"free", "mine", "other"}]
      /\ buf \in Buffers /\ ret # "send"
      /\ pc = "send" => body \in Buffers
  BY DEF TypeInv, TypeOK, DataInv
<1>1. ASSUME UNCHANGED <<buf, owner, worker, bodyOf>>,
             pc = "send" => pc' = "send" /\ UNCHANGED body
      PROVE  HeldInv'
  <2>1. Held' = Held /\ InFlight' = InFlight
    BY <1>1 DEF Held, InFlight
  <2> QED BY <1>1, <2>1 DEF HeldInv
<1>2. ASSUME NEW to \in {"fill", "wait"}, Rotate(to), pc # "send",
             UNCHANGED <<worker, bodyOf>>
      PROVE  HeldInv'
  <2>1. /\ buf' \in Buffers /\ owner' = [owner EXCEPT ![buf'] = "mine"]
        /\ body' = buf /\ pc' = "send"
    BY <1>2 DEF Rotate
  <2>2. InFlight' = InFlight /\ Held' \subseteq Held \cup {buf'}
    BY <1>0, <1>2, <2>1 DEF InFlight, Held
  <2> QED BY <1>2, <2>1, <2>2 DEF HeldInv
<1>3. CASE Send
  <2> DEFINE pn == partNum - 1
  <2>1. /\ pc = "send" /\ pc' # "send"
        /\ Cardinality(InFlight) < Concurrency
        /\ worker' = [worker EXCEPT ![pn] = "upload"]
        /\ bodyOf' = [bodyOf EXCEPT ![pn] = body]
        /\ UNCHANGED <<buf, owner>>
    BY <1>0, <1>3 DEF Send
  <2>2. pn \in PartNums /\ worker[pn] = "idle"
    BY <2>1 DEF CountInv
  <2> HIDE DEF pn
  <2>3. pn \notin InFlight /\ InFlight' = InFlight \cup {pn} /\ Held' = Held
    BY <1>0, <2>1, <2>2 DEF InFlight, Held
  <2>4. Cardinality(InFlight') <= Concurrency
    <3>1. Cardinality(InFlight \cup {pn}) = Cardinality(InFlight) + 1
      BY <2>3, InFlightFinite, FS_AddElement
    <3>2. Cardinality(InFlight) \in Nat /\ Concurrency \in Nat
      BY InFlightFinite, MultipartAssumption
    <3> QED BY <2>1, <2>3, <3>1, <3>2
  <2>5. bodyOf'[pn] = body /\ \A p \in InFlight : bodyOf'[p] = bodyOf[p]
    BY <1>0, <2>1, <2>2, <2>3 DEF InFlight
  <2> QED BY <2>1, <2>3, <2>4, <2>5 DEF HeldInv
<1>4. ASSUME NEW pn \in PartNums, UploadOnePart(pn) PROVE HeldInv'
  <2>1. InFlight' = InFlight /\ Held' = Held
    BY <1>0, <1>4 DEF UploadOnePart, InFlight, Held
  <2> QED BY <1>4, <2>1 DEF UploadOnePart, HeldInv
<1>5. ASSUME NEW pn \in PartNums, ReleaseBuf(pn) PROVE HeldInv'
  <2>1. /\ pn \in InFlight /\ InFlight' = InFlight \ {pn}
        /\ UNCHANGED <<buf, body, bodyOf, pc>>
    BY <1>0, <1>5 DEF ReleaseBuf, InFlight
  <2>2. Held' \subseteq Held \ {bodyOf[pn]}
    <3>1. bodyOf[pn] \in Buffers
      BY <2>1 DEF TypeInv, DataInv
    <3> QED BY <1>0, <1>5, <3>1 DEF ReleaseBuf, Held
  <2>3. Cardinality(InFlight') <= Concurrency
    <3>1. Cardinality(InFlight') = Cardinality(InFlight) - 1
      BY <2>1, InFlightFinite, FS_RemoveElement
    <3>2. Cardinality(InFlight) \in Nat /\ Concurrency \in Nat
          /\ Cardinality(InFlight) <= Concurrency
      BY InFlightFinite, MultipartAssumption DEF HeldInv
    <3> QED BY <3>1, <3>2
  <2> QED BY <2>1, <2>2, <2>3 DEF HeldInv
<1>6. ASSUME NEW b \in Buffers, OtherGet(b) \/ OtherPut(b) PROVE HeldInv'
  <2>1. /\ Held' \subseteq Held
        /\ UNCHANGED <<buf, body, bodyOf, worker, pc>>
    BY <1>0, <1>6 DEF OtherGet, OtherPut, Held
  <2>2. InFlight' = InFlight
    BY <2>1 DEF InFlight
  <2> QED BY <2>1, <2>2 DEF HeldInv
<1>7. CASE DispatchFull
  <2>1. CASE failed
    BY <1>1, <1>7, <2>1 DEF DispatchFull
  <2>2. CASE ~failed
    BY <1>2, <1>7, <2>2 DEF DispatchFull
  <2> QED BY <2>1, <2>2
<1>8. CASE CloseCall
  <2>1. CASE mem[buf] = <<>> \/ failed
    BY <1>1, <1>8, <2>1 DEF CloseCall
  <2>2. CASE ~(mem[buf] = <<>> \/ failed)
    BY <1>2, <1>8, <2>2 DEF CloseCall
  <2> QED BY <2>1, <2>2
<1>9. CASE \E n \in 1..MaxBytes : WriteCall(n)
  BY <1>1, <1>9 DEF WriteCall
<1>10. CASE Fill \/ CloseWait \/ Complete \/ AbortCall \/ AbortWait \/ AbortRemote \/ Cancel
  BY <1>1, <1>10 DEF Fill, CloseWait, Complete, AbortCall, AbortWait, AbortRemote, Cancel
<1>11. CASE UNCHANGED vars
  BY <1>1, <1>11 DEF vars
<1> QED BY <1>3, <1>4, <1>5, <1>6, <1>7, <1>8, <1>9, <1>10, <1>11 DEF Next, Internal

LEMMA HeldInit == Init => HeldInv
<1> SUFFICES ASSUME Init PROVE HeldInv
  OBVIOUS
<1>1. InFlight = {} /\ Held = {buf} /\ Cardinality(InFlight) = 0
  BY FS_EmptySet DEF Init, InFlight, Held
<1> QED BY <1>1, MultipartAssumption DEF HeldInv

(* The memory of a writer is bounded by its concurrency, however much is   *)
(* written: Concurrency + 2 buffers of PartSize bytes (sem, acquireBuf).   *)
THEOREM CeilingTheorem == Spec => []BufferCeiling
<1> DEFINE Inv == TypeInv /\ BuffersExclusive /\ ProtocolInv /\ CountInv /\ HeldInv
<1>1. Init => Inv
  <2> SUFFICES ASSUME Init PROVE Inv
    OBVIOUS
  <2>1. InFlight = {}
    BY DEF Init, InFlight
  <2>2. HeldInv
    BY HeldInit
  <2>3. BuffersExclusive /\ ProtocolInv
    BY <2>1 DEF Init, BuffersExclusive, ProtocolInv, CloseTail
  <2>4. CountInv
    <3>1. /\ partNum = 1 /\ produced = 0 /\ pc = "idle" /\ mem[buf] = <<>>
          /\ worker = [p \in PartNums |-> "idle"]
      BY DEF Init
    <3>2. (partNum - 1) * PartSize + Len(mem[buf]) = produced
      BY <3>1, EmptySeq, MultipartAssumption
    <3> QED BY <3>1, <3>2 DEF CountInv
  <2> QED BY <2>2, <2>3, <2>4, TypeInit
<1>2. Inv /\ [Next]_vars => Inv'
  BY TypeStep, ExclusiveStep, ProtocolStep, CountStep, HeldStep
<1>3. Inv => BufferCeiling
  <2> SUFFICES ASSUME Inv PROVE BufferCeiling
    OBVIOUS
  <2> DEFINE Sent == {bodyOf[p] : p \in InFlight}
  <2>1. /\ IsFiniteSet(Sent) /\ Cardinality(Sent) <= Cardinality(InFlight)
        /\ Cardinality(Sent) \in Nat
    <3> DEFINE f == [p \in InFlight |-> bodyOf[p]]
    <3>1. f \in Surjection(InFlight, Sent)
      BY DEF Surjection
    <3> QED BY <3>1, InFlightFinite, FS_Surjection, FS_CardinalityType
  <2> HIDE DEF Sent
  <2>2. /\ IsFiniteSet(Sent \cup {body}) /\ Cardinality(Sent \cup {body}) \in Nat
        /\ Cardinality(Sent \cup {body}) <= Cardinality(Sent) + 1
    BY <2>1, OneMore
  <2>3. /\ IsFiniteSet((Sent \cup {body}) \cup {buf})
        /\ Cardinality((Sent \cup {body}) \cup {buf}) \in Nat
        /\ Cardinality((Sent \cup {body}) \cup {buf}) <= Cardinality(Sent \cup {body}) + 1
    BY <2>2, OneMore
  <2>4. Held \subseteq (Sent \cup {body}) \cup {buf}
    BY DEF HeldInv, Sent
  <2>5. /\ Cardinality(Held) <= Cardinality((Sent \cup {body}) \cup {buf})
        /\ Cardinality(Held) \in Nat
    BY <2>3, <2>4, FS_Subset, FS_CardinalityType
  <2>6. /\ Cardinality(InFlight) <= Concurrency /\ Cardinality(InFlight) \in Nat
        /\ Concurrency \in Nat
    BY InFlightFinite, MultipartAssumption DEF HeldInv
  <2> QED BY <2>1, <2>2, <2>3, <2>5, <2>6 DEF BufferCeiling
<1> QED BY <1>1, <1>2, <1>3, PTL DEF Spec

-----------------------------------------------------------------------------

(* uploadPart is a caller of the writer like any other.                    *)
LEMMA StreamSteps == [StreamNext]_<<vars, partVars>> => [Next]_vars
<1> SUFFICES ASSUME [StreamNext]_<<vars, partVars>> PROVE [Next]_vars
  OBVIOUS
<1>1. CASE WriteBlock
  BY <1>1 DEF WriteBlock, Next
<1>2. CASE CloseWriter
  BY <1>2 DEF CloseWriter, Next
<1>3. CASE AbortWriter
  BY <1>3 DEF AbortWriter, Next
<1>4. CASE \/ Feed \/ StreamFails \/ StreamEnds \/ Flush \/ Closed \/ Aborted
           \/ StopCall \/ Stop \/ Tick \/ Quit
  BY <1>4 DEF Feed, StreamFails, StreamEnds, Flush, Closed, Aborted, StopCall, Stop,
              Tick, Quit
<1>5. CASE Internal \/ Cancel \/ \E b \in Buffers : OtherGet(b) \/ OtherPut(b)
  BY <1>5 DEF Next
<1>6. CASE UNCHANGED <<vars, partVars>>
  BY <1>6
<1> QED BY <1>1, <1>2, <1>3, <1>4, <1>5, <1>6 DEF StreamNext

(* So what holds of the writer, whoever calls it, holds for every part.    *)
THEOREM StreamTheorem ==
  StreamSpec => [](BuffersExclusive /\ QuietTermination /\ BufferCeiling)
<1>1. StreamInit => Init
  BY DEF StreamInit
<1>2. StreamSpec => Spec
  BY <1>1, StreamSteps, PTL DEF StreamSpec, Spec
<1> QED BY <1>2, ExclusiveTheorem, QuietTheorem, CeilingTheorem, PTL

(* The writer is closed only behind a stream that was walked, flushed and  *)
(* written to its end.                                                     *)
StreamInv ==
  /\ object # Old => closing
  /\ closing => stage \notin {"stream", "flush"}
  /\ stage \in {"flush", "close"} \/ closing => fed
  /\ stage = "close" \/ closing => ~block
  /\ stage = "close" /\ ~closing => pc = "idle"
  /\ closing \/ pc = "idle" => left = 0

LEMMA StreamStep ==
  TypeInv /\ ProtocolInv /\ StreamInv /\ [StreamNext]_<<vars, partVars>> => StreamInv'
<1> SUFFICES ASSUME TypeInv, ProtocolInv, StreamInv, [StreamNext]_<<vars, partVars>>
             PROVE  StreamInv'
  OBVIOUS
<1> USE DEF callVars, abortVars, bufVars, workVars, serverVars, vars,
            streamVars, trackerVars, partVars
<1>0. /\ closing <=> \/ pc \in {"wait", "complete", "abortRemote", "closed", "closeErr"}
                     \/ pc = "send" /\ ret = "wait"
      /\ ret \in {"fill", "wait"} /\ closing \in BOOLEAN
  BY DEF ProtocolInv, CloseTail, TypeInv, TypeOK
<1>1. CASE Feed
  BY <1>1 DEF Feed, StreamInv
<1>2. CASE WriteBlock
  BY <1>0, <1>2 DEF WriteBlock, WriteCall, StreamInv
<1>3. CASE StreamFails \/ StreamEnds
  BY <1>3 DEF StreamFails, StreamEnds, StreamInv
<1>4. CASE Flush
  BY <1>4 DEF Flush, StreamInv
<1>5. CASE CloseWriter
  <2>1. /\ stage = "close" /\ pc = "idle" /\ closing' = TRUE /\ pc' \in {"wait", "send"}
        /\ UNCHANGED <<stage, fed, block, object, left>>
    BY <1>5 DEF CloseWriter, CloseCall, Rotate
  <2> QED BY <2>1 DEF StreamInv
<1>6. CASE Closed \/ AbortWriter \/ Aborted \/ StopCall \/ Stop \/ Tick \/ Quit
  BY <1>6 DEF Closed, AbortWriter, AbortCall, Aborted, StopCall, Stop, Tick, Quit, StreamInv
<1>7. CASE Internal /\ UNCHANGED partVars
  <2>1. CASE Fill
    BY <1>0, <1>7, <2>1 DEF Fill, StreamInv
  <2>2. CASE DispatchFull
    <3>1. /\ pc = "fill" /\ pc' \in {"werr", "send"} /\ UNCHANGED <<closing, object>>
      BY <2>2 DEF DispatchFull, Rotate
    <3> QED BY <1>0, <1>7, <3>1 DEF StreamInv
  <2>3. CASE Send
    BY <1>0, <1>7, <2>3 DEF Send, StreamInv
  <2>4. CASE Complete
    <3>1. /\ pc = "complete" /\ pc' # "idle" /\ UNCHANGED <<closing, left>>
      BY <2>4 DEF Complete
    <3> QED BY <1>0, <1>7, <3>1 DEF StreamInv
  <2>5. CASE CloseWait \/ AbortWait \/ AbortRemote
    BY <1>0, <1>7, <2>5 DEF CloseWait, AbortWait, AbortRemote, StreamInv
  <2>6. CASE \E pn \in PartNums : UploadOnePart(pn) \/ ReleaseBuf(pn)
    BY <1>7, <2>6 DEF UploadOnePart, ReleaseBuf, StreamInv
  <2> QED BY <1>7, <2>1, <2>2, <2>3, <2>4, <2>5, <2>6 DEF Internal
<1>8. CASE /\ Cancel \/ \E b \in Buffers : OtherGet(b) \/ OtherPut(b)
           /\ UNCHANGED partVars
  BY <1>8 DEF Cancel, OtherGet, OtherPut, StreamInv
<1>9. CASE UNCHANGED <<vars, partVars>>
  BY <1>9 DEF StreamInv
<1> QED BY <1>1, <1>2, <1>3, <1>4, <1>5, <1>6, <1>7, <1>8, <1>9 DEF StreamNext

(* A walk, a tar or an encoder that fails commits nothing, and neither     *)
(* does one whose last block is not written yet (uploadPart).              *)
THEOREM WholeStreamTheorem == StreamSpec => []OnlyWholeStreams
<1> DEFINE Inv == TypeInv /\ ProtocolInv /\ StreamInv
<1>1. StreamInit => Inv
  <2>1. StreamInit => TypeInv
    BY TypeInit DEF StreamInit
  <2>2. StreamInit => ProtocolInv /\ StreamInv
    BY DEF StreamInit, Init, ProtocolInv, CloseTail, InFlight, StreamInv
  <2> QED BY <2>1, <2>2
<1>2. Inv /\ [StreamNext]_<<vars, partVars>> => Inv'
  BY StreamSteps, TypeStep, ProtocolStep, StreamStep
<1>3. Inv => OnlyWholeStreams
  BY DEF StreamInv, OnlyWholeStreams
<1> QED BY <1>1, <1>2, <1>3, PTL DEF StreamSpec

-----------------------------------------------------------------------------

(* Bytes first .. first + n - 1 of the stream, where part k begins.        *)
PartBytes(k, n) == [j \in 1..n |-> (k - 1) * PartSize + j]

(* The bytes of part k, as far as they have been written.                  *)
SizeOf(k) == IF k * PartSize <= produced THEN PartSize
             ELSE produced - (k - 1) * PartSize
Whole(k) == PartBytes(k, SizeOf(k))

Sent(p) == worker[p] \in {"release", "gone"}

(* What is in the buffers, and what the server has got.                    *)
ContentInv ==
  /\ ~closing => mem[buf] = PartBytes(partNum, Len(mem[buf]))
  /\ pc = "send" => mem[body] = Whole(partNum - 1)
  /\ \A p \in InFlight : mem[bodyOf[p]] = Whole(p)
  /\ \A i \in DOMAIN parts : server[parts[i]] = Whole(parts[i])

(* w.parts has each part that was taken once, and unless a failure was     *)
(* recorded every part that was sent.                                      *)
ListInv ==
  /\ \A i \in DOMAIN parts : Sent(parts[i])
  /\ \A i, j \in DOMAIN parts : parts[i] = parts[j] => i = j
  /\ ~failed => \A p \in PartNums : Sent(p) => \E i \in DOMAIN parts : parts[i] = p
  /\ \A p \in PartNums : p < partNum /\ worker[p] = "idle" => pc = "send" /\ p = partNum - 1
  /\ partNum > 1 => partNum - 1 \in PartNums

(* Close goes on to complete only what was flushed.                        *)
FlushInv ==
  /\ closing /\ ~failed =>
       (partNum - 2) * PartSize < produced /\ produced <= (partNum - 1) * PartSize
  /\ pc = "complete" => ~failed

-----------------------------------------------------------------------------

(* Arithmetic of full parts.                                               *)
LEMMA FullLemma ==
  ASSUME NEW ps \in Nat \ {0}, NEW k \in Nat, NEW m \in Nat, k < m,
         NEW l \in Nat, NEW n \in Nat, (m - 1) * ps + l = n
  PROVE  k * ps <= n
<1>1. k * ps <= (m - 1) * ps
  <2>1. PICK d \in Nat : m - 1 = k + d
    <3>1. m - 1 - k \in Nat /\ m - 1 = k + (m - 1 - k)
      OBVIOUS
    <3> QED BY <3>1
  <2>2. (k + d) * ps = k * ps + d * ps /\ d * ps \in Nat /\ k * ps \in Nat
    OBVIOUS
  <2> QED BY <2>1, <2>2
<1>2. k * ps \in Nat /\ (m - 1) * ps \in Int
  OBVIOUS
<1> QED BY <1>1, <1>2

LEMMA ConcatBytes ==
  ASSUME NEW a \in Nat, NEW l \in Nat, NEW n \in Nat
  PROVE  [j \in 1..l |-> a + j] \o [j \in 1..n |-> (a + l) + j] = [j \in 1..(l + n) |-> a + j]
<1> DEFINE s == [j \in 1..l |-> a + j]
           t == [j \in 1..n |-> (a + l) + j]
           u == [j \in 1..(l + n) |-> a + j]
<1>1. /\ s \in [1..l -> Nat] /\ t \in [1..n -> Nat] /\ u \in [1..(l + n) -> Nat]
  OBVIOUS
<1>2. /\ s \in Seq(Nat) /\ t \in Seq(Nat) /\ u \in Seq(Nat)
      /\ Len(s) = l /\ Len(t) = n /\ Len(u) = l + n
  BY <1>1, SeqDef, LenProperties
<1>3. /\ s \o t \in Seq(Nat) /\ Len(s \o t) = l + n
      /\ \A i \in 1..(l + n) : (s \o t)[i] = IF i <= l THEN s[i] ELSE t[i - l]
  BY <1>2, ConcatProperties
<1>4. \A i \in 1..(l + n) : (s \o t)[i] = u[i]
  <2> SUFFICES ASSUME NEW i \in 1..(l + n) PROVE (s \o t)[i] = u[i]
    OBVIOUS
  <2>1. CASE i <= l
    BY <1>3, <2>1
  <2>2. CASE ~(i <= l)
    <3>1. i - l \in 1..n /\ (a + l) + (i - l) = a + i
      BY <2>2
    <3> QED BY <1>3, <2>2, <3>1
  <2> QED BY <2>1, <2>2
<1> HIDE DEF s, t, u
<1>5. s \o t = u
  BY <1>2, <1>3, <1>4, SeqEqual
<1> QED BY <1>5 DEF s, t, u

(* While Close has not been called, every part that was handed over is     *)
(* full, and stays as it is.                                               *)
LEMMA FullParts ==
  ASSUME TypeInv, CountInv, ~closing, NEW k \in Nat, k < partNum
  PROVE  SizeOf(k) = PartSize /\ k * PartSize <= produced
<1>1. /\ PartSize \in Nat \ {0} /\ partNum \in Nat /\ produced \in Nat
      /\ Len(mem[buf]) \in Nat
      /\ (partNum - 1) * PartSize + Len(mem[buf]) = produced
  BY MultipartAssumption, LenProperties DEF TypeInv, TypeOK, CountInv
<1>2. k * PartSize <= produced
  BY <1>1, FullLemma
<1> QED BY <1>2 DEF SizeOf

LEMMA ContentStep ==
  TypeInv /\ BuffersExclusive /\ ProtocolInv /\ CountInv /\ ContentInv /\ ListInv /\ [Next]_vars
    => ContentInv'
<1> SUFFICES ASSUME TypeInv, BuffersExclusive, ProtocolInv, CountInv, ContentInv, ListInv,
                    [Next]_vars
             PROVE  ContentInv'
  OBVIOUS
<1> USE DEF callVars, abortVars, bufVars, workVars, serverVars
<1>0. /\ worker \in [PartNums -> {"idle", "upload", "release", "gone"}]
      /\ bodyOf \in [PartNums -> Buffers \cup {None}]
      /\ server \in [PartNums -> Seq(0..MaxBytes)]
      /\ owner \in [Buffers -> {"free", "mine", "other"}]
      /\ buf \in Buffers /\ ret # "send"
      /\ pc = "send" => body \in Buffers
      /\ \A p \in InFlight : bodyOf[p] \in Buffers
      /\ PartSize \in Nat \ {0} /\ MaxBytes \in Nat
      /\ partNum \in Nat \ {0}
      /\ produced \in Nat
      /\ mem \in [Buffers -> Seq(0..MaxBytes)]
      /\ \A c \in Buffers : Len(mem[c]) \in Nat
      /\ parts \in Seq(PartNums)
  BY MultipartAssumption, LenProperties DEF TypeInv, TypeOK, DataInv, CountInv
<1>01. \A p \in PartNums : p \in Nat \ {0} /\ (worker[p] # "idle" => p < partNum)
  <2>1. \A p \in PartNums : p \in Nat \ {0}
    BY <1>0 DEF PartNums
  <2> QED BY <1>0, <2>1 DEF CountInv
<1>02. /\ DOMAIN parts = 1..Len(parts) /\ Len(parts) \in Nat
       /\ \A i \in DOMAIN parts : parts[i] \in PartNums
  BY <1>0, LenProperties, ElementOfSeq
(* The actions that write to no buffer of this writer.                     *)
<1>1. ASSUME UNCHANGED <<partNum, produced, buf, server, parts>>,
             \A b \in Buffers : owner[b] = "mine" => mem'[b] = mem[b],
             closing => closing',
             InFlight' \subseteq InFlight,
             bodyOf' = bodyOf,
             pc' = "send" => pc = "send" /\ UNCHANGED body
      PROVE  ContentInv'
  <2>1. \A k : Whole(k)' = Whole(k)
    BY <1>1 DEF Whole, SizeOf, PartBytes
  <2>2. mem'[buf] = mem[buf] /\ (pc = "send" => mem'[body] = mem[body])
        /\ \A p \in InFlight : mem'[bodyOf[p]] = mem[bodyOf[p]]
    BY <1>0, <1>1 DEF BuffersExclusive
  <2> QED BY <1>1, <2>1, <2>2 DEF ContentInv, PartBytes
<1>2. CASE Fill
  <2> DEFINE room == PartSize - Len(mem[buf])
             n    == IF left > room THEN room ELSE left
             l    == Len(mem[buf])
             a    == (partNum - 1) * PartSize
  <2>0. ~closing
    BY <1>2 DEF Fill, ProtocolInv, CloseTail
  <2>1. l <= PartSize /\ left \in Nat /\ l \in Nat
    BY <1>0 DEF TypeInv, TypeOK
  <2>2. n \in Nat /\ n <= left /\ l + n <= PartSize
    <3>1. PartSize \in Nat /\ room \in Nat /\ l + room = PartSize
      BY <1>0, <2>1
    <3> HIDE DEF room, l
    <3>2. CASE left > room
      BY <1>0, <2>1, <3>1, <3>2
    <3>3. CASE ~(left > room)
      BY <1>0, <2>1, <3>1, <3>3
    <3> QED BY <3>2, <3>3
  <2>3. /\ mem' = [mem EXCEPT ![buf] = @ \o Chunk(n)]
        /\ produced' = produced + n
        /\ pc' # "send"
        /\ UNCHANGED <<closing, partNum, buf, worker, bodyOf, parts, server>>
    BY <1>2 DEF Fill
  <2> HIDE DEF n
  <2>4. Len(mem'[buf]) = l + n
    BY <1>0, <2>2, <2>3, AppendChunk
  <2>5. a \in Nat /\ a + l = produced
    BY <1>0, <2>0 DEF CountInv
  <2>6. mem[buf] = [j \in 1..l |-> a + j]
    BY <2>0 DEF ContentInv, PartBytes
  <2> HIDE DEF l, a
  <2>7. mem[buf] \o Chunk(n) = [j \in 1..(l + n) |-> a + j]
    <3>1. Chunk(n) = [j \in 1..n |-> (a + l) + j]
      BY <2>5 DEF Chunk
    <3> QED BY <2>1, <2>2, <2>5, <2>6, <3>1, ConcatBytes
  <2>8. mem'[buf] = PartBytes(partNum, Len(mem'[buf]))
    BY <1>0, <2>3, <2>4, <2>7 DEF PartBytes, a
  <2>9. ASSUME NEW k \in Nat, k < partNum PROVE Whole(k)' = Whole(k)
    <3>1. SizeOf(k) = PartSize /\ k * PartSize <= produced
      BY <2>0, <2>9, FullParts
    <3>2. k * PartSize \in Nat /\ k * PartSize <= produced + n
      BY <1>0, <2>2, <3>1
    <3>3. SizeOf(k)' = PartSize
      BY <2>3, <3>2 DEF SizeOf
    <3> QED BY <3>1, <3>3 DEF Whole, PartBytes
  <2>10. \A p \in InFlight : p \in Nat /\ p < partNum /\ mem'[bodyOf[p]] = mem[bodyOf[p]]
    <3>1. \A p \in InFlight : bodyOf[p] # buf /\ p \in Nat /\ p < partNum
      BY <1>01 DEF BuffersExclusive, InFlight
    <3> QED BY <1>0, <2>3, <3>1
  <2>11. \A i \in DOMAIN parts : parts[i] \in Nat /\ parts[i] < partNum
    BY <1>01, <1>02 DEF ListInv, Sent
  <2>12. InFlight' = InFlight
    BY <2>3 DEF InFlight
  <2> QED BY <2>3, <2>8, <2>9, <2>10, <2>11, <2>12 DEF ContentInv
(* dispatchBuffered, with a full buffer or with the last one.              *)
<1>3. ASSUME NEW to \in {"fill", "wait"}, Rotate(to),
             UNCHANGED <<produced, worker, bodyOf, server, parts>>,
             ~closing, mem[buf] # <<>>
      PROVE  ContentInv'
  <2> DEFINE l == Len(mem[buf])
             a == (partNum - 1) * PartSize
  <2>1. PICK b \in Buffers : /\ owner[b] = "free" /\ buf' = b
                             /\ mem' = [mem EXCEPT ![b] = <<>>]
    BY <1>3 DEF Rotate
  <2>2. body' = buf /\ partNum' = partNum + 1 /\ partNum' - 1 = partNum
    BY <1>0, <1>3 DEF Rotate
  <2>3. b # buf /\ \A p \in InFlight : bodyOf[p] # b
    BY <2>1 DEF BuffersExclusive
  <2>4. mem'[buf] = mem[buf] /\ \A p \in InFlight : mem'[bodyOf[p]] = mem[bodyOf[p]]
    BY <1>0, <2>1, <2>3
  <2>5. \A k : Whole(k)' = Whole(k)
    BY <1>3 DEF Whole, SizeOf, PartBytes
  <2>6. mem'[buf'] = PartBytes(partNum', Len(mem'[buf']))
    <3>1. mem'[buf'] = <<>> /\ Len(<<>>) = 0
      BY <1>0, <2>1, EmptySeq
    <3>2. \A k : PartBytes(k, 0) = <<>>
      BY DEF PartBytes
    <3> QED BY <3>1, <3>2 DEF PartBytes
  <2>7. mem[buf] = Whole(partNum)
    <3>1. l \in Nat \ {0} /\ l <= PartSize
      BY <1>0, <1>3, EmptySeq DEF TypeInv, TypeOK
    <3>2. a \in Nat /\ a + l = produced
      BY <1>0, <1>3 DEF CountInv
    <3>3. partNum * PartSize = a + PartSize
      BY <1>0
    <3>4. mem[buf] = PartBytes(partNum, l)
      BY <1>3 DEF ContentInv
    <3> HIDE DEF l, a
    <3>5. SizeOf(partNum) = l
      <4>1. (a + PartSize <= produced => PartSize = l) /\ produced - a = l
        BY <1>0, <3>1, <3>2
      <4> QED BY <3>3, <4>1 DEF SizeOf, a
    <3> QED BY <3>4, <3>5 DEF Whole
  <2>8. InFlight' = InFlight
    BY <1>3 DEF InFlight
  <2> QED BY <1>3, <2>2, <2>4, <2>5, <2>6, <2>7, <2>8 DEF ContentInv
<1>4. CASE Send
  <2> DEFINE pn == partNum - 1
  <2>1. /\ pc = "send" /\ pc' = ret
        /\ worker' = [worker EXCEPT ![pn] = "upload"]
        /\ bodyOf' = [bodyOf EXCEPT ![pn] = body]
        /\ UNCHANGED <<produced, partNum, buf, mem, closing, server, parts>>
    BY <1>4 DEF Send
  <2>2. mem[body] = Whole(pn)
    BY <2>1 DEF ContentInv
  <2> HIDE DEF pn
  <2>3. \A p \in InFlight' : IF p = pn THEN bodyOf'[p] = body
                                      ELSE p \in InFlight /\ bodyOf'[p] = bodyOf[p]
    BY <1>0, <2>1 DEF InFlight
  <2>4. \A k : Whole(k)' = Whole(k)
    BY <2>1 DEF Whole, SizeOf, PartBytes
  <2> QED BY <1>0, <2>1, <2>2, <2>3, <2>4 DEF ContentInv, PartBytes
<1>5. ASSUME NEW pn \in PartNums, UploadOnePart(pn) PROVE ContentInv'
  <2>1. /\ InFlight' = InFlight /\ pn \in InFlight /\ ~Sent(pn)
        /\ UNCHANGED <<callVars, bufVars, bodyOf>>
    BY <1>0, <1>5 DEF UploadOnePart, InFlight, Sent
  <2>2. \A k : Whole(k)' = Whole(k)
    BY <2>1 DEF Whole, SizeOf, PartBytes
  <2>3. \A i \in DOMAIN parts' : server'[parts'[i]] = Whole(parts'[i])
    <3>1. CASE UNCHANGED <<server, parts>>
      BY <3>1 DEF ContentInv
    <3>2. CASE /\ server' = [server EXCEPT ![pn] = mem[bodyOf[pn]]]
               /\ parts' = Append(parts, pn)
      <4>1. /\ Len(parts') = Len(parts) + 1 /\ DOMAIN parts' = 1..(Len(parts) + 1)
            /\ \A i \in 1..Len(parts) : parts'[i] = parts[i]
            /\ parts'[Len(parts) + 1] = pn
        BY <1>0, <1>02, <3>2, AppendProperties
      <4>2. \A i \in DOMAIN parts : parts[i] # pn
        BY <2>1 DEF ListInv
      <4>3. server'[pn] = Whole(pn)
        BY <1>0, <2>1, <3>2 DEF ContentInv
      <4>4. \A i \in DOMAIN parts : server'[parts[i]] = Whole(parts[i])
        BY <1>0, <1>02, <3>2, <4>2 DEF ContentInv
      <4>5. \A i \in 1..(Len(parts) + 1) : i \in 1..Len(parts) \/ i = Len(parts) + 1
        BY <1>02
      <4> QED BY <1>02, <4>1, <4>3, <4>4, <4>5
    <3> QED BY <1>5, <3>1, <3>2 DEF UploadOnePart
  <2> QED BY <2>1, <2>2, <2>3 DEF ContentInv, PartBytes
<1>6. ASSUME NEW pn \in PartNums, ReleaseBuf(pn) PROVE ContentInv'
  <2>1. InFlight' \subseteq InFlight
    BY <1>0, <1>6 DEF ReleaseBuf, InFlight
  <2> QED BY <1>1, <1>6, <2>1 DEF ReleaseBuf
<1>7. ASSUME NEW b \in Buffers, OtherGet(b) \/ OtherPut(b) PROVE ContentInv'
  <2>1. \A c \in Buffers : owner[c] = "mine" => mem'[c] = mem[c]
    BY <1>0, <1>7 DEF OtherGet, OtherPut
  <2>2. InFlight' = InFlight
    BY <1>7 DEF OtherGet, OtherPut, InFlight
  <2> QED BY <1>1, <1>7, <2>1, <2>2 DEF OtherGet, OtherPut
<1>8. CASE DispatchFull
  <2>1. CASE failed
    <3>1. InFlight' = InFlight
      BY <1>8, <2>1 DEF DispatchFull, InFlight
    <3> QED BY <1>1, <1>8, <2>1, <3>1 DEF DispatchFull
  <2>2. CASE ~failed
    <3>1. ~closing
      BY <1>8 DEF DispatchFull, ProtocolInv, CloseTail
    <3>2. mem[buf] # <<>>
      BY <1>0, <1>8, EmptySeq DEF DispatchFull
    <3> QED BY <1>3, <1>8, <2>2, <3>1, <3>2 DEF DispatchFull
  <2> QED BY <2>1, <2>2
<1>9. CASE CloseCall
  <2>1. CASE mem[buf] = <<>> \/ failed
    <3>1. InFlight' = InFlight
      BY <1>9, <2>1 DEF CloseCall, InFlight
    <3> QED BY <1>1, <1>9, <2>1, <3>1 DEF CloseCall
  <2>2. CASE ~(mem[buf] = <<>> \/ failed)
    <3>1. ~closing
      BY <1>9 DEF CloseCall, ProtocolInv, CloseTail
    <3> QED BY <1>3, <1>9, <2>2, <3>1 DEF CloseCall
  <2> QED BY <2>1, <2>2
<1>10. CASE \E n \in 1..MaxBytes : WriteCall(n)
  <2>1. InFlight' = InFlight
    BY <1>10 DEF WriteCall, InFlight
  <2> QED BY <1>1, <1>10, <2>1 DEF WriteCall
<1>11. CASE CloseWait \/ Complete \/ AbortCall \/ AbortWait \/ AbortRemote \/ Cancel
  <2>1. InFlight' = InFlight
    BY <1>11 DEF CloseWait, Complete, AbortCall, AbortWait, AbortRemote, Cancel, InFlight
  <2> QED BY <1>1, <1>11, <2>1
          DEF CloseWait, Complete, AbortCall, AbortWait, AbortRemote, Cancel
<1>12. CASE UNCHANGED vars
  <2>1. InFlight' = InFlight
    BY <1>12 DEF vars, InFlight
  <2> QED BY <1>1, <1>12, <2>1 DEF vars
<1> QED BY <1>2, <1>4, <1>5, <1>6, <1>7, <1>8, <1>9, <1>10, <1>11, <1>12 DEF Next, Internal

LEMMA ListStep ==
  TypeInv /\ ProtocolInv /\ CountInv /\ ListInv /\ [Next]_vars => ListInv'
<1> SUFFICES ASSUME TypeInv, ProtocolInv, CountInv, ListInv, [Next]_vars PROVE ListInv'
  OBVIOUS
<1> USE DEF callVars, abortVars, bufVars, workVars, serverVars
<1>0. /\ worker \in [PartNums -> {"idle", "upload", "release", "gone"}]
      /\ ret # "send" /\ partNum \in Nat \ {0}
      /\ parts \in Seq(PartNums) /\ failed \in BOOLEAN
      /\ PartSize \in Nat \ {0} /\ MaxBytes \in Nat
  BY MultipartAssumption DEF TypeInv, TypeOK, CountInv
<1>02. /\ DOMAIN parts = 1..Len(parts) /\ Len(parts) \in Nat
       /\ \A i \in DOMAIN parts : parts[i] \in PartNums
  BY <1>0, LenProperties, ElementOfSeq
(* The actions that start and end no request.                              *)
<1>1. ASSUME UNCHANGED <<partNum, parts, worker>>, failed => failed',
             pc = "send" => pc' = "send"
      PROVE  ListInv'
  BY <1>1 DEF ListInv, Sent
<1>2. ASSUME NEW to \in {"fill", "wait"}, Rotate(to), pc # "send",
             UNCHANGED <<produced, worker, failed, parts>>,
             ~closing
      PROVE  ListInv'
  <2>1. partNum' = partNum + 1 /\ pc' = "send" /\ partNum' - 1 = partNum
    BY <1>0, <1>2 DEF Rotate
  <2>2. partNum \in PartNums
    <3> DEFINE k == partNum - 1
    <3>1. k \in Nat /\ Len(mem[buf]) \in Nat /\ produced \in 0..MaxBytes
          /\ k * PartSize + Len(mem[buf]) = produced /\ partNum = k + 1
      BY <1>0, <1>2, LenProperties DEF CountInv, TypeInv, TypeOK
    <3> HIDE DEF k
    <3>2. k * PartSize \in Nat
      BY <1>0, <3>1
    <3> DEFINE full == k * PartSize
    <3>3. full \in Nat /\ full + Len(mem[buf]) = produced
      BY <3>1, <3>2
    <3> HIDE DEF full
    <3>4. full <= MaxBytes
      BY <1>0, <3>1, <3>3, SumLemma
    <3>5. k <= MaxBytes \div PartSize /\ MaxBytes \div PartSize \in Nat
      BY <1>0, <3>1, <3>4, DivLemma DEF full
    <3> QED BY <3>1, <3>5 DEF PartNums
  <2>3. \A p \in PartNums : p < partNum + 1 /\ worker[p] = "idle" => p = partNum
    <3>1. \A p \in PartNums : p \in Nat
      BY <1>0 DEF PartNums
    <3> QED BY <1>0, <1>2, <3>1 DEF ListInv
  <2> QED BY <1>2, <2>1, <2>2, <2>3 DEF ListInv, Sent
<1>3. CASE Send
  <2> DEFINE pn == partNum - 1
  <2>1. /\ pc = "send" /\ pc' = ret
        /\ worker' = [worker EXCEPT ![pn] = "upload"]
        /\ UNCHANGED <<partNum, parts, failed>>
        /\ pn \in PartNums /\ worker[pn] = "idle"
    BY <1>3 DEF Send, CountInv
  <2> HIDE DEF pn
  <2>2. \A p \in PartNums : Sent(p)' <=> Sent(p)
    BY <1>0, <2>1 DEF Sent
  <2>3. \A p \in PartNums : p # pn => worker'[p] = worker[p]
    BY <1>0, <2>1
  <2>4. worker'[pn] # "idle"
    BY <1>0, <2>1
  <2> QED BY <1>0, <1>02, <2>1, <2>2, <2>3, <2>4 DEF ListInv, pn
<1>4. ASSUME NEW pn \in PartNums, UploadOnePart(pn) PROVE ListInv'
  <2>1. /\ worker[pn] = "upload" /\ worker' = [worker EXCEPT ![pn] = "release"]
        /\ UNCHANGED <<pc, partNum>>
    BY <1>4 DEF UploadOnePart
  <2>2. \A p \in PartNums : Sent(p)' <=> Sent(p) \/ p = pn
    BY <1>0, <2>1 DEF Sent
  <2>3. \A i \in DOMAIN parts : parts[i] # pn
    BY <2>1 DEF ListInv, Sent
  <2>4. \A p \in PartNums : worker'[p] = "idle" => worker[p] = "idle"
    BY <1>0, <2>1
  <2>5. CASE failed' = TRUE /\ parts' = parts
    BY <1>02, <2>1, <2>2, <2>4, <2>5 DEF ListInv
  <2>6. CASE failed' = failed /\ parts' = Append(parts, pn)
    <3> DEFINE n == Len(parts) + 1
    <3>1. /\ DOMAIN parts' = 1..n /\ parts'[n] = pn /\ n \in 1..n
          /\ \A i \in DOMAIN parts : parts'[i] = parts[i] /\ i \in 1..n
          /\ \A i \in 1..n : i \in DOMAIN parts \/ i = n
      BY <1>0, <1>02, <2>6, AppendProperties
    <3> HIDE DEF n
    <3>2. \A i \in DOMAIN parts' : worker'[parts'[i]] \in {"release", "gone"}
      BY <1>02, <2>2, <3>1 DEF ListInv, Sent
    <3>3. \A i, j \in DOMAIN parts' : parts'[i] = parts'[j] => i = j
      BY <2>3, <3>1 DEF ListInv
    <3>4. ~failed' => \A p \in PartNums : Sent(p)' => \E i \in DOMAIN parts' : parts'[i] = p
      BY <2>2, <2>6, <3>1 DEF ListInv
    <3> QED BY <2>1, <2>4, <3>2, <3>3, <3>4 DEF ListInv, Sent
  <2> QED BY <1>4, <2>5, <2>6 DEF UploadOnePart
<1>5. ASSUME NEW pn \in PartNums, ReleaseBuf(pn) PROVE ListInv'
  <2>1. /\ worker[pn] = "release" /\ worker' = [worker EXCEPT ![pn] = "gone"]
        /\ UNCHANGED <<pc, partNum, parts, failed>>
    BY <1>5 DEF ReleaseBuf
  <2>2. \A p \in PartNums : (Sent(p)' <=> Sent(p)) /\ (worker'[p] = "idle" => worker[p] = "idle")
    BY <1>0, <2>1 DEF Sent
  <2> QED BY <1>02, <2>1, <2>2 DEF ListInv
<1>6. CASE DispatchFull
  <2>1. CASE failed
    BY <1>1, <1>6, <2>1 DEF DispatchFull
  <2>2. CASE ~failed
    <3>1. ~closing
      BY <1>6 DEF DispatchFull, ProtocolInv, CloseTail
    <3> QED BY <1>2, <1>6, <2>2, <3>1 DEF DispatchFull
  <2> QED BY <2>1, <2>2
<1>7. CASE CloseCall
  <2>1. CASE mem[buf] = <<>> \/ failed
    BY <1>1, <1>7, <2>1 DEF CloseCall
  <2>2. CASE ~(mem[buf] = <<>> \/ failed)
    <3>1. ~closing
      BY <1>7 DEF CloseCall, ProtocolInv, CloseTail
    <3> QED BY <1>2, <1>7, <2>2, <3>1 DEF CloseCall
  <2> QED BY <2>1, <2>2
<1>8. CASE \E n \in 1..MaxBytes : WriteCall(n)
  BY <1>1, <1>8 DEF WriteCall
<1>9. CASE Fill \/ CloseWait \/ Complete \/ AbortCall \/ AbortWait \/ AbortRemote \/ Cancel
  BY <1>1, <1>9 DEF Fill, CloseWait, Complete, AbortCall, AbortWait, AbortRemote, Cancel
<1>10. CASE (\E b \in Buffers : OtherGet(b) \/ OtherPut(b)) \/ UNCHANGED vars
  BY <1>1, <1>10 DEF OtherGet, OtherPut, vars
<1> QED BY <1>3, <1>4, <1>5, <1>6, <1>7, <1>8, <1>9, <1>10 DEF Next, Internal

LEMMA FlushLemma ==
  ASSUME NEW ps \in Nat \ {0}, NEW m \in Nat \ {0}, NEW l \in 0..ps, NEW n \in Nat,
         (m - 1) * ps + l = n
  PROVE  /\ l = 0 => (m - 2) * ps < n /\ n <= (m - 1) * ps
         /\ l > 0 => ((m + 1) - 2) * ps < n /\ n <= ((m + 1) - 1) * ps
<1>1. /\ (m - 2) * ps = (m - 1) * ps - ps
      /\ (m + 1) - 2 = m - 1
      /\ ((m + 1) - 1) * ps = (m - 1) * ps + ps
  OBVIOUS
<1>2. (m - 1) * ps \in Int
  OBVIOUS
<1> QED BY <1>1, <1>2

LEMMA FlushStep ==
  TypeInv /\ ProtocolInv /\ CountInv /\ FlushInv /\ [Next]_vars => FlushInv'
<1> SUFFICES ASSUME TypeInv, ProtocolInv, CountInv, FlushInv, [Next]_vars PROVE FlushInv'
  OBVIOUS
<1> USE DEF callVars, abortVars, bufVars, workVars, serverVars
<1>1. ASSUME UNCHANGED <<partNum, produced, closing>>, failed => failed',
             pc' = "complete" => (pc = "complete" /\ failed' = failed) \/ ~failed'
      PROVE  FlushInv'
  BY <1>1 DEF FlushInv
<1>2. CASE CloseCall
  <2>1. /\ PartSize \in Nat \ {0} /\ partNum \in Nat \ {0} /\ produced \in Nat
        /\ mem[buf] \in Seq(0..MaxBytes) /\ Len(mem[buf]) \in 0..PartSize
    BY MultipartAssumption, LenProperties DEF TypeInv, TypeOK, CountInv
  <2>2. (partNum - 1) * PartSize + Len(mem[buf]) = produced
    BY <1>2 DEF CloseCall, ProtocolInv, CloseTail, CountInv
  <2>3. pc' # "complete" /\ UNCHANGED <<produced, failed>>
    BY <1>2 DEF CloseCall, Rotate
  <2>4. CASE failed
    BY <2>3, <2>4 DEF FlushInv
  <2>5. CASE ~failed /\ mem[buf] = <<>>
    <3>1. partNum' = partNum /\ Len(mem[buf]) = 0
      BY <1>2, <2>5, EmptySeq DEF CloseCall
    <3> QED BY <2>1, <2>2, <2>3, <3>1, FlushLemma DEF FlushInv
  <2>6. CASE ~failed /\ mem[buf] # <<>>
    <3>1. partNum' = partNum + 1
      BY <1>2, <2>6 DEF CloseCall, Rotate
    <3>2. Len(mem[buf]) > 0
      BY <2>1, <2>6, EmptySeq
    <3> QED BY <2>1, <2>2, <2>3, <3>1, <3>2, FlushLemma DEF FlushInv
  <2> QED BY <2>4, <2>5, <2>6
<1>3. CASE Fill \/ DispatchFull
  <2>1. ~closing /\ closing' = closing /\ pc' # "complete"
    BY <1>3 DEF Fill, DispatchFull, Rotate, ProtocolInv, CloseTail
  <2> QED BY <2>1 DEF FlushInv
<1>4. CASE CloseWait
  BY <1>1, <1>4 DEF CloseWait
<1>5. ASSUME NEW pn \in PartNums, UploadOnePart(pn) PROVE FlushInv'
  <2>1. pc # "complete"
    <3>1. pn \in InFlight
      BY <1>5 DEF UploadOnePart, InFlight
    <3> QED BY <3>1 DEF ProtocolInv, CloseTail
  <2> QED BY <1>1, <1>5, <2>1 DEF UploadOnePart
<1>6. CASE Send \/ \E n \in 1..MaxBytes : WriteCall(n)
  <2>1. pc' # "complete" /\ UNCHANGED <<partNum, produced, closing, failed>>
    BY <1>6 DEF Send, WriteCall, TypeInv, TypeOK
  <2> QED BY <1>1, <2>1
<1>7. CASE Complete \/ AbortCall \/ AbortWait \/ AbortRemote \/ Cancel
  BY <1>1, <1>7 DEF Complete, AbortCall, AbortWait, AbortRemote, Cancel
<1>8. CASE \/ \E pn \in PartNums : ReleaseBuf(pn)
           \/ \E b \in Buffers : OtherGet(b) \/ OtherPut(b)
           \/ UNCHANGED vars
  BY <1>1, <1>8 DEF ReleaseBuf, OtherGet, OtherPut, vars
<1> QED BY <1>2, <1>3, <1>4, <1>5, <1>6, <1>7, <1>8 DEF Next, Internal

-----------------------------------------------------------------------------

(* The only ascending enumeration of 1..n by 1..n is the identity: another *)
(* one would have to fit too many numbers below, or above, some place.     *)
LEMMA AscendingIsIdentity ==
  ASSUME NEW n \in Nat, NEW s \in [1..n -> 1..n],
         \A i, j \in 1..n : i < j => s[i] < s[j]
  PROVE  \A i \in 1..n : s[i] = i
<1> SUFFICES ASSUME NEW i \in 1..n PROVE s[i] = i
  OBVIOUS
<1>0. s[i] \in 1..n
  OBVIOUS
<1>1. \A j, k \in 1..n : s[j] = s[k] => j = k
  <2> SUFFICES ASSUME NEW j \in 1..n, NEW k \in 1..n, s[j] = s[k], j # k PROVE FALSE
    OBVIOUS
  <2>1. s[j] \in Int /\ s[k] \in Int /\ (j < k \/ k < j)
    OBVIOUS
  <2>2. s[j] < s[k] \/ s[k] < s[j]
    BY <2>1
  <2> QED BY <2>1, <2>2
<1>2. ~(s[i] < i)
  <2> SUFFICES ASSUME s[i] < i PROVE FALSE
    OBVIOUS
  <2> DEFINE S == 1..i
             T == 1..s[i]
             f == [j \in S |-> s[j]]
  <2>1. IsFiniteSet(S) /\ IsFiniteSet(T) /\ Cardinality(T) < Cardinality(S)
    BY <1>0, FS_Interval
  <2>2. f \in [S -> T]
    <3> SUFFICES ASSUME NEW j \in S PROVE s[j] \in T
      OBVIOUS
    <3>1. j \in 1..n /\ s[j] \in 1..n /\ (j = i \/ j < i)
      OBVIOUS
    <3>2. CASE j = i
      BY <1>0, <3>2
    <3>3. CASE j < i
      <4>1. s[j] < s[i]
        BY <3>1, <3>3
      <4> QED BY <1>0, <3>1, <4>1
    <3> QED BY <3>1, <3>2, <3>3
  <2> HIDE DEF T
  <2>3. \E x, y \in S : x # y /\ f[x] = f[y]
    <3> HIDE DEF f, S
    <3> QED BY <2>1, <2>2, FS_PigeonHole
  <2>4. \A x \in S : x \in 1..n /\ f[x] = s[x]
    OBVIOUS
  <2> QED BY <1>1, <2>3, <2>4
<1>3. ~(s[i] > i)
  <2> SUFFICES ASSUME s[i] > i PROVE FALSE
    OBVIOUS
  <2> DEFINE S == i..n
             T == s[i]..n
             f == [j \in S |-> s[j]]
  <2>1. IsFiniteSet(S) /\ IsFiniteSet(T) /\ Cardinality(T) < Cardinality(S)
    BY <1>0, FS_Interval
  <2>2. f \in [S -> T]
    <3> SUFFICES ASSUME NEW j \in S PROVE s[j] \in T
      OBVIOUS
    <3>1. j \in 1..n /\ s[j] \in 1..n /\ (j = i \/ i < j)
      OBVIOUS
    <3>2. CASE j = i
      BY <1>0, <3>2
    <3>3. CASE i < j
      <4>1. s[i] < s[j]
        BY <3>1, <3>3
      <4> QED BY <1>0, <3>1, <4>1
    <3> QED BY <3>1, <3>2, <3>3
  <2> HIDE DEF T
  <2>3. \E x, y \in S : x # y /\ f[x] = f[y]
    <3> HIDE DEF f, S
    <3> QED BY <2>1, <2>2, FS_PigeonHole
  <2>4. \A x \in S : x \in 1..n /\ f[x] = s[x]
    OBVIOUS
  <2> QED BY <1>1, <2>3, <2>4
<1> QED BY <1>0, <1>2, <1>3

(* Close completes the upload with every part, once.                       *)
LEMMA AllParts ==
  ASSUME TypeInv, ProtocolInv, CountInv, ListInv, FlushInv, pc = "complete"
  PROVE  /\ DOMAIN parts = 1..(partNum - 1)
         /\ {parts[i] : i \in DOMAIN parts} = 1..(partNum - 1)
         /\ \A p \in 1..(partNum - 1) : p \in PartNums
<1> DEFINE n == partNum - 1
           m == Len(parts)
<1>0. /\ n \in Nat /\ n < partNum
      /\ worker \in [PartNums -> {"idle", "upload", "release", "gone"}]
      /\ parts \in Seq(PartNums)
      /\ InFlight = {} /\ ~failed
  BY DEF TypeInv, TypeOK, CountInv, ProtocolInv, CloseTail, FlushInv
<1>1. m \in Nat /\ DOMAIN parts = 1..m /\ parts \in [1..m -> PartNums]
  BY <1>0, LenProperties
<1>2. \A p \in PartNums : p \in Nat \ {0}
  BY MultipartAssumption DEF PartNums
<1>3. \A p \in 1..n : p \in PartNums /\ p < partNum
  <2>1. partNum > 1 => n \in PartNums
    BY DEF ListInv
  <2>2. MaxBytes \div PartSize + 1 \in Nat
    BY MultipartAssumption
  <2>3. partNum \in Nat \ {0}
    BY DEF CountInv
  <2> QED BY <2>1, <2>2, <2>3 DEF PartNums
<1>4. ASSUME NEW p \in 1..n PROVE \E i \in 1..m : parts[i] = p
  <2>1. worker[p] # "idle"
    BY <1>3 DEF ListInv
  <2>2. Sent(p)
    BY <1>0, <1>3, <2>1 DEF InFlight, Sent
  <2> QED BY <1>0, <1>1, <1>3, <2>2 DEF ListInv
<1>5. ASSUME NEW i \in 1..m PROVE parts[i] \in 1..n
  <2>1. parts[i] \in PartNums /\ worker[parts[i]] # "idle"
    BY <1>1 DEF ListInv, Sent
  <2>2. parts[i] \in Nat \ {0} /\ ~(parts[i] >= partNum)
    BY <1>2, <2>1 DEF CountInv
  <2>3. partNum \in Nat
    BY DEF CountInv
  <2> QED BY <2>2, <2>3
<1>6. \A i, j \in 1..m : parts[i] = parts[j] => i = j
  BY <1>1 DEF ListInv
<1> HIDE DEF m, n
<1>7. parts \in [1..m -> 1..n]
  BY <1>1, <1>5
<1>8. parts \in Surjection(1..m, 1..n) /\ parts \in Injection(1..m, 1..n)
  <2>1. \A p \in 1..n : \E i \in 1..m : parts[i] = p
    BY <1>4
  <2>2. IsInjective(parts)
    BY <1>6, <1>7 DEF IsInjective
  <2> QED BY <1>7, <2>1, <2>2 DEF Surjection, Injection
<1>9. m = n
  <2>1. /\ IsFiniteSet(1..m) /\ Cardinality(1..m) = m
        /\ IsFiniteSet(1..n) /\ Cardinality(1..n) = n
    BY <1>0, <1>1, FS_Interval
  <2> QED BY <1>8, <2>1, FS_Surjection
<1>10. {parts[i] : i \in 1..m} = 1..n
  BY <1>4, <1>5
<1> QED BY <1>1, <1>3, <1>9, <1>10 DEF n

LEMMA SortedLemma ==
  ASSUME TypeInv, ProtocolInv, CountInv, ListInv, FlushInv, pc = "complete"
  PROVE  SortedParts = [i \in 1..(partNum - 1) |-> i]
<1> DEFINE n == partNum - 1
           Ascending(s) == \A i, j \in 1..n : i < j => s[i] < s[j]
           id == [i \in 1..n |-> i]
<1>1. n \in Nat
  BY DEF CountInv
<1>2. SortedParts = CHOOSE s \in [1..n -> 1..n] : Ascending(s)
  BY AllParts DEF SortedParts
<1>3. id \in [1..n -> 1..n] /\ Ascending(id)
  BY <1>1
<1> HIDE DEF n, Ascending, id
<1>4. SortedParts \in [1..n -> 1..n] /\ Ascending(SortedParts)
  BY <1>2, <1>3
<1>5. \A i \in 1..n : SortedParts[i] = i
  BY <1>1, <1>4, AscendingIsIdentity DEF Ascending
<1>6. SortedParts = id
  BY <1>4, <1>5 DEF id
<1> QED BY <1>6 DEF id, n

LEMMA LastLemma ==
  ASSUME NEW ps \in Nat \ {0}, NEW n \in Nat, NEW x \in Nat,
         (n - 1) * ps < x, x <= n * ps
  PROVE  (x + ps - 1) \div ps = n
<1> DEFINE q == (x + ps - 1) \div ps
<1>1. q \in Int /\ q * ps <= x + ps - 1 /\ x + ps - 1 < q * ps + ps
  OBVIOUS
<1> HIDE DEF q
<1>2. (n - 1) * ps = n * ps - ps /\ n * ps \in Int /\ q * ps \in Int
  BY <1>1
<1>3. n * ps < q * ps + ps /\ q * ps < n * ps + ps
  BY <1>1, <1>2
<1>4. q * ps + ps = (q + 1) * ps /\ n * ps + ps = (n + 1) * ps
  BY <1>1
<1>5. n < q + 1 /\ q < n + 1
  BY <1>1, <1>3, <1>4
<1> QED BY <1>1, <1>5 DEF q

(* What Close completes are the bodies of all bytes produced.              *)
LEMMA BodiesLemma ==
  ASSUME TypeInv, CountInv, FlushInv, pc = "complete", closing
  PROVE  Bodies(produced) = [i \in 1..(partNum - 1) |-> Whole(i)]
<1> DEFINE n == partNum - 1
           ps == PartSize
           x == produced
<1>1. ps \in Nat \ {0} /\ n \in Nat /\ x \in Nat
  BY MultipartAssumption DEF TypeInv, TypeOK, CountInv
<1>2. (n - 1) * ps < x /\ x <= n * ps
  <2>1. partNum \in Nat /\ (partNum - 1) - 1 = partNum - 2
    BY DEF CountInv
  <2> QED BY <2>1 DEF FlushInv
<1>3. (x + ps - 1) \div ps = n
  <2> HIDE DEF n, ps, x
  <2> QED BY <1>1, <1>2, LastLemma
<1>4. ASSUME NEW i \in 1..n
      PROVE  SizeOf(i) = IF i < n THEN PartSize ELSE x - (n - 1) * PartSize
  <2>1. CASE i < n
    <3> HIDE DEF n, ps, x
    <3>1. i * ps <= (n - 1) * ps
      <4>1. PICK d \in Nat : n - 1 = i + d
        <5>1. n - 1 - i \in Nat /\ n - 1 = i + (n - 1 - i)
          BY <1>1, <2>1
        <5> QED BY <5>1
      <4>2. (i + d) * ps = i * ps + d * ps /\ d * ps \in Nat /\ i * ps \in Nat
        BY <1>1
      <4> QED BY <4>1, <4>2
    <3>2. i * ps \in Nat /\ (n - 1) * ps \in Int
      BY <1>1
    <3>3. i * ps <= x
      BY <1>1, <1>2, <3>1, <3>2
    <3> QED BY <2>1, <3>3 DEF SizeOf, ps, x
  <2>2. CASE i = n
    <3> HIDE DEF n, ps, x
    <3>1. (n - 1) * ps = n * ps - ps /\ n * ps \in Int
      BY <1>1
    <3>2. n * ps <= x => ps = x - (n - 1) * ps
      BY <1>1, <1>2, <3>1
    <3> QED BY <1>1, <2>2, <3>2 DEF SizeOf, ps, x
  <2> HIDE DEF n
  <2> QED BY <1>1, <2>1, <2>2
<1>5. Bodies(x) = [i \in 1..n |-> [j \in 1..SizeOf(i) |-> (i - 1) * PartSize + j]]
  BY <1>3, <1>4 DEF Bodies
<1> QED BY <1>5 DEF Whole, PartBytes

CommitInv ==
  /\ TypeInv /\ BuffersExclusive /\ ProtocolInv /\ CountInv
  /\ ContentInv /\ ListInv /\ FlushInv

LEMMA CommitStep == CommitInv /\ [Next]_vars => CommitInv'
  BY TypeStep, ExclusiveStep, ProtocolStep, CountStep, ContentStep, ListStep, FlushStep
     DEF CommitInv

(* CompleteMultipartUpload makes all of it the object, or nothing.         *)
LEMMA CompleteLemma ==
  ASSUME CommitInv, Complete
  PROVE  \/ object' = object /\ pc' = "abortRemote"
         \/ object' = Bodies(produced) /\ produced > 0
<1>0. pc = "complete" /\ closing
  BY DEF Complete, CommitInv, ProtocolInv, CloseTail
<1> DEFINE n == partNum - 1
<1> SUFFICES ASSUME Acceptable(SortedParts),
                    object' = [i \in DOMAIN SortedParts |-> server[SortedParts[i]]]
             PROVE  object' = Bodies(produced) /\ produced > 0
  BY DEF Complete
<1>1. /\ SortedParts = [i \in 1..n |-> i]
      /\ DOMAIN parts = 1..n /\ {parts[i] : i \in DOMAIN parts} = 1..n
  BY <1>0, SortedLemma, AllParts DEF CommitInv
<1>2. \A i \in 1..n : server[i] = Whole(i)
  BY <1>1 DEF CommitInv, ContentInv
<1>3. object' = [i \in 1..n |-> Whole(i)]
  BY <1>1, <1>2
<1>4. object' = Bodies(produced)
  BY <1>0, <1>3, BodiesLemma DEF CommitInv
<1>5. produced > 0
  <2>1. n \in Nat /\ n # 0
    <3>1. n \in Nat
      BY DEF CommitInv, CountInv
    <3>2. n = 0 => SortedParts = <<>>
      BY <1>1
    <3> QED BY <3>1, <3>2 DEF Acceptable
  <2>2. (partNum - 2) * PartSize < produced /\ partNum - 2 = n - 1 /\ produced \in Nat
    BY <1>0 DEF CommitInv, FlushInv, CountInv, TypeInv, TypeOK
  <2>3. (n - 1) * PartSize \in Nat
    <3> HIDE DEF n
    <3>1. n - 1 \in Nat
      BY <2>1
    <3> QED BY <3>1, MultipartAssumption
  <2> HIDE DEF n
  <2> QED BY <2>2, <2>3
<1> QED BY <1>4, <1>5

LEMMA CommitInit == Init => CommitInv
<1> SUFFICES ASSUME Init PROVE CommitInv
  OBVIOUS
<1>1. /\ pc = "idle" /\ partNum = 1 /\ produced = 0 /\ parts = <<>> /\ mem[buf] = <<>>
      /\ closing = FALSE /\ InFlight = {}
      /\ worker = [p \in PartNums |-> "idle"] /\ ret = "fill"
  BY DEF Init, InFlight
<1>2. BuffersExclusive /\ ProtocolInv
  BY <1>1 DEF Init, BuffersExclusive, ProtocolInv, CloseTail
<1>3. CountInv
  <2>1. (partNum - 1) * PartSize + Len(mem[buf]) = produced
    BY <1>1, EmptySeq, MultipartAssumption
  <2> QED BY <1>1, <2>1 DEF CountInv
<1>4. ContentInv
  <2>1. mem[buf] = PartBytes(partNum, Len(mem[buf]))
    <3>1. Len(<<>>) = 0
      BY EmptySeq
    <3> QED BY <1>1, <3>1 DEF PartBytes
  <2> QED BY <1>1, <2>1 DEF ContentInv
<1>5. ListInv
  <2>1. \A p \in PartNums : p \in Nat \ {0}
    BY MultipartAssumption DEF PartNums
  <2> QED BY <1>1, <2>1 DEF ListInv, Sent
<1>6. FlushInv
  BY <1>1 DEF FlushInv
<1> QED BY <1>2, <1>3, <1>4, <1>5, <1>6, TypeInit DEF CommitInv

(* An object that becomes visible is what was written, for any part size,  *)
(* concurrency and part limit, any order of the answers and any use that   *)
(* other writers make of the recycled buffers.                             *)
THEOREM CommittedTheorem == Spec => []CommittedIsWritten
<1> DEFINE Committed == object # Old => closing /\ object = Bodies(produced)
           Inv == CommitInv /\ Committed
<1>1. Init => Inv
  BY CommitInit DEF Init
<1>2. CommitInv /\ Committed /\ [Next]_vars => Committed'
  <2> SUFFICES ASSUME CommitInv, Committed, [Next]_vars PROVE Committed'
    OBVIOUS
  <2> USE DEF callVars, abortVars, bufVars, workVars, serverVars
  <2>1. CASE Complete
    <3>1. closing /\ closing' = closing /\ produced' = produced
      BY <2>1 DEF Complete, CommitInv, ProtocolInv, CloseTail
    <3>2. Bodies(produced)' = Bodies(produced)
      BY <3>1 DEF Bodies
    <3> QED BY <2>1, <3>1, <3>2, CompleteLemma
  <2>2. CASE Fill \/ DispatchFull
    <3>1. ~closing /\ object' = object
      BY <2>2 DEF Fill, DispatchFull, CommitInv, ProtocolInv, CloseTail
    <3> QED BY <3>1
  <2>3. CASE \/ Send \/ CloseCall \/ CloseWait \/ AbortCall \/ AbortWait \/ AbortRemote
             \/ Cancel \/ (\E n \in 1..MaxBytes : WriteCall(n))
             \/ (\E pn \in PartNums : UploadOnePart(pn) \/ ReleaseBuf(pn))
             \/ (\E b \in Buffers : OtherGet(b) \/ OtherPut(b)) \/ UNCHANGED vars
    <3>1. UNCHANGED <<object, produced>> /\ (closing => closing')
      BY <2>3 DEF Send, CloseCall, CloseWait, AbortCall, AbortWait, AbortRemote, Cancel,
                  WriteCall, UploadOnePart, ReleaseBuf, OtherGet, OtherPut, vars
    <3>2. Bodies(produced)' = Bodies(produced)
      BY <3>1 DEF Bodies
    <3> QED BY <3>1, <3>2
  <2> QED BY <2>1, <2>2, <2>3 DEF Next, Internal
<1>3. Inv /\ [Next]_vars => Inv'
  BY <1>2, CommitStep
<1>4. Inv => CommittedIsWritten
  BY DEF CommittedIsWritten
<1> QED BY <1>1, <1>3, <1>4, PTL DEF Spec

-----------------------------------------------------------------------------

LEMMA SmallestNat ==
  ASSUME NEW T, T \subseteq Nat, T # {}
  PROVE  \E x \in T : \A y \in T : x <= y
<1>1. \E x \in T : \A y \in T : ~(<<y, x>> \in OpToRel(<, Nat))
  BY NatLessThanWellFounded, WFMin
<1>2. ASSUME NEW x \in T, NEW y \in T, ~(<<y, x>> \in OpToRel(<, Nat))
      PROVE  x <= y
  <2>1. x \in Nat /\ y \in Nat
    OBVIOUS
  <2>2. ~(y < x)
    BY <1>2, <2>1 DEF OpToRel
  <2> QED BY <2>1, <2>2
<1> QED BY <1>1, <1>2

(* The part bodies, one after the other, are the bytes of the stream.      *)
LEMMA FlattenBodies ==
  ASSUME NEW n \in Nat \ {0}
  PROVE  SeqExt!FlattenSeq(Bodies(n)) = [i \in 1..n |-> i]
<1> DEFINE ps  == PartSize
           L   == (n + ps - 1) \div ps
           s   == Bodies(n)
           End(i) == IF i < L THEN i * ps ELSE n
           g   == [i \in 1..L |-> [j \in 1..End(i) |-> j]]
           Def(h) == [i \in 1..L |-> IF i = 1 THEN s[i] ELSE h[i - 1] \o s[i]]
           f   == CHOOSE h : h = Def(h)
<1>0. ps \in Nat \ {0}
  BY MultipartAssumption
<1>1. L \in Nat \ {0} /\ (L - 1) * ps < n /\ n <= L * ps
  <2>1. L \in Int /\ L * ps <= n + ps - 1 /\ n + ps - 1 < L * ps + ps
    BY <1>0
  <2> HIDE DEF L
  <2>2. L * ps \in Int /\ (L - 1) * ps = L * ps - ps
    BY <1>0, <2>1
  <2>3. n <= L * ps /\ (L - 1) * ps < n
    BY <1>0, <2>1, <2>2
  <2>4. L > 0
    <3>1. L <= 0 => L * ps <= 0
      BY <1>0, <2>1
    <3> QED BY <2>1, <2>2, <2>3, <3>1
  <2> QED BY <2>1, <2>3, <2>4
<1>2. /\ DOMAIN s = 1..L /\ Len(s) = L
      /\ \A i \in 1..L : s[i] = [j \in 1..(IF i < L THEN ps ELSE n - (L - 1) * ps) |->
                                   (i - 1) * ps + j]
  <2> DEFINE e(i) == [j \in 1..(IF i < L THEN ps ELSE n - (L - 1) * ps) |-> (i - 1) * ps + j]
  <2>1. s = [i \in 1..L |-> e(i)]
    BY DEF Bodies
  <2> HIDE DEF s, L, e
  <2>2. DOMAIN s = 1..L /\ \A i \in 1..L : s[i] = e(i)
    BY <2>1
  <2>3. Len(s) = L
    BY <1>1, <2>1
  <2> QED BY <2>2, <2>3 DEF e
<1>3. SeqExt!FlattenSeq(s) = f[L]
  <2> HIDE DEF s, L
  <2> QED BY <1>1, <1>2 DEF SeqExt!FlattenSeq
<1> HIDE DEF L, s
<1>4. g = Def(g)
  <2> SUFFICES ASSUME NEW i \in 1..L
               PROVE  g[i] = IF i = 1 THEN s[i] ELSE g[i - 1] \o s[i]
    OBVIOUS
  <2> DEFINE a == (i - 1) * ps
             l == IF i < L THEN ps ELSE n - (L - 1) * ps
  <2>1. a \in Nat /\ l \in Nat /\ a + l = End(i)
    <3>1. a \in Nat
      <4>1. i - 1 \in Nat
        BY <1>1
      <4> QED BY <1>0, <4>1
    <3>2. CASE i < L
      <4>1. (i - 1) * ps + ps = i * ps
        BY <1>0, <1>1
      <4> QED BY <1>0, <3>1, <3>2, <4>1
    <3>3. CASE i = L
      <4>1. (L - 1) * ps \in Int /\ a = (L - 1) * ps
        BY <1>0, <1>1, <3>3
      <4>2. n - (L - 1) * ps \in Nat
        BY <1>1, <4>1
      <4> QED BY <1>1, <3>1, <3>3, <4>1, <4>2
    <3> QED BY <1>1, <3>2, <3>3
  <2>2. s[i] = [j \in 1..l |-> a + j]
    BY <1>2
  <2>3. g[i] = [j \in 1..(a + l) |-> j]
    BY <2>1
  <2>4. CASE i = 1
    <3>1. a = 0
      BY <1>0, <2>4
    <3>2. s[i] = [j \in 1..l |-> j]
      BY <2>1, <2>2, <3>1
    <3> QED BY <2>1, <2>3, <2>4, <3>1, <3>2
  <2>5. CASE i # 1
    <3>1. i - 1 \in 1..L /\ i - 1 < L
      BY <1>1, <2>5
    <3>2. g[i - 1] = [j \in 1..a |-> j]
      BY <3>1
    <3> HIDE DEF a, l, g
    <3>3. [j \in 1..a |-> 0 + j] \o [j \in 1..l |-> (0 + a) + j] = [j \in 1..(a + l) |-> 0 + j]
      BY <2>1, ConcatBytes
    <3>4. /\ [j \in 1..a |-> 0 + j] = [j \in 1..a |-> j]
          /\ [j \in 1..l |-> (0 + a) + j] = [j \in 1..l |-> a + j]
          /\ [j \in 1..(a + l) |-> 0 + j] = [j \in 1..(a + l) |-> j]
      BY <2>1
    <3> QED BY <2>2, <2>3, <2>5, <3>2, <3>3, <3>4
  <2> QED BY <2>4, <2>5
<1>5. f = Def(f)
  <2> HIDE DEF Def, g
  <2> QED BY <1>4
<1>6. \A i \in 1..L : f[i] = g[i]
  <2> SUFFICES ASSUME \E i \in 1..L : f[i] # g[i] PROVE FALSE
    OBVIOUS
  <2> DEFINE T == {i \in 1..L : f[i] # g[i]}
  <2>1. PICK x \in T : \A y \in T : x <= y
    <3> HIDE DEF f, g
    <3>1. T # {}
      OBVIOUS
    <3>2. T \subseteq Nat
      <4>1. 1..L \subseteq Nat
        BY <1>1
      <4> QED BY <4>1
    <3> HIDE DEF T
    <3> QED BY <3>1, <3>2, SmallestNat
  <2> HIDE DEF f, g
  <2>2. x \in 1..L /\ f[x] # g[x]
    OBVIOUS
  <2>3. /\ f[x] = IF x = 1 THEN s[x] ELSE f[x - 1] \o s[x]
        /\ g[x] = IF x = 1 THEN s[x] ELSE g[x - 1] \o s[x]
    BY <1>4, <1>5, <2>2
  <2>4. x # 1 => x - 1 \in 1..L /\ x - 1 \notin T
    BY <1>1, <2>1, <2>2
  <2> QED BY <2>2, <2>3, <2>4
<1>7. f[L] = [j \in 1..n |-> j]
  <2> HIDE DEF f
  <2> QED BY <1>1, <1>6
<1> QED BY <1>3, <1>7 DEF s

(* The object as a reader sees it, when Complete made one.                 *)
LEMMA VisibleLemma ==
  ASSUME NEW n \in 1..MaxBytes, NEW obj, obj = Bodies(n)
  PROVE  (IF obj = Old THEN Old ELSE SeqExt!FlattenSeq(obj)) = Contract!Bytes(n)
<1>1. n \in Nat \ {0}
  BY MultipartAssumption
<1>2. SeqExt!FlattenSeq(Bodies(n)) = [i \in 1..n |-> i]
  BY <1>1, FlattenBodies
<1>3. Bodies(n) # Old
  BY OldAssumption
<1> QED BY <1>2, <1>3 DEF Contract!Bytes

(* Every step of the writer is a step of the contract, or none.            *)
LEMMA ContractStep == CommitInv /\ [Next]_vars => [Contract!Next]_Contract!vars
<1> SUFFICES ASSUME CommitInv, [Next]_vars PROVE [Contract!Next]_Contract!vars
  OBVIOUS
<1> USE DEF callVars, abortVars, bufVars, workVars, serverVars
<1> DEFINE phase == IF Failed THEN "failed" ELSE IF pc = "closed" THEN "ok" ELSE "open"
           accepted == IF Failed THEN 0 ELSE produced
           seen == IF object = Old THEN Old ELSE SeqExt!FlattenSeq(object)
<1>1. /\ closing <=> \/ pc \in {"wait", "complete", "abortRemote", "closed", "closeErr"}
                     \/ pc = "send" /\ ret = "wait"
      /\ closing => term = "none"
      /\ pc \in {"complete", "abortRemote", "closed", "closeErr"} => term = "none"
      /\ ret \in {"fill", "wait"} /\ closing \in BOOLEAN /\ produced \in 0..MaxBytes
  BY DEF CommitInv, ProtocolInv, CloseTail, TypeInv, TypeOK
<1> DEFINE Still == phase' = phase /\ accepted' = accepted /\ seen' = seen
<1>2. Still => UNCHANGED Contract!vars
  BY DEF Contract!vars
<1>3. phase = "open" /\ phase' = "failed" /\ accepted' = 0 /\ seen' = seen => Contract!Discard
  BY DEF Contract!Discard
<1>4. CASE Fill
  <2> DEFINE room == PartSize - Len(mem[buf])
             n    == IF left > room THEN room ELSE left
  <2>1. /\ pc = "fill" /\ room > 0 /\ produced' = produced + n /\ pc' \in {"idle", "fill"}
        /\ UNCHANGED <<term, object>>
    BY <1>4 DEF Fill
  <2>2. Failed' = Failed /\ phase' = phase /\ seen' = seen
    BY <1>1, <2>1 DEF Failed
  <2>3. CASE Failed
    BY <1>2, <2>2, <2>3
  <2>4. CASE ~Failed
    <3>1. n \in Nat
      <4>1. Len(mem[buf]) \in Nat /\ PartSize \in Nat /\ left \in Nat
        BY MultipartAssumption, LenProperties DEF CommitInv, TypeInv, TypeOK
      <4> QED BY <2>1, <4>1
    <3>2. accepted = produced /\ accepted' = produced + n /\ phase = "open"
      BY <1>1, <2>1, <2>2, <2>4
    <3>3. produced \in Nat
      BY <1>1
    <3> HIDE DEF n, accepted, phase, seen
    <3>4. n = 0 \/ (accepted' \in Nat /\ accepted' > accepted)
      BY <3>1, <3>2, <3>3
    <3>5. CASE n = 0
      <4>1. accepted' = accepted
        BY <3>2, <3>3, <3>5
      <4> QED BY <1>2, <2>2, <4>1
    <3>6. CASE accepted' \in Nat /\ accepted' > accepted
      <4>1. Contract!Write
        BY <2>2, <3>2, <3>6 DEF Contract!Write, phase, accepted, seen
      <4> QED BY <4>1 DEF Contract!Next
    <3> QED BY <3>4, <3>5, <3>6
  <2> QED BY <2>3, <2>4
<1>5. CASE DispatchFull \/ Send \/ CloseCall \/ AbortCall
  <2>1. /\ pc \notin {"closed", "closeErr", "abortRemote"}
        /\ pc' \notin {"closed", "closeErr", "abortRemote"}
        /\ term' \in {"remote", "aborted"} <=> term \in {"remote", "aborted"}
        /\ UNCHANGED <<produced, object>>
    BY <1>1, <1>5 DEF DispatchFull, Send, CloseCall, AbortCall, Rotate
  <2> QED BY <1>2, <2>1 DEF Failed
<1>6. CASE CloseWait \/ AbortWait
  <2>1. UNCHANGED <<produced, object>>
    BY <1>6 DEF CloseWait, AbortWait
  <2>2. pc # "closed" /\ pc' # "closed" /\ ~Failed
    BY <1>1, <1>6 DEF CloseWait, AbortWait, Failed
  <2>3. phase = "open" /\ seen' = seen
    BY <2>1, <2>2
  <2>4. CASE Failed'
    <3>1. phase' = "failed" /\ accepted' = 0
      BY <2>4
    <3> QED BY <1>3, <2>3, <3>1 DEF Contract!Next
  <2>5. CASE ~Failed'
    <3>1. Still
      BY <2>1, <2>2, <2>5
    <3> QED BY <1>2, <3>1
  <2> QED BY <2>4, <2>5
<1>7. CASE Complete
  <2>1. /\ pc = "complete" /\ pc' \in {"closed", "abortRemote"} /\ term = "none"
        /\ UNCHANGED <<produced, term>>
    BY <1>1, <1>7 DEF Complete
  <2>2. ~Failed /\ phase = "open" /\ accepted = produced
    BY <2>1 DEF Failed
  <2>3. CASE /\ object' = object
             /\ pc' = "abortRemote"
    <3>1. phase' = "failed" /\ accepted' = 0 /\ seen' = seen
      BY <2>3 DEF Failed
    <3> QED BY <1>3, <2>2, <3>1 DEF Contract!Next
  <2>4. CASE object' = Bodies(produced) /\ produced > 0
    <3>1. produced \in 1..MaxBytes
      BY <1>1, <2>4
    <3>2. Bodies(produced)' = Bodies(produced)
      BY <2>1 DEF Bodies
    <3>3. seen' = Contract!Bytes(produced)
      BY <2>4, <3>1, VisibleLemma
    <3>4. CASE pc' = "abortRemote"
      <4>1. phase' = "failed" /\ accepted' = 0
        BY <3>4 DEF Failed
      <4>2. Contract!CommitUnacknowledged
        BY <2>2, <3>3, <4>1 DEF Contract!CommitUnacknowledged
      <4> QED BY <4>2 DEF Contract!Next
    <3>5. CASE pc' = "closed"
      <4>1. ~Failed' /\ phase' = "ok" /\ accepted' = produced
        BY <2>1, <3>5 DEF Failed
      <4>2. Contract!Commit
        BY <2>2, <3>3, <4>1 DEF Contract!Commit
      <4> QED BY <4>2 DEF Contract!Next
    <3> QED BY <2>1, <3>4, <3>5
  <2>5. \/ object' = object /\ pc' = "abortRemote"
        \/ object' = Bodies(produced) /\ produced > 0
    BY <1>7, CompleteLemma
  <2> QED BY <2>3, <2>4, <2>5
<1>8. CASE AbortRemote
  <2>1. UNCHANGED <<produced, object>> /\ Failed /\ Failed'
    BY <1>8 DEF AbortRemote, Failed
  <2> QED BY <1>2, <2>1
<1>9. CASE \/ Cancel \/ (\E n \in 1..MaxBytes : WriteCall(n))
           \/ (\E pn \in PartNums : UploadOnePart(pn) \/ ReleaseBuf(pn))
           \/ (\E b \in Buffers : OtherGet(b) \/ OtherPut(b)) \/ UNCHANGED vars
  <2>1. /\ UNCHANGED <<term, produced, object>>
        /\ pc' = pc \/ (pc = "idle" /\ pc' \in {"werr", "fill"})
    BY <1>9 DEF Cancel, WriteCall, UploadOnePart, ReleaseBuf, OtherGet, OtherPut, vars
  <2>2. Failed' = Failed /\ phase' = phase /\ seen' = seen
    BY <2>1 DEF Failed
  <2> QED BY <1>2, <2>1, <2>2
<1> QED BY <1>4, <1>5, <1>6, <1>7, <1>8, <1>9 DEF Next, Internal

(* The streaming writer of the S3 backend implements the contract of      *)
(* backend.Writer, for any part size, concurrency and part limit, except   *)
(* that an error of Close does not say whether the object is there.        *)
THEOREM ContractTheorem == Spec => ImplementsWriter
<1>1. Init => Contract!Init
  BY DEF Init, Contract!Init, Failed
<1>2. CommitInv /\ [Next]_vars => CommitInv'
  BY CommitStep
<1> QED BY <1>1, <1>2, CommitInit, ContractStep, PTL DEF Spec, ImplementsWriter, Contract!Spec

-----------------------------------------------------------------------------

(* What holds of the writer, whoever calls it, also holds of its content:  *)
(* for every part of an upload.                                            *)
THEOREM StreamContractTheorem == StreamSpec => []CommittedIsWritten /\ ImplementsWriter
<1>1. StreamInit => Init
  BY DEF StreamInit
<1>2. StreamSpec => Spec
  BY <1>1, StreamSteps, PTL DEF StreamSpec, Spec
<1> QED BY <1>2, CommittedTheorem, ContractTheorem

(* How uploadPart comes to its return: bw.Close has returned before Stop   *)
(* is called, the tracker has gone before the deferred Abort, and that one *)
(* has returned before uploadPart does.                                    *)
ReturnInv ==
  /\ pc = "closed" => object # Old
  /\ result = "ok" => pc = "closed"
  /\ closing => stage \in {"close", "stop", "returned"}
  /\ closing /\ stage # "close" => pc \in {"closed", "closeErr"}
  /\ stage \in {"abort", "returned"} => ticker = "gone" /\ line = "done"
  /\ stage = "returned" => closing \/ term = "aborted"

LEMMA ReturnStep ==
  CommitInv /\ ReturnInv /\ [StreamNext]_<<vars, partVars>> => ReturnInv'
<1> SUFFICES ASSUME CommitInv, ReturnInv, [StreamNext]_<<vars, partVars>>
             PROVE  ReturnInv'
  OBVIOUS
<1> USE DEF callVars, abortVars, bufVars, workVars, serverVars, vars,
            streamVars, trackerVars, partVars
<1>0. /\ closing <=> \/ pc \in {"wait", "complete", "abortRemote", "closed", "closeErr"}
                     \/ pc = "send" /\ ret = "wait"
      /\ closing => term = "none"
      /\ ret \in {"fill", "wait"} /\ closing \in BOOLEAN
  BY DEF CommitInv, ProtocolInv, CloseTail, TypeInv, TypeOK
<1>1. CASE Feed \/ WriteBlock
  BY <1>0, <1>1 DEF Feed, WriteBlock, WriteCall, ReturnInv
<1>2. CASE StreamFails \/ StreamEnds \/ Flush
  BY <1>2 DEF StreamFails, StreamEnds, Flush, ReturnInv
<1>3. CASE CloseWriter
  <2>1. /\ stage = "close" /\ pc = "idle" /\ closing' = TRUE /\ pc' \in {"wait", "send"}
        /\ UNCHANGED <<stage, object, result>>
    BY <1>3 DEF CloseWriter, CloseCall, Rotate
  <2> QED BY <2>1 DEF ReturnInv
<1>4. CASE Closed
  BY <1>0, <1>4 DEF Closed, ReturnInv
<1>5. CASE AbortWriter
  <2>1. /\ stage = "abort" /\ term = "none"
        /\ UNCHANGED <<partVars, pc, object, closing>>
    BY <1>5 DEF AbortWriter, AbortCall
  <2> QED BY <2>1 DEF ReturnInv
<1>6. CASE Aborted \/ StopCall \/ Stop \/ Tick \/ Quit
  BY <1>0, <1>6 DEF Aborted, StopCall, Stop, Tick, Quit, ReturnInv
<1>7. CASE Internal /\ UNCHANGED partVars
  <2>1. CASE Fill \/ Send
    <3>1. /\ pc \in {"fill", "send"} /\ pc' # "closed" /\ pc' \in {"idle", "fill", "wait"}
          /\ UNCHANGED <<closing, object, term, partVars>>
      BY <1>0, <1>7, <2>1 DEF Fill, Send
    <3> QED BY <1>0, <3>1 DEF ReturnInv
  <2>2. CASE DispatchFull
    <3>1. /\ pc = "fill" /\ pc' \in {"werr", "send"}
          /\ UNCHANGED <<closing, object, term, partVars>>
      BY <1>7, <2>2 DEF DispatchFull, Rotate
    <3> QED BY <1>0, <3>1 DEF ReturnInv
  <2>3. CASE Complete
    <3>1. /\ pc = "complete" /\ pc' \in {"closed", "abortRemote"}
          /\ UNCHANGED <<closing, term, produced, partVars>>
      BY <1>7, <2>3 DEF Complete
    <3>2. pc' = "closed" => object' # Old
      <4>1. SUFFICES ASSUME object' = Bodies(produced), produced > 0
                     PROVE  object' # Old
        BY <2>3, <3>1, CompleteLemma
      <4>2. produced \in 1..MaxBytes
        BY <4>1 DEF CommitInv, TypeInv, TypeOK
      <4> QED BY <4>1, <4>2, OldAssumption
    <3> QED BY <1>0, <3>1, <3>2 DEF ReturnInv
  <2>4. CASE CloseWait \/ AbortWait \/ AbortRemote
    BY <1>0, <1>7, <2>4 DEF CloseWait, AbortWait, AbortRemote, ReturnInv
  <2>5. CASE \E pn \in PartNums : UploadOnePart(pn) \/ ReleaseBuf(pn)
    BY <1>7, <2>5 DEF UploadOnePart, ReleaseBuf, ReturnInv
  <2> QED BY <1>7, <2>1, <2>2, <2>3, <2>4, <2>5 DEF Internal
<1>8. CASE /\ Cancel \/ \E b \in Buffers : OtherGet(b) \/ OtherPut(b)
           /\ UNCHANGED partVars
  BY <1>8 DEF Cancel, OtherGet, OtherPut, ReturnInv
<1>9. CASE UNCHANGED <<vars, partVars>>
  BY <1>9 DEF ReturnInv
<1> QED BY <1>1, <1>2, <1>3, <1>4, <1>5, <1>6, <1>7, <1>8, <1>9 DEF StreamNext

(* A part that was uploaded is in the bucket, no upload and no tracker is  *)
(* left behind, and nothing is printed below the summary (uploadPart).     *)
THEOREM ReturnTheorem == StreamSpec => []ReturnsClean
<1>1. StreamInit => CommitInv /\ ReturnInv
  <2>1. StreamInit => Init
    BY DEF StreamInit
  <2>2. StreamInit => ReturnInv
    BY DEF StreamInit, Init, ReturnInv
  <2> QED BY <2>1, <2>2, CommitInit
<1>2. CommitInv /\ ReturnInv /\ [StreamNext]_<<vars, partVars>> => (CommitInv /\ ReturnInv)'
  BY StreamSteps, CommitStep, ReturnStep
<1>3. CommitInv /\ ReturnInv => ReturnsClean
  BY DEF ReturnInv, ReturnsClean
<1> QED BY <1>1, <1>2, <1>3, PTL DEF StreamSpec

-----------------------------------------------------------------------------
(* Progress: NeverStuck by the guards of Internal, and what its steps use  *)
(* up.                                                                     *)

(* At most one buffer is with another writer.                              *)
OtherInv == \A b, c \in Buffers : owner[b] = "other" /\ owner[c] = "other" => b = c

(* The guards of Internal: a buffer to rotate in, a token, wg.Wait, and    *)
(* the requests.                                                           *)
CanStep ==
  \/ /\ pc = "fill"
     /\ Len(mem[buf]) < PartSize \/ failed \/ \E b \in Buffers : owner[b] = "free"
  \/ pc = "send" /\ Cardinality(InFlight) < Concurrency
  \/ (pc = "wait" \/ term = "wait") /\ InFlight = {}
  \/ pc \in {"complete", "abortRemote"} \/ term = "remote"
  \/ \E pn \in PartNums : worker[pn] \in {"upload", "release"}

(* A call under way can go on, and one that is made finds a buffer.        *)
CanGoOn ==
  /\ pc # "send" => \E b \in Buffers : owner[b] = "free"
  /\ pc \in {"fill", "send", "wait", "complete", "abortRemote"} \/ term \in {"wait", "remote"}
       => CanStep

(* Bytes to copy, steps of the caller and of Abort, and steps of workers,  *)
(* of which starting one pays for the caller's way back.                   *)
CallAhead  == [idle |-> 0, werr |-> 0, fill |-> 6, send |-> 5, wait |-> 4, complete |-> 3,
               abortRemote |-> 2, closed |-> 0, closeErr |-> 0]
AbortAhead == [none |-> 0, wait |-> 2, remote |-> 1, aborted |-> 0]
Before(S)  == {pn \in PartNums : worker[pn] \in S}

WorkersAhead ==
  Cardinality(Before({"idle"})) + Cardinality(Before({"idle", "upload"}))
    + Cardinality(Before({"idle", "upload", "release"}))

Work == left + CallAhead[pc] + AbortAhead[term] + 2 * WorkersAhead

Call == CloseCall \/ AbortCall \/ \E n \in 1..MaxBytes : WriteCall(n)

FiniteWork == Work \in Nat

LessToDo ==
  /\ Internal => Work' < Work
  /\ ~Call => Work' <= Work

LEMMA AheadType ==
  /\ \A x \in Phases : CallAhead[x] \in 0..6
  /\ \A x \in {"none", "wait", "remote", "aborted"} : AbortAhead[x] \in 0..2
<1>1. \A x \in Phases : CallAhead[x] \in 0..6
  BY DEF Phases, CallAhead
<1>2. \A x \in {"none", "wait", "remote", "aborted"} : AbortAhead[x] \in 0..2
  BY DEF AbortAhead
<1> QED BY <1>1, <1>2

LEMMA BeforeFinite ==
  ASSUME NEW S
  PROVE  IsFiniteSet(Before(S)) /\ Cardinality(Before(S)) \in Nat
<1>1. MaxBytes \div PartSize + 1 \in Nat
  BY MultipartAssumption
<1>2. IsFiniteSet(PartNums)
  BY <1>1, FS_Interval DEF PartNums
<1> QED BY <1>2, FS_Subset, FS_CardinalityType DEF Before

LEMMA WorkType == TypeInv => WorkersAhead \in Nat /\ Work \in Nat
<1> SUFFICES ASSUME TypeInv PROVE WorkersAhead \in Nat /\ Work \in Nat
  OBVIOUS
<1>1. /\ left \in Nat /\ CallAhead[pc] \in 0..6 /\ AbortAhead[term] \in 0..2
  BY AheadType, MultipartAssumption DEF TypeInv, TypeOK
<1>2. WorkersAhead \in Nat
  BY BeforeFinite DEF WorkersAhead
<1> QED BY <1>1, <1>2 DEF Work

(* A worker goes on by a step.                                             *)
LEMMA WorkerWorks ==
  ASSUME TypeInv, NEW pn \in PartNums, NEW x \in {"upload", "release", "gone"},
         worker' = [worker EXCEPT ![pn] = x],
         worker[pn] = CASE x = "upload" -> "idle" [] x = "release" -> "upload"
                        [] x = "gone" -> "release"
  PROVE  WorkersAhead' \in Nat /\ WorkersAhead' < WorkersAhead
<1> DEFINE A == {"idle"}
           B == {"idle", "upload"}
           C == {"idle", "upload", "release"}
<1>1. /\ worker'[pn] = x /\ \A p \in PartNums \ {pn} : worker'[p] = worker[p]
  BY DEF TypeInv, TypeOK
<1>2. /\ Cardinality(Before(A)) \in Nat /\ Cardinality(Before(B)) \in Nat
      /\ Cardinality(Before(C)) \in Nat
  BY BeforeFinite
<1>3. ASSUME NEW S, worker[pn] \in S, x \notin S
      PROVE  /\ Cardinality(Before(S)') = Cardinality(Before(S)) - 1
             /\ Cardinality(Before(S)') \in Nat
  <2>1. pn \in Before(S) /\ Before(S)' = Before(S) \ {pn}
    BY <1>1, <1>3 DEF Before
  <2>2. IsFiniteSet(Before(S)) /\ IsFiniteSet(Before(S) \ {pn})
    BY BeforeFinite, FS_RemoveElement
  <2> QED BY <2>1, <2>2, FS_RemoveElement, FS_CardinalityType
<1>4. ASSUME NEW S, worker[pn] \in S <=> x \in S
      PROVE  Before(S)' = Before(S)
  BY <1>1, <1>4 DEF Before
<1>5. CASE x = "upload"
  <2>1. /\ Cardinality(Before(A)') = Cardinality(Before(A)) - 1
        /\ Cardinality(Before(A)') \in Nat
        /\ Before(B)' = Before(B) /\ Before(C)' = Before(C)
    BY <1>3, <1>4, <1>5
  <2> QED BY <1>2, <2>1 DEF WorkersAhead
<1>6. CASE x = "release"
  <2>1. /\ Cardinality(Before(B)') = Cardinality(Before(B)) - 1
        /\ Cardinality(Before(B)') \in Nat
        /\ Before(A)' = Before(A) /\ Before(C)' = Before(C)
    BY <1>3, <1>4, <1>6
  <2> QED BY <1>2, <2>1 DEF WorkersAhead
<1>7. CASE x = "gone"
  <2>1. /\ Cardinality(Before(C)') = Cardinality(Before(C)) - 1
        /\ Cardinality(Before(C)') \in Nat
        /\ Before(A)' = Before(A) /\ Before(B)' = Before(B)
    BY <1>3, <1>4, <1>7
  <2> QED BY <1>2, <2>1 DEF WorkersAhead
<1> QED BY <1>5, <1>6, <1>7

LEMMA InternalWorks ==
  ASSUME TypeInv, CountInv, Internal
  PROVE  Work' < Work
<1> USE DEF callVars, abortVars, bufVars, workVars, serverVars
<1>0. /\ left \in Nat /\ CallAhead[pc] \in 0..6 /\ AbortAhead[term] \in 0..2
      /\ WorkersAhead \in Nat
  BY AheadType, WorkType, MultipartAssumption DEF TypeInv, TypeOK
<1>1. worker' = worker => WorkersAhead' = WorkersAhead
  BY DEF WorkersAhead, Before
<1>2. CASE Fill
  <2>1. /\ pc = "fill" /\ UNCHANGED <<worker, term>>
        /\ PartSize - Len(mem[buf]) \in Nat /\ PartSize - Len(mem[buf]) > 0
    <3>1. Len(mem[buf]) \in Nat /\ PartSize \in Nat
      BY LenProperties, MultipartAssumption DEF TypeInv, TypeOK
    <3> QED BY <1>2, <3>1 DEF Fill
  <2> DEFINE room == PartSize - Len(mem[buf])
             n    == IF left > room THEN room ELSE left
  <2>2. left' = left - n /\ pc' = IF left' = 0 THEN "idle" ELSE "fill"
    BY <1>2 DEF Fill
  <2>3. room \in Nat /\ room > 0
    BY <2>1
  <2> HIDE DEF room
  <2>4. \/ left' = 0 /\ pc' = "idle"
        \/ left' \in Nat /\ left' < left /\ pc' = "fill"
    BY <1>0, <2>2, <2>3
  <2>5. CallAhead["idle"] = 0 /\ CallAhead["fill"] = 6
    BY DEF CallAhead
  <2>6. CASE left' = 0 /\ pc' = "idle"
    BY <1>0, <1>1, <2>1, <2>5, <2>6 DEF Work
  <2>7. CASE left' \in Nat /\ left' < left /\ pc' = "fill"
    BY <1>0, <1>1, <2>1, <2>5, <2>7 DEF Work
  <2> QED BY <2>4, <2>6, <2>7
<1>3. CASE DispatchFull
  <2>1. /\ pc = "fill" /\ UNCHANGED <<worker, term>>
        /\ pc' \in {"werr", "send"} /\ left' \in {0, left}
    BY <1>3 DEF DispatchFull, Rotate
  <2>2. CallAhead["werr"] = 0 /\ CallAhead["fill"] = 6 /\ CallAhead["send"] = 5
    BY DEF CallAhead
  <2> QED BY <1>0, <1>1, <2>1, <2>2 DEF Work
<1>4. CASE Send
  <2> DEFINE pn == partNum - 1
  <2>1. /\ pc = "send" /\ worker' = [worker EXCEPT ![pn] = "upload"]
        /\ pc' = ret /\ ret \in {"fill", "wait"} /\ UNCHANGED <<left, term>>
    BY <1>4 DEF Send, TypeInv, TypeOK
  <2>2. pn \in PartNums /\ worker[pn] = "idle"
    BY <2>1 DEF CountInv
  <2> HIDE DEF pn
  <2>3. WorkersAhead' \in Nat /\ WorkersAhead' < WorkersAhead
    BY <2>1, <2>2, WorkerWorks
  <2>4. CallAhead["send"] = 5 /\ CallAhead["fill"] = 6 /\ CallAhead["wait"] = 4
    BY DEF CallAhead
  <2> QED BY <1>0, <2>1, <2>3, <2>4 DEF Work
<1>5. CASE CloseWait \/ Complete
  <2>1. /\ UNCHANGED <<worker, term, left>>
        /\ \/ pc = "wait" /\ pc' \in {"abortRemote", "complete"}
           \/ pc = "complete" /\ pc' \in {"closed", "abortRemote"}
    BY <1>5 DEF CloseWait, Complete
  <2>2. /\ CallAhead["wait"] = 4 /\ CallAhead["complete"] = 3
        /\ CallAhead["abortRemote"] = 2 /\ CallAhead["closed"] = 0
    BY DEF CallAhead
  <2> QED BY <1>0, <1>1, <2>1, <2>2 DEF Work
<1>6. CASE AbortWait
  <2>1. UNCHANGED <<worker, pc, left>> /\ term = "wait" /\ term' = "remote"
    BY <1>6 DEF AbortWait
  <2>2. AbortAhead["wait"] = 2 /\ AbortAhead["remote"] = 1
    BY DEF AbortAhead
  <2> QED BY <1>0, <1>1, <2>1, <2>2 DEF Work
<1>7. CASE AbortRemote
  <2>1. /\ UNCHANGED <<worker, left>>
        /\ \/ pc = "abortRemote" /\ pc' = "closeErr" /\ UNCHANGED term
           \/ term = "remote" /\ term' = "aborted" /\ UNCHANGED pc
    BY <1>7 DEF AbortRemote
  <2>2. /\ AbortAhead["remote"] = 1 /\ AbortAhead["aborted"] = 0
        /\ CallAhead["abortRemote"] = 2 /\ CallAhead["closeErr"] = 0
    BY DEF AbortAhead, CallAhead
  <2> QED BY <1>0, <1>1, <2>1, <2>2 DEF Work
<1>8. ASSUME NEW pn \in PartNums, UploadOnePart(pn) \/ ReleaseBuf(pn)
      PROVE  Work' < Work
  <2>1. /\ UNCHANGED <<left, pc, term>>
        /\ \/ worker[pn] = "upload" /\ worker' = [worker EXCEPT ![pn] = "release"]
           \/ worker[pn] = "release" /\ worker' = [worker EXCEPT ![pn] = "gone"]
    BY <1>8 DEF UploadOnePart, ReleaseBuf
  <2>2. WorkersAhead' \in Nat /\ WorkersAhead' < WorkersAhead
    BY <2>1, WorkerWorks
  <2> QED BY <1>0, <2>1, <2>2 DEF Work
<1> QED BY <1>2, <1>3, <1>4, <1>5, <1>6, <1>7, <1>8 DEF Internal

LEMMA OtherStep == TypeInv /\ OtherInv /\ [Next]_vars => OtherInv'
<1> SUFFICES ASSUME TypeInv, OtherInv, [Next]_vars PROVE OtherInv'
  OBVIOUS
<1> USE DEF callVars, abortVars, bufVars, workVars, serverVars
<1>0. owner \in [Buffers -> {"free", "mine", "other"}]
  BY DEF TypeInv, TypeOK
<1>1. ASSUME NEW b \in Buffers, OtherGet(b) PROVE OtherInv'
  BY <1>0, <1>1 DEF OtherGet, OtherInv
<1>2. ASSUME \A b \in Buffers : owner'[b] = "other" => owner[b] = "other" PROVE OtherInv'
  BY <1>2 DEF OtherInv
<1>3. ASSUME NEW b \in Buffers, OtherPut(b) PROVE OtherInv'
  BY <1>0, <1>2, <1>3 DEF OtherPut
<1>4. CASE DispatchFull \/ CloseCall
  BY <1>0, <1>2, <1>4 DEF DispatchFull, CloseCall, Rotate
<1>5. ASSUME NEW pn \in PartNums, ReleaseBuf(pn) PROVE OtherInv'
  <2>1. \A b \in Buffers : owner'[b] = "other" => owner[b] = "other"
    BY <1>0, <1>5 DEF ReleaseBuf
  <2> QED BY <1>2, <2>1
<1>6. CASE \/ Fill \/ Send \/ CloseWait \/ Complete \/ AbortWait \/ AbortRemote
           \/ AbortCall \/ Cancel \/ (\E n \in 1..MaxBytes : WriteCall(n))
           \/ (\E pn \in PartNums : UploadOnePart(pn)) \/ UNCHANGED vars
  <2>1. owner' = owner
    BY <1>6 DEF Fill, Send, CloseWait, Complete, AbortWait, AbortRemote, AbortCall, Cancel,
                WriteCall, UploadOnePart, vars
  <2> QED BY <1>2, <2>1
<1> QED BY <1>1, <1>3, <1>4, <1>5, <1>6 DEF Next, Internal

(* A pool with room for one writer and a buffer of another never runs dry  *)
(* when it is asked.                                                       *)
LEMMA PoolNotDry ==
  ASSUME TypeInv, HeldInv, OtherInv, pc # "send",
         IsFiniteSet(Buffers), Cardinality(Buffers) > Concurrency + 2
  PROVE  \E b \in Buffers : owner[b] = "free"
<1> SUFFICES ASSUME \A b \in Buffers : owner[b] # "free" PROVE FALSE
  OBVIOUS
<1> DEFINE Taken == {bodyOf[p] : p \in InFlight}
<1>1. /\ IsFiniteSet(Taken) /\ Cardinality(Taken) <= Cardinality(InFlight)
      /\ Cardinality(Taken) \in Nat
  <2> DEFINE f == [p \in InFlight |-> bodyOf[p]]
  <2>1. f \in Surjection(InFlight, Taken)
    BY DEF Surjection
  <2> QED BY <2>1, InFlightFinite, FS_Surjection, FS_CardinalityType
<1>2. PICK o : \A b \in Buffers : owner[b] = "other" => b = o
  BY DEF OtherInv
<1>3. Buffers \subseteq (Taken \cup {buf}) \cup {o}
  <2> SUFFICES ASSUME NEW b \in Buffers PROVE b \in (Taken \cup {buf}) \cup {o}
    OBVIOUS
  <2>1. owner[b] \in {"mine", "other"}
    BY DEF TypeInv, TypeOK
  <2>2. CASE owner[b] = "other"
    BY <1>2, <2>2
  <2>3. CASE owner[b] = "mine"
    BY <2>3 DEF HeldInv, Held
  <2> QED BY <2>1, <2>2, <2>3
<1> HIDE DEF Taken
<1>4. /\ IsFiniteSet(Taken \cup {buf}) /\ Cardinality(Taken \cup {buf}) \in Nat
      /\ Cardinality(Taken \cup {buf}) <= Cardinality(Taken) + 1
  BY <1>1, OneMore
<1>5. /\ IsFiniteSet((Taken \cup {buf}) \cup {o})
      /\ Cardinality((Taken \cup {buf}) \cup {o}) \in Nat
      /\ Cardinality((Taken \cup {buf}) \cup {o}) <= Cardinality(Taken \cup {buf}) + 1
  BY <1>4, OneMore
<1>6. /\ Cardinality(Buffers) <= Cardinality((Taken \cup {buf}) \cup {o})
      /\ Cardinality(Buffers) \in Nat
  BY <1>3, <1>5, FS_Subset, FS_CardinalityType
<1>7. /\ Cardinality(InFlight) <= Concurrency /\ Cardinality(InFlight) \in Nat
      /\ Concurrency \in Nat
  BY InFlightFinite, MultipartAssumption DEF HeldInv
<1> QED BY <1>1, <1>4, <1>5, <1>6, <1>7

(* A call of the writer is never stuck: who waits for a token or for the   *)
(* workers waits for somebody who can go on, and the pool has a buffer     *)
(* when one is needed.  And every internal step, whatever fails, uses up   *)
(* bytes or steps of a finite stock that only a new call adds to: given    *)
(* that what can run does run, Write, Close and Abort return (w.sem, w.wg  *)
(* and the shared pool).                                                   *)
THEOREM ProgressTheorem ==
  ASSUME IsFiniteSet(Buffers), Cardinality(Buffers) > Concurrency + 2
  PROVE  Spec => [](CanGoOn /\ FiniteWork) /\ [][LessToDo]_vars
<1> DEFINE Inv == CommitInv /\ HeldInv /\ OtherInv
<1>1. Init => Inv
  <2>1. Init => OtherInv
    BY DEF Init, OtherInv
  <2> QED BY <2>1, CommitInit, HeldInit
<1>2. Inv /\ [Next]_vars => Inv'
  BY CommitStep, HeldStep, OtherStep DEF CommitInv
<1>3. Inv => CanGoOn /\ FiniteWork
  <2> SUFFICES ASSUME Inv PROVE CanGoOn
    BY WorkType DEF CommitInv, FiniteWork
  <2>1. pc # "send" => \E b \in Buffers : owner[b] = "free"
    BY PoolNotDry DEF CommitInv
  <2>2. InFlight # {} => \E pn \in PartNums : worker[pn] \in {"upload", "release"}
    BY DEF InFlight
  <2>3. InFlight = {} => Cardinality(InFlight) < Concurrency
    BY FS_EmptySet, MultipartAssumption
  <2> QED BY <2>1, <2>2, <2>3 DEF CanGoOn, CanStep
<1>4. Inv' => FiniteWork'
  BY <1>3, PTL
<1>5. Inv /\ [Next]_vars => [LessToDo]_vars
  <2> SUFFICES ASSUME Inv, Next PROVE LessToDo
    OBVIOUS
  <2>1. Internal => Work' < Work
    BY InternalWorks DEF CommitInv
  <2>2. Work \in Nat /\ Work' \in Nat
    BY <1>2, <1>3, <1>4 DEF FiniteWork
  <2>3. ASSUME Cancel \/ \E b \in Buffers : OtherGet(b) \/ OtherPut(b)
        PROVE  Work' = Work
    BY <2>3 DEF Cancel, OtherGet, OtherPut, callVars, abortVars, workVars, Work,
                WorkersAhead, Before
  <2> QED BY <2>1, <2>2, <2>3 DEF LessToDo, Call, Next
<1> QED BY <1>1, <1>2, <1>3, <1>5, PTL DEF Spec

=============================================================================
