-------------------------- MODULE MultipartWriter ---------------------------
(***************************************************************************)
(* pkg/backend/s3, multipartWriter: one streaming Put as an S3 multipart   *)
(* upload.  The caller fills a buffer; each full buffer goes to an         *)
(* UploadPart goroutine, at most Concurrency of them at a time, and a      *)
(* fresh buffer comes from the pool that ALL writers of the backend share. *)
(* Close flushes, waits, and completes the upload; Abort waits and         *)
(* discards it.                                                            *)
(*                                                                         *)
(* Bytes are numbered in the order they are written.  Buffers have an      *)
(* identity and a memory, so that a buffer used by two owners shows as     *)
(* wrong bytes.  The other writers of the backend are an environment that  *)
(* takes free buffers, scribbles into them and gives them back.            *)
(***************************************************************************)
EXTENDS Naturals, Sequences, FiniteSets

CONSTANTS
  PartSize,     \* bytes per part buffer
  Concurrency,  \* cap(sem)
  MaxParts,     \* S3: highest part number accepted
  MaxBytes,     \* bound: bytes the caller writes in all
  Buffers,      \* buffer identities, enough for this writer and one more
  Old,          \* the object under the key before this Put
  None          \* no buffer

ASSUME MultipartAssumption ==
  /\ PartSize \in Nat \ {0}
  /\ Concurrency \in Nat \ {0}
  /\ MaxParts \in Nat /\ MaxBytes \in Nat
  /\ None \notin Buffers

VARIABLES
  pc,         \* where the caller stands, inside or between calls
  left,       \* bytes of the current Write still to copy
  produced,   \* bytes copied so far
  buf,        \* w.buf
  body,       \* dispatchBuffered's body, from rotation to the go statement
  ret,        \* where dispatchBuffered returns to
  closing,    \* Close has been called
  term,       \* where Abort stands, which may run beside a Write
  overtaken,  \* history: Abort found a Write that waits for a token
  partNum,    \* w.partNum
  failed,     \* w.failed is set
  ctx,        \* w.ctx is cancelled
  worker,     \* the goroutine of each part number
  bodyOf,     \* its body
  parts,      \* w.parts, in the order the answers came
  mem,        \* buffer memory, up to the slice's length
  owner,      \* "free" (in the pool), "mine", "other"
  upload,     \* server: the multipart upload
  server,     \* server: part number -> bytes, for the parts received
  object      \* server: Old, or the part bodies the object is made of

abortVars  == <<term, overtaken>>
callVars   == <<pc, left, produced, ret, closing, partNum, abortVars>>
bufVars    == <<buf, body, mem, owner>>
workVars   == <<worker, bodyOf, parts, failed>>
serverVars == <<upload, server, object>>
vars       == <<callVars, bufVars, workVars, serverVars, ctx>>

(* Part numbers that can come up: a full part per PartSize bytes, plus the *)
(* last one.                                                               *)
PartNums == 1..(MaxBytes \div PartSize + 1)

(* Faulty variant: a token is never taken back from the semaphore.         *)
InFlightForever == {pn \in PartNums : worker[pn] # "idle"}

(* len(sem)                                                                *)
InFlight == {pn \in PartNums : worker[pn] \in {"upload", "release"}}

(* Close or Abort has returned.                                            *)
Ended == pc \in {"closed", "closeErr"} \/ term = "aborted"

(* Go's append to a buffer: the next n bytes of the stream.                *)
Chunk(n) == [i \in 1..n |-> produced + i]

(* Put: the multipart upload exists, the first buffer is checked out.      *)
Init ==
  /\ pc = "idle" /\ left = 0 /\ produced = 0
  /\ buf \in Buffers /\ body = None
  /\ ret = "fill" /\ closing = FALSE
  /\ term = "none" /\ overtaken = FALSE
  /\ partNum = 1
  /\ failed = FALSE /\ ctx = FALSE
  /\ worker = [pn \in PartNums |-> "idle"]
  /\ bodyOf = [pn \in PartNums |-> None]
  /\ parts = <<>>
  /\ mem = [b \in Buffers |-> <<>>]
  /\ owner = [b \in Buffers |-> IF b = buf THEN "mine" ELSE "free"]
  /\ upload = "open"
  /\ server = [pn \in PartNums |-> <<>>]
  /\ object = Old

-----------------------------------------------------------------------------

(* Write is called with n > 0 bytes: peekErr first.                        *)
WriteCall(n) ==
  /\ pc = "idle"
  /\ produced + n <= MaxBytes
  /\ IF failed
     THEN pc' = "werr" /\ UNCHANGED left
     ELSE pc' = "fill" /\ left' = n
  /\ UNCHANGED <<produced, ret, closing, partNum, abortVars, bufVars, workVars,
                 serverVars, ctx>>

(* One pass of Write's loop that copies into the room that is left.        *)
Fill ==
  LET room == PartSize - Len(mem[buf])
      n    == IF left > room THEN room ELSE left
  IN
  /\ pc = "fill"
  /\ room > 0
  /\ mem' = [mem EXCEPT ![buf] = @ \o Chunk(n)]
  /\ produced' = produced + n
  /\ left' = left - n
  /\ pc' = IF left' = 0 THEN "idle" ELSE "fill"
  /\ UNCHANGED <<ret, closing, partNum, abortVars, buf, body, owner, workVars,
                 serverVars, ctx>>

(* dispatchBuffered up to the semaphore: rotate in a buffer of the pool,   *)
(* cut to length zero, and take a part number.                             *)
Rotate(to) ==
  /\ \E b \in Buffers :
       /\ owner[b] = "free"
       /\ owner' = [owner EXCEPT ![b] = "mine"]
       /\ mem' = [mem EXCEPT ![b] = <<>>]
       /\ buf' = b
  /\ body' = buf
  /\ partNum' = partNum + 1
  /\ ret' = to
  /\ pc' = "send"

(* Write's loop when the buffer is full.                                   *)
DispatchFull ==
  /\ pc = "fill"
  /\ Len(mem[buf]) = PartSize
  /\ IF failed
     THEN /\ pc' = "werr" /\ left' = 0
          /\ UNCHANGED <<bufVars, partNum, ret>>
     ELSE /\ Rotate("fill")
          /\ UNCHANGED left
  /\ UNCHANGED <<produced, closing, abortVars, workVars, serverVars, ctx>>

(* Faulty variant: the buffer is given back when the goroutine starts.     *)
SendReleasesEarly ==
  LET pn == partNum - 1 IN
  /\ pc = "send"
  /\ Cardinality(InFlight) < Concurrency
  /\ worker' = [worker EXCEPT ![pn] = "upload"]
  /\ bodyOf' = [bodyOf EXCEPT ![pn] = body]
  /\ owner' = [owner EXCEPT ![body] = "free"]
  /\ body' = None
  /\ pc' = ret
  /\ UNCHANGED <<left, produced, ret, closing, partNum, abortVars, buf, mem,
                 parts, failed, serverVars, ctx>>

(* Faulty variant: the goroutine starts without a token.                   *)
SendUnbounded ==
  LET pn == partNum - 1 IN
  /\ pc = "send"
  /\ worker' = [worker EXCEPT ![pn] = "upload"]
  /\ bodyOf' = [bodyOf EXCEPT ![pn] = body]
  /\ body' = None
  /\ pc' = ret
  /\ UNCHANGED <<left, produced, ret, closing, partNum, abortVars, buf, mem, owner,
                 parts, failed, serverVars, ctx>>

(* w.sem <- struct{}{} and the go statement.                               *)
Send ==
  LET pn == partNum - 1 IN
  /\ pc = "send"
  /\ Cardinality(InFlight) < Concurrency
  /\ worker' = [worker EXCEPT ![pn] = "upload"]
  /\ bodyOf' = [bodyOf EXCEPT ![pn] = body]
  /\ body' = None
  /\ pc' = ret
  /\ UNCHANGED <<left, produced, ret, closing, partNum, abortVars, buf, mem, owner,
                 parts, failed, serverVars, ctx>>

(* Faulty variant: recordErr is not called.                                *)
UploadOnePartErrorDropped(pn) ==
  /\ worker[pn] = "upload"
  /\ worker' = [worker EXCEPT ![pn] = "release"]
  /\ \/ /\ ~ctx /\ pn <= MaxParts /\ upload = "open"
        /\ server' = [server EXCEPT ![pn] = mem[bodyOf[pn]]]
        /\ parts' = Append(parts, pn)
     \/ UNCHANGED <<server, parts>>
  /\ UNCHANGED <<callVars, bufVars, failed, bodyOf, upload, object, ctx>>

(* uploadOnePart: the request carries the bytes that are in the buffer     *)
(* when it is sent.  S3 takes it while the upload is open and the number   *)
(* is within its limit; any request may fail.                              *)
UploadOnePart(pn) ==
  /\ worker[pn] = "upload"
  /\ worker' = [worker EXCEPT ![pn] = "release"]
  /\ \/ /\ ~ctx /\ pn <= MaxParts /\ upload = "open"
        /\ server' = [server EXCEPT ![pn] = mem[bodyOf[pn]]]
        /\ parts' = Append(parts, pn)
        /\ UNCHANGED failed
     \/ /\ failed' = TRUE
        /\ UNCHANGED <<server, parts>>
  /\ UNCHANGED <<callVars, bufVars, bodyOf, upload, object, ctx>>

(* The end of the goroutine: releaseBuf, <-w.sem, wg.Done.                 *)
ReleaseBuf(pn) ==
  /\ worker[pn] = "release"
  /\ worker' = [worker EXCEPT ![pn] = "gone"]
  /\ owner' = [owner EXCEPT ![bodyOf[pn]] = "free"]
  /\ UNCHANGED <<callVars, buf, body, mem, bodyOf, parts, failed, serverVars, ctx>>

(* Faulty variant: the last, shorter part is not flushed.                  *)
CloseCallUnflushed ==
  /\ pc = "idle" /\ term = "none"
  /\ closing' = TRUE
  /\ pc' = "wait"
  /\ UNCHANGED <<left, produced, ret, partNum, abortVars, bufVars, workVars, serverVars,
                 ctx>>

(* Close: the rest of the buffer is flushed as the last part.  With a      *)
(* recorded failure the flush is refused.                                  *)
CloseCall ==
  /\ pc = "idle" /\ term = "none"
  /\ closing' = TRUE
  /\ IF mem[buf] = <<>> \/ failed
     THEN /\ pc' = "wait"
          /\ UNCHANGED <<bufVars, partNum, ret>>
     ELSE Rotate("wait")
  /\ UNCHANGED <<left, produced, abortVars, workVars, serverVars, ctx>>

(* Faulty variant: Close does not wait for the workers.                    *)
CloseWaitSkipped ==
  /\ pc = "wait"
  /\ pc' = IF failed THEN "abortRemote" ELSE "complete"
  /\ UNCHANGED <<left, produced, ret, closing, partNum, abortVars, bufVars, workVars,
                 serverVars, ctx>>

(* Close's wg.Wait and the two error tests.                                *)
CloseWait ==
  /\ pc = "wait"
  /\ InFlight = {}
  /\ pc' = IF failed THEN "abortRemote" ELSE "complete"
  /\ UNCHANGED <<left, produced, ret, closing, partNum, abortVars, bufVars, workVars,
                 serverVars, ctx>>

(* sort.Slice of w.parts by part number.                                   *)
SortedParts ==
  CHOOSE s \in [DOMAIN parts -> {parts[i] : i \in DOMAIN parts}] :
    \A i, j \in DOMAIN parts : i < j => s[i] < s[j]

(* S3 on CompleteMultipartUpload: an open upload and a non-empty list in   *)
(* ascending order.                                                        *)
Acceptable(list) ==
  /\ upload = "open"
  /\ list # <<>>
  /\ \A i, j \in DOMAIN list : i < j => list[i] < list[j]

(* CompleteMultipartUpload.  The answer of a request that took effect may  *)
(* be lost, also because the context is cancelled meanwhile; every error   *)
(* goes on to abortRemote.                                                 *)
Complete ==
  /\ pc = "complete"
  /\ \/ /\ Acceptable(SortedParts)
        /\ object' = [i \in DOMAIN SortedParts |-> server[SortedParts[i]]]
        /\ upload' = "completed"
        /\ \/ ~ctx /\ pc' = "closed"
           \/ pc' = "abortRemote"
     \/ /\ pc' = "abortRemote"
        /\ UNCHANGED <<upload, object>>
  /\ UNCHANGED <<left, produced, ret, closing, partNum, abortVars, bufVars, workVars, server, ctx>>

(* Abort: record errAborted.  A Write of another goroutine may be under    *)
(* way; it fails at its next look at w.failed, unless it is past the last. *)
AbortCall ==
  /\ term = "none" /\ ~closing
  /\ pc \in {"idle", "werr", "fill", "send"}
  /\ failed' = TRUE
  /\ term' = "wait"
  /\ overtaken' = (pc = "send")
  /\ UNCHANGED <<pc, left, produced, ret, closing, partNum, bufVars,
                 worker, bodyOf, parts, serverVars, ctx>>

(* Abort's wg.Wait.                                                        *)
AbortWait ==
  /\ term = "wait"
  /\ InFlight = {}
  /\ term' = "remote"
  /\ UNCHANGED <<pc, left, produced, ret, closing, partNum, overtaken, bufVars,
                 workVars, serverVars, ctx>>

(* abortRemote, called by Close or by Abort, under a context of its own;   *)
(* its error is ignored.                                                   *)
AbortRemote ==
  /\ \/ pc = "abortRemote" /\ pc' = "closeErr" /\ UNCHANGED term
     \/ term = "remote" /\ term' = "aborted" /\ UNCHANGED pc
  /\ \/ upload' = IF upload = "open" THEN "aborted" ELSE upload
     \/ UNCHANGED upload
  /\ UNCHANGED <<left, produced, ret, closing, partNum, overtaken, bufVars, workVars,
                 server, object, ctx>>

(* The caller's context is cancelled.                                      *)
Cancel ==
  /\ ~ctx
  /\ ~Ended
  /\ ctx' = TRUE
  /\ UNCHANGED <<callVars, bufVars, workVars, serverVars>>

(* Another writer of the backend uses a buffer of the pool, at most one at *)
(* a time.                                                                 *)
OtherGet(b) ==
  /\ owner[b] = "free"
  /\ \A c \in Buffers : owner[c] # "other"
  /\ owner' = [owner EXCEPT ![b] = "other"]
  /\ mem' = [mem EXCEPT ![b] = <<0>>]
  /\ UNCHANGED <<callVars, buf, body, workVars, serverVars, ctx>>

OtherPut(b) ==
  /\ owner[b] = "other"
  /\ owner' = [owner EXCEPT ![b] = "free"]
  /\ UNCHANGED <<callVars, buf, body, mem, workVars, serverVars, ctx>>

(* What runs by itself once a call was made.                               *)
Internal ==
  \/ Fill \/ DispatchFull \/ Send
  \/ CloseWait \/ Complete \/ AbortWait \/ AbortRemote
  \/ \E pn \in PartNums : UploadOnePart(pn) \/ ReleaseBuf(pn)

Next ==
  \/ Internal
  \/ \E n \in 1..MaxBytes : WriteCall(n)
  \/ CloseCall \/ AbortCall \/ Cancel
  \/ \E b \in Buffers : OtherGet(b) \/ OtherPut(b)

Spec == Init /\ [][Next]_vars

-----------------------------------------------------------------------------

Phases == {"idle", "werr", "fill", "send", "wait", "complete",
           "abortRemote", "closed", "closeErr"}

(* The type invariant; a buffer never holds more than PartSize bytes.      *)
TypeOK ==
  /\ pc \in Phases
  /\ left \in 0..MaxBytes
  /\ produced \in 0..MaxBytes
  /\ ret \in {"fill", "wait"}
  /\ closing \in BOOLEAN
  /\ term \in {"none", "wait", "remote", "aborted"}
  /\ overtaken \in BOOLEAN
  /\ partNum \in Nat
  /\ buf \in Buffers
  /\ body \in Buffers \cup {None}
  /\ mem \in [Buffers -> Seq(0..MaxBytes)]
  /\ \A b \in Buffers : Len(mem[b]) <= PartSize
  /\ owner \in [Buffers -> {"free", "mine", "other"}]
  /\ worker \in [PartNums -> {"idle", "upload", "release", "gone"}]
  /\ bodyOf \in [PartNums -> Buffers \cup {None}]
  /\ parts \in Seq(PartNums)
  /\ failed \in BOOLEAN
  /\ ctx \in BOOLEAN
  /\ upload \in {"open", "completed", "aborted"}
  /\ server \in [PartNums -> Seq(0..MaxBytes)]

(* The bodies of an object of n bytes: full parts and a shorter last one.  *)
Bodies(n) ==
  LET last == (n + PartSize - 1) \div PartSize IN
  [i \in 1..last |->
     [j \in 1..(IF i < last THEN PartSize ELSE n - (last - 1) * PartSize) |->
        (i - 1) * PartSize + j]]

(* An object that becomes visible is made of exactly the bytes that were   *)
(* written, once each and in order, whatever the order in which UploadPart *)
(* answers and whatever other writers do with recycled buffers             *)
(* (dispatchBuffered, uploadOnePart, Close).                               *)
CommittedIsWritten == object # Old => object = Bodies(produced)

Terminating ==
  pc \in {"complete", "abortRemote", "closed", "closeErr"} \/ term \in {"remote", "aborted"}

(* The upload is completed or aborted only when none of its UploadPart     *)
(* requests is under way (wg.Wait in Close and in Abort).  The exception   *)
(* is the one part whose Write was past its last look at w.failed when     *)
(* Abort overtook it: no more than that one is sent.                       *)
QuietTermination ==
  Terminating => Cardinality(InFlight) <= IF overtaken THEN 1 ELSE 0

(* The buffer being filled, the one waiting for the semaphore and those of *)
(* the running UploadParts are checked out and pairwise different: nobody  *)
(* writes into bytes that are being sent (acquireBuf, releaseBuf).         *)
BuffersExclusive ==
  /\ owner[buf] = "mine"
  /\ pc = "send" => owner[body] = "mine" /\ body # buf
  /\ \A p \in InFlight :
       /\ owner[bodyOf[p]] = "mine"
       /\ bodyOf[p] # buf
       /\ pc = "send" => bodyOf[p] # body
       /\ \A q \in InFlight : q # p => bodyOf[p] # bodyOf[q]

Held == {b \in Buffers : owner[b] = "mine"}

(* A writer never holds more than Concurrency + 2 buffers: those in        *)
(* flight, the one that waits for the semaphore and the fresh one that     *)
(* dispatchBuffered takes before it waits.                                 *)
BufferCeiling == Cardinality(Held) <= Concurrency + 2

(* A call in progress can always go on: Write, Close and Abort never wait   *)
(* for a token, a buffer or a worker that in turn waits for them           *)
(* (w.sem, w.wg and the shared pool).  Internal steps only ever use up     *)
(* bytes, workers and requests, so a call that can go on returns.          *)
NeverStuck ==
  pc \in {"fill", "send", "wait", "complete", "abortRemote"} \/ term \in {"wait", "remote"}
    => ENABLED Internal

-----------------------------------------------------------------------------

(* Old is told apart from the objects that this Put can make.              *)
ASSUME OldAssumption == \A n \in 1..MaxBytes : Old # Bodies(n)

SeqExt == INSTANCE SequencesExt

(* The writer as its caller sees it: the outcome is decided when Close or  *)
(* Abort turn to abortRemote; an object is its part bodies, concatenated.  *)
Failed == pc \in {"abortRemote", "closeErr"} \/ term \in {"remote", "aborted"}

Contract == INSTANCE ObjectWriter WITH
  Lossy    <- TRUE,
  phase    <- IF Failed THEN "failed" ELSE IF pc = "closed" THEN "ok" ELSE "open",
  accepted <- IF Failed THEN 0 ELSE produced,
  object   <- IF object = Old THEN Old ELSE SeqExt!FlattenSeq(object)

(* multipartWriter implements the contract of backend.Writer, in the form  *)
(* that allows for a lost answer to CompleteMultipartUpload.               *)
ImplementsWriter == Contract!Spec

=============================================================================
