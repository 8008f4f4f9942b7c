------------------------------ MODULE Download ------------------------------
(***************************************************************************)
(* pkg/download with snapshot.AtomicTarget: concurrent `ferry download`    *)
(* runs of one snapshot into ONE datadir.  Each run prepares a scratch     *)
(* directory, reads the manifest, fetches, extracts and verifies the parts *)
(* through a worker pool, and then swaps the scratch directory for         *)
(* <datadir>/geth.                                                         *)
(*                                                                         *)
(* A directory tree is NoDir or maps each part kind to what its subtree    *)
(* holds: None, the run whose upload the bytes come from, Local for files  *)
(* that were there before, or Broken for an extraction cut short.  Parts   *)
(* have disjoint extraction targets, hence one slot per kind.              *)
(***************************************************************************)
EXTENDS Integers, FiniteSets, Snapshot

CONSTANTS
  Downs,          \* invocations of download.Run with the same DataDir
  Writers,        \* the uploads whose bytes the backend may hold
  Shapes,         \* <<hasState, hasTriedb>> of the snapshots there may be
  Local, Broken,  \* see above
  NoDir,          \* the directory does not exist
  ParallelParts,  \* --parallel-parts, any int
  CtxAware,       \* TRUE: s3, FALSE: file (ctx is ignored)
  DiskFaults      \* TRUE: RemoveAll, Rename and MkdirTemp may fail

ASSUME DownloadAssumption ==
  /\ {None, Local, Broken, NoDir} \cap Writers = {}
  /\ Shapes \subseteq BOOLEAN \X BOOLEAN
  /\ None # Local /\ None # Broken /\ Local # Broken
  /\ ParallelParts \in Int
  /\ CtxAware \in BOOLEAN /\ DiskFaults \in BOOLEAN

VARIABLES
  force,      \* [Downs -> BOOLEAN], --force
  pc,         \* where the goroutine of Run stands
  ctx,        \* the root context is cancelled
  firstErr,   \* downloadParts' firstErr is set (and runCtx cancelled)
  next,       \* loop index of downloadParts
  worker,     \* the goroutine of each listed part
  m,          \* the manifest the run has read
  scratch,    \* .ferry-partial-*, one per run
  geth,       \* <datadir>/geth
  orig,       \* history: <datadir>/geth before the first run
  tar,        \* backend: parts/<kind>.tar.zst
  manifest    \* backend: manifest.json

store    == <<tar, manifest>>
downVars == <<force, pc, ctx, firstErr, next, worker, m, scratch, geth, orig>>
vars     == <<downVars, store>>

Phases == {"start", "fetch", "dispatch", "acquire", "wait", "abort",
           "remove", "rename", "ok", "err", "crashed"}
Stages == {"idle", "get", "verify", "done", "failed"}

Tree      == [PartKinds -> Writers \cup {Local, Broken, None}]
EmptyTree == [k \in PartKinds |-> None]

(* What is left of tree t when some of its subtrees are gone.              *)
Remains(t, u) == \A k \in PartKinds : u[k] \in {t[k], None}

(* What a complete download of manifest x consists of.                     *)
TreeOf(x) ==
  [k \in PartKinds |->
     IF \E i \in DOMAIN x.parts : x.parts[i].name = k
     THEN x.parts[CHOOSE i \in DOMAIN x.parts : x.parts[i].name = k].sha256
     ELSE None]

Ended(d)     == pc[d] \in {"ok", "err", "crashed"}
Cancelled(d) == ctx[d] \/ firstErr[d]
InFlight(d)  == {i \in Slots : worker[d][i] \in {"get", "verify"}}

(* Faulty variant: the lower clamp is missing, the channel has no room.    *)
LimitUnclamped(d) ==
  IF ParallelParts > Len(m[d].parts) THEN Len(m[d].parts) ELSE ParallelParts

(* cap(sem): parallelN clamped to 1..len(parts).                           *)
Limit(d) ==
  IF ParallelParts < 1 THEN 1
  ELSE IF ParallelParts > Len(m[d].parts) THEN Len(m[d].parts)
  ELSE ParallelParts

(* A snapshot, some of whose objects are gone or were replaced since.      *)
InitStore ==
  \/ /\ manifest = None
     /\ tar = EmptyTree
  \/ \E w \in Writers, s \in Shapes :
       /\ manifest = Published(w, PlanParts(s[1], s[2]))
       /\ \E now \in [PartKinds -> Writers \cup {None}] :
            tar = [k \in PartKinds |->
                     IF Objects(w, PlanParts(s[1], s[2]))[k] = None
                     THEN None ELSE now[k]]

(* Nothing has run yet; the datadir may be absent, empty or in use.        *)
InitRuns ==
  /\ force \in [Downs -> BOOLEAN]
  /\ pc = [d \in Downs |-> "start"]
  /\ ctx = [d \in Downs |-> FALSE]
  /\ firstErr = [d \in Downs |-> FALSE]
  /\ next = [d \in Downs |-> 1]
  /\ worker = [d \in Downs |-> [i \in Slots |-> "idle"]]
  /\ m = [d \in Downs |-> None]
  /\ scratch = [d \in Downs |-> NoDir]
  /\ orig \in {NoDir, EmptyTree, [EmptyTree EXCEPT ![Live] = Local]}
  /\ geth = orig

Init == InitRuns /\ InitStore

-----------------------------------------------------------------------------

(* Faulty variant: EnsureEmpty is not called.                              *)
PrepareAtomicUnchecked(d) ==
  /\ pc[d] = "start"
  /\ scratch' = [scratch EXCEPT ![d] = EmptyTree]
  /\ pc' = [pc EXCEPT ![d] = "fetch"]
  /\ UNCHANGED <<force, ctx, firstErr, next, worker, m, geth, orig, store>>

(* Faulty variant: --force clears the destination up front.                *)
PrepareAtomicClears(d) ==
  /\ pc[d] = "start"
  /\ force[d]
  /\ geth' = NoDir
  /\ scratch' = [scratch EXCEPT ![d] = EmptyTree]
  /\ pc' = [pc EXCEPT ![d] = "fetch"]
  /\ UNCHANGED <<force, ctx, firstErr, next, worker, m, orig, store>>

(* PrepareAtomic: EnsureEmpty without --force, then MkdirTemp.             *)
PrepareAtomic(d) ==
  /\ pc[d] = "start"
  /\ \/ /\ force[d] \/ geth \in {NoDir, EmptyTree}
        /\ scratch' = [scratch EXCEPT ![d] = EmptyTree]
        /\ pc' = [pc EXCEPT ![d] = "fetch"]
     \/ /\ DiskFaults \/ (~force[d] /\ geth \notin {NoDir, EmptyTree})
        /\ pc' = [pc EXCEPT ![d] = "err"]
        /\ UNCHANGED scratch
  /\ UNCHANGED <<force, ctx, firstErr, next, worker, m, geth, orig, store>>

(* Faulty variant: the deferred Abort is registered after fetchManifest.   *)
FetchManifestBeforeDefer(d) ==
  /\ pc[d] = "fetch"
  /\ pc' = [pc EXCEPT ![d] = "err"]
  /\ UNCHANGED <<force, ctx, firstErr, next, worker, m, scratch, geth, orig, store>>

(* fetchManifest: Get, Decode and Validate.                                *)
FetchManifest(d) ==
  /\ pc[d] = "fetch"
  /\ \/ /\ manifest # None
        /\ ValidParts(manifest.parts)
        /\ ~(CtxAware /\ ctx[d])
        /\ m' = [m EXCEPT ![d] = manifest]
        /\ pc' = [pc EXCEPT ![d] = "dispatch"]
     \/ /\ pc' = [pc EXCEPT ![d] = "abort"]
        /\ UNCHANGED m
  /\ UNCHANGED <<force, ctx, firstErr, next, worker, scratch, geth, orig, store>>

(* The head of downloadParts' loop.                                        *)
Dispatch(d) ==
  /\ pc[d] = "dispatch"
  /\ pc' = [pc EXCEPT ![d] =
              IF next[d] > Len(m[d].parts) \/ Cancelled(d)
              THEN "wait" ELSE "acquire"]
  /\ UNCHANGED <<force, ctx, firstErr, next, worker, m, scratch, geth, orig, store>>

(* sem <- struct{}{} and the go statement; under a cancelled context the   *)
(* worker's Get fails at once on s3.                                       *)
Acquire(d) ==
  /\ pc[d] = "acquire"
  /\ Cardinality(InFlight(d)) < Limit(d)
  /\ LET dead == CtxAware /\ Cancelled(d) IN
       /\ worker' = [worker EXCEPT ![d][next[d]] =
                       IF dead THEN "failed" ELSE "get"]
       /\ firstErr' = [firstErr EXCEPT ![d] = @ \/ dead]
  /\ next' = [next EXCEPT ![d] = @ + 1]
  /\ pc' = [pc EXCEPT ![d] = "dispatch"]
  /\ UNCHANGED <<force, ctx, m, scratch, geth, orig, store>>

(* downloadPart up to Untar: the object goes to disk BEFORE its digest is  *)
(* known.  A failed Get leaves nothing, a failed read a broken subtree.    *)
Extract(d, i) ==
  LET k == m[d].parts[i].name IN
  /\ pc[d] # "crashed"
  /\ worker[d][i] = "get"
  /\ \/ /\ tar[k] # None
        /\ ~(CtxAware /\ Cancelled(d))
        /\ scratch' = [scratch EXCEPT ![d][k] = tar[k]]
        /\ worker' = [worker EXCEPT ![d][i] = "verify"]
        /\ UNCHANGED firstErr
     \/ /\ \/ UNCHANGED scratch
           \/ /\ tar[k] # None
              /\ scratch' = [scratch EXCEPT ![d][k] = Broken]
        /\ worker' = [worker EXCEPT ![d][i] = "failed"]
        /\ firstErr' = [firstErr EXCEPT ![d] = TRUE]
  /\ UNCHANGED <<force, pc, ctx, next, m, geth, orig, store>>

(* Faulty variant: the digest is not compared.                             *)
VerifyPartUnchecked(d, i) ==
  /\ pc[d] # "crashed"
  /\ worker[d][i] = "verify"
  /\ worker' = [worker EXCEPT ![d][i] = "done"]
  /\ UNCHANGED <<force, pc, ctx, firstErr, next, m, scratch, geth, orig, store>>

(* The end of downloadPart: drain the object and compare the digest.  The  *)
(* drain may fail.                                                         *)
VerifyPart(d, i) ==
  LET p == m[d].parts[i] IN
  /\ pc[d] # "crashed"
  /\ worker[d][i] = "verify"
  /\ \/ /\ scratch[d][p.name] = p.sha256
        /\ worker' = [worker EXCEPT ![d][i] = "done"]
        /\ UNCHANGED firstErr
     \/ /\ worker' = [worker EXCEPT ![d][i] = "failed"]
        /\ firstErr' = [firstErr EXCEPT ![d] = TRUE]
  /\ UNCHANGED <<force, pc, ctx, next, m, scratch, geth, orig, store>>

(* Faulty variant: firstErr is not returned.                               *)
CollectErrorDropped(d) ==
  /\ pc[d] = "wait"
  /\ InFlight(d) = {}
  /\ pc' = [pc EXCEPT ![d] = "remove"]
  /\ UNCHANGED <<force, ctx, firstErr, next, worker, m, scratch, geth, orig, store>>

(* wg.Wait and the firstErr test; Run goes on to Commit or to Abort.       *)
Collect(d) ==
  /\ pc[d] = "wait"
  /\ InFlight(d) = {}
  /\ pc' = [pc EXCEPT ![d] = IF firstErr[d] THEN "abort" ELSE "remove"]
  /\ UNCHANGED <<force, ctx, firstErr, next, worker, m, scratch, geth, orig, store>>

(* The deferred Abort: RemoveAll of the scratch directory, its error       *)
(* ignored.                                                                *)
Abort(d) ==
  /\ pc[d] = "abort"
  /\ \/ scratch' = [scratch EXCEPT ![d] = NoDir]
     \/ DiskFaults /\ UNCHANGED scratch
  /\ pc' = [pc EXCEPT ![d] = "err"]
  /\ UNCHANGED <<force, ctx, firstErr, next, worker, m, geth, orig, store>>

(* Commit, first half: an existing destination is removed.  A RemoveAll    *)
(* that fails may have removed part of it; the scratch directory is then   *)
(* removed too.                                                            *)
RemoveOld(d) ==
  /\ pc[d] = "remove"
  /\ \/ /\ geth' = NoDir
        /\ pc' = [pc EXCEPT ![d] = "rename"]
        /\ UNCHANGED scratch
     \/ /\ DiskFaults
        /\ geth # NoDir
        /\ geth' \in {u \in Tree : Remains(geth, u)}
        /\ scratch' = [scratch EXCEPT ![d] = NoDir]
        /\ pc' = [pc EXCEPT ![d] = "err"]
  /\ UNCHANGED <<force, ctx, firstErr, next, worker, m, orig, store>>

(* Faulty variant: a failed Rename cleans up dst, not the scratch path.    *)
PromoteCleansDst(d) ==
  /\ pc[d] = "rename"
  /\ scratch' = [scratch EXCEPT ![d] = NoDir]
  /\ \/ /\ geth = NoDir
        /\ geth' = scratch[d]
        /\ pc' = [pc EXCEPT ![d] = "ok"]
     \/ /\ geth # NoDir
        /\ geth' = NoDir
        /\ pc' = [pc EXCEPT ![d] = "err"]
  /\ UNCHANGED <<force, ctx, firstErr, next, worker, m, orig, store>>

(* Commit, second half: os.Rename, which refuses an existing directory.    *)
Promote(d) ==
  /\ pc[d] = "rename"
  /\ scratch' = [scratch EXCEPT ![d] = NoDir]
  /\ \/ /\ geth = NoDir
        /\ geth' = scratch[d]
        /\ pc' = [pc EXCEPT ![d] = "ok"]
     \/ /\ DiskFaults \/ geth # NoDir
        /\ pc' = [pc EXCEPT ![d] = "err"]
        /\ UNCHANGED geth
  /\ UNCHANGED <<force, ctx, firstErr, next, worker, m, orig, store>>

(* main: SIGINT or SIGTERM cancels the root context.                       *)
Interrupt(d) ==
  /\ ~Ended(d)
  /\ ~ctx[d]
  /\ ctx' = [ctx EXCEPT ![d] = TRUE]
  /\ UNCHANGED <<force, pc, firstErr, next, worker, m, scratch, geth, orig, store>>

(* The process dies, possibly in the middle of Commit's RemoveAll.         *)
Crash(d) ==
  /\ ~Ended(d)
  /\ pc' = [pc EXCEPT ![d] = "crashed"]
  /\ \/ UNCHANGED geth
     \/ /\ pc[d] = "remove"
        /\ geth # NoDir
        /\ geth' \in {u \in Tree : Remains(geth, u)}
  /\ UNCHANGED <<force, ctx, firstErr, next, worker, m, scratch, orig, store>>

Step(d) ==
  \/ PrepareAtomic(d) \/ FetchManifest(d)
  \/ Dispatch(d) \/ Acquire(d) \/ Collect(d)
  \/ Abort(d) \/ RemoveOld(d) \/ Promote(d)
  \/ \E i \in Slots : Extract(d, i) \/ VerifyPart(d, i)

Next == \E d \in Downs : Step(d) \/ Interrupt(d) \/ Crash(d)

Spec == Init /\ [][Next]_vars

(* Goroutines that can run do run, and a request ends in an answer or an   *)
(* error; nothing makes a signal or a crash happen.                        *)
FairSpec == Spec /\ \A d \in Downs : WF_vars(Step(d))

-----------------------------------------------------------------------------

ListedPart   == [name : PartKinds, sha256 : Writers, toc : Writers]
ManifestType == [run : Writers, parts : Seq(ListedPart)]

(* Commit is under way: run d's scratch directory is what it promotes.     *)
Committing(d) == pc[d] \in {"remove", "rename"}

(* What Commit promotes holds nothing but bytes that matched the digest of *)
(* the manifest the run read, although extraction precedes verification    *)
(* and other parts may have failed (downloadPart, downloadParts).          *)
PromotedVerified ==
  \A d \in Downs : Committing(d) => Remains(TreeOf(m[d]), scratch[d])

(* A run that no signal interrupts promotes every part of the manifest     *)
(* (downloadParts returns nil only when every worker has succeeded).       *)
UninterruptedIsComplete ==
  \A d \in Downs : Committing(d) /\ ~ctx[d] => scratch[d] = TreeOf(m[d])

(* Signals included: only complete trees are promoted ("renamed into place *)
(* only after every part has been downloaded and sha256-verified", Run).   *)
PromotedComplete ==
  \A d \in Downs : Committing(d) => scratch[d] = TreeOf(m[d])

(* A run that returns an error leaves <datadir>/geth as it was ("a failure *)
(* midway through doesn't damage the existing tree", Run).                 *)
FailureKeepsOriginal ==
  (\A d \in Downs : pc[d] = "err") => geth = orig

(* A run that returned has no scratch directory left ("A failed download   *)
(* leaves no partial state behind", Run).                                  *)
NoLeftovers ==
  \A d \in Downs : pc[d] \in {"ok", "err"} => scratch[d] = NoDir

(* Files in <datadir>/geth are destroyed only by a run with --force        *)
(* ("If dst already exists (force-overwrite case), the original is removed *)
(* first", Commit).                                                        *)
UnforcedKeepsFiles ==
  [][\A d \in Downs :
       pc'[d] # pc[d] /\ geth \notin {NoDir, EmptyTree} /\ geth' # geth
         => force[d]]_vars

(* A run that fails or dies, signals aside, leaves the old tree or the new *)
(* one at <datadir>/geth (Commit: RemoveAll, then Rename, under "Commit            *)
(* atomically promotes the scratch directory to dst").                     *)
CommitKeepsATree ==
  \A d \in Downs :
    pc[d] \in {"err", "crashed"} /\ ~ctx[d] =>
      geth = orig \/ (m[d] # None /\ geth = TreeOf(m[d]))

(* When runs race for one datadir and none of them is killed or            *)
(* interrupted, what is left at the end is the original or one complete    *)
(* snapshot, and it is a snapshot if some run reported success (Commit's   *)
(* RemoveAll and Rename of two runs interleave).                           *)
RaceLeavesWholeTree ==
  (\A d \in Downs : pc[d] \in {"ok", "err"} /\ ~ctx[d]) =>
    IF \E d \in Downs : pc[d] = "ok"
    THEN \E d \in Downs : pc[d] = "ok" /\ geth = TreeOf(m[d])
    ELSE geth = orig

(* Every run returns unless its process dies (the semaphore, wg.Wait).     *)
Terminates == \A d \in Downs : <>Ended(d)

=============================================================================
