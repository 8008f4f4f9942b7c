------------------------------- MODULE Upload -------------------------------
(***************************************************************************)
(* pkg/upload: concurrent `ferry upload` runs that target ONE snapshot     *)
(* name on one backend.  Each run checks its options and the datadir, asks *)
(* the backend whether the name is taken, uploads the planned parts (and   *)
(* the table of contents of each) through a worker pool, and writes        *)
(* manifest.json last.                                                     *)
(*                                                                         *)
(* The backend is the visible part of a bucket: an object is None or the   *)
(* run whose bytes it holds.  A Put is one step, at the moment its Close   *)
(* would make the object visible; MultipartWriter opens that step up.      *)
(***************************************************************************)
EXTENDS Integers, FiniteSets, Snapshot

CONSTANTS
  Runs,           \* invocations of upload.Run with the same prefix and name
  Prev,           \* the upload that left its objects behind before the runs
  Invocations,    \* what an operator may ask for, see InvocationType
  ParallelParts,  \* --parallel-parts, any int
  CtxAware        \* TRUE: s3 (requests fail once ctx is cancelled, answers
                  \* may be lost); FALSE: file (ctx is ignored)

(* Options plus what the datadir looks like.                               *)
InvocationType ==
  [ valid     : BOOLEAN,   \* Options.validate accepts
    force     : BOOLEAN,   \* --force
    live      : BOOLEAN,   \* LOCK or geth.ipc is present
    overwrite : BOOLEAN,   \* --overwrite
    layout    : BOOLEAN,   \* state scheme detected, no rogue ancient entry
    state     : BOOLEAN,   \* chaindata/ancient/state exists
    triedb    : BOOLEAN ]  \* triedb exists

ASSUME UploadAssumption ==
  /\ Prev \notin Runs
  /\ None \notin Runs \cup {Prev}
  /\ Invocations \subseteq InvocationType
  /\ ParallelParts \in Int
  /\ CtxAware \in BOOLEAN

VARIABLES
  inv,        \* [Runs -> Invocations]
  pc,         \* where the goroutine of Run stands
  ctx,        \* the root context is cancelled (SIGINT / SIGTERM)
  firstErr,   \* uploadParts' firstErr is set (and runCtx cancelled)
  next,       \* loop index of uploadParts
  worker,     \* the goroutine of each planned part
  results,    \* uploadParts' results slice
  tar,        \* backend: parts/<kind>.tar.zst
  toc,        \* backend: parts/<kind>.toc.zst
  manifest    \* backend: manifest.json

store   == <<tar, toc, manifest>>
runVars == <<inv, pc, ctx, firstErr, next, worker, results>>
vars    == <<runVars, store>>

Phases == {"start", "check", "plan", "dispatch", "acquire", "wait",
           "manifest", "ok", "err", "crashed"}
Stages == {"idle", "tar", "toc", "done", "failed"}

Returned(r) == pc[r] \in {"ok", "err"}
Ended(r)    == pc[r] \in {"ok", "err", "crashed"}

Planned(r) == PlanParts(inv[r].state, inv[r].triedb)

(* runCtx.Err() # nil: the root context, or the first failed worker.       *)
Cancelled(r) == ctx[r] \/ firstErr[r]

(* len(sem): a worker holds its token until it returns.                    *)
InFlight(r) == {i \in Slots : worker[r][i] \in {"tar", "toc"}}

(* Faulty variant: the lower clamp is missing, the channel has no room.    *)
LimitUnclamped(r) ==
  IF ParallelParts > Len(Planned(r)) THEN Len(Planned(r)) ELSE ParallelParts

(* cap(sem): parallelN clamped to 1..len(planned).                         *)
Limit(r) ==
  IF ParallelParts < 1 THEN 1
  ELSE IF ParallelParts > Len(Planned(r)) THEN Len(Planned(r))
  ELSE ParallelParts

(* results as it is handed to the manifest.                                *)
Parts(r) == [i \in 1..Len(Planned(r)) |-> results[r][i]]

(* How a Put .. Close, or the Abort that replaces Close, can end.  "lost"  *)
(* is a commit whose answer never came back: the object is there and the   *)
(* caller has an error.                                                    *)
PutOutcomes(r) ==
  CASE ~CtxAware               -> {"ok", "fail"}
    [] CtxAware /\ Cancelled(r)  -> {"fail", "lost"}
    [] CtxAware /\ ~Cancelled(r) -> {"ok", "fail", "lost"}

(* The name is free, holds leftovers of an interrupted upload, or is taken. *)
InitStore ==
  \/ /\ tar = Objects(Prev, <<>>)
     /\ toc = Objects(Prev, <<>>)
     /\ manifest = None
  \/ /\ tar = Objects(Prev, <<Live, AncientChain>>)
     /\ toc = Objects(Prev, <<Live>>)
     /\ manifest = None
  \/ \E s, t \in BOOLEAN :
       /\ tar = Objects(Prev, PlanParts(s, t))
       /\ toc = Objects(Prev, PlanParts(s, t))
       /\ manifest = Published(Prev, PlanParts(s, t))

Init ==
  /\ inv \in [Runs -> Invocations]
  /\ pc = [r \in Runs |-> "start"]
  /\ ctx = [r \in Runs |-> FALSE]
  /\ firstErr = [r \in Runs |-> FALSE]
  /\ next = [r \in Runs |-> 1]
  /\ worker = [r \in Runs |-> [i \in Slots |-> "idle"]]
  /\ results = [r \in Runs |-> [i \in Slots |-> ZeroPart]]
  /\ InitStore

-----------------------------------------------------------------------------

(* Options.validate: datadir and name given, role known, name path-safe.   *)
Validates(r) == inv[r].valid

(* Options.validate, then preflight: without --force a node that looks     *)
(* live is refused, and so is one whose LOCK or geth.ipc cannot be read.   *)
Preflight(r) ==
  /\ pc[r] = "start"
  /\ \/ /\ Validates(r)
        /\ inv[r].force \/ ~inv[r].live
        /\ pc' = [pc EXCEPT ![r] = "check"]
     \/ /\ ~Validates(r) \/ ~inv[r].force
        /\ pc' = [pc EXCEPT ![r] = "err"]
  /\ UNCHANGED <<inv, ctx, firstErr, next, worker, results, store>>

(* Faulty variant: the name is not looked up.                              *)
CheckOverwriteSkipped(r) ==
  /\ pc[r] = "check"
  /\ pc' = [pc EXCEPT ![r] = "plan"]
  /\ UNCHANGED <<inv, ctx, firstErr, next, worker, results, store>>

(* checkOverwrite: Stat of manifest.json.  Only ErrNotExist lets a run     *)
(* without --overwrite go on; any other answer, a failed Stat included,    *)
(* refuses.                                                                *)
CheckOverwrite(r) ==
  /\ pc[r] = "check"
  /\ \/ /\ inv[r].overwrite
        /\ pc' = [pc EXCEPT ![r] = "plan"]
     \/ /\ ~inv[r].overwrite
        /\ manifest = None
        /\ ~(CtxAware /\ ctx[r])
        /\ pc' = [pc EXCEPT ![r] = "plan"]
     \/ /\ ~inv[r].overwrite
        /\ pc' = [pc EXCEPT ![r] = "err"]
  /\ UNCHANGED <<inv, ctx, firstErr, next, worker, results, store>>

(* detectStateScheme, validateAncientLayout and planParts, each of which   *)
(* may also fail to read the datadir.                                      *)
Plan(r) ==
  /\ pc[r] = "plan"
  /\ \/ /\ inv[r].layout
        /\ pc' = [pc EXCEPT ![r] = "dispatch"]
     \/ pc' = [pc EXCEPT ![r] = "err"]
  /\ UNCHANGED <<inv, ctx, firstErr, next, worker, results, store>>

(* The head of uploadParts' loop: leave it when the parts are exhausted or *)
(* runCtx is cancelled.                                                    *)
Dispatch(r) ==
  /\ pc[r] = "dispatch"
  /\ pc' = [pc EXCEPT ![r] =
              IF next[r] > Len(Planned(r)) \/ Cancelled(r)
              THEN "wait" ELSE "acquire"]
  /\ UNCHANGED <<inv, ctx, firstErr, next, worker, results, store>>

(* sem <- struct{}{} and the go statement.  The send does not look at      *)
(* runCtx: a worker is started even when the context was cancelled while   *)
(* the loop was blocked, and its first request then fails at once on s3.   *)
Acquire(r) ==
  /\ pc[r] = "acquire"
  /\ Cardinality(InFlight(r)) < Limit(r)
  /\ LET dead == CtxAware /\ Cancelled(r) IN
       /\ worker' = [worker EXCEPT ![r][next[r]] =
                       IF dead THEN "failed" ELSE "tar"]
       /\ firstErr' = [firstErr EXCEPT ![r] = @ \/ dead]
  /\ next' = [next EXCEPT ![r] = @ + 1]
  /\ pc' = [pc EXCEPT ![r] = "dispatch"]
  /\ UNCHANGED <<inv, ctx, results, store>>

(* uploadPart up to bw.Close, or its deferred Abort and recordErr.         *)
UploadTar(r, i) ==
  /\ pc[r] # "crashed"
  /\ worker[r][i] = "tar"
  /\ \E o \in PutOutcomes(r) :
       /\ tar' = IF o = "fail" THEN tar
                 ELSE [tar EXCEPT ![Planned(r)[i]] = r]
       /\ worker' = [worker EXCEPT ![r][i] =
                       IF o = "ok" THEN "toc" ELSE "failed"]
       /\ firstErr' = [firstErr EXCEPT ![r] = @ \/ o # "ok"]
  /\ UNCHANGED <<inv, pc, ctx, next, results, toc, manifest>>

(* Faulty variant: an error of uploadTOC is dropped.                       *)
UploadTOCErrorDropped(r, i) ==
  /\ pc[r] # "crashed"
  /\ worker[r][i] = "toc"
  /\ \E o \in PutOutcomes(r) :
       /\ toc' = IF o = "fail" THEN toc
                 ELSE [toc EXCEPT ![Planned(r)[i]] = r]
       /\ worker' = [worker EXCEPT ![r][i] = "done"]
       /\ results' = [results EXCEPT ![r][i] = Part(Planned(r)[i], r, r)]
  /\ UNCHANGED <<inv, pc, ctx, firstErr, next, tar, manifest>>

(* Faulty variant: the digest is not copied into the part.                 *)
UploadTOCDigestLost(r, i) ==
  /\ pc[r] # "crashed"
  /\ worker[r][i] = "toc"
  /\ toc' = [toc EXCEPT ![Planned(r)[i]] = r]
  /\ worker' = [worker EXCEPT ![r][i] = "done"]
  /\ results' = [results EXCEPT ![r][i] = Part(Planned(r)[i], None, r)]
  /\ UNCHANGED <<inv, pc, ctx, firstErr, next, tar, manifest>>

(* uploadTOC, the end of uploadPart and of the worker.                     *)
UploadTOC(r, i) ==
  /\ pc[r] # "crashed"
  /\ worker[r][i] = "toc"
  /\ \E o \in PutOutcomes(r) :
       /\ toc' = IF o = "fail" THEN toc
                 ELSE [toc EXCEPT ![Planned(r)[i]] = r]
       /\ worker' = [worker EXCEPT ![r][i] =
                       IF o = "ok" THEN "done" ELSE "failed"]
       /\ results' = IF o = "ok"
                     THEN [results EXCEPT ![r][i] = Part(Planned(r)[i], r, r)]
                     ELSE results
       /\ firstErr' = [firstErr EXCEPT ![r] = @ \/ o # "ok"]
  /\ UNCHANGED <<inv, pc, ctx, next, tar, manifest>>

(* Faulty variant: manifest.Validate is not called.                        *)
CollectUnvalidated(r) ==
  /\ pc[r] = "wait"
  /\ InFlight(r) = {}
  /\ pc' = [pc EXCEPT ![r] = IF ~firstErr[r] THEN "manifest" ELSE "err"]
  /\ UNCHANGED <<inv, ctx, firstErr, next, worker, results, store>>

(* Faulty variant: wg.Wait is missing.                                     *)
CollectWithoutWait(r) ==
  /\ pc[r] = "wait"
  /\ pc' = [pc EXCEPT ![r] =
              IF ~firstErr[r] /\ ValidParts(Parts(r)) THEN "manifest" ELSE "err"]
  /\ UNCHANGED <<inv, ctx, firstErr, next, worker, results, store>>

(* wg.Wait, the firstErr test and manifest.Validate.                       *)
Collect(r) ==
  /\ pc[r] = "wait"
  /\ InFlight(r) = {}
  /\ pc' = [pc EXCEPT ![r] =
              IF ~firstErr[r] /\ ValidParts(Parts(r)) THEN "manifest" ELSE "err"]
  /\ UNCHANGED <<inv, ctx, firstErr, next, worker, results, store>>

(* Faulty variant: the error of the manifest's Close is dropped.           *)
WriteManifestErrorDropped(r) ==
  /\ pc[r] = "manifest"
  /\ \E o \in PutOutcomes(r) :
       manifest' = IF o = "fail" THEN manifest
                   ELSE [run |-> r, parts |-> Parts(r)]
  /\ pc' = [pc EXCEPT ![r] = "ok"]
  /\ UNCHANGED <<inv, ctx, firstErr, next, worker, results, tar, toc>>

(* Faulty variant: a failed write is closed, not aborted.                  *)
WriteManifestNotAborted(r) ==
  /\ pc[r] = "manifest"
  /\ manifest' = [run |-> r, parts |-> Parts(r)]
  /\ \E o \in PutOutcomes(r) :
       pc' = [pc EXCEPT ![r] = IF o = "ok" THEN "ok" ELSE "err"]
  /\ UNCHANGED <<inv, ctx, firstErr, next, worker, results, tar, toc>>

(* writeManifest, under the root context: firstErr is unset here.          *)
WriteManifest(r) ==
  /\ pc[r] = "manifest"
  /\ \E o \in PutOutcomes(r) :
       /\ manifest' = IF o = "fail" THEN manifest
                      ELSE [run |-> r, parts |-> Parts(r)]
       /\ pc' = [pc EXCEPT ![r] = IF o = "ok" THEN "ok" ELSE "err"]
  /\ UNCHANGED <<inv, ctx, firstErr, next, worker, results, tar, toc>>

(* main: SIGINT or SIGTERM cancels the root context.                       *)
Interrupt(r) ==
  /\ ~Ended(r)
  /\ ~ctx[r]
  /\ ctx' = [ctx EXCEPT ![r] = TRUE]
  /\ UNCHANGED <<inv, pc, firstErr, next, worker, results, store>>

(* The process dies: nothing of it runs any more, the store stays.         *)
Crash(r) ==
  /\ ~Ended(r)
  /\ pc' = [pc EXCEPT ![r] = "crashed"]
  /\ UNCHANGED <<inv, ctx, firstErr, next, worker, results, store>>

(* What the run does by itself, its workers included.                      *)
Step(r) ==
  \/ Preflight(r) \/ CheckOverwrite(r) \/ Plan(r)
  \/ Dispatch(r) \/ Acquire(r) \/ Collect(r) \/ WriteManifest(r)
  \/ \E i \in Slots : UploadTar(r, i) \/ UploadTOC(r, i)

Next == \E r \in Runs : Step(r) \/ Interrupt(r) \/ Crash(r)

Spec == Init /\ [][Next]_vars

(* The Go scheduler runs every goroutine that can run, and a request ends  *)
(* in an answer or an error.  Nothing makes a signal or a crash happen.    *)
FairSpec == Spec /\ \A r \in Runs : WF_vars(Step(r))

-----------------------------------------------------------------------------

Writers == Runs \cup {Prev}

UploadedPart == [name : PartKinds, sha256 : Writers, toc : Writers]
ManifestType == [run : Writers, parts : Seq(UploadedPart)]

(* The type invariant.  Every part that is recorded carries a digest.      *)
TypeOK ==
  /\ inv \in [Runs -> Invocations]
  /\ pc \in [Runs -> Phases]
  /\ ctx \in [Runs -> BOOLEAN]
  /\ firstErr \in [Runs -> BOOLEAN]
  /\ next \in [Runs -> 1..5]
  /\ worker \in [Runs -> [Slots -> Stages]]
  /\ results \in [Runs -> [Slots -> UploadedPart \cup {ZeroPart}]]
  /\ tar \in [PartKinds -> Writers \cup {None}]
  /\ toc \in [PartKinds -> Writers \cup {None}]
  /\ manifest \in ManifestType \cup {None}

(* Run r may have started to replace parts.                                *)
Launched(r) == next[r] > 1

(* Nobody but w has touched the parts since w was the only writer.         *)
NoRival(w) == \A r \in Runs \ {w} : ~Launched(r)

(* Every object the manifest lists holds the bytes it lists.               *)
Intact ==
  \A i \in DOMAIN manifest.parts :
    /\ tar[manifest.parts[i].name] = manifest.parts[i].sha256
    /\ toc[manifest.parts[i].name] = manifest.parts[i].toc

(* A visible manifest written by a run lists exactly the parts that run    *)
(* planned, in canonical order and with the digests of its own streams,    *)
(* and every object it lists exists: whatever the order in which workers   *)
(* finish, fail or never start, a partial snapshot is not published        *)
(* (upload.go, Run: the manifest is written last).                         *)
PublishedComplete ==
  \A r \in Runs :
    (manifest # None /\ manifest.run = r) =>
      /\ manifest = Published(r, Planned(r))
      /\ \A i \in DOMAIN manifest.parts :
           /\ tar[manifest.parts[i].name] # None
           /\ toc[manifest.parts[i].name] # None

(* A published snapshot whose name no other run is writing to verifies:    *)
(* each listed object is the one its digest was taken from, also when the  *)
(* upload ran over the leftovers or the parts of an earlier one            *)
(* (checkOverwrite: leftovers "will be overwritten naturally").            *)
IntactUnlessRival ==
  manifest # None /\ NoRival(manifest.run) => Intact

(* A run that reports success has published its own parts, unless another  *)
(* run is writing under the same name (upload.go, Run returning nil).      *)
SuccessIsPublished ==
  \A r \in Runs :
    pc[r] = "ok" /\ NoRival(r) => manifest = Published(r, Planned(r))

(* On a backend whose Close fails only without an effect, a run that       *)
(* reports an error has not published (upload.go, writeManifest: Abort     *)
(* unless committed).                                                      *)
FailureIsUnpublished ==
  \A r \in Runs :
    pc[r] = "err" /\ manifest # None => manifest.run # r

(* Once Run has returned no goroutine of it writes to the backend: nothing *)
(* becomes r's any more (uploadParts waits for every worker it started).   *)
QuietAfterReturn ==
  [][\A r \in Runs : Returned(r) =>
       /\ \A k \in PartKinds : /\ tar'[k] = r => tar[k] = r
                               /\ toc'[k] = r => toc[k] = r
       /\ (manifest' # None /\ manifest'.run = r) => manifest' = manifest]_vars

(* The bytes and the manifest of a published snapshot are replaced only by *)
(* a run with --overwrite ("the default is loud refusal", checkOverwrite). *)
NoSilentReplace ==
  [][manifest # None =>
       /\ manifest' # manifest => inv[manifest'.run].overwrite
       /\ \A i \in DOMAIN manifest.parts :
            LET k == manifest.parts[i].name IN
              /\ tar'[k] # tar[k] => inv[tar'[k]].overwrite
              /\ toc'[k] # toc[k] => inv[toc'[k]].overwrite]_vars

(* Every run returns, whatever fails, is cancelled or blocks on the worker *)
(* pool, unless its process dies (uploadParts' semaphore and wg.Wait).     *)
Terminates == \A r \in Runs : <>Ended(r)

=============================================================================
