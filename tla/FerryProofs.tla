---------------------------- MODULE FerryProofs -----------------------------
(***************************************************************************)
(* What downloads and readers may rely on while uploads publish under the  *)
(* name they read, for any number of uploads and downloads.                *)
(*                                                                         *)
(* The proofs stand on those of Upload and Download: UP and DP are the     *)
(* instances U and D of Ferry with their theorems.                         *)
(***************************************************************************)
EXTENDS Ferry, SequenceTheorems, TLAPS

UP == INSTANCE UploadProofs WITH
        pc <- upc, ctx <- uctx, firstErr <- uerr, next <- unext,
        worker <- uworker

DP == INSTANCE DownloadProofs WITH
        Writers <- Runs \cup {Prev}, Shapes <- BOOLEAN \X BOOLEAN,
        pc <- dpc, ctx <- dctx, firstErr <- derr, next <- dnext,
        worker <- dworker

(* The assumptions of the two, as they stand in their proofs.              *)
LEMMA UploadAssumed ==
  /\ Prev \notin Runs
  /\ None \notin Runs \cup {Prev}
  /\ Invocations \subseteq UP!InvocationType
  /\ ParallelParts \in Int
  /\ CtxAware \in BOOLEAN
BY FerryAssumption DEF U!InvocationType, UP!InvocationType

LEMMA DownloadAssumed ==
  /\ {None, Local, Broken, NoDir} \cap (Runs \cup {Prev}) = {}
  /\ BOOLEAN \X BOOLEAN \subseteq BOOLEAN \X BOOLEAN
  /\ None # Local /\ None # Broken /\ Local # Broken
  /\ ParallelParts \in Int
  /\ CtxAware \in BOOLEAN /\ DiskFaults \in BOOLEAN
BY FerryAssumption

-----------------------------------------------------------------------------

(* The steps of U are those of UP.                                         *)
LEMMA SamePlan == ASSUME NEW r PROVE U!Planned(r) = UP!Planned(r)
BY DEF U!Planned, UP!Planned, U!PlanParts, UP!PlanParts, U!Live, UP!Live, U!AncientChain,
       UP!AncientChain, U!AncientState, UP!AncientState, U!Triedb, UP!Triedb

LEMMA SameUploadStep ==
  ASSUME NEW r
  PROVE  U!Step(r) \/ U!Interrupt(r) \/ U!Crash(r)
           => UP!Step(r) \/ UP!Interrupt(r) \/ UP!Crash(r)
<1> USE DEF U!store, UP!store, U!Cancelled, UP!Cancelled
<1>1. /\ U!Preflight(r) => UP!Preflight(r)
      /\ U!CheckOverwrite(r) => UP!CheckOverwrite(r)
      /\ U!Plan(r) => UP!Plan(r)
      /\ U!Dispatch(r) => UP!Dispatch(r)
  BY SamePlan DEF U!Preflight, UP!Preflight, U!Validates, UP!Validates, U!CheckOverwrite,
                  UP!CheckOverwrite, U!Plan, UP!Plan, U!Dispatch, UP!Dispatch
<1>2. U!InFlight(r) = UP!InFlight(r) /\ U!Limit(r) = UP!Limit(r) /\ U!Parts(r) = UP!Parts(r)
  BY SamePlan DEF U!InFlight, UP!InFlight, U!Slots, UP!Slots, U!Limit, UP!Limit,
                  U!Parts, UP!Parts
<1>3. U!Acquire(r) => UP!Acquire(r)
  BY <1>2 DEF U!Acquire, UP!Acquire, U!Cardinality, UP!Cardinality
<1>4. U!Collect(r) => UP!Collect(r)
  BY <1>2 DEF U!Collect, UP!Collect, U!ValidParts, UP!ValidParts
<1>5. U!WriteManifest(r) => UP!WriteManifest(r)
  BY <1>2 DEF U!WriteManifest, UP!WriteManifest, U!PutOutcomes, UP!PutOutcomes
<1>6. ASSUME NEW i PROVE U!UploadTar(r, i) => UP!UploadTar(r, i)
  BY SamePlan DEF U!UploadTar, UP!UploadTar, U!PutOutcomes, UP!PutOutcomes
<1>7. ASSUME NEW i PROVE U!UploadTOC(r, i) => UP!UploadTOC(r, i)
  BY SamePlan DEF U!UploadTOC, UP!UploadTOC, U!PutOutcomes, UP!PutOutcomes, U!Part, UP!Part
<1>8. U!Interrupt(r) => UP!Interrupt(r)
  BY DEF U!Interrupt, UP!Interrupt, U!Ended, UP!Ended
<1>9. U!Crash(r) => UP!Crash(r)
  BY DEF U!Crash, UP!Crash, U!Ended, UP!Ended
<1> QED BY <1>1, <1>3, <1>4, <1>5, <1>6, <1>7, <1>8, <1>9
           DEF U!Step, UP!Step, U!Slots, UP!Slots

LEMMA SameUploadInit == U!Init => UP!Init
BY DEF U!Init, UP!Init, U!InitStore, UP!InitStore, U!Slots, UP!Slots, U!ZeroPart, UP!ZeroPart,
       U!Objects, UP!Objects, U!Published, UP!Published, U!Part, UP!Part, U!PartKinds,
       UP!PartKinds, U!PlanParts, UP!PlanParts, U!Live, UP!Live, U!AncientChain,
       UP!AncientChain, U!AncientState, UP!AncientState, U!Triedb, UP!Triedb

(* The steps of D are those of DP.                                         *)
LEMMA SameDownloadStep ==
  ASSUME NEW d
  PROVE  D!Step(d) \/ D!Interrupt(d) \/ D!Crash(d)
           => DP!Step(d) \/ DP!Interrupt(d) \/ DP!Crash(d)
<1> USE DEF D!store, DP!store, D!Cancelled, DP!Cancelled, D!EmptyTree, DP!EmptyTree,
            D!PartKinds, DP!PartKinds, D!Live, DP!Live, D!AncientChain, DP!AncientChain,
            D!AncientState, DP!AncientState, D!Triedb, DP!Triedb
<1>1. /\ D!PrepareAtomic(d) => DP!PrepareAtomic(d)
      /\ D!FetchManifest(d) => DP!FetchManifest(d)
      /\ D!Dispatch(d) => DP!Dispatch(d)
      /\ D!Abort(d) => DP!Abort(d)
      /\ D!Promote(d) => DP!Promote(d)
  BY DEF D!PrepareAtomic, DP!PrepareAtomic, D!FetchManifest, DP!FetchManifest,
         D!ValidParts, DP!ValidParts, D!Dispatch, DP!Dispatch, D!Abort, DP!Abort,
         D!Promote, DP!Promote
<1>2. D!InFlight(d) = DP!InFlight(d) /\ D!Limit(d) = DP!Limit(d)
  BY DEF D!InFlight, DP!InFlight, D!Slots, DP!Slots, D!Limit, DP!Limit
<1>3. D!Acquire(d) => DP!Acquire(d)
  BY <1>2 DEF D!Acquire, DP!Acquire, D!Cardinality, DP!Cardinality
<1>4. D!Collect(d) => DP!Collect(d)
  BY <1>2 DEF D!Collect, DP!Collect
<1>5. ASSUME NEW i PROVE D!Extract(d, i) => DP!Extract(d, i)
  BY DEF D!Extract, DP!Extract
<1>6. ASSUME NEW i PROVE D!VerifyPart(d, i) => DP!VerifyPart(d, i)
  BY DEF D!VerifyPart, DP!VerifyPart
<1>7. D!RemoveOld(d) => DP!RemoveOld(d)
  BY DEF D!RemoveOld, DP!RemoveOld, D!Tree, DP!Tree, D!Remains, DP!Remains
<1>8. D!Interrupt(d) => DP!Interrupt(d)
  BY DEF D!Interrupt, DP!Interrupt, D!Ended, DP!Ended
<1>9. D!Crash(d) => DP!Crash(d)
  BY DEF D!Crash, DP!Crash, D!Ended, DP!Ended, D!Tree, DP!Tree, D!Remains, DP!Remains
<1> QED BY <1>1, <1>3, <1>4, <1>5, <1>6, <1>7, <1>8, <1>9
           DEF D!Step, DP!Step, D!Slots, DP!Slots

LEMMA SameDownloadInit == D!InitRuns => DP!InitRuns
BY DEF D!InitRuns, DP!InitRuns, D!Slots, DP!Slots, D!EmptyTree, DP!EmptyTree,
       D!PartKinds, DP!PartKinds, D!Live, DP!Live, D!AncientChain, DP!AncientChain,
       D!AncientState, DP!AncientState, D!Triedb, DP!Triedb

(* And so are the snapshots that the two speak of.                         *)
LEMMA SamePublished ==
  ASSUME NEW w, NEW s, NEW t
  PROVE  /\ UP!PlanParts(s, t) = PlanParts(s, t) /\ DP!PlanParts(s, t) = PlanParts(s, t)
         /\ UP!Published(w, PlanParts(s, t)) = Published(w, PlanParts(s, t))
         /\ DP!Published(w, PlanParts(s, t)) = Published(w, PlanParts(s, t))
         /\ DP!Objects(w, PlanParts(s, t)) = Objects(w, PlanParts(s, t))
<1>1. UP!PlanParts(s, t) = PlanParts(s, t) /\ DP!PlanParts(s, t) = PlanParts(s, t)
  BY DEF UP!PlanParts, DP!PlanParts, PlanParts, UP!Live, DP!Live, Live, UP!AncientChain,
         DP!AncientChain, AncientChain, UP!AncientState, DP!AncientState, AncientState,
         UP!Triedb, DP!Triedb, Triedb
<1> HIDE DEF PlanParts
<1>2. /\ UP!Published(w, PlanParts(s, t)) = Published(w, PlanParts(s, t))
      /\ DP!Published(w, PlanParts(s, t)) = Published(w, PlanParts(s, t))
  BY DEF UP!Published, DP!Published, Published, UP!Part, DP!Part, Part
<1>3. DP!Objects(w, PlanParts(s, t)) = Objects(w, PlanParts(s, t))
  BY DEF DP!Objects, Objects, DP!PartKinds, PartKinds, DP!Live, Live,
         DP!AncientChain, AncientChain, DP!AncientState, AncientState, DP!Triedb, Triedb
<1> QED BY <1>1, <1>2, <1>3

LEMMA SameKinds == UP!PartKinds = PartKinds /\ DP!PartKinds = PartKinds
BY DEF UP!PartKinds, DP!PartKinds, PartKinds, UP!Live, DP!Live, Live, UP!AncientChain,
       DP!AncientChain, AncientChain, UP!AncientState, DP!AncientState, AncientState,
       UP!Triedb, DP!Triedb, Triedb

-----------------------------------------------------------------------------

(* What downloads have read was whole, and stays so: it names one upload   *)
(* and the plan of that upload.                                            *)
DownInv ==
  /\ DP!IInv
  /\ \A d \in Downs : DP!Active(d) => UP!WholeManifest(m[d])

(* A whole manifest, in the words of this module.                          *)
LEMMA WholeIsOne ==
  ASSUME NEW x, UP!WholeManifest(x)
  PROVE  \E w \in Runs \cup {Prev}, s \in BOOLEAN, t \in BOOLEAN :
           /\ x = Published(w, PlanParts(s, t))
           /\ w \in Runs => PlanParts(s, t) = U!Planned(w)
<1>1. PICK w \in Runs \cup {Prev}, s \in BOOLEAN, t \in BOOLEAN :
        /\ x = UP!Published(w, UP!PlanParts(s, t))
        /\ w \in Runs => UP!PlanParts(s, t) = UP!Planned(w)
  BY DEF UP!WholeManifest, UP!Writers
<1> QED BY <1>1, SamePublished, SamePlan

LEMMA PublishedAccepted ==
  ASSUME NEW w \in Runs \cup {Prev}, NEW s \in BOOLEAN, NEW t \in BOOLEAN
  PROVE  Published(w, PlanParts(s, t)) \in DP!GoodManifest
BY DownloadAssumed, DP!PublishedGood, SamePublished

(* An upload never takes a download's footing away.                        *)
LEMMA UploadKeeps ==
  ASSUME UP!UploadInv, DownInv, UploadStep
  PROVE  /\ UP!UploadInv' /\ DownInv'
         /\ \E r \in Runs : UP!Step(r) \/ UP!Interrupt(r) \/ UP!Crash(r)
<1>1. PICK r \in Runs : UP!Step(r) \/ UP!Interrupt(r) \/ UP!Crash(r)
  BY SameUploadStep DEF UploadStep, U!Next
<1>2. UP!UploadInv'
  BY <1>1, UploadAssumed, UP!UploadInvStep DEF UP!Next
<1>3. UNCHANGED downloadVars /\ UNCHANGED inv
  <2>1. UP!Effects(r)
    BY <1>1, UploadAssumed, UP!EffectsLemma DEF UP!UploadInv, UP!OutcomeInv
  <2> QED BY <2>1 DEF UploadStep, UP!Effects
<1>4. tar' \in [PartKinds -> Runs \cup {Prev, None}]
  BY <1>2, SameKinds DEF UP!UploadInv, UP!OutcomeInv, UP!IInv, UP!TypeOK, UP!Writers
<1>5. manifest' \in DP!GoodManifest \cup {None}
  <2> SUFFICES ASSUME manifest' # None PROVE manifest' \in DP!GoodManifest
    OBVIOUS
  <2>1. PICK w \in Runs \cup {Prev}, s \in BOOLEAN, t \in BOOLEAN :
          manifest' = UP!Published(w, UP!PlanParts(s, t))
    BY <1>2 DEF UP!UploadInv, UP!StoreInv, UP!WholeManifest, UP!Writers
  <2> QED BY <2>1, SamePublished, PublishedAccepted
<1>6. DP!IInv'
  <2>1. tar' \in [DP!PartKinds -> (Runs \cup {Prev}) \cup {None}]
    BY <1>4, SameKinds
  <2>2. UNCHANGED DP!downVars
    BY <1>3 DEF downloadVars, DP!downVars
  <2> QED BY <2>1, <2>2, <1>5, DownloadAssumed, DP!StoreMoves DEF DownInv
<1>7. ASSUME NEW d \in Downs, DP!Active(d)' PROVE UP!WholeManifest(m[d])'
  <2>1. PICK x : x = m[d]
    OBVIOUS
  <2>2. UP!WholeManifest(x) /\ m'[d] = x
    BY <1>3, <1>7, <2>1 DEF DownInv, downloadVars, DP!Active, DP!Running, DP!Committing
  <2>3. UP!WholeManifest(x)'
    BY <1>3, <2>2, UploadAssumed, UP!StaysWhole
  <2> QED BY <2>2, <2>3 DEF UP!WholeManifest
<1> QED BY <1>1, <1>2, <1>6, <1>7 DEF DownInv

(* Nor a download that of an upload, ...                                   *)
LEMMA DownloadKeeps ==
  ASSUME UP!UploadInv, DownInv, DownloadStep
  PROVE  UP!UploadInv' /\ DownInv' /\ UNCHANGED <<uploadVars, tar, toc, manifest>>
<1>1. PICK d \in Downs : DP!Step(d) \/ DP!Interrupt(d) \/ DP!Crash(d)
  BY SameDownloadStep DEF DownloadStep, D!Next
<1>2. /\ \A e \in Downs :
           DP!Active(e)' => \/ DP!Active(e) /\ m'[e] = m[e]
                            \/ m'[e] = manifest /\ manifest # None
      /\ UNCHANGED <<tar, manifest>>
  BY <1>1, DownloadAssumed, DP!ManifestRead DEF DownInv, DP!store
<1>3. UNCHANGED <<uploadVars, tar, toc, manifest>>
  BY <1>2 DEF DownloadStep
<1>4. UP!UploadInv'
  <2>1. UNCHANGED UP!vars
    BY <1>3 DEF UP!vars, UP!runVars, UP!store, uploadVars
  <2> QED BY <2>1, UploadAssumed, UP!UploadInvStep
<1>5. DP!IInv'
  BY <1>1, DownloadAssumed, DP!Inductive DEF DownInv, DP!Next
<1>6. ASSUME NEW e \in Downs, DP!Active(e)' PROVE UP!WholeManifest(m[e])'
  <2>1. PICK x : x = m'[e]
    OBVIOUS
  <2>2. UP!WholeManifest(x)
    <3>1. CASE DP!Active(e) /\ x = m[e]
      BY <3>1 DEF DownInv
    <3>2. CASE x = manifest /\ manifest # None
      BY <3>2 DEF UP!UploadInv, UP!StoreInv
    <3> QED BY <1>2, <1>6, <2>1, <3>1, <3>2
  <2>3. UP!WholeManifest(x)'
    BY <1>3, <2>2, UploadAssumed, UP!StaysWhole DEF uploadVars
  <2> QED BY <2>1, <2>3 DEF UP!WholeManifest
<1> QED BY <1>3, <1>4, <1>5, <1>6 DEF DownInv

(* ... nor anything else that of either.                                   *)
LEMMA OthersKeep ==
  ASSUME UP!UploadInv, DownInv, UNCHANGED <<uploadVars, downloadVars, tar, toc, manifest>>
  PROVE  UP!UploadInv' /\ DownInv'
<1>1. UP!UploadInv'
  <2>1. UNCHANGED UP!vars
    BY DEF UP!vars, UP!runVars, UP!store, uploadVars
  <2> QED BY <2>1, UploadAssumed, UP!UploadInvStep
<1>2. DP!IInv'
  <2>1. UNCHANGED DP!vars
    BY DEF DP!vars, DP!downVars, DP!store, downloadVars
  <2> QED BY <2>1, DownloadAssumed, DP!Inductive DEF DownInv
<1>3. ASSUME NEW d \in Downs, DP!Active(d)' PROVE UP!WholeManifest(m[d])'
  <2>1. PICK x : x = m[d]
    OBVIOUS
  <2>2. UP!WholeManifest(x) /\ m'[d] = x
    BY <1>3, <2>1 DEF DownInv, downloadVars, DP!Active, DP!Running, DP!Committing
  <2>3. UP!WholeManifest(x)'
    BY <2>2, UploadAssumed, UP!StaysWhole DEF uploadVars
  <2> QED BY <2>2, <2>3 DEF UP!WholeManifest
<1> QED BY <1>1, <1>2, <1>3 DEF DownInv

LEMMA SharedInit == Init => UP!UploadInv /\ DownInv
<1> SUFFICES ASSUME Init PROVE UP!UploadInv /\ DownInv
  OBVIOUS
<1>1. UP!UploadInv
  BY SameUploadInit, UploadAssumed, UP!UploadInvInit DEF Init
<1>2. tar \in [DP!PartKinds -> (Runs \cup {Prev}) \cup {None}]
  BY <1>1, SameKinds DEF UP!UploadInv, UP!OutcomeInv, UP!IInv, UP!TypeOK, UP!Writers
<1>3. manifest \in DP!GoodManifest \cup {None}
  <2> SUFFICES ASSUME manifest # None PROVE manifest \in DP!GoodManifest
    OBVIOUS
  <2>1. PICK w \in Runs \cup {Prev}, s \in BOOLEAN, t \in BOOLEAN :
          manifest = UP!Published(w, UP!PlanParts(s, t))
    BY <1>1 DEF UP!UploadInv, UP!StoreInv, UP!WholeManifest, UP!Writers
  <2> QED BY <2>1, SamePublished, PublishedAccepted
<1>4. DP!IInv
  BY <1>2, <1>3, DownloadAssumed, DP!RunsInit, SameDownloadInit DEF Init
<1>5. \A d \in Downs : ~DP!Active(d)
  BY DEF Init, D!InitRuns, DP!Active, DP!Running, DP!Committing
<1> QED BY <1>1, <1>4, <1>5 DEF DownInv

LEMMA SharedStep == UP!UploadInv /\ DownInv /\ [Next]_vars => UP!UploadInv' /\ DownInv'
<1>1. ASSUME UP!UploadInv, DownInv, ReaderStep PROVE UP!UploadInv' /\ DownInv'
  BY <1>1, OthersKeep DEF ReaderStep, R!Next, R!store
<1>2. ASSUME UP!UploadInv, DownInv, UNCHANGED vars PROVE UP!UploadInv' /\ DownInv'
  BY <1>2, OthersKeep DEF vars
<1> QED BY <1>1, <1>2, UploadKeeps, DownloadKeeps DEF Next

(* A download that no signal interrupts promotes all parts of ONE upload,  *)
(* with that upload's bytes, however often the snapshot is replaced while  *)
(* the parts are fetched (download.go, Run).                               *)
THEOREM OneUploadTheorem == Spec => []PromotesOneUpload
<1>1. DownInv => PromotesOneUpload
  <2> SUFFICES ASSUME DownInv, NEW d \in Downs, D!Committing(d), ~dctx[d]
               PROVE  \E w \in Runs \cup {Prev}, s, t \in BOOLEAN :
                        /\ scratch[d] = Objects(w, PlanParts(s, t))
                        /\ w \in Runs => PlanParts(s, t) = U!Planned(w)
    BY DEF PromotesOneUpload
  <2>1. DP!Committing(d)
    BY DEF D!Committing, DP!Committing
  <2>2. scratch[d] = DP!TreeOf(m[d])
    BY <2>1, DownloadAssumed, DP!WholeCommit DEF DownInv, DP!UninterruptedIsComplete
  <2>3. UP!WholeManifest(m[d])
    BY <2>1 DEF DownInv, DP!Active
  <2>4. PICK w \in Runs \cup {Prev}, s \in BOOLEAN, t \in BOOLEAN :
          /\ m[d] = Published(w, PlanParts(s, t))
          /\ w \in Runs => PlanParts(s, t) = U!Planned(w)
    BY <2>3, WholeIsOne
  <2>5. DP!TreeOf(Published(w, PlanParts(s, t))) = Objects(w, PlanParts(s, t))
    BY DownloadAssumed, DP!TreeOfPublished, SamePublished
  <2> QED BY <2>2, <2>4, <2>5
<1> QED BY <1>1, SharedInit, SharedStep, PTL DEF Spec

-----------------------------------------------------------------------------

(* The parts of a whole manifest: kinds of parts, each with the digests of *)
(* that one upload.                                                        *)
LEMMA WholeParts ==
  ASSUME NEW x, UP!WholeManifest(x)
  PROVE  /\ x.run \in Runs \cup {Prev}
         /\ Len(x.parts) \in Nat /\ DOMAIN x.parts = 1..Len(x.parts)
         /\ \A n \in DOMAIN x.parts :
              /\ x.parts[n].name \in PartKinds
              /\ x.parts[n].sha256 = x.run /\ x.parts[n].toc = x.run
<1>1. PICK w \in Runs \cup {Prev}, s \in BOOLEAN, t \in BOOLEAN :
        x = Published(w, PlanParts(s, t))
  BY WholeIsOne
<1> DEFINE ks == PlanParts(s, t)
           P  == [name : PartKinds, sha256 : {w}, toc : {w}]
<1>2. ks \in Seq(PartKinds) /\ Len(ks) \in 2..4
  <2>1. DP!PlanParts(s, t) \in Seq(DP!PartKinds) /\ Len(DP!PlanParts(s, t)) \in 2..4
    BY DownloadAssumed, DP!PlanLemma
  <2>2. DP!PlanParts(s, t) = ks
    BY SamePublished
  <2> QED BY <2>1, <2>2, SameKinds
<1>3. x.parts = [i \in DOMAIN ks |-> Part(ks[i], w, w)] /\ x.run = w
  BY <1>1 DEF Published
<1> HIDE DEF ks
<1>4. DOMAIN ks = 1..Len(ks) /\ Len(ks) \in Nat /\ \A i \in 1..Len(ks) : ks[i] \in PartKinds
  BY <1>2
<1>5. /\ x.parts \in [1..Len(ks) -> P]
      /\ \A p \in P : p.name \in PartKinds /\ p.sha256 = w /\ p.toc = w
  BY <1>3, <1>4 DEF Part
<1> HIDE DEF P
<1>6. x.parts \in Seq(P) /\ Len(x.parts) = Len(ks) /\ DOMAIN x.parts = 1..Len(ks)
  BY <1>4, <1>5, SeqDef, LenProperties
<1> QED BY <1>3, <1>4, <1>5, <1>6

(* Where a reader stands.                                                  *)
PlaceInv ==
  /\ ri \in Nat /\ ri >= 1
  /\ rpc \in {"start", "fetch"} => ri = 1 /\ bad = {}
  /\ rpc = "start" => first = None
  /\ rpc \in {"list", "row"} => tool = "list" /\ bad = {}
  /\ rpc = "list" /\ ri = 1 => first = None
  /\ tool = "list" => rpc \notin {"fetch", "parts"}

(* The upload that x names wrote its last object before first was taken:   *)
(* what is its own now was its own then.                                   *)
Held(x) ==
  /\ UP!WholeManifest(x) /\ UP!DoneWith(x.run)
  /\ \A k \in PartKinds : /\ tar[k] = x.run => first.tar[k] = x.run
                          /\ toc[k] = x.run => first.toc[k] = x.run

Checked(n) ==
  /\ tool = "verify" => first.tar[rm.parts[n].name] = rm.parts[n].sha256
  /\ tool = "contents" => first.toc[rm.parts[n].name] = rm.parts[n].toc

(* Every part that a reader has passed without complaint was in place when *)
(* the manifest was read.                                                  *)
IntactInv ==
  /\ rpc = "parts" =>
       /\ Held(rm)
       /\ \A n \in DOMAIN rm.parts : n < ri /\ n \notin bad \cup errs => Checked(n)
  /\ rpc = "ok" /\ tool \in {"verify", "contents"} => \A n \in DOMAIN rm.parts : Checked(n)

LEMMA ReaderInit == Init => PlaceInv /\ IntactInv
BY DEF Init, R!Init, PlaceInv, IntactInv

LEMMA PlaceStep == PlaceInv /\ [Next]_vars => PlaceInv'
<1> USE DEF PlaceInv
<1>1. ASSUME PlaceInv, ReaderStep PROVE PlaceInv'
  <2>1. CASE \E t \in R!Tools : R!Start(t)
    BY <1>1, <2>1 DEF R!Start
  <2>2. CASE R!FetchManifest
    BY <1>1, <2>2 DEF R!FetchManifest
  <2>3. CASE R!VerifyPart \/ R!PrintTOC \/ R!Conclude
    BY <1>1, <2>3 DEF R!VerifyPart, R!PrintTOC, R!Conclude
  <2>4. CASE R!ListKey \/ R!FetchRow
    BY <1>1, <2>4 DEF R!ListKey, R!FetchRow
  <2>5. CASE R!Interrupt
    BY <1>1, <2>5 DEF R!Interrupt
  <2> QED BY <1>1, <2>1, <2>2, <2>3, <2>4, <2>5 DEF ReaderStep, R!Next
<1>2. ASSUME PlaceInv, UNCHANGED readerVars PROVE PlaceInv'
  BY <1>2 DEF readerVars
<1> QED BY <1>1, <1>2 DEF Next, UploadStep, DownloadStep, vars

(* An upload replaces objects by its own only: what x's upload had put     *)
(* there, it had put there before.                                         *)
LEMMA UploadHolds ==
  ASSUME UP!UploadInv, DownInv, UploadStep, NEW x, Held(x)
  PROVE  Held(x)'
<1>1. PICK r \in Runs : UP!Step(r) \/ UP!Interrupt(r) \/ UP!Crash(r)
  BY UploadKeeps
<1>2. UNCHANGED inv /\ UNCHANGED first
  <2>1. UP!Effects(r)
    BY <1>1, UploadAssumed, UP!EffectsLemma DEF UP!UploadInv, UP!OutcomeInv
  <2> QED BY <2>1 DEF UploadStep, UP!Effects, readerVars
<1>3. UP!WholeManifest(x)'
  BY <1>2, UploadAssumed, UP!StaysWhole DEF Held
<1>4. PICK w \in Runs \cup {Prev} : w = x.run
  BY WholeParts DEF Held
<1>5. /\ UP!DoneWith(w)'
      /\ \A k \in UP!PartKinds : (tar'[k] = w => tar[k] = w) /\ (toc'[k] = w => toc[k] = w)
  <2>1. UP!DoneWith(w)
    BY <1>4 DEF Held
  <2>2. w \in UP!Writers
    BY DEF UP!Writers
  <2> QED BY <1>1, <2>1, <2>2, UploadAssumed, UP!DoneStep DEF UP!UploadInv, UP!OutcomeInv
<1> QED BY <1>2, <1>3, <1>4, <1>5, SameKinds DEF Held

LEMMA StillHolds ==
  ASSUME NEW x, Held(x), UNCHANGED <<uploadVars, tar, toc, first>>
  PROVE  Held(x)'
<1>1. UP!WholeManifest(x)'
  BY UploadAssumed, UP!StaysWhole DEF Held, uploadVars
<1>2. UP!DoneWith(x.run)'
  <2>1. UNCHANGED <<inv, uworker>> /\ UP!DoneWith(x.run)
    BY DEF Held, uploadVars
  <2> QED BY <2>1 DEF UP!DoneWith, UP!Planned
<1> QED BY <1>1, <1>2 DEF Held

(* What a reader passes without complaint was in place.                    *)
LEMMA ReaderChecks ==
  ASSUME UP!UploadInv, PlaceInv, IntactInv, ReaderStep
  PROVE  IntactInv'
<1>1. UNCHANGED <<uploadVars, tar, toc, manifest>>
  BY DEF ReaderStep, R!Next, R!store
<1>2. CASE R!FetchManifest
  <2>1. CASE rpc' = "parts"
    <3>1. /\ manifest # None /\ rm' = manifest /\ ri' = 1 /\ UNCHANGED <<tar, toc, uploadVars>>
          /\ first' = [manifest |-> manifest, tar |-> tar, toc |-> toc]
      BY <1>1, <1>2, <2>1 DEF R!FetchManifest, R!Observe, PlaceInv
    <3>2. PICK x : x = manifest
      OBVIOUS
    <3>3. UP!WholeManifest(x) /\ UP!DoneWith(x.run)
      BY <3>1, <3>2 DEF UP!UploadInv, UP!StoreInv
    <3>4. UP!WholeManifest(x)' /\ UP!DoneWith(x.run)'
      <4>1. UNCHANGED inv /\ UNCHANGED UP!runVars
        BY <3>1 DEF uploadVars, UP!runVars
      <4> QED BY <3>3, <4>1, UploadAssumed, UP!StaysWhole
              DEF UP!DoneWith, UP!Planned, UP!runVars
    <3>5. Held(x)'
      BY <3>1, <3>4 DEF Held
    <3>6. Held(rm)'
      BY <3>1, <3>2, <3>5 DEF Held, UP!WholeManifest, UP!DoneWith
    <3>7. \A n \in DOMAIN rm'.parts : ~(n < ri')
      <4>1. DOMAIN x.parts = 1..Len(x.parts) /\ Len(x.parts) \in Nat
        BY <3>3, WholeParts
      <4> QED BY <3>1, <3>2, <4>1
    <3> QED BY <2>1, <3>6, <3>7 DEF IntactInv
  <2>2. CASE rpc' \in {"ok", "err"} /\ (rpc' = "ok" => tool' = "inspect")
    BY <2>2 DEF IntactInv
  <2> QED BY <1>2, <2>1, <2>2 DEF R!FetchManifest
<1>3. ASSUME rpc = "parts", UNCHANGED <<tool, rm, first>>
      PROVE  Held(rm)' /\ \A n : Checked(n)' <=> Checked(n)
  <2>1. PICK x : x = rm
    OBVIOUS
  <2>2. Held(x)
    BY <1>3, <2>1 DEF IntactInv
  <2>3. Held(x)'
    BY <1>1, <1>3, <2>2, StillHolds
  <2>4. rm' = x
    BY <1>3, <2>1
  <2> QED BY <1>3, <2>3, <2>4 DEF Held, UP!WholeManifest, UP!DoneWith, Checked
<1>4. CASE R!VerifyPart
  <2>1. /\ rpc = "parts" /\ tool \in {"verify", "quick"} /\ ri' = ri + 1 /\ ri \in Nat
        /\ UNCHANGED <<tool, rpc, rm, first>>
        /\ \/ bad' = (IF R!Agrees THEN bad ELSE bad \cup {ri}) /\ UNCHANGED errs
           \/ errs' = errs \cup {ri} /\ UNCHANGED bad
    BY <1>4 DEF R!VerifyPart, PlaceInv
  <2>2. ASSUME NEW n \in DOMAIN rm.parts, n < ri', n \notin bad' \cup errs'
        PROVE  Checked(n)
    <3>0. /\ n \in Int /\ rm.parts[n].name \in PartKinds /\ rm.parts[n].sha256 = rm.run
          /\ Held(rm)
      <4>1. PICK x : x = rm
        OBVIOUS
      <4>2. UP!WholeManifest(x) /\ Held(rm)
        BY <2>1, <4>1 DEF IntactInv, Held
      <4> QED BY <4>1, <4>2, WholeParts
    <3>1. n < ri \/ n = ri
      BY <2>1, <2>2, <3>0
    <3>2. CASE n < ri
      BY <2>1, <2>2, <3>2 DEF IntactInv
    <3>3. CASE n = ri
      <4>1. R!Agrees
        BY <2>1, <2>2, <3>3
      <4>2. tool = "verify" => tar[rm.parts[n].name] = rm.run
        BY <3>0, <3>3, <4>1 DEF R!Agrees, R!Listed
      <4> QED BY <2>1, <3>0, <4>2 DEF Held, Checked
    <3> QED BY <3>1, <3>2, <3>3
  <2> QED BY <1>3, <2>1, <2>2 DEF IntactInv
<1>5. CASE R!PrintTOC
  <2>1. /\ rpc = "parts" /\ tool = "contents" /\ ri \in Nat /\ UNCHANGED <<tool, rm, first>>
        /\ \/ /\ R!Listed.toc = None \/ toc[R!Listed.name] = R!Listed.toc
              /\ ri' = ri + 1 /\ UNCHANGED <<rpc, bad, errs>>
           \/ rpc' = "err"
    BY <1>5 DEF R!PrintTOC, PlaceInv
  <2>2. CASE rpc' = "err"
    BY <2>2 DEF IntactInv
  <2>3. CASE /\ R!Listed.toc = None \/ toc[R!Listed.name] = R!Listed.toc
             /\ ri' = ri + 1 /\ UNCHANGED <<rpc, bad, errs>>
    <3>1. ASSUME NEW n \in DOMAIN rm.parts, n < ri', n \notin bad \cup errs
          PROVE  Checked(n)
      <4>0. /\ n \in Int /\ rm.parts[n].name \in PartKinds /\ rm.parts[n].toc = rm.run
            /\ rm.run # None /\ Held(rm)
        <5>1. PICK x : x = rm
          OBVIOUS
        <5>2. UP!WholeManifest(x) /\ Held(rm)
          BY <2>1, <5>1 DEF IntactInv, Held
        <5> QED BY <5>1, <5>2, WholeParts, UploadAssumed
      <4>1. n < ri \/ n = ri
        BY <2>1, <2>3, <3>1, <4>0
      <4>2. CASE n < ri
        BY <2>1, <3>1, <4>2 DEF IntactInv
      <4>3. CASE n = ri
        <5>1. toc[rm.parts[n].name] = rm.run
          BY <2>3, <4>0, <4>3 DEF R!Listed
        <5> QED BY <2>1, <4>0, <5>1 DEF Held, Checked
      <4> QED BY <4>1, <4>2, <4>3
    <3> QED BY <1>3, <2>1, <2>3, <3>1 DEF IntactInv
  <2> QED BY <2>1, <2>2, <2>3
<1>6. CASE R!Conclude
  <2>1. /\ rpc = "parts" /\ ri > Len(rm.parts) /\ UNCHANGED <<tool, rm, first>>
        /\ rpc' = (IF bad \cup errs = {} THEN "ok" ELSE "err")
    BY <1>6 DEF R!Conclude
  <2>2. CASE rpc' = "ok"
    <3>1. \A n \in DOMAIN rm.parts : n < ri
      <4>1. PICK x : x = rm
        OBVIOUS
      <4>2. UP!WholeManifest(x)
        BY <2>1, <4>1 DEF IntactInv, Held
      <4>3. DOMAIN x.parts = 1..Len(x.parts) /\ Len(x.parts) \in Nat /\ ri \in Nat
        BY <4>2, WholeParts DEF PlaceInv
      <4> QED BY <2>1, <4>1, <4>3
    <3>2. \A n \in DOMAIN rm.parts : Checked(n)
      BY <2>1, <2>2, <3>1 DEF IntactInv
    <3> QED BY <1>3, <2>1, <2>2, <3>2 DEF IntactInv
  <2>3. CASE rpc' = "err"
    BY <2>3 DEF IntactInv
  <2> QED BY <2>1, <2>2, <2>3
<1>7. CASE \/ \E t \in R!Tools : R!Start(t)
           \/ R!ListKey \/ R!FetchRow
  <2>1. rpc' # "parts" /\ (rpc' = "ok" => tool' = "list")
    BY <1>7 DEF R!Start, R!ListKey, R!FetchRow, PlaceInv
  <2> QED BY <2>1 DEF IntactInv
<1>8. CASE R!Interrupt
  <2>1. UNCHANGED <<tool, rpc, rm, ri, bad, errs, first>> /\ rpc # "ok"
    BY <1>8 DEF R!Interrupt
  <2> QED BY <1>3, <2>1 DEF IntactInv
<1> QED BY <1>2, <1>4, <1>5, <1>6, <1>7, <1>8 DEF ReaderStep, R!Next

LEMMA IntactStep ==
  UP!UploadInv /\ DownInv /\ PlaceInv /\ IntactInv /\ [Next]_vars => IntactInv'
<1> SUFFICES ASSUME UP!UploadInv, DownInv, PlaceInv, IntactInv, [Next]_vars
             PROVE  IntactInv'
  OBVIOUS
<1>1. CASE ReaderStep
  BY <1>1, ReaderChecks
<1>2. CASE ~ReaderStep
  <2>1. /\ UNCHANGED readerVars
        /\ UploadStep \/ UNCHANGED <<uploadVars, tar, toc, first>>
    BY <1>2, DownloadKeeps DEF Next, UploadStep, DownloadStep, vars, readerVars
  <2>2. ASSUME rpc = "parts" PROVE Held(rm)'
    <3>1. PICK x : x = rm
      OBVIOUS
    <3>2. Held(x)
      BY <2>2, <3>1 DEF IntactInv
    <3>3. Held(x)'
      BY <2>1, <3>2, UploadHolds, StillHolds
    <3>4. rm' = x
      BY <2>1, <3>1 DEF readerVars
    <3> QED BY <3>3, <3>4 DEF Held, UP!WholeManifest, UP!DoneWith
  <2>3. /\ UNCHANGED <<tool, rpc, rm, ri, bad, errs>>
        /\ \A n : Checked(n)' <=> Checked(n)
    BY <2>1 DEF readerVars, Checked
  <2> QED BY <2>2, <2>3 DEF IntactInv
<1> QED BY <1>1, <1>2

(* What verify and contents report good was whole at one moment, that at   *)
(* which the manifest was read: an upload that replaces parts meanwhile    *)
(* makes the check fail, never pass (verify.go, contents.go).              *)
THEOREM IntactTheorem == Spec => []VerifiedWasIntact
<1> DEFINE Inv == UP!UploadInv /\ DownInv /\ PlaceInv /\ IntactInv
<1>1. Init => Inv
  BY SharedInit, ReaderInit
<1>2. Inv /\ [Next]_vars => Inv'
  BY SharedStep, PlaceStep, IntactStep
<1>3. Inv => VerifiedWasIntact
  BY DEF IntactInv, VerifiedWasIntact, Checked
<1> QED BY <1>1, <1>2, <1>3, PTL DEF Spec

-----------------------------------------------------------------------------

(* One upload, not asked to overwrite: no reader ever finds a part bad.    *)
AlarmInv ==
  /\ UP!FreeInv /\ UP!CalmInv
  /\ UP!Careful =>
       /\ bad = {}
       /\ rpc = "parts" => manifest # None /\ rm = manifest

LEMMA AlarmUpload ==
  ASSUME \A q, r \in Runs : q = r, UP!UploadInv, DownInv, AlarmInv, UploadStep
  PROVE  AlarmInv'
<1>1. PICK r \in Runs : UP!Step(r) \/ UP!Interrupt(r) \/ UP!Crash(r)
  BY UploadKeeps
<1>2. /\ UP!CalmInv'
      /\ UP!Careful /\ manifest # None => manifest' = manifest
      /\ UP!Careful' <=> UP!Careful
  BY <1>1, UploadAssumed, UP!CalmStep DEF AlarmInv
<1>3. UP!FreeInv'
  BY <1>1, UploadAssumed, UP!FreeStep DEF AlarmInv, UP!UploadInv
<1>4. UNCHANGED <<bad, rpc, rm>>
  BY DEF UploadStep, readerVars
<1> QED BY <1>2, <1>3, <1>4 DEF AlarmInv

LEMMA AlarmReader ==
  ASSUME UP!UploadInv, PlaceInv, AlarmInv, ReaderStep
  PROVE  AlarmInv'
<1>1. UNCHANGED <<uploadVars, tar, toc, manifest>>
  BY DEF ReaderStep, R!Next, R!store
<1>2. UP!FreeInv' /\ UP!CalmInv' /\ (UP!Careful' <=> UP!Careful)
  <2>1. UNCHANGED UP!vars
    BY <1>1 DEF UP!vars, UP!runVars, UP!store, uploadVars
  <2> QED BY <2>1 DEF AlarmInv, UP!FreeInv, UP!CalmInv, UP!Careful, UP!Intact, UP!vars,
                      UP!runVars, UP!store
<1>3. ASSUME UP!Careful, rpc = "parts"
      PROVE  \A n \in DOMAIN rm.parts :
               /\ tar[rm.parts[n].name] = rm.parts[n].sha256 /\ tar[rm.parts[n].name] # None
               /\ toc[rm.parts[n].name] = rm.parts[n].toc
  <2>1. manifest # None /\ rm = manifest /\ UP!Intact
    BY <1>3 DEF AlarmInv, UP!CalmInv
  <2>2. UP!Present(manifest)
    BY <2>1 DEF UP!UploadInv, UP!StoreInv
  <2> QED BY <2>1, <2>2 DEF UP!Intact, UP!Present
<1>4. ASSUME UP!Careful, rpc = "parts"
      PROVE  DOMAIN rm.parts = 1..Len(rm.parts) /\ Len(rm.parts) \in Nat
  <2>1. PICK x : x = manifest
    OBVIOUS
  <2>2. manifest # None /\ rm = manifest
    BY <1>4 DEF AlarmInv
  <2>3. UP!WholeManifest(x)
    BY <2>1, <2>2 DEF UP!UploadInv, UP!StoreInv
  <2> QED BY <2>1, <2>2, <2>3, WholeParts
<1>5. ASSUME UP!Careful
      PROVE  bad' = {} /\ (rpc' = "parts" => manifest' # None /\ rm' = manifest')
  <2>0. bad = {} /\ (rpc = "parts" => manifest # None /\ rm = manifest)
    BY <1>5 DEF AlarmInv
  <2>1. CASE R!FetchManifest
    BY <1>1, <2>0, <2>1 DEF R!FetchManifest
  <2>2. CASE R!VerifyPart \/ R!PrintTOC
    <3>1. rpc = "parts" /\ ri \in 1..Len(rm.parts) /\ UNCHANGED rm
      <4>1. rpc = "parts" /\ ri <= Len(rm.parts) /\ UNCHANGED rm
        BY <2>2 DEF R!VerifyPart, R!PrintTOC
      <4> QED BY <1>4, <1>5, <4>1 DEF PlaceInv
    <3>2. R!Agrees /\ toc[R!Listed.name] = R!Listed.toc
      BY <1>3, <1>4, <1>5, <3>1 DEF R!Agrees, R!Listed
    <3>3. bad' = bad
      BY <2>2, <3>2 DEF R!VerifyPart, R!PrintTOC
    <3> QED BY <1>1, <2>0, <3>1, <3>3
  <2>3. CASE \/ \E t \in R!Tools : R!Start(t)
             \/ R!Conclude \/ R!ListKey \/ R!FetchRow \/ R!Interrupt
    BY <1>1, <2>0, <2>3 DEF R!Start, R!Conclude, R!ListKey, R!FetchRow, R!Interrupt, PlaceInv
  <2> QED BY <2>1, <2>2, <2>3 DEF ReaderStep, R!Next
<1> QED BY <1>2, <1>5 DEF AlarmInv

(* A check that runs while ONE upload publishes under a free name, or is   *)
(* refused a taken one, raises no alarm: the manifest is written last.     *)
(* Two uploads may both find the name free, hence the assumption.          *)
THEOREM AlarmTheorem ==
  ASSUME \A q, r \in Runs : q = r PROVE Spec => []AlarmMeansOverwrite
<1> DEFINE Inv == UP!UploadInv /\ DownInv /\ PlaceInv /\ AlarmInv
<1>1. Init => Inv
  <2> SUFFICES ASSUME Init PROVE UP!FreeInv /\ UP!CalmInv /\ bad = {} /\ rpc = "start"
    BY SharedInit, ReaderInit DEF AlarmInv
  <2>1. UP!CalmInv
    BY SameUploadInit, UploadAssumed, UP!CalmInit DEF Init
  <2> QED BY <2>1 DEF Init, U!Init, R!Init, UP!FreeInv
<1>2. Inv /\ [Next]_vars => Inv'
  <2> SUFFICES ASSUME Inv, [Next]_vars PROVE AlarmInv'
    BY SharedStep, PlaceStep
  <2>1. CASE UploadStep
    BY <2>1, AlarmUpload
  <2>2. CASE ReaderStep
    BY <2>2, AlarmReader
  <2>3. CASE DownloadStep \/ UNCHANGED vars
    <3>1. UNCHANGED <<uploadVars, readerVars, tar, toc, manifest>>
      BY <2>3, DownloadKeeps DEF DownloadStep, vars
    <3> QED BY <3>1 DEF AlarmInv, UP!FreeInv, UP!CalmInv, UP!Careful, UP!Intact, uploadVars,
                        readerVars
  <2> QED BY <2>1, <2>2, <2>3 DEF Next
<1>3. Inv => AlarmMeansOverwrite
  BY DEF AlarmInv, AlarmMeansOverwrite, UP!Careful
<1> QED BY <1>1, <1>2, <1>3, PTL DEF Spec

-----------------------------------------------------------------------------

(* A listing passes every key that a part can have.                        *)
LEMMA ListOrderLemma ==
  /\ Len(R!ListOrder) = 9
  /\ \A k \in PartKinds : \E i, j \in 2..9 :
       R!ListOrder[i] = R!TarKey(k) /\ R!ListOrder[j] = R!TocKey(k)
<1> USE DEF R!Live, Live, R!AncientChain, AncientChain, R!AncientState, AncientState,
            R!Triedb, Triedb
<1> HIDE DEF R!TarKey, R!TocKey, R!ManifestKey
<1>1. Len(R!ListOrder) = 9
  BY DEF R!ListOrder
<1>2. /\ R!ListOrder[2] = R!TarKey(AncientChain) /\ R!ListOrder[3] = R!TocKey(AncientChain)
      /\ R!ListOrder[4] = R!TarKey(AncientState) /\ R!ListOrder[5] = R!TocKey(AncientState)
      /\ R!ListOrder[6] = R!TarKey(Live) /\ R!ListOrder[7] = R!TocKey(Live)
      /\ R!ListOrder[8] = R!TarKey(Triedb) /\ R!ListOrder[9] = R!TocKey(Triedb)
  BY DEF R!ListOrder
<1> HIDE DEF R!ListOrder
<1>3. 2 \in 2..9 /\ 3 \in 2..9 /\ 4 \in 2..9 /\ 5 \in 2..9
      /\ 6 \in 2..9 /\ 7 \in 2..9 /\ 8 \in 2..9 /\ 9 \in 2..9
  OBVIOUS
<1>4. PartKinds = {Live, AncientChain, AncientState, Triedb}
  BY DEF PartKinds
<1> HIDE DEF Live, AncientChain, AncientState, Triedb
<1> QED BY <1>1, <1>2, <1>3, <1>4

(* The keys of part k.                                                     *)
KeysOf(k) == {R!TarKey(k), R!TocKey(k)}

(* What a listing that saw a manifest has passed since.                    *)
ListInv ==
  tool = "list" /\ first # None =>
    /\ UP!WholeManifest(first.manifest) /\ UP!Present(first.manifest)
    /\ \A j \in 2..9, n \in DOMAIN first.manifest.parts :
         j < ri /\ R!ListOrder[j] \in KeysOf(first.manifest.parts[n].name)
           => R!ListOrder[j] \in seen

LEMMA ListUpload ==
  ASSUME UP!UploadInv, DownInv, ListInv, UploadStep PROVE ListInv'
<1> SUFFICES ASSUME tool = "list", first # None
             PROVE  UP!WholeManifest(first.manifest)' /\ UP!Present(first.manifest)'
  BY DEF ListInv, UploadStep, readerVars
<1>1. PICK r \in Runs : UP!Step(r) \/ UP!Interrupt(r) \/ UP!Crash(r)
  BY UploadKeeps
<1>2. UNCHANGED inv /\ UNCHANGED first
  <2>1. UP!Effects(r)
    BY <1>1, UploadAssumed, UP!EffectsLemma DEF UP!UploadInv, UP!OutcomeInv
  <2> QED BY <2>1 DEF UploadStep, UP!Effects, readerVars
<1>3. PICK x : x = first.manifest
  OBVIOUS
<1>4. UP!WholeManifest(x) /\ UP!Present(x) /\ first'.manifest = x
  BY <1>2, <1>3 DEF ListInv
<1>5. UP!WholeManifest(x)'
  BY <1>2, <1>4, UploadAssumed, UP!StaysWhole
<1>6. UP!Present(x)'
  <2>1. \A k \in PartKinds : (tar[k] # None => tar'[k] # None) /\ (toc[k] # None => toc'[k] # None)
    BY <1>1, SameKinds, UploadAssumed, UP!PresentStep DEF UP!UploadInv, UP!OutcomeInv
  <2> QED BY <1>4, <2>1, WholeParts DEF UP!Present
<1> QED BY <1>4, <1>5, <1>6 DEF UP!WholeManifest, UP!Present

LEMMA ListStill ==
  ASSUME ListInv, UNCHANGED <<uploadVars, tar, toc, tool, ri, seen, first>> PROVE ListInv'
<1> SUFFICES ASSUME tool = "list", first # None
             PROVE  UP!WholeManifest(first.manifest)' /\ UP!Present(first.manifest)'
  BY DEF ListInv
<1>1. PICK x : x = first.manifest
  OBVIOUS
<1>2. UP!WholeManifest(x) /\ UP!Present(x) /\ first'.manifest = x
  BY <1>1 DEF ListInv
<1>3. UP!WholeManifest(x)'
  BY <1>2, UploadAssumed, UP!StaysWhole DEF uploadVars
<1>4. UP!Present(x)'
  BY <1>2 DEF UP!Present
<1> QED BY <1>2, <1>3, <1>4 DEF UP!WholeManifest, UP!Present

LEMMA ListReader ==
  ASSUME UP!UploadInv, PlaceInv, ListInv, ReaderStep PROVE ListInv'
<1>1. UNCHANGED <<uploadVars, tar, toc, manifest>>
  BY DEF ReaderStep, R!Next, R!store
<1>2. CASE R!ListKey /\ ri <= Len(R!ListOrder) /\ ri' = ri + 1
  <2>1. /\ rpc = "list" /\ tool = "list" /\ tool' = tool /\ ri \in Nat /\ ri >= 1
        /\ seen' = (IF R!Exists(R!ListOrder[ri]) THEN seen \cup {R!ListOrder[ri]} ELSE seen)
        /\ IF ri = 1 /\ manifest # None
           THEN first' = [manifest |-> manifest, tar |-> tar, toc |-> toc]
           ELSE UNCHANGED first
    <3>1. ri + 1 # ri
      BY DEF PlaceInv
    <3> QED BY <1>2, <3>1 DEF R!ListKey, R!Observe, PlaceInv
  <2>2. CASE ri = 1 /\ manifest # None
    <3>1. PICK x : x = manifest
      OBVIOUS
    <3>2. UP!WholeManifest(x) /\ UP!Present(x) /\ first'.manifest = x
      BY <2>1, <2>2, <3>1 DEF UP!UploadInv, UP!StoreInv
    <3>3. UP!WholeManifest(x)' /\ UP!Present(x)'
      BY <1>1, <3>2, UploadAssumed, UP!StaysWhole DEF uploadVars, UP!Present
    <3>4. \A j \in 2..9 : ~(j < ri')
      BY <1>2, <2>2
    <3> QED BY <3>2, <3>3, <3>4 DEF ListInv, UP!WholeManifest, UP!Present
  <2>3. CASE ri = 1 /\ manifest = None
    BY <2>1, <2>3 DEF PlaceInv, ListInv
  <2>4. CASE ri # 1
    <3> SUFFICES ASSUME first # None PROVE ListInv'
      BY <2>1, <2>4 DEF ListInv
    <3>1. PICK x : x = first.manifest
      OBVIOUS
    <3>2. UP!WholeManifest(x) /\ UP!Present(x) /\ first' = first
      BY <2>1, <2>4, <3>1 DEF ListInv
    <3>3. UP!WholeManifest(x)' /\ UP!Present(x)'
      BY <1>1, <3>2, UploadAssumed, UP!StaysWhole DEF uploadVars, UP!Present
    <3>4. ASSUME NEW j \in 2..9, NEW n \in DOMAIN x.parts, j < ri',
                 R!ListOrder[j] \in KeysOf(x.parts[n].name)
          PROVE  R!ListOrder[j] \in seen'
      <4>1. j < ri \/ j = ri
        BY <1>2, <2>1, <3>4
      <4>2. CASE j < ri
        BY <2>1, <3>1, <3>4, <4>2 DEF ListInv
      <4>3. CASE j = ri
        <5>1. x.parts[n].name \in R!PartKinds
          BY <3>2, WholeParts DEF R!PartKinds, PartKinds, R!Live, Live, R!AncientChain,
             AncientChain, R!AncientState, AncientState, R!Triedb, Triedb
        <5>2. tar[x.parts[n].name] # None /\ toc[x.parts[n].name] # None
          BY <3>2 DEF UP!Present
        <5>3. R!Exists(R!ListOrder[ri])
          BY <3>4, <4>3, <5>1, <5>2 DEF KeysOf, R!Exists
        <5> QED BY <2>1, <4>3, <5>3
      <4> QED BY <4>1, <4>2, <4>3
    <3> QED BY <3>1, <3>2, <3>3, <3>4 DEF ListInv, UP!WholeManifest, UP!Present
  <2> QED BY <2>2, <2>3, <2>4
<1>3. CASE UNCHANGED <<tool, ri, seen, first>>
  BY <1>1, <1>3, ListStill
<1>4. CASE \/ \E t \in R!Tools : R!Start(t)
           \/ R!FetchManifest \/ R!VerifyPart \/ R!PrintTOC
  <2>1. tool' # "list" \/ first' = None
    BY <1>4 DEF R!Start, R!FetchManifest, R!VerifyPart, R!PrintTOC, PlaceInv
  <2> QED BY <2>1 DEF ListInv
<1>5. CASE R!ListKey \/ R!Conclude \/ R!FetchRow \/ R!Interrupt
  BY <1>2, <1>3, <1>5 DEF R!ListKey, R!Conclude, R!FetchRow, R!Interrupt
<1> QED BY <1>4, <1>5 DEF ReaderStep, R!Next

(* A row of list, if its manifest was seen and the listing ran to its end, *)
(* adds up every object which that manifest lists (list.go,                *)
(* groupSnapshots): the manifest is written last, and listed first.        *)
THEOREM RowTheorem == Spec => []RowIsWhole
<1> DEFINE Inv == UP!UploadInv /\ DownInv /\ PlaceInv /\ ListInv
<1>1. Init => Inv
  <2>1. Init => ListInv
    BY DEF Init, R!Init, ListInv
  <2> QED BY <2>1, SharedInit, ReaderInit
<1>2. Inv /\ [Next]_vars => Inv'
  <2> SUFFICES ASSUME Inv, [Next]_vars PROVE ListInv'
    BY SharedStep, PlaceStep
  <2>1. CASE UploadStep
    BY <2>1, ListUpload
  <2>2. CASE ReaderStep
    BY <2>2, ListReader
  <2>3. CASE DownloadStep \/ UNCHANGED vars
    <3>1. UNCHANGED <<uploadVars, readerVars, tar, toc, manifest>>
      BY <2>3, DownloadKeeps DEF DownloadStep, vars
    <3> QED BY <3>1, ListStill DEF readerVars
  <2> QED BY <2>1, <2>2, <2>3 DEF Next
<1>3. Inv => RowIsWhole
  <2> SUFFICES ASSUME Inv, tool = "list", first # None, ri > Len(R!ListOrder),
                      NEW n \in DOMAIN first.manifest.parts
               PROVE  KeysOf(first.manifest.parts[n].name) \subseteq R!Counted(seen, Name)
    BY DEF RowIsWhole, KeysOf
  <2>1. PICK x : x = first.manifest
    OBVIOUS
  <2>2. PICK k \in PartKinds : k = first.manifest.parts[n].name
    BY <2>1, WholeParts DEF ListInv
  <2>3. PICK i \in 2..9, j \in 2..9 :
          R!ListOrder[i] = R!TarKey(k) /\ R!ListOrder[j] = R!TocKey(k)
    BY ListOrderLemma
  <2>4. ri \in Nat /\ ri > 9
    BY ListOrderLemma DEF PlaceInv
  <2>5. i < ri /\ j < ri
    BY <2>4
  <2>6. R!TarKey(k) \in seen /\ R!TocKey(k) \in seen
    BY <2>2, <2>3, <2>5 DEF ListInv, KeysOf
  <2>7. /\ Len(R!TarKey(k)) > 1 /\ Head(R!TarKey(k)) = Name
        /\ Len(R!TocKey(k)) > 1 /\ Head(R!TocKey(k)) = Name
    BY DEF R!TarKey, R!TocKey
  <2> QED BY <2>2, <2>6, <2>7 DEF KeysOf, R!Counted
<1> QED BY <1>1, <1>2, <1>3, PTL DEF Spec

=============================================================================
