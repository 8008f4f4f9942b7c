---------------------------- MODULE UploadProofs ----------------------------
(***************************************************************************)
(* What Upload guarantees for any number of concurrent runs, any           *)
(* --parallel-parts, any mix of options, and both kinds of backend.        *)
(***************************************************************************)
EXTENDS Upload, SnapshotProofs, FiniteSetTheorems

(* How far the workers of run r have come, and what that says about the    *)
(* results slice and the backend.                                          *)
WorkersInv(r) ==
  \A i \in Slots :
    /\ worker[r][i] # "idle" => i \in 1..Len(Planned(r)) /\ i < next[r]
    /\ results[r][i] = IF worker[r][i] = "done"
                       THEN Part(Planned(r)[i], r, r) ELSE ZeroPart
    /\ worker[r][i] \in {"toc", "done"} => tar[Planned(r)[i]] # None
    /\ worker[r][i] = "done" => toc[Planned(r)[i]] # None

(* Where Run stands says which workers have finished.                      *)
PhaseInv(r) ==
  /\ pc[r] = "acquire" => next[r] <= Len(Planned(r))
  /\ pc[r] \in {"manifest", "ok"} =>
       \A i \in 1..Len(Planned(r)) : worker[r][i] = "done"

(* Without a rival, what a run has uploaded is still there.                *)
OwnBytesInv(r) ==
  NoRival(r) =>
    \A i \in Slots :
      /\ worker[r][i] \in {"toc", "done"} => tar[Planned(r)[i]] = r
      /\ worker[r][i] = "done" => toc[Planned(r)[i]] = r

(* The inductive invariant.                                                *)
IInv ==
  /\ TypeOK
  /\ \A r \in Runs : WorkersInv(r) /\ PhaseInv(r)
  /\ PublishedComplete

(* The extension of it that talks about bytes.                             *)
BytesInv ==
  /\ IInv
  /\ \A r \in Runs : OwnBytesInv(r)
  /\ IntactUnlessRival

-----------------------------------------------------------------------------

(* The same about the plan of a run.                                       *)
LEMMA PlannedLemma ==
  ASSUME TypeOK, NEW r \in Runs
  PROVE  /\ Planned(r) \in Seq(PartKinds)
         /\ Len(Planned(r)) \in 2..4
         /\ DOMAIN Planned(r) = 1..Len(Planned(r))
         /\ \A i \in 1..Len(Planned(r)) : i \in Slots /\ Planned(r)[i] \in PartKinds
         /\ \A i, j \in 1..Len(Planned(r)) : Planned(r)[i] = Planned(r)[j] => i = j
<1>1. inv[r].state \in BOOLEAN /\ inv[r].triedb \in BOOLEAN
  BY UploadAssumption DEF TypeOK, InvocationType
<1> DEFINE p == Planned(r)
<1>2. /\ p \in Seq(PartKinds) /\ Len(p) \in 2..4
      /\ \A i, j \in 1..Len(p) : p[i] = p[j] => i = j
  BY <1>1, PlanLemma DEF Planned
<1> HIDE DEF p
<1>3. DOMAIN p = 1..Len(p) /\ \A i \in 1..Len(p) : p[i] \in PartKinds
  BY <1>2
<1>4. \A i \in 1..Len(p) : i \in Slots
  BY <1>2 DEF Slots
<1> QED BY <1>2, <1>3, <1>4 DEF p

(* A visible manifest lists parts by kind and with digests.                *)
LEMMA ListedLemma ==
  ASSUME TypeOK, manifest # None
  PROVE  /\ manifest.run \in Writers
         /\ \A j \in DOMAIN manifest.parts : manifest.parts[j] \in UploadedPart
         /\ \A j \in DOMAIN manifest.parts : manifest.parts[j].name \in PartKinds
<1>1. manifest \in ManifestType
  BY DEF TypeOK
<1> DEFINE p == manifest.parts
<1>2. manifest.run \in Writers /\ p \in Seq(UploadedPart)
  BY <1>1 DEF ManifestType
<1> HIDE DEF p
<1>3. \A j \in DOMAIN p : p[j] \in UploadedPart
  BY <1>2
<1>4. \A j \in DOMAIN p : p[j].name \in PartKinds
  BY <1>3 DEF UploadedPart
<1> QED BY <1>2, <1>3, <1>4 DEF p

-----------------------------------------------------------------------------

(* The initial states satisfy the invariant.                               *)
LEMMA InitIInv == Init => IInv
<1> SUFFICES ASSUME Init PROVE IInv
  OBVIOUS
<1> USE UploadAssumption
<1>1. /\ tar \in [PartKinds -> Writers \cup {None}]
      /\ toc \in [PartKinds -> Writers \cup {None}]
      /\ manifest \in ManifestType \cup {None}
      /\ manifest # None => manifest.run = Prev
  <2>1. ASSUME NEW ks PROVE Objects(Prev, ks) \in [PartKinds -> Writers \cup {None}]
    BY DEF Objects, Writers
  <2>2. ASSUME NEW s \in BOOLEAN, NEW t \in BOOLEAN
        PROVE  /\ Published(Prev, PlanParts(s, t)) \in ManifestType
               /\ Published(Prev, PlanParts(s, t)).run = Prev
    <3> DEFINE ks == PlanParts(s, t)
    <3>1. ks \in Seq(PartKinds) /\ DOMAIN ks = 1..Len(ks) /\ Len(ks) \in Nat
      BY PlanLemma
    <3> HIDE DEF ks
    <3>2. \A i \in 1..Len(ks) : Part(ks[i], Prev, Prev) \in UploadedPart
      BY <3>1 DEF Part, UploadedPart, Writers
    <3>3. [i \in 1..Len(ks) |-> Part(ks[i], Prev, Prev)] \in Seq(UploadedPart)
      BY <3>1, <3>2
    <3> QED BY <3>1, <3>3 DEF Published, ManifestType, Writers, ks
  <2> QED BY <2>1, <2>2 DEF Init, InitStore
<1>2. TypeOK
  BY <1>1 DEF Init, TypeOK, Phases, Stages, Slots
<1>3. \A r \in Runs : WorkersInv(r)
  BY DEF Init, WorkersInv, Slots
<1>4. \A r \in Runs : PhaseInv(r)
  BY DEF Init, PhaseInv
<1>5. PublishedComplete
  BY <1>1 DEF PublishedComplete
<1> QED BY <1>2, <1>3, <1>4, <1>5 DEF IInv

(* Steps that leave workers, results and the backend alone: what remains   *)
(* to be shown is the types and the phase.                                 *)
LEMMA Frame ==
  ASSUME IInv, TypeOK',
         UNCHANGED <<inv, next, worker, results, store>>,
         \A r \in Runs : PhaseInv(r)'
  PROVE  IInv'
<1>1. \A r \in Runs : WorkersInv(r)'
  BY DEF IInv, WorkersInv, Planned, store
<1>2. PublishedComplete'
  BY DEF IInv, PublishedComplete, Planned, store
<1> QED BY <1>1, <1>2 DEF IInv

(* After wg.Wait, a valid results slice means that every worker is done.   *)
LEMMA ValidMeansDone ==
  ASSUME IInv, NEW r \in Runs, ValidParts(Parts(r))
  PROVE  \A i \in 1..Len(Planned(r)) : worker[r][i] = "done"
<1> SUFFICES ASSUME NEW i \in 1..Len(Planned(r)) PROVE worker[r][i] = "done"
  OBVIOUS
<1>1. i \in Slots
  BY PlannedLemma DEF IInv
<1>2. DOMAIN Parts(r) = 1..Len(Planned(r)) /\ Parts(r)[i] = results[r][i]
  BY DEF Parts
<1>3. results[r][i].name # ""
  BY <1>2 DEF ValidParts
<1>4. results[r][i] # ZeroPart
  <2>1. ZeroPart.name = ""
    BY DEF ZeroPart
  <2> QED BY <1>3, <2>1
<1> QED BY <1>1, <1>4 DEF IInv, WorkersInv

(* The actions that only move pc or ctx.                                   *)
LEMMA QuietSteps ==
  ASSUME IInv, NEW r \in Runs,
         \/ Preflight(r) \/ CheckOverwrite(r) \/ Plan(r) \/ Dispatch(r)
         \/ Collect(r) \/ Interrupt(r) \/ Crash(r)
  PROVE  IInv'
<1> USE DEF IInv
<1>1. CASE Preflight(r) \/ CheckOverwrite(r) \/ Plan(r)
  <2>1. TypeOK'
    BY <1>1 DEF Preflight, CheckOverwrite, Plan, TypeOK, Phases, store
  <2>2. /\ \E x \in {"check", "plan", "dispatch", "err"} :
               pc' = [pc EXCEPT ![r] = x]
        /\ UNCHANGED <<inv, next, worker>>
    BY <1>1 DEF Preflight, CheckOverwrite, Plan
  <2>3. \A q \in Runs : PhaseInv(q)'
    BY <2>2 DEF TypeOK, PhaseInv, Planned
  <2> QED BY <1>1, <2>1, <2>3, Frame DEF Preflight, CheckOverwrite, Plan
<1>2. CASE Dispatch(r)
  <2>1. TypeOK'
    BY <1>2 DEF Dispatch, TypeOK, Phases, store
  <2>2. Len(Planned(r)) \in 2..4 /\ next[r] \in 1..5
    BY PlannedLemma DEF TypeOK
  <2>3. \A q \in Runs : PhaseInv(q)'
    BY <1>2, <2>2 DEF Dispatch, TypeOK, PhaseInv, Planned
  <2> QED BY <1>2, <2>1, <2>3, Frame DEF Dispatch
<1>3. CASE Collect(r)
  <2>1. TypeOK'
    BY <1>3 DEF Collect, TypeOK, Phases, store
  <2>2. \A q \in Runs : PhaseInv(q)'
    <3>1. CASE ~firstErr[r] /\ ValidParts(Parts(r))
      <4>1. \A i \in 1..Len(Planned(r)) : worker[r][i] = "done"
        BY <3>1, ValidMeansDone
      <4> QED BY <1>3, <3>1, <4>1 DEF Collect, TypeOK, PhaseInv, Planned
    <3>2. CASE ~(~firstErr[r] /\ ValidParts(Parts(r)))
      BY <1>3, <3>2 DEF Collect, TypeOK, PhaseInv, Planned
    <3> QED BY <3>1, <3>2
  <2> QED BY <1>3, <2>1, <2>2, Frame DEF Collect
<1>4. CASE Interrupt(r)
  <2>1. TypeOK'
    BY <1>4 DEF Interrupt, TypeOK, store
  <2>2. \A q \in Runs : PhaseInv(q)'
    BY <1>4 DEF Interrupt, PhaseInv, Planned
  <2> QED BY <1>4, <2>1, <2>2, Frame DEF Interrupt
<1>5. CASE Crash(r)
  <2>1. TypeOK'
    BY <1>5 DEF Crash, TypeOK, Phases, store
  <2>2. \A q \in Runs : PhaseInv(q)'
    BY <1>5 DEF Crash, TypeOK, PhaseInv, Planned
  <2> QED BY <1>5, <2>1, <2>2, Frame DEF Crash
<1> QED BY <1>1, <1>2, <1>3, <1>4, <1>5

(* A worker is started on an index no worker has had.                      *)
LEMMA AcquireStep ==
  ASSUME IInv, NEW r \in Runs, Acquire(r)
  PROVE  IInv'
<1> USE DEF IInv
<1> DEFINE n == Len(Planned(r))
           dead == CtxAware /\ Cancelled(r)
           stage == IF dead THEN "failed" ELSE "tar"
<1>1. n \in 2..4 /\ next[r] \in 1..4 /\ next[r] \in 1..n /\ next[r] \in Slots
  <2>1. n \in 2..4 /\ next[r] \in 1..5 /\ next[r] <= n
    BY PlannedLemma DEF TypeOK, Acquire, PhaseInv
  <2> HIDE DEF n
  <2> QED BY <2>1 DEF Slots
<1>2. /\ worker' = [worker EXCEPT ![r][next[r]] = stage]
      /\ firstErr' = [firstErr EXCEPT ![r] = @ \/ dead]
      /\ stage \in {"failed", "tar"}
      /\ UNCHANGED <<inv, ctx, results, tar, toc, manifest>>
      /\ next' = [next EXCEPT ![r] = @ + 1]
      /\ pc' = [pc EXCEPT ![r] = "dispatch"]
  BY DEF Acquire, store
<1> HIDE DEF stage, n
<1>3. TypeOK'
  <2>1. firstErr' \in [Runs -> BOOLEAN]
    BY <1>2 DEF TypeOK, Cancelled
  <2>2. next' \in [Runs -> 1..5]
    BY <1>1, <1>2 DEF TypeOK
  <2>3. worker' \in [Runs -> [Slots -> Stages]]
    BY <1>1, <1>2 DEF TypeOK, Stages
  <2>4. pc' \in [Runs -> Phases]
    BY <1>2 DEF TypeOK, Phases
  <2> QED BY <1>2, <2>1, <2>2, <2>3, <2>4 DEF TypeOK
<1>4. worker[r][next[r]] = "idle"
  BY <1>1 DEF WorkersInv
<1>5. ASSUME NEW q \in Runs PROVE WorkersInv(q)'
  <2>1. CASE q # r
    BY <1>2, <2>1 DEF WorkersInv, TypeOK, Planned
  <2>2. CASE q = r
    <3> SUFFICES ASSUME NEW i \in Slots
                 PROVE  /\ worker'[r][i] # "idle" => i \in 1..n /\ i < next'[r]
                        /\ results[r][i] = IF worker'[r][i] = "done"
                                           THEN Part(Planned(r)[i], r, r) ELSE ZeroPart
                        /\ worker'[r][i] \in {"toc", "done"} => tar[Planned(r)[i]] # None
                        /\ worker'[r][i] = "done" => toc[Planned(r)[i]] # None
      BY <1>2, <2>2 DEF WorkersInv, Planned, n
    <3>1. CASE i = next[r]
      <4>1. worker'[r][i] = stage /\ next'[r] = next[r] + 1
        BY <1>2, <3>1 DEF TypeOK
      <4> QED BY <1>1, <1>2, <1>4, <3>1, <4>1 DEF WorkersInv
    <3>2. CASE i # next[r]
      <4>1. worker'[r][i] = worker[r][i] /\ next'[r] = next[r] + 1
        BY <1>2, <3>2 DEF TypeOK
      <4> QED BY <1>1, <4>1 DEF WorkersInv, n, Slots
    <3> QED BY <3>1, <3>2
  <2> QED BY <2>1, <2>2
<1>6. ASSUME NEW q \in Runs PROVE PhaseInv(q)'
  BY <1>2 DEF PhaseInv, TypeOK, Planned
<1>7. PublishedComplete'
  BY <1>2 DEF PublishedComplete, Planned
<1> QED BY <1>3, <1>5, <1>6, <1>7

(* A part is committed, or not.  Nothing becomes None, and no other worker *)
(* moves.                                                                  *)
LEMMA UploadTarStep ==
  ASSUME IInv, NEW r \in Runs, NEW i \in Slots, UploadTar(r, i)
  PROVE  IInv'
<1> USE DEF IInv
<1> DEFINE k == Planned(r)[i]
<1>1. PICK o \in {"ok", "fail", "lost"} :
        /\ tar' = IF o = "fail" THEN tar ELSE [tar EXCEPT ![k] = r]
        /\ worker' = [worker EXCEPT ![r][i] = IF o = "ok" THEN "toc" ELSE "failed"]
        /\ firstErr' = [firstErr EXCEPT ![r] = @ \/ o # "ok"]
  BY UploadAssumption DEF UploadTar, PutOutcomes
<1>2. /\ worker[r][i] = "tar"
      /\ UNCHANGED <<inv, pc, ctx, next, results, toc, manifest>>
  BY DEF UploadTar
<1>3. i \in 1..Len(Planned(r)) /\ i < next[r] /\ k \in PartKinds
  <2>1. i \in 1..Len(Planned(r)) /\ i < next[r]
    BY <1>2 DEF WorkersInv
  <2> QED BY <2>1, PlannedLemma
<1> HIDE DEF k
<1>4. /\ tar' \in [PartKinds -> Writers \cup {None}]
      /\ \A x \in PartKinds : tar[x] # None => tar'[x] # None
      /\ o = "ok" => tar'[k] # None
  BY <1>1, <1>3, UploadAssumption DEF TypeOK, Writers
<1>5. TypeOK'
  <2>1. worker' \in [Runs -> [Slots -> Stages]]
    BY <1>1 DEF TypeOK, Stages
  <2>2. firstErr' \in [Runs -> BOOLEAN]
    BY <1>1 DEF TypeOK
  <2> QED BY <1>2, <1>4, <2>1, <2>2 DEF TypeOK
<1>6. ASSUME NEW q \in Runs PROVE WorkersInv(q)'
  <2> SUFFICES ASSUME NEW j \in Slots
               PROVE  /\ worker'[q][j] # "idle" =>
                           j \in 1..Len(Planned(q)) /\ j < next[q]
                      /\ results[q][j] = IF worker'[q][j] = "done"
                                         THEN Part(Planned(q)[j], q, q) ELSE ZeroPart
                      /\ worker'[q][j] \in {"toc", "done"} => tar'[Planned(q)[j]] # None
                      /\ worker'[q][j] = "done" => toc[Planned(q)[j]] # None
    BY <1>2 DEF WorkersInv, Planned
  <2>1. CASE q = r /\ j = i
    <3>1. worker'[q][j] = IF o = "ok" THEN "toc" ELSE "failed"
      BY <1>1, <2>1 DEF TypeOK
    <3> QED BY <1>2, <1>3, <1>4, <2>1, <3>1 DEF WorkersInv, k
  <2>2. CASE ~(q = r /\ j = i)
    <3>1. worker'[q][j] = worker[q][j]
      BY <1>1, <2>2 DEF TypeOK
    <3>2. worker[q][j] # "idle" => Planned(q)[j] \in PartKinds
      BY PlannedLemma DEF WorkersInv
    <3> QED BY <1>4, <3>1, <3>2 DEF WorkersInv
  <2> QED BY <2>1, <2>2
<1>7. ASSUME NEW q \in Runs PROVE PhaseInv(q)'
  <2>1. \A j \in Slots : worker[q][j] = "done" => worker'[q][j] = "done"
    BY <1>1, <1>2 DEF TypeOK
  <2>2. \A j \in 1..Len(Planned(q)) : j \in Slots
    BY PlannedLemma
  <2> QED BY <1>2, <2>1, <2>2 DEF PhaseInv, Planned
<1>8. PublishedComplete'
  <2> SUFFICES ASSUME NEW q \in Runs, manifest # None, manifest.run = q
               PROVE  /\ manifest = Published(q, Planned(q))
                      /\ \A j \in DOMAIN manifest.parts :
                           /\ tar'[manifest.parts[j].name] # None
                           /\ toc[manifest.parts[j].name] # None
    BY <1>2 DEF PublishedComplete, Planned
  <2>1. \A j \in DOMAIN manifest.parts : manifest.parts[j].name \in PartKinds
    BY ListedLemma
  <2> QED BY <1>4, <2>1 DEF PublishedComplete
<1> QED BY <1>5, <1>6, <1>7, <1>8

(* The table of contents is committed and the part recorded, or neither.   *)
LEMMA UploadTOCStep ==
  ASSUME IInv, NEW r \in Runs, NEW i \in Slots, UploadTOC(r, i)
  PROVE  IInv'
<1> USE DEF IInv
<1> DEFINE k == Planned(r)[i]
<1>1. PICK o \in {"ok", "fail", "lost"} :
        /\ toc' = IF o = "fail" THEN toc ELSE [toc EXCEPT ![k] = r]
        /\ worker' = [worker EXCEPT ![r][i] = IF o = "ok" THEN "done" ELSE "failed"]
        /\ results' = IF o = "ok" THEN [results EXCEPT ![r][i] = Part(k, r, r)]
                      ELSE results
        /\ firstErr' = [firstErr EXCEPT ![r] = @ \/ o # "ok"]
  BY UploadAssumption DEF UploadTOC, PutOutcomes
<1>2. /\ worker[r][i] = "toc"
      /\ UNCHANGED <<inv, pc, ctx, next, tar, manifest>>
  BY DEF UploadTOC
<1>3. i \in 1..Len(Planned(r)) /\ i < next[r] /\ k \in PartKinds
  <2>1. i \in 1..Len(Planned(r)) /\ i < next[r]
    BY <1>2 DEF WorkersInv
  <2> QED BY <2>1, PlannedLemma
<1> HIDE DEF k
<1>4. /\ toc' \in [PartKinds -> Writers \cup {None}]
      /\ \A x \in PartKinds : toc[x] # None => toc'[x] # None
      /\ o = "ok" => toc'[k] # None
  BY <1>1, <1>3, UploadAssumption DEF TypeOK, Writers
<1>5. TypeOK'
  <2>1. worker' \in [Runs -> [Slots -> Stages]]
    BY <1>1 DEF TypeOK, Stages
  <2>2. firstErr' \in [Runs -> BOOLEAN]
    BY <1>1 DEF TypeOK
  <2>3. Part(k, r, r) \in UploadedPart
    BY <1>3 DEF Part, UploadedPart, Writers
  <2>4. results' \in [Runs -> [Slots -> UploadedPart \cup {ZeroPart}]]
    BY <1>1, <2>3 DEF TypeOK
  <2> QED BY <1>2, <1>4, <2>1, <2>2, <2>4 DEF TypeOK
<1>6. ASSUME NEW q \in Runs PROVE WorkersInv(q)'
  <2> SUFFICES ASSUME NEW j \in Slots
               PROVE  /\ worker'[q][j] # "idle" =>
                           j \in 1..Len(Planned(q)) /\ j < next[q]
                      /\ results'[q][j] = IF worker'[q][j] = "done"
                                          THEN Part(Planned(q)[j], q, q) ELSE ZeroPart
                      /\ worker'[q][j] \in {"toc", "done"} => tar[Planned(q)[j]] # None
                      /\ worker'[q][j] = "done" => toc'[Planned(q)[j]] # None
    BY <1>2 DEF WorkersInv, Planned
  <2>1. CASE q = r /\ j = i
    <3>1. /\ worker'[q][j] = IF o = "ok" THEN "done" ELSE "failed"
          /\ results'[q][j] = IF o = "ok" THEN Part(k, r, r) ELSE results[q][j]
      BY <1>1, <2>1 DEF TypeOK
    <3> QED BY <1>2, <1>3, <1>4, <2>1, <3>1 DEF WorkersInv, k
  <2>2. CASE ~(q = r /\ j = i)
    <3>1. worker'[q][j] = worker[q][j] /\ results'[q][j] = results[q][j]
      BY <1>1, <2>2 DEF TypeOK
    <3>2. worker[q][j] # "idle" => Planned(q)[j] \in PartKinds
      BY PlannedLemma DEF WorkersInv
    <3> QED BY <1>4, <3>1, <3>2 DEF WorkersInv
  <2> QED BY <2>1, <2>2
<1>7. ASSUME NEW q \in Runs PROVE PhaseInv(q)'
  <2>1. \A j \in Slots : worker[q][j] = "done" => worker'[q][j] = "done"
    BY <1>1, <1>2 DEF TypeOK
  <2>2. \A j \in 1..Len(Planned(q)) : j \in Slots
    BY PlannedLemma
  <2> QED BY <1>2, <2>1, <2>2 DEF PhaseInv, Planned
<1>8. PublishedComplete'
  <2> SUFFICES ASSUME NEW q \in Runs, manifest # None, manifest.run = q
               PROVE  /\ manifest = Published(q, Planned(q))
                      /\ \A j \in DOMAIN manifest.parts :
                           /\ tar[manifest.parts[j].name] # None
                           /\ toc'[manifest.parts[j].name] # None
    BY <1>2 DEF PublishedComplete, Planned
  <2>1. \A j \in DOMAIN manifest.parts : manifest.parts[j].name \in PartKinds
    BY ListedLemma
  <2> QED BY <1>4, <2>1 DEF PublishedComplete
<1> QED BY <1>5, <1>6, <1>7, <1>8

(* When Run reaches writeManifest, what it hands over is the whole plan.   *)
LEMMA PartsAreThePlan ==
  ASSUME IInv, NEW r \in Runs, pc[r] = "manifest"
  PROVE  /\ Published(r, Planned(r)) \in ManifestType
         /\ [run |-> r, parts |-> Parts(r)] = Published(r, Planned(r))
         /\ \A i \in DOMAIN Published(r, Planned(r)).parts :
              /\ i \in Slots /\ worker[r][i] = "done"
              /\ Published(r, Planned(r)).parts[i] = Part(Planned(r)[i], r, r)
              /\ tar[Planned(r)[i]] # None /\ toc[Planned(r)[i]] # None
<1> DEFINE n == Len(Planned(r))
           ps == [i \in 1..n |-> Part(Planned(r)[i], r, r)]
<1>1. /\ DOMAIN Planned(r) = 1..n /\ n \in Nat
      /\ \A i \in 1..n : i \in Slots /\ Planned(r)[i] \in PartKinds
  BY PlannedLemma DEF IInv
<1>2. Published(r, Planned(r)) = [run |-> r, parts |-> ps]
  BY <1>1 DEF Published
<1>3. \A i \in 1..n : /\ worker[r][i] = "done"
                      /\ results[r][i] = Part(Planned(r)[i], r, r)
                      /\ tar[Planned(r)[i]] # None /\ toc[Planned(r)[i]] # None
  BY <1>1 DEF IInv, WorkersInv, PhaseInv
<1>4. Parts(r) = ps
  BY <1>3 DEF Parts
<1>5. \A i \in 1..n : Part(Planned(r)[i], r, r) \in UploadedPart
  BY <1>1 DEF Part, UploadedPart, Writers
<1> HIDE DEF n
<1>6. ps \in Seq(UploadedPart) /\ DOMAIN ps = 1..n
  BY <1>1, <1>5
<1>7. [run |-> r, parts |-> ps] \in ManifestType
  BY <1>6 DEF ManifestType, Writers
<1> QED BY <1>1, <1>2, <1>3, <1>4, <1>6, <1>7

(* The manifest is published, or not.                                      *)
LEMMA WriteManifestStep ==
  ASSUME IInv, NEW r \in Runs, WriteManifest(r)
  PROVE  IInv'
<1> USE DEF IInv
<1> DEFINE new == Published(r, Planned(r))
<1>1. PICK o \in {"ok", "fail", "lost"} :
        /\ manifest' = IF o = "fail" THEN manifest
                       ELSE [run |-> r, parts |-> Parts(r)]
        /\ pc' = [pc EXCEPT ![r] = IF o = "ok" THEN "ok" ELSE "err"]
  BY UploadAssumption DEF WriteManifest, PutOutcomes
<1>2. /\ pc[r] = "manifest"
      /\ UNCHANGED <<inv, ctx, firstErr, next, worker, results, tar, toc>>
  BY DEF WriteManifest
<1>3. manifest' \in {manifest, new} /\ new \in ManifestType /\ new.run = r
  <2>1. new.run = r
    BY DEF Published
  <2> QED BY <1>1, <1>2, <2>1, PartsAreThePlan
<1>4. TypeOK'
  BY <1>1, <1>2, <1>3 DEF TypeOK, Phases
<1>5. ASSUME NEW q \in Runs PROVE WorkersInv(q)'
  BY <1>2 DEF WorkersInv, Planned
<1>6. ASSUME NEW q \in Runs PROVE PhaseInv(q)'
  BY <1>1, <1>2 DEF PhaseInv, Planned, TypeOK
<1>7. PublishedComplete'
  <2>1. CASE manifest' = manifest
    BY <1>2, <2>1 DEF PublishedComplete, Planned
  <2>2. CASE manifest' = new
    <3>1. \A i \in DOMAIN new.parts :
            /\ new.parts[i].name = Planned(r)[i]
            /\ tar[Planned(r)[i]] # None /\ toc[Planned(r)[i]] # None
      <4>1. \A i \in DOMAIN new.parts :
              /\ new.parts[i] = Part(Planned(r)[i], r, r)
              /\ tar[Planned(r)[i]] # None /\ toc[Planned(r)[i]] # None
        BY <1>2, PartsAreThePlan
      <4>2. \A x : Part(x, r, r).name = x
        BY DEF Part
      <4> HIDE DEF new
      <4> QED BY <4>1, <4>2
    <3> HIDE DEF new
    <3> SUFFICES ASSUME NEW q \in Runs, manifest'.run = q
                 PROVE  /\ new = Published(q, Planned(q))
                        /\ \A i \in DOMAIN new.parts :
                             /\ tar[new.parts[i].name] # None
                             /\ toc[new.parts[i].name] # None
      BY <1>2, <2>2 DEF PublishedComplete, Planned
    <3>2. q = r
      BY <1>3, <2>2
    <3> QED BY <3>1, <3>2 DEF new
  <2> QED BY <1>3, <2>1, <2>2
<1> QED BY <1>4, <1>5, <1>6, <1>7

(* Every step keeps the invariant.                                         *)
LEMMA NextIInv == IInv /\ [Next]_vars => IInv'
<1> SUFFICES ASSUME IInv, [Next]_vars PROVE IInv'
  OBVIOUS
<1>1. CASE UNCHANGED vars
  BY <1>1 DEF IInv, TypeOK, WorkersInv, PhaseInv, PublishedComplete, Planned,
              vars, runVars, store
<1>2. ASSUME NEW r \in Runs, Step(r) PROVE IInv'
  BY <1>2, QuietSteps, AcquireStep, UploadTarStep, UploadTOCStep,
     WriteManifestStep DEF Step
<1>3. ASSUME NEW r \in Runs, Interrupt(r) \/ Crash(r) PROVE IInv'
  BY <1>3, QuietSteps
<1> QED BY <1>1, <1>2, <1>3 DEF Next

(* Type correctness of the upload pipeline, for any number of runs.        *)
THEOREM TypeCorrect == Spec => []TypeOK
<1>1. IInv => TypeOK
  BY DEF IInv
<1> QED BY <1>1, InitIInv, NextIInv, PTL DEF Spec

(* No run publishes a partial snapshot: whichever workers fail, are        *)
(* cancelled or never start, on either kind of backend, a manifest lists   *)
(* the complete plan of its run, and every listed object exists.           *)
THEOREM PublishedCompleteTheorem == Spec => []PublishedComplete
<1>1. IInv => PublishedComplete
  BY DEF IInv
<1> QED BY <1>1, InitIInv, NextIInv, PTL DEF Spec

-----------------------------------------------------------------------------

(* What a step of run r may do to the backend and to the progress of the   *)
(* workers, in the terms of OwnBytesInv.                                   *)
Effects(r) ==
  /\ inv' = inv
  /\ \A q \in Runs : Launched(q) => Launched(q)'
  /\ \A k \in PartKinds :
       /\ tar'[k] # tar[k] => Launched(r) /\ tar'[k] = r
       /\ toc'[k] # toc[k] => Launched(r) /\ toc'[k] = r
  /\ \A q \in Runs, i \in Slots :
       /\ worker'[q][i] \in {"toc", "done"} =>
            worker[q][i] \in {"toc", "done"} \/ tar'[Planned(q)[i]] = q
       /\ worker'[q][i] = "done" =>
            worker[q][i] = "done" \/ toc'[Planned(q)[i]] = q
  /\ \/ manifest' = manifest
     \/ /\ pc[r] = "manifest"
        /\ manifest' = Published(r, Planned(r))
        /\ UNCHANGED <<next, worker, tar, toc>>

LEMMA EffectsLemma ==
  ASSUME IInv, NEW r \in Runs, Step(r) \/ Interrupt(r) \/ Crash(r)
  PROVE  Effects(r)
<1> USE DEF IInv
<1>1. CASE \/ Preflight(r) \/ CheckOverwrite(r) \/ Plan(r) \/ Dispatch(r)
           \/ Collect(r) \/ Interrupt(r) \/ Crash(r)
  <2>1. UNCHANGED <<inv, next, worker, tar, toc, manifest>>
    BY <1>1 DEF Preflight, CheckOverwrite, Plan, Dispatch, Collect, Interrupt,
                Crash, store
  <2> QED BY <2>1 DEF Effects, Launched
<1>2. CASE Acquire(r)
  <2>1. /\ UNCHANGED <<inv, tar, toc, manifest>>
        /\ next' = [next EXCEPT ![r] = @ + 1]
        /\ \E x \in {"failed", "tar"} : worker' = [worker EXCEPT ![r][next[r]] = x]
    BY <1>2 DEF Acquire, store
  <2>2. ASSUME NEW q \in Runs, Launched(q) PROVE Launched(q)'
    <3>1. next[q] \in 1..5 /\ next'[q] \in {next[q], next[q] + 1}
      BY <2>1 DEF TypeOK
    <3>2. next[q] > 1
      BY <2>2 DEF Launched
    <3>3. next'[q] > 1
      BY <3>1, <3>2
    <3> QED BY <3>3 DEF Launched
  <2>3. \A q \in Runs, i \in Slots :
          worker'[q][i] \in {"toc", "done"} => worker'[q][i] = worker[q][i]
    BY <2>1 DEF TypeOK
  <2> QED BY <2>1, <2>2, <2>3 DEF Effects
<1>3. ASSUME NEW i \in Slots, UploadTar(r, i) PROVE Effects(r)
  <2> DEFINE k == Planned(r)[i]
  <2>1. PICK o \in {"ok", "fail", "lost"} :
          /\ tar' = IF o = "fail" THEN tar ELSE [tar EXCEPT ![k] = r]
          /\ worker' = [worker EXCEPT ![r][i] = IF o = "ok" THEN "toc" ELSE "failed"]
    BY <1>3, UploadAssumption DEF UploadTar, PutOutcomes
  <2>2. worker[r][i] = "tar" /\ UNCHANGED <<inv, next, toc, manifest>>
    BY <1>3 DEF UploadTar
  <2>3. Launched(r) /\ k \in PartKinds
    <3>1. i \in 1..Len(Planned(r)) /\ i < next[r]
      BY <2>2 DEF WorkersInv
    <3>2. next[r] > 1
      BY <3>1 DEF Slots, TypeOK
    <3> QED BY <3>1, <3>2, PlannedLemma DEF Launched
  <2> HIDE DEF k
  <2>4. /\ \A x \in PartKinds : tar'[x] # tar[x] => tar'[x] = r
        /\ o = "ok" => tar'[k] = r
    BY <2>1, <2>3 DEF TypeOK
  <2>5. ASSUME NEW q \in Runs, NEW j \in Slots
        PROVE  /\ worker'[q][j] \in {"toc", "done"} =>
                    worker[q][j] \in {"toc", "done"} \/ tar'[Planned(q)[j]] = q
               /\ worker'[q][j] = "done" => worker[q][j] = "done"
    <3>1. CASE q = r /\ j = i
      <4>1. worker'[q][j] = IF o = "ok" THEN "toc" ELSE "failed"
        BY <2>1, <3>1 DEF TypeOK
      <4> QED BY <2>4, <3>1, <4>1 DEF k
    <3>2. CASE ~(q = r /\ j = i)
      <4>1. worker'[q][j] = worker[q][j]
        BY <2>1, <3>2 DEF TypeOK
      <4> QED BY <4>1
    <3> QED BY <3>1, <3>2
  <2> QED BY <2>2, <2>3, <2>4, <2>5 DEF Effects, Launched
<1>4. ASSUME NEW i \in Slots, UploadTOC(r, i) PROVE Effects(r)
  <2> DEFINE k == Planned(r)[i]
  <2>1. PICK o \in {"ok", "fail", "lost"} :
          /\ toc' = IF o = "fail" THEN toc ELSE [toc EXCEPT ![k] = r]
          /\ worker' = [worker EXCEPT ![r][i] = IF o = "ok" THEN "done" ELSE "failed"]
    BY <1>4, UploadAssumption DEF UploadTOC, PutOutcomes
  <2>2. worker[r][i] = "toc" /\ UNCHANGED <<inv, next, tar, manifest>>
    BY <1>4 DEF UploadTOC
  <2>3. Launched(r) /\ k \in PartKinds
    <3>1. i \in 1..Len(Planned(r)) /\ i < next[r]
      BY <2>2 DEF WorkersInv
    <3>2. next[r] > 1
      BY <3>1 DEF Slots, TypeOK
    <3> QED BY <3>1, <3>2, PlannedLemma DEF Launched
  <2> HIDE DEF k
  <2>4. /\ \A x \in PartKinds : toc'[x] # toc[x] => toc'[x] = r
        /\ o = "ok" => toc'[k] = r
    BY <2>1, <2>3 DEF TypeOK
  <2>5. ASSUME NEW q \in Runs, NEW j \in Slots
        PROVE  /\ worker'[q][j] \in {"toc", "done"} => worker[q][j] \in {"toc", "done"}
               /\ worker'[q][j] = "done" =>
                    worker[q][j] = "done" \/ toc'[Planned(q)[j]] = q
    <3>1. CASE q = r /\ j = i
      <4>1. worker'[q][j] = IF o = "ok" THEN "done" ELSE "failed"
        BY <2>1, <3>1 DEF TypeOK
      <4> QED BY <2>2, <2>4, <3>1, <4>1 DEF k
    <3>2. CASE ~(q = r /\ j = i)
      <4>1. worker'[q][j] = worker[q][j]
        BY <2>1, <3>2 DEF TypeOK
      <4> QED BY <4>1
    <3> QED BY <3>1, <3>2
  <2> QED BY <2>2, <2>3, <2>4, <2>5 DEF Effects, Launched
<1>5. CASE WriteManifest(r)
  <2>1. /\ pc[r] = "manifest"
        /\ UNCHANGED <<inv, next, worker, tar, toc>>
        /\ manifest' \in {manifest, [run |-> r, parts |-> Parts(r)]}
    BY <1>5 DEF WriteManifest
  <2>2. manifest' \in {manifest, Published(r, Planned(r))}
    BY <2>1, PartsAreThePlan
  <2> QED BY <2>1, <2>2 DEF Effects, Launched
<1> QED BY <1>1, <1>2, <1>3, <1>4, <1>5 DEF Step

(* The bytes of an unrivalled run stay, step by step.                      *)
LEMMA EffectsKeepBytes ==
  ASSUME BytesInv, IInv', NEW r \in Runs, Effects(r)
  PROVE  BytesInv'
<1> USE DEF BytesInv
<1>1. ASSUME NEW w, \A q \in Runs \ {w} : ~(next'[q] > 1) PROVE NoRival(w)
  BY <1>1 DEF Effects, NoRival, Launched
<1>2. \A q \in Runs : Planned(q)' = Planned(q)
  BY DEF Effects, Planned
<1>3. \A w : NoRival(w) /\ Launched(r) => w = r
  BY DEF NoRival
<1>4. ASSUME NEW q \in Runs PROVE OwnBytesInv(q)'
  <2> SUFFICES ASSUME NoRival(q)', NEW i \in Slots
               PROVE  /\ worker'[q][i] \in {"toc", "done"} => tar'[Planned(q)[i]] = q
                      /\ worker'[q][i] = "done" => toc'[Planned(q)[i]] = q
    BY <1>2 DEF OwnBytesInv
  <2>1. NoRival(q)
    <3>1. \A x \in Runs \ {q} : ~(next'[x] > 1)
      BY DEF NoRival, Launched
    <3> QED BY <1>1, <3>1
  <2>2. worker[q][i] # "idle" => Planned(q)[i] \in PartKinds
    BY PlannedLemma DEF IInv, WorkersInv
  <2>3. worker[q][i] \in {"toc", "done"} => tar[Planned(q)[i]] = q
    BY <2>1 DEF OwnBytesInv
  <2>4. worker[q][i] = "done" => toc[Planned(q)[i]] = q
    BY <2>1 DEF OwnBytesInv
  <2> QED BY <1>3, <2>1, <2>2, <2>3, <2>4 DEF Effects
<1>5. IntactUnlessRival'
  <2> SUFFICES ASSUME manifest' # None,
                      \A q \in Runs \ {manifest'.run} : ~(next'[q] > 1)
               PROVE  Intact'
    BY DEF IntactUnlessRival, NoRival, Launched
  <2>0. NoRival(manifest'.run)
    BY <1>1
  <2>1. CASE manifest' = manifest
    <3>1. NoRival(manifest.run) /\ Intact
      BY <2>0, <2>1 DEF IntactUnlessRival
    <3> SUFFICES ASSUME NEW i \in DOMAIN manifest.parts
                 PROVE  /\ tar'[manifest.parts[i].name] = manifest.parts[i].sha256
                        /\ toc'[manifest.parts[i].name] = manifest.parts[i].toc
      BY <2>1 DEF Intact
    <3> DEFINE p == manifest.parts[i]
    <3>2. p.name \in PartKinds /\ tar[p.name] = p.sha256 /\ toc[p.name] = p.toc
      BY <2>1, <3>1, ListedLemma DEF IInv, Intact
    <3>3. manifest.run = r => p.sha256 = r /\ p.toc = r
      <4> SUFFICES ASSUME manifest.run = r PROVE p.sha256 = r /\ p.toc = r
        OBVIOUS
      <4>1. manifest = Published(r, Planned(r))
        BY <2>1 DEF IInv, PublishedComplete
      <4>2. p = Part(Planned(r)[i], r, r)
        BY <4>1 DEF Published
      <4> QED BY <4>2 DEF Part
    <3> HIDE DEF p
    <3>4. tar'[p.name] = p.sha256 /\ toc'[p.name] = p.toc
      BY <1>3, <3>1, <3>2, <3>3 DEF Effects
    <3> QED BY <3>4 DEF p
  <2>2. CASE manifest' # manifest
    <3> DEFINE new == Published(r, Planned(r))
    <3>1. /\ pc[r] = "manifest" /\ manifest' = new
          /\ UNCHANGED <<next, worker, tar, toc>>
      BY <2>2 DEF Effects
    <3>2. NoRival(r)
      <4>1. new.run = r
        BY DEF Published
      <4> QED BY <2>0, <3>1, <4>1
    <3>3. \A i \in DOMAIN new.parts :
            /\ new.parts[i] = Part(Planned(r)[i], r, r)
            /\ tar[Planned(r)[i]] = r /\ toc[Planned(r)[i]] = r
      BY <3>1, <3>2, PartsAreThePlan DEF OwnBytesInv
    <3>4. \A x : /\ Part(x, r, r).name = x
                 /\ Part(x, r, r).sha256 = r /\ Part(x, r, r).toc = r
      BY DEF Part
    <3> HIDE DEF new
    <3> QED BY <3>1, <3>3, <3>4 DEF Intact
  <2> QED BY <2>1, <2>2
<1> QED BY <1>4, <1>5

(* Initially the backend holds nothing of a run, and what is published is  *)
(* intact.                                                                 *)
LEMMA InitBytes == Init => BytesInv
<1> SUFFICES ASSUME Init PROVE BytesInv
  OBVIOUS
<1>1. \A r \in Runs : OwnBytesInv(r)
  BY DEF Init, OwnBytesInv, Slots
<1>2. IntactUnlessRival
  <2> SUFFICES ASSUME manifest # None PROVE Intact
    BY DEF IntactUnlessRival
  <2>1. PICK s \in BOOLEAN, t \in BOOLEAN :
          /\ tar = Objects(Prev, PlanParts(s, t))
          /\ toc = Objects(Prev, PlanParts(s, t))
          /\ manifest = Published(Prev, PlanParts(s, t))
    BY DEF Init, InitStore
  <2> DEFINE ks == PlanParts(s, t)
  <2>2. /\ manifest.parts = [i \in DOMAIN ks |-> Part(ks[i], Prev, Prev)]
        /\ \A i \in DOMAIN ks : ks[i] \in PartKinds
    BY <2>1, PlanLemma DEF Published
  <2>3. \A i \in DOMAIN ks : tar[ks[i]] = Prev /\ toc[ks[i]] = Prev
    BY <2>1, <2>2 DEF Objects
  <2>4. \A x : /\ Part(x, Prev, Prev).name = x
               /\ Part(x, Prev, Prev).sha256 = Prev /\ Part(x, Prev, Prev).toc = Prev
    BY DEF Part
  <2> HIDE DEF ks
  <2> QED BY <2>2, <2>3, <2>4 DEF Intact
<1> QED BY <1>1, <1>2, InitIInv DEF BytesInv

LEMMA BytesStep == BytesInv /\ [Next]_vars => BytesInv'
<1> SUFFICES ASSUME BytesInv, [Next]_vars PROVE BytesInv'
  OBVIOUS
<1>1. IInv'
  BY NextIInv DEF BytesInv
<1>2. CASE UNCHANGED vars
  BY <1>1, <1>2 DEF BytesInv, OwnBytesInv, NoRival, Launched, Planned,
                    IntactUnlessRival, Intact, vars, runVars, store
<1>3. ASSUME NEW r \in Runs, Step(r) \/ Interrupt(r) \/ Crash(r)
      PROVE  BytesInv'
  BY <1>1, <1>3, EffectsLemma, EffectsKeepBytes DEF BytesInv
<1> QED BY <1>2, <1>3 DEF Next

(* A published snapshot that no other run writes to is intact, for any     *)
(* number of runs and whatever was there before: the digests in the        *)
(* manifest are those of the objects, parts and tables of contents alike.  *)
THEOREM IntactTheorem == Spec => []IntactUnlessRival
<1>1. BytesInv => IntactUnlessRival
  BY DEF BytesInv
<1> QED BY <1>1, BytesStep, InitBytes, PTL DEF Spec

-----------------------------------------------------------------------------

(* Before the loop nothing was started; after it nothing runs any more.    *)
QuietInv(r) ==
  /\ pc[r] \in {"start", "check", "plan"} => next[r] = 1
  /\ pc[r] \in {"manifest", "ok", "err"} => InFlight(r) = {}

(* What a step of run r does to the program counters, and how that relates *)
(* to the manifest.                                                        *)
Moves(r) ==
  /\ \A q \in Runs \ {r} : pc'[q] = pc[q]
  /\ Ended(r) => pc'[r] = pc[r]
  /\ pc'[r] = "ok" => pc[r] = "ok" \/ manifest' = Published(r, Planned(r))
  /\ manifest' # manifest => CtxAware \/ pc'[r] = "ok"

LEMMA MovesLemma ==
  ASSUME IInv, NEW r \in Runs, Step(r) \/ Interrupt(r) \/ Crash(r)
  PROVE  Moves(r)
<1> USE DEF Moves, Ended
<1>0. pc \in [Runs -> Phases]
  BY DEF IInv, TypeOK
<1>1. CASE Preflight(r) \/ CheckOverwrite(r) \/ Plan(r)
  BY <1>0, <1>1 DEF Preflight, CheckOverwrite, Plan, store
<1>2. CASE Dispatch(r) \/ Acquire(r) \/ Collect(r)
  <2>1. /\ \E x \in {"wait", "acquire", "dispatch", "manifest", "err"} :
             pc' = [pc EXCEPT ![r] = x]
        /\ pc[r] \in {"dispatch", "acquire", "wait"} /\ manifest' = manifest
    BY <1>2 DEF Dispatch, Acquire, Collect, store
  <2> QED BY <1>0, <2>1
<1>3. CASE Interrupt(r) \/ Crash(r)
  BY <1>0, <1>3 DEF Interrupt, Crash, store
<1>4. CASE \E i \in Slots : UploadTar(r, i) \/ UploadTOC(r, i)
  BY <1>4 DEF UploadTar, UploadTOC
<1>5. CASE WriteManifest(r)
  <2>1. PICK o \in {"ok", "fail", "lost"} :
          /\ o = "lost" => CtxAware
          /\ manifest' = IF o = "fail" THEN manifest
                         ELSE [run |-> r, parts |-> Parts(r)]
          /\ pc' = [pc EXCEPT ![r] = IF o = "ok" THEN "ok" ELSE "err"]
    BY <1>5, UploadAssumption DEF WriteManifest, PutOutcomes
  <2>2. pc[r] = "manifest"
    BY <1>5 DEF WriteManifest
  <2>3. [run |-> r, parts |-> Parts(r)] = Published(r, Planned(r))
    BY <2>2, PartsAreThePlan
  <2> QED BY <1>0, <2>1, <2>2, <2>3
<1> QED BY <1>1, <1>2, <1>3, <1>4, <1>5 DEF Step

(* The inductive invariant of the three outcome properties.                *)
OutcomeInv ==
  /\ IInv
  /\ \A r \in Runs : QuietInv(r)
  /\ SuccessIsPublished
  /\ ~CtxAware => \A r \in Runs : manifest # None /\ manifest.run = r => pc[r] = "ok"

LEMMA QuietStep ==
  ASSUME IInv, \A q \in Runs : QuietInv(q),
         NEW r \in Runs, Step(r) \/ Interrupt(r) \/ Crash(r), NEW q \in Runs
  PROVE  QuietInv(q)'
<1>0. /\ pc \in [Runs -> Phases] /\ next \in [Runs -> 1..5]
      /\ worker \in [Runs -> [Slots -> Stages]]
  BY DEF IInv, TypeOK
<1>1. CASE Preflight(r) \/ CheckOverwrite(r) \/ Plan(r)
  <2>1. /\ pc[r] \in {"start", "check", "plan"} /\ UNCHANGED <<next, worker>>
        /\ \E x \in {"check", "plan", "dispatch", "err"} : pc' = [pc EXCEPT ![r] = x]
    BY <1>1 DEF Preflight, CheckOverwrite, Plan
  <2>2. next[r] = 1
    BY <2>1 DEF QuietInv
  <2>3. InFlight(r) = {}
    <3>1. \A i \in Slots : ~(i \in 1..Len(Planned(r)) /\ i < 1)
      BY DEF Slots
    <3> QED BY <2>2, <3>1 DEF InFlight, IInv, WorkersInv
  <2>4. InFlight(q)' = InFlight(q)
    BY <2>1 DEF InFlight
  <2>5. CASE q = r
    BY <1>0, <2>1, <2>2, <2>3, <2>4, <2>5 DEF QuietInv
  <2>6. CASE q # r
    BY <1>0, <2>1, <2>4, <2>6 DEF QuietInv
  <2> QED BY <2>5, <2>6
<1>2. CASE Dispatch(r) \/ Collect(r) \/ WriteManifest(r) \/ Crash(r)
  <2>1. /\ \E x \in {"wait", "acquire", "manifest", "ok", "err", "crashed"} :
             /\ pc' = [pc EXCEPT ![r] = x]
             /\ x \in {"manifest", "ok", "err"} => InFlight(r) = {}
        /\ UNCHANGED <<next, worker>>
    <3>1. CASE Dispatch(r) \/ Collect(r) \/ Crash(r)
      BY <1>2, <3>1 DEF Dispatch, Collect, Crash
    <3>2. CASE WriteManifest(r)
      BY <3>2 DEF WriteManifest, QuietInv
    <3> QED BY <1>2, <3>1, <3>2
  <2>2. InFlight(q)' = InFlight(q)
    BY <2>1 DEF InFlight
  <2> QED BY <1>0, <2>1, <2>2 DEF QuietInv
<1>3. CASE Acquire(r)
  <2>1. /\ pc' = [pc EXCEPT ![r] = "dispatch"] /\ next' = [next EXCEPT ![r] = @ + 1]
        /\ \E x \in {"failed", "tar"} : worker' = [worker EXCEPT ![r][next[r]] = x]
    BY <1>3 DEF Acquire
  <2>2. q # r => InFlight(q)' = InFlight(q)
    BY <1>0, <2>1 DEF InFlight
  <2> QED BY <1>0, <2>1, <2>2 DEF QuietInv
<1>4. ASSUME NEW i \in Slots, UploadTar(r, i) \/ UploadTOC(r, i) PROVE QuietInv(q)'
  <2>1. /\ i \in InFlight(r) /\ UNCHANGED <<pc, next>>
        /\ \E x \in Stages : worker' = [worker EXCEPT ![r][i] = x]
    BY <1>4 DEF UploadTar, UploadTOC, InFlight, Stages
  <2>2. q # r => InFlight(q)' = InFlight(q)
    BY <1>0, <2>1 DEF InFlight
  <2> QED BY <1>0, <2>1, <2>2 DEF QuietInv
<1>5. CASE Interrupt(r)
  BY <1>5 DEF Interrupt, QuietInv, InFlight
<1> QED BY <1>1, <1>2, <1>3, <1>4, <1>5 DEF Step

(* A run that is about to publish has started workers.                     *)
LEMMA PublisherLaunched ==
  ASSUME IInv, NEW r \in Runs, pc[r] = "manifest" PROVE Launched(r)
<1>1. 1 \in 1..Len(Planned(r)) /\ 1 \in Slots
  <2>1. Len(Planned(r)) \in 2..4
    BY PlannedLemma DEF IInv
  <2> QED BY <2>1 DEF Slots
<1>2. worker[r][1] = "done"
  BY <1>1 DEF IInv, PhaseInv
<1>3. 1 < next[r] /\ next[r] \in 1..5
  BY <1>1, <1>2 DEF IInv, WorkersInv, TypeOK
<1> QED BY <1>3 DEF Launched

LEMMA OutcomeStep == OutcomeInv /\ [Next]_vars => OutcomeInv'
<1> SUFFICES ASSUME OutcomeInv, [Next]_vars PROVE OutcomeInv'
  OBVIOUS
<1>0. IInv'
  BY NextIInv DEF OutcomeInv
<1>1. CASE UNCHANGED vars
  BY <1>0, <1>1 DEF OutcomeInv, QuietInv, InFlight, SuccessIsPublished, NoRival,
                    Launched, Planned, vars, runVars, store
<1>2. ASSUME NEW r \in Runs, Step(r) \/ Interrupt(r) \/ Crash(r) PROVE OutcomeInv'
  <2>1. Effects(r) /\ Moves(r)
    BY <1>2, EffectsLemma, MovesLemma DEF OutcomeInv
  <2>2. \A q \in Runs : QuietInv(q)'
    BY <1>2, QuietStep DEF OutcomeInv
  <2>3. SuccessIsPublished'
    <3> SUFFICES ASSUME NEW q \in Runs, pc'[q] = "ok",
                        \A x \in Runs \ {q} : ~(next'[x] > 1)
                 PROVE  manifest' = Published(q, Planned(q))
      BY <2>1 DEF SuccessIsPublished, NoRival, Launched, Effects, Planned
    <3>1. NoRival(q)
      BY <2>1 DEF Effects, NoRival, Launched
    <3>2. pc[q] = "ok" => manifest = Published(q, Planned(q))
      BY <3>1 DEF OutcomeInv, SuccessIsPublished
    <3>3. CASE q = r
      BY <2>1, <3>2, <3>3 DEF Effects, Moves
    <3>4. CASE q # r
      <4>1. pc[q] = "ok"
        BY <2>1, <3>4 DEF Moves
      <4>2. pc[r] # "manifest"
        BY <3>1, <3>4, PublisherLaunched DEF NoRival, OutcomeInv
      <4> QED BY <2>1, <3>2, <4>1, <4>2 DEF Effects
    <3> QED BY <3>3, <3>4
  <2>4. ~CtxAware =>
          \A q \in Runs : manifest' # None /\ manifest'.run = q => pc'[q] = "ok"
    <3> SUFFICES ASSUME ~CtxAware, NEW q \in Runs, manifest' # None, manifest'.run = q
                 PROVE  pc'[q] = "ok"
      OBVIOUS
    <3>1. CASE manifest' = manifest
      <4>1. pc[q] = "ok"
        BY <3>1 DEF OutcomeInv
      <4> QED BY <2>1, <4>1 DEF Moves, Ended
    <3>2. CASE manifest' # manifest
      <4>1. manifest' = Published(r, Planned(r)) /\ pc'[r] = "ok"
        BY <2>1, <3>2 DEF Effects, Moves
      <4>2. q = r
        BY <4>1 DEF Published
      <4> QED BY <4>1, <4>2
    <3> QED BY <3>1, <3>2
  <2> QED BY <1>0, <2>2, <2>3, <2>4 DEF OutcomeInv
<1> QED BY <1>1, <1>2 DEF Next

LEMMA OutcomeInit == Init => OutcomeInv
<1> SUFFICES ASSUME Init PROVE OutcomeInv
  OBVIOUS
<1>1. IInv
  BY InitIInv
<1>2. \A r \in Runs : pc[r] = "start" /\ next[r] = 1 /\ InFlight(r) = {}
  BY DEF Init, InFlight, Slots
<1>3. manifest # None => manifest.run = Prev
  <2>1. \A ks : Published(Prev, ks).run = Prev
    BY DEF Published
  <2> QED BY <2>1 DEF Init, InitStore
<1> QED BY <1>1, <1>2, <1>3, UploadAssumption DEF OutcomeInv, QuietInv, SuccessIsPublished

(* A run that reports success has published exactly its plan, unless       *)
(* another run writes under the same name; for any number of runs and      *)
(* either kind of backend (Run returning nil).                             *)
THEOREM SuccessTheorem == Spec => []SuccessIsPublished
<1>1. OutcomeInv => SuccessIsPublished
  BY DEF OutcomeInv
<1> QED BY <1>1, OutcomeInit, OutcomeStep, PTL DEF Spec

(* Where a failed Close has no effect, a run that reports an error has not *)
(* published, whatever its rivals do (writeManifest).                      *)
THEOREM FailureTheorem ==
  ASSUME ~CtxAware PROVE Spec => []FailureIsUnpublished
<1>1. OutcomeInv => FailureIsUnpublished
  BY DEF OutcomeInv, FailureIsUnpublished
<1> QED BY <1>1, OutcomeInit, OutcomeStep, PTL DEF Spec

(* After Run has returned, no goroutine that it started touches the        *)
(* backend, whichever way it returned (uploadParts' wg.Wait).              *)
THEOREM QuietTheorem == Spec => QuietAfterReturn
<1>1. OutcomeInv /\ [Next]_vars =>
        [\A r \in Runs : Returned(r) =>
            /\ \A k \in PartKinds : /\ tar'[k] = r => tar[k] = r
                                    /\ toc'[k] = r => toc[k] = r
            /\ (manifest' # None /\ manifest'.run = r) => manifest' = manifest]_vars
  <2> SUFFICES ASSUME OutcomeInv, NEW q \in Runs, Step(q) \/ Interrupt(q) \/ Crash(q),
                      NEW r \in Runs, Returned(r)
               PROVE  /\ \A k \in PartKinds : /\ tar'[k] = r => tar[k] = r
                                              /\ toc'[k] = r => toc[k] = r
                      /\ (manifest' # None /\ manifest'.run = r) => manifest' = manifest
    BY DEF Next
  <2>1. Effects(q)
    BY EffectsLemma DEF OutcomeInv
  <2>2. CASE q # r
    <3>1. Published(q, Planned(q)).run = q
      BY DEF Published
    <3> QED BY <2>1, <2>2, <3>1 DEF Effects
  <2>3. CASE q = r
    <3>1. InFlight(r) = {} /\ pc[r] \in {"ok", "err"}
      BY DEF OutcomeInv, QuietInv, Returned
    <3>2. ~(\E i \in Slots : UploadTar(r, i) \/ UploadTOC(r, i))
      BY <3>1 DEF UploadTar, UploadTOC, InFlight
    <3>3. UNCHANGED <<tar, toc, manifest>>
      BY <2>3, <3>1, <3>2 DEF Step, Preflight, CheckOverwrite, Plan, Dispatch, Acquire,
                              Collect, WriteManifest, Interrupt, Crash, store
    <3> QED BY <3>3
  <2> QED BY <2>2, <2>3
<1> QED BY <1>1, OutcomeInit, OutcomeStep, PTL DEF Spec, QuietAfterReturn

-----------------------------------------------------------------------------

(* A run without --overwrite that is past the check found the name free,   *)
(* and, being alone, may rely on it.                                       *)
FreeInv ==
  \A r \in Runs :
    ~inv[r].overwrite /\ pc[r] \notin {"start", "check", "ok", "err", "crashed"}
      => manifest = None

LEMMA FreeStep ==
  ASSUME \A q, r \in Runs : q = r, OutcomeInv, FreeInv,
         NEW r \in Runs, Step(r) \/ Interrupt(r) \/ Crash(r)
  PROVE  FreeInv'
<1>0. pc \in [Runs -> Phases] /\ \A q \in Runs : q = r
  BY DEF OutcomeInv, IInv, TypeOK
<1>1. CASE Preflight(r) \/ CheckOverwrite(r)
  BY <1>0, <1>1 DEF Preflight, CheckOverwrite, FreeInv, store
<1>2. CASE WriteManifest(r)
  <2>1. pc'[r] \in {"ok", "err"}
    BY <1>0, <1>2 DEF WriteManifest
  <2> QED BY <1>0, <2>1 DEF FreeInv
<1>3. CASE Crash(r)
  BY <1>0, <1>3 DEF Crash, FreeInv
<1>4. CASE \/ Plan(r) \/ Dispatch(r) \/ Acquire(r) \/ Collect(r) \/ Interrupt(r)
           \/ \E i \in Slots : UploadTar(r, i) \/ UploadTOC(r, i)
  <2>1. /\ pc[r] \in {"start", "check", "ok", "err", "crashed"} => pc'[r] = pc[r]
        /\ UNCHANGED <<inv, manifest>>
    BY <1>4 DEF Plan, Dispatch, Acquire, Collect, Interrupt, UploadTar, UploadTOC, store
  <2> QED BY <1>0, <2>1 DEF FreeInv
<1> QED BY <1>1, <1>2, <1>3, <1>4 DEF Step

(* What is published, and alone, is replaced only on --overwrite.          *)
LEMMA LoudStep ==
  ASSUME OutcomeInv, FreeInv, manifest # None,
         NEW r \in Runs, Step(r) \/ Interrupt(r) \/ Crash(r)
  PROVE  /\ manifest' # manifest => inv[r].overwrite /\ manifest'.run = r
         /\ \A k \in PartKinds :
              /\ tar'[k] # tar[k] => inv[r].overwrite /\ tar'[k] = r
              /\ toc'[k] # toc[k] => inv[r].overwrite /\ toc'[k] = r
<1>1. Effects(r)
  BY EffectsLemma DEF OutcomeInv
<1>2. manifest' # manifest => inv[r].overwrite /\ manifest'.run = r
  <2>1. Published(r, Planned(r)).run = r
    BY DEF Published
  <2> QED BY <1>1, <2>1, UploadAssumption
          DEF Effects, FreeInv, OutcomeInv, IInv, TypeOK, InvocationType
<1>3. (\E k \in PartKinds : tar'[k] # tar[k] \/ toc'[k] # toc[k]) => inv[r].overwrite
  <2> SUFFICES ASSUME NEW k \in PartKinds, tar'[k] # tar[k] \/ toc'[k] # toc[k]
               PROVE  inv[r].overwrite
    OBVIOUS
  <2>1. \E i \in Slots : UploadTar(r, i) \/ UploadTOC(r, i)
    BY DEF Step, Preflight, CheckOverwrite, Plan, Dispatch, Acquire, Collect,
           WriteManifest, Interrupt, Crash, store
  <2>2. InFlight(r) # {} /\ pc[r] # "crashed"
    BY <2>1 DEF UploadTar, UploadTOC, InFlight
  <2>3. pc[r] \notin {"start", "check", "plan", "manifest", "ok", "err"}
    <3>1. Launched(r)
      BY <1>1 DEF Effects
    <3>2. ~(1 > 1)
      OBVIOUS
    <3> QED BY <2>2, <3>1, <3>2 DEF OutcomeInv, QuietInv, Launched
  <2> QED BY <2>2, <2>3 DEF FreeInv
<1> QED BY <1>1, <1>2, <1>3 DEF Effects

(* With one run, what is published is replaced only on --overwrite.  (Two  *)
(* runs without it may both find the name free: the second then replaces   *)
(* what the first published.)                                              *)
THEOREM ReplaceTheorem ==
  ASSUME \A q, r \in Runs : q = r PROVE Spec => NoSilentReplace
<1> DEFINE Inv == OutcomeInv /\ FreeInv
           Loud == [manifest # None =>
                      /\ manifest' # manifest => inv[manifest'.run].overwrite
                      /\ \A i \in DOMAIN manifest.parts :
                           LET k == manifest.parts[i].name IN
                             /\ tar'[k] # tar[k] => inv[tar'[k]].overwrite
                             /\ toc'[k] # toc[k] => inv[toc'[k]].overwrite]_vars
<1>1. Init => Inv
  <2>1. Init => FreeInv
    BY DEF Init, FreeInv
  <2> QED BY <2>1, OutcomeInit
<1>2. Inv /\ [Next]_vars => FreeInv'
  <2>1. UNCHANGED vars /\ FreeInv => FreeInv'
    BY DEF FreeInv, vars, runVars, store
  <2> QED BY <2>1, FreeStep DEF Next
<1>3. Inv /\ [Next]_vars => Loud
  <2> SUFFICES ASSUME OutcomeInv, FreeInv, manifest # None, NEW r \in Runs,
                      Step(r) \/ Interrupt(r) \/ Crash(r)
               PROVE  /\ manifest' # manifest => inv[manifest'.run].overwrite
                      /\ \A i \in DOMAIN manifest.parts :
                           LET k == manifest.parts[i].name IN
                             /\ tar'[k] # tar[k] => inv[tar'[k]].overwrite
                             /\ toc'[k] # toc[k] => inv[toc'[k]].overwrite
    BY DEF Next
  <2>1. \A i \in DOMAIN manifest.parts : manifest.parts[i].name \in PartKinds
    BY ListedLemma DEF OutcomeInv, IInv
  <2> QED BY <2>1, LoudStep
<1>4. Inv /\ [Next]_vars => Inv'
  BY <1>2, OutcomeStep
<1>5. Spec => [][Loud]_vars
  BY <1>1, <1>3, <1>4, PTL DEF Spec
<1> QED BY <1>5, PTL DEF NoSilentReplace

-----------------------------------------------------------------------------

(* What a reader of the backend may rely on, whoever uploads.  A manifest  *)
(* is the whole of one upload, its objects are there, and that upload's    *)
(* workers are through.                                                    *)
WholeManifest(x) ==
  \E w \in Writers, s, t \in BOOLEAN :
    /\ x = Published(w, PlanParts(s, t))
    /\ w \in Runs => PlanParts(s, t) = Planned(w)

DoneWith(w) ==
  w \in Runs => \A i \in 1..Len(Planned(w)) : worker[w][i] = "done"

(* The objects that manifest x lists exist.                                *)
Present(x) ==
  \A i \in DOMAIN x.parts : tar[x.parts[i].name] # None /\ toc[x.parts[i].name] # None

StoreInv ==
  manifest # None => WholeManifest(manifest) /\ DoneWith(manifest.run) /\ Present(manifest)

LEMMA StoreInit == Init => StoreInv
<1> SUFFICES ASSUME Init, manifest # None
             PROVE  WholeManifest(manifest) /\ DoneWith(manifest.run) /\ Present(manifest)
  BY DEF StoreInv
<1>1. PICK s \in BOOLEAN, t \in BOOLEAN :
        /\ tar = Objects(Prev, PlanParts(s, t)) /\ toc = Objects(Prev, PlanParts(s, t))
        /\ manifest = Published(Prev, PlanParts(s, t))
  BY DEF Init, InitStore
<1>2. manifest.run = Prev
  BY <1>1 DEF Published
<1> DEFINE ks == PlanParts(s, t)
<1>3. ks \in Seq(PartKinds) /\ DOMAIN ks = 1..Len(ks)
  BY PlanLemma
<1> HIDE DEF ks
<1>4. ASSUME NEW i \in DOMAIN manifest.parts
      PROVE  tar[manifest.parts[i].name] = Prev /\ toc[manifest.parts[i].name] = Prev
  <2>1. i \in DOMAIN ks /\ manifest.parts[i].name = ks[i] /\ ks[i] \in PartKinds
    BY <1>1, <1>3, <1>4 DEF Published, Part, ks
  <2> QED BY <1>1, <2>1 DEF Objects, ks
<1> QED BY <1>1, <1>2, <1>4, UploadAssumption DEF WholeManifest, DoneWith, Present, Writers

(* An upload that is through writes no more objects.                       *)
LEMMA DoneStep ==
  ASSUME IInv, NEW r \in Runs, Step(r) \/ Interrupt(r) \/ Crash(r),
         NEW w \in Writers, DoneWith(w)
  PROVE  /\ DoneWith(w)'
         /\ \A k \in PartKinds : (tar'[k] = w => tar[k] = w) /\ (toc'[k] = w => toc[k] = w)
<1>0. worker \in [Runs -> [Slots -> Stages]] /\ UNCHANGED inv
  <2>1. Effects(r)
    BY EffectsLemma
  <2> QED BY <2>1 DEF Effects, IInv, TypeOK
<1>1. \A q \in Runs, i \in Slots : worker[q][i] = "done" => worker'[q][i] = "done"
  <2>1. CASE \/ Preflight(r) \/ CheckOverwrite(r) \/ Plan(r) \/ Dispatch(r) \/ Collect(r)
             \/ WriteManifest(r) \/ Interrupt(r) \/ Crash(r)
    BY <2>1 DEF Preflight, CheckOverwrite, Plan, Dispatch, Collect, WriteManifest,
                Interrupt, Crash
  <2>2. CASE Acquire(r)
    <3>1. \E x \in {"failed", "tar"} : worker' = [worker EXCEPT ![r][next[r]] = x]
      BY <2>2 DEF Acquire
    <3>2. next[r] \in Slots => worker[r][next[r]] # "done"
      <4>1. ~(next[r] < next[r])
        BY DEF IInv, TypeOK
      <4> QED BY <4>1 DEF IInv, WorkersInv
    <3> QED BY <1>0, <3>1, <3>2
  <2>3. ASSUME NEW i \in Slots, UploadTar(r, i) \/ UploadTOC(r, i)
        PROVE  \A q \in Runs, j \in Slots : worker[q][j] = "done" => worker'[q][j] = "done"
    <3>1. worker[r][i] # "done" /\ \E x \in Stages : worker' = [worker EXCEPT ![r][i] = x]
      BY <2>3 DEF UploadTar, UploadTOC, Stages
    <3> QED BY <1>0, <3>1
  <2> QED BY <2>1, <2>2, <2>3 DEF Step
<1>2. w \in Runs => \A i \in 1..Len(Planned(w)) : i \in Slots
  BY PlannedLemma DEF IInv
<1>3. DoneWith(w)'
  <2>1. w \in Runs => Planned(w)' = Planned(w)
    BY <1>0 DEF Planned
  <2> QED BY <1>1, <1>2, <2>1 DEF DoneWith
<1>4. CASE w # r
  <2>1. Effects(r)
    BY EffectsLemma
  <2> QED BY <1>3, <1>4, <2>1 DEF Effects
<1>5. CASE w = r
  <2>1. ~(\E i \in Slots : UploadTar(r, i) \/ UploadTOC(r, i))
    BY <1>5 DEF UploadTar, UploadTOC, DoneWith, IInv, WorkersInv
  <2>2. UNCHANGED <<tar, toc>>
    BY <2>1 DEF Step, Preflight, CheckOverwrite, Plan, Dispatch, Acquire, Collect,
                WriteManifest, Interrupt, Crash, store
  <2> QED BY <1>3, <2>2
<1> QED BY <1>4, <1>5

(* Objects are replaced, never removed.                                    *)
LEMMA PresentStep ==
  ASSUME IInv, NEW r \in Runs, Step(r) \/ Interrupt(r) \/ Crash(r)
  PROVE  \A k \in PartKinds : (tar[k] # None => tar'[k] # None) /\ (toc[k] # None => toc'[k] # None)
<1>1. Effects(r)
  BY EffectsLemma
<1> QED BY <1>1, UploadAssumption DEF Effects

LEMMA StoreStep ==
  ASSUME IInv, StoreInv, NEW r \in Runs, Step(r) \/ Interrupt(r) \/ Crash(r)
  PROVE  StoreInv'
<1>1. Effects(r)
  BY EffectsLemma
<1>2. CASE manifest' = manifest
  <2> SUFFICES ASSUME manifest # None
               PROVE  WholeManifest(manifest)' /\ DoneWith(manifest.run)' /\ Present(manifest)'
    BY <1>2 DEF StoreInv
  <2>1. /\ WholeManifest(manifest) /\ DoneWith(manifest.run) /\ Present(manifest)
        /\ manifest.run \in Writers
        /\ \A i \in DOMAIN manifest.parts : manifest.parts[i].name \in PartKinds
    BY ListedLemma DEF StoreInv, IInv
  <2>2. WholeManifest(manifest)'
    <3>1. PICK w \in Writers, s \in BOOLEAN, t \in BOOLEAN :
             /\ manifest = Published(w, PlanParts(s, t))
             /\ w \in Runs => PlanParts(s, t) = Planned(w)
      BY <2>1 DEF WholeManifest
    <3>2. w \in Runs => PlanParts(s, t) = Planned(w)'
      BY <1>1, <3>1 DEF Effects, Planned
    <3> QED BY <1>2, <3>1, <3>2 DEF WholeManifest
  <2>3. DoneWith(manifest.run)'
    <3>1. PICK w \in Writers : w = manifest.run
      BY <2>1
    <3>2. DoneWith(w)'
      BY <2>1, <3>1, DoneStep
    <3>3. manifest'.run = w
      BY <1>2, <3>1
    <3> QED BY <3>2, <3>3 DEF DoneWith
  <2>4. Present(manifest)'
    BY <1>2, <2>1, PresentStep DEF Present
  <2> QED BY <2>2, <2>3, <2>4
<1>3. CASE manifest' # manifest
  <2>1. /\ pc[r] = "manifest" /\ manifest' = Published(r, Planned(r))
        /\ UNCHANGED <<inv, next, worker, tar, toc>>
    BY <1>1, <1>3 DEF Effects
  <2>2. /\ \A i \in DOMAIN manifest'.parts : \E j \in 1..Len(Planned(r)) :
             manifest'.parts[i].name = Planned(r)[j]
        /\ manifest'.run = r
    <3>1. DOMAIN Planned(r) = 1..Len(Planned(r))
      BY PlannedLemma DEF IInv
    <3> QED BY <2>1, <3>1 DEF Published, Part
  <2>3. \A i \in 1..Len(Planned(r)) : i \in Slots /\ worker[r][i] = "done"
    BY <2>1, PlannedLemma DEF IInv, PhaseInv
  <2>4. \A i \in 1..Len(Planned(r)) : tar[Planned(r)[i]] # None /\ toc[Planned(r)[i]] # None
    BY <2>3 DEF IInv, WorkersInv
  <2>5. Planned(r)' = Planned(r)
    BY <2>1 DEF Planned
  <2>6. WholeManifest(manifest)'
    <3>1. inv[r].state \in BOOLEAN /\ inv[r].triedb \in BOOLEAN
      BY UploadAssumption DEF IInv, TypeOK, InvocationType
    <3> QED BY <2>1, <2>5, <3>1 DEF WholeManifest, Planned, Writers
  <2>7. DoneWith(manifest.run)'
    BY <2>1, <2>2, <2>3, <2>5 DEF DoneWith
  <2>8. Present(manifest)'
    BY <2>1, <2>2, <2>4 DEF Present
  <2> QED BY <2>6, <2>7, <2>8 DEF StoreInv
<1> QED BY <1>2, <1>3

(* All that the readers of a backend need to know of the uploads.          *)
UploadInv == BytesInv /\ OutcomeInv /\ StoreInv

LEMMA UploadInvInit == Init => UploadInv
  BY InitBytes, OutcomeInit, StoreInit DEF UploadInv

LEMMA UploadInvStep == UploadInv /\ [Next]_vars => UploadInv'
<1> SUFFICES ASSUME UploadInv, [Next]_vars PROVE StoreInv'
  BY BytesStep, OutcomeStep DEF UploadInv
<1>1. ASSUME NEW r \in Runs, Step(r) \/ Interrupt(r) \/ Crash(r) PROVE StoreInv'
  BY <1>1, StoreStep DEF UploadInv, BytesInv
<1>2. CASE UNCHANGED vars
  BY <1>2 DEF UploadInv, StoreInv, WholeManifest, DoneWith, Present, Planned, vars, runVars,
              store
<1> QED BY <1>1, <1>2 DEF Next

(* A manifest stays whole while nobody is asked for something else.        *)
LEMMA StaysWhole ==
  ASSUME NEW x, WholeManifest(x), UNCHANGED inv PROVE WholeManifest(x)'
BY DEF WholeManifest, Planned

(* One run that was not asked to overwrite never shows a snapshot that is  *)
(* not whole, and never takes back what it shows.                          *)
Careful == \A r \in Runs : ~inv[r].overwrite

CalmInv == Careful /\ manifest # None => Intact

LEMMA CalmInit == Init => CalmInv
<1>1. Init => \A w : NoRival(w)
  <2>1. ~(1 > 1)
    OBVIOUS
  <2> QED BY <2>1 DEF Init, NoRival, Launched
<1> QED BY <1>1, InitBytes DEF CalmInv, BytesInv, IntactUnlessRival

LEMMA CalmStep ==
  ASSUME \A q, r \in Runs : q = r, UploadInv, FreeInv, CalmInv,
         NEW r \in Runs, Step(r) \/ Interrupt(r) \/ Crash(r)
  PROVE  /\ CalmInv'
         /\ Careful /\ manifest # None => manifest' = manifest
         /\ Careful' <=> Careful
<1>1. Effects(r)
  BY EffectsLemma DEF UploadInv, OutcomeInv
<1>2. Careful' <=> Careful
  BY <1>1 DEF Effects, Careful
<1>3. ASSUME Careful, manifest # None
      PROVE  manifest' = manifest /\ Intact'
  <2>1. /\ manifest' = manifest
        /\ \A k \in PartKinds : tar'[k] = tar[k] /\ toc'[k] = toc[k]
    BY <1>3, LoudStep DEF Careful, UploadInv
  <2>2. \A i \in DOMAIN manifest.parts : manifest.parts[i].name \in PartKinds
    BY <1>3, ListedLemma DEF UploadInv, OutcomeInv, IInv
  <2> QED BY <1>3, <2>1, <2>2 DEF CalmInv, Intact
<1>4. ASSUME Careful, manifest = None, manifest' # None
      PROVE  Intact'
  <2>1. manifest' = Published(r, Planned(r))
    BY <1>1, <1>4 DEF Effects
  <2>2. manifest'.run = r
    BY <2>1 DEF Published
  <2>3. UploadInv'
    BY UploadInvStep DEF Next
  <2>4. NoRival(manifest.run)'
    BY <2>2 DEF NoRival
  <2> QED BY <1>4, <2>3, <2>4 DEF UploadInv, BytesInv, IntactUnlessRival
<1> QED BY <1>2, <1>3, <1>4 DEF CalmInv

-----------------------------------------------------------------------------
(* Progress: what Terminates rests on besides fairness.                    *)

(* The steps a worker, and Run itself, may still take; Run gives up one of *)
(* two of a worker's when it starts it, and so pays for its own way back.  *)
StagesAhead == [idle |-> 3, tar |-> 2, toc |-> 1, done |-> 0, failed |-> 0]
PhasesAhead == [start |-> 7, check |-> 6, plan |-> 5, dispatch |-> 4, acquire |-> 3,
                wait |-> 2, manifest |-> 1, ok |-> 0, err |-> 0, crashed |-> 0]

Work(r) ==
  PhasesAhead[pc[r]]
    + 2 * (  StagesAhead[worker[r][1]] + StagesAhead[worker[r][2]]
           + StagesAhead[worker[r][3]] + StagesAhead[worker[r][4]])

(* The guards of Step(r): where nothing is waited for, a token, wg.Wait,   *)
(* and the requests of the workers.                                        *)
CanStep(r) ==
  \/ pc[r] \in {"start", "check", "plan", "dispatch", "manifest"}
  \/ pc[r] = "acquire" /\ Cardinality(InFlight(r)) < Limit(r)
  \/ pc[r] = "wait" /\ InFlight(r) = {}
  \/ pc[r] # "crashed" /\ InFlight(r) # {}

CanGoOn == \A r \in Runs : Ended(r) \/ CanStep(r)
AtMost31 == \A r \in Runs : Work(r) \in 0..31
LessToDo == \A r \in Runs : /\ Work(r)' <= Work(r)
                            /\ Step(r) => Work(r)' < Work(r)

LEMMA StagesType ==
  /\ \A x \in Stages : StagesAhead[x] \in 0..3
  /\ \A x \in Phases : PhasesAhead[x] \in 0..7
<1>1. \A x \in Stages : StagesAhead[x] \in 0..3
  BY DEF Stages, StagesAhead
<1>2. \A x \in Phases : PhasesAhead[x] \in 0..7
  BY DEF Phases, PhasesAhead
<1> QED BY <1>1, <1>2

LEMMA WorkType == TypeOK => AtMost31
<1> SUFFICES ASSUME TypeOK, NEW r \in Runs PROVE Work(r) \in 0..31
  BY DEF AtMost31
<1>1. /\ StagesAhead[worker[r][1]] \in 0..3 /\ StagesAhead[worker[r][2]] \in 0..3
      /\ StagesAhead[worker[r][3]] \in 0..3 /\ StagesAhead[worker[r][4]] \in 0..3
      /\ PhasesAhead[pc[r]] \in 0..7
  BY StagesType DEF TypeOK, Slots
<1> QED BY <1>1 DEF Work

(* A worker takes a step, and Run goes from one phase to the next.          *)
LEMMA WorkerWorks ==
  ASSUME TypeOK, NEW r \in Runs, NEW i \in Slots, NEW x \in Stages, NEW p \in Phases,
         worker' = [worker EXCEPT ![r][i] = x], pc' = [pc EXCEPT ![r] = p],
         StagesAhead[x] < StagesAhead[worker[r][i]],
         PhasesAhead[p] <= PhasesAhead[pc[r]] + 1
  PROVE  Work(r)' < Work(r)
<1>1. /\ worker'[r][i] = x /\ \A j \in Slots \ {i} : worker'[r][j] = worker[r][j]
      /\ pc'[r] = p
  BY DEF TypeOK
<1>2. /\ \A j \in Slots : StagesAhead[worker[r][j]] \in 0..3
      /\ StagesAhead[x] \in 0..3
      /\ PhasesAhead[pc[r]] \in 0..7 /\ PhasesAhead[p] \in 0..7
  BY StagesType DEF TypeOK
<1>3. Slots = {1, 2, 3, 4}
  BY DEF Slots
<1>4. CASE i = 1
  BY <1>1, <1>2, <1>3, <1>4 DEF Work
<1>5. CASE i = 2
  BY <1>1, <1>2, <1>3, <1>5 DEF Work
<1>6. CASE i = 3
  BY <1>1, <1>2, <1>3, <1>6 DEF Work
<1>7. CASE i = 4
  BY <1>1, <1>2, <1>3, <1>7 DEF Work
<1> QED BY <1>3, <1>4, <1>5, <1>6, <1>7

(* Run itself takes a step.                                                *)
LEMMA RunWorks ==
  ASSUME TypeOK, NEW r \in Runs, NEW p \in Phases,
         UNCHANGED worker, pc' = [pc EXCEPT ![r] = p],
         PhasesAhead[p] < PhasesAhead[pc[r]]
  PROVE  Work(r)' < Work(r)
<1>1. pc'[r] = p /\ worker'[r] = worker[r]
  BY DEF TypeOK
<1>2. /\ StagesAhead[worker[r][1]] \in 0..3 /\ StagesAhead[worker[r][2]] \in 0..3
      /\ StagesAhead[worker[r][3]] \in 0..3 /\ StagesAhead[worker[r][4]] \in 0..3
      /\ PhasesAhead[pc[r]] \in 0..7 /\ PhasesAhead[p] \in 0..7
  BY StagesType DEF TypeOK, Slots
<1> QED BY <1>1, <1>2 DEF Work

LEMMA StepWorks ==
  ASSUME IInv, NEW r \in Runs, Step(r)
  PROVE  Work(r)' < Work(r)
<1>0. TypeOK
  BY DEF IInv
<1>1. CASE \/ Preflight(r) \/ CheckOverwrite(r) \/ Plan(r) \/ Dispatch(r) \/ Collect(r)
           \/ WriteManifest(r)
  <2>1. PICK p \in Phases : /\ pc' = [pc EXCEPT ![r] = p] /\ UNCHANGED worker
                            /\ PhasesAhead[p] < PhasesAhead[pc[r]]
    BY <1>1 DEF Preflight, CheckOverwrite, Plan, Dispatch, Collect, WriteManifest,
                Phases, PhasesAhead
  <2> QED BY <1>0, <2>1, RunWorks
<1>2. CASE Acquire(r)
  <2>1. next[r] \in Slots /\ worker[r][next[r]] = "idle"
    <3> DEFINE n == Len(Planned(r))
    <3>1. n \in 2..4 /\ next[r] \in 1..5 /\ next[r] <= n
      BY <1>0, <1>2, PlannedLemma DEF TypeOK, Acquire, IInv, PhaseInv
    <3> HIDE DEF n
    <3>2. next[r] \in Slots
      BY <3>1 DEF Slots
    <3> QED BY <3>1, <3>2 DEF IInv, WorkersInv
  <2>2. PICK x \in {"failed", "tar"} : worker' = [worker EXCEPT ![r][next[r]] = x]
    BY <1>2 DEF Acquire
  <2>3. pc[r] = "acquire" /\ pc' = [pc EXCEPT ![r] = "dispatch"]
    BY <1>2 DEF Acquire
  <2>4. /\ x \in Stages /\ StagesAhead[x] < StagesAhead["idle"]
        /\ "dispatch" \in Phases /\ PhasesAhead["dispatch"] <= PhasesAhead["acquire"] + 1
    BY <2>2 DEF Stages, StagesAhead, Phases, PhasesAhead
  <2> QED BY <1>0, <2>1, <2>2, <2>3, <2>4, WorkerWorks
<1>3. ASSUME NEW i \in Slots, UploadTar(r, i) \/ UploadTOC(r, i)
      PROVE  Work(r)' < Work(r)
  <2>1. PICK x \in Stages : /\ worker' = [worker EXCEPT ![r][i] = x]
                            /\ StagesAhead[x] < StagesAhead[worker[r][i]]
    BY <1>3 DEF UploadTar, UploadTOC, Stages, StagesAhead
  <2>2. pc' = [pc EXCEPT ![r] = pc[r]] /\ pc[r] \in Phases
    BY <1>0, <1>3 DEF UploadTar, UploadTOC, TypeOK
  <2>3. PhasesAhead[pc[r]] <= PhasesAhead[pc[r]] + 1
    BY <2>2, StagesType
  <2> QED BY <1>0, <2>1, <2>2, <2>3, WorkerWorks
<1> QED BY <1>1, <1>2, <1>3 DEF Step

(* A signal, a crash, and the steps of other runs give a run no work.      *)
LEMMA OthersWork ==
  ASSUME IInv, NEW r \in Runs, NEW q \in Runs, Step(q) \/ Interrupt(q) \/ Crash(q),
         q # r \/ ~Step(q)
  PROVE  Work(r)' <= Work(r)
<1>0. TypeOK /\ TypeOK'
  <2>1. IInv'
    BY NextIInv DEF Next
  <2> QED BY <2>1 DEF IInv
<1>1. Work(r) \in 0..31 /\ Work(r)' \in 0..31
  <2>1. Work(r) \in 0..31
    BY <1>0, WorkType DEF AtMost31
  <2>2. TypeOK' => AtMost31'
    BY WorkType, PTL
  <2> QED BY <1>0, <2>1, <2>2 DEF AtMost31
<1>2. CASE q # r
  <2>1. pc'[r] = pc[r] /\ worker'[r] = worker[r]
    BY <1>0, <1>2 DEF Step, Preflight, CheckOverwrite, Plan, Dispatch, Acquire, UploadTar,
                      UploadTOC, Collect, WriteManifest, Interrupt, Crash, TypeOK
  <2> QED BY <1>1, <2>1 DEF Work
<1>3. CASE q = r /\ Interrupt(r)
  <2>1. pc' = pc /\ worker' = worker
    BY <1>3 DEF Interrupt
  <2> QED BY <1>1, <2>1 DEF Work
<1>4. CASE q = r /\ Crash(r)
  <2>1. pc'[r] = "crashed" /\ worker' = worker /\ ~Ended(r)
    BY <1>0, <1>4 DEF Crash, TypeOK
  <2>2. PhasesAhead["crashed"] = 0 /\ PhasesAhead[pc[r]] \in 0..7
    BY <1>0, StagesType DEF PhasesAhead, TypeOK
  <2>3. /\ StagesAhead[worker[r][1]] \in 0..3 /\ StagesAhead[worker[r][2]] \in 0..3
        /\ StagesAhead[worker[r][3]] \in 0..3 /\ StagesAhead[worker[r][4]] \in 0..3
    BY <1>0, StagesType DEF TypeOK, Slots
  <2> QED BY <2>1, <2>2, <2>3 DEF Work
<1> QED BY <1>2, <1>3, <1>4

(* Nobody waits in vain: the pool has room for a worker at least, and      *)
(* whoever holds a token or is waited for can go on.                       *)
LEMMA NeverBlocked ==
  ASSUME TypeOK, NEW r \in Runs
  PROVE  Ended(r) \/ CanStep(r)
<1> SUFFICES ASSUME ~Ended(r), InFlight(r) = {}, pc[r] = "acquire"
             PROVE  Cardinality(InFlight(r)) < Limit(r)
  BY DEF TypeOK, Phases, Ended, CanStep
<1>1. Cardinality(InFlight(r)) = 0
  BY FS_EmptySet
<1> DEFINE n == Len(Planned(r))
<1>2. n \in 2..4
  BY PlannedLemma
<1>3. Limit(r) = IF ParallelParts < 1 THEN 1 ELSE IF ParallelParts > n THEN n ELSE ParallelParts
  BY DEF Limit
<1> HIDE DEF n
<1> QED BY <1>1, <1>2, <1>3, UploadAssumption

(* No run is ever blocked, whatever fails, is cancelled or blocks the      *)
(* worker pool, and each of its steps leaves less to be done, of at most   *)
(* 31 steps: given that a run which can step does, it ends (uploadParts'   *)
(* semaphore, loop and wg.Wait).                                           *)
THEOREM ProgressTheorem ==
  Spec => /\ [](CanGoOn /\ AtMost31)
          /\ [][LessToDo]_vars
<1>1. IInv => CanGoOn /\ AtMost31
  BY WorkType, NeverBlocked DEF IInv, CanGoOn
<1>2. IInv' => AtMost31'
  BY <1>1, PTL
<1>3. IInv /\ [Next]_vars => [LessToDo]_vars
  <2> SUFFICES ASSUME IInv, Next, NEW r \in Runs
               PROVE  Work(r)' <= Work(r) /\ (Step(r) => Work(r)' < Work(r))
    BY DEF LessToDo
  <2>1. CASE Step(r)
    <3>1. Work(r)' < Work(r)
      BY <2>1, StepWorks
    <3>2. Work(r) \in 0..31 /\ Work(r)' \in 0..31
      BY <1>1, <1>2, NextIInv DEF AtMost31
    <3> QED BY <3>1, <3>2
  <2>2. CASE ~Step(r)
    <3>1. PICK q \in Runs : Step(q) \/ Interrupt(q) \/ Crash(q)
      BY DEF Next
    <3> QED BY <2>2, <3>1, OthersWork
  <2> QED BY <2>1, <2>2
<1>4. Spec => []IInv
  BY InitIInv, NextIInv, PTL DEF Spec
<1> QED BY <1>1, <1>3, <1>4, PTL DEF Spec

=============================================================================
