--------------------------- MODULE DownloadProofs ---------------------------
(***************************************************************************)
(* What Download guarantees for any number of concurrent downloads, any    *)
(* --parallel-parts, both kinds of backend, a disk that fails, and         *)
(* whatever became of the snapshot's objects.                              *)
(***************************************************************************)
EXTENDS Download, SnapshotProofs, FiniteSetTheorems

(* A manifest that fetchManifest accepts.                                  *)
GoodManifest ==
  {x \in ManifestType :
     /\ Len(x.parts) \in Slots
     /\ \A i, j \in 1..Len(x.parts) : x.parts[i].name = x.parts[j].name => i = j}

TypeInv ==
  /\ pc \in [Downs -> Phases]
  /\ ctx \in [Downs -> BOOLEAN]
  /\ firstErr \in [Downs -> BOOLEAN]
  /\ next \in [Downs -> Nat]
  /\ worker \in [Downs -> [Slots -> Stages]]
  /\ m \in [Downs -> GoodManifest \cup {None}]
  /\ scratch \in [Downs -> Tree \cup {NoDir}]
  /\ tar \in [PartKinds -> Writers \cup {None}]
  /\ manifest \in GoodManifest \cup {None}

Running(d) == pc[d] \in {"dispatch", "acquire", "wait"}
Active(d)  == Running(d) \/ Committing(d)

N(d) == Len(m[d].parts)

(* How far the workers of run d have come.                                 *)
WorkersInv(d) ==
  /\ \A i \in Slots : worker[d][i] \in {"get", "verify"} => Running(d) \/ pc[d] = "crashed"
  /\ Active(d) =>
       /\ m[d] \in GoodManifest
       /\ \A i \in Slots : worker[d][i] # "idle" <=> i < next[d]
       /\ \A i \in Slots : worker[d][i] # "idle" => i \in 1..N(d)

(* What the scratch directory holds is the work of these workers: one that *)
(* is done has left the bytes that the manifest lists.                     *)
BytesInv(d) ==
  Active(d) =>
    /\ scratch[d] \in Tree
    /\ \A k \in PartKinds :
         scratch[d][k] = None \/ \E i \in 1..N(d) :
           m[d].parts[i].name = k /\ worker[d][i] \in {"verify", "done", "failed"}
    /\ \A i \in 1..N(d) :
         worker[d][i] = "done" => scratch[d][m[d].parts[i].name] = m[d].parts[i].sha256

(* Where Run stands says what its workers have done.                       *)
PhaseInv(d) ==
  /\ pc[d] \in {"start", "fetch"} => next[d] = 1 /\ \A i \in Slots : worker[d][i] = "idle"
  /\ pc[d] = "fetch" => scratch[d] = EmptyTree
  /\ next[d] # 0
  /\ pc[d] = "acquire" => next[d] <= N(d)
  /\ pc[d] \in {"start", "ok"} => scratch[d] = NoDir
  /\ pc[d] = "err" /\ ~DiskFaults => scratch[d] = NoDir

(* An error is never forgotten, and only errors and signals end the loop   *)
(* early.                                                                  *)
ErrorInv(d) ==
  /\ Active(d) /\ ~firstErr[d] => \A i \in Slots : worker[d][i] # "failed"
  /\ Committing(d) => ~firstErr[d]
  /\ pc[d] = "wait" \/ Committing(d) => ctx[d] \/ firstErr[d] \/ next[d] > N(d)

RunInv(d) == WorkersInv(d) /\ BytesInv(d) /\ PhaseInv(d) /\ ErrorInv(d)

IInv == TypeInv /\ \A d \in Downs : RunInv(d)

-----------------------------------------------------------------------------

LEMMA SlotsLemma ==
  ASSUME NEW n \in Slots
  PROVE  /\ n \in Nat /\ 1..n \subseteq Slots
         /\ \A i \in Nat : i > n => \A j \in 1..n : j < i
         /\ \A i \in Nat : i # 0 /\ i <= n => i \in 1..n /\ i \in Slots
BY DEF Slots

LEMMA OrderLemma ==
  ASSUME NEW a \in Nat, NEW b \in Nat PROVE a > b \/ a <= b
OBVIOUS

(* What an upload publishes is accepted.                                   *)
LEMMA PublishedGood ==
  ASSUME NEW w \in Writers, NEW s \in BOOLEAN, NEW t \in BOOLEAN
  PROVE  /\ Published(w, PlanParts(s, t)) \in GoodManifest
         /\ Len(Published(w, PlanParts(s, t)).parts) = Len(PlanParts(s, t))
         /\ \A i \in 1..Len(PlanParts(s, t)) :
              Published(w, PlanParts(s, t)).parts[i] = Part(PlanParts(s, t)[i], w, w)
<1> DEFINE ks == PlanParts(s, t)
           ps == [i \in DOMAIN ks |-> Part(ks[i], w, w)]
           x  == Published(w, ks)
<1>1. /\ ks \in Seq(PartKinds) /\ Len(ks) \in 2..4
      /\ \A i, j \in 1..Len(ks) : ks[i] = ks[j] => i = j
  BY PlanLemma
<1> HIDE DEF ks
<1>2. /\ DOMAIN ks = 1..Len(ks) /\ Len(ks) \in Nat
      /\ \A i \in 1..Len(ks) : ks[i] \in PartKinds
  BY <1>1
<1>3. ps \in [1..Len(ks) -> ListedPart]
  BY <1>2 DEF Part, ListedPart
<1>4. /\ ps \in Seq(ListedPart) /\ Len(ps) = Len(ks)
      /\ \A i \in 1..Len(ks) : ps[i] = Part(ks[i], w, w) /\ ps[i].name = ks[i]
  BY <1>2, <1>3, SeqDef, LenProperties DEF Part
<1>5. x = [run |-> w, parts |-> ps]
  BY DEF Published
<1> HIDE DEF ps, x
<1>6. x \in ManifestType /\ x.parts = ps
  BY <1>4, <1>5 DEF ManifestType
<1>7. Len(ps) \in Slots
  BY <1>1, <1>4 DEF Slots
<1>8. x \in GoodManifest
  BY <1>1, <1>4, <1>6, <1>7 DEF GoodManifest
<1> QED BY <1>4, <1>6, <1>8 DEF x, ks

LEMMA StoreLemma == InitStore => /\ tar \in [PartKinds -> Writers \cup {None}]
                                 /\ manifest \in GoodManifest \cup {None}
<1> SUFFICES ASSUME InitStore
             PROVE  /\ tar \in [PartKinds -> Writers \cup {None}]
                    /\ manifest \in GoodManifest \cup {None}
  OBVIOUS
<1>1. CASE manifest = None /\ tar = EmptyTree
  BY <1>1 DEF EmptyTree
<1>2. ASSUME NEW w \in Writers, NEW s \in Shapes,
             manifest = Published(w, PlanParts(s[1], s[2])),
             NEW now \in [PartKinds -> Writers \cup {None}],
             tar = [k \in PartKinds |->
                      IF Objects(w, PlanParts(s[1], s[2]))[k] = None
                      THEN None ELSE now[k]]
      PROVE  /\ tar \in [PartKinds -> Writers \cup {None}]
             /\ manifest \in GoodManifest
  <2>1. s[1] \in BOOLEAN /\ s[2] \in BOOLEAN
    BY DownloadAssumption
  <2> QED BY <1>2, <2>1, PublishedGood
<1> QED BY <1>1, <1>2 DEF InitStore

LEMMA RunsInit ==
  ASSUME InitRuns, tar \in [PartKinds -> Writers \cup {None}],
         manifest \in GoodManifest \cup {None}
  PROVE  IInv
<1>1. TypeInv
  BY DEF InitRuns, TypeInv, Phases, Stages
<1>2. ASSUME NEW d \in Downs PROVE RunInv(d)
  BY DEF InitRuns, RunInv, WorkersInv, BytesInv, PhaseInv, ErrorInv, Running, Active,
         Committing, Slots
<1> QED BY <1>1, <1>2 DEF IInv

LEMMA InitInv == Init => IInv
  BY StoreLemma, RunsInit DEF Init

(* TreeOf finds each part's digest under its name.                         *)
LEMMA TreeLemma ==
  ASSUME NEW x \in GoodManifest
  PROVE  /\ \A i \in 1..Len(x.parts) :
              x.parts[i].name \in PartKinds /\ TreeOf(x)[x.parts[i].name] = x.parts[i].sha256
         /\ \A k \in PartKinds :
              (\A i \in 1..Len(x.parts) : x.parts[i].name # k) => TreeOf(x)[k] = None
         /\ DOMAIN TreeOf(x) = PartKinds /\ TreeOf(x) = [k \in PartKinds |-> TreeOf(x)[k]]
<1>1. /\ x.parts \in Seq(ListedPart) /\ DOMAIN x.parts = 1..Len(x.parts)
      /\ \A i, j \in 1..Len(x.parts) : x.parts[i].name = x.parts[j].name => i = j
      /\ \A i \in 1..Len(x.parts) : x.parts[i].name \in PartKinds
  <2>1. x.parts \in Seq(ListedPart)
    BY DEF GoodManifest, ManifestType
  <2>2. DOMAIN x.parts = 1..Len(x.parts) /\ \A i \in 1..Len(x.parts) : x.parts[i] \in ListedPart
    BY <2>1, LenProperties, ElementOfSeq
  <2> QED BY <2>1, <2>2 DEF GoodManifest, ListedPart
<1>2. ASSUME NEW i \in 1..Len(x.parts)
      PROVE  (CHOOSE j \in DOMAIN x.parts : x.parts[j].name = x.parts[i].name) = i
  BY <1>1
<1>3. ASSUME NEW i \in 1..Len(x.parts)
      PROVE  TreeOf(x)[x.parts[i].name] = x.parts[i].sha256
  BY <1>1, <1>2 DEF TreeOf
<1>4. ASSUME NEW k \in PartKinds, \A i \in 1..Len(x.parts) : x.parts[i].name # k
      PROVE  TreeOf(x)[k] = None
  BY <1>1, <1>4 DEF TreeOf
<1>5. DOMAIN TreeOf(x) = PartKinds /\ TreeOf(x) = [k \in PartKinds |-> TreeOf(x)[k]]
  BY DEF TreeOf
<1> QED BY <1>1, <1>3, <1>4, <1>5

(* One worker, or one subtree, of one run changes.                         *)
LEMMA StageLemma ==
  ASSUME NEW d, NEW i, NEW v \in Stages, NEW w \in [Downs -> [Slots -> Stages]]
  PROVE  [w EXCEPT ![d][i] = v] \in [Downs -> [Slots -> Stages]]
OBVIOUS

LEMMA SubtreeLemma ==
  ASSUME NEW s \in [Downs -> Tree \cup {NoDir}], NEW d \in Downs, s[d] \in Tree,
         NEW k \in PartKinds, NEW v \in Writers \cup {Broken, None}
  PROVE  [s EXCEPT ![d][k] = v] \in [Downs -> Tree \cup {NoDir}]
<1> DEFINE t == [s[d] EXCEPT ![k] = v]
<1>1. t \in Tree
  BY DEF Tree
<1>2. [s EXCEPT ![d][k] = v] = [s EXCEPT ![d] = t]
  OBVIOUS
<1> HIDE DEF t
<1> QED BY <1>1, <1>2

(* A step of one run keeps the types.                                      *)
LEMMA TypeStep ==
  ASSUME IInv, NEW d \in Downs, Step(d) \/ Interrupt(d) \/ Crash(d)
  PROVE  TypeInv'
<1> USE DEF TypeInv, store
<1>0. TypeInv /\ RunInv(d)
  BY DEF IInv
<1>1. CASE PrepareAtomic(d)
  <2>1. EmptyTree \in Tree
    BY DEF EmptyTree, Tree
  <2>2. pc' \in [Downs -> Phases]
    BY <1>0, <1>1 DEF PrepareAtomic, Phases
  <2>3. scratch' \in [Downs -> Tree \cup {NoDir}]
    <3>1. scratch' = scratch \/ scratch' = [scratch EXCEPT ![d] = EmptyTree]
      BY <1>1 DEF PrepareAtomic
    <3> QED BY <1>0, <2>1, <3>1
  <2> QED BY <1>0, <1>1, <2>2, <2>3 DEF PrepareAtomic
<1>2. CASE FetchManifest(d)
  BY <1>0, <1>2 DEF FetchManifest, Phases
<1>3. CASE Dispatch(d)
  BY <1>0, <1>3 DEF Dispatch, Phases
<1>4. CASE Acquire(d)
  <2>a. next' \in [Downs -> Nat] /\ pc' \in [Downs -> Phases]
    BY <1>0, <1>4 DEF Acquire, Phases
  <2>1. \E v \in Stages : worker' = [worker EXCEPT ![d][next[d]] = v]
    <3> DEFINE v == IF CtxAware /\ Cancelled(d) THEN "failed" ELSE "get"
    <3>1. worker' = [worker EXCEPT ![d][next[d]] = v] /\ v \in Stages
      BY <1>4 DEF Acquire, Stages
    <3> QED BY <3>1
  <2>3. worker' \in [Downs -> [Slots -> Stages]]
    BY <1>0, <2>1, StageLemma
  <2>2. firstErr' \in [Downs -> BOOLEAN]
    BY <1>0, <1>4 DEF Acquire
  <2> QED BY <1>0, <1>4, <2>a, <2>2, <2>3 DEF Acquire
<1>5. CASE Collect(d)
  BY <1>0, <1>5 DEF Collect, Phases
<1>6. CASE Abort(d)
  BY <1>0, <1>6 DEF Abort, Phases
<1>7. CASE RemoveOld(d)
  BY <1>0, <1>7 DEF RemoveOld, Phases
<1>8. CASE Promote(d)
  BY <1>0, <1>8 DEF Promote, Phases
<1>9. ASSUME NEW i \in Slots, Extract(d, i) PROVE TypeInv'
  <2>1. Running(d) /\ m[d] \in GoodManifest /\ i \in 1..N(d) /\ scratch[d] \in Tree
    <3>1. Running(d)
      BY <1>0, <1>9 DEF Extract, RunInv, WorkersInv
    <3> QED BY <1>0, <1>9, <3>1 DEF Extract, RunInv, WorkersInv, BytesInv, Active
  <2>2. m[d].parts[i].name \in PartKinds
    BY <2>1, TreeLemma DEF N
  <2> DEFINE k == m[d].parts[i].name
  <2>3. \/ scratch' = scratch
        \/ \E v \in Writers \cup {Broken, None} : scratch' = [scratch EXCEPT ![d][k] = v]
    BY <1>0, <1>9, <2>2 DEF Extract
  <2>4. scratch' \in [Downs -> Tree \cup {NoDir}]
    <3>1. k \in PartKinds
      BY <2>2
    <3> HIDE DEF k
    <3>2. scratch \in [Downs -> Tree \cup {NoDir}] /\ scratch[d] \in Tree
      BY <1>0, <2>1
    <3> QED BY <2>3, <3>1, <3>2, SubtreeLemma
  <2>5. \E v \in Stages : worker' = [worker EXCEPT ![d][i] = v]
    BY <1>9 DEF Extract, Stages
  <2>6. worker' \in [Downs -> [Slots -> Stages]]
    BY <1>0, <2>5, StageLemma
  <2>7. firstErr' \in [Downs -> BOOLEAN]
    BY <1>0, <1>9 DEF Extract
  <2> QED BY <1>0, <1>9, <2>4, <2>6, <2>7 DEF Extract
<1>10. ASSUME NEW i \in Slots, VerifyPart(d, i) PROVE TypeInv'
  <2>1. \E v \in Stages : worker' = [worker EXCEPT ![d][i] = v]
    BY <1>10 DEF VerifyPart, Stages
  <2>2. worker' \in [Downs -> [Slots -> Stages]]
    BY <1>0, <2>1, StageLemma
  <2>3. firstErr' \in [Downs -> BOOLEAN]
    BY <1>0, <1>10 DEF VerifyPart
  <2> QED BY <1>0, <1>10, <2>2, <2>3 DEF VerifyPart
<1>11. CASE Interrupt(d)
  BY <1>0, <1>11 DEF Interrupt
<1>12. CASE Crash(d)
  BY <1>0, <1>12 DEF Crash, Phases
<1> QED BY <1>1, <1>2, <1>3, <1>4, <1>5, <1>6, <1>7, <1>8, <1>9, <1>10, <1>11, <1>12 DEF Step

(* Runs share only <datadir>/geth, of which RunInv says nothing.           *)
LEMMA FrameLemma ==
  ASSUME IInv, NEW d \in Downs, Step(d) \/ Interrupt(d) \/ Crash(d),
         NEW e \in Downs, e # d
  PROVE  RunInv(e)'
<1>1. TypeInv /\ RunInv(e)
  BY DEF IInv
<1>2. /\ pc'[e] = pc[e] /\ ctx'[e] = ctx[e] /\ firstErr'[e] = firstErr[e]
      /\ next'[e] = next[e] /\ worker'[e] = worker[e] /\ m'[e] = m[e]
      /\ scratch'[e] = scratch[e]
  BY <1>1 DEF TypeInv, Step, PrepareAtomic, FetchManifest, Dispatch, Acquire, Collect, Abort,
              RemoveOld, Promote, Extract, VerifyPart, Interrupt, Crash
<1>3. WorkersInv(e)'
  BY <1>1, <1>2 DEF RunInv, WorkersInv, Active, Running, Committing, N
<1>4. BytesInv(e)'
  BY <1>1, <1>2 DEF RunInv, BytesInv, Active, Running, Committing, N
<1>5. PhaseInv(e)'
  BY <1>1, <1>2 DEF RunInv, PhaseInv, N
<1>6. ErrorInv(e)'
  BY <1>1, <1>2 DEF RunInv, ErrorInv, Active, Running, Committing, N
<1> QED BY <1>3, <1>4, <1>5, <1>6 DEF RunInv

(* The step of a run keeps that run's invariant: one case per action.      *)
LEMMA RunStep ==
  ASSUME IInv, NEW d \in Downs, Step(d) \/ Interrupt(d) \/ Crash(d)
  PROVE  RunInv(d)'
<1> USE DEF Active, Running, Committing, N
<1>0. TypeInv /\ WorkersInv(d) /\ BytesInv(d) /\ PhaseInv(d) /\ ErrorInv(d)
  BY DEF IInv, RunInv
<1>a. /\ next[d] \in Nat /\ worker[d] \in [Slots -> Stages]
      /\ m[d] \in GoodManifest => N(d) \in Slots
  BY <1>0 DEF TypeInv, GoodManifest
(* The actions that only move the program counter, or cancel.              *)
<1>1. CASE PrepareAtomic(d)
  <2>1. /\ pc[d] = "start" /\ UNCHANGED <<ctx, firstErr, next, worker, m>>
        /\ \/ pc'[d] = "fetch" /\ scratch'[d] = EmptyTree
           \/ pc'[d] = "err" /\ scratch'[d] = scratch[d]
    BY <1>0, <1>1 DEF PrepareAtomic, TypeInv
  <2> QED BY <1>0, <2>1 DEF RunInv, WorkersInv, BytesInv, PhaseInv, ErrorInv
<1>2. CASE FetchManifest(d)
  <2>1. /\ pc[d] = "fetch" /\ UNCHANGED <<ctx, firstErr, next, worker, scratch>>
        /\ \/ pc'[d] = "dispatch" /\ m'[d] \in GoodManifest
           \/ pc'[d] = "abort"
    BY <1>0, <1>2 DEF FetchManifest, TypeInv
  <2>2. /\ next[d] = 1 /\ scratch[d] = EmptyTree
        /\ \A i \in Slots : worker[d][i] = "idle" /\ ~(i < 1)
    BY <1>0, <2>1 DEF PhaseInv, Slots
  <2>3. WorkersInv(d)'
    BY <2>1, <2>2 DEF WorkersInv
  <2>4. BytesInv(d)'
    <3>1. EmptyTree \in Tree /\ \A k \in PartKinds : EmptyTree[k] = None
      BY DEF EmptyTree, Tree
    <3>2. pc'[d] = "dispatch" => N(d)' \in Slots
      BY <2>1 DEF GoodManifest
    <3>3. N(d)' \in Slots => 1..N(d)' \subseteq Slots
      BY SlotsLemma
    <3>4. CASE pc'[d] = "dispatch"
      <4>1. scratch'[d] = EmptyTree /\ \A i \in 1..N(d)' : worker'[d][i] = "idle"
        BY <2>1, <2>2, <3>2, <3>3, <3>4
      <4> QED BY <3>1, <4>1 DEF BytesInv
    <3>5. CASE pc'[d] = "abort"
      BY <3>5 DEF BytesInv
    <3> QED BY <2>1, <3>4, <3>5
  <2>5. PhaseInv(d)'
    BY <1>0, <2>1 DEF PhaseInv
  <2>6. ErrorInv(d)'
    BY <2>1, <2>2 DEF ErrorInv
  <2> QED BY <2>3, <2>4, <2>5, <2>6 DEF RunInv
<1>3. CASE Dispatch(d)
  <2>1. /\ pc[d] = "dispatch" /\ UNCHANGED <<ctx, firstErr, next, worker, m, scratch>>
        /\ \/ pc'[d] = "wait" /\ (next[d] > N(d) \/ ctx[d] \/ firstErr[d])
           \/ pc'[d] = "acquire" /\ ~(next[d] > N(d))
    BY <1>0, <1>3 DEF Dispatch, Cancelled, TypeInv
  <2>2. m[d] \in GoodManifest /\ N(d) \in Nat
    BY <1>0, <1>a, <2>1 DEF WorkersInv, Slots
  <2>3. WorkersInv(d)' /\ BytesInv(d)'
    BY <1>0, <2>1 DEF WorkersInv, BytesInv
  <2>4. PhaseInv(d)'
    <3>1. next[d] > N(d) \/ next[d] <= N(d)
      BY <1>a, <2>2, OrderLemma
    <3> QED BY <1>0, <2>1, <3>1 DEF PhaseInv
  <2>5. ErrorInv(d)'
    BY <1>0, <2>1 DEF ErrorInv
  <2> QED BY <2>3, <2>4, <2>5 DEF RunInv
<1>4. CASE Acquire(d)
  <2> DEFINE v == IF CtxAware /\ Cancelled(d) THEN "failed" ELSE "get"
             n == next[d]
  <2>1. /\ pc[d] = "acquire" /\ pc'[d] = "dispatch"
        /\ UNCHANGED <<ctx, m, scratch>>
        /\ next'[d] = n + 1
    BY <1>0, <1>4 DEF Acquire, TypeInv
  <2>2. firstErr[d] \/ v = "failed" => firstErr'[d]
    BY <1>0, <1>4 DEF Acquire, TypeInv
  <2>3. n \in 1..N(d) /\ n \in Slots /\ m[d] \in GoodManifest
    <3>1. m[d] \in GoodManifest /\ N(d) \in Slots /\ n <= N(d)
      BY <1>0, <1>a, <2>1 DEF WorkersInv, PhaseInv
    <3>2. n # 0
      BY <1>0, <2>1 DEF PhaseInv
    <3> QED BY <1>a, <3>1, <3>2, SlotsLemma
  <2>4. worker'[d][n] = v /\ \A i \in Slots : i # n => worker'[d][i] = worker[d][i]
    BY <1>0, <1>4, <2>3 DEF Acquire, TypeInv
  <2>5. worker[d][n] = "idle"
    BY <1>0, <1>a, <2>1, <2>3 DEF WorkersInv
  <2> HIDE DEF n
  <2>6. v \in {"failed", "get"}
    OBVIOUS
  <2> HIDE DEF v
  <2>7. WorkersInv(d)'
    <3>1. \A i \in Slots : i < n + 1 <=> (i < n \/ i = n)
      BY <2>3 DEF Slots
    <3> QED BY <1>0, <2>1, <2>3, <2>4, <2>6, <3>1 DEF WorkersInv, n
  <2>8. BytesInv(d)'
    <3>1. 1..N(d) \subseteq Slots
      BY <1>a, <2>3, SlotsLemma
    <3> QED BY <1>0, <2>1, <2>3, <2>4, <2>5, <2>6, <3>1 DEF BytesInv
  <2>9. PhaseInv(d)'
    <3>1. n + 1 # 0
      BY <2>3 DEF Slots
    <3> QED BY <2>1, <3>1 DEF PhaseInv
  <2>10. ErrorInv(d)'
    BY <1>0, <2>1, <2>2, <2>3, <2>4 DEF ErrorInv
  <2> QED BY <2>7, <2>8, <2>9, <2>10 DEF RunInv
<1>5. CASE Collect(d)
  <2>1. /\ pc[d] = "wait" /\ UNCHANGED <<ctx, firstErr, next, worker, m, scratch>>
        /\ \A i \in Slots : worker[d][i] \notin {"get", "verify"}
        /\ \/ pc'[d] = "abort"
           \/ pc'[d] = "remove" /\ ~firstErr[d]
    BY <1>0, <1>5 DEF Collect, InFlight, TypeInv
  <2> QED BY <1>0, <2>1 DEF RunInv, WorkersInv, BytesInv, PhaseInv, ErrorInv
<1>6. CASE Abort(d)
  <2>1. /\ pc[d] = "abort" /\ pc'[d] = "err" /\ UNCHANGED <<ctx, firstErr, next, worker, m>>
        /\ ~DiskFaults => scratch'[d] = NoDir
    BY <1>0, <1>6 DEF Abort, TypeInv
  <2> QED BY <1>0, <2>1 DEF RunInv, WorkersInv, BytesInv, PhaseInv, ErrorInv
<1>7. CASE RemoveOld(d)
  <2>1. /\ pc[d] = "remove" /\ UNCHANGED <<ctx, firstErr, next, worker, m>>
        /\ \/ pc'[d] = "rename" /\ scratch'[d] = scratch[d]
           \/ pc'[d] = "err" /\ scratch'[d] = NoDir
    BY <1>0, <1>7 DEF RemoveOld, TypeInv
  <2> QED BY <1>0, <2>1 DEF RunInv, WorkersInv, BytesInv, PhaseInv, ErrorInv
<1>8. CASE Promote(d)
  <2>1. /\ pc[d] = "rename" /\ UNCHANGED <<ctx, firstErr, next, worker, m>>
        /\ pc'[d] \in {"ok", "err"} /\ scratch'[d] = NoDir
    BY <1>0, <1>8 DEF Promote, TypeInv
  <2> QED BY <1>0, <2>1 DEF RunInv, WorkersInv, BytesInv, PhaseInv, ErrorInv
<1>9. ASSUME NEW i \in Slots, Extract(d, i) PROVE RunInv(d)'
  <2> DEFINE k == m[d].parts[i].name
  <2>1. /\ Running(d) /\ m[d] \in GoodManifest /\ i \in 1..N(d) /\ 1..N(d) \subseteq Slots
        /\ scratch[d] \in Tree
    <3>1. Running(d)
      BY <1>0, <1>9 DEF Extract, WorkersInv
    <3>2. N(d) \in Slots => 1..N(d) \subseteq Slots
      BY SlotsLemma
    <3> QED BY <1>0, <1>a, <1>9, <3>1, <3>2 DEF Extract, WorkersInv, BytesInv
  <2>2. k \in PartKinds /\ \A j \in 1..N(d) : m[d].parts[j].name = k => j = i
    BY <2>1, TreeLemma DEF GoodManifest
  <2>3. PICK v \in {"verify", "failed"} :
          /\ worker' = [worker EXCEPT ![d][i] = v]
          /\ v = "failed" => firstErr' = [firstErr EXCEPT ![d] = TRUE]
          /\ v # "failed" => UNCHANGED firstErr
    BY <1>9 DEF Extract
  <2>4. \/ scratch' = scratch
        \/ \E x \in Writers \cup {Broken, None} : scratch' = [scratch EXCEPT ![d][k] = x]
    BY <1>0, <1>9, <2>2 DEF Extract, TypeInv
  <2>5. UNCHANGED <<pc, ctx, next, m>> /\ worker[d][i] = "get"
    BY <1>9 DEF Extract
  <2>6. worker'[d][i] = v /\ \A j \in Slots : j # i => worker'[d][j] = worker[d][j]
    BY <1>0, <2>3 DEF TypeInv
  <2>7. firstErr[d] \/ v = "failed" => firstErr'[d]
    BY <1>0, <2>3 DEF TypeInv
  <2> HIDE DEF k
  <2>8. scratch'[d] \in Tree /\ \A l \in PartKinds : l # k => scratch'[d][l] = scratch[d][l]
    <3>1. scratch'[d] = scratch[d] \/ \E x \in Writers \cup {Broken, None} :
                                         scratch'[d] = [scratch[d] EXCEPT ![k] = x]
      BY <1>0, <2>4 DEF TypeInv
    <3> QED BY <2>1, <2>2, <3>1 DEF Tree
  <2>9. WorkersInv(d)'
    BY <1>0, <2>1, <2>5, <2>6 DEF WorkersInv
  <2>10. BytesInv(d)'
    <3>1. \A l \in PartKinds : scratch'[d][l] = None \/ \E j \in 1..N(d) :
            m[d].parts[j].name = l /\ worker'[d][j] \in {"verify", "done", "failed"}
      <4>1. ASSUME NEW l \in PartKinds, l # k
            PROVE  scratch'[d][l] = None \/ \E j \in 1..N(d) :
                     m[d].parts[j].name = l /\ worker'[d][j] \in {"verify", "done", "failed"}
        BY <1>0, <2>1, <2>5, <2>6, <2>8, <4>1 DEF BytesInv
      <4>2. m[d].parts[i].name = k /\ worker'[d][i] \in {"verify", "done", "failed"}
        BY <2>6 DEF k
      <4> QED BY <2>1, <4>1, <4>2
    <3>2. ASSUME NEW j \in 1..N(d), worker'[d][j] = "done"
          PROVE  scratch'[d][m[d].parts[j].name] = m[d].parts[j].sha256
      <4>1. j # i /\ worker[d][j] = "done"
        BY <2>1, <2>6, <3>2
      <4>2. m[d].parts[j].name # k /\ m[d].parts[j].name \in PartKinds
        BY <2>1, <2>2, <4>1, TreeLemma
      <4> QED BY <1>0, <2>1, <2>8, <4>1, <4>2 DEF BytesInv
    <3> QED BY <2>5, <2>8, <3>1, <3>2 DEF BytesInv
  <2>11. PhaseInv(d)'
    BY <1>0, <2>1, <2>5 DEF PhaseInv
  <2>12. ErrorInv(d)'
    BY <1>0, <2>1, <2>5, <2>6, <2>7 DEF ErrorInv
  <2> QED BY <2>9, <2>10, <2>11, <2>12 DEF RunInv
<1>10. ASSUME NEW i \in Slots, VerifyPart(d, i) PROVE RunInv(d)'
  <2>1. Running(d) /\ m[d] \in GoodManifest /\ i \in 1..N(d) /\ 1..N(d) \subseteq Slots
    <3>1. Running(d)
      BY <1>0, <1>10 DEF VerifyPart, WorkersInv
    <3>2. N(d) \in Slots => 1..N(d) \subseteq Slots
      BY SlotsLemma
    <3> QED BY <1>0, <1>a, <1>10, <3>1, <3>2 DEF VerifyPart, WorkersInv
  <2>2. PICK v \in {"done", "failed"} :
          /\ worker' = [worker EXCEPT ![d][i] = v]
          /\ v = "failed" => firstErr' = [firstErr EXCEPT ![d] = TRUE]
          /\ v = "done" => /\ UNCHANGED firstErr
                           /\ scratch[d][m[d].parts[i].name] = m[d].parts[i].sha256
    BY <1>10 DEF VerifyPart
  <2>3. UNCHANGED <<pc, ctx, next, m, scratch>> /\ worker[d][i] = "verify"
    BY <1>10 DEF VerifyPart
  <2>4. worker'[d][i] = v /\ \A j \in Slots : j # i => worker'[d][j] = worker[d][j]
    BY <1>0, <2>2 DEF TypeInv
  <2>5. firstErr[d] \/ v = "failed" => firstErr'[d]
    BY <1>0, <2>2 DEF TypeInv
  <2>6. WorkersInv(d)'
    BY <1>0, <2>1, <2>3, <2>4 DEF WorkersInv
  <2>7. BytesInv(d)'
    BY <1>0, <2>1, <2>2, <2>3, <2>4 DEF BytesInv
  <2>8. PhaseInv(d)'
    BY <1>0, <2>1, <2>3 DEF PhaseInv
  <2>9. ErrorInv(d)'
    BY <1>0, <2>1, <2>3, <2>4, <2>5 DEF ErrorInv
  <2> QED BY <2>6, <2>7, <2>8, <2>9 DEF RunInv
<1>11. CASE Interrupt(d)
  <2>1. UNCHANGED <<pc, firstErr, next, worker, m, scratch>> /\ ctx'[d]
    BY <1>0, <1>11 DEF Interrupt, TypeInv
  <2> QED BY <1>0, <2>1 DEF RunInv, WorkersInv, BytesInv, PhaseInv, ErrorInv
<1>12. CASE Crash(d)
  <2>1. pc'[d] = "crashed" /\ UNCHANGED next
    BY <1>0, <1>12 DEF Crash, TypeInv
  <2> QED BY <1>0, <2>1 DEF RunInv, WorkersInv, BytesInv, PhaseInv, ErrorInv
<1> QED BY <1>1, <1>2, <1>3, <1>4, <1>5, <1>6, <1>7, <1>8, <1>9, <1>10, <1>11, <1>12 DEF Step

LEMMA Inductive == IInv /\ [Next]_vars => IInv'
<1> SUFFICES ASSUME IInv, [Next]_vars PROVE IInv'
  OBVIOUS
<1>1. ASSUME NEW d \in Downs, Step(d) \/ Interrupt(d) \/ Crash(d) PROVE IInv'
  BY <1>1, TypeStep, FrameLemma, RunStep DEF IInv
<1>2. CASE UNCHANGED vars
  BY <1>2 DEF vars, downVars, store, IInv, TypeInv, RunInv, WorkersInv, BytesInv, PhaseInv,
              ErrorInv, Active, Running, Committing, N
<1> QED BY <1>1, <1>2 DEF Next

(* The store may change under the runs, as long as manifests are good.     *)
LEMMA StoreMoves ==
  ASSUME IInv, UNCHANGED downVars, tar' \in [PartKinds -> Writers \cup {None}],
         manifest' \in GoodManifest \cup {None}
  PROVE  IInv'
BY DEF downVars, IInv, TypeInv, RunInv, WorkersInv, BytesInv, PhaseInv,
       ErrorInv, Active, Running, Committing, N

(* A run reads the manifest that is there, and writes nothing back.        *)
LEMMA ManifestRead ==
  ASSUME IInv, NEW d \in Downs, Step(d) \/ Interrupt(d) \/ Crash(d)
  PROVE  /\ \A e \in Downs :
              Active(e)' => \/ Active(e) /\ m'[e] = m[e]
                            \/ m'[e] = manifest /\ manifest # None
         /\ UNCHANGED store
<1>0. pc \in [Downs -> Phases] /\ m \in [Downs -> GoodManifest \cup {None}]
  BY DEF IInv, TypeInv
<1>1. CASE FetchManifest(d)
  BY <1>0, <1>1 DEF FetchManifest, Active, Running, Committing
<1>2. CASE ~FetchManifest(d)
  <2>1. UNCHANGED m /\ UNCHANGED store
    BY <1>2 DEF Step, PrepareAtomic, Dispatch, Acquire, Extract, VerifyPart, Collect, Abort,
                RemoveOld, Promote, Interrupt, Crash, store
  <2>2. \A e \in Downs : Active(e)' => Active(e)
    BY <1>0, <1>2 DEF Step, PrepareAtomic, Dispatch, Acquire, Extract, VerifyPart, Collect,
                Abort, RemoveOld, Promote, Interrupt, Crash, Active, Running, Committing
  <2> QED BY <2>1, <2>2
<1> QED BY <1>1, <1>2

(* The tree of a manifest is the objects that the upload had put there.    *)
LEMMA TreeOfPublished ==
  ASSUME NEW w \in Writers, NEW s \in BOOLEAN, NEW t \in BOOLEAN
  PROVE  TreeOf(Published(w, PlanParts(s, t))) = Objects(w, PlanParts(s, t))
<1> DEFINE ks == PlanParts(s, t)
           x  == Published(w, ks)
<1>1. /\ x \in GoodManifest /\ Len(x.parts) = Len(ks)
      /\ \A i \in 1..Len(ks) : x.parts[i].name = ks[i] /\ x.parts[i].sha256 = w
  <2>1. /\ x \in GoodManifest /\ Len(x.parts) = Len(ks)
        /\ \A i \in 1..Len(ks) : x.parts[i] = Part(ks[i], w, w)
    BY PublishedGood
  <2> HIDE DEF ks, x
  <2>2. ASSUME NEW i \in 1..Len(ks)
        PROVE  x.parts[i].name = ks[i] /\ x.parts[i].sha256 = w
    <3>1. x.parts[i] = [name |-> ks[i], sha256 |-> w, toc |-> w]
      BY <2>1 DEF Part
    <3> QED BY <3>1
  <2> QED BY <2>1, <2>2
<1>2. DOMAIN ks = 1..Len(ks)
  BY PlanLemma
<1> HIDE DEF ks, x
<1>3. ASSUME NEW k \in PartKinds PROVE TreeOf(x)[k] = Objects(w, ks)[k]
  <2>1. CASE \E i \in 1..Len(ks) : ks[i] = k
    <3>1. PICK i \in 1..Len(ks) : ks[i] = k
      BY <2>1
    <3>2. TreeOf(x)[x.parts[i].name] = x.parts[i].sha256
      BY <1>1, TreeLemma
    <3> QED BY <1>1, <1>2, <3>1, <3>2 DEF Objects
  <2>2. CASE ~(\E i \in 1..Len(ks) : ks[i] = k)
    BY <1>1, <1>2, <2>2, TreeLemma DEF Objects
  <2> QED BY <2>1, <2>2
<1> QED BY <1>1, <1>3, TreeLemma DEF Objects, ks, x

(* The invariant of every run, from the start.                             *)
THEOREM InvTheorem == Spec => []IInv
BY InitInv, Inductive, PTL DEF Spec

LEMMA VerifiedCommit == IInv => PromotedVerified
<1> SUFFICES ASSUME IInv, NEW d \in Downs, Committing(d), NEW k \in PartKinds
             PROVE  scratch[d][k] \in {TreeOf(m[d])[k], None}
  BY DEF PromotedVerified, Remains
<1>1. RunInv(d) /\ TypeInv
  BY DEF IInv
<1>2. m[d] \in GoodManifest /\ N(d) \in Slots /\ ~firstErr[d]
  BY <1>1 DEF RunInv, WorkersInv, ErrorInv, Active, GoodManifest, N
<1>3. 1..N(d) \subseteq Slots
  BY <1>2, SlotsLemma
<1>4. \A i \in Slots : worker[d][i] \notin {"get", "verify", "failed"}
  BY <1>1, <1>2 DEF RunInv, WorkersInv, ErrorInv, Active, Running, Committing
<1>5. CASE scratch[d][k] = None
  BY <1>5
<1>6. ASSUME NEW i \in 1..N(d), m[d].parts[i].name = k, worker[d][i] = "done"
      PROVE  scratch[d][k] = TreeOf(m[d])[k]
  BY <1>1, <1>2, <1>6, TreeLemma DEF RunInv, BytesInv, Active, N
<1> QED BY <1>1, <1>3, <1>4, <1>5, <1>6 DEF RunInv, BytesInv, Active

(* For any number of racing downloads, whatever became of the objects and  *)
(* whatever the disk does: Commit promotes only bytes that matched.        *)
THEOREM VerifiedTheorem == Spec => []PromotedVerified
BY VerifiedCommit, InvTheorem, PTL

LEMMA WholeCommit == IInv => UninterruptedIsComplete
<1> SUFFICES ASSUME IInv, NEW d \in Downs, Committing(d), ~ctx[d]
             PROVE  scratch[d] = TreeOf(m[d])
  BY DEF UninterruptedIsComplete
<1>1. RunInv(d) /\ TypeInv
  BY DEF IInv
<1>2. m[d] \in GoodManifest /\ N(d) \in Slots /\ ~firstErr[d] /\ next[d] > N(d)
  BY <1>1 DEF RunInv, WorkersInv, ErrorInv, Active, GoodManifest, N
<1>3. 1..N(d) \subseteq Slots /\ \A i \in 1..N(d) : i < next[d]
  <2>1. next[d] \in Nat
    BY <1>1 DEF TypeInv
  <2> QED BY <1>2, <2>1, SlotsLemma
<1>4. \A i \in 1..N(d) : worker[d][i] = "done"
  <2>1. \A i \in 1..N(d) : worker[d][i] \notin {"idle", "get", "verify", "failed"}
    BY <1>1, <1>2, <1>3 DEF RunInv, WorkersInv, ErrorInv, Active, Running, Committing
  <2> QED BY <1>1, <1>3, <2>1 DEF TypeInv, Stages
<1>5. ASSUME NEW k \in PartKinds PROVE scratch[d][k] = TreeOf(m[d])[k]
  <2>1. ASSUME NEW i \in 1..N(d), m[d].parts[i].name = k
        PROVE  scratch[d][k] = TreeOf(m[d])[k]
    BY <1>1, <1>2, <1>4, <2>1, TreeLemma DEF RunInv, BytesInv, Active, N
  <2>2. CASE \A i \in 1..N(d) : m[d].parts[i].name # k
    BY <1>1, <1>2, <2>2, TreeLemma DEF RunInv, BytesInv, Active, N
  <2> QED BY <2>1, <2>2
<1>6. scratch[d] \in Tree
  BY <1>1 DEF RunInv, BytesInv, Active
<1>7. scratch[d] = [k \in PartKinds |-> scratch[d][k]]
  BY <1>6 DEF Tree
<1> QED BY <1>2, <1>5, <1>7, TreeLemma

(* And without a signal the whole of it: no part is forgotten, whatever    *)
(* --parallel-parts is and in whatever order the workers end.              *)
THEOREM CompleteTheorem == Spec => []UninterruptedIsComplete
BY WholeCommit, InvTheorem, PTL

(* On a disk that works no run leaves a scratch directory behind, whether  *)
(* it succeeds, fails or loses a race.                                     *)
THEOREM NoLeftoversTheorem ==
  ASSUME ~DiskFaults
  PROVE  Spec => []NoLeftovers
<1>1. IInv => NoLeftovers
  BY DEF IInv, RunInv, PhaseInv, NoLeftovers
<1> QED BY <1>1, InvTheorem, PTL

-----------------------------------------------------------------------------

(* Who can have changed <datadir>/geth: a run that has succeeded or died,  *)
(* or one that stands between the two halves of Commit.                    *)
SwapInv ==
  geth # orig =>
    \/ \E d \in Downs : pc[d] \in {"ok", "crashed"}
    \/ geth = NoDir /\ \E d \in Downs : pc[d] = "rename"

LEMMA SwapStep ==
  ASSUME ~DiskFaults, TypeInv, SwapInv, NEW d \in Downs, Step(d) \/ Interrupt(d) \/ Crash(d)
  PROVE  SwapInv'
<1> USE DEF TypeInv, SwapInv
<1>1. CASE RemoveOld(d)
  BY <1>1 DEF RemoveOld
<1>2. CASE Promote(d)
  <2>1. CASE geth = NoDir
    BY <1>2, <2>1 DEF Promote
  <2>2. CASE geth # NoDir
    BY <1>2, <2>2 DEF Promote
  <2> QED BY <2>1, <2>2
<1>3. CASE Crash(d)
  BY <1>3 DEF Crash
<1>4. ASSUME UNCHANGED <<geth, orig>>,
             pc[d] \notin {"ok", "crashed", "rename"} \/ UNCHANGED pc,
             \A e \in Downs : e # d => pc'[e] = pc[e]
      PROVE  SwapInv'
  BY <1>4
<1>5. CASE \/ PrepareAtomic(d) \/ FetchManifest(d) \/ Dispatch(d) \/ Acquire(d) \/ Collect(d)
           \/ Abort(d)
  BY <1>4, <1>5 DEF PrepareAtomic, FetchManifest, Dispatch, Acquire, Collect, Abort
<1>6. CASE Interrupt(d) \/ \E i \in Slots : Extract(d, i) \/ VerifyPart(d, i)
  BY <1>4, <1>6 DEF Interrupt, Extract, VerifyPart
<1> QED BY <1>1, <1>2, <1>3, <1>5, <1>6 DEF Step

(* On a disk that works, runs that all fail leave the datadir as it was,   *)
(* however many there are and however their commits interleave.            *)
THEOREM KeepsOriginalTheorem ==
  ASSUME ~DiskFaults
  PROVE  Spec => []FailureKeepsOriginal
<1>1. Init => SwapInv
  BY DEF Init, InitRuns, SwapInv
<1>2. IInv /\ SwapInv /\ [Next]_vars => SwapInv'
  <2> SUFFICES ASSUME IInv, SwapInv, [Next]_vars PROVE SwapInv'
    OBVIOUS
  <2>1. CASE UNCHANGED vars
    BY <2>1 DEF vars, downVars, SwapInv
  <2>2. CASE \E d \in Downs : Step(d) \/ Interrupt(d) \/ Crash(d)
    BY <2>2, SwapStep DEF IInv
  <2> QED BY <2>1, <2>2 DEF Next
<1>3. SwapInv => FailureKeepsOriginal
  BY DEF SwapInv, FailureKeepsOriginal
<1> QED BY <1>1, <1>2, <1>3, InvTheorem, PTL DEF Spec

-----------------------------------------------------------------------------

(* What lies at <datadir>/geth while no run was interrupted or has died: a *)
(* snapshot that some run promoted, the gap that a run between the halves  *)
(* of Commit has made, or what was there before.                           *)
Undisturbed == \A d \in Downs : ~ctx[d] /\ pc[d] # "crashed"

RaceInv ==
  Undisturbed =>
    \/ \E d \in Downs : pc[d] = "ok" /\ geth = TreeOf(m[d])
    \/ geth = NoDir /\ \E d \in Downs : pc[d] = "rename"
    \/ geth = orig /\ \A d \in Downs : pc[d] \notin {"ok", "rename"}

LEMMA RaceStep ==
  ASSUME ~DiskFaults, IInv, RaceInv, NEW d \in Downs, Step(d) \/ Interrupt(d) \/ Crash(d)
  PROVE  RaceInv'
<1> SUFFICES ASSUME Undisturbed' PROVE RaceInv'
  BY DEF RaceInv
<1>0. /\ pc \in [Downs -> Phases] /\ ctx \in [Downs -> BOOLEAN]
      /\ m \in [Downs -> GoodManifest \cup {None}] /\ scratch \in [Downs -> Tree \cup {NoDir}]
  BY DEF IInv, TypeInv
<1>1. CASE RemoveOld(d)
  <2>1. geth' = NoDir /\ pc' = [pc EXCEPT ![d] = "rename"]
    BY <1>1 DEF RemoveOld
  <2> QED BY <1>0, <2>1 DEF RaceInv
<1>2. CASE Promote(d)
  <2>0. /\ pc[d] = "rename" /\ UNCHANGED <<m, ctx, orig>>
        /\ pc' \in [Downs -> Phases]
        /\ \A e \in Downs : e # d => pc'[e] = pc[e]
    BY <1>0, <1>2 DEF Promote, Phases
  <2>1. CASE geth = NoDir /\ pc'[d] = "ok" /\ geth' = scratch[d]
    <3>1. ~ctx[d]
      BY <2>0 DEF Undisturbed
    <3>2. scratch[d] = TreeOf(m[d])
      BY <2>0, <3>1, WholeCommit DEF Committing, UninterruptedIsComplete
    <3>3. TreeOf(m[d])' = TreeOf(m[d])
      BY <2>0
    <3>4. pc'[d] = "ok" /\ geth' = TreeOf(m[d])'
      BY <2>1, <3>2, <3>3
    <3> QED BY <2>0, <3>4 DEF RaceInv
  <2>2. CASE geth # NoDir /\ geth' = geth
    <3>1. ctx' = ctx /\ pc[d] # "crashed" /\ \A e \in Downs : e # d => pc'[e] = pc[e]
      BY <2>0
    <3>2. Undisturbed
      BY <3>1 DEF Undisturbed
    <3>3. PICK e \in Downs : pc[e] = "ok" /\ geth = TreeOf(m[e])
      BY <2>0, <2>2, <3>2 DEF RaceInv
    <3>4. TreeOf(m[e])' = TreeOf(m[e])
      BY <2>0
    <3>5. pc'[e] = "ok" /\ geth' = TreeOf(m[e])'
      BY <2>0, <2>2, <3>3, <3>4
    <3> QED BY <3>5 DEF RaceInv
  <2>3. \/ geth = NoDir /\ pc'[d] = "ok" /\ geth' = scratch[d]
        \/ geth # NoDir /\ geth' = geth
    BY <1>0, <1>2 DEF Promote
  <2> QED BY <2>1, <2>2, <2>3
<1>3. CASE Crash(d)
  <2>1. pc'[d] = "crashed"
    BY <1>0, <1>3 DEF Crash
  <2> QED BY <2>1 DEF Undisturbed
<1>4. CASE Interrupt(d)
  <2>1. ctx'[d]
    BY <1>0, <1>4 DEF Interrupt
  <2> QED BY <2>1 DEF Undisturbed
<1>5. ASSUME UNCHANGED <<geth, orig, ctx>>,
             /\ \A e \in Downs : e # d => m'[e] = m[e] /\ pc'[e] = pc[e]
             /\ \/ pc[d] \notin {"ok", "crashed", "rename"} /\ pc'[d] \notin {"ok", "rename"}
                \/ UNCHANGED <<pc, m>>
      PROVE  RaceInv'
  <2>1. \A e \in Downs : pc'[e] \in {"ok", "rename"} <=> pc[e] \in {"ok", "rename"}
    BY <1>5
  <2>2. \A e \in Downs : pc[e] = "ok" => pc'[e] = "ok" /\ m'[e] = m[e]
    BY <1>5
  <2>3. \A e \in Downs : pc[e] = "rename" => pc'[e] = "rename"
    BY <1>5
  <2>4. Undisturbed
    BY <1>5 DEF Undisturbed
  <2>5. CASE \E e \in Downs : pc[e] = "ok" /\ geth = TreeOf(m[e])
    <3>1. PICK e \in Downs : pc[e] = "ok" /\ geth = TreeOf(m[e])
      BY <2>5
    <3>2. TreeOf(m[e])' = TreeOf(m[e])
      BY <2>2, <3>1 DEF TreeOf
    <3>3. pc'[e] = "ok" /\ geth' = TreeOf(m[e])'
      BY <1>5, <2>2, <3>1, <3>2
    <3> QED BY <3>3 DEF RaceInv
  <2>6. CASE geth = NoDir /\ \E e \in Downs : pc[e] = "rename"
    BY <1>5, <2>3, <2>6 DEF RaceInv
  <2>7. CASE geth = orig /\ \A e \in Downs : pc[e] \notin {"ok", "rename"}
    BY <1>5, <2>1, <2>7 DEF RaceInv
  <2> QED BY <2>4, <2>5, <2>6, <2>7 DEF RaceInv
<1>6. CASE PrepareAtomic(d) \/ FetchManifest(d) \/ Dispatch(d) \/ Acquire(d) \/ Collect(d)
           \/ Abort(d)
  <2>1. pc'[d] \in {"fetch", "err", "abort", "dispatch", "wait", "acquire", "remove"}
    BY <1>0, <1>6 DEF PrepareAtomic, FetchManifest, Dispatch, Acquire, Collect, Abort
  <2>2. /\ pc[d] \notin {"ok", "crashed", "rename"}
        /\ UNCHANGED <<geth, orig, ctx>>
        /\ \A e \in Downs : e # d => m'[e] = m[e] /\ pc'[e] = pc[e]
    BY <1>0, <1>6 DEF PrepareAtomic, FetchManifest, Dispatch, Acquire, Collect, Abort
  <2>3. pc'[d] \notin {"ok", "rename"}
    BY <2>1
  <2> QED BY <1>5, <2>2, <2>3
<1>7. CASE \E i \in Slots : Extract(d, i) \/ VerifyPart(d, i)
  <2>1. UNCHANGED <<geth, orig, ctx, pc, m>>
    BY <1>7 DEF Extract, VerifyPart
  <2> QED BY <1>5, <2>1
<1> QED BY <1>1, <1>2, <1>3, <1>4, <1>6, <1>7 DEF Step

(* On a disk that works, any number of runs may race for one datadir: if   *)
(* none is interrupted or killed, a run that succeeded, or what was there  *)
(* before, is what is left, whole.                                         *)
THEOREM RaceTheorem ==
  ASSUME ~DiskFaults
  PROVE  Spec => []RaceLeavesWholeTree
<1>1. Init => RaceInv
  BY DEF Init, InitRuns, RaceInv
<1>2. IInv /\ RaceInv /\ [Next]_vars => RaceInv'
  <2> SUFFICES ASSUME IInv, RaceInv, [Next]_vars PROVE RaceInv'
    OBVIOUS
  <2>1. CASE UNCHANGED vars
    <3>1. UNCHANGED <<pc, ctx, m, geth, orig>>
      BY <2>1 DEF vars, downVars
    <3>2. \A d \in Downs : TreeOf(m[d])' = TreeOf(m[d])
      BY <3>1
    <3>3. Undisturbed' = Undisturbed
      BY <3>1 DEF Undisturbed
    <3> QED BY <3>1, <3>2, <3>3 DEF RaceInv
  <2>2. CASE \E d \in Downs : Step(d) \/ Interrupt(d) \/ Crash(d)
    BY <2>2, RaceStep
  <2> QED BY <2>1, <2>2 DEF Next
<1>3. RaceInv => RaceLeavesWholeTree
  <2> SUFFICES ASSUME RaceInv, \A d \in Downs : pc[d] \in {"ok", "err"} /\ ~ctx[d]
               PROVE  RaceLeavesWholeTree
    BY DEF RaceLeavesWholeTree
  <2>1. Undisturbed /\ \A d \in Downs : pc[d] # "rename"
    BY DEF Undisturbed
  <2> QED BY <2>1 DEF RaceInv, RaceLeavesWholeTree
<1> QED BY <1>1, <1>2, <1>3, InvTheorem, PTL DEF Spec

-----------------------------------------------------------------------------

(* A run without --force that is under way has found nothing to destroy.   *)
ForceInv ==
  \A d \in Downs :
    ~force[d] /\ pc[d] \notin {"start", "ok", "err", "crashed"} => geth \in {NoDir, EmptyTree}

LEMMA EmptyRemains ==
  ASSUME NEW u \in Tree, Remains(EmptyTree, u) PROVE u = EmptyTree
<1>1. \A k \in PartKinds : u[k] = None
  BY DEF Remains, EmptyTree
<1> QED BY <1>1 DEF Tree, EmptyTree

(* One run at a time destroys files only with --force, whatever the disk   *)
(* does and wherever it is killed.  Of two runs, one without --force may   *)
(* remove what the other has put there since it looked.                    *)
THEOREM UnforcedTheorem ==
  ASSUME \A q, r \in Downs : q = r
  PROVE  Spec => UnforcedKeepsFiles
<1>1. Init => ForceInv
  BY DEF Init, InitRuns, ForceInv
<1>2. ASSUME TypeInv, ForceInv, NEW d \in Downs, Step(d) \/ Interrupt(d) \/ Crash(d)
      PROVE  /\ ForceInv'
             /\ geth \notin {NoDir, EmptyTree} /\ geth' # geth => force[d]
  <2>0. /\ pc \in [Downs -> Phases] /\ \A e \in Downs : e = d
    BY <1>2 DEF TypeInv
  <2>1. CASE PrepareAtomic(d)
    BY <1>2, <2>0, <2>1 DEF PrepareAtomic, ForceInv
  <2>2. CASE RemoveOld(d)
    <3>1. /\ pc[d] = "remove" /\ pc'[d] \in {"rename", "err"} /\ force' = force
          /\ geth' = NoDir \/ (geth' \in Tree /\ Remains(geth, geth') /\ pc'[d] = "err")
      BY <2>0, <2>2 DEF RemoveOld
    <3>2. ~force[d] => geth \in {NoDir, EmptyTree}
      BY <1>2, <3>1 DEF ForceInv
    <3>3. pc'[d] = "rename" => geth' = NoDir
      BY <3>1
    <3> QED BY <2>0, <3>1, <3>2, <3>3 DEF ForceInv
  <2>3. CASE Promote(d)
    BY <1>2, <2>0, <2>3 DEF Promote, ForceInv
  <2>4. CASE Crash(d)
    <3>1. /\ pc'[d] = "crashed" /\ force' = force
          /\ geth' # geth => pc[d] = "remove"
      BY <2>0, <2>4 DEF Crash
    <3> QED BY <1>2, <2>0, <3>1 DEF ForceInv
  <2>5. CASE FetchManifest(d) \/ Dispatch(d) \/ Acquire(d) \/ Collect(d) \/ Abort(d)
    <3>1. /\ pc[d] \notin {"start", "ok", "err", "crashed"}
          /\ UNCHANGED <<geth, force>>
      BY <2>5 DEF FetchManifest, Dispatch, Acquire, Collect, Abort
    <3> QED BY <1>2, <2>0, <3>1 DEF ForceInv
  <2>6. CASE Interrupt(d) \/ \E i \in Slots : Extract(d, i) \/ VerifyPart(d, i)
    <3>1. UNCHANGED <<geth, force, pc>>
      BY <2>6 DEF Interrupt, Extract, VerifyPart
    <3> QED BY <1>2, <3>1 DEF ForceInv
  <2> QED BY <1>2, <2>1, <2>2, <2>3, <2>4, <2>5, <2>6 DEF Step
<1>3. TypeInv /\ ForceInv /\ [Next]_vars => ForceInv'
  <2>1. UNCHANGED vars /\ ForceInv => ForceInv'
    BY DEF vars, downVars, ForceInv
  <2> QED BY <1>2, <2>1 DEF Next
<1>4. TypeInv /\ ForceInv /\ [Next]_vars =>
        [\A d \in Downs :
           pc'[d] # pc[d] /\ geth \notin {NoDir, EmptyTree} /\ geth' # geth => force[d]]_vars
  <2> SUFFICES ASSUME TypeInv, ForceInv, Next,
                      NEW e \in Downs, geth \notin {NoDir, EmptyTree}, geth' # geth
               PROVE  force[e]
    OBVIOUS
  <2>1. PICK d \in Downs : Step(d) \/ Interrupt(d) \/ Crash(d)
    BY DEF Next
  <2>2. e = d /\ force[d]
    BY <1>2, <2>1
  <2> QED BY <2>2
<1>5. Spec => []TypeInv
  <2>1. IInv => TypeInv
    BY DEF IInv
  <2> QED BY <2>1, InvTheorem, PTL
<1> QED BY <1>1, <1>3, <1>4, <1>5, PTL DEF Spec, UnforcedKeepsFiles

-----------------------------------------------------------------------------
(* Progress: what Terminates rests on besides fairness.                    *)

(* The steps a worker, and Run itself, may still take; Run gives up one of *)
(* two of a worker's when it starts it, and so pays for its own way back.  *)
StagesAhead == [idle |-> 3, get |-> 2, verify |-> 1, done |-> 0, failed |-> 0]
PhasesAhead == [start |-> 8, fetch |-> 7, dispatch |-> 6, acquire |-> 5, wait |-> 4,
                remove |-> 2, rename |-> 1, abort |-> 1,
                ok |-> 0, err |-> 0, crashed |-> 0]

Work(d) ==
  PhasesAhead[pc[d]]
    + 2 * (  StagesAhead[worker[d][1]] + StagesAhead[worker[d][2]]
           + StagesAhead[worker[d][3]] + StagesAhead[worker[d][4]])

(* The guards of Step(d): where nothing is waited for, a token, wg.Wait,   *)
(* and the requests of the workers.                                        *)
CanStep(d) ==
  \/ pc[d] \in {"start", "fetch", "dispatch", "abort", "remove", "rename"}
  \/ pc[d] = "acquire" /\ Cardinality(InFlight(d)) < Limit(d)
  \/ pc[d] = "wait" /\ InFlight(d) = {}
  \/ pc[d] # "crashed" /\ InFlight(d) # {}

CanGoOn == \A d \in Downs : Ended(d) \/ CanStep(d)
AtMost32 == \A d \in Downs : Work(d) \in 0..32
LessToDo == \A d \in Downs : /\ Work(d)' <= Work(d)
                            /\ Step(d) => Work(d)' < Work(d)

LEMMA StagesType ==
  /\ \A x \in Stages : StagesAhead[x] \in 0..3
  /\ \A x \in Phases : PhasesAhead[x] \in 0..8
<1>1. \A x \in Stages : StagesAhead[x] \in 0..3
  BY DEF Stages, StagesAhead
<1>2. \A x \in Phases : PhasesAhead[x] \in 0..8
  BY DEF Phases, PhasesAhead
<1> QED BY <1>1, <1>2

LEMMA WorkType == TypeInv => AtMost32
<1> SUFFICES ASSUME TypeInv, NEW d \in Downs PROVE Work(d) \in 0..32
  BY DEF AtMost32
<1>1. /\ StagesAhead[worker[d][1]] \in 0..3 /\ StagesAhead[worker[d][2]] \in 0..3
      /\ StagesAhead[worker[d][3]] \in 0..3 /\ StagesAhead[worker[d][4]] \in 0..3
      /\ PhasesAhead[pc[d]] \in 0..8
  BY StagesType DEF TypeInv, Slots
<1> QED BY <1>1 DEF Work

(* A worker takes a step, and Run goes from one phase to the next.          *)
LEMMA WorkerWorks ==
  ASSUME TypeInv, NEW d \in Downs, NEW i \in Slots, NEW x \in Stages, NEW p \in Phases,
         worker' = [worker EXCEPT ![d][i] = x], pc' = [pc EXCEPT ![d] = p],
         StagesAhead[x] < StagesAhead[worker[d][i]],
         PhasesAhead[p] <= PhasesAhead[pc[d]] + 1
  PROVE  Work(d)' < Work(d)
<1>1. /\ worker'[d][i] = x /\ \A j \in Slots \ {i} : worker'[d][j] = worker[d][j]
      /\ pc'[d] = p
  BY DEF TypeInv
<1>2. /\ \A j \in Slots : StagesAhead[worker[d][j]] \in 0..3
      /\ StagesAhead[x] \in 0..3
      /\ PhasesAhead[pc[d]] \in 0..8 /\ PhasesAhead[p] \in 0..8
  BY StagesType DEF TypeInv
<1>3. Slots = {1, 2, 3, 4}
  BY DEF Slots
<1>4. CASE i = 1
  BY <1>1, <1>2, <1>3, <1>4 DEF Work
<1>5. CASE i = 2
  BY <1>1, <1>2, <1>3, <1>5 DEF Work
<1>6. CASE i = 3
  BY <1>1, <1>2, <1>3, <1>6 DEF Work
<1>7. CASE i = 4
  BY <1>1, <1>2, <1>3, <1>7 DEF Work
<1> QED BY <1>3, <1>4, <1>5, <1>6, <1>7

(* Run itself takes a step.                                                *)
LEMMA RunWorks ==
  ASSUME TypeInv, NEW d \in Downs, NEW p \in Phases,
         UNCHANGED worker, pc' = [pc EXCEPT ![d] = p],
         PhasesAhead[p] < PhasesAhead[pc[d]]
  PROVE  Work(d)' < Work(d)
<1>1. pc'[d] = p /\ worker'[d] = worker[d]
  BY DEF TypeInv
<1>2. /\ StagesAhead[worker[d][1]] \in 0..3 /\ StagesAhead[worker[d][2]] \in 0..3
      /\ StagesAhead[worker[d][3]] \in 0..3 /\ StagesAhead[worker[d][4]] \in 0..3
      /\ PhasesAhead[pc[d]] \in 0..8 /\ PhasesAhead[p] \in 0..8
  BY StagesType DEF TypeInv, Slots
<1> QED BY <1>1, <1>2 DEF Work

LEMMA StepWorks ==
  ASSUME IInv, NEW d \in Downs, Step(d)
  PROVE  Work(d)' < Work(d)
<1>0. TypeInv /\ RunInv(d)
  BY DEF IInv
<1>1. CASE \/ PrepareAtomic(d) \/ FetchManifest(d) \/ Dispatch(d) \/ Collect(d)
           \/ Abort(d) \/ RemoveOld(d) \/ Promote(d)
  <2>1. PICK p \in Phases : /\ pc' = [pc EXCEPT ![d] = p] /\ UNCHANGED worker
                            /\ PhasesAhead[p] < PhasesAhead[pc[d]]
    BY <1>1 DEF PrepareAtomic, FetchManifest, Dispatch, Collect, Abort, RemoveOld, Promote,
                Phases, PhasesAhead
  <2> QED BY <1>0, <2>1, RunWorks
<1>2. CASE Acquire(d)
  <2>1. next[d] \in Slots /\ worker[d][next[d]] = "idle"
    <3> DEFINE n == N(d)
    <3>1. n \in Slots /\ next[d] \in Nat /\ next[d] # 0 /\ next[d] <= n
      BY <1>0, <1>2 DEF TypeInv, Acquire, RunInv, WorkersInv, PhaseInv, Active, Running,
                        GoodManifest, N
    <3> HIDE DEF n
    <3>2. next[d] \in Slots
      BY <3>1, SlotsLemma
    <3> QED BY <1>0, <1>2, <3>1, <3>2 DEF RunInv, WorkersInv, Active, Running, Acquire
  <2>2. PICK x \in {"failed", "get"} : worker' = [worker EXCEPT ![d][next[d]] = x]
    BY <1>2 DEF Acquire
  <2>3. pc[d] = "acquire" /\ pc' = [pc EXCEPT ![d] = "dispatch"]
    BY <1>2 DEF Acquire
  <2>4. /\ x \in Stages /\ StagesAhead[x] < StagesAhead["idle"]
        /\ "dispatch" \in Phases /\ PhasesAhead["dispatch"] <= PhasesAhead["acquire"] + 1
    BY <2>2 DEF Stages, StagesAhead, Phases, PhasesAhead
  <2> QED BY <1>0, <2>1, <2>2, <2>3, <2>4, WorkerWorks
<1>3. ASSUME NEW i \in Slots, Extract(d, i) \/ VerifyPart(d, i)
      PROVE  Work(d)' < Work(d)
  <2>1. PICK x \in Stages : /\ worker' = [worker EXCEPT ![d][i] = x]
                            /\ StagesAhead[x] < StagesAhead[worker[d][i]]
    <3>1. StagesAhead["get"] = 2 /\ StagesAhead["verify"] = 1 /\ StagesAhead["done"] = 0
          /\ StagesAhead["failed"] = 0
      BY DEF StagesAhead
    <3>2. CASE Extract(d, i)
      <4>1. PICK x \in {"verify", "failed"} : worker' = [worker EXCEPT ![d][i] = x]
        BY <3>2 DEF Extract
      <4> QED BY <3>1, <3>2, <4>1 DEF Extract, Stages
    <3>3. CASE VerifyPart(d, i)
      <4>1. PICK x \in {"done", "failed"} : worker' = [worker EXCEPT ![d][i] = x]
        BY <3>3 DEF VerifyPart
      <4> QED BY <3>1, <3>3, <4>1 DEF VerifyPart, Stages
    <3> QED BY <1>3, <3>2, <3>3
  <2>2. pc' = [pc EXCEPT ![d] = pc[d]] /\ pc[d] \in Phases
    BY <1>0, <1>3 DEF Extract, VerifyPart, TypeInv
  <2>3. PhasesAhead[pc[d]] <= PhasesAhead[pc[d]] + 1
    BY <2>2, StagesType
  <2> QED BY <1>0, <2>1, <2>2, <2>3, WorkerWorks
<1> QED BY <1>1, <1>2, <1>3 DEF Step

(* A signal, a crash, and the steps of other runs give a run no work.      *)
LEMMA OthersWork ==
  ASSUME IInv, NEW d \in Downs, NEW q \in Downs, Step(q) \/ Interrupt(q) \/ Crash(q),
         q # d \/ ~Step(q)
  PROVE  Work(d)' <= Work(d)
<1>0. TypeInv /\ TypeInv'
  <2>1. IInv'
    BY Inductive DEF Next
  <2> QED BY <2>1 DEF IInv
<1>1. Work(d) \in 0..32 /\ Work(d)' \in 0..32
  <2>1. Work(d) \in 0..32
    BY <1>0, WorkType DEF AtMost32
  <2>2. TypeInv' => AtMost32'
    BY WorkType, PTL
  <2> QED BY <1>0, <2>1, <2>2 DEF AtMost32
<1>2. CASE q # d
  <2>1. pc'[d] = pc[d] /\ worker'[d] = worker[d]
    BY <1>0, <1>2 DEF Step, PrepareAtomic, FetchManifest, Dispatch, Acquire, Collect, Abort,
                      RemoveOld, Promote, Extract, VerifyPart, Interrupt, Crash, TypeInv
  <2> QED BY <1>1, <2>1 DEF Work
<1>3. CASE q = d /\ Interrupt(d)
  <2>1. pc' = pc /\ worker' = worker
    BY <1>3 DEF Interrupt
  <2> QED BY <1>1, <2>1 DEF Work
<1>4. CASE q = d /\ Crash(d)
  <2>1. pc'[d] = "crashed" /\ worker' = worker /\ ~Ended(d)
    BY <1>0, <1>4 DEF Crash, TypeInv
  <2>2. PhasesAhead["crashed"] = 0 /\ PhasesAhead[pc[d]] \in 0..8
    BY <1>0, StagesType DEF PhasesAhead, TypeInv
  <2>3. /\ StagesAhead[worker[d][1]] \in 0..3 /\ StagesAhead[worker[d][2]] \in 0..3
        /\ StagesAhead[worker[d][3]] \in 0..3 /\ StagesAhead[worker[d][4]] \in 0..3
    BY <1>0, StagesType DEF TypeInv, Slots
  <2> QED BY <2>1, <2>2, <2>3 DEF Work
<1> QED BY <1>2, <1>3, <1>4

(* Nobody waits in vain: the pool has room for a worker at least, and      *)
(* whoever holds a token or is waited for can go on.                       *)
LEMMA NeverBlocked ==
  ASSUME IInv, NEW d \in Downs
  PROVE  Ended(d) \/ CanStep(d)
<1> SUFFICES ASSUME ~Ended(d), InFlight(d) = {}, pc[d] = "acquire"
             PROVE  Cardinality(InFlight(d)) < Limit(d)
  BY DEF IInv, TypeInv, Phases, Ended, CanStep
<1>1. Cardinality(InFlight(d)) = 0
  BY FS_EmptySet
<1> DEFINE n == Len(m[d].parts)
<1>2. n \in Slots
  BY DEF IInv, RunInv, WorkersInv, Active, Running, GoodManifest
<1>3. Limit(d) = IF ParallelParts < 1 THEN 1 ELSE IF ParallelParts > n THEN n ELSE ParallelParts
  BY DEF Limit
<1> HIDE DEF n
<1> QED BY <1>1, <1>2, <1>3, DownloadAssumption DEF Slots

(* No download is ever blocked, whatever fails, is cancelled or blocks the *)
(* worker pool, and each of its steps leaves less to be done, of at most   *)
(* 32 steps: given that a download which can step does, it ends            *)
(* (downloadParts' semaphore, loop and wg.Wait, Commit and Abort).         *)
THEOREM ProgressTheorem ==
  Spec => /\ [](CanGoOn /\ AtMost32)
          /\ [][LessToDo]_vars
<1>1. IInv => CanGoOn /\ AtMost32
  BY WorkType, NeverBlocked DEF IInv, CanGoOn
<1>2. IInv' => AtMost32'
  BY <1>1, PTL
<1>3. IInv /\ [Next]_vars => [LessToDo]_vars
  <2> SUFFICES ASSUME IInv, Next, NEW d \in Downs
               PROVE  Work(d)' <= Work(d) /\ (Step(d) => Work(d)' < Work(d))
    BY DEF LessToDo
  <2>1. CASE Step(d)
    <3>1. Work(d)' < Work(d)
      BY <2>1, StepWorks
    <3>2. Work(d) \in 0..32 /\ Work(d)' \in 0..32
      BY <1>1, <1>2, Inductive DEF AtMost32
    <3> QED BY <3>1, <3>2
  <2>2. CASE ~Step(d)
    <3>1. PICK q \in Downs : Step(q) \/ Interrupt(q) \/ Crash(q)
      BY DEF Next
    <3> QED BY <2>2, <3>1, OthersWork
  <2> QED BY <2>1, <2>2
<1> QED BY <1>1, <1>3, InvTheorem, PTL DEF Spec

=============================================================================
