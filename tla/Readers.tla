------------------------------ MODULE Readers -------------------------------
(***************************************************************************)
(* cmd/ferry: the commands that only read a remote, verify (deep and       *)
(* --quick), contents, list and inspect.  One invocation of one of them,   *)
(* against a store that others write to.  A Get is one step: what it       *)
(* opened stays readable when the object is replaced.                      *)
(***************************************************************************)
EXTENDS Integers, FiniteSets, SequencesExt, Snapshot

CONSTANTS
  Writers,    \* the uploads whose bytes the backend may hold
  SizeOf,     \* [Writers -> Nat], the compressed size of a part of each
  Name,       \* the snapshot's name
  Others,     \* keys of objects elsewhere in the bucket
  CtxAware    \* TRUE: s3, FALSE: file (ctx is ignored)

Tools == {"verify", "quick", "contents", "list", "inspect"}

VARIABLES
  tool,       \* the command that was started, or None
  pc,         \* where its RunE stands
  ctx,        \* the root context is cancelled
  m,          \* the manifest it has read
  i,          \* loop index: over the manifest's parts, or over the listing
  bad,        \* parts that are missing or are not what the manifest says
  errs,       \* parts that could not be read
  seen,       \* keys List has returned so far
  first,      \* history: the store when the manifest was read or listed
  tar, toc, manifest          \* the store, as in Upload

store      == <<tar, toc, manifest>>
readerVars == <<tool, pc, ctx, m, i, bad, errs, seen, first>>

Phases == {"start", "fetch", "parts", "list", "row", "ok", "err"}

Init ==
  /\ tool = None /\ pc = "start" /\ ctx = FALSE
  /\ m = None /\ i = 1 /\ bad = {} /\ errs = {} /\ seen = {}
  /\ first = None

-----------------------------------------------------------------------------
(* Keys are sequences of names.                                            *)

ManifestFilename == "manifest.json"
ManifestKey      == <<Name, ManifestFilename>>
TarKey(k)        == <<Name, "parts", k, "tar">>
TocKey(k)        == <<Name, "parts", k, "toc">>

(* The keys a listing meets below Name, in lexical order.                  *)
ListOrder ==
  << ManifestKey,
     TarKey(AncientChain), TocKey(AncientChain), TarKey(AncientState), TocKey(AncientState),
     TarKey(Live), TocKey(Live), TarKey(Triedb), TocKey(Triedb) >>

Exists(key) ==
  \/ key = ManifestKey /\ manifest # None
  \/ \E k \in PartKinds : \/ key = TarKey(k) /\ tar[k] # None
                          \/ key = TocKey(k) /\ toc[k] # None

(* groupSnapshots, first pass: the parent of every manifest.json.          *)
SnapshotNames(objs) ==
  {key[Len(key) - 1] : key \in {o \in objs : Last(o) = ManifestFilename /\ Len(o) > 1}}

(* Faulty variant: an object is credited to its parent, like a manifest.   *)
CountedByParent(objs, name) == {key \in objs : Len(key) > 1 /\ key[Len(key) - 1] = name}

(* groupSnapshots, second pass: the objects whose sizes name's row adds up. *)
Counted(objs, name) == {key \in objs : Len(key) > 1 /\ Head(key) = name}

-----------------------------------------------------------------------------

Dead == CtxAware /\ ctx

Observe == first' = [manifest |-> manifest, tar |-> tar, toc |-> toc]

(* The URL is split and the backend opened, which may fail.                *)
Start(t) ==
  /\ pc = "start"
  /\ tool' = t
  /\ \E other \in SUBSET Others : seen' = IF t = "list" THEN other ELSE {}
  /\ pc' \in {IF t = "list" THEN "list" ELSE "fetch", "err"}
  /\ UNCHANGED <<ctx, m, i, bad, errs, first>>

(* Get and Decode of manifest.json; inspect is done with it.               *)
FetchManifest ==
  /\ pc = "fetch"
  /\ \/ /\ manifest # None /\ ~Dead
        /\ m' = manifest
        /\ Observe
        /\ pc' = IF tool = "inspect" THEN "ok" ELSE "parts"
     \/ pc' = "err" /\ UNCHANGED <<m, first>>
  /\ UNCHANGED <<tool, ctx, i, bad, errs, seen>>

Listed == m.parts[i]

(* What Stat and the manifest's size, or hashPart and its digest, agree on. *)
Agrees ==
  /\ tar[Listed.name] # None
  /\ IF tool = "quick" THEN SizeOf[tar[Listed.name]] = SizeOf[Listed.sha256]
                       ELSE tar[Listed.name] = Listed.sha256

(* Faulty variant: a part that cannot be read is not counted.              *)
VerifyPartErrorDropped ==
  /\ pc = "parts" /\ tool \in {"verify", "quick"} /\ i <= Len(m.parts)
  /\ \/ bad' = bad /\ Agrees /\ ~Dead
     \/ bad' = bad \cup {i} /\ ~Agrees /\ ~Dead
     \/ bad' = bad
  /\ i' = i + 1
  /\ UNCHANGED <<tool, pc, ctx, m, errs, seen, first>>

(* verify: one part.  A bad or unreadable part does not end the loop, nor  *)
(* does a cancelled context.                                               *)
VerifyPart ==
  /\ pc = "parts" /\ tool \in {"verify", "quick"} /\ i <= Len(m.parts)
  /\ \/ ~Dead /\ bad' = (IF Agrees THEN bad ELSE bad \cup {i}) /\ UNCHANGED errs
     \/ errs' = errs \cup {i} /\ UNCHANGED bad
  /\ i' = i + 1
  /\ UNCHANGED <<tool, pc, ctx, m, seen, first>>

(* contents: one table of contents, printed while it is hashed.  The first *)
(* that is missing or different ends the command; a part of an old version *)
(* has none.                                                               *)
PrintTOC ==
  /\ pc = "parts" /\ tool = "contents" /\ i <= Len(m.parts)
  /\ \/ /\ Listed.toc = None \/ (toc[Listed.name] = Listed.toc /\ ~Dead)
        /\ i' = i + 1
        /\ UNCHANGED <<pc, bad, errs>>
     \/ /\ Listed.toc # None /\ toc[Listed.name] # Listed.toc /\ ~Dead
        /\ bad' = {i} /\ pc' = "err"
        /\ UNCHANGED <<i, errs>>
     \/ /\ Listed.toc # None
        /\ errs' = {i} /\ pc' = "err"
        /\ UNCHANGED <<i, bad>>
  /\ UNCHANGED <<tool, ctx, m, seen, first>>

(* verify and contents, after the loop.                                    *)
Conclude ==
  /\ pc = "parts" /\ i > Len(m.parts)
  /\ pc' = IF bad \cup errs = {} THEN "ok" ELSE "err"
  /\ UNCHANGED <<tool, ctx, m, i, bad, errs, seen, first>>

(* List: pages, or directory entries, in the order of the keys.  On a file *)
(* backend the temp file of a writer may vanish under the walk, which then *)
(* ends without an error (see FileBackend).                                *)
ListKey ==
  /\ pc = "list"
  /\ \/ /\ i <= Len(ListOrder) /\ ~Dead
        /\ seen' = IF Exists(ListOrder[i]) THEN seen \cup {ListOrder[i]} ELSE seen
        /\ IF i = 1 /\ manifest # None THEN Observe ELSE UNCHANGED first
        /\ i' = i + 1
        /\ UNCHANGED pc
     \/ /\ i > Len(ListOrder) \/ ~CtxAware
        /\ pc' = "row"
        /\ UNCHANGED <<i, seen, first>>
     \/ /\ pc' = "err"
        /\ UNCHANGED <<i, seen, first>>
  /\ UNCHANGED <<tool, ctx, m, bad, errs>>

(* fetchManifests: a row whose manifest cannot be read keeps its dashes.   *)
FetchRow ==
  /\ pc = "row"
  /\ \/ Name \in SnapshotNames(seen) /\ manifest # None /\ ~ctx /\ m' = manifest
     \/ UNCHANGED m
  /\ pc' = "ok"
  /\ UNCHANGED <<tool, ctx, i, bad, errs, seen, first>>

(* A signal, where it can make a difference.                               *)
Interrupt ==
  /\ pc \notin {"ok", "err"} /\ ~ctx
  /\ tool = "list" \/ (CtxAware /\ tool # None)
  /\ ctx' = TRUE
  /\ UNCHANGED <<tool, pc, m, i, bad, errs, seen, first>>

(* Nothing a reader does changes the store.                                *)
Next ==
  /\ \/ \E t \in Tools : Start(t)
     \/ FetchManifest \/ VerifyPart \/ PrintTOC \/ Conclude
     \/ ListKey \/ FetchRow \/ Interrupt
  /\ UNCHANGED store

=============================================================================
