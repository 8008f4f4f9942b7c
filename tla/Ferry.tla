------------------------------- MODULE Ferry --------------------------------
(***************************************************************************)
(* All commands against one backend: uploads that publish, or replace, a    *)
(* snapshot while downloads and readers (verify, contents, list, inspect)  *)
(* of the same name read it.  They share the objects and nothing else; a   *)
(* download or a reader reads the manifest once and the parts later, one   *)
(* by one.                                                                 *)
(***************************************************************************)
EXTENDS Integers, FiniteSets, Snapshot

CONSTANTS
  Runs, Prev, Invocations, ParallelParts, CtxAware,     \* Upload's
  Downs, Local, Broken, NoDir, DiskFaults,              \* Download's
  SizeOf, Name, Others                                  \* Readers'

VARIABLES
  inv, upc, uctx, uerr, unext, uworker, results,
  force, dpc, dctx, derr, dnext, dworker, m, scratch, geth, orig,
  tool, rpc, rctx, rm, ri, bad, errs, seen, first,
  tar, toc, manifest

U == INSTANCE Upload WITH
       pc <- upc, ctx <- uctx, firstErr <- uerr, next <- unext,
       worker <- uworker

D == INSTANCE Download WITH
       Writers <- Runs \cup {Prev}, Shapes <- BOOLEAN \X BOOLEAN,
       pc <- dpc, ctx <- dctx, firstErr <- derr, next <- dnext,
       worker <- dworker

R == INSTANCE Readers WITH
       Writers <- Runs \cup {Prev}, pc <- rpc, ctx <- rctx, m <- rm, i <- ri

(* What Upload and Download assume of their constants.                     *)
ASSUME FerryAssumption ==
  /\ Prev \notin Runs
  /\ {None, Local, Broken, NoDir} \cap (Runs \cup {Prev}) = {}
  /\ None # Local /\ None # Broken /\ Local # Broken
  /\ Invocations \subseteq U!InvocationType
  /\ ParallelParts \in Int
  /\ CtxAware \in BOOLEAN /\ DiskFaults \in BOOLEAN

uploadVars   == <<inv, upc, uctx, uerr, unext, uworker, results>>
downloadVars == <<force, dpc, dctx, derr, dnext, dworker, m, scratch, geth, orig>>
readerVars   == <<tool, rpc, rctx, rm, ri, bad, errs, seen, first>>
vars         == <<uploadVars, downloadVars, readerVars, tar, toc, manifest>>

Init == U!Init /\ D!InitRuns /\ R!Init

UploadStep   == U!Next /\ UNCHANGED <<downloadVars, readerVars>>
DownloadStep == D!Next /\ UNCHANGED <<uploadVars, readerVars, toc>>
ReaderStep   == R!Next /\ UNCHANGED <<uploadVars, downloadVars>>

Next == UploadStep \/ DownloadStep \/ ReaderStep

Spec == Init /\ [][Next]_vars

-----------------------------------------------------------------------------

(* What a download that was not interrupted promotes is the whole of ONE   *)
(* upload: the parts that upload planned and no others, each with that     *)
(* upload's bytes, even when parts and manifest are replaced while it runs *)
(* (download.go, Run: manifest first, parts later, digests in between).    *)
PromotesOneUpload ==
  \A d \in Downs :
    D!Committing(d) /\ ~dctx[d] =>
      \E w \in Runs \cup {Prev}, s, t \in BOOLEAN :
        /\ scratch[d] = Objects(w, PlanParts(s, t))
        /\ w \in Runs => PlanParts(s, t) = U!Planned(w)

(* What verify or contents report good was whole at ONE moment, when the   *)
(* manifest was read: all parts, and their tables of contents, were the    *)
(* listed ones, although the parts are read later, one by one, and may be  *)
(* replaced meanwhile (verify.go: manifest first, parts later).            *)
VerifiedWasIntact ==
  rpc = "ok" =>
    /\ tool = "verify" =>
         \A n \in DOMAIN rm.parts : first.tar[rm.parts[n].name] = rm.parts[n].sha256
    /\ tool = "contents" =>
         \A n \in DOMAIN rm.parts : first.toc[rm.parts[n].name] = rm.parts[n].toc

(* No false alarm: a part or a table of contents is found missing or       *)
(* different only if some upload was asked to --overwrite; a check that    *)
(* runs while a new snapshot is being published never catches it half-way  *)
(* (upload.go: the manifest is written last).                              *)
AlarmMeansOverwrite == bad # {} => \E r \in Runs : inv[r].overwrite

(* A row of list whose manifest was in the listing adds up every object    *)
(* that manifest lists, however the listing and the uploads interleave, if *)
(* the listing ran to its end (list.go, groupSnapshots: TotalSize is the   *)
(* "sum of object sizes under the snapshot prefix").                       *)
RowIsWhole ==
  tool = "list" /\ rpc = "ok" /\ first # None /\ ri > Len(R!ListOrder) =>
    \A n \in DOMAIN first.manifest.parts :
      {R!TarKey(first.manifest.parts[n].name), R!TocKey(first.manifest.parts[n].name)}
        \subseteq R!Counted(seen, Name)

=============================================================================
