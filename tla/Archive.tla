------------------------------ MODULE Archive -------------------------------
(***************************************************************************)
(* What is in the parts: the walk that turns <datadir>/geth into one tar    *)
(* stream per part (upload.go) and the extraction that turns the streams   *)
(* into a directory again (snapshot.Untar, legacy.Download).  Parts are    *)
(* walked, and extracted, concurrently.  A node that was started meanwhile *)
(* (the preflight is over by then, or --force skipped it) changes files    *)
(* under the walk.                                                         *)
(*                                                                         *)
(* A path is a sequence of names below geth/, a file's content its size.   *)
(* Requests and disks that fail are in Upload and Download; here a run     *)
(* fails only for what it finds in the datadir or in a stream.             *)
(***************************************************************************)
EXTENDS Integers, FiniteSets, SequencesExt, Snapshot

CONSTANTS
  Universe,    \* every path there may be, in the order of WalkDir
  Datadirs,    \* the directory trees there may be
  MaxChanges   \* how many files a running node touches during the walk

Paths     == ToSet(Universe)
Dir       == [kind |-> "dir", size |-> 0]
File(n)   == [kind |-> "file", size |-> n]
Symlink   == [kind |-> "link", size |-> 0]       \* a relative target
AbsLink   == [kind |-> "abslink", size |-> 0]
Fifo      == [kind |-> "fifo", size |-> 0]
Nodes     == {Dir, Symlink, AbsLink, Fifo} \cup {File(n) : n \in 0..MaxChanges + 1}
Links     == {Symlink, AbsLink}

Chaindata == <<"chaindata">>
Ancient   == <<"chaindata", "ancient">>

(* A tree is a function from the paths that exist to nodes.  The paths     *)
(* below a link are those its target has.                                  *)
IsTree(t) ==
  /\ DOMAIN t \subseteq Paths
  /\ \A p \in DOMAIN t :
       /\ t[p] \in Nodes
       /\ \A q \in Prefixes(p) \ {<<>>, p} : q \in DOMAIN t /\ t[q] \in {Dir, Symlink}

ASSUME ArchiveAssumption ==
  /\ Universe \in Seq(Paths) /\ Cardinality(Paths) = Len(Universe)
  /\ \A p \in Paths : p \in Seq(STRING) /\ p # <<>>
  /\ \A d \in Datadirs : IsTree(d)
  /\ MaxChanges \in Nat

VARIABLES
  source,   \* "parts", or the shape of a legacy tarball
  datadir,  \* <datadir>/geth where the upload runs
  orig,     \* history: datadir when the upload started
  touched,  \* history: the files the running node has changed
  upc,      \* the upload: start, walk, ok or err
  todo,     \* per part, the paths its walk has still to visit
  head,     \* per part, the file whose header is written but not its body
  stream,   \* per part, the entries of the tar stream
  dpc,      \* the download: idle, extract, ok or err
  pos,      \* per stream, how many entries are extracted
  dst       \* the scratch directory

up   == <<datadir, orig, touched, upc, todo, head, stream>>
down == <<dpc, pos, dst>>
vars == <<source, up, down>>

Tarball == "tarball"                    \* the one object of a legacy snapshot
Streams == PartKinds \cup {Tarball}

NoEntry == [path |-> <<>>, node |-> Dir]
Entry   == [path : Seq(STRING), node : Nodes]

-----------------------------------------------------------------------------
(* The upload side.                                                        *)

(* SrcSub of planParts.                                                    *)
Root(k) ==
  CASE k = Live         -> Chaindata
    [] k = AncientChain -> <<"chaindata", "ancient", "chain">>
    [] k = AncientState -> <<"chaindata", "ancient", "state">>
    [] k = Triedb       -> <<"triedb">>

ASSUME RootAssumption == \A k \in PartKinds : Root(k) \in Paths

(* Faulty variant: the prefix lacks its slash and matches siblings.        *)
SkipSiblings(k, p) ==
  k = Live /\ Len(p) > 1 /\ p[2] \in {"ancient", "ancient-old"}

(* Faulty variant: the chaindata part goes into ancient/, too.             *)
SkipNothing(k, p) == FALSE

(* Skip of the chaindata-live part.                                        *)
Skip(k, p) == k = Live /\ IsPrefix(Ancient, p)

(* The files a walk of part k comes to: not behind links, not below a name *)
(* that is skipped.                                                        *)
Walked(t, k, skipped) ==
  {p \in DOMAIN t :
     /\ IsPrefix(Root(k), p) /\ t[p].kind = "file"
     /\ \A q \in Prefixes(p) :
          IsPrefix(Root(k), q) => q \notin skipped /\ (q # p => t[q] = Dir)}

Sized(t, S) == [files |-> Cardinality(S), bytes |-> MapThenSumSet(LAMBDA p : t[p].size, S)]

(* planParts, walkSize: the total that the progress tracker of part k      *)
(* starts with.                                                            *)
WalkSize(t, k) == Sized(t, Walked(t, k, {q \in Paths : Skip(k, q)}))

BelowRoot(k, q) == SubSeq(q, Len(Root(k)) + 1, Len(q))

(* Faulty variant: the names are taken below geth/, as the upload has them. *)
PrintPlanBelowGeth(t, k) ==
  Sized(t, Walked(t, k, {q \in Paths : k = Live /\ IsPrefix(Ancient, BelowRoot(k, q))}))

(* The dry run, which has a walkSize of its own: names are relative to the *)
(* part's root there.                                                      *)
PrintPlan(t, k) ==
  Sized(t, Walked(t, k, {q \in Paths : k = Live /\ IsPrefix(<<"ancient">>, BelowRoot(k, q))}))

(* A legacy tarball, made by tar from geth/ ("rooted") or from             *)
(* geth/chaindata ("flat"), a directory.  Links are stored as links; the   *)
(* n-th entry is the n-th path in the order of the walk.                   *)
InTar(t, shape, p) ==
  /\ p \in DOMAIN t /\ IsPrefix(Chaindata, p)
  /\ \A q \in Prefixes(p) \ {<<>>, p} : t[q] \notin Links
  /\ shape = "flat" => p # Chaindata

LegacyTar(t, shape) ==
  LET places == {i \in DOMAIN Universe : InTar(t, shape, Universe[i])}
      nth(n) == Universe[CHOOSE i \in places :
                           Cardinality({j \in places : j <= i}) = n]
  IN  [n \in 1..Cardinality(places) |->
         [path |-> IF shape = "flat" THEN Tail(nth(n)) ELSE nth(n),
          node |-> t[nth(n)]]]

Init ==
  /\ source \in {"parts", "rooted", "flat"}
  /\ datadir \in Datadirs
  /\ source = "parts" \/ (Chaindata \in DOMAIN datadir /\ datadir[Chaindata] = Dir)
  /\ orig = datadir
  /\ touched = {}
  /\ upc = IF source = "parts" THEN "start" ELSE "ok"
  /\ todo = [k \in PartKinds |-> {}]
  /\ head = [k \in PartKinds |-> NoEntry]
  /\ stream = [k \in Streams |->
                 IF k = Tarball /\ source # "parts"
                 THEN LegacyTar(datadir, source) ELSE <<>>]
  /\ dpc = "idle"
  /\ pos = [k \in Streams |-> 0]
  /\ dst = <<>>

(* os.Stat follows links, so a linked source directory counts.             *)
PlannedParts ==
  ToSet(PlanParts(Root(AncientState) \in DOMAIN datadir,
                  Root(Triedb) \in DOMAIN datadir))

(* Faulty variant: validateAncientLayout is not called.                    *)
PlanUnvalidated ==
  /\ upc = "start"
  /\ upc' = "walk"
  /\ todo' = [k \in PartKinds |-> IF k \in PlannedParts THEN {Root(k)} ELSE {}]
  /\ UNCHANGED <<source, datadir, orig, touched, head, stream, down>>

(* validateAncientLayout: nothing but chain and state in ancient/, which   *)
(* may be a link and may be missing, but is not a file.                    *)
AncientLayoutValid ==
  \A p \in DOMAIN datadir :
    /\ p = Ancient => datadir[p] \in {Dir} \cup Links
    /\ IsStrictPrefix(Ancient, p) => p[3] \in {"chain", "state"}

Plan ==
  /\ upc = "start"
  /\ \/ /\ AncientLayoutValid
        /\ upc' = "walk"
        /\ todo' = [k \in PartKinds |->
                      IF k \in PlannedParts THEN {Root(k)} ELSE {}]
     \/ /\ ~AncientLayoutValid
        /\ upc' = "err"
        /\ UNCHANGED todo
  /\ UNCHANGED <<source, datadir, orig, touched, head, stream, down>>

(* WalkDir goes in lexical order, a directory before what it holds.        *)
First(S) ==
  Universe[CHOOSE i \in DOMAIN Universe :
             Universe[i] \in S /\ \A j \in 1..i - 1 : Universe[j] \notin S]

Children(p) == {q \in DOMAIN datadir : q # <<>> /\ Front(q) = p}

(* One name of part k's walk: pruned, or its header is written; the names  *)
(* of a directory are read when it is entered.  A name that has gone since *)
(* is an error, a linked directory an entry that is not entered.           *)
Visit(k) ==
  LET p == First(todo[k]) IN
  /\ upc = "walk" /\ todo[k] # {} /\ head[k] = NoEntry
  /\ \/ /\ Skip(k, p)
        /\ todo' = [todo EXCEPT ![k] = @ \ {p}]
        /\ UNCHANGED <<upc, head, stream>>
     \/ /\ ~Skip(k, p)
        /\ p \notin DOMAIN datadir
        /\ upc' = "err"
        /\ UNCHANGED <<todo, head, stream>>
     \/ /\ ~Skip(k, p)
        /\ p \in DOMAIN datadir
        /\ datadir[p].kind = "file"
        /\ head' = [head EXCEPT ![k] = [path |-> p, node |-> datadir[p]]]
        /\ todo' = [todo EXCEPT ![k] = @ \ {p}]
        /\ UNCHANGED <<upc, stream>>
     \/ /\ ~Skip(k, p)
        /\ p \in DOMAIN datadir
        /\ datadir[p].kind # "file"
        /\ stream' = [stream EXCEPT ![k] =
                        Append(@, [path |-> p, node |-> datadir[p]])]
        /\ todo' = [todo EXCEPT ![k] =
                      (@ \ {p}) \cup IF datadir[p] = Dir THEN Children(p) ELSE {}]
        /\ UNCHANGED <<upc, head>>
  /\ UNCHANGED <<source, datadir, orig, touched, down>>

(* The body follows its header.  A file that has gone cannot be opened; of *)
(* one that has grown or shrunk the tar writer takes too much or misses    *)
(* bytes, and refuses.                                                     *)
Copy(k) ==
  LET e == head[k] IN
  /\ upc = "walk" /\ e # NoEntry
  /\ \/ /\ e.path \in DOMAIN datadir
        /\ datadir[e.path] = e.node
        /\ stream' = [stream EXCEPT ![k] = Append(@, e)]
        /\ head' = [head EXCEPT ![k] = NoEntry]
        /\ UNCHANGED upc
     \/ /\ e.path \in DOMAIN datadir => datadir[e.path] # e.node
        /\ upc' = "err"
        /\ UNCHANGED <<stream, head>>
  /\ UNCHANGED <<source, datadir, orig, touched, todo, down>>

(* Every part has been walked; Upload has what follows.                    *)
Finish ==
  /\ upc = "walk"
  /\ \A k \in PartKinds : todo[k] = {} /\ head[k] = NoEntry
  /\ upc' = "ok"
  /\ UNCHANGED <<source, datadir, orig, touched, todo, head, stream, down>>

(* A node that runs appends to files, creates and removes them.            *)
NodeWrites(p) ==
  /\ upc = "walk"
  /\ Cardinality(touched) < MaxChanges /\ p \notin touched
  /\ \/ /\ p \in DOMAIN datadir
        /\ datadir[p].kind = "file"
        /\ \/ datadir' = [datadir EXCEPT ![p].size = @ + 1]
           \/ datadir' = [q \in DOMAIN datadir \ {p} |-> datadir[q]]
     \/ /\ p \notin DOMAIN datadir
        /\ ~\E q \in Paths : IsStrictPrefix(p, q)
        /\ Front(p) \in DOMAIN datadir
        /\ datadir[Front(p)] = Dir
        /\ datadir' = [q \in DOMAIN datadir \cup {p} |->
                         IF q = p THEN File(1) ELSE datadir[q]]
  /\ touched' = touched \cup {p}
  /\ UNCHANGED <<source, orig, upc, todo, head, stream, down>>

-----------------------------------------------------------------------------
(* The download side.                                                      *)

WithDirs(t, p) ==
  [q \in DOMAIN t \cup (Prefixes(p) \ {<<>>}) |->
     IF q \in DOMAIN t THEN t[q] ELSE Dir]

(* peekFirstTarEntry: the first name of a legacy tarball, nothing consumed; *)
(* that of a directory ends in a slash.                                    *)
Rooted ==
  /\ stream[Tarball] # <<>>
  /\ LET e == stream[Tarball][1] IN
       IsPrefix(Chaindata, e.path) /\ (e.path = Chaindata => e.node = Dir)

(* Where a stream is extracted; legacy.Download tells the shapes apart by  *)
(* the first name.                                                         *)
Base(k) == IF k = Tarball /\ ~Rooted THEN Chaindata ELSE <<>>

(* A complete snapshot is downloaded, each part by a worker; or a tarball, *)
(* into a chaindata of its own if its names lack one.                      *)
Begin ==
  /\ upc = "ok" /\ dpc = "idle"
  /\ dpc' = "extract"
  /\ dst' = IF source = "parts" \/ Rooted THEN dst ELSE WithDirs(dst, Chaindata)
  /\ UNCHANGED <<source, up, pos>>

(* MkdirAll(p) finds a directory, or nothing, at p and at all its parents. *)
CanMkdirAll(p) ==
  \A q \in Prefixes(p) \cap DOMAIN dst : dst[q] = Dir

WithNode(t, p, n) ==
  [q \in DOMAIN t \cup {p} |-> IF q = p THEN n ELSE t[q]]

(* Faulty variant: a directory is made with Mkdir, not with MkdirAll.      *)
ExtractableMkdir(n, p) ==
  CASE n = Dir         -> Front(p) \in DOMAIN dst \cup {<<>>} /\ CanMkdirAll(p)
    [] n.kind = "file" -> CanMkdirAll(Front(p))
    [] n = Symlink     -> CanMkdirAll(Front(p)) /\ p \notin DOMAIN dst
    [] n = AbsLink     -> FALSE
    [] n = Fifo        -> TRUE

(* What safeExtract accepts: a file may replace a file, a link nothing.    *)
Extractable(n, p) ==
  CASE n = Dir         -> CanMkdirAll(p)
    [] n.kind = "file" -> /\ CanMkdirAll(Front(p))
                          /\ p \in DOMAIN dst => dst[p].kind = "file"
    [] n = Symlink     -> CanMkdirAll(Front(p)) /\ p \notin DOMAIN dst
    [] n = AbsLink     -> FALSE
    [] n = Fifo        -> TRUE

(* safeExtract for one entry.                                              *)
Placed(n, p) ==
  CASE n = Dir  -> WithDirs(dst, p)
    [] n = Fifo -> dst
    [] OTHER    -> WithNode(WithDirs(dst, Front(p)), p, n)

(* One round of Untar's loop.                                              *)
Extract(k) ==
  /\ dpc = "extract"
  /\ pos[k] < Len(stream[k])
  /\ LET e == stream[k][pos[k] + 1]
         p == Base(k) \o e.path IN
       \/ /\ Extractable(e.node, p)
          /\ dst' = Placed(e.node, p)
          /\ pos' = [pos EXCEPT ![k] = @ + 1]
          /\ UNCHANGED dpc
       \/ /\ ~Extractable(e.node, p)
          /\ dpc' = "err"
          /\ UNCHANGED <<dst, pos>>
  /\ UNCHANGED <<source, up>>

(* Every stream has come to its end.                                       *)
Extracted ==
  /\ dpc = "extract"
  /\ \A k \in Streams : pos[k] = Len(stream[k])
  /\ dpc' = "ok"
  /\ UNCHANGED <<source, up, pos, dst>>

Next ==
  \/ Plan \/ Finish \/ Begin \/ Extracted
  \/ \E k \in PartKinds : Visit(k) \/ Copy(k)
  \/ \E p \in Paths : NodeWrites(p)
  \/ \E k \in Streams : Extract(k)

Spec == Init /\ [][Next]_vars

-----------------------------------------------------------------------------

(* What a node needs back: chaindata and triedb, links as links.  Only     *)
(* through a link at chaindata/ancient does a walk go (it starts below).   *)
Kept(p) ==
  /\ p \in DOMAIN orig
  /\ orig[p] # Fifo
  /\ Head(p) = "chaindata" \/ (source = "parts" /\ Head(p) = "triedb")
  /\ \A q \in Prefixes(p) \ {<<>>, p} :
       orig[q] \in Links => source = "parts" /\ q = Ancient

(* A datadir that did not change during the upload comes back as it was,   *)
(* in whatever order the entries of the parts are extracted, a link at     *)
(* chaindata/ancient as a directory; so does the content of a legacy       *)
(* tarball of either shape (planParts, tarTree, Untar, legacy.Download).   *)
Restored ==
  dpc = "ok" /\ touched = {} =>
    dst = [p \in {q \in DOMAIN orig : Kept(q)} |->
             IF source = "parts" /\ p = Ancient THEN Dir ELSE orig[p]]

(* Whatever a running node does meanwhile, an upload that succeeds has     *)
(* every file the node left alone, exactly once (tarTree, planParts,       *)
(* validateAncientLayout: "fail fast rather than ship an incomplete        *)
(* snapshot").                                                             *)
StableFilesKept ==
  upc = "ok" /\ source = "parts" =>
    \A p \in {q \in DOMAIN orig : Kept(q) /\ orig[q].kind = "file"} \ touched :
      \E k \in PartKinds : \E i \in DOMAIN stream[k] :
        /\ stream[k][i] = [path |-> p, node |-> orig[p]]
        /\ \A l \in PartKinds : \A j \in DOMAIN stream[l] :
             stream[l][j].path = p => l = k /\ j = i

(* The sizes a dry run prints, and those the progress bars start from, are *)
(* those of the files the upload then streams, part by part, if the        *)
(* datadir does not change; the two walks that count and the one that      *)
(* streams are three pieces of code (cmd/ferry/upload.go, printPlan;       *)
(* upload.go, walkSize and tarTree).                                       *)
PlannedIsUploaded ==
  upc = "ok" /\ source = "parts" /\ touched = {} =>
    \A k \in PartKinds :
      LET sent == {stream[k][i].path : i \in {j \in DOMAIN stream[k] :
                                               stream[k][j].node.kind = "file"}}
      IN  /\ WalkSize(orig, k) = Sized(orig, sent)
          /\ PrintPlan(orig, k) = Sized(orig, sent)

(* Workers that extract different parts never write the same path, so      *)
(* their order cannot matter (planParts, Skip).                            *)
PartsDisjoint ==
  \A k, l \in PartKinds : k # l =>
    \A i \in DOMAIN stream[k], j \in DOMAIN stream[l] :
      stream[k][i].path # stream[l][j].path

(* What an upload has accepted extracts without an error, whatever the     *)
(* order of the parts, except for an absolute link, which only Untar       *)
(* refuses (safeExtract).                                                  *)
ExtractsUnlessAbsolute ==
  dpc = "err" =>
    \E k \in Streams : \E i \in DOMAIN stream[k] : stream[k][i].node = AbsLink

=============================================================================
