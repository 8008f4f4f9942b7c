# geth-ferry in TLA+

Specifications of `ferry`, the tool that moves a stopped geth node's datadir to
and from an object store as a named snapshot. Line references are to `src/`.

- [The system](#the-system)
- [Modules and how they correspond to the code](#modules-and-how-they-correspond-to-the-code)
- [Runs](#runs)
- [Bounds](#bounds) and [fairness](#fairness)
- [Proofs](#proofs)
- [Where code and documentation part](#where-code-and-documentation-part)
- [Not modelled, and the plan](#not-modelled-and-the-plan)

## The system

A snapshot `<prefix>/<name>/` is `manifest.json`, up to four part objects
`parts/<kind>.tar.zst` and, next to each, a table of contents
`parts/<kind>.toc.zst`. The manifest lists the parts with their sha256.

| component | state it keeps | operations | what makes it correct |
|---|---|---|---|
| upload (`pkg/upload`) | options, the planned parts, a results slice, a worker pool (semaphore, wait group, first error), contexts | `Run`: validate, preflight, overwrite check, plan, upload parts and TOCs concurrently, validate and write the manifest last | a manifest is never partial, describes the bytes that are there, and never replaces another one unasked; Run returns, and is quiet afterwards |
| download (`pkg/download`) | the manifest it read, a worker pool, the scratch directory | `Run`: prepare, read the manifest, fetch, extract, verify concurrently, commit or abort | only complete and verified trees are promoted; a failure changes nothing and leaves nothing |
| atomic swap (`pkg/snapshot/extract.go`) | scratch path, destination, done flag | `PrepareAtomic`, `Commit`, `Abort`, `Untar` | old tree or new tree, nothing else |
| manifest (`pkg/snapshot`) | none | `Validate`, `Encode`, `Decode`, names and URLs | a valid manifest has distinct, named, digested parts |
| S3 writer (`pkg/backend/s3`) | buffer being filled, part number, semaphore, wait group, completed parts, first error; a buffer pool shared by all writers | `Put`, `Write`, `Close`, `Abort` | the object is the bytes written, once each and in order; buffers have one owner; nothing runs when the upload is completed or aborted; calls return |
| file backend (`pkg/backend/file`) | temp file and final path per writer; the directory tree | `Put`, `Write`, `Close`, `Abort`, `List`, `Stat`, `Get` | objects appear whole or not at all; `List` lists what exists |
| readers (`cmd/ferry` verify, contents, list, inspect) | the manifest read, what was bad, what was listed | read the manifest, then parts, TOCs or the listing | what they call good was whole at one moment; no false alarm while a new snapshot is published |
| tar stream (`tarTree`, `validateAncientLayout`, `Untar`) | none | one walk per part, one extraction per part, all concurrent | extraction gives back the tree that was walked; what a running node leaves alone is complete; parts are disjoint |
| legacy download (`pkg/legacy`) | scratch directory | one tarball into the same atomic target | as for download, without a digest |
| progress (`pkg/progress`) | byte counter, two channels | `Start`, `Stop`, ticker goroutine | Stop returns, its report is the last line |
| datadir inspection (`internal/datadir`, and `uploadCmd`'s merge of flags) | what was read so far; pebble and the freezer are read, not kept | `Inspect`, `Capabilities`, the RLP walks, the fall-back to flags | reads the right field, never beyond the buffer; the manifest tells the truth about the datadir |
| command line (`cmd/ferry`) | flags | the commands above, a dry run | prints the plan that is uploaded |

How they interact: the CLI calls `upload.Run` or `download.Run` with a context
that SIGINT and SIGTERM cancel. The pipelines use a backend through
`backend.Backend` and `backend.Writer`, part workers run concurrently and share
the results slice, the first error and the context; multipart writers share a
buffer pool and own goroutines of their own. Two processes meet only in the
store (uploads and downloads of one name) or in a datadir (downloads into one
`<datadir>/geth`).

What is hard here: the context may be cancelled between any two steps, and only
the S3 backend looks at it; a request may fail after it took effect; parts
finish, fail or never start in any order; checks made at the start
(`checkOverwrite`, `EnsureEmpty`) are relied on hours later; `Commit` is two
steps; processes die anywhere; the zstd encoder writes from a goroutine of its own
that nobody waits for on an error path; a datadir is read at several moments while a
node may start. `PROJECT.json` lists each hazard at its line
with the properties that would catch it.

## Modules and how they correspond to the code

**Snapshot** (parts, canonical plan, `Manifest.Validate`). Bytes are abstracted
to their producer: the stream of part *k* made by run *r* is the value *r*
stored under *k*, and so is its sha256. Two streams are equal only if one run
made them.

**Upload** models concurrent `upload.Run`s against one name. `pc` says where
the goroutine of `Run` stands, `worker` where the goroutine of each part is,
`firstErr`, `next` and `results` are the variables of `uploadParts`; `tar`,
`toc` and `manifest` are the visible objects. Actions in code order:
`Preflight`, `CheckOverwrite`, `Plan`, `Dispatch` (head of the loop with its
`runCtx.Err()` test), `Acquire` (semaphore and go statement), `UploadTar` and
`UploadTOC` (one visible effect each), `Collect` (`wg.Wait`, first error,
`Validate`), `WriteManifest`; plus `Interrupt` and `Crash`. A `Put .. Close` is
one step with three outcomes: `ok`, `fail`, and on S3 `lost`, a commit whose
answer never came back. With `CtxAware = FALSE` (file backend) a cancelled
context stops nothing but the loop, which is what the code does.

**Download** models concurrent `download.Run`s into one datadir, with
`AtomicTarget` in it: a directory tree maps each part kind to whose bytes its
subtree holds (parts have disjoint targets). `Extract` puts bytes on disk before
`VerifyPart` compares the digest, as `downloadPart` does. `Commit` is two
actions, `RemoveOld` and `Promote`, because processes and disks fail between
them; `os.Rename` refuses an existing directory. `DiskFaults` lets `MkdirTemp`,
`RemoveAll` and `Rename` fail.

**Archive** opens up what Upload and Download take for one step: the walk of each
part (`Visit`, `Copy`: header, then body) over a directory tree with links, fifos,
missing freezer directories and unknown entries, while a node may append to,
create or remove files (`NodeWrites`), and the extraction of the streams entry by
entry, interleaved as the workers are (`Extract`: `MkdirAll` of the parents, files,
links, what is refused). A path is a sequence of names, a content its size. A
legacy tarball is one stream of either shape, extracted where `Base` says: at the root if
its first name begins with `chaindata/` (`Rooted`; the name of a directory ends in a slash, that
of a file called chaindata does not), and otherwise into a chaindata that `Begin` makes
before the first entry is read. A link
stands for its target: paths below it exist, and a walk does not enter it. What
Download assumes, that parts have disjoint targets, is `PartsDisjoint` here. The dry
run of `uploadCmd` is there too: `WalkSize` walks as it does, with names relative to
another directory, and `PrintPlan` is what it prints. `AncientLayoutValid` refuses a file
in the place of `ancient`, as `os.ReadDir` does.

**Readers** models the commands that only read a remote: `verify`, `verify --quick`,
`contents`, `inspect` (`FetchManifest`, then `VerifyPart` or `PrintTOC` part by part,
`Conclude`) and `list` (`ListKey` in lexical order, as S3 pages and `WalkDir` do;
grouping by `SnapshotNames` and `Counted`; `FetchRow`). A `Get` is one step: what it
opened stays readable when the object is replaced.

**Ferry** composes Upload, Download and Readers over one store (`INSTANCE`): every step
of one interleaves with every step of the others.

**RLP** is `header.go` on sequences of bytes with Go's integer widths: `EnterRLPList`,
`SkipRLPItem`, `ReadRLPUint`, and the walk that `readHeaderTimestamp` and
`readFreezerMetaTail` share. Its results are `ok`, `err` and `panic`, an index out of
range. The loops are recursive functions, and the sizes of the encoding are constants, of
which Go's are one value. What geth writes (`EncodeUint`, `EncodeList`) is the reference to compare with.

**Inspect** models what an upload says about its datadir, action by action as
`uploadCmd` opens things: `InspectDatadir` (one pebble open, first failing read ends
it), `Wire` (flags merged), `ReadChainTail`, `ReadTxTail` (the second open),
`Preflight`, `MakeManifest`, `UploadParts`. `info` is what `Inspect` returned, the empty
`Info` if it failed; `WellFormed` says what of a geth datadir the code relies on: among it, that the header and `bodies.meta`
are what geth encodes, for some items before the field that is read, unless they were cut
or overwritten (`damage`). Between any two of them a node may start,
add blocks, prune and stop (external). `needAutoDetect`, `headHash`, `headTimestamp`,
`deriveStateRange` and the fallback `detectStateScheme` are definitions of those names.
The time is a uint64 in the header and an int64 in the manifest; `HeadTimestamp` converts
it as `cmd/ferry/upload.go:98` does.

**ObjectWriter** is the abstract `backend.Writer`: write, then exactly one of
commit and discard; with `Lossy` a commit may be reported as a failure.

**MultipartWriter** opens up the S3 `Put`: filling the buffer, rotating in a
pooled one *before* waiting for the semaphore, `UploadPart` goroutines,
`Close` (flush, wait, sort, complete) and `Abort`, which has a control state of its own
(`term`) because it may be called while a Write of another goroutine waits. Buffers have an identity and
a memory, and another writer scribbles into free ones, so sharing a buffer
shows as wrong bytes in the object. S3 itself is external: it takes a part while
the upload is open and the part number is in range, and completes an upload for a
non-empty ascending list. The module is shown to implement ObjectWriter with
`Lossy = TRUE` (`Contract` and `ImplementsWriter`, its mapping).

**PartStream** is the writer's caller, `uploadPart`: the stream goes through tar and the
asynchronous zstd encoder (`Feed`, `WriteBlock`), which only its `Close` (`Flush`) waits
for; an error path (`StreamFails`) returns without that wait, through the deferred
`Tracker.Stop` and `bw.Abort`. The tracker's goroutine and its two channels are `Tick`,
`Quit`, `StopCall` and `Stop`.

**FileBackend** has the temp-file writers of the file backend, with crashes, and
the `WalkDir` of `List` walking at the same time: a directory is read at once,
`Info` is asked name by name. Every writer is shown to implement ObjectWriter with
`Lossy = FALSE` (`Contract(w)`, `ImplementsWriter`).

**MCUpload, MCDownload, MCArchive, MCFerry, MCMultipart, MCFileBackend, MCInspect** only
give values to constants and symmetry sets. **UploadProofs**, **DownloadProofs**,
**MultipartProofs**, **FileBackendProofs**, **ArchiveProofs**, **InspectProofs** and
**FerryProofs** hold the theorems, **SnapshotProofs** the lemma on plans that the first two
share. Definitions commented *Faulty variant* are plausible bugs
of the action that follows them; each property is known to fail on one of them.

## Runs

| run | instance | what it shows |
|---|---|---|
| `upload_s3` | 1 run, S3, all 128 option/datadir combinations, two parts at a time, name free / leftovers / taken | `IntactUnlessRival`, `SuccessIsPublished`, `NoSilentReplace` under failing requests, lost answers, signals and crashes |
| `upload_file` | 2 runs, file backend, `--parallel-parts 0`, with and without `--overwrite` | `PublishedComplete` (an interrupted loop leaves zero parts in the results, `Validate` catches them), `FailureIsUnpublished`, `QuietAfterReturn`, `Terminates` |
| `download_file` | 1 run, file backend, every snapshot shape, objects missing or replaced | `FailureKeepsOriginal`, `PromotedVerified`, `NoLeftovers`, `UnforcedKeepsFiles`, `Terminates` |
| `download_s3` | 2 runs into one datadir, S3, two parts at a time | `UninterruptedIsComplete`, `RaceLeavesWholeTree` |
| `download_interrupted` | 1 run, file backend | violation: an interrupted download promotes an incomplete tree |
| `download_commit` | 1 run, disk faults and crashes | violation: `Commit` can leave neither tree |
| `multipart` | one part streamed by uploadPart; 2-byte buffers, concurrency 2, up to 7 bytes and 4 parts where S3 takes 3, another writer on the pool | `CommittedIsWritten`, `QuietTermination`, `BuffersExclusive`, `BufferCeiling`, `NeverStuck`, `OnlyWholeStreams`, `ReturnsClean`, refinement of ObjectWriter |
| `file_backend` | 2 writers in 2 directories, one overwriting | `NoPartialObject`, `TempsCleaned`, `QuietListComplete`, refinement of ObjectWriter |
| `file_list_race` | the same | violation: `List` silently stops at a vanished temp file |
| `archive` | small datadirs with and without freezer parts, triedb, links at `ancient` and `ancient/chain`, one leaf of each kind, an unknown entry; one file changed during the walk; tarballs of both shapes, one of them of an empty chaindata | `Restored`, `StableFilesKept`, `PlannedIsUploaded` (the dry run counts what the walk uploads), `PartsDisjoint`, `ExtractsUnlessAbsolute` |
| `ferry` | 1 upload, and 1 download onto a disk that may fail or 1 reader, file backend | `PromotesOneUpload`, `VerifiedWasIntact`, `AlarmMeansOverwrite`, `RowIsWhole` |
| `inspect` | families of datadirs: every set of flags, every one or two unreadable keys, heads around the window and around 2^64, every class of RLP item in a header, cut and random bytes; a node that runs in between | `HeadTravelsTogether`, `TruthfulManifest`, `CapabilitiesServeable`, `ReadsTheField` |

Deadlock checking is off: every run of a pipeline, every writer, every walk and every List
ends, and the system then stops.

Some of the properties are about what *weakens* a guarantee, and are stated with
that limit: `IntactUnlessRival` and `SuccessIsPublished` hold while no other run
has started to write parts under the name (`NoRival`); `UninterruptedIsComplete`
holds while no signal came, `Restored` while no node changed the datadir,
`ExtractsUnlessAbsolute` without absolute links; `CapabilitiesServeable` and half of
`TruthfulManifest` while no node ran since `Inspect`; `RowIsWhole` for a manifest that
was in a complete listing; `HeadTravelsTogether` has the header's time in the manifest if
an int64 can hold it, and a negative one if not; `QuietTermination` allows for the one part whose Write an
Abort overtook. The unlimited versions fail, see below.

The type invariant of Upload is checked in `upload_s3`, that of MultipartWriter is proved;
the other modules state no types beyond their comments.

## Bounds

- Two runs, or two downloads, are enough for every race the code has: all
  conflicts are pairwise (one check, one replaced object, one promoted tree).
- Upload and download work on two to four parts (all plans in the single-run
  instances; the two-part plan with two runs). A pool of one worker blocks the
  loop on the semaphore, a pool of two has parts in flight in both orders.
  `--parallel-parts 0` exercises the clamp, without which the loop would block
  for ever.
- `Prev` is one earlier upload; whatever more of them left behind is as much
  foreign as its objects are. For a download, objects may be missing or come
  from a second upload, part by part.
- MultipartWriter: 7 bytes in 2-byte buffers make three full parts and a short
  one; the third and fourth have to wait for the two tokens; `MaxParts = 3` makes
  the fourth exceed S3's limit. Five buffers are what one writer can hold
  (concurrency + 2) plus one for the other writer, so the pool never runs dry,
  as `sync.Pool`, which allocates, never does. Buffers are interchangeable
  (symmetry).
- Archive: one leaf per directory, because a walk treats the names of a directory
  alike; `ancient-old` has `ancient` as a prefix of its name. One change during the
  walk is a race with one file; a part whose file was touched fails or succeeds by
  itself, and nothing relates two changed files.
- Ferry: a reader and a download share nothing but the store, which neither writes, so
  they need not be active at once; snapshots of two parts, an earlier upload of two or
  three, of another size than the new one; one object elsewhere in the bucket is called
  `old/<name>/manifest.json`.
- Inspect and RLP: the sizes of the encoding are constants. `Single = Short = Word = 2`
  give an alphabet of 12 bytes with every prefix class and lengths of up to two bytes,
  and integers of 144 values, so that every overflow is a few bytes away (header times of
  71 and 72 are the two sides of an int64's end, 143 is the last uint64); Go's values
  are 128, 55 and 8. The time is the third item instead of the twelfth, the window of
  states 3 blocks instead of 128. Two events are a start and a block, or two starts.
  Random bytes are enumerated up to length 4.
- FileBackend: two bytes per writer, so that there is a proper prefix; two
  directories, so that there is something to miss after the first.

## Fairness

`FairSpec` of Upload and of Download assume weak fairness of `Step` per run: the
Go scheduler runs goroutines that can run, requests end in an answer or an
error (the SDK has timeouts, the file system answers), and nothing else. `Interrupt`
and `Crash` have no fairness: `Terminates` must hold whether they come or not.
Nothing is assumed about the order in which workers run. MultipartWriter has no
fairness; `NeverStuck` says that a call in progress always has a step to take,
and each internal step uses up bytes, workers or requests (`LessToDo`).

## Proofs

Theorems hold for every value of the constants that satisfies the modules' named
assumptions: types, distinct names, and what the code relies on.
`OldAssumption` makes `Old`, the token for an object of an earlier upload, no value that is
written;
`FerryAssumption` and `FileAssumption` are types; `InspectAssumption` holds datadirs to
what a node leaves (`WellFormed`), a header and a meta file being shorter than a quarter of
the numbers an int has (`Fits`; 2^62 bytes for Go), and `None` to be no hash; `RLPAssumption` makes the sizes of the
encoding positive and a word's width a length that a short prefix can say (`Word <= Short`,
8 and 55 for Go);
`ArchiveAssumption` makes paths sequences of names and datadirs trees, and
`RootAssumption` has the roots of the four parts among the paths. TLC evaluates all of
them on its instances. A hypothesis that only some theorems need is in their `ASSUME`, and
named below with what goes wrong without it.

**UploadProofs**, with no bound on the number of runs, any `--parallel-parts`, any set of
option combinations and both kinds of backend: `TypeCorrect`,
`PublishedCompleteTheorem` and `IntactTheorem`. The inductive invariant is `IInv`: types,
`WorkersInv` (a worker that has started has an index below `next`; a result slot is
filled exactly when its worker is done, with the digest of its own run; the object of a
finished stage exists) and `PhaseInv` (a run that writes its manifest has all its workers
done). `PublishedComplete` is not inductive alone: that the manifest is complete follows
from the state of the results slice at the moment `Collect` validated it, which is what
the two conjuncts remember. The key lemma is `ValidMeansDone`: a results slice that
passes `Validate` has no zero part, hence every worker is done, even when the loop ended
early without an error. For `IntactTheorem`, `BytesInv` adds `OwnBytesInv` (without a
rival, the bytes a worker has uploaded are still its own); `EffectsLemma` reduces every
action to what it may change in the store, and `EffectsKeepBytes` is then one argument
for all of them. TLC has checked both invariants on the instances of `upload_s3` and
`upload_file`. `OutcomeInv` adds that nothing of a run is in flight once it has waited for
its workers (`QuietInv`), and what its last step published: `SuccessTheorem`, `FailureTheorem` (for a backend
whose failed Close has no effect, `~CtxAware`: on S3 the answer to the manifest's Close may
be lost) and `QuietTheorem`, an action property. `ReplaceTheorem` is for one run at a time:
`FreeInv` carries "the name was free" from `CheckOverwrite` to `WriteManifest`, and a second
run may make it stale.

**DownloadProofs**, for any number of racing downloads, any `--parallel-parts`, both kinds
of backend and any damage to the snapshot: `VerifiedTheorem` (`PromotedVerified`),
`CompleteTheorem` (`UninterruptedIsComplete`), and for a disk that works
(`~DiskFaults`) `KeepsOriginalTheorem` and `NoLeftoversTheorem`. The invariant of a run is
`RunInv`: which workers have started, that every subtree of the scratch directory is
the work of one of them and is the listed one if it is done, that an error is never
forgotten and that only errors and signals end the loop early. `PromotedVerified` needs
it because extraction precedes verification: that nothing unverified is left at
`Commit` follows from `firstErr` being unset and no worker in flight. `FrameLemma` says
that a step of one run leaves the invariant of the others alone, `RunStep` has one case
per action. `KeepsOriginalTheorem` is about the datadir the runs do share: `SwapInv`
says who can have changed it. `RaceTheorem` (`RaceLeavesWholeTree`, on a disk that works)
rests on `RaceInv`: the destination has what a run promoted that succeeded, or what was there
before, and is missing only while some run is between `RemoveOld` and `Promote`. `UnforcedTheorem` is for one run at
a time, since of two unforced ones the second may remove what the first promoted.

**MultipartProofs**, for any part size, concurrency, part limit, number of bytes and pool:
`TypeCorrect`, `ExclusiveTheorem`, `QuietTheorem`, `CeilingTheorem`.
`BuffersExclusive` is inductive with the types. `QuietTheorem` needs `ProtocolInv`, which
relates where Close and Abort stand to `w.failed` and to the workers: after an Abort
only a Write that already waits for a token can still start one. `CeilingTheorem` needs
`CountInv` (part numbers follow the bytes, so each is used once) and `HeldInv` (a buffer
that is held is being filled, waits, or is the body of a running worker, and there are
no more of those than tokens). `StreamTheorem` shows that every step of PartStream is
one of the writer, so all three hold for every part of an upload;
`WholeStreamTheorem` is `OnlyWholeStreams`, by `StreamInv`, and `ReturnTheorem` is
`ReturnsClean`, by `ReturnInv`.

`CommittedTheorem` says that the object is what was written. The list that Close sorts and
completes has every part that was sent once (`ListInv`), up to the last byte (`FlushInv`),
and each part is its own piece of what was produced: `ContentInv` says so of a buffer while it
is filled, waits and is sent, and of what the server has got. `SortedLemma` says that part i
is at place i after the sort; it needs no induction: another ascending
list would have to fit too many numbers below some place (`AscendingIsIdentity`, by
cardinalities). `ContractTheorem` is the refinement of
`ObjectWriter`: initial states map to initial states (`Contract!Init`), and `ContractStep`
has, for every action, the abstract step it is or that it is a stutter. With
`StreamContractTheorem` both hold of every part that is streamed.

**FileBackendProofs**, for any writers in any directories: `WholeObjectTheorem` and
`CleanTheorem` from `WriterInv`; `QuietListTheorem` from `ListInv` (an object that was there
when List began is either in its result, or ahead of the walk in a directory still to be
read or among the names already read); and `ContractTheorem`, the refinement of the strict
`ObjectWriter` by every writer at once.

**ArchiveProofs**, for any set of datadirs and any changes a node makes meanwhile. `TreeInv`
says what a node can do (files come and go, directories stay), `PlaceInv` and `SentInv`
say that the names a walk has still to visit and those it has sent are in different
branches, reached through directories only. From these, and `PartsApart` on the roots and
`Skip`, `DisjointTheorem`. `StableTheorem` adds that nothing is sent twice (`OnceInv`) and
nothing forgotten (`CoverInv`: every path a walk reaches is below a name it still has, or
sent). `PlannedTheorem` compares that with the two walks that count. For the extraction,
`EntriesNest` says that an entry below another entry, of whatever part, is below a
directory; `PlacedInv` that the scratch directory holds what was extracted and the
directories it needs, and nothing else. Hence `ExtractsTheorem` and, there and back,
`RestoredTheorem`. For a legacy tarball of either shape both rest on `TarInv`: whatever is
in the scratch directory was in the datadir, as it was, and is a directory or one of the entries
extracted so far; no entry is met twice, because the n-th of them is the n-th path of the
walk (`TarEntries`, by counting: `Counted`); and `TarTargetsAre`: the first name tells the
two shapes apart, so every entry goes back to where it came from.

Both assume `PlainChaindata`, that `chaindata` itself is no link: of a linked one `tarTree`
uploads the link, and the freezer parts then go below it, which `safeExtract` refuses; and
`NoInnerChaindata`, that it holds no chaindata of its own: the first entry of a flat
tarball would be taken for a root and all of it extracted one level too high.
`RestoredTheorem` also assumes that `ancient/chain` is no fifo, which Untar would leave out
and its parent with it. None of the three was on an instance of TLC's; the proofs asked for
them. They also asked for the `MkdirAll` in `Begin`: an empty flat tarball has no entry
that would make its directory, and the model had left that call out.

**InspectProofs**: `TruthTheorem` for all datadirs, flags and damage (`TruthInv`: what
`Inspect` returned is of the datadir as it is, or a node has run since). `TravelTheorem`:
`HashInv` ties the hash that was read to the block and the time that were read, and
`AsIntNumber` says what becomes of a time in an int64. `ReadsTheFieldTheorem`
is about the RLP readers, for all sizes of the encoding, all encodings of the items before the
field, and all buffers:

- A reader is a recursive function, and what it computes is shown by induction.
  `Iteration` shows that there is a function with the recursive equation, so that the one
  `CHOOSE` picks has it; `Induction`, over a set instead of an operator, follows from least elements (`Least`).
  Hence `PowerDef`, `ReadDef` and `WalkDef`.
- `ReadBE`: of what geth writes for a number, `ReadBEUint` returns the number, reduced to
  an int; `AsUintAsInt` gives the uint64 back, also where the int was negative.
- `SkipItem`: an item that fits in memory is skipped to its end, for each class of its prefix;
  `Positions` says where item i of a list begins in the bytes, and `WalkList` and `ReadList` that
  the walk gets there and reads it.
- Bytes cut short: what a reader returns depends only on the bytes it looked at (`ReadCut`,
  `SkipCut`, `EnterCut`, `UintCut`), so it reports the same field or an error.
- `NoPanic`: whatever the bytes are, no reader leaves the buffer unless a length of `Word` bytes
  was read; a shorter one cannot make an int negative (`SkipForward`).

`DatadirReads` puts these together for the header and for both versions of `bodies.meta`, from
`DatadirInv`, which says that a node keeps its datadir well-formed. `TravelTheorem` and
`ServeableTheorem` show what follows for every head, window, role and pruned tail.

**FerryProofs** is about the composition, with the theorems of its two halves as instances
(`UP`, `DP`); a step of one half is shown to be a stutter or a change of the store that the
invariant of the other allows. `OneUploadTheorem`: a download that promotes matched all
digests of one manifest, which are of one run. `IntactTheorem`: what a reader found good was
there when the manifest was read (`Held`): the run that wrote the manifest had written
everything else before, so what is its own now was its own then. `AlarmTheorem` needs a single upload: of two without `--overwrite` both may find the name
free, and the second then disturbs a reader of the first. `RowTheorem` rests on the order of
keys, `manifest.json` before `parts/`, and on the manifest being written last.

Each of Upload, Download and MultipartWriter has a `ProgressTheorem`, the part of liveness
that is about single states and steps. `CanGoOn` says that whoever has not ended has a step
to take, by the guards of that step (`CanStep`; TLC finds it equivalent to
`ENABLED` of that step in every state of `upload_s3`, `upload_file`, `download_s3`,
`download_file` and `multipart`). What might block is the semaphore, which
has room for one worker at least, whatever `--parallel-parts` is, and `wg.Wait`, for workers
that never wait themselves; in MultipartWriter also the pool, which has a buffer left if there
are more than Concurrency + 2 (`PoolNotDry`; `sync.Pool` allocates). `LessToDo` says that
`Work`, a natural number, falls with each step of a run, or of a writer, and grows with none
but a new call: starting a worker sends `Run`
back to the head of its loop, but takes one of the steps that the worker had ahead. It is at
most 31 for an upload and 32 for a download. With weak fairness this gives `Terminates`; that
last inference is the one this prover cannot make.

Where a proof would call for induction, the least element is taken instead, from `WFMin` and
`NatLessThanWellFounded` (`FirstIn` and `Counted` in ArchiveProofs, `Least` and `Induction` in
InspectProofs).

Model-checked only:

- `Terminates` of Upload and Download: liveness under fairness. `ProgressTheorem` proves what
  it rests on.
- `NeverStuck` of MultipartWriter: it is about ENABLED. `ProgressTheorem` proves it of the guards.

## Where code and documentation part

Three runs expect a violation, each with a finding in `PROJECT.json`:

1. `downloadParts` leaves its loop on a cancelled context without an error
   (`download.go:148`); what there is, an empty tree in TLC's shortest trace, and on the
   file backend, whose running parts then succeed, a tree that lacks the remaining
   parts, is committed and success is reported. `uploadParts` has
   the same loop, but there `Manifest.Validate` refuses the zero parts.
2. `Commit` removes the old tree before it renames (`extract.go:97`).
3. `file.List` takes a vanished temp file, renamed or removed, for an absent root
   (`file.go:86`).

More was seen while modelling, and is stated as a limit of the properties above
rather than as a run: `checkOverwrite` is a check long before the use
(`upload.go:235`), so two uploads without `--overwrite` may both find a name free and the
later manifest wins (`NoSilentReplace` is checked for one run); `Commit` removes whatever is at the destination, also without
`--force` (`extract.go:96`), though emptiness was only checked at the start, so of
two unforced downloads the second takes the tree of the first (`UnforcedKeepsFiles` is
checked for one download, `RaceLeavesWholeTree` for two); an absolute link in the
datadir is uploaded, and then refused by every download (`ExtractsUnlessAbsolute`);
a linked `ancient/chain` or `triedb` is uploaded as a link, without what it points to
(`validateAncientLayout` and `os.Stat` follow it, the walk does not), so `Kept` does
not ask for files below any link but `ancient` itself, and of a linked `chaindata` the
freezer parts do not even extract (`PlainChaindata`); with `--overwrite` the old manifest stays visible over
parts that are being replaced, so an interrupted upload leaves a manifest that does not verify
(`PromotesOneUpload` shows that a download never promotes such a
mixture); a multipart writer holds up to concurrency + 2 buffers, not
concurrency as the README's "ceiling" has it (`BufferCeiling`); a `Close` whose answer is lost
fails with the object visible (`Lossy` in ObjectWriter); `Abort` does not stop a Write that
is past its last look at `w.failed`, and the encoder's goroutine may make one
(`QuietTermination`); an eight-byte RLP length overflows an int, and the next index is
negative (`header.go:94`, `ReadsTheField`); a header time of 2^63 or more is recorded as a
negative number, which is not the header's (`cmd/ferry/upload.go:98`, `HeadTravelsTogether`); the state range of the last uint64 block
wraps to 0 (`CapabilitiesServeable`); a flat legacy tarball whose first entry is below a
directory `chaindata` of its own is taken for a rooted one (`legacy.go:101`, `NoInnerChaindata`); capabilities are read at up to three moments, and
a node that ran in between makes them a mixture; a `manifest.json` two levels deep
makes a row of its parent's name, with the sizes of another (`list.go:112`).

## Not modelled, and the plan

Not modelled: the S3 service beyond what `Acceptable` and `UploadOnePart` say, the
compression libraries, printed output (sizes, rates, tables), pebble, the URL registry,
which is filled at start-up and then only read, `Delete`, which has no caller, the
JSON form of a manifest and the syntax of snapshot names and URLs.

In this order:

1. **Names and URLs**: `ParseName`, `ValidateNamePathSafety`, `SplitTrailingSegment` on
   short sequences of characters; the round trip of `Encode` and `Decode`.
2. **Legacy download** into the atomic target, as a second kind of run in Download.
3. **Proofs** that are left: from `ProgressTheorem` to `Terminates`, with a prover that has
   ENABLED.
