------------------------------ MODULE Inspect -------------------------------
(***************************************************************************)
(* What `ferry upload` says about a datadir: internal/datadir reads the    *)
(* head, the chain and the state scheme, cmd/ferry merges them with the    *)
(* flags, upload.Run writes them into the manifest.  The reads are made at *)
(* different moments: each pebble open is one step, since it holds the     *)
(* database's lock; bodies.meta is read without it.  A node may run in     *)
(* between.                                                                *)
(*                                                                         *)
(* A header hash stands for what it commits to: number and time.           *)
(***************************************************************************)
EXTENDS RLP, FiniteSets

CONSTANTS
  TimeIndex,       \* items before Time in a header (11)
  TriesInMemory,   \* triesInMemory (128)
  Cases,           \* datadirs and flags a run is started with, see CaseType
  MaxEvents,       \* bound: starts of a node and blocks it adds
  None

(* What can be wrong with a database, in the order Inspect meets it.       *)
(* "bytes": header or meta are cut short; "garbage": they are not RLP.      *)
Damage == {"open", "LastBlock", "number", "header", "config", "txTail",
           "bytes", "garbage"}

DatadirType ==
  [ head   : Number,  time : Number, chain : Nat,     \* the truth
    scheme : {"path", "hash"},
    tail   : Number,  txTail : Number,
    root   : BOOLEAN,                \* key "A"
    id     : BOOLEAN,                \* key "LastStateID"
    triedb : BOOLEAN,                \* <datadir>/geth/triedb exists
    fields : Seq(Seq(Byte)),         \* the items of the head's header before Time
    header : Seq(Byte),              \* that header, as stored
    meta   : Seq(Byte) \cup {None},  \* bodies.meta
    txKey  : BOOLEAN,                \* key "TransactionIndexTail"
    damage : SUBSET Damage ]

RequestType ==
  [ name   : BOOLEAN,                \* --name given
    block  : Number \cup {None},     \* --block
    chain  : Nat \cup {None},        \* --chain-id
    role   : {"full", "archive"},
    force  : BOOLEAN,
    dryRun : BOOLEAN ]

CaseType == [dd : DatadirType, req : RequestType]

HashType == [number : Number, time : Number]

(* A header: the fields before Time, Time, one field behind.               *)
Header(before, time) == EncodeList(before \o <<EncodeUint(time), EncodeUint(1)>>)

(* bodies.meta: version 1 has [version, tail], version 2 an offset too.    *)
MetaV1(tail) == EncodeList(<<EncodeUint(1), EncodeUint(tail)>>)
MetaV2(tail) == EncodeList(<<EncodeUint(2), EncodeUint(tail), EncodeUint(Base - 1)>>)

(* The fields of a header that a node adds here.                           *)
NewFields == [i \in 1..TimeIndex |-> EncodeUint(i)]

(* Any string or list, encoded.                                            *)
IsItem(item) ==
  \E k \in 1..Len(item) + 1 :
    LET b == SubSeq(item, k, Len(item)) IN
    item = EncodeBytes(b) \/ item = Prefixed(ListStart, ListLong, b)

(* Go's slices are far shorter than an int counts.                         *)
Fits(b) == 4 * Len(b) <= Uint64

(* What is stored of bytes that geth wrote.                                *)
Stored(b, whole, damage) ==
  \/ b = whole
  \/ "bytes" \in damage /\ \E k \in 0..Len(whole) : b = SubSeq(whole, 1, k)

(* What a node leaves on its disk: one of the two keys if and only if its  *)
(* state is path based, a directory triedb only then, and tails of what    *)
(* there is; a header and bodies.meta as geth encodes them, unless they    *)
(* are damaged.                                                            *)
WellFormed(d) ==
  /\ d.scheme = "path" <=> d.root \/ d.id
  /\ d.triedb => d.scheme = "path"
  /\ d.tail <= d.head /\ d.txTail <= d.head
  /\ Fits(d.header) /\ (d.meta # None => Fits(d.meta))
  /\ "garbage" \notin d.damage =>
       /\ Len(d.fields) = TimeIndex /\ \A i \in 1..TimeIndex : IsItem(d.fields[i])
       /\ Fits(Header(d.fields, d.time))
       /\ Stored(d.header, Header(d.fields, d.time), d.damage)
       /\ \/ d.meta = None /\ d.tail = 0
          \/ d.meta # None /\ \E whole \in {MetaV1(d.tail), MetaV2(d.tail)} :
               Fits(whole) /\ Stored(d.meta, whole, d.damage)

ASSUME InspectAssumption ==
  /\ TimeIndex \in Number /\ TriesInMemory \in Nat \ {0}
  /\ Cases \subseteq CaseType
  /\ \A c \in Cases : WellFormed(c.dd)
  /\ \A n \in Number : Fits(Header(NewFields, n)) /\ Fits(MetaV2(n))
  /\ None \notin Seq(Byte) /\ None \notin HashType
  /\ MaxEvents \in Nat

VARIABLES
  dd,         \* the datadir
  node,       \* "stopped" or "running" (it holds pebble's lock and LOCK)
  events,     \* starts and blocks so far
  req,        \* the flags
  pc,         \* where RunE stands
  info,       \* what Inspect returned, an error before it was called
  caps,       \* the capabilities under construction, or None
  ran,        \* history: a node ran since Inspect
  manifest    \* what the manifest says, or None

vars == <<dd, node, events, req, pc, info, caps, ran, manifest>>

Phases == {"inspect", "wire", "chainTail", "txTail", "run", "scheme", "upload",
           "planned", "ok", "err", "panic"}

Init ==
  /\ \E c \in Cases : dd = c.dd /\ req = c.req
  /\ node \in {"stopped", "running"}
  /\ node = "running" => dd.damage = {}
  /\ events = 0
  /\ pc = "inspect"
  /\ info = Error
  /\ caps = None
  /\ ran = FALSE
  /\ manifest = None

Hash(d) == [number |-> d.head, time |-> d.time]

(* pebble.Open: the lock is exclusive, also for a read-only open.          *)
Openable == node = "stopped" /\ "open" \notin dd.damage

-----------------------------------------------------------------------------

ReadStateScheme(d) == IF d.root \/ d.id THEN "path" ELSE "hash"

ReadHeaderTimestamp(d) == ReadItem(d.header, TimeIndex)

(* Inspect: the first read that fails ends it.                             *)
InspectResult ==
  LET time == ReadHeaderTimestamp(dd) IN
  IF ~Openable \/ dd.damage \cap {"LastBlock", "number", "header"} # {} THEN Error
  ELSE IF time.st # "ok" THEN time
  ELSE IF "config" \in dd.damage THEN Error
  ELSE [ st  |-> "ok",
         val |-> [ block |-> dd.head, hash |-> Hash(dd), time |-> time.val,
                   chain |-> dd.chain, scheme |-> ReadStateScheme(dd) ] ]

(* Faulty variant: a failure to read is tolerated, whatever it was for.    *)
NeedAutoDetectNever == FALSE

NeedAutoDetect == ~req.name \/ req.block = None \/ req.chain = None

InspectDatadir ==
  /\ pc = "inspect"
  /\ info' = InspectResult
  /\ pc' = CASE InspectResult.st = "panic" -> "panic"
             [] InspectResult.st # "ok" /\ NeedAutoDetect -> "err"
             [] OTHER -> "wire"
  /\ UNCHANGED <<dd, node, events, req, caps, ran, manifest>>

(* info.HeadBlock and info.ChainID; the zero Info, which replaces one that *)
(* was not read, has zeros.                                                *)
Inspected == info.st = "ok"
HeadBlock == IF Inspected THEN info.val.block ELSE 0
ChainID   == IF Inspected THEN info.val.chain ELSE 0

Block == IF req.block # None THEN req.block ELSE HeadBlock
Chain == IF req.chain # None THEN req.chain ELSE ChainID

(* Faulty variant: any head that was read goes into the manifest.          *)
HeadAppliesUnchecked == Inspected

(* Hash, timestamp and capabilities travel with the block they are of.     *)
HeadApplies == HeadBlock # 0 /\ HeadBlock = Block

(* Time is a uint64 in the header and an int64 in the manifest: converted  *)
(* without a check.                                                        *)
HeadHash      == IF HeadApplies THEN info.val.hash ELSE None
HeadTimestamp == IF HeadApplies THEN AsInt(info.val.time) ELSE 0

(* The flags are merged; a dry run ends here, and so does a destination    *)
(* that cannot be opened.                                                  *)
Wire ==
  /\ pc = "wire"
  /\ \/ req.dryRun /\ pc' = "planned"
     \/ ~req.dryRun /\ pc' = IF HeadApplies THEN "chainTail" ELSE "run"
     \/ ~req.dryRun /\ pc' = "err"
  /\ UNCHANGED <<dd, node, events, req, info, caps, ran, manifest>>

(* readFreezerMetaTail: no file is an empty freezer.                       *)
ChainFreezerTail(d) == IF d.meta = None THEN Ok(0, 0) ELSE ReadItem(d.meta, 1)

(* Capabilities, chainFreezerTail.                                         *)
ReadChainTail ==
  /\ pc = "chainTail"
  /\ LET tail == ChainFreezerTail(dd) IN
       /\ caps' = IF tail.st = "ok" THEN [tail |-> tail.val] ELSE None
       /\ pc' = CASE tail.st = "ok"    -> "txTail"
                  [] tail.st = "panic" -> "panic"
                  [] OTHER             -> "run"
  /\ UNCHANGED <<dd, node, events, req, info, ran, manifest>>

(* Faulty variant: a window of 128 blocks below the head, and the head.    *)
DeriveStateRangeWide(i, role) ==
  CASE role = "archive" /\ i.scheme = "hash" -> 0
    [] role = "archive" /\ i.scheme = "path" -> None
    [] role = "full" -> IF i.block > TriesInMemory THEN i.block - TriesInMemory ELSE 0

(* deriveStateRange, in uint64; what it reads besides is only warned about. *)
DeriveStateRange(i, role) ==
  CASE role = "archive" /\ i.scheme = "hash" -> 0
    [] role = "archive" /\ i.scheme = "path" -> None
    [] role = "full" ->
         LET next == AsUint(i.block + 1) IN
         IF next > TriesInMemory THEN next - TriesInMemory ELSE 0

Larger(a, b) == IF a > b THEN a ELSE b

(* Capabilities, readTxIndexTail and the rest: a key that is not there is  *)
(* an index over the whole chain, one that cannot be read omits them all.  *)
ReadTxTail ==
  /\ pc = "txTail"
  /\ caps' =
       IF ~Openable \/ "txTail" \in dd.damage THEN None
       ELSE [ head   |-> info.val.block,
              blocks |-> caps.tail,
              tx     |-> Larger(caps.tail, IF dd.txKey THEN dd.txTail ELSE 0),
              state  |-> DeriveStateRange(info.val, req.role) ]
  /\ pc' = "run"
  /\ UNCHANGED <<dd, node, events, req, info, ran, manifest>>

(* upload.Run: preflight.                                                  *)
Preflight ==
  /\ pc = "run"
  /\ pc' = IF node = "running" /\ ~req.force THEN "err" ELSE "scheme"
  /\ UNCHANGED <<dd, node, events, req, info, caps, ran, manifest>>

(* detectStateScheme guesses when Inspect could not tell.                  *)
DetectStateScheme(d) == IF d.triedb THEN "path" ELSE "hash"

(* upload.Run: the manifest is made, all but its parts.                    *)
MakeManifest ==
  /\ pc = "scheme"
  /\ manifest' =
       [ name   |-> IF req.name THEN None ELSE <<Chain, req.role, Block>>,
         block  |-> Block,
         hash   |-> HeadHash,
         time   |-> HeadTimestamp,
         chain  |-> Chain,
         scheme |-> IF Inspected THEN info.val.scheme ELSE DetectStateScheme(dd),
         caps   |-> caps ]
  /\ pc' = "upload"
  /\ UNCHANGED <<dd, node, events, req, info, caps, ran>>

(* The parts are walked and the manifest is written, or not: see Upload.   *)
UploadParts ==
  /\ pc = "upload"
  /\ pc' \in {"ok", "err"}
  /\ UNCHANGED <<dd, node, events, req, info, caps, ran, manifest>>

-----------------------------------------------------------------------------
(* The node.                                                               *)

NodeStart ==
  /\ node = "stopped" /\ dd.damage = {} /\ events < MaxEvents
  /\ node' = "running"
  /\ events' = events + 1
  /\ ran' = (ran \/ pc # "inspect")
  /\ UNCHANGED <<dd, req, pc, info, caps, manifest>>

(* A block is added; history is pruned, the index of transactions unwound. *)
NodeAdvance ==
  /\ node = "running" /\ events < MaxEvents
  /\ dd.head + 1 \in Number
  /\ \E tail \in {dd.tail, dd.head}, tx \in {dd.txTail, dd.head} :
       dd' = [dd EXCEPT !.head = @ + 1, !.time = dd.head,
                        !.fields = NewFields, !.header = Header(NewFields, dd.head),
                        !.tail = tail, !.meta = MetaV2(tail),
                        !.txTail = tx, !.txKey = tx > 0]
  /\ events' = events + 1
  /\ ran' = (ran \/ pc # "inspect")
  /\ UNCHANGED <<node, req, pc, info, caps, manifest>>

NodeStop ==
  /\ node = "running"
  /\ node' = "stopped"
  /\ dd' = [dd EXCEPT !.triedb = @ \/ dd.scheme = "path"]
  /\ UNCHANGED <<events, req, pc, info, caps, ran, manifest>>

Tool == \/ InspectDatadir \/ Wire \/ ReadChainTail \/ ReadTxTail
        \/ Preflight \/ MakeManifest \/ UploadParts
Node == NodeStart \/ NodeAdvance \/ NodeStop

Next == Tool \/ Node

Spec == Init /\ [][Next]_vars

-----------------------------------------------------------------------------

Parseable == "garbage" \notin dd.damage

(* A manifest with a hash of the head has that of the block it names and   *)
(* the time of that block's header, and one without a hash has no time,    *)
(* whatever --block says and whatever a node does meanwhile                *)
(* (cmd/ferry/upload.go: "Hash and timestamp travel with Block only when   *)
(* they refer to the same block").  A header's Time is a uint64 and the    *)
(* manifest's an int64: one of half the range or more is recorded as a     *)
(* negative number, never as another possible time.                        *)
HeadTravelsTogether ==
  manifest # None /\ Parseable =>
    IF manifest.hash = None
    THEN manifest.time = 0
    ELSE /\ manifest.hash.number = manifest.block
         /\ IF 2 * manifest.hash.time < Uint64
            THEN manifest.time = manifest.hash.time
            ELSE manifest.time < 0

(* What no flag overrides is the truth about the datadir that is uploaded, *)
(* provided no node ran on it since: an unreadable datadir never shows as  *)
(* one at block 0 of chain 0.  Whatever runs, the state scheme is right if *)
(* the database could be read, and a hash datadir never shows as a path    *)
(* one if it could not (needAutoDetect, readStateScheme, and the fallback  *)
(* detectStateScheme).                                                     *)
TruthfulManifest ==
  manifest # None =>
    /\ ~ran =>
         /\ req.block = None => manifest.block = dd.head
         /\ req.chain = None => manifest.chain = dd.chain
         /\ ~req.name => manifest.name = <<manifest.chain, req.role, manifest.block>>
    /\ Inspected => manifest.scheme = dd.scheme
    /\ manifest.scheme = "path" => dd.scheme = "path"

(* What a node on this datadir serves, block by block (eth_capabilities).  *)
Oldest(served) == CHOOSE n \in served : \A x \in served : n <= x
ServedBlocks == {n \in 0..dd.head : n >= dd.tail}
ServedTx     == {n \in ServedBlocks : dd.txKey => n >= dd.txTail}
ServedState  == {n \in 0..dd.head :
                   (req.role = "archive" /\ dd.scheme = "hash") \/ dd.head < n + TriesInMemory}

(* Capabilities that are published are exact: all that is advertised is    *)
(* served by the uploaded datadir and nothing served is withheld, provided *)
(* no node ran since Inspect; the four reads are made at three opens.  The *)
(* last uint64, whose successor is 0, is left out (capabilities.go).       *)
CapabilitiesServeable ==
  manifest # None /\ manifest.caps # None /\ Parseable /\ ~ran /\ dd.head + 1 \in Number =>
    /\ manifest.caps.head = dd.head
    /\ manifest.caps.blocks = Oldest(ServedBlocks)
    /\ manifest.caps.tx = Oldest(ServedTx)
    /\ manifest.caps.state # None => manifest.caps.state = Oldest(ServedState)

(* A prefix byte that announces a length of Word bytes.                    *)
WideLength(b) == b \in {StrLong + Word, ListLong + Word}

(* The walks over a header and over bodies.meta end at the field they are  *)
(* after, however long the fields before it are encoded; of bytes that are *)
(* cut short they report an error or that field, never another one.  No    *)
(* bytes, however damaged, crash the tool, except that a length of eight   *)
(* bytes may overflow an int and leave the buffer at its low end           *)
(* (header.go, freezer.go).                                                *)
ReadsTheField ==
  LET Right(r, field, b) ==
        /\ r.st = "ok" => "garbage" \in dd.damage \/ r.val = field
        /\ dd.damage \cap {"bytes", "garbage"} = {} => r.st = "ok"
        /\ r.st = "panic" => /\ "garbage" \in dd.damage
                             /\ \E i \in DOMAIN b : WideLength(b[i])
  IN  /\ Right(ReadHeaderTimestamp(dd), dd.time, dd.header)
      /\ Right(ChainFreezerTail(dd), dd.tail, dd.meta)

=============================================================================
