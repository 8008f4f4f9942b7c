----------------------------- MODULE MCInspect ------------------------------
(* An instance of Inspect for TLC: families of datadirs that each vary one *)
(* thing, and the flags that matter to it.                                 *)
EXTENDS Inspect

PlainHeader(time) == Header(NewFields, time)

Plain ==
  [ head |-> 3, time |-> 1, chain |-> 7, scheme |-> "path",
    tail |-> 1, txTail |-> 2, root |-> TRUE, id |-> TRUE, triedb |-> FALSE,
    fields |-> NewFields, header |-> PlainHeader(1), meta |-> MetaV2(1), txKey |-> TRUE, damage |-> {} ]

NoFlags == [ name |-> FALSE, block |-> None, chain |-> None, role |-> "full",
             force |-> FALSE, dryRun |-> FALSE ]
AllFlags == [NoFlags EXCEPT !.name = TRUE, !.block = 3, !.chain = 7]

(* Every set of flags, --block right and wrong.                            *)
FlagCases ==
  [ dd : {Plain},
    req : [ name : BOOLEAN, block : {None, 0, 1, 3}, chain : {None, 5},
            role : {"full", "archive"}, force : BOOLEAN, dryRun : BOOLEAN ] ]

(* Path datadirs before and after a graceful stop or a snap sync, and hash *)
(* datadirs.                                                               *)
Schemes ==
  {[Plain EXCEPT !.scheme = "path", !.root = r, !.id = i, !.triedb = t] :
     <<r, i, t>> \in {x \in BOOLEAN \X BOOLEAN \X BOOLEAN : x[1] \/ x[2]}}
  \cup {[Plain EXCEPT !.scheme = "hash", !.root = FALSE, !.id = FALSE]}

(* One thing about the database cannot be read, or two.                    *)
DamageCases ==
  [ dd : {[d EXCEPT !.damage = x] : d \in Schemes,
           x \in {y \in SUBSET (Damage \ {"bytes", "garbage"}) : Cardinality(y) <= 2}},
    req : {NoFlags, AllFlags, [AllFlags EXCEPT !.name = FALSE]} ]

(* Heads around the window and around 2^64, pruned and unindexed tails.    *)
Metas(tail) == {MetaV1(tail), MetaV2(tail)} \cup IF tail = 0 THEN {None} ELSE {}

RangeCases ==
  [ dd : UNION {[ head : {h}, time : {1}, chain : {7}, scheme : {s}, tail : {t}, txTail : {x},
                  root : {s = "path"}, id : {FALSE}, triedb : {FALSE},
                  fields : {NewFields}, header : {PlainHeader(1)}, meta : Metas(t), txKey : {x > 0}, damage : {{}} ] :
           <<h, s, t, x>> \in
             {y \in {0, 2, 3, 4, 142, 143} \X {"path", "hash"} \X {0, 1, 2, 4} \X {0, 2, 3} :
                y[3] <= y[1] /\ y[4] <= y[1]}},
    req : {NoFlags, [NoFlags EXCEPT !.role = "archive"]} ]

(* One field of each prefix class: a byte, the empty string, strings and   *)
(* lists of short and of long form.                                        *)
Fields ==
  { EncodeUint(1), EncodeBytes(<<>>), EncodeBytes(<<11>>), EncodeBytes(<<7, 0>>),
    EncodeBytes(<<9, 10, 11>>), EncodeList(<<>>), EncodeList(<<EncodeUint(1)>>),
    EncodeList(<<EncodeBytes(<<11, 11>>), EncodeUint(1)>>) }
Times == {0, 1, 2, 11, 12, 71, 72, 143}

HeaderDatadirs ==
  {[Plain EXCEPT !.time = t, !.fields = f, !.header = Header(f, t)] :
     f \in [1..TimeIndex -> Fields], t \in Times}

(* The same, and bodies.meta, cut short.                                   *)
CutsOf(b) == {SubSeq(b, 1, n) : n \in 0..Len(b)}

CutDatadirs ==
  UNION {{[d EXCEPT !.header = b, !.damage = {"bytes"}] : b \in CutsOf(d.header)} :
           d \in HeaderDatadirs}
  \cup {[Plain EXCEPT !.meta = b, !.damage = {"bytes"}] : b \in CutsOf(Plain.meta)}

(* Bytes that begin like a list and go on anyhow.                          *)
Garbage == UNION {{b \in [1..n -> 0..(Base - 1)] : b[1] >= ListStart} : n \in 1..4}

GarbageDatadirs ==
  {[Plain EXCEPT !.meta = b, !.damage = {"garbage"}] : b \in Garbage}
  \cup {[Plain EXCEPT !.header = b, !.damage = {"garbage"}] :
          b \in {x \in Garbage : Len(x) <= 3}}

MCCases ==
  FlagCases \cup DamageCases \cup RangeCases
  \cup [dd : HeaderDatadirs \cup CutDatadirs \cup GarbageDatadirs, req : {NoFlags}]

=============================================================================
