---------------------------- MODULE ArchiveProofs ----------------------------
(***************************************************************************)
(* Theorems about the walks of an upload, for every datadir and whatever a *)
(* running node does to it meanwhile: no two parts carry the same path, a  *)
(* file the node leaves alone is in exactly one part and there once, and   *)
(* what was counted beforehand is what is sent.  Then about the extraction *)
(* of the parts, in any order: it fails on absolute links only, and gives  *)
(* back a datadir that did not change.                                     *)
(***************************************************************************)
EXTENDS Archive, FiniteSetTheorems, SequenceTheorems, WellFoundedInduction, TLAPS

Word == STRING \cup {"chaindata", "ancient", "chain", "state", "triedb"}
Name == Seq(Word)

-----------------------------------------------------------------------------
(* Paths and their prefixes.                                               *)

LEMMA PrefixIff ==
  ASSUME NEW p \in Name, NEW q \in Name
  PROVE  IsPrefix(q, p) <=> Len(q) <= Len(p) /\ \A i \in 1..Len(q) : q[i] = p[i]
  <1>1. Len(p) \in Nat /\ Len(q) \in Nat
    BY DEF Name
  <1>2. CASE Len(q) <= Len(p)
    <2>1. SubSeq(p, 1, Len(q)) = [i \in 1..Len(q) |-> p[i]]
      BY <1>1, <1>2 DEF Name
    <2>2. SubSeq(q, 1, Len(q)) = [i \in 1..Len(q) |-> q[i]]
      BY <1>1 DEF Name
    <2>3. (\A i \in 1..Len(q) : q[i] = p[i]) <=>
            [i \in 1..Len(q) |-> q[i]] = [i \in 1..Len(q) |-> p[i]]
      OBVIOUS
    <2>4. QED
      BY <1>2, <2>1, <2>2, <2>3 DEF IsPrefix
  <1>3. CASE ~(Len(q) <= Len(p))
    BY <1>3 DEF IsPrefix
  <1>4. QED
    BY <1>2, <1>3

LEMMA PrefixOrder ==
  ASSUME NEW p \in Name, NEW q \in Name, NEW r \in Name
  PROVE  /\ IsPrefix(p, p)
         /\ IsPrefix(q, p) /\ Len(q) = Len(p) => q = p
         /\ IsPrefix(q, p) /\ IsPrefix(p, q) => q = p
         /\ IsPrefix(r, q) /\ IsPrefix(q, p) => IsPrefix(r, p)
         /\ IsPrefix(q, p) /\ IsPrefix(r, p) => IsPrefix(q, r) \/ IsPrefix(r, q)
         /\ IsPrefix(q, p) /\ q # p => Len(q) < Len(p)
  <1>1. Len(p) \in Nat /\ Len(q) \in Nat /\ Len(r) \in Nat
    BY DEF Name
  <1>2. IsPrefix(q, p) /\ Len(q) = Len(p) => q = p
    BY <1>1, PrefixIff DEF Name
  <1>3. IsPrefix(q, p) /\ q # p => Len(q) < Len(p)
    BY <1>1, <1>2, PrefixIff
  <1>4. QED
    BY <1>1, <1>2, <1>3, PrefixIff

(* The prefixes of a path are the names that are a prefix of it.           *)
LEMMA PrefixesAre ==
  ASSUME NEW p \in Name, NEW q
  PROVE  q \in Prefixes(p) <=> q \in Name /\ IsPrefix(q, p)
  <1>1. Len(p) \in Nat
    BY DEF Name
  <1>2. ASSUME NEW n \in 0..Len(p), q = SubSeq(p, 1, n)
        PROVE  q \in Name /\ IsPrefix(q, p)
    <2>1. q \in Name /\ Len(q) = n /\ \A i \in 1..n : q[i] = p[i]
      BY <1>1, <1>2 DEF Name
    <2>2. QED
      BY <1>1, <2>1, PrefixIff
  <1>3. ASSUME q \in Name, IsPrefix(q, p)
        PROVE  Len(q) \in 0..Len(p) /\ q = SubSeq(p, 1, Len(q))
    <2>1. Len(q) \in Nat /\ Len(q) <= Len(p)
      BY <1>3 DEF Name, IsPrefix
    <2>2. SubSeq(q, 1, Len(q)) = q
      BY <1>3, <2>1 DEF Name
    <2>3. QED
      BY <1>3, <2>1, <2>2 DEF IsPrefix
  <1>4. QED
    BY <1>2, <1>3 DEF Prefixes

(* The name above a path, and the one on the way down to it.               *)
LEMMA FrontPrefix ==
  ASSUME NEW p \in Name, p # <<>>
  PROVE  /\ Front(p) \in Name /\ IsPrefix(Front(p), p) /\ Front(p) # p
         /\ Len(Front(p)) = Len(p) - 1
  <1>1. Len(p) \in Nat \ {0}
    BY EmptySeq DEF Name
  <1>2. /\ Front(p) \in Name /\ Len(Front(p)) = Len(p) - 1
        /\ \A i \in 1..Len(p) - 1 : Front(p)[i] = p[i]
    <2> DEFINE n == Len(p) - 1
    <2>1. n \in Nat /\ p \in Seq(Word) /\ \A i \in 1..n : p[i] \in Word
      BY <1>1 DEF Name
    <2>2. Front(p) = SubSeq(p, 1, n)
      BY DEF Front
    <2> HIDE DEF n
    <2>3. SubSeq(p, 1, n) \in Seq(Word) /\ Len(SubSeq(p, 1, n)) = n
          /\ \A i \in 1..n : SubSeq(p, 1, n)[i] = p[i]
      BY <2>1
    <2>4. QED
      BY <2>2, <2>3 DEF Name, n
  <1>3. QED
    BY <1>1, <1>2, PrefixIff

LEMMA PrefixFront ==
  ASSUME NEW p \in Name, p # <<>>
  PROVE  Prefixes(Front(p)) \cup {p} = Prefixes(p)
  <1>1. /\ Front(p) \in Name /\ IsPrefix(Front(p), p) /\ Front(p) # p
        /\ Len(Front(p)) = Len(p) - 1
    BY FrontPrefix
  <1>2. ASSUME NEW q \in Name, IsPrefix(q, p), q # p
        PROVE  IsPrefix(q, Front(p))
    <2>1. Len(q) \in Nat /\ Len(p) \in Nat /\ Len(q) < Len(p)
      BY <1>2, PrefixOrder DEF Name
    <2>2. IsPrefix(q, Front(p)) \/ (IsPrefix(Front(p), q) /\ Front(p) # q)
      BY <1>1, <1>2, PrefixOrder
    <2>3. IsPrefix(Front(p), q) /\ Front(p) # q => Len(Front(p)) < Len(q)
      BY <1>1, PrefixOrder
    <2>4. QED
      BY <1>1, <2>1, <2>2, <2>3
  <1>3. \A q : q \in Prefixes(Front(p)) \/ q = p <=> q \in Prefixes(p)
    BY <1>1, <1>2, PrefixesAre, PrefixOrder
  <1>4. QED
    BY <1>3

LEMMA StepDown ==
  ASSUME NEW p \in Name, NEW q \in Name, IsPrefix(q, p), q # p
  PROVE  \E c \in Name : c # <<>> /\ Front(c) = q /\ IsPrefix(c, p)
  <1> DEFINE c == SubSeq(p, 1, Len(q) + 1)
  <1>1. Len(p) \in Nat /\ Len(q) \in Nat /\ Len(q) < Len(p)
    BY PrefixOrder DEF Name
  <1>2. c \in Name /\ Len(c) = Len(q) + 1 /\ \A i \in 1..Len(q) + 1 : c[i] = p[i]
    BY <1>1 DEF Name
  <1> HIDE DEF c
  <1>3. c # <<>>
    BY <1>1, <1>2
  <1>4. IsPrefix(c, p)
    BY <1>1, <1>2, PrefixIff
  <1>5. IsPrefix(q, c)
    BY <1>1, <1>2, PrefixIff
  <1>6. IsPrefix(Front(c), c) /\ Front(c) \in Name /\ Len(Front(c)) = Len(q)
    BY <1>1, <1>2, <1>3, FrontPrefix
  <1>7. Front(c) = q
    BY <1>2, <1>5, <1>6, PrefixOrder
  <1>8. QED
    BY <1>2, <1>3, <1>4, <1>7

(* WalkDir's next name is one of those that are left.                      *)
LEMMA FirstIn ==
  ASSUME NEW S \in SUBSET Paths, S # {}
  PROVE  First(S) \in S
  <1> DEFINE T == {i \in DOMAIN Universe : Universe[i] \in S}
  <1>1. Universe \in Seq(Paths) /\ Len(Universe) \in Nat /\ DOMAIN Universe = 1..Len(Universe)
    BY ArchiveAssumption
  <1>2. T # {} /\ T \subseteq Nat
    BY <1>1 DEF Paths, ToSet
  <1>3. \E i \in T : \A j \in T : ~(<<j, i>> \in OpToRel(<, Nat))
    BY <1>2, WFMin, NatLessThanWellFounded
  <1>4. PICK i \in T : \A j \in T : ~(j < i)
    BY <1>2, <1>3 DEF OpToRel
  <1>5. /\ i \in DOMAIN Universe /\ Universe[i] \in S
        /\ \A j \in 1..i - 1 : Universe[j] \notin S
    BY <1>1, <1>4
  <1>6. QED
    BY <1>5 DEF First

-----------------------------------------------------------------------------
(* The parts and their roots.                                              *)

LEMMA KindsDiffer ==
  /\ PartKinds = {Live, AncientChain, AncientState, Triedb}
  /\ Live # AncientChain /\ Live # AncientState /\ Live # Triedb
  /\ AncientChain # AncientState /\ AncientChain # Triedb /\ AncientState # Triedb
  /\ Tarball \notin PartKinds
  BY DEF PartKinds, Live, AncientChain, AncientState, Triedb, Tarball

LEMMA WordsAre ==
  /\ "chaindata" \in Word /\ "ancient" \in Word
  /\ "chain" \in Word /\ "state" \in Word /\ "triedb" \in Word
  BY DEF Word

LEMMA OneName ==
  ASSUME NEW a \in Word
  PROVE  <<a>> \in Name /\ Len(<<a>>) = 1 /\ <<a>>[1] = a
  BY DEF Name

LEMMA TwoNames ==
  ASSUME NEW a \in Word, NEW b \in Word
  PROVE  <<a, b>> \in Name /\ Len(<<a, b>>) = 2 /\ <<a, b>>[1] = a /\ <<a, b>>[2] = b
  BY DEF Name

LEMMA ThreeNames ==
  ASSUME NEW a \in Word, NEW b \in Word, NEW c \in Word
  PROVE  /\ <<a, b, c>> \in Name /\ Len(<<a, b, c>>) = 3
         /\ <<a, b, c>>[1] = a /\ <<a, b, c>>[2] = b /\ <<a, b, c>>[3] = c
  <1>1. <<a, b, c>> \in Name
    BY DEF Name
  <1>2. Len(<<a, b, c>>) = 3
    OBVIOUS
  <1>3. <<a, b, c>>[1] = a /\ <<a, b, c>>[2] = b /\ <<a, b, c>>[3] = c
    OBVIOUS
  <1>4. QED
    BY <1>1, <1>2, <1>3

LEMMA RootIs ==
  /\ Root(Live) = <<"chaindata">>
  /\ Root(AncientChain) = <<"chaindata", "ancient", "chain">>
  /\ Root(AncientState) = <<"chaindata", "ancient", "state">>
  /\ Root(Triedb) = <<"triedb">>
  BY KindsDiffer DEF Root, Chaindata

LEMMA RootName == ASSUME NEW k \in PartKinds
                  PROVE  Root(k) \in Name /\ Root(k) # <<>> /\ Len(Root(k)) >= 1
  <1>1. Root(k) \in Name /\ Len(Root(k)) \in {1, 3}
    BY WordsAre, KindsDiffer, RootIs, OneName, ThreeNames
  <1>2. Root(k) # <<>>
    BY <1>1
  <1>3. QED
    BY <1>1, <1>2

(* What the names of a part begin with.                                    *)
LEMMA UnderRoot ==
  ASSUME NEW p \in Name
  PROVE  /\ IsPrefix(Root(Live), p) <=> Len(p) >= 1 /\ p[1] = "chaindata"
         /\ IsPrefix(Root(Triedb), p) <=> Len(p) >= 1 /\ p[1] = "triedb"
         /\ IsPrefix(Root(AncientChain), p) <=>
              Len(p) >= 3 /\ p[1] = "chaindata" /\ p[2] = "ancient" /\ p[3] = "chain"
         /\ IsPrefix(Root(AncientState), p) <=>
              Len(p) >= 3 /\ p[1] = "chaindata" /\ p[2] = "ancient" /\ p[3] = "state"
         /\ IsPrefix(Ancient, p) <=>
              Len(p) >= 2 /\ p[1] = "chaindata" /\ p[2] = "ancient"
  <1>1. Len(p) \in Nat
    BY DEF Name
  <1>2. ASSUME NEW a \in Word
        PROVE  IsPrefix(<<a>>, p) <=> Len(p) >= 1 /\ p[1] = a
    <2> DEFINE r == <<a>>
    <2>1. r \in Name /\ Len(r) = 1 /\ r[1] = a
      BY OneName
    <2> HIDE DEF r
    <2>2. \A i \in 1..1 : i = 1
      OBVIOUS
    <2>3. IsPrefix(r, p) <=> 1 <= Len(p) /\ \A i \in 1..1 : r[i] = p[i]
      BY <2>1, PrefixIff
    <2>4. (\A i \in 1..1 : r[i] = p[i]) <=> p[1] = a
      BY <2>1, <2>2
    <2>5. IsPrefix(r, p) <=> Len(p) >= 1 /\ p[1] = a
      BY <1>1, <2>3, <2>4
    <2>6. QED
      BY <2>5 DEF r
  <1>3. ASSUME NEW a \in Word, NEW b \in Word
        PROVE  IsPrefix(<<a, b>>, p) <=> Len(p) >= 2 /\ p[1] = a /\ p[2] = b
    <2> DEFINE r == <<a, b>>
    <2>1. r \in Name /\ Len(r) = 2 /\ r[1] = a /\ r[2] = b
      BY TwoNames
    <2> HIDE DEF r
    <2>2. \A i \in 1..2 : i = 1 \/ i = 2
      OBVIOUS
    <2>3. IsPrefix(r, p) <=> 2 <= Len(p) /\ \A i \in 1..2 : r[i] = p[i]
      BY <2>1, PrefixIff
    <2>4. (\A i \in 1..2 : r[i] = p[i]) <=> p[1] = a /\ p[2] = b
      BY <2>1, <2>2
    <2>5. IsPrefix(r, p) <=> Len(p) >= 2 /\ p[1] = a /\ p[2] = b
      BY <1>1, <2>3, <2>4
    <2>6. QED
      BY <2>5 DEF r
  <1>4. ASSUME NEW a \in Word, NEW b \in Word, NEW c \in Word
        PROVE  IsPrefix(<<a, b, c>>, p) <=>
                 Len(p) >= 3 /\ p[1] = a /\ p[2] = b /\ p[3] = c
    <2> DEFINE r == <<a, b, c>>
    <2>1. r \in Name /\ Len(r) = 3 /\ r[1] = a /\ r[2] = b /\ r[3] = c
      BY ThreeNames
    <2> HIDE DEF r
    <2>2. \A i \in 1..3 : i = 1 \/ i = 2 \/ i = 3
      OBVIOUS
    <2>3. IsPrefix(r, p) <=> 3 <= Len(p) /\ \A i \in 1..3 : r[i] = p[i]
      BY <2>1, PrefixIff
    <2>4. (\A i \in 1..3 : r[i] = p[i]) <=> p[1] = a /\ p[2] = b /\ p[3] = c
      BY <2>1, <2>2
    <2>5. IsPrefix(r, p) <=> Len(p) >= 3 /\ p[1] = a /\ p[2] = b /\ p[3] = c
      BY <1>1, <2>3, <2>4
    <2>6. QED
      BY <2>5 DEF r
  <1>5. QED
    BY <1>2, <1>3, <1>4, RootIs, WordsAre DEF Ancient

(* A name that a part walks and does not skip belongs to no other part.    *)
LEMMA PartsApart ==
  ASSUME NEW k \in PartKinds, NEW l \in PartKinds, k # l, NEW p \in Name,
         IsPrefix(Root(k), p), ~Skip(k, p), IsPrefix(Root(l), p), ~Skip(l, p)
  PROVE  FALSE
  <1>1. "chaindata" # "triedb" /\ "chain" # "state"
    OBVIOUS
  <1>2. QED
    BY <1>1, KindsDiffer, UnderRoot DEF Skip

LEMMA TreeFacts ==
  ASSUME NEW d \in Datadirs, NEW p \in DOMAIN d
  PROVE  /\ p \in Paths /\ p \in Name /\ p # <<>> /\ d[p] \in Nodes
         /\ \A q \in Name : IsPrefix(q, p) /\ q # <<>> /\ q # p =>
              q \in DOMAIN d /\ d[q] \in {Dir, Symlink}
  <1>1. IsTree(d)
    BY ArchiveAssumption
  <1>2. p \in Paths /\ p \in Name /\ p # <<>> /\ d[p] \in Nodes
    <2>1. p \in Seq(STRING)
      BY <1>1, ArchiveAssumption DEF IsTree
    <2>2. p \in Seq(Word)
      BY <2>1, SeqMonotonic DEF Word
    <2>3. QED
      BY <1>1, <2>2, ArchiveAssumption DEF IsTree, Name
  <1>3. QED
    BY <1>1, <1>2, PrefixesAre DEF IsTree

NodeType == [kind : {"dir", "file", "link", "abslink", "fifo"}, size : Int]
EntryType == [path : Name, node : NodeType]

LEMMA NodesTyped == Nodes \subseteq NodeType
  <1>1. MaxChanges \in Nat
    BY ArchiveAssumption
  <1>2. \A n \in 0..MaxChanges + 1 : File(n) \in NodeType
    BY <1>1 DEF File, NodeType
  <1>3. {Dir, Symlink, AbsLink, Fifo} \subseteq NodeType
    BY DEF NodeType, Dir, Symlink, AbsLink, Fifo
  <1>4. QED
    BY <1>2, <1>3 DEF Nodes

-----------------------------------------------------------------------------
(* The datadir under the walks.                                            *)

TypeInv ==
  /\ upc \in {"start", "walk", "ok", "err"}
  /\ todo \in [PartKinds -> SUBSET Paths]
  /\ head \in [PartKinds -> EntryType]
  /\ DOMAIN stream = Streams /\ \A k \in PartKinds : stream[k] \in Seq(EntryType)

(* Only files come and go, and only those that are recorded as touched; so *)
(* the directories stay as they were.                                      *)
TreeInv ==
  /\ orig \in Datadirs
  /\ touched \subseteq Paths
  /\ DOMAIN datadir \subseteq Paths
  /\ \A p \in DOMAIN datadir : datadir[p] \in NodeType
  /\ \A p \in Paths \ touched :
       /\ p \in DOMAIN datadir <=> p \in DOMAIN orig
       /\ p \in DOMAIN orig => datadir[p] = orig[p]
  /\ \A p \in touched :
       /\ p \in DOMAIN datadir => datadir[p].kind = "file"
       /\ p \in DOMAIN orig => orig[p].kind = "file"

LEMMA PathNames == ASSUME NEW p \in Paths PROVE p \in Name /\ p # <<>>
  <1>1. p \in Seq(STRING) /\ p # <<>>
    BY ArchiveAssumption
  <1>2. QED
    BY <1>1, SeqMonotonic DEF Name, Word

LEMMA InitTree == Init => TreeInv
  <1> SUFFICES ASSUME Init PROVE TreeInv
    OBVIOUS
  <1>1. orig \in Datadirs /\ datadir = orig /\ touched = {}
    BY DEF Init
  <1>2. QED
    BY <1>1, TreeFacts, NodesTyped DEF TreeInv

LEMMA TreeStep ==
  ASSUME TreeInv, [Next]_vars
  PROVE  TreeInv'
  <1>1. CASE \E p \in Paths : NodeWrites(p)
    <2>1. PICK p \in Paths : NodeWrites(p)
      BY <1>1
    <2>2. orig' = orig /\ touched' = touched \cup {p} /\ p \notin touched
      BY <2>1 DEF NodeWrites
    <2>3. /\ DOMAIN datadir' \subseteq Paths
          /\ \A q \in Paths \ {p} : /\ q \in DOMAIN datadir' <=> q \in DOMAIN datadir
                                    /\ q \in DOMAIN datadir => datadir'[q] = datadir[q]
          /\ p \in DOMAIN datadir' => datadir'[p] \in NodeType /\ datadir'[p].kind = "file"
          /\ p \in DOMAIN orig => orig[p].kind = "file"
      <3>1. CASE p \in DOMAIN datadir /\ datadir[p].kind = "file"
                 /\ datadir' = [datadir EXCEPT ![p].size = @ + 1]
        <4>1. datadir[p] \in NodeType
          BY <3>1 DEF TreeInv
        <4>2. datadir'[p] = [datadir[p] EXCEPT !.size = @ + 1]
          BY <3>1
        <4>3. datadir'[p] \in NodeType /\ datadir'[p].kind = datadir[p].kind
          BY <4>1, <4>2 DEF NodeType
        <4>4. QED
          BY <2>2, <3>1, <4>3 DEF TreeInv
      <3>2. CASE p \in DOMAIN datadir /\ datadir[p].kind = "file"
                 /\ datadir' = [q \in DOMAIN datadir \ {p} |-> datadir[q]]
        BY <2>2, <3>2 DEF TreeInv
      <3>3. CASE p \notin DOMAIN datadir
                 /\ datadir' = [q \in DOMAIN datadir \cup {p} |->
                                  IF q = p THEN File(1) ELSE datadir[q]]
        <4>1. File(1) \in NodeType /\ File(1).kind = "file"
          BY DEF File, NodeType
        <4>2. QED
          BY <2>2, <3>3, <4>1 DEF TreeInv
      <3>4. QED
        BY <2>1, <3>1, <3>2, <3>3 DEF NodeWrites
    <2>4. \A q \in DOMAIN datadir' : datadir'[q] \in NodeType
      BY <2>3 DEF TreeInv
    <2>5. QED
      BY <2>2, <2>3, <2>4 DEF TreeInv
  <1>2. CASE UNCHANGED <<datadir, orig, touched>>
    BY <1>2 DEF TreeInv
  <1>3. QED
    BY <1>1, <1>2
    DEF Next, Plan, Finish, Begin, Extracted, Visit, Copy, Extract, vars, up, down

(* A directory is one that was there before.                               *)
LEMMA DirsStay ==
  ASSUME TreeInv, NEW p \in Paths
  PROVE  p \in DOMAIN datadir /\ datadir[p] = Dir <=> p \in DOMAIN orig /\ orig[p] = Dir
  BY DEF TreeInv, Dir

-----------------------------------------------------------------------------
(* One step of a walk.                                                     *)

Emitted(k) ==
  {stream[k][i] : i \in DOMAIN stream[k]} \cup (IF head[k] = NoEntry THEN {} ELSE {head[k]})

LEMMA InitType == Init => TypeInv
  <1> SUFFICES ASSUME Init PROVE TypeInv
    OBVIOUS
  <1>1. NoEntry \in EntryType
    BY EmptySeq DEF NoEntry, EntryType, NodeType, Dir, Name
  <1>2. \A k \in PartKinds : stream[k] = <<>>
    BY KindsDiffer DEF Init, Streams
  <1>3. QED
    BY <1>1, <1>2, EmptySeq DEF Init, TypeInv

(* What a step of the upload does to the walks: it starts them all, it     *)
(* takes a name off one walk, or it completes an entry.                    *)
Pruned(k, p) ==
  /\ Skip(k, p)
  /\ todo' = [todo EXCEPT ![k] = @ \ {p}]
  /\ \A l \in PartKinds : Emitted(l)' = Emitted(l)

Below(p) == IF datadir[p] = Dir THEN Children(p) ELSE {}

Sent(k, p) ==
  /\ ~Skip(k, p) /\ p \in DOMAIN datadir
  /\ todo' = [todo EXCEPT ![k] = (@ \ {p}) \cup Below(p)]
  /\ \A l \in PartKinds :
       Emitted(l)' = Emitted(l) \cup
                       IF l = k THEN {[path |-> p, node |-> datadir[p]]} ELSE {}

LEMMA AppendAdds ==
  ASSUME NEW S, NEW s \in Seq(S), NEW e \in S
  PROVE  /\ Append(s, e) \in Seq(S)
         /\ {Append(s, e)[i] : i \in DOMAIN Append(s, e)} = {s[i] : i \in DOMAIN s} \cup {e}
  <1>1. /\ Len(s) \in Nat /\ DOMAIN s = 1..Len(s)
        /\ Append(s, e) \in Seq(S) /\ DOMAIN Append(s, e) = 1..Len(s) + 1
        /\ \A i \in 1..Len(s) : Append(s, e)[i] = s[i]
        /\ Append(s, e)[Len(s) + 1] = e
    BY AppendProperties
  <1> DEFINE a == Append(s, e)
  <1> HIDE DEF a
  <1>2. {a[i] : i \in 1..Len(s) + 1} = {s[i] : i \in 1..Len(s)} \cup {e}
    BY <1>1 DEF a
  <1>3. QED
    BY <1>1, <1>2 DEF a

(* A stream that grows by an entry, that of part k.                        *)
LEMMA StreamGrows ==
  ASSUME TypeInv, NEW k \in PartKinds, NEW e \in EntryType,
         stream' = [stream EXCEPT ![k] = Append(@, e)]
  PROVE  /\ DOMAIN stream' = Streams /\ \A l \in PartKinds : stream'[l] \in Seq(EntryType)
         /\ \A l \in PartKinds :
              {stream'[l][i] : i \in DOMAIN stream'[l]} =
                {stream[l][i] : i \in DOMAIN stream[l]} \cup IF l = k THEN {e} ELSE {}
  <1>1. k \in DOMAIN stream /\ stream[k] \in Seq(EntryType)
    BY DEF TypeInv, Streams
  <1>2. stream'[k] = Append(stream[k], e) /\ DOMAIN stream' = DOMAIN stream
        /\ \A l \in PartKinds \ {k} : stream'[l] = stream[l]
    BY <1>1 DEF TypeInv, Streams
  <1>3. QED
    BY <1>1, <1>2, AppendAdds DEF TypeInv

LEMMA CopyEffect ==
  ASSUME TypeInv, NEW k \in PartKinds, Copy(k)
  PROVE  /\ TypeInv' /\ UNCHANGED <<datadir, orig, touched, todo>>
         /\ \A l \in PartKinds : Emitted(l)' = Emitted(l)
  <1>1. UNCHANGED <<datadir, orig, touched, todo>> /\ head[k] # NoEntry
    BY DEF Copy
  <1>2. CASE stream' = [stream EXCEPT ![k] = Append(@, head[k])]
             /\ head' = [head EXCEPT ![k] = NoEntry] /\ UNCHANGED upc
    <2>1. head[k] \in EntryType
      BY DEF TypeInv
    <2>2. NoEntry \in EntryType
      BY EmptySeq DEF NoEntry, EntryType, NodeType, Dir, Name
    <2>3. /\ head'[k] = NoEntry
          /\ \A l \in PartKinds \ {k} : head'[l] = head[l]
      BY <1>2 DEF TypeInv
    <2>4. TypeInv'
      BY <1>1, <1>2, <2>1, <2>2, StreamGrows DEF TypeInv
    <2>5. \A l \in PartKinds : Emitted(l)' = Emitted(l)
      <3>1. \A l \in PartKinds :
              {stream'[l][i] : i \in DOMAIN stream'[l]} =
                {stream[l][i] : i \in DOMAIN stream[l]} \cup IF l = k THEN {head[k]} ELSE {}
        BY <1>2, <2>1, StreamGrows
      <3>2. Emitted(k)' = Emitted(k)
        BY <1>1, <2>3, <3>1 DEF Emitted
      <3>3. \A l \in PartKinds \ {k} : Emitted(l)' = Emitted(l)
        BY <2>3, <3>1 DEF Emitted
      <3>4. QED
        BY <3>2, <3>3
    <2>6. QED
      BY <1>1, <2>4, <2>5
  <1>3. CASE upc' = "err" /\ UNCHANGED <<stream, head>>
    BY <1>1, <1>3 DEF TypeInv, Emitted
  <1>4. QED
    BY <1>2, <1>3 DEF Copy

LEMMA VisitEffect ==
  ASSUME TypeInv, TreeInv, NEW k \in PartKinds, Visit(k)
  PROVE  /\ TypeInv' /\ UNCHANGED <<datadir, orig, touched>>
         /\ \E p \in todo[k] :
              \/ Pruned(k, p) \/ Sent(k, p)
              \/ upc' = "err" /\ UNCHANGED <<todo, head, stream>>
  <1> DEFINE q == First(todo[k])
  <1>1. q \in todo[k] /\ q \in Paths
    BY FirstIn DEF Visit, TypeInv
  <1>2. PICK p \in todo[k] : p = q /\ p \in Paths /\ p \in Name /\ p # <<>>
    BY <1>1, PathNames
  <1>3. UNCHANGED <<datadir, orig, touched>> /\ head[k] = NoEntry
    BY DEF Visit
  <1> DEFINE e == [path |-> p, node |-> datadir[p]]
  <1>4. p \in DOMAIN datadir => e \in EntryType /\ e # NoEntry
    BY <1>2 DEF TreeInv, EntryType, NoEntry
  <1>5. Below(p) \subseteq Paths
    BY DEF Below, Children, TreeInv
  <1>6. CASE Skip(k, p) /\ todo' = [todo EXCEPT ![k] = @ \ {p}]
             /\ UNCHANGED <<upc, head, stream>>
    <2>1. TypeInv'
      BY <1>6 DEF TypeInv
    <2>2. Pruned(k, p)
      BY <1>6 DEF Pruned, Emitted
    <2>3. QED
      BY <1>3, <2>1, <2>2
  <1>7. CASE upc' = "err" /\ UNCHANGED <<todo, head, stream>>
    <2>1. TypeInv'
      BY <1>7 DEF TypeInv
    <2>2. QED
      BY <1>2, <1>3, <1>7, <2>1
  <1>8. CASE /\ ~Skip(k, p) /\ p \in DOMAIN datadir /\ datadir[p].kind = "file"
             /\ head' = [head EXCEPT ![k] = e]
             /\ todo' = [todo EXCEPT ![k] = @ \ {p}]
             /\ UNCHANGED <<upc, stream>>
    <2>1. Below(p) = {}
      BY <1>8 DEF Below, Dir
    <2>2. TypeInv'
      BY <1>4, <1>8 DEF TypeInv
    <2>3. head'[k] = e /\ \A l \in PartKinds \ {k} : head'[l] = head[l]
      BY <1>8 DEF TypeInv
    <2>4. \A l \in PartKinds : Emitted(l)' = Emitted(l) \cup IF l = k THEN {e} ELSE {}
      BY <1>3, <1>4, <1>8, <2>3 DEF Emitted
    <2>5. Sent(k, p)
      BY <1>8, <2>1, <2>4 DEF Sent
    <2>6. QED
      BY <1>3, <2>2, <2>5
  <1>9. CASE /\ ~Skip(k, p) /\ p \in DOMAIN datadir
             /\ stream' = [stream EXCEPT ![k] = Append(@, e)]
             /\ todo' = [todo EXCEPT ![k] = (@ \ {p}) \cup Below(p)]
             /\ UNCHANGED <<upc, head>>
    <2>1. TypeInv'
      BY <1>4, <1>5, <1>9, StreamGrows DEF TypeInv
    <2>2. \A l \in PartKinds : Emitted(l)' = Emitted(l) \cup IF l = k THEN {e} ELSE {}
      <3>1. \A l \in PartKinds :
              {stream'[l][i] : i \in DOMAIN stream'[l]} =
                {stream[l][i] : i \in DOMAIN stream[l]} \cup IF l = k THEN {e} ELSE {}
        BY <1>4, <1>9, StreamGrows
      <3> HIDE DEF e
      <3>2. ASSUME NEW l \in PartKinds
            PROVE  Emitted(l)' = Emitted(l) \cup IF l = k THEN {e} ELSE {}
        BY <1>9, <3>1 DEF Emitted
      <3>3. QED
        BY <3>2
    <2>3. Sent(k, p)
      BY <1>9, <2>2 DEF Sent
    <2>4. QED
      BY <1>3, <2>1, <2>3
  <1>10. QED
    <2>1. \/ Skip(k, q) /\ todo' = [todo EXCEPT ![k] = @ \ {q}] /\ UNCHANGED <<upc, head, stream>>
          \/ upc' = "err" /\ UNCHANGED <<todo, head, stream>>
          \/ /\ ~Skip(k, q) /\ q \in DOMAIN datadir /\ datadir[q].kind = "file"
             /\ head' = [head EXCEPT ![k] = [path |-> q, node |-> datadir[q]]]
             /\ todo' = [todo EXCEPT ![k] = @ \ {q}]
             /\ UNCHANGED <<upc, stream>>
          \/ /\ ~Skip(k, q) /\ q \in DOMAIN datadir
             /\ stream' = [stream EXCEPT ![k] = Append(@, [path |-> q, node |-> datadir[q]])]
             /\ todo' = [todo EXCEPT ![k] = (@ \ {q}) \cup Below(q)]
             /\ UNCHANGED <<upc, head>>
      BY DEF Visit, Below
    <2>2. QED
      BY <1>2, <1>6, <1>7, <1>8, <1>9, <2>1

(* The walks as a step of the system leaves them.                          *)
WalkStep(k, p) ==
  upc = "walk" /\ (Pruned(k, p) \/ Sent(k, p)) /\ UNCHANGED <<datadir, orig, touched>>

NoWalkStep ==
  /\ UNCHANGED <<todo, orig>> /\ touched \subseteq touched'
  /\ \A k \in PartKinds : Emitted(k)' = Emitted(k)
  /\ upc' \in {"walk", "ok"} => upc \in {"walk", "ok"}

StartOfWalks ==
  /\ upc = "start" /\ AncientLayoutValid
  /\ todo' = [k \in PartKinds |-> IF k \in PlannedParts THEN {Root(k)} ELSE {}]
  /\ UNCHANGED <<datadir, orig, touched>>
  /\ \A k \in PartKinds : Emitted(k)' = Emitted(k)

LEMMA StepEffect ==
  ASSUME TypeInv, TreeInv, [Next]_vars
  PROVE  /\ TypeInv'
         /\ \/ NoWalkStep \/ StartOfWalks
            \/ \E k \in PartKinds : \E p \in todo[k] : WalkStep(k, p)
  <1>1. CASE Plan
    <2>1. todo' \in [PartKinds -> SUBSET Paths]
      BY <1>1, RootAssumption DEF Plan, TypeInv
    <2>2. UNCHANGED <<datadir, orig, touched, head, stream>> /\ upc' \in {"walk", "err"}
      BY <1>1 DEF Plan
    <2>3. TypeInv'
      BY <2>1, <2>2 DEF TypeInv
    <2>4. \A k \in PartKinds : Emitted(k)' = Emitted(k)
      BY <2>2 DEF Emitted
    <2>5. StartOfWalks \/ (UNCHANGED todo /\ upc' = "err")
      BY <1>1, <2>2, <2>4 DEF Plan, StartOfWalks
    <2>6. QED
      BY <2>2, <2>3, <2>4, <2>5 DEF NoWalkStep
  <1>2. CASE \E k \in PartKinds : Copy(k)
    <2>1. upc' \in {"walk", "ok"} => upc \in {"walk", "ok"}
      BY <1>2 DEF Copy
    <2>2. QED
      BY <1>2, <2>1, CopyEffect DEF NoWalkStep
  <1>3. CASE \E k \in PartKinds : Visit(k)
    <2>1. PICK k \in PartKinds : Visit(k)
      BY <1>3
    <2>2. /\ TypeInv' /\ UNCHANGED <<datadir, orig, touched>>
          /\ \E p \in todo[k] :
               \/ Pruned(k, p) \/ Sent(k, p)
               \/ upc' = "err" /\ UNCHANGED <<todo, head, stream>>
      BY <2>1, VisitEffect
    <2>3. CASE UNCHANGED <<todo, head, stream>>
      <3>1. \A l \in PartKinds : Emitted(l)' = Emitted(l)
        BY <2>3 DEF Emitted
      <3>2. upc = "walk"
        BY <2>1 DEF Visit
      <3>3. QED
        BY <2>2, <2>3, <3>1, <3>2 DEF NoWalkStep
    <2>4. QED
      BY <2>1, <2>2, <2>3 DEF WalkStep, Visit
  <1>4. CASE \E p \in Paths : NodeWrites(p)
    <2>1. UNCHANGED <<todo, orig, upc, head, stream>> /\ touched \subseteq touched'
      BY <1>4 DEF NodeWrites
    <2>2. \A l \in PartKinds : Emitted(l)' = Emitted(l)
      BY <2>1 DEF Emitted
    <2>3. QED
      BY <2>1, <2>2 DEF NoWalkStep, TypeInv
  <1>5. CASE Finish \/ Begin \/ Extracted \/ (\E k \in Streams : Extract(k)) \/ UNCHANGED vars
    <2>1. /\ UNCHANGED <<todo, orig, head, stream, touched>> /\ upc' \in {upc, "ok"}
          /\ upc' = "ok" => upc \in {"walk", "ok"}
      BY <1>5 DEF Finish, Begin, Extracted, Extract, vars, up, down
    <2>2. \A l \in PartKinds : Emitted(l)' = Emitted(l)
      BY <2>1 DEF Emitted
    <2>3. QED
      BY <2>1, <2>2 DEF NoWalkStep, TypeInv
  <1>6. QED
    BY <1>1, <1>2, <1>3, <1>4, <1>5 DEF Next

-----------------------------------------------------------------------------
(* Where the walks are.                                                    *)

(* The way down to x from the root of part k.                              *)
Entered(k, x) ==
  \A q \in Name : IsPrefix(Root(k), q) /\ IsPrefix(q, x) /\ q # x =>
    q \in DOMAIN orig /\ orig[q] = Dir /\ ~Skip(k, q)

(* The names that are left are in different branches, and so are those     *)
(* that were sent, up to the files that the node has touched as they were. *)
PlaceInv ==
  \A k \in PartKinds :
    /\ \A p \in todo[k] : IsPrefix(Root(k), p) /\ Entered(k, p)
    /\ \A p, q \in todo[k] : IsPrefix(p, q) => p = q

SentInv ==
  \A k \in PartKinds :
    /\ upc = "start" => Emitted(k) = {}
    /\ \A e \in Emitted(k) :
         /\ e.path \in Paths /\ IsPrefix(Root(k), e.path)
         /\ Entered(k, e.path) /\ ~Skip(k, e.path)
         /\ e.path \notin touched => e.path \in DOMAIN orig /\ e.node = orig[e.path]
         /\ \A q \in todo[k] : ~IsPrefix(q, e.path)

(* What is below a directory.                                              *)
LEMMA ChildFacts ==
  ASSUME TreeInv, NEW p \in Paths, NEW c \in Below(p)
  PROVE  /\ c \in Paths /\ c \in Name /\ c # p
         /\ p \in DOMAIN datadir => p \in DOMAIN orig /\ orig[p] = Dir
         /\ IsPrefix(p, c) /\ Len(c) = Len(p) + 1
         /\ \A q \in Name : IsPrefix(q, c) /\ q # c => IsPrefix(q, p)
  <1>1. datadir[p] = Dir /\ c \in DOMAIN datadir /\ c # <<>> /\ Front(c) = p
    BY DEF Below, Children
  <1>2. c \in Paths /\ c \in Name /\ p \in Name
    BY <1>1, PathNames DEF TreeInv
  <1>3. p \in Name /\ IsPrefix(p, c) /\ p # c /\ Len(p) = Len(c) - 1 /\ Len(c) \in Nat
    BY <1>1, <1>2, FrontPrefix DEF Name
  <1>4. ASSUME NEW q \in Name, IsPrefix(q, c), q # c
        PROVE  IsPrefix(q, p)
    <2>1. Len(q) < Len(c) /\ Len(q) \in Nat
      BY <1>2, <1>4, PrefixOrder DEF Name
    <2>2. IsPrefix(q, p) \/ IsPrefix(p, q)
      BY <1>2, <1>3, <1>4, PrefixOrder
    <2>3. CASE IsPrefix(p, q) /\ p # q
      <3>1. Len(p) < Len(q)
        BY <1>3, <2>3, PrefixOrder
      <3>2. QED
        BY <1>3, <2>1, <3>1
    <2>4. QED
      BY <1>3, <2>2, <2>3, PrefixOrder
  <1>5. p \in DOMAIN datadir => p \in DOMAIN orig /\ orig[p] = Dir
    BY <1>1, DirsStay
  <1>6. QED
    BY <1>1, <1>2, <1>3, <1>4, <1>5

LEMMA PlaceStep ==
  ASSUME TypeInv, TreeInv, PlaceInv, SentInv, [Next]_vars
  PROVE  PlaceInv'
  <1>1. CASE NoWalkStep
    BY <1>1 DEF NoWalkStep, PlaceInv, Entered
  <1>2. CASE StartOfWalks
    <2>1. \A k \in PartKinds : todo'[k] \in {{}, {Root(k)}}
      BY <1>2 DEF StartOfWalks
    <2>2. \A k \in PartKinds : \A p \in todo'[k] : p = Root(k)
      BY <2>1
    <2>3. ASSUME NEW k \in PartKinds
          PROVE  IsPrefix(Root(k), Root(k)) /\ Entered(k, Root(k))'
      BY RootName, PrefixOrder DEF Entered
    <2>4. QED
      BY <2>2, <2>3 DEF PlaceInv, Entered
  <1>3. CASE \E k \in PartKinds : \E p \in todo[k] : WalkStep(k, p)
    <2>1. PICK k \in PartKinds : \E p \in todo[k] : WalkStep(k, p)
      BY <1>3
    <2>2. PICK p \in todo[k] : WalkStep(k, p)
      BY <2>1
    <2>3. p \in Paths /\ p \in Name /\ todo[k] \subseteq Paths
      BY PathNames DEF TypeInv
    <2>4. /\ \A l \in PartKinds \ {k} : todo'[l] = todo[l]
          /\ orig' = orig
      BY <2>2 DEF WalkStep, Pruned, Sent, TypeInv
    <2>5. CASE Pruned(k, p)
      <3>1. todo'[k] \subseteq todo[k]
        BY <2>5 DEF Pruned, TypeInv
      <3>2. \A l \in PartKinds : todo'[l] \subseteq todo[l]
        BY <2>4, <3>1
      <3>3. QED
        BY <2>4, <3>2 DEF PlaceInv, Entered
    <2>6. CASE Sent(k, p)
      <3>1. todo'[k] = (todo[k] \ {p}) \cup Below(p) /\ p \in DOMAIN datadir /\ ~Skip(k, p)
        BY <2>6 DEF Sent, TypeInv
      <3>2. IsPrefix(Root(k), p) /\ Entered(k, p) /\ Root(k) \in Name
        BY RootName DEF PlaceInv
      <3>3. ASSUME NEW c \in Below(p)
            PROVE  IsPrefix(Root(k), c) /\ Entered(k, c)
        <4>1. /\ c \in Name /\ p \in DOMAIN orig /\ orig[p] = Dir
              /\ IsPrefix(p, c) /\ \A q \in Name : IsPrefix(q, c) /\ q # c => IsPrefix(q, p)
          BY <2>3, <3>1, ChildFacts
        <4>2. IsPrefix(Root(k), c)
          BY <2>3, <3>2, <4>1, PrefixOrder
        <4>3. QED
          BY <3>1, <3>2, <4>1, <4>2 DEF Entered
      <3>4. ASSUME NEW q \in todo'[k], NEW r \in todo'[k], IsPrefix(q, r), q # r
            PROVE  FALSE
        <4>1. q \in Name /\ r \in Name /\ Len(p) \in Nat
          BY <2>3, <3>1, <3>4, ChildFacts, PathNames DEF Name
        <4>2. CASE q \in todo[k] \ {p} /\ r \in todo[k] \ {p}
          BY <3>4, <4>2 DEF PlaceInv
        <4>3. CASE q \in todo[k] \ {p} /\ r \in Below(p)
          <5>1. IsPrefix(q, p)
            BY <2>3, <3>4, <4>1, <4>3, ChildFacts
          <5>2. QED
            BY <4>3, <5>1 DEF PlaceInv
        <4>4. CASE q \in Below(p) /\ r \in todo[k] \ {p}
          <5>1. IsPrefix(p, q)
            BY <2>3, <4>4, ChildFacts
          <5>2. IsPrefix(p, r)
            BY <2>3, <3>4, <4>1, <5>1, PrefixOrder
          <5>3. QED
            BY <4>4, <5>2 DEF PlaceInv
        <4>5. CASE q \in Below(p) /\ r \in Below(p)
          <5>1. Len(q) = Len(r)
            BY <2>3, <4>5, ChildFacts
          <5>2. QED
            BY <3>4, <4>1, <5>1, PrefixOrder
        <4>6. QED
          BY <3>1, <3>4, <4>2, <4>3, <4>4, <4>5
      <3>5. \A q \in todo'[k] : IsPrefix(Root(k), q) /\ Entered(k, q)
        BY <3>1, <3>3 DEF PlaceInv
      <3>6. ASSUME NEW l \in PartKinds
            PROVE  /\ \A q \in todo'[l] : IsPrefix(Root(l), q) /\ Entered(l, q)
                   /\ \A q, r \in todo'[l] : IsPrefix(q, r) => q = r
        <4>1. CASE l = k
          BY <3>4, <3>5, <4>1
        <4>2. CASE l # k
          BY <2>4, <4>2 DEF PlaceInv
        <4>3. QED
          BY <4>1, <4>2
      <3>7. QED
        BY <2>4, <3>6 DEF PlaceInv, Entered
    <2>7. QED
      BY <2>2, <2>5, <2>6 DEF WalkStep
  <1>4. QED
    BY <1>1, <1>2, <1>3, StepEffect

LEMMA SentStep ==
  ASSUME TypeInv, TreeInv, PlaceInv, SentInv, [Next]_vars
  PROVE  SentInv'
  <1>1. TypeInv' /\ (upc' = "start" => upc = "start")
    BY StepEffect
    DEF Next, Plan, Finish, Begin, Extracted, Visit, Copy, Extract, NodeWrites, vars, up, down
  <1>2. CASE NoWalkStep
    BY <1>1, <1>2 DEF NoWalkStep, SentInv, Entered
  <1>3. CASE StartOfWalks
    BY <1>1, <1>3 DEF StartOfWalks, SentInv
  <1>4. CASE \E k \in PartKinds : \E p \in todo[k] : WalkStep(k, p)
    <2>1. PICK k \in PartKinds : \E p \in todo[k] : WalkStep(k, p)
      BY <1>4
    <2>2. PICK p \in todo[k] : WalkStep(k, p)
      BY <2>1
    <2>3. p \in Paths /\ p \in Name /\ todo[k] \subseteq Paths
      BY PathNames DEF TypeInv
    <2>4. /\ \A l \in PartKinds \ {k} : todo'[l] = todo[l]
          /\ orig' = orig /\ touched' = touched /\ datadir' = datadir
      BY <2>2 DEF WalkStep, Pruned, Sent, TypeInv
    <2>5. upc' # "start"
      BY <1>1, <2>2 DEF WalkStep
    <2>6. CASE Pruned(k, p)
      <3>1. todo'[k] \subseteq todo[k] /\ \A l \in PartKinds : Emitted(l)' = Emitted(l)
        BY <2>6 DEF Pruned, TypeInv
      <3>2. \A l \in PartKinds : todo'[l] \subseteq todo[l]
        BY <2>4, <3>1
      <3>3. QED
        BY <2>4, <2>5, <3>1, <3>2 DEF SentInv, Entered
    <2>7. CASE Sent(k, p)
      <3> DEFINE new == [path |-> p, node |-> datadir[p]]
      <3>1. /\ todo'[k] = (todo[k] \ {p}) \cup Below(p) /\ p \in DOMAIN datadir /\ ~Skip(k, p)
            /\ Emitted(k)' = Emitted(k) \cup {new}
            /\ \A l \in PartKinds \ {k} : Emitted(l)' = Emitted(l)
        BY <2>7 DEF Sent, TypeInv
      <3>2. new.path = p /\ (p \notin touched => p \in DOMAIN orig /\ new.node = orig[p])
        BY <2>3, <3>1 DEF TreeInv
      <3>3. IsPrefix(Root(k), p) /\ Entered(k, p)
        BY DEF PlaceInv
      <3> HIDE DEF new
      <3>4. ASSUME NEW q \in todo'[k]
            PROVE  ~IsPrefix(q, p)
        <4>1. CASE q \in todo[k] \ {p}
          BY <4>1 DEF PlaceInv
        <4>2. CASE q \in Below(p)
          <5>1. q \in Name /\ q # p /\ IsPrefix(p, q)
            BY <2>3, <4>2, ChildFacts
          <5>2. QED
            BY <2>3, <5>1, PrefixOrder
        <4>3. QED
          BY <3>1, <4>1, <4>2
      <3>5. ASSUME NEW e \in Emitted(k), NEW q \in todo'[k]
            PROVE  ~IsPrefix(q, e.path)
        <4>1. e.path \in Name /\ ~IsPrefix(p, e.path)
          BY PathNames DEF SentInv
        <4>2. CASE q \in todo[k] \ {p}
          BY <4>2 DEF SentInv
        <4>3. CASE q \in Below(p)
          <5>1. q \in Name /\ IsPrefix(p, q)
            BY <2>3, <4>3, ChildFacts
          <5>2. QED
            BY <2>3, <4>1, <5>1, PrefixOrder
        <4>4. QED
          BY <3>1, <4>2, <4>3
      <3>6. ASSUME NEW e \in Emitted(k)'
            PROVE  /\ e.path \in Paths /\ IsPrefix(Root(k), e.path)
                   /\ Entered(k, e.path) /\ ~Skip(k, e.path)
                   /\ e.path \notin touched => e.path \in DOMAIN orig /\ e.node = orig[e.path]
                   /\ \A q \in todo'[k] : ~IsPrefix(q, e.path)
        <4>1. CASE e = new
          BY <2>3, <3>1, <3>2, <3>3, <3>4, <4>1
        <4>2. CASE e \in Emitted(k)
          BY <3>5, <4>2 DEF SentInv
        <4>3. QED
          BY <3>1, <4>1, <4>2
      <3>7. ASSUME NEW l \in PartKinds, NEW e \in Emitted(l)'
            PROVE  /\ e.path \in Paths /\ IsPrefix(Root(l), e.path)
                   /\ Entered(l, e.path) /\ ~Skip(l, e.path)
                   /\ e.path \notin touched => e.path \in DOMAIN orig /\ e.node = orig[e.path]
                   /\ \A q \in todo'[l] : ~IsPrefix(q, e.path)
        <4>1. CASE l = k
          BY <3>6, <4>1
        <4>2. CASE l # k
          BY <2>4, <3>1, <4>2 DEF SentInv
        <4>3. QED
          BY <4>1, <4>2
      <3>8. QED
        BY <2>4, <2>5, <3>7 DEF SentInv, Entered
    <2>8. QED
      BY <2>2, <2>6, <2>7 DEF WalkStep
  <1>5. QED
    BY <1>2, <1>3, <1>4, StepEffect

LEMMA InitPlace == Init => PlaceInv /\ SentInv
  <1> SUFFICES ASSUME Init PROVE PlaceInv /\ SentInv
    OBVIOUS
  <1>1. \A k \in PartKinds : todo[k] = {} /\ head[k] = NoEntry /\ stream[k] = <<>>
    BY KindsDiffer DEF Init, Streams
  <1>2. \A k \in PartKinds : Emitted(k) = {}
    BY <1>1 DEF Emitted
  <1>3. QED
    BY <1>1, <1>2 DEF PlaceInv, SentInv

WalkInv == TypeInv /\ TreeInv /\ PlaceInv /\ SentInv

LEMMA WalkInvariant == Spec => []WalkInv
  <1>1. Init => WalkInv
    BY InitType, InitTree, InitPlace DEF WalkInv
  <1>2. WalkInv /\ [Next]_vars => WalkInv'
    BY StepEffect, TreeStep, PlaceStep, SentStep DEF WalkInv
  <1>3. QED
    BY <1>1, <1>2, PTL DEF Spec

LEMMA EntryEmitted ==
  ASSUME NEW k \in PartKinds, NEW i \in DOMAIN stream[k]
  PROVE  stream[k][i] \in Emitted(k)
  BY DEF Emitted

(* Whatever the datadir is and a running node does to it, no two parts     *)
(* carry the same path, so the order in which they are extracted cannot    *)
(* matter.                                                                 *)
THEOREM DisjointTheorem == Spec => []PartsDisjoint
  <1>1. WalkInv => PartsDisjoint
    <2> SUFFICES ASSUME WalkInv, NEW k \in PartKinds, NEW l \in PartKinds, k # l,
                        NEW i \in DOMAIN stream[k], NEW j \in DOMAIN stream[l],
                        stream[k][i].path = stream[l][j].path
                 PROVE  FALSE
      BY DEF PartsDisjoint
    <2>1. /\ stream[k][i].path \in Name
          /\ IsPrefix(Root(k), stream[k][i].path) /\ ~Skip(k, stream[k][i].path)
      BY EntryEmitted, PathNames DEF WalkInv, SentInv
    <2>2. IsPrefix(Root(l), stream[l][j].path) /\ ~Skip(l, stream[l][j].path)
      BY EntryEmitted DEF WalkInv, SentInv
    <2>3. QED
      BY <2>1, <2>2, PartsApart
  <1>2. QED
    BY <1>1, WalkInvariant, PTL

-----------------------------------------------------------------------------
(* Every file once.                                                        *)

OnceInv ==
  \A k \in PartKinds :
    /\ \A i, j \in DOMAIN stream[k] : stream[k][i].path = stream[k][j].path => i = j
    /\ head[k] # NoEntry => \A i \in DOMAIN stream[k] : stream[k][i].path # head[k].path

LEMMA AppendOnce ==
  ASSUME NEW s \in Seq(EntryType), NEW e \in EntryType,
         \A i, j \in DOMAIN s : s[i].path = s[j].path => i = j,
         \A i \in DOMAIN s : s[i].path # e.path
  PROVE  \A i, j \in DOMAIN Append(s, e) : Append(s, e)[i].path = Append(s, e)[j].path => i = j
  <1>1. /\ Len(s) \in Nat /\ DOMAIN s = 1..Len(s)
        /\ DOMAIN Append(s, e) = 1..Len(s) + 1
        /\ \A i \in 1..Len(s) : Append(s, e)[i] = s[i]
        /\ Append(s, e)[Len(s) + 1] = e
    BY AppendProperties
  <1> DEFINE a == Append(s, e)
  <1>2. DOMAIN a = 1..Len(s) + 1 /\ (\A i \in 1..Len(s) : a[i] = s[i]) /\ a[Len(s) + 1] = e
    BY <1>1
  <1> HIDE DEF a
  <1>3. ASSUME NEW i \in DOMAIN a, NEW j \in DOMAIN a, a[i].path = a[j].path
        PROVE  i = j
    <2>1. i \in DOMAIN s \/ i = Len(s) + 1
      BY <1>1, <1>2
    <2>2. j \in DOMAIN s \/ j = Len(s) + 1
      BY <1>1, <1>2
    <2>3. QED
      BY <1>1, <1>2, <1>3, <2>1, <2>2
  <1>4. QED
    BY <1>3 DEF a

LEMMA OnceStep ==
  ASSUME WalkInv, OnceInv, [Next]_vars
  PROVE  OnceInv'
  <1>1. CASE \E k \in PartKinds : Copy(k)
    <2>1. PICK k \in PartKinds : Copy(k)
      BY <1>1
    <2>2. CASE UNCHANGED <<stream, head>>
      BY <2>2 DEF OnceInv
    <2>3. CASE stream' = [stream EXCEPT ![k] = Append(@, head[k])]
               /\ head' = [head EXCEPT ![k] = NoEntry]
      <3>1. k \in DOMAIN stream /\ stream[k] \in Seq(EntryType) /\ head[k] \in EntryType
            /\ head[k] # NoEntry
        BY <2>1 DEF WalkInv, TypeInv, Streams, Copy
      <3>2. /\ stream'[k] = Append(stream[k], head[k]) /\ head'[k] = NoEntry
            /\ \A l \in PartKinds \ {k} : stream'[l] = stream[l] /\ head'[l] = head[l]
        BY <2>3, <3>1 DEF WalkInv, TypeInv, Streams
      <3>3. \A i, j \in DOMAIN stream'[k] : stream'[k][i].path = stream'[k][j].path => i = j
        <4>1. \A i, j \in DOMAIN stream[k] : stream[k][i].path = stream[k][j].path => i = j
          BY DEF OnceInv
        <4>2. \A i \in DOMAIN stream[k] : stream[k][i].path # head[k].path
          BY <3>1 DEF OnceInv
        <4>3. QED
          <5> PICK s \in Seq(EntryType) : s = stream[k]
            BY <3>1
          <5> PICK e \in EntryType : e = head[k]
            BY <3>1
          <5>1. \A i, j \in DOMAIN Append(s, e) :
                  Append(s, e)[i].path = Append(s, e)[j].path => i = j
            BY <4>1, <4>2, AppendOnce
          <5>2. stream'[k] = Append(s, e)
            BY <3>2
          <5>3. QED
            BY <5>1, <5>2
      <3>4. \A l \in PartKinds \ {k} :
              /\ \A i, j \in DOMAIN stream'[l] : stream'[l][i].path = stream'[l][j].path => i = j
              /\ head'[l] # NoEntry =>
                   \A i \in DOMAIN stream'[l] : stream'[l][i].path # head'[l].path
        BY <3>2 DEF OnceInv
      <3>5. QED
        BY <3>2, <3>3, <3>4, Zenon DEF OnceInv
    <2>4. QED
      BY <2>1, <2>2, <2>3 DEF Copy
  <1>2. CASE \E k \in PartKinds : Visit(k)
    <2>1. PICK k \in PartKinds : Visit(k)
      BY <1>2
    <2> DEFINE p == First(todo[k])
               e == [path |-> p, node |-> datadir[p]]
    <2>2. p \in todo[k] /\ p \in Paths /\ head[k] = NoEntry
      BY <2>1, FirstIn DEF Visit, WalkInv, TypeInv
    <2>3. \A i \in DOMAIN stream[k] : stream[k][i].path # p
      <3>1. IsPrefix(p, p)
        BY <2>2, PathNames, PrefixOrder
      <3>2. QED
        BY <2>2, <3>1, EntryEmitted DEF WalkInv, SentInv
    <2>4. p \in DOMAIN datadir => e \in EntryType
      BY <2>2, PathNames DEF WalkInv, TreeInv, EntryType
    <2>5. k \in DOMAIN stream /\ stream[k] \in Seq(EntryType)
      BY DEF WalkInv, TypeInv, Streams
    <2>6. CASE UNCHANGED <<stream, head>>
      BY <2>6 DEF OnceInv
    <2>7. CASE UNCHANGED stream /\ head' = [head EXCEPT ![k] = e]
      <3>1. head'[k].path = p /\ \A l \in PartKinds \ {k} : head'[l] = head[l]
        BY <2>7 DEF WalkInv, TypeInv
      <3> HIDE DEF p
      <3>2. QED
        BY <2>3, <2>7, <3>1 DEF OnceInv
    <2>8. CASE UNCHANGED head /\ p \in DOMAIN datadir
               /\ stream' = [stream EXCEPT ![k] = Append(@, e)]
      <3>1. /\ stream'[k] = Append(stream[k], e)
            /\ \A l \in PartKinds \ {k} : stream'[l] = stream[l]
        BY <2>5, <2>8 DEF WalkInv, TypeInv, Streams
      <3>2. e.path = p
        OBVIOUS
      <3> HIDE DEF e, p
      <3>3. \A i, j \in DOMAIN stream'[k] : stream'[k][i].path = stream'[k][j].path => i = j
        BY <2>3, <2>4, <2>5, <2>8, <3>1, <3>2, AppendOnce DEF OnceInv
      <3>4. QED
        BY <2>2, <2>8, <3>1, <3>3 DEF OnceInv
    <2>9. QED
      BY <2>1, <2>6, <2>7, <2>8 DEF Visit
  <1>3. CASE UNCHANGED <<stream, head>>
    BY <1>3 DEF OnceInv
  <1>4. QED
    BY <1>1, <1>2, <1>3
    DEF Next, Plan, Finish, Begin, Extracted, Extract, NodeWrites, vars, up, down

-----------------------------------------------------------------------------
(* Nothing is left out.                                                    *)

Skipped(k) == {q \in Paths : Skip(k, q)}

(* What the walk of part k comes to in the datadir as it was.              *)
Reached(k) ==
  {p \in DOMAIN orig : IsPrefix(Root(k), p) /\ ~Skip(k, p) /\ Entered(k, p)}

(* The walk of part k still comes to p, or has sent it.                    *)
Covered(k, p) ==
  \/ \E q \in todo[k] : IsPrefix(q, p)
  \/ [path |-> p, node |-> orig[p]] \in Emitted(k)

LayoutInv ==
  \A p \in DOMAIN orig :
    /\ p = Ancient => orig[p] \in {Dir} \cup Links
    /\ IsStrictPrefix(Ancient, p) => p[3] \in {"chain", "state"}

CoverInv ==
  /\ upc = "start" => touched = {} /\ datadir = orig
  /\ source = "parts" /\ upc \in {"walk", "ok"} =>
       /\ LayoutInv
       /\ \A k \in PartKinds : \A p \in Reached(k) \ touched : Covered(k, p)
  /\ source = "parts" /\ upc = "ok" =>
       \A k \in PartKinds : todo[k] = {} /\ head[k] = NoEntry

LEMMA WalkedAre ==
  ASSUME NEW k \in PartKinds, orig \in Datadirs, NEW p
  PROVE  p \in Walked(orig, k, Skipped(k)) <=> p \in Reached(k) /\ orig[p].kind = "file"
  <1> SUFFICES ASSUME p \in DOMAIN orig, IsPrefix(Root(k), p), orig[p].kind = "file"
               PROVE  (\A q \in Prefixes(p) :
                         IsPrefix(Root(k), q) => q \notin Skipped(k) /\ (q # p => orig[q] = Dir))
                      <=> ~Skip(k, p) /\ Entered(k, p)
    BY DEF Walked, Reached
  <1>1. p \in Paths /\ p \in Name /\ Root(k) \in Name /\ Root(k) # <<>> /\ IsPrefix(p, p)
    BY TreeFacts, RootName, PrefixOrder
  <1>2. ASSUME NEW q \in Name, IsPrefix(q, p), q # p, IsPrefix(Root(k), q)
        PROVE  q \in DOMAIN orig /\ q \in Paths
    <2>1. q # <<>>
      BY <1>1, <1>2, PrefixOrder, EmptySeq, RootName
    <2>2. q \in DOMAIN orig
      BY <1>2, <2>1, TreeFacts
    <2>3. QED
      BY <2>2, TreeFacts
  <1>3. QED
    BY <1>1, <1>2, PrefixesAre DEF Skipped, Entered

(* The name below p on the way to a file that is still there.              *)
LEMMA NextName ==
  ASSUME TreeInv, NEW p \in Name, p # <<>>, NEW x \in DOMAIN orig \ touched,
         IsPrefix(p, x), p # x
  PROVE  \E c \in Children(p) : IsPrefix(c, x)
  <1>1. orig \in Datadirs /\ x \in Paths /\ x \in Name /\ x \in DOMAIN datadir
    BY TreeFacts DEF TreeInv
  <1>2. PICK c \in Name : c # <<>> /\ Front(c) = p /\ IsPrefix(c, x)
    BY <1>1, StepDown
  <1>3. c \in DOMAIN datadir
    <2>1. CASE c = x
      BY <1>1, <2>1
    <2>2. CASE c # x
      <3>1. c \in DOMAIN orig /\ orig[c] \in {Dir, Symlink}
        BY <1>1, <1>2, <2>2, TreeFacts
      <3>2. orig[c].kind # "file" /\ c \in Paths
        BY <1>1, <3>1, TreeFacts DEF Dir, Symlink
      <3>3. QED
        BY <3>1, <3>2 DEF TreeInv
    <2>3. QED
      BY <2>1, <2>2
  <1>4. QED
    BY <1>2, <1>3 DEF Children

LEMMA CoverWalk ==
  ASSUME WalkInv, NEW k \in PartKinds, NEW p \in todo[k], WalkStep(k, p),
         NEW l \in PartKinds, NEW x \in Reached(l) \ touched, Covered(l, x)
  PROVE  Covered(l, x)'
  <1>1. /\ orig' = orig /\ \A m \in PartKinds : Emitted(m) \subseteq Emitted(m)'
        /\ \A m \in PartKinds \ {k} : todo'[m] = todo[m]
    BY DEF WalkStep, Pruned, Sent, WalkInv, TypeInv
  <1>2. p \in Paths /\ p \in Name /\ p # <<>>
    BY PathNames DEF WalkInv, TypeInv
  <1>3. /\ orig \in Datadirs /\ x \in DOMAIN orig /\ IsPrefix(Root(l), x)
        /\ ~Skip(l, x) /\ Entered(l, x)
    BY DEF WalkInv, TreeInv, Reached
  <1>4. CASE l = k /\ IsPrefix(p, x)
    <2>1. p # x => p \in DOMAIN orig /\ orig[p] = Dir /\ ~Skip(k, p)
      BY <1>2, <1>3, <1>4 DEF Entered, WalkInv, PlaceInv
    <2>2. ~Pruned(k, p)
      BY <1>3, <1>4, <2>1 DEF Pruned
    <2>3. /\ todo'[k] = (todo[k] \ {p}) \cup Below(p)
          /\ [path |-> p, node |-> datadir[p]] \in Emitted(k)'
      BY <2>2 DEF WalkStep, Sent, WalkInv, TypeInv
    <2>4. CASE p = x
      <3>1. datadir[x] = orig[x]
        BY <1>2, <1>3, <2>4 DEF WalkInv, TreeInv
      <3>2. QED
        BY <1>1, <1>4, <2>3, <2>4, <3>1 DEF Covered
    <2>5. CASE p # x
      <3>1. Below(p) = Children(p)
        BY <1>2, <2>1, <2>5, DirsStay DEF Below, WalkInv
      <3>2. \E c \in Children(p) : IsPrefix(c, x)
        BY <1>2, <1>3, <1>4, <2>5, NextName DEF WalkInv
      <3>3. QED
        BY <1>4, <2>3, <3>1, <3>2 DEF Covered
    <2>6. QED
      BY <2>4, <2>5
  <1>5. CASE ~(l = k /\ IsPrefix(p, x))
    <2>1. \A q \in todo[l] : IsPrefix(q, x) => q \in todo'[l]
      BY <1>1, <1>5 DEF WalkStep, Pruned, Sent, WalkInv, TypeInv
    <2>2. QED
      BY <1>1, <2>1 DEF Covered
  <1>6. QED
    BY <1>4, <1>5

LEMMA CoverStart ==
  ASSUME WalkInv, CoverInv, StartOfWalks
  PROVE  /\ LayoutInv
         /\ \A k \in PartKinds : \A p \in Reached(k) : Covered(k, p)'
  <1>1. datadir = orig /\ orig' = orig
    BY DEF CoverInv, StartOfWalks
  <1>2. LayoutInv
    BY <1>1 DEF LayoutInv, StartOfWalks, AncientLayoutValid
  <1>3. ASSUME NEW k \in PartKinds, NEW p \in Reached(k)
        PROVE  Covered(k, p)'
    <2>1. p \in DOMAIN orig /\ IsPrefix(Root(k), p) /\ Entered(k, p) /\ orig \in Datadirs
      BY DEF WalkInv, TreeInv, Reached
    <2>2. p \in Name /\ Root(k) \in Name
      BY <2>1, TreeFacts, RootName
    <2>3. Root(k) \in DOMAIN orig
      BY <2>1, <2>2, PrefixOrder DEF Entered
    <2>4. k \in PlannedParts
      <3> DEFINE st == Root(AncientState) \in DOMAIN datadir
                 tr == Root(Triedb) \in DOMAIN datadir
      <3>1. (k = AncientState => st) /\ (k = Triedb => tr)
        BY <1>1, <2>3
      <3>2. PlannedParts = ToSet(PlanParts(st, tr))
        BY DEF PlannedParts
      <3> HIDE DEF st, tr
      <3>3. k \in ToSet(PlanParts(st, tr))
        BY <3>1, KindsDiffer DEF PlanParts, ToSet
      <3>4. QED
        BY <3>2, <3>3
    <2>5. Root(k) \in todo'[k]
      BY <2>4 DEF StartOfWalks
    <2>6. QED
      BY <2>1, <2>5 DEF Covered
  <1>4. QED
    BY <1>2, <1>3

LEMMA CoverStep ==
  ASSUME WalkInv, CoverInv, [Next]_vars
  PROVE  CoverInv'
  <1>1. source' = source /\ orig' = orig
    BY DEF Next, Plan, Finish, Begin, Extracted, Visit, Copy, Extract, NodeWrites,
           vars, up, down
  <1>2. upc' = "start" => upc = "start" /\ UNCHANGED <<touched, datadir>>
    BY DEF Next, Plan, Finish, Begin, Extracted, Visit, Copy, Extract, NodeWrites,
           vars, up, down
  <1>3. ASSUME source = "parts", upc' \in {"walk", "ok"}
        PROVE  /\ LayoutInv
               /\ \A k \in PartKinds : \A p \in Reached(k) \ touched' : Covered(k, p)'
    <2>1. CASE NoWalkStep
      <3>1. upc \in {"walk", "ok"}
        BY <1>3, <2>1 DEF NoWalkStep
      <3>2. QED
        BY <1>3, <2>1, <3>1 DEF NoWalkStep, CoverInv, Covered
    <2>2. CASE StartOfWalks
      BY <2>2, CoverStart
    <2>3. CASE \E k \in PartKinds : \E p \in todo[k] : WalkStep(k, p)
      <3>1. upc = "walk" /\ touched' = touched
        BY <2>3 DEF WalkStep
      <3>2. QED
        BY <1>3, <2>3, <3>1, CoverWalk DEF CoverInv
    <2>4. QED
      BY <2>1, <2>2, <2>3, StepEffect DEF WalkInv
  <1>4. ASSUME source = "parts", upc' = "ok"
        PROVE  \A k \in PartKinds : todo'[k] = {} /\ head'[k] = NoEntry
    <2>1. CASE Finish
      BY <2>1 DEF Finish
    <2>2. CASE upc = "ok" /\ UNCHANGED <<todo, head>>
      BY <1>4, <2>2 DEF CoverInv
    <2>3. QED
      BY <1>4, <2>1, <2>2
      DEF Next, Plan, Begin, Extracted, Visit, Copy, Extract, NodeWrites, vars, up, down
  <1>5. QED
    BY <1>1, <1>2, <1>3, <1>4 DEF CoverInv, LayoutInv, Reached, Entered

LEMMA InitCover == Init => OnceInv /\ CoverInv
  <1> SUFFICES ASSUME Init PROVE OnceInv /\ CoverInv
    OBVIOUS
  <1>1. \A k \in PartKinds : head[k] = NoEntry /\ stream[k] = <<>> /\ DOMAIN stream[k] = {}
    BY KindsDiffer DEF Init, Streams
  <1>2. QED
    BY <1>1 DEF Init, OnceInv, CoverInv

LEMMA CoverInvariant == Spec => [](WalkInv /\ OnceInv /\ CoverInv)
  <1>1. Init => OnceInv /\ CoverInv
    BY InitCover
  <1>2. WalkInv /\ OnceInv /\ CoverInv /\ [Next]_vars => (OnceInv /\ CoverInv)'
    BY OnceStep, CoverStep
  <1>3. QED
    BY <1>1, <1>2, WalkInvariant, PTL DEF Spec

(* Everything a node needs is in the walk of some part, but for a          *)
(* directory chaindata/ancient.                                            *)
LEMMA KeptIsReached ==
  ASSUME orig \in Datadirs, LayoutInv, source = "parts", NEW p, Kept(p), p # Ancient
  PROVE  \E k \in PartKinds : p \in Reached(k)
  <1>1. p \in DOMAIN orig /\ p \in Name /\ p # <<>> /\ IsPrefix(p, p)
    BY TreeFacts, PrefixOrder DEF Kept
  <1>2. p[1] \in {"chaindata", "triedb"} /\ Len(p) \in Nat \ {0}
    BY <1>1, EmptySeq DEF Kept, Name
  <1>3. ASSUME NEW q \in Name, IsPrefix(q, p), q # p, q # <<>>, q # Ancient
        PROVE  q \in DOMAIN orig /\ orig[q] = Dir
    <2>1. q \in DOMAIN orig /\ orig[q] \in {Dir, Symlink}
      BY <1>1, <1>3, TreeFacts
    <2>2. orig[q] \notin Links
      BY <1>1, <1>3, PrefixesAre DEF Kept
    <2>3. QED
      BY <2>1, <2>2 DEF Links
  <1>4. ASSUME NEW k \in PartKinds, IsPrefix(Root(k), p), ~Skip(k, p),
               ~IsPrefix(Ancient, p) \/ ~IsPrefix(Root(k), Ancient)
        PROVE  p \in Reached(k)
    <2>1. Root(k) \in Name /\ Root(k) # <<>> /\ Ancient \in Name
      BY RootName, WordsAre, TwoNames DEF Ancient
    <2>2. ASSUME NEW q \in Name, IsPrefix(Root(k), q), IsPrefix(q, p), q # p
          PROVE  q \in DOMAIN orig /\ orig[q] = Dir /\ ~Skip(k, q)
      <3>1. q # <<>>
        BY <2>1, <2>2, PrefixOrder, EmptySeq, RootName
      <3>2. q # Ancient
        BY <1>4, <2>2
      <3>3. IsPrefix(Ancient, q) => IsPrefix(Ancient, p)
        BY <1>1, <2>1, <2>2, PrefixOrder
      <3>4. QED
        BY <1>3, <1>4, <2>2, <3>1, <3>2, <3>3 DEF Skip
    <2>3. QED
      BY <1>1, <1>4, <2>2 DEF Entered, Reached
  <1>5. CASE p[1] = "triedb"
    <2>1. ~IsPrefix(Ancient, p)
      BY <1>1, <1>5, UnderRoot
    <2>2. IsPrefix(Root(Triedb), p) /\ ~Skip(Triedb, p) /\ Triedb \in PartKinds
      BY <1>1, <1>2, <1>5, UnderRoot, KindsDiffer DEF Skip
    <2>3. QED
      BY <1>4, <2>1, <2>2
  <1>6. CASE p[1] = "chaindata" /\ ~IsPrefix(Ancient, p)
    <2>1. IsPrefix(Root(Live), p) /\ ~Skip(Live, p) /\ Live \in PartKinds
      BY <1>1, <1>2, <1>6, UnderRoot, KindsDiffer DEF Skip
    <2>2. QED
      BY <1>4, <1>6, <2>1
  <1>7. CASE p[1] = "chaindata" /\ IsPrefix(Ancient, p)
    <2>1. Ancient \in Name /\ Len(Ancient) = 2
      BY WordsAre, TwoNames DEF Ancient
    <2>2. p[3] \in {"chain", "state"}
      BY <1>1, <1>7 DEF LayoutInv, IsStrictPrefix
    <2>3. Len(p) >= 3 /\ p[2] = "ancient"
      <3>1. Len(Ancient) < Len(p)
        BY <1>1, <1>7, <2>1, PrefixOrder
      <3>2. QED
        BY <1>1, <1>2, <1>7, <2>1, <3>1, UnderRoot
    <2>4. ~IsPrefix(Root(AncientChain), Ancient) /\ ~IsPrefix(Root(AncientState), Ancient)
      BY <2>1, UnderRoot
    <2>5. CASE p[3] = "chain"
      <3>1. IsPrefix(Root(AncientChain), p) /\ ~Skip(AncientChain, p) /\ AncientChain \in PartKinds
        BY <1>1, <1>7, <2>3, <2>5, UnderRoot, KindsDiffer DEF Skip
      <3>2. QED
        BY <1>4, <2>4, <3>1
    <2>6. CASE p[3] = "state"
      <3>1. IsPrefix(Root(AncientState), p) /\ ~Skip(AncientState, p) /\ AncientState \in PartKinds
        BY <1>1, <1>7, <2>3, <2>6, UnderRoot, KindsDiffer DEF Skip
      <3>2. QED
        BY <1>4, <2>4, <3>1
    <2>7. QED
      BY <2>2, <2>5, <2>6
  <1>8. QED
    BY <1>2, <1>5, <1>6, <1>7

(* An upload that has succeeded sent all of it, and once.                  *)
LEMMA AllSent ==
  ASSUME WalkInv, CoverInv, upc = "ok", source = "parts",
         NEW k \in PartKinds, NEW p \in Reached(k) \ touched
  PROVE  \E i \in DOMAIN stream[k] : stream[k][i] = [path |-> p, node |-> orig[p]]
  <1>1. Covered(k, p) /\ todo[k] = {} /\ head[k] = NoEntry
    BY DEF CoverInv
  <1>2. QED
    BY <1>1 DEF Covered, Emitted

(* Whatever the datadir and whatever a running node does to other files,   *)
(* an upload that succeeds has every file that was left alone in exactly   *)
(* one part and there once.                                                *)
THEOREM StableTheorem == Spec => []StableFilesKept
  <1>1. WalkInv /\ OnceInv /\ CoverInv => StableFilesKept
    <2> SUFFICES ASSUME WalkInv, OnceInv, CoverInv, upc = "ok", source = "parts",
                        NEW p, p \in DOMAIN orig, Kept(p), orig[p].kind = "file", p \notin touched
                 PROVE  \E k \in PartKinds : \E i \in DOMAIN stream[k] :
                          /\ stream[k][i] = [path |-> p, node |-> orig[p]]
                          /\ \A l \in PartKinds : \A j \in DOMAIN stream[l] :
                               stream[l][j].path = p => l = k /\ j = i
      BY DEF StableFilesKept
    <2>1. orig \in Datadirs /\ LayoutInv
      BY DEF WalkInv, TreeInv, CoverInv
    <2>2. PICK k \in PartKinds : p \in Reached(k)
      <3>1. p # Ancient
        BY <2>1 DEF LayoutInv, Dir, Links, Symlink, AbsLink
      <3>2. QED
        BY <2>1, <3>1, KeptIsReached
    <2>3. PICK i \in DOMAIN stream[k] : stream[k][i] = [path |-> p, node |-> orig[p]]
      BY <2>2, AllSent
    <2>4. ASSUME NEW l \in PartKinds, NEW j \in DOMAIN stream[l], stream[l][j].path = p
          PROVE  l = k /\ j = i
      <3>1. IsPrefix(Root(l), p) /\ ~Skip(l, p) /\ IsPrefix(Root(k), p) /\ ~Skip(k, p) /\ p \in Name
        BY <2>1, <2>2, <2>4, EntryEmitted, TreeFacts DEF WalkInv, SentInv, Reached
      <3>2. l = k
        BY <3>1, PartsApart
      <3>3. stream[k][i].path = p
        BY <2>3
      <3>4. QED
        BY <2>4, <3>2, <3>3 DEF OnceInv
    <2>5. QED
      BY <2>3, <2>4
  <1>2. QED
    BY <1>1, CoverInvariant, PTL

-----------------------------------------------------------------------------
(* What was counted is what is sent.                                       *)

LEMMA SentIsWalked ==
  ASSUME WalkInv, CoverInv, upc = "ok", source = "parts", touched = {}, NEW k \in PartKinds
  PROVE  {stream[k][i].path : i \in {j \in DOMAIN stream[k] : stream[k][j].node.kind = "file"}}
           = Walked(orig, k, Skipped(k))
  <1>1. orig \in Datadirs
    BY DEF WalkInv, TreeInv
  <1>2. ASSUME NEW i \in DOMAIN stream[k], stream[k][i].node.kind = "file"
        PROVE  stream[k][i].path \in Walked(orig, k, Skipped(k))
    BY <1>1, <1>2, EntryEmitted, WalkedAre DEF WalkInv, SentInv, Reached
  <1>3. ASSUME NEW p \in Walked(orig, k, Skipped(k))
        PROVE  \E i \in DOMAIN stream[k] : stream[k][i].node.kind = "file" /\ stream[k][i].path = p
    <2>1. PICK i \in DOMAIN stream[k] : stream[k][i] = [path |-> p, node |-> orig[p]]
      BY <1>1, <1>3, AllSent, WalkedAre
    <2>2. stream[k][i].path = p /\ stream[k][i].node = orig[p]
      BY <2>1
    <2>3. orig[p].kind = "file"
      BY <1>1, WalkedAre
    <2>4. QED
      BY <2>2, <2>3
  <1>4. QED
    BY <1>2, <1>3

(* The two forms in which the names to skip are compared.                  *)
LEMMA SkipForms ==
  ASSUME NEW k \in PartKinds, NEW q \in Name, IsPrefix(Root(k), q)
  PROVE  Skip(k, q) <=> k = Live /\ IsPrefix(<<"ancient">>, BelowRoot(k, q))
  <1>1. CASE k # Live
    BY <1>1 DEF Skip
  <1>2. CASE k = Live
    <2>1. Root(k) = <<"chaindata">> /\ Len(Root(k)) = 1 /\ Len(q) \in Nat
      BY <1>2, RootIs, WordsAre, OneName DEF Name
    <2>2. Len(q) >= 1 /\ q[1] = "chaindata"
      BY <1>2, UnderRoot
    <2> DEFINE b == SubSeq(q, 2, Len(q))
    <2>3. BelowRoot(k, q) = b
      BY <2>1 DEF BelowRoot
    <2>4. b \in Name /\ Len(b) = Len(q) - 1 /\ (Len(q) >= 2 => b[1] = q[2])
      <3>1. \A i \in 2..Len(q) : q[i] \in Word
        BY <2>1 DEF Name
      <3>2. /\ b \in Seq(Word) /\ Len(b) = IF 2 <= Len(q) THEN Len(q) - 2 + 1 ELSE 0
            /\ \A i \in 1..Len(q) - 2 + 1 : b[i] = q[2 + i - 1]
        BY <2>1, <3>1, SubSeqProperties
      <3> HIDE DEF b
      <3>3. QED
        BY <2>1, <2>2, <3>2 DEF Name
    <2> HIDE DEF b
    <2>5. IsPrefix(<<"ancient">>, b) <=> Len(b) >= 1 /\ b[1] = "ancient"
      <3> DEFINE r == <<"ancient">>
      <3>1. r \in Name /\ Len(r) = 1 /\ r[1] = "ancient"
        BY WordsAre, OneName
      <3> HIDE DEF r
      <3>2. IsPrefix(r, b) <=> 1 <= Len(b) /\ \A i \in 1..1 : r[i] = b[i]
        BY <2>4, <3>1, PrefixIff
      <3>3. (\A i \in 1..1 : r[i] = b[i]) <=> b[1] = "ancient"
        BY <3>1
      <3>4. IsPrefix(r, b) <=> Len(b) >= 1 /\ b[1] = "ancient"
        BY <2>1, <2>4, <3>2, <3>3
      <3>5. QED
        BY <3>4 DEF r
    <2>6. Skip(k, q) <=> Len(q) >= 2 /\ q[2] = "ancient"
      BY <1>2, <2>2, UnderRoot DEF Skip
    <2>7. Len(b) >= 1 <=> Len(q) >= 2
      BY <2>1, <2>4
    <2>8. QED
      BY <1>2, <2>3, <2>4, <2>5, <2>6, <2>7
  <1>3. QED
    BY <1>1, <1>2

LEMMA PlanWalked ==
  ASSUME NEW k \in PartKinds, orig \in Datadirs
  PROVE  Walked(orig, k, {q \in Paths : k = Live /\ IsPrefix(<<"ancient">>, BelowRoot(k, q))})
           = Walked(orig, k, Skipped(k))
  <1> DEFINE other == {q \in Paths : k = Live /\ IsPrefix(<<"ancient">>, BelowRoot(k, q))}
  <1>1. ASSUME NEW p \in DOMAIN orig, NEW q \in Prefixes(p), IsPrefix(Root(k), q)
        PROVE  q \in other <=> q \in Skipped(k)
    <2>1. q \in Name
      BY TreeFacts, PrefixesAre
    <2>2. QED
      BY <1>1, <2>1, SkipForms DEF Skipped
  <1> HIDE DEF other
  <1>2. Walked(orig, k, other) = Walked(orig, k, Skipped(k))
    BY <1>1 DEF Walked
  <1>3. QED
    BY <1>2 DEF other

(* For every datadir that does not change, the sizes the dry run prints    *)
(* and the progress starts from are those of the files the parts carry.    *)
THEOREM PlannedTheorem == Spec => []PlannedIsUploaded
  <1>1. WalkInv /\ CoverInv => PlannedIsUploaded
    <2> SUFFICES ASSUME WalkInv, CoverInv, upc = "ok", source = "parts", touched = {},
                        NEW k \in PartKinds
                 PROVE  LET sent == {stream[k][i].path : i \in {j \in DOMAIN stream[k] :
                                                                  stream[k][j].node.kind = "file"}}
                        IN  /\ WalkSize(orig, k) = Sized(orig, sent)
                            /\ PrintPlan(orig, k) = Sized(orig, sent)
      BY DEF PlannedIsUploaded
    <2>1. WalkSize(orig, k) = Sized(orig, Walked(orig, k, Skipped(k)))
      BY DEF WalkSize, Skipped
    <2>2. PrintPlan(orig, k) = Sized(orig, Walked(orig, k, Skipped(k)))
      BY PlanWalked DEF PrintPlan, WalkInv, TreeInv
    <2>3. QED
      BY <2>1, <2>2, SentIsWalked
  <1>2. QED
    BY <1>1, CoverInvariant, PTL

-----------------------------------------------------------------------------
(* What the streams hold when they are extracted.                          *)

(* What a link at chaindata breaks: the freezer parts go below it.         *)
PlainChaindata ==
  \A d \in Datadirs : Chaindata \in DOMAIN d => d[Chaindata] = Dir

(* What was sent under a name the node has touched is a file; a file that  *)
(* is new is in a directory that is not.                                   *)
NodeInv ==
  /\ \A k \in PartKinds : \A e \in Emitted(k) : e.path \in touched => e.node.kind = "file"
  /\ \A p \in touched \ DOMAIN orig : Front(p) \in DOMAIN orig /\ orig[Front(p)] = Dir

LEMMA NodeStep ==
  ASSUME WalkInv, NodeInv, [Next]_vars
  PROVE  NodeInv'
  <1>0. orig' = orig
    BY DEF Next, Plan, Finish, Begin, Extracted, Visit, Copy, Extract, NodeWrites,
           vars, up, down
  <1>1. CASE \E p \in Paths : NodeWrites(p)
    <2>1. PICK p \in Paths : NodeWrites(p)
      BY <1>1
    <2>2. /\ touched' = touched \cup {p} /\ p \notin touched /\ UNCHANGED <<stream, head>>
          /\ p \in DOMAIN datadir => datadir[p].kind = "file"
      BY <2>1 DEF NodeWrites
    <2>3. \A k \in PartKinds : Emitted(k)' = Emitted(k)
      BY <2>2 DEF Emitted
    <2>4. p \in DOMAIN orig => orig[p].kind = "file"
      BY <2>2 DEF WalkInv, TreeInv
    <2>5. \A k \in PartKinds : \A e \in Emitted(k) : e.path = p => e.node.kind = "file"
      BY <2>2, <2>4 DEF WalkInv, SentInv
    <2>6. p \notin DOMAIN orig => Front(p) \in DOMAIN orig /\ orig[Front(p)] = Dir
      <3>1. CASE p \in DOMAIN datadir
        BY <2>2, <3>1 DEF WalkInv, TreeInv
      <3>2. CASE Front(p) \in DOMAIN datadir /\ datadir[Front(p)] = Dir
        BY <3>2, DirsStay DEF WalkInv, TreeInv
      <3>3. QED
        BY <2>1, <3>1, <3>2 DEF NodeWrites
    <2>7. QED
      BY <1>0, <2>2, <2>3, <2>5, <2>6 DEF NodeInv
  <1>2. CASE touched' = touched /\ \A k \in PartKinds : Emitted(k)' = Emitted(k)
    BY <1>0, <1>2 DEF NodeInv
  <1>3. CASE \E k \in PartKinds : \E p \in todo[k] : WalkStep(k, p)
    <2>1. PICK k \in PartKinds : \E p \in todo[k] : WalkStep(k, p)
      BY <1>3
    <2>2. PICK p \in todo[k] : WalkStep(k, p)
      BY <2>1
    <2>3. p \in Paths /\ touched' = touched
      BY <2>2 DEF WalkStep, WalkInv, TypeInv
    <2>4. CASE Pruned(k, p)
      BY <1>2, <2>3, <2>4 DEF Pruned
    <2>5. CASE Sent(k, p)
      <3> DEFINE new == [path |-> p, node |-> datadir[p]]
      <3>1. /\ \A l \in PartKinds :
                 Emitted(l)' = Emitted(l) \cup IF l = k THEN {new} ELSE {}
            /\ p \in DOMAIN datadir
        BY <2>5 DEF Sent
      <3>2. new.path = p /\ (p \in touched => new.node.kind = "file")
        BY <2>3, <3>1 DEF WalkInv, TreeInv
      <3> HIDE DEF new
      <3>3. QED
        BY <1>0, <2>3, <3>1, <3>2 DEF NodeInv
    <2>6. QED
      BY <2>2, <2>4, <2>5 DEF WalkStep
  <1>4. CASE NoWalkStep \/ StartOfWalks
    <2>1. CASE touched' = touched
      BY <1>2, <1>4, <2>1 DEF NoWalkStep, StartOfWalks
    <2>2. QED
      BY <1>1, <2>1
      DEF Next, Plan, Finish, Begin, Extracted, Visit, Copy, Extract, vars, up, down
  <1>5. QED
    BY <1>3, <1>4, StepEffect DEF WalkInv

(* An entry of a stream.                                                   *)
LEMMA EntryFacts ==
  ASSUME WalkInv, NEW k \in PartKinds, NEW i \in DOMAIN stream[k]
  PROVE  /\ stream[k][i].path \in Paths /\ stream[k][i].path \in Name
         /\ stream[k][i].path # <<>>
         /\ IsPrefix(Root(k), stream[k][i].path) /\ ~Skip(k, stream[k][i].path)
         /\ Entered(k, stream[k][i].path)
         /\ stream[k][i].path \notin touched =>
              /\ stream[k][i].path \in DOMAIN orig
              /\ stream[k][i].node = orig[stream[k][i].path]
  BY EntryEmitted, PathNames DEF WalkInv, SentInv

LEMMA EntriesDiffer ==
  ASSUME WalkInv, OnceInv, NEW k \in PartKinds, NEW l \in PartKinds,
         NEW i \in DOMAIN stream[k], NEW j \in DOMAIN stream[l],
         stream[k][i].path = stream[l][j].path
  PROVE  k = l /\ i = j
  <1>1. k = l
    BY EntryFacts, PartsApart
  <1>2. QED
    BY <1>1 DEF OnceInv

(* Above the root of a part there is nothing but chaindata and, of the     *)
(* freezer parts, chaindata/ancient.                                       *)
LEMMA AboveRoot ==
  ASSUME NEW k \in PartKinds, NEW q \in Name, q # <<>>, IsPrefix(q, Root(k)), q # Root(k)
  PROVE  q \in {Chaindata, Ancient}
  <1>1. Len(q) \in Nat \ {0} /\ Len(q) < Len(Root(k)) /\ Root(k) \in Name
    BY PrefixOrder, RootName, EmptySeq DEF Name
  <1>2. \A j \in 1..Len(q) : q[j] = Root(k)[j]
    BY <1>1, PrefixIff
  <1>3. /\ Len(Root(Live)) = 1 /\ Len(Root(Triedb)) = 1
        /\ Len(Root(AncientChain)) = 3 /\ Len(Root(AncientState)) = 3
    BY RootIs, WordsAre, OneName, ThreeNames
  <1>4. k \in {AncientChain, AncientState} /\ Len(Root(k)) = 3
    <2>1. Len(Root(k)) # 1
      <3>1. \A n \in Nat \ {0} : ~(n < 1)
        OBVIOUS
      <3>2. QED
        BY <1>1, <3>1
    <2>2. QED
      BY <1>3, <2>1, KindsDiffer
  <1>5. Root(k)[1] = "chaindata" /\ Root(k)[2] = "ancient"
    BY <1>4, RootIs, WordsAre, ThreeNames
  <1>6. 1 \in 1..Len(q) /\ (Len(q) = 2 => 2 \in 1..Len(q)) /\ Len(q) \in {1, 2}
    <2>1. \A n \in Nat \ {0} : n < 3 => 1 \in 1..n /\ (n = 2 => 2 \in 1..n) /\ n \in {1, 2}
      OBVIOUS
    <2>2. Len(q) \in Nat \ {0} /\ Len(q) < 3
      BY <1>1, <1>4
    <2>3. QED
      BY <2>1, <2>2
  <1>7. q[1] = "chaindata" /\ (Len(q) = 2 => q[2] = "ancient")
    BY <1>2, <1>5, <1>6
  <1>8. /\ Chaindata \in Name /\ Len(Chaindata) = 1 /\ Ancient \in Name /\ Len(Ancient) = 2
    BY WordsAre, OneName, TwoNames DEF Chaindata, Ancient
  <1>9. CASE Len(q) = 1
    <2>1. IsPrefix(Chaindata, q)
      BY <1>6, <1>7, RootIs, UnderRoot DEF Chaindata
    <2>2. QED
      BY <1>8, <1>9, <2>1, PrefixOrder
  <1>10. CASE Len(q) = 2
    <2>1. IsPrefix(Ancient, q)
      BY <1>7, <1>10, UnderRoot
    <2>2. QED
      BY <1>8, <1>10, <2>1, PrefixOrder
  <1>11. QED
    BY <1>6, <1>9, <1>10

(* On the way down to an entry there are directories, but that             *)
(* chaindata/ancient may be a link.                                        *)
LEMMA OnTheWay ==
  ASSUME WalkInv, NodeInv, NEW k \in PartKinds, NEW i \in DOMAIN stream[k],
         NEW q \in Name, q # <<>>, IsPrefix(q, stream[k][i].path), q # stream[k][i].path
  PROVE  q \in DOMAIN orig /\ orig[q] \in {Dir, Symlink}
  <1> DEFINE p == stream[k][i].path
  <1>1. p \in Name /\ p # <<>> /\ orig \in Datadirs /\ IsPrefix(q, p) /\ q # p
    BY EntryFacts DEF WalkInv, TreeInv
  <1>2. p \notin DOMAIN orig => p \in touched
    BY EntryFacts
  <1> HIDE DEF p
  <1>3. CASE p \in DOMAIN orig
    BY <1>1, <1>3, TreeFacts
  <1>4. CASE p \notin DOMAIN orig
    <2>1. Front(p) \in DOMAIN orig /\ orig[Front(p)] = Dir
      BY <1>2, <1>4 DEF NodeInv
    <2>2. IsPrefix(q, Front(p))
      BY <1>1, FrontPrefix, PrefixFront, PrefixesAre
    <2>3. QED
      BY <1>1, <2>1, <2>2, TreeFacts
  <1>5. QED
    BY <1>3, <1>4

LEMMA WayDown ==
  ASSUME PlainChaindata, WalkInv, NodeInv, NEW k \in PartKinds, NEW i \in DOMAIN stream[k],
         NEW q \in Name, q # <<>>, IsPrefix(q, stream[k][i].path), q # stream[k][i].path,
         q # Ancient
  PROVE  q \in DOMAIN orig /\ orig[q] = Dir
  <1>1. q \in DOMAIN orig
    BY OnTheWay
  <1>2. CASE IsPrefix(Root(k), q)
    BY <1>2, EntryFacts DEF Entered
  <1>3. CASE ~IsPrefix(Root(k), q)
    <2>1. Root(k) \in Name /\ IsPrefix(Root(k), stream[k][i].path) /\ stream[k][i].path \in Name
      BY EntryFacts, RootName
    <2>2. IsPrefix(q, Root(k)) /\ q # Root(k)
      BY <1>3, <2>1, PrefixOrder
    <2>3. q = Chaindata
      BY <2>2, AboveRoot
    <2>4. QED
      BY <1>1, <2>3 DEF PlainChaindata, WalkInv, TreeInv
  <1>4. QED
    BY <1>1, <1>2, <1>3

LEMMA EntryNotAncient ==
  ASSUME WalkInv, NEW k \in PartKinds, NEW i \in DOMAIN stream[k]
  PROVE  stream[k][i].path # Ancient
  <1>1. Ancient \in Name /\ Len(Ancient) = 2 /\ Ancient[1] = "chaindata"
    BY WordsAre, TwoNames DEF Ancient
  <1>2. IsPrefix(Ancient, Ancient)
    BY <1>1, PrefixOrder
  <1>3. IsPrefix(Root(k), Ancient) => k = Live
    <2>1. "chaindata" # "triedb"
      OBVIOUS
    <2>2. QED
      BY <1>1, <2>1, KindsDiffer, UnderRoot
  <1>4. QED
    BY <1>2, <1>3, EntryFacts DEF Skip

(* Whatever part they are of, an entry below another is below a directory. *)
LEMMA EntriesNest ==
  ASSUME PlainChaindata, WalkInv, NodeInv, NEW k \in PartKinds, NEW l \in PartKinds,
         NEW i \in DOMAIN stream[k], NEW j \in DOMAIN stream[l],
         IsPrefix(stream[k][i].path, stream[l][j].path),
         stream[k][i].path # stream[l][j].path
  PROVE  stream[k][i].node = Dir
  <1>1. stream[k][i].path \in DOMAIN orig /\ orig[stream[k][i].path] = Dir
    BY EntryFacts, EntryNotAncient, WayDown
  <1>2. stream[k][i].path \notin touched
    BY <1>1 DEF WalkInv, TreeInv, Dir
  <1>3. QED
    BY <1>1, <1>2, EntryFacts

LEMMA EntryKinds ==
  ASSUME WalkInv, NodeInv, NEW k \in PartKinds, NEW i \in DOMAIN stream[k]
  PROVE  stream[k][i].node \in {Dir, Symlink, AbsLink, Fifo} \/ stream[k][i].node.kind = "file"
  <1>1. CASE stream[k][i].path \in touched
    BY <1>1, EntryEmitted DEF NodeInv
  <1>2. CASE stream[k][i].path \notin touched
    <2>1. stream[k][i].node \in Nodes
      BY <1>2, EntryFacts, TreeFacts DEF WalkInv, TreeInv
    <2>2. QED
      BY <2>1 DEF Nodes, File
  <1>3. QED
    BY <1>1, <1>2

-----------------------------------------------------------------------------
(* One entry after the other.                                              *)

(* What the entries extracted so far have left in the scratch directory:   *)
(* themselves and the directories they need.                               *)
MadeBy(q, k, i) ==
  LET e == stream[k][i] IN
  \/ IsPrefix(q, e.path) /\ q # e.path /\ dst[q] = Dir
  \/ q = e.path /\ dst[q] = e.node /\ e.node # Fifo

PlacedInv ==
  /\ dst = [q \in DOMAIN dst |-> dst[q]]
  /\ \A q \in DOMAIN dst :
       /\ q \in Name /\ q # <<>>
       /\ \E k \in PartKinds : \E i \in 1..pos[k] : MadeBy(q, k, i) /\ stream[k][i].node # Fifo
  /\ \A k \in PartKinds : \A i \in 1..pos[k] : stream[k][i].node # Fifo =>
       \A q \in Name : q # <<>> /\ IsPrefix(q, stream[k][i].path) => q \in DOMAIN dst

PosInv ==
  /\ DOMAIN pos = Streams /\ pos[Tarball] = 0 /\ stream[Tarball] = <<>>
  /\ \A k \in PartKinds : pos[k] \in 0..Len(stream[k])

ExtractInv ==
  source = "parts" =>
    /\ PosInv /\ PlacedInv
    /\ dpc # "idle" => upc = "ok"
    /\ dpc = "idle" => dst = <<>> /\ \A k \in PartKinds : pos[k] = 0
    /\ dpc = "ok" => \A k \in PartKinds : pos[k] = Len(stream[k])
    /\ dpc = "err" => \E k \in PartKinds : \E i \in DOMAIN stream[k] :
                        stream[k][i].node = AbsLink

LEMMA InitExtract == Init => NodeInv /\ ExtractInv
  <1> SUFFICES ASSUME Init PROVE NodeInv /\ ExtractInv
    OBVIOUS
  <1>1. \A k \in PartKinds : head[k] = NoEntry /\ stream[k] = <<>> /\ pos[k] = 0
    BY KindsDiffer DEF Init, Streams
  <1>2. NodeInv
    BY <1>1 DEF Init, NodeInv, Emitted
  <1>3. /\ DOMAIN dst = {} /\ dpc = "idle" /\ dst = <<>>
        /\ DOMAIN pos = Streams /\ pos[Tarball] = 0
        /\ source = "parts" => stream[Tarball] = <<>>
    BY DEF Init, Streams
  <1>4. QED
    BY <1>1, <1>2, <1>3 DEF ExtractInv, PosInv, PlacedInv

(* The next entry finds what it needs, and a file or a link nothing in its *)
(* place.                                                                  *)
LEMMA NextExtractable ==
  ASSUME PlainChaindata, WalkInv, OnceInv, NodeInv, PosInv, PlacedInv,
         NEW k \in PartKinds, pos[k] < Len(stream[k])
  PROVE  LET e == stream[k][pos[k] + 1]
         IN  e.node # AbsLink => Extractable(e.node, e.path)
  <1> DEFINE i == pos[k] + 1
             e == stream[k][i]
             p == e.path
             n == e.node
  <1>1. i \in DOMAIN stream[k] /\ pos[k] \in Nat
    BY DEF PosInv, WalkInv, TypeInv
  <1>2. p \in Name /\ p # <<>>
    BY <1>1, EntryFacts
  <1>3. n \in {Dir, Symlink, AbsLink, Fifo} \/ n.kind = "file"
    BY <1>1, EntryKinds
  <1>4. ASSUME NEW q \in DOMAIN dst, IsPrefix(q, p)
        PROVE  dst[q] = Dir /\ (q = p => n = Dir)
    <2>0. PICK l \in PartKinds : \E j \in 1..pos[l] : MadeBy(q, l, j)
      BY DEF PlacedInv
    <2>1. PICK j \in 1..pos[l] : MadeBy(q, l, j)
      BY <2>0
    <2>2. j \in DOMAIN stream[l] /\ ~(l = k /\ j = i)
      BY <1>1 DEF PosInv, WalkInv, TypeInv
    <2>3. stream[l][j].path # p
      BY <1>1, <2>2, EntriesDiffer
    <2>4. stream[l][j].path \in Name /\ q \in Name
      BY <2>2, EntryFacts DEF PlacedInv
    <2>5. CASE q = stream[l][j].path /\ dst[q] = stream[l][j].node
      BY <1>1, <1>4, <2>2, <2>3, <2>5, EntriesNest
    <2>6. CASE IsPrefix(q, stream[l][j].path) /\ q # stream[l][j].path /\ dst[q] = Dir
      <3>1. q = p => n = Dir
        BY <1>1, <2>2, <2>6, EntriesNest
      <3>2. QED
        BY <2>6, <3>1
    <2>7. QED
      BY <2>1, <2>5, <2>6 DEF MadeBy
  <1> HIDE DEF e, i, p, n
  <1>5. CanMkdirAll(p)
    BY <1>2, <1>4, PrefixesAre DEF CanMkdirAll
  <1>6. CanMkdirAll(Front(p))
    <2>1. Front(p) \in Name /\ IsPrefix(Front(p), p)
      BY <1>2, FrontPrefix
    <2>2. \A q \in Prefixes(Front(p)) : q \in Name /\ IsPrefix(q, p)
      BY <1>2, <2>1, PrefixesAre, PrefixOrder
    <2>3. QED
      BY <1>4, <2>2 DEF CanMkdirAll
  <1>7. p \in DOMAIN dst => n = Dir
    BY <1>2, <1>4, PrefixOrder
  <1>8. n # AbsLink => Extractable(n, p)
    <2>1. CASE n = Dir
      BY <1>5, <2>1 DEF Extractable, Dir, Symlink, AbsLink, Fifo
    <2>2. CASE n.kind = "file"
      <3>1. p \notin DOMAIN dst /\ n # Dir
        BY <1>7, <2>2 DEF Dir
      <3>2. QED
        BY <1>6, <2>2, <3>1 DEF Extractable, Dir, Symlink, AbsLink, Fifo
    <2>3. CASE n = Symlink
      <3>1. p \notin DOMAIN dst
        BY <1>7, <2>3 DEF Dir, Symlink
      <3>2. QED
        BY <1>6, <2>3, <3>1 DEF Extractable, Dir, Symlink, AbsLink, Fifo
    <2>4. CASE n = Fifo
      BY <2>4 DEF Extractable, Dir, Symlink, AbsLink, Fifo
    <2>5. QED
      BY <1>3, <2>1, <2>2, <2>3, <2>4
  <1>9. QED
    BY <1>8 DEF n, p, e, i

(* What safeExtract makes of the scratch directory: the entry and the      *)
(* directories above it.                                                   *)
WithEntry(d, n, p) ==
  /\ n # Fifo => /\ DOMAIN d = DOMAIN dst \cup (Prefixes(p) \ {<<>>})
                 /\ \A q \in DOMAIN d \ DOMAIN dst :
                      (q # p /\ d[q] = Dir) \/ (q = p /\ d[q] = n)
                 /\ \A q \in DOMAIN dst : d[q] = dst[q] \/ (q = p /\ d[q] = n)
  /\ n = Fifo => d = dst

LEMMA PlacedIs ==
  ASSUME NEW p \in Name, p # <<>>, NEW n
  PROVE  WithEntry(Placed(n, p), n, p)
  <1> PICK d : d = Placed(n, p)
    OBVIOUS
  <1> SUFFICES WithEntry(d, n, p)
    OBVIOUS
  <1>1. CASE n = Dir
    <2>1. d = WithDirs(dst, p) /\ n # Fifo
      BY <1>1 DEF Placed, Dir, Fifo
    <2>2. QED
      BY <1>1, <2>1 DEF WithDirs, WithEntry
  <1>2. CASE n = Fifo
    BY <1>2 DEF Placed, Dir, Fifo, WithEntry
  <1>3. CASE n # Dir /\ n # Fifo
    <2> DEFINE t == WithDirs(dst, Front(p))
    <2>1. d = WithNode(t, p, n)
      BY <1>3 DEF Placed
    <2>2. /\ DOMAIN t = DOMAIN dst \cup (Prefixes(Front(p)) \ {<<>>})
          /\ \A q \in DOMAIN t : t[q] = IF q \in DOMAIN dst THEN dst[q] ELSE Dir
      BY DEF WithDirs
    <2> HIDE DEF t
    <2>3. Prefixes(Front(p)) \cup {p} = Prefixes(p)
      BY PrefixFront
    <2>4. /\ DOMAIN d = DOMAIN t \cup {p}
          /\ \A q \in DOMAIN d : d[q] = IF q = p THEN n ELSE t[q]
      BY <2>1 DEF WithNode
    <2>5. DOMAIN d = DOMAIN dst \cup (Prefixes(p) \ {<<>>})
      BY <2>2, <2>3, <2>4
    <2>6. QED
      BY <1>3, <2>2, <2>4, <2>5 DEF WithEntry
  <1>4. QED
    BY <1>1, <1>2, <1>3

(* What one round of Untar's loop does to a part.                          *)
LEMMA PlaceOne ==
  ASSUME WalkInv, PosInv, PlacedInv, NEW k \in PartKinds, pos[k] < Len(stream[k]),
         dst' = Placed(stream[k][pos[k] + 1].node, stream[k][pos[k] + 1].path),
         pos' = [pos EXCEPT ![k] = @ + 1], stream' = stream
  PROVE  PosInv' /\ PlacedInv'
  <1>0. pos[k] \in Nat /\ pos[k] + 1 \in 1..Len(stream[k])
    BY DEF PosInv, WalkInv, TypeInv
  <1> PICK i \in 1..Len(stream[k]) : i = pos[k] + 1
    BY <1>0
  <1> PICK p : p = stream[k][i].path
    OBVIOUS
  <1> PICK n : n = stream[k][i].node
    OBVIOUS
  <1>1. i \in DOMAIN stream[k] /\ pos[k] \in Nat /\ k \in DOMAIN pos /\ i \in 1..Len(stream[k])
    BY <1>0 DEF PosInv, WalkInv, TypeInv, Streams
  <1>2. p \in Name /\ p # <<>> /\ IsPrefix(p, p)
    BY <1>1, EntryFacts, PrefixOrder
  <1>3. /\ pos'[k] = i /\ \A l \in PartKinds \ {k} : pos'[l] = pos[l]
        /\ DOMAIN pos' = DOMAIN pos /\ pos'[Tarball] = pos[Tarball]
    BY <1>1, KindsDiffer DEF PosInv, Streams
  <1>4. PosInv'
    BY <1>1, <1>3 DEF PosInv
  <1>5. \A l \in PartKinds : \A j \in 1..pos'[l] : j \in 1..pos[l] \/ (l = k /\ j = i)
    BY <1>1, <1>3
  <1>6. \A l \in PartKinds : \A j \in 1..pos[l] : j \in 1..pos'[l]
    BY <1>1, <1>3
  <1>7. i \in 1..pos'[k]
    BY <1>1, <1>3
  <1>8. dst' = Placed(n, p)
    OBVIOUS
  <1>9. /\ n # Fifo => /\ DOMAIN dst' = DOMAIN dst \cup (Prefixes(p) \ {<<>>})
                       /\ \A q \in DOMAIN dst' \ DOMAIN dst :
                            (q # p /\ dst'[q] = Dir) \/ (q = p /\ dst'[q] = n)
                       /\ \A q \in DOMAIN dst : dst'[q] = dst[q] \/ (q = p /\ dst'[q] = n)
        /\ n = Fifo => dst' = dst
    <2>1. WithEntry(Placed(n, p), n, p)
      BY <1>2, PlacedIs
    <2> PICK d : d = Placed(n, p)
      OBVIOUS
    <2>2. d = dst'
      BY <1>8
    <2>3. QED
      BY <2>1, <2>2 DEF WithEntry
  <1>10. ASSUME NEW q \in DOMAIN dst'
         PROVE  /\ q \in Name /\ q # <<>>
                /\ \E l \in PartKinds : \E j \in 1..pos'[l] :
                     MadeBy(q, l, j)' /\ stream'[l][j].node # Fifo
    <2>1. CASE q \in DOMAIN dst /\ dst'[q] = dst[q]
      <3>0. PICK l \in PartKinds : \E j \in 1..pos[l] :
              MadeBy(q, l, j) /\ stream[l][j].node # Fifo
        BY <2>1 DEF PlacedInv
      <3>1. PICK j \in 1..pos[l] : MadeBy(q, l, j) /\ stream[l][j].node # Fifo
        BY <3>0
      <3>2. MadeBy(q, l, j)'
        BY <2>1, <3>1 DEF MadeBy
      <3>3. QED
        BY <1>6, <2>1, <3>1, <3>2 DEF PlacedInv
    <2>2. CASE n # Fifo /\ q \in Prefixes(p) \ {<<>>}
               /\ ((q # p /\ dst'[q] = Dir) \/ (q = p /\ dst'[q] = n))
      <3>1. q \in Name /\ q # <<>> /\ IsPrefix(q, p)
        BY <1>2, <2>2, PrefixesAre
      <3>2. MadeBy(q, k, i)'
        BY <2>2, <3>1 DEF MadeBy
      <3>3. QED
        BY <1>7, <2>2, <3>1, <3>2
    <2>3. p \in Prefixes(p) \ {<<>>}
      BY <1>2, PrefixesAre
    <2>4. QED
      BY <1>9, <2>1, <2>2, <2>3
  <1>11. ASSUME NEW l \in PartKinds, NEW j \in 1..pos'[l], stream'[l][j].node # Fifo,
                NEW q \in Name, q # <<>>, IsPrefix(q, stream'[l][j].path)
         PROVE  q \in DOMAIN dst'
    <2>1. CASE j \in 1..pos[l]
      <3>1. q \in DOMAIN dst
        BY <1>11, <2>1 DEF PlacedInv
      <3>2. QED
        BY <1>9, <3>1
    <2>2. CASE l = k /\ j = i
      <3>1. n # Fifo /\ q \in Prefixes(p)
        BY <1>2, <1>11, <2>2, PrefixesAre
      <3>2. QED
        BY <1>9, <1>11, <3>1
    <2>3. QED
      BY <1>5, <2>1, <2>2
  <1>12. dst' = [q \in DOMAIN dst' |-> dst'[q]]
    BY <1>8 DEF Placed, WithDirs, WithNode, PlacedInv
  <1>13. PlacedInv'
    <2>1. \A q \in DOMAIN dst' :
            /\ q \in Name /\ q # <<>>
            /\ \E l \in PartKinds : \E j \in 1..pos'[l] :
                 MadeBy(q, l, j)' /\ stream'[l][j].node # Fifo
      BY <1>10
    <2>2. \A l \in PartKinds : \A j \in 1..pos'[l] : stream'[l][j].node # Fifo =>
            \A q \in Name : q # <<>> /\ IsPrefix(q, stream'[l][j].path) => q \in DOMAIN dst'
      BY <1>11
    <2>3. QED
      BY <1>12, <2>1, <2>2, ZenonT(30) DEF PlacedInv
  <1>14. QED
    BY <1>4, <1>13

LEMMA ExtractOne ==
  ASSUME PlainChaindata, WalkInv, OnceInv, NodeInv, ExtractInv, source = "parts",
         NEW k \in Streams, Extract(k)
  PROVE  ExtractInv'
  <1>1. /\ PosInv /\ PlacedInv /\ dpc = "extract" /\ upc = "ok" /\ pos[k] < Len(stream[k])
        /\ UNCHANGED <<source, up>>
    BY DEF ExtractInv, Extract
  <1>2. k \in PartKinds
    <2>1. Len(stream[Tarball]) = 0 /\ pos[Tarball] = 0
      BY <1>1, EmptySeq DEF PosInv
    <2>2. QED
      BY <1>1, <2>1 DEF Streams
  <1>3. pos[k] + 1 \in DOMAIN stream[k]
    BY <1>1, <1>2 DEF PosInv, WalkInv, TypeInv
  <1>4. Base(k) \o stream[k][pos[k] + 1].path = stream[k][pos[k] + 1].path
    <2>1. Base(k) = <<>>
      BY <1>2, KindsDiffer DEF Base
    <2>2. stream[k][pos[k] + 1].path \in Seq(Word)
      BY <1>2, <1>3, EntryFacts DEF Name
    <2>3. QED
      BY <2>1, <2>2, ConcatEmptySeq
  <1> PICK e : e = stream[k][pos[k] + 1]
    OBVIOUS
  <1>5. \/ /\ Extractable(e.node, e.path)
           /\ dst' = Placed(e.node, e.path)
           /\ pos' = [pos EXCEPT ![k] = @ + 1]
           /\ dpc' = dpc
        \/ /\ ~Extractable(e.node, e.path)
           /\ dpc' = "err" /\ UNCHANGED <<dst, pos>>
    BY <1>4 DEF Extract
  <1>6. CASE /\ dst' = Placed(e.node, e.path) /\ pos' = [pos EXCEPT ![k] = @ + 1]
             /\ dpc' = dpc
    <2>1. PosInv' /\ PlacedInv'
      BY <1>1, <1>2, <1>6, PlaceOne DEF up
    <2>2. QED
      BY <1>1, <1>6, <2>1 DEF ExtractInv, up
  <1>7. CASE ~Extractable(e.node, e.path) /\ dpc' = "err" /\ UNCHANGED <<dst, pos>>
    <2>1. e.node = AbsLink
      BY <1>1, <1>2, <1>7, NextExtractable
    <2>2. \E l \in PartKinds : \E i \in DOMAIN stream[l] : stream[l][i].node = AbsLink
      BY <1>2, <1>3, <2>1
    <2>3. PosInv' /\ PlacedInv'
      BY <1>1, <1>7 DEF PosInv, PlacedInv, MadeBy, up
    <2>4. QED
      BY <1>1, <1>7, <2>2, <2>3 DEF ExtractInv, up
  <1>8. QED
    BY <1>5, <1>6, <1>7

LEMMA ExtractStep ==
  ASSUME PlainChaindata, WalkInv, OnceInv, NodeInv, ExtractInv, [Next]_vars
  PROVE  ExtractInv'
  <1>0. source' = source
    BY DEF Next, Plan, Finish, Begin, Extracted, Visit, Copy, Extract, NodeWrites,
           vars, up, down
  <1> SUFFICES ASSUME source = "parts" PROVE ExtractInv'
    BY <1>0 DEF ExtractInv
  <1>1. CASE \E k \in Streams : Extract(k)
    BY <1>1, ExtractOne
  <1>2. CASE UNCHANGED <<upc, stream, dpc, pos, dst>>
    BY <1>2 DEF ExtractInv, PosInv, PlacedInv, MadeBy
  <1>3. CASE Plan \/ \E p \in Paths : NodeWrites(p)
    <2>1. UNCHANGED <<stream, dpc, pos, dst>> /\ upc # "ok"
      BY <1>3 DEF Plan, NodeWrites, down
    <2>2. QED
      BY <2>1 DEF ExtractInv, PosInv, PlacedInv, MadeBy
  <1>4. CASE Finish
    BY <1>4 DEF Finish, down, ExtractInv, PosInv, PlacedInv, MadeBy
  <1>5. CASE \E k \in PartKinds : Visit(k) \/ Copy(k)
    <2>1. upc = "walk" /\ UNCHANGED down
      BY <1>5 DEF Visit, Copy
    <2>2. UNCHANGED dpc /\ UNCHANGED pos /\ UNCHANGED dst
      BY <2>1 DEF down
    <2>3. dpc = "idle" /\ dst = <<>> /\ PosInv /\ \A k \in PartKinds : pos[k] = 0
      BY <2>1 DEF ExtractInv
    <2>4. stream'[Tarball] = <<>>
      <3>1. \E k \in PartKinds : \E e : stream' \in {stream, [stream EXCEPT ![k] = Append(@, e)]}
        BY <1>5 DEF Visit, Copy
      <3>2. QED
        BY <2>3, <3>1, KindsDiffer DEF PosInv, WalkInv, TypeInv, Streams
    <2>5. PosInv'
      <3>1. TypeInv'
        BY StepEffect DEF WalkInv
      <3>2. \A k \in PartKinds : Len(stream'[k]) \in Nat
        BY <3>1 DEF TypeInv
      <3>3. QED
        BY <2>2, <2>3, <2>4, <3>2 DEF PosInv
    <2>6. PlacedInv'
      BY <2>2, <2>3 DEF PlacedInv
    <2>7. QED
      BY <2>2, <2>3, <2>5, <2>6 DEF ExtractInv
  <1>6. CASE Begin
    BY <1>6 DEF Begin, up, ExtractInv, PosInv, PlacedInv, MadeBy
  <1>7. CASE Extracted
    <2>1. dpc' = "ok" /\ dpc = "extract" /\ UNCHANGED <<upc, stream, pos, dst>>
          /\ \A k \in PartKinds : pos[k] = Len(stream[k])
      BY <1>7 DEF Extracted, up, Streams
    <2>2. QED
      BY <2>1 DEF ExtractInv, PosInv, PlacedInv, MadeBy
  <1>8. CASE UNCHANGED vars
    BY <1>2, <1>8 DEF vars, up, down
  <1>9. QED
    BY <1>1, <1>3, <1>4, <1>5, <1>6, <1>7, <1>8 DEF Next

LEMMA ExtractInvariant ==
  ASSUME PlainChaindata
  PROVE  Spec => [](WalkInv /\ OnceInv /\ CoverInv /\ NodeInv /\ ExtractInv)
  <1>1. WalkInv /\ OnceInv /\ NodeInv /\ ExtractInv /\ [Next]_vars => (NodeInv /\ ExtractInv)'
    BY NodeStep, ExtractStep
  <1>2. QED
    BY <1>1, InitExtract, CoverInvariant, PTL DEF Spec

-----------------------------------------------------------------------------
(* There and back.                                                         *)

(* The freezer of the chain is always a part; its root is sent first.      *)
RootInv ==
  source = "parts" /\ upc \in {"walk", "ok"} =>
    \/ Root(AncientChain) \in todo[AncientChain]
    \/ \E e \in Emitted(AncientChain) : e.path = Root(AncientChain)

LEMMA RootStep ==
  ASSUME WalkInv, RootInv, [Next]_vars
  PROVE  RootInv'
  <1>1. source' = source
    BY DEF Next, Plan, Finish, Begin, Extracted, Visit, Copy, Extract, NodeWrites,
           vars, up, down
  <1>2. CASE NoWalkStep
    BY <1>1, <1>2, KindsDiffer DEF NoWalkStep, RootInv
  <1>3. CASE StartOfWalks
    <2>1. AncientChain \in PartKinds
      BY KindsDiffer
    <2>2. AncientChain \in PlannedParts
      <3> PICK st, tr : PlannedParts = ToSet(PlanParts(st, tr))
        BY DEF PlannedParts
      <3>1. AncientChain \in ToSet(PlanParts(st, tr))
        BY KindsDiffer DEF PlanParts, ToSet
      <3>2. QED
        BY <3>1
    <2>3. Root(AncientChain) \in todo'[AncientChain]
      BY <1>3, <2>1, <2>2 DEF StartOfWalks
    <2>4. QED
      BY <2>3 DEF RootInv
  <1>4. CASE \E k \in PartKinds : \E p \in todo[k] : WalkStep(k, p)
    <2>1. PICK k \in PartKinds : \E p \in todo[k] : WalkStep(k, p)
      BY <1>4
    <2>2. PICK p \in todo[k] : WalkStep(k, p)
      BY <2>1
    <2>3. AncientChain \in PartKinds /\ ~Skip(AncientChain, p) /\ upc = "walk"
      BY <2>2, KindsDiffer DEF Skip, WalkStep
    <2>4. /\ Emitted(AncientChain) \subseteq Emitted(AncientChain)'
          /\ k # AncientChain \/ p # Root(AncientChain) =>
               \A q \in todo[AncientChain] : q = Root(AncientChain) => q \in todo'[AncientChain]
      BY <2>2, <2>3 DEF WalkStep, Pruned, Sent, WalkInv, TypeInv
    <2>5. CASE k = AncientChain /\ p = Root(AncientChain)
      <3>1. [path |-> p, node |-> datadir[p]] \in Emitted(AncientChain)'
        BY <2>2, <2>3, <2>5 DEF WalkStep, Pruned, Sent
      <3>2. [path |-> p, node |-> datadir[p]].path = Root(AncientChain)
        BY <2>5
      <3>3. QED
        BY <3>1, <3>2 DEF RootInv
    <2>6. CASE ~(k = AncientChain /\ p = Root(AncientChain))
      BY <1>1, <2>3, <2>4, <2>6 DEF RootInv
    <2>7. QED
      BY <2>5, <2>6
  <1>5. QED
    BY <1>2, <1>3, <1>4, StepEffect DEF WalkInv

(* What is in the scratch directory was in the datadir.                    *)
LEMMA BackIsKept ==
  ASSUME PlainChaindata, WalkInv, NodeInv, PosInv, PlacedInv, touched = {},
         source = "parts", NEW q \in DOMAIN dst
  PROVE  /\ q \in DOMAIN orig /\ Kept(q)
         /\ dst[q] = IF q = Ancient THEN Dir ELSE orig[q]
  <1>0. PICK k \in PartKinds : \E i \in 1..pos[k] : MadeBy(q, k, i) /\ stream[k][i].node # Fifo
    BY DEF PlacedInv
  <1>1. PICK i \in 1..pos[k] : MadeBy(q, k, i) /\ stream[k][i].node # Fifo
    BY <1>0
  <1>2. i \in DOMAIN stream[k] /\ q \in Name /\ q # <<>>
    BY DEF PosInv, PlacedInv, WalkInv, TypeInv
  <1> PICK p : p = stream[k][i].path
    OBVIOUS
  <1>3. /\ p \in Name /\ p # <<>> /\ IsPrefix(Root(k), p) /\ IsPrefix(q, p)
        /\ p \in DOMAIN orig /\ stream[k][i].node = orig[p] /\ p # Ancient
    BY <1>1, <1>2, EntryFacts, EntryNotAncient, PrefixOrder DEF MadeBy
  <1>4. /\ q \in DOMAIN orig /\ orig[q] # Fifo
        /\ dst[q] = IF q = Ancient THEN Dir ELSE orig[q]
    <2>1. CASE q = p
      BY <1>1, <1>3, <2>1 DEF MadeBy
    <2>2. CASE q # p
      <3>1. dst[q] = Dir
        BY <1>1, <2>2 DEF MadeBy
      <3>2. q \in DOMAIN orig /\ orig[q] \in {Dir, Symlink}
        BY <1>2, <1>3, <2>2, OnTheWay
      <3>3. q # Ancient => orig[q] = Dir
        BY <1>2, <1>3, <2>2, WayDown
      <3>4. QED
        BY <3>1, <3>2, <3>3 DEF Dir, Symlink, Fifo
    <2>3. QED
      BY <2>1, <2>2
  <1>5. Head(q) \in {"chaindata", "triedb"}
    <2>1. Len(q) \in Nat \ {0} /\ Head(q) = q[1]
      BY <1>2, EmptySeq DEF Name
    <2>2. q[1] = p[1]
      BY <1>2, <1>3, <2>1, PrefixIff
    <2>3. p[1] \in {"chaindata", "triedb"}
      BY <1>3, UnderRoot, KindsDiffer
    <2>4. QED
      BY <2>1, <2>2, <2>3
  <1>6. ASSUME NEW r \in Prefixes(q) \ {<<>>, q}, orig[r] \in Links
        PROVE  r = Ancient
    <2>1. r \in Name /\ IsPrefix(r, q) /\ r # q /\ r # <<>>
      BY <1>2, PrefixesAre
    <2>2. IsPrefix(r, p) /\ r # p
      BY <1>2, <1>3, <2>1, PrefixOrder
    <2>3. r # Ancient => orig[r] = Dir
      BY <1>2, <2>1, <2>2, WayDown
    <2>4. QED
      BY <1>6, <2>3 DEF Links, Dir, Symlink, AbsLink
  <1>7. QED
    BY <1>4, <1>5, <1>6 DEF Kept

(* And what a node needs is there.                                         *)
LEMMA KeptIsBack ==
  ASSUME \A d \in Datadirs : Root(AncientChain) \in DOMAIN d => d[Root(AncientChain)] # Fifo,
         WalkInv, CoverInv, RootInv, PosInv, PlacedInv, touched = {}, source = "parts",
         upc = "ok", \A k \in PartKinds : pos[k] = Len(stream[k]),
         NEW p, Kept(p)
  PROVE  p \in DOMAIN dst
  <1>1. orig \in Datadirs /\ p \in DOMAIN orig /\ orig[p] # Fifo /\ LayoutInv
    BY DEF WalkInv, TreeInv, CoverInv, Kept
  <1>2. p \in Name /\ p # <<>> /\ IsPrefix(p, p)
    BY <1>1, TreeFacts, PrefixOrder
  <1>3. \A k \in PartKinds : DOMAIN stream[k] = 1..pos[k]
    BY DEF WalkInv, TypeInv
  <1>4. CASE p # Ancient
    <2>1. PICK k \in PartKinds : p \in Reached(k)
      BY <1>1, <1>4, KeptIsReached
    <2>2. PICK i \in DOMAIN stream[k] : stream[k][i] = [path |-> p, node |-> orig[p]]
      BY <2>1, AllSent
    <2>3. i \in 1..pos[k] /\ stream[k][i].path = p /\ stream[k][i].node = orig[p]
      BY <1>3, <2>2
    <2>4. QED
      BY <1>1, <1>2, <2>3 DEF PlacedInv
  <1>5. CASE p = Ancient
    <2> DEFINE k == AncientChain
    <2>1. k \in PartKinds /\ todo[k] = {} /\ head[k] = NoEntry
      BY KindsDiffer DEF CoverInv
    <2>2. PICK i \in DOMAIN stream[k] : stream[k][i].path = Root(k)
      BY <2>1 DEF RootInv, Emitted
    <2>3. stream[k][i].path \in DOMAIN orig /\ stream[k][i].node = orig[stream[k][i].path]
      BY <2>1, EntryFacts
    <2>4. i \in 1..pos[k] /\ stream[k][i].node # Fifo
      BY <1>1, <1>3, <2>1, <2>2, <2>3
    <2>5. IsPrefix(p, Root(k))
      <3>1. Root(k) \in Name /\ IsPrefix(Root(k), Root(k))
        BY <2>1, RootName, PrefixOrder
      <3>2. QED
        BY <1>5, <3>1, UnderRoot
    <2>6. QED
      BY <1>2, <2>1, <2>2, <2>4, <2>5 DEF PlacedInv
  <1>6. QED
    BY <1>4, <1>5

(* From its parts a datadir that did not change comes back.                *)
LEMMA PartsRestored ==
  ASSUME PlainChaindata,
         \A d \in Datadirs : Root(AncientChain) \in DOMAIN d => d[Root(AncientChain)] # Fifo
  PROVE  Spec => [](source = "parts" => Restored)
  <1> DEFINE Inv == WalkInv /\ OnceInv /\ CoverInv /\ NodeInv /\ ExtractInv
  <1>1. Init => RootInv
    BY DEF Init, RootInv
  <1>2. Inv /\ RootInv => (source = "parts" => Restored)
    <2> SUFFICES ASSUME Inv, RootInv, source = "parts", dpc = "ok", touched = {}
                 PROVE  dst = [p \in {q \in DOMAIN orig : Kept(q)} |->
                                 IF source = "parts" /\ p = Ancient THEN Dir ELSE orig[p]]
      BY DEF Restored
    <2>1. /\ PosInv /\ PlacedInv /\ upc = "ok" /\ \A k \in PartKinds : pos[k] = Len(stream[k])
      BY DEF ExtractInv
    <2>2. \A q \in DOMAIN dst : /\ q \in DOMAIN orig /\ Kept(q)
                                /\ dst[q] = IF q = Ancient THEN Dir ELSE orig[q]
      BY <2>1, BackIsKept
    <2>3. \A q : Kept(q) => q \in DOMAIN dst
      BY <2>1, KeptIsBack
    <2>4. DOMAIN dst = {q \in DOMAIN orig : Kept(q)}
      BY <2>2, <2>3
    <2>5. dst = [q \in DOMAIN dst |-> dst[q]]
      BY <2>1 DEF PlacedInv
    <2>6. QED
      BY <2>2, <2>4, <2>5
  <1>3. Inv /\ RootInv /\ [Next]_vars => RootInv'
    BY RootStep
  <1>4. QED
    BY <1>1, <1>2, <1>3, ExtractInvariant, PTL DEF Spec

-----------------------------------------------------------------------------
(* Legacy tarballs.                                                        *)

(* Counting: what the n-th of a set of places is.                          *)
Upto(S, i) == {j \in S : j <= i}

LEMMA Counted ==
  ASSUME NEW L \in Nat, NEW S \in SUBSET (1..L)
  PROVE  /\ Cardinality(S) \in Nat
         /\ \A i \in S : Cardinality(Upto(S, i)) \in 1..Cardinality(S)
         /\ \A i, j \in S : Cardinality(Upto(S, i)) = Cardinality(Upto(S, j)) => i = j
         /\ \A n \in 1..Cardinality(S) : \E i \in S : Cardinality(Upto(S, i)) = n
  <1>1. IsFiniteSet(S) /\ Cardinality(S) \in Nat
    <2>1. IsFiniteSet(1..L)
      BY FS_Interval
    <2>2. QED
      BY <2>1, FS_Subset, FS_CardinalityType
  <1>2. \A j \in S : j \in Nat /\ j # 0 /\ j <= L
    OBVIOUS
  <1>3. \A x, i : x \in Upto(S, i) <=> x \in S /\ x <= i
    BY DEF Upto
  <1>4. \A i : IsFiniteSet(Upto(S, i)) /\ Cardinality(Upto(S, i)) \in 0..Cardinality(S)
    <2> SUFFICES ASSUME NEW i
                 PROVE  IsFiniteSet(Upto(S, i)) /\ Cardinality(Upto(S, i)) \in 0..Cardinality(S)
      OBVIOUS
    <2>1. Upto(S, i) \in SUBSET S
      BY DEF Upto
    <2>2. IsFiniteSet(Upto(S, i)) /\ Cardinality(Upto(S, i)) <= Cardinality(S)
      BY <1>1, <2>1, FS_Subset
    <2>3. Cardinality(Upto(S, i)) \in Nat
      BY <2>2, FS_CardinalityType
    <2>4. QED
      BY <1>1, <2>2, <2>3
  <1>5. \A i \in S : Cardinality(Upto(S, i)) \in 1..Cardinality(S)
    <2> SUFFICES ASSUME NEW i \in S PROVE Cardinality(Upto(S, i)) \in 1..Cardinality(S)
      OBVIOUS
    <2>1. i \in Upto(S, i)
      BY <1>2 DEF Upto
    <2>2. Cardinality(Upto(S, i)) # 0
      BY <1>4, <2>1, FS_EmptySet
    <2>3. QED
      BY <1>1, <1>4, <2>2
  <1>6. ASSUME NEW i \in S, NEW j \in S, i < j
        PROVE  Cardinality(Upto(S, i)) # Cardinality(Upto(S, j))
    <2>1. Upto(S, i) \in SUBSET Upto(S, j) /\ j \in Upto(S, j) /\ j \notin Upto(S, i)
      <3>1. \A x \in S : x <= i => x <= j
        BY <1>2, <1>6
      <3>2. j <= j /\ ~(j <= i)
        BY <1>2, <1>6
      <3>3. QED
        BY <1>3, <3>1, <3>2
    <2>2. QED
      BY <1>4, <2>1, FS_Subset
  <1>7. \A i, j \in S : Cardinality(Upto(S, i)) = Cardinality(Upto(S, j)) => i = j
    <2>1. \A i, j \in S : i < j \/ j < i \/ i = j
      OBVIOUS
    <2>2. QED
      BY <1>6, <2>1
  <1>8. ASSUME NEW n \in 1..Cardinality(S)
        PROVE  \E i \in S : Cardinality(Upto(S, i)) = n
    <2> DEFINE T == {i \in Nat : n <= Cardinality(Upto(S, i))}
    <2>1. Upto(S, L) = S
      BY <1>2 DEF Upto
    <2>2. T # {} /\ T \in SUBSET Nat
      BY <2>1
    <2>3. \E i \in T : \A j \in T : ~(<<j, i>> \in OpToRel(<, Nat))
      BY <2>2, WFMin, NatLessThanWellFounded
    <2>4. PICK i \in T : \A j \in T : ~(j < i)
      BY <2>3 DEF OpToRel
    <2>5. Upto(S, 0) = {}
      <3>1. \A x \in S : ~(x <= 0)
        BY <1>2
      <3>2. QED
        BY <1>3, <3>1
    <2>6. i # 0
      BY <2>5, FS_EmptySet
    <2>7. i - 1 \in Nat /\ i - 1 \notin T
      BY <2>4, <2>6
    <2>8. Upto(S, i) = IF i \in S THEN Upto(S, i - 1) \cup {i} ELSE Upto(S, i - 1)
      <3>1. \A x \in S : x <= i <=> x <= i - 1 \/ x = i
        BY <1>2
      <3>2. i \in S => \A x : x \in Upto(S, i) <=> x \in Upto(S, i - 1) \cup {i}
        BY <1>3, <3>1
      <3>3. i \notin S => \A x : x \in Upto(S, i) <=> x \in Upto(S, i - 1)
        BY <1>3, <3>1
      <3>4. QED
        BY <3>2, <3>3
    <2>9. i \notin Upto(S, i - 1)
      BY <1>2, <1>3
    <2> DEFINE c == Cardinality(Upto(S, i - 1))
               d == Cardinality(Upto(S, i))
    <2>10. c \in Nat /\ d \in Nat /\ c < n /\ n <= d /\ n \in Nat
      <3>1. c \in Nat /\ d \in Nat /\ n \in Nat
        BY <1>1, <1>4
      <3>2. ~(n <= c) /\ n <= d
        BY <2>7
      <3> HIDE DEF c, d
      <3>3. QED
        BY <3>1, <3>2
    <2>11. i \in S
      BY <2>8, <2>10
    <2>12. d = c + 1
      BY <1>4, <2>8, <2>9, <2>11, FS_AddElement
    <2> HIDE DEF c, d, T
    <2>13. d = n
      BY <2>10, <2>12
    <2>14. QED
      BY <2>11, <2>13 DEF d
  <1>9. QED
    BY <1>1, <1>5, <1>7, <1>8

(* The chaindata of a tarball is what it is made of; and it holds no       *)
(* chaindata of its own, which would pass for a root if it came first.     *)
NoInnerChaindata == \A p \in Paths : ~IsPrefix(<<"chaindata", "chaindata">>, p)

TarEntry(t, shape, p) ==
  [path |-> IF shape = "flat" THEN Tail(p) ELSE p, node |-> t[p]]

(* The stream s has an entry for each path of a tarball, f lists them.     *)
Listed(s, t, shape, f) ==
  /\ s = [n \in DOMAIN f |-> TarEntry(t, shape, f[n])]
  /\ \A p : InTar(t, shape, p) /\ p \in Paths <=> \E n \in DOMAIN f : f[n] = p
  /\ \A m, n \in DOMAIN f : f[m] = f[n] => m = n

LEMMA TarEntries ==
  ASSUME NEW t, NEW shape
  PROVE  \E f \in Seq(Paths) : Listed(LegacyTar(t, shape), t, shape, f)
  <1> DEFINE S == {i \in DOMAIN Universe : InTar(t, shape, Universe[i])}
             c == Cardinality(S)
             at(n) == CHOOSE i \in S : Cardinality({j \in S : j <= i}) = n
             f == [n \in 1..c |-> Universe[at(n)]]
  <1>1. /\ Universe \in Seq(Paths) /\ Cardinality(Paths) = Len(Universe)
        /\ Len(Universe) \in Nat /\ DOMAIN Universe = 1..Len(Universe)
    BY ArchiveAssumption
  <1>2. \A i, j \in DOMAIN Universe : Universe[i] = Universe[j] => i = j
    <2>1. Universe \in Surjection(DOMAIN Universe, Paths)
      <3>1. Universe \in [DOMAIN Universe -> Paths]
        BY <1>1
      <3>2. \A p \in Paths : \E i \in DOMAIN Universe : Universe[i] = p
        BY DEF Paths, ToSet
      <3>3. QED
        BY <3>1, <3>2 DEF Surjection
    <2>2. IsFiniteSet(DOMAIN Universe) /\ Cardinality(DOMAIN Universe) = Len(Universe)
      <3> PICK n \in Nat : n = Len(Universe)
        BY <1>1
      <3> DEFINE a == 1
      <3>0. a \in Int /\ n \in Int
        OBVIOUS
      <3> HIDE DEF a
      <3>1. IsFiniteSet(a..n) /\ Cardinality(a..n) = IF a > n THEN 0 ELSE n - a + 1
        BY <3>0, FS_Interval
      <3> USE DEF a
      <3>2. QED
        BY <1>1, <3>1
    <2>3. Universe \in Injection(DOMAIN Universe, Paths)
      BY <1>1, <2>1, <2>2, FS_SurjSameCardinalityImpliesInj
    <2>4. QED
      BY <2>3 DEF Injection, IsInjective
  <1>3. /\ c \in Nat /\ S \subseteq DOMAIN Universe
        /\ \A i \in S : Cardinality(Upto(S, i)) \in 1..c
        /\ \A i, j \in S : Cardinality(Upto(S, i)) = Cardinality(Upto(S, j)) => i = j
        /\ \A n \in 1..c : \E i \in S : Cardinality(Upto(S, i)) = n
    <2>1. S \in SUBSET (1..Len(Universe))
      BY <1>1
    <2> HIDE DEF S
    <2>2. QED
      BY <1>1, <2>1, Counted
  <1>4. LegacyTar(t, shape) = [n \in 1..c |-> TarEntry(t, shape, Universe[at(n)])]
    BY DEF LegacyTar, TarEntry
  <1>5. \A i \in S : InTar(t, shape, Universe[i])
    OBVIOUS
  <1>6. \A p \in Paths : InTar(t, shape, p) => \E i \in S : Universe[i] = p
    BY DEF Paths, ToSet
  <1>7. \A n \in 1..c : at(n) \in S /\ Cardinality(Upto(S, at(n))) = n
    <2> SUFFICES ASSUME NEW n \in 1..c
                 PROVE  at(n) \in S /\ Cardinality(Upto(S, at(n))) = n
      OBVIOUS
    <2> HIDE DEF S, c
    <2>1. \E i \in S : Cardinality({j \in S : j <= i}) = n
      BY <1>3 DEF Upto
    <2>2. QED
      BY <2>1 DEF Upto
  <1> HIDE DEF S, c, at
  <1>8. f \in Seq(Paths) /\ DOMAIN f = 1..c /\ \A n \in 1..c : f[n] = Universe[at(n)]
    <2>1. \A n \in 1..c : Universe[at(n)] \in Paths
      BY <1>1, <1>3, <1>7
    <2>2. QED
      BY <1>3, <2>1
  <1>9. \A i \in S : at(Cardinality(Upto(S, i))) = i
    BY <1>3, <1>7
  <1> HIDE DEF f
  <1>10. \A m, n \in DOMAIN f : f[m] = f[n] => m = n
    <2> SUFFICES ASSUME NEW m \in 1..c, NEW n \in 1..c, f[m] = f[n] PROVE m = n
      BY <1>8
    <2>1. at(m) = at(n)
      BY <1>2, <1>3, <1>7, <1>8
    <2>2. QED
      BY <1>7, <2>1
  <1>11. \A p : InTar(t, shape, p) /\ p \in Paths <=> \E n \in DOMAIN f : f[n] = p
    <2>1. ASSUME NEW p \in Paths, InTar(t, shape, p) PROVE \E n \in DOMAIN f : f[n] = p
      <3>1. PICK i \in S : Universe[i] = p
        BY <1>6, <2>1
      <3>2. QED
        BY <1>3, <1>8, <1>9, <3>1
    <2>2. ASSUME NEW n \in DOMAIN f PROVE InTar(t, shape, f[n]) /\ f[n] \in Paths
      BY <1>1, <1>3, <1>5, <1>7, <1>8
    <2>3. QED
      BY <2>1, <2>2
  <1>12. LegacyTar(t, shape) = [n \in DOMAIN f |-> TarEntry(t, shape, f[n])]
    BY <1>4, <1>8
  <1>13. QED
    BY <1>8, <1>10, <1>11, <1>12 DEF Listed

-----------------------------------------------------------------------------
(* Where an entry of a tarball goes.                                       *)
TarPath(n) == Base(Tarball) \o stream[Tarball][n].path

(* What a legacy tarball is made of does not change.                       *)
TarSource ==
  /\ source \in {"rooted", "flat"} /\ upc = "ok" /\ touched = {}
  /\ orig \in Datadirs /\ Chaindata \in DOMAIN orig /\ orig[Chaindata] = Dir
  /\ stream[Tarball] = LegacyTar(orig, source)
  /\ \A k \in PartKinds : stream[k] = <<>> /\ pos[k] = 0

(* What of it has been extracted: nothing but what was in the datadir.     *)
TarPlaced ==
  /\ DOMAIN pos = Streams /\ pos[Tarball] \in 0..Len(stream[Tarball])
  /\ dst = [q \in DOMAIN dst |-> dst[q]]
  /\ \A q \in DOMAIN dst :
       /\ q = Chaindata \/ InTar(orig, source, q)
       /\ dst[q] = orig[q] /\ orig[q] # Fifo
       /\ orig[q] = Dir \/ \E n \in 1..pos[Tarball] : TarPath(n) = q
  /\ \A n \in 1..pos[Tarball] : orig[TarPath(n)] # Fifo => TarPath(n) \in DOMAIN dst

TarInv ==
  source # "parts" =>
    /\ TarSource /\ TarPlaced
    /\ dpc = "idle" => dst = <<>>
    /\ dpc # "idle" /\ source = "flat" => Chaindata \in DOMAIN dst
    /\ dpc = "ok" => pos[Tarball] = Len(stream[Tarball])
    /\ dpc = "err" => \E n \in DOMAIN stream[Tarball] : stream[Tarball][n].node = AbsLink

LEMMA ChaindataName ==
  /\ Chaindata \in Name /\ Len(Chaindata) = 1 /\ Chaindata[1] = "chaindata" /\ Chaindata # <<>>
  BY WordsAre, OneName, EmptySeq DEF Chaindata

LEMMA AboveChaindata == Prefixes(Chaindata) \ {<<>>} = {Chaindata}
  <1>1. ASSUME NEW q \in Prefixes(Chaindata), q # <<>> PROVE q = Chaindata
    <2>1. q \in Name /\ IsPrefix(q, Chaindata)
      BY ChaindataName, PrefixesAre
    <2>2. q # Chaindata => Len(q) < 1
      BY <2>1, ChaindataName, PrefixOrder
    <2>3. Len(q) \in Nat \ {0}
      BY <1>1, <2>1, EmptySeq DEF Name
    <2>4. ~(Len(q) < 1)
      BY <2>3
    <2>5. QED
      BY <2>2, <2>4
  <1>2. Chaindata \in Prefixes(Chaindata) \ {<<>>}
    BY ChaindataName, PrefixesAre, PrefixOrder
  <1>3. QED
    BY <1>1, <1>2

(* Above a path in a tarball are directories, in the tarball as well.      *)
LEMMA InTarFacts ==
  ASSUME NEW t \in Datadirs, NEW shape, NEW p, InTar(t, shape, p)
  PROVE  /\ p \in Paths /\ p \in Name /\ p # <<>> /\ IsPrefix(Chaindata, p)
         /\ p \in DOMAIN t /\ t[p] \in Nodes
         /\ \A q \in Prefixes(p) \ {<<>>, p} :
              q \in DOMAIN t /\ t[q] = Dir /\ (q = Chaindata \/ InTar(t, shape, q))
  <1>1. p \in DOMAIN t /\ IsPrefix(Chaindata, p)
        /\ \A q \in Prefixes(p) \ {<<>>, p} : t[q] \notin Links
    BY DEF InTar
  <1>2. p \in Paths /\ p \in Name /\ p # <<>> /\ t[p] \in Nodes
    BY <1>1, TreeFacts
  <1>3. ASSUME NEW q \in Prefixes(p) \ {<<>>, p}
        PROVE  q \in Name /\ q # <<>> /\ IsPrefix(q, p) /\ q \in DOMAIN t /\ t[q] = Dir
    <2>1. q \in Name /\ IsPrefix(q, p) /\ q # <<>> /\ q # p
      BY <1>2, PrefixesAre
    <2>2. q \in DOMAIN t /\ t[q] \in {Dir, Symlink}
      BY <1>1, <2>1, TreeFacts
    <2>3. QED
      BY <1>1, <2>1, <2>2 DEF Links
  <1>4. ASSUME NEW q \in Prefixes(p) \ {<<>>, p}, q # Chaindata
        PROVE  InTar(t, shape, q)
    <2>1. q \in Name /\ q # <<>> /\ IsPrefix(q, p) /\ q \in DOMAIN t
      BY <1>3
    <2>2. IsPrefix(Chaindata, q)
      <3>1. IsPrefix(Chaindata, q) \/ IsPrefix(q, Chaindata)
        BY <1>1, <1>2, <2>1, ChaindataName, PrefixOrder
      <3>2. IsPrefix(q, Chaindata) /\ q # Chaindata => Len(q) < 1
        BY <2>1, ChaindataName, PrefixOrder
      <3>3. Len(q) \in Nat \ {0}
        BY <2>1, EmptySeq DEF Name
      <3>4. ~(Len(q) < 1)
        BY <3>3
      <3>5. QED
        BY <1>4, <3>1, <3>2, <3>4
    <2>3. ASSUME NEW r \in Prefixes(q) \ {<<>>, q} PROVE t[r] \notin Links
      <3>1. r \in Name /\ IsPrefix(r, q) /\ r # <<>>
        BY <2>1, <2>3, PrefixesAre
      <3>2. IsPrefix(r, p)
        BY <1>2, <2>1, <3>1, PrefixOrder
      <3>3. r # p
        BY <1>2, <2>1, <2>3, <3>1, PrefixOrder
      <3>4. r \in Prefixes(p) \ {<<>>, p}
        BY <1>2, <3>1, <3>2, <3>3, PrefixesAre
      <3>5. QED
        BY <1>1, <3>4
    <2>4. QED
      BY <1>4, <2>1, <2>2, <2>3 DEF InTar
  <1>5. QED
    BY <1>1, <1>2, <1>3, <1>4

LEMMA NamesJoined ==
  ASSUME NEW s \in Seq(Word), NEW t \in Seq(Word)
  PROVE  /\ s \o t \in Seq(Word) /\ Len(s \o t) = Len(s) + Len(t)
         /\ \A i \in 1..Len(s) : (s \o t)[i] = s[i]
         /\ \A i \in 1..Len(t) : (s \o t)[Len(s) + i] = t[i]
  OBVIOUS

(* A path below chaindata is chaindata and the rest.                       *)
LEMMA ChaindataAndTail ==
  ASSUME NEW p \in Name, IsPrefix(Chaindata, p)
  PROVE  /\ Tail(p) \in Name /\ Chaindata \o Tail(p) = p
         /\ IsPrefix(Chaindata, Tail(p)) => IsPrefix(<<"chaindata", "chaindata">>, p)
  <1> DEFINE c == Chaindata
             r == Tail(p)
  <1>1. c \in Seq(Word) /\ Len(c) = 1 /\ c[1] = "chaindata"
    BY ChaindataName DEF Name
  <1>2. Len(p) \in Nat /\ Len(p) >= 1 /\ p[1] = "chaindata" /\ p \in Seq(Word)
    <2>1. Len(p) \in Nat /\ Len(c) <= Len(p) /\ \A i \in 1..Len(c) : c[i] = p[i]
      BY ChaindataName, PrefixIff DEF Name
    <2>2. QED
      BY <1>1, <2>1 DEF Name
  <1>3. /\ r \in Seq(Word) /\ Len(r) = Len(p) - 1 /\ Len(r) \in Nat
        /\ \A i \in 1..Len(p) - 1 : r[i] = p[i + 1]
    BY <1>2
  <1> HIDE DEF c, r
  <1>4. c \o r = p
    <2> DEFINE s == c \o r
    <2>1. /\ s \in Seq(Word) /\ Len(s) = 1 + Len(r)
          /\ s[1] = c[1] /\ \A i \in 1..Len(r) : s[1 + i] = r[i]
      <3>1. 1 \in 1..Len(c)
        BY <1>1
      <3>2. QED
        BY <1>1, <1>3, <3>1, NamesJoined
    <2> HIDE DEF s
    <2>2. Len(s) = Len(p)
      BY <1>2, <1>3, <2>1
    <2>3. \A i \in 1..Len(p) : s[i] = p[i]
      <3> SUFFICES ASSUME NEW i \in 1..Len(p) PROVE s[i] = p[i]
        OBVIOUS
      <3>1. CASE i = 1
        BY <1>1, <1>2, <2>1, <2>2, <3>1
      <3>2. CASE i # 1
        <4>1. i - 1 \in 1..Len(p) - 1 /\ (i - 1) + 1 = i /\ 1 + (i - 1) = i
          BY <1>2, <3>2
        <4>2. s[1 + (i - 1)] = r[i - 1]
          BY <1>3, <2>1, <4>1
        <4>3. QED
          BY <1>3, <4>1, <4>2
      <3>3. QED
        BY <3>1, <3>2
    <2>4. s = p
      BY <1>2, <2>1, <2>2, <2>3
    <2>5. QED
      BY <2>4 DEF s
  <1>5. ASSUME IsPrefix(c, r) PROVE IsPrefix(<<"chaindata", "chaindata">>, p)
    <2>1. Len(r) >= 1 /\ r[1] = "chaindata"
      <3>1. Len(c) <= Len(r) /\ \A i \in 1..Len(c) : c[i] = r[i]
        BY <1>1, <1>3, <1>5, PrefixIff DEF Name
      <3>2. QED
        BY <1>1, <3>1
    <2>2. Len(p) >= 2 /\ p[2] = "chaindata"
      BY <1>2, <1>3, <2>1
    <2> DEFINE cc == <<"chaindata", "chaindata">>
    <2>3. cc \in Name /\ Len(cc) = 2 /\ cc[1] = "chaindata" /\ cc[2] = "chaindata"
      BY WordsAre, TwoNames
    <2> HIDE DEF cc
    <2>4. \A i \in 1..2 : cc[i] = p[i]
      BY <1>2, <2>2, <2>3
    <2>5. IsPrefix(cc, p)
      BY <2>2, <2>3, <2>4, PrefixIff
    <2>6. QED
      BY <2>5 DEF cc
  <1>6. QED
    BY <1>3, <1>4, <1>5 DEF c, r, Name

(* Each entry goes where it was, and each path of the tarball has one.     *)
TarTargets ==
  /\ Base(Tarball) = IF source = "flat" THEN Chaindata ELSE <<>>
  /\ source = "rooted" <=> Rooted
  /\ Len(stream[Tarball]) \in Nat /\ DOMAIN stream[Tarball] = 1..Len(stream[Tarball])
  /\ \A n \in DOMAIN stream[Tarball] :
       InTar(orig, source, TarPath(n)) /\ stream[Tarball][n].node = orig[TarPath(n)]
  /\ \A m, n \in DOMAIN stream[Tarball] : TarPath(m) = TarPath(n) => m = n
  /\ \A p : InTar(orig, source, p) => \E n \in DOMAIN stream[Tarball] : TarPath(n) = p

LEMMA TarTargetsAre ==
  ASSUME NoInnerChaindata, TarSource
  PROVE  TarTargets
  <1> DEFINE s == stream[Tarball]
             flat == source = "flat"
  <1>1. /\ orig \in Datadirs /\ source \in {"rooted", "flat"}
        /\ Chaindata \in DOMAIN orig /\ orig[Chaindata] = Dir
    BY DEF TarSource
  <1>2. PICK f \in Seq(Paths) : Listed(s, orig, source, f)
    <2>1. s = LegacyTar(orig, source)
      BY DEF TarSource
    <2>2. \E f \in Seq(Paths) : Listed(LegacyTar(orig, source), orig, source, f)
      BY TarEntries
    <2> HIDE DEF s
    <2>3. QED
      BY <2>1, <2>2, Zenon
  <1> HIDE DEF s
  <1>3. \A n \in DOMAIN s : /\ f[n] \in Paths /\ InTar(orig, source, f[n])
                            /\ s[n].path = (IF flat THEN Tail(f[n]) ELSE f[n])
                            /\ s[n].node = orig[f[n]]
    BY <1>2 DEF Listed, TarEntry
  <1>4. Len(f) \in Nat /\ DOMAIN f = 1..Len(f)
    OBVIOUS
  <1>5. Len(s) \in Nat /\ DOMAIN s = 1..Len(s) /\ (s = <<>> <=> DOMAIN s = {}) /\ DOMAIN s = DOMAIN f
    BY <1>2, <1>4 DEF Listed
  <1>6. \A n \in DOMAIN s : f[n] \in Name /\ f[n] # <<>> /\ IsPrefix(Chaindata, f[n])
                            /\ ~IsPrefix(<<"chaindata", "chaindata">>, f[n])
    BY <1>1, <1>3, InTarFacts DEF NoInnerChaindata
  <1>7. Rooted <=> ~flat
    <2>1. CASE flat
      <3>1. ASSUME DOMAIN s # {} PROVE ~IsPrefix(Chaindata, s[1].path)
        <4>1. 1 \in DOMAIN s
          BY <1>5, <3>1
        <4>2. s[1].path = Tail(f[1])
          BY <1>3, <2>1, <4>1
        <4>3. ~IsPrefix(Chaindata, Tail(f[1]))
          BY <1>6, <4>1, ChaindataAndTail
        <4>4. QED
          BY <4>2, <4>3
      <3>2. QED
        BY <1>5, <2>1, <3>1 DEF Rooted, s
    <2>2. CASE ~flat
      <3>1. Chaindata \in Paths /\ InTar(orig, source, Chaindata)
        <4>1. Chaindata \in Paths /\ Chaindata \in Name
          BY <1>1, TreeFacts
        <4>2. IsPrefix(Chaindata, Chaindata)
          BY <4>1, PrefixOrder
        <4>3. Prefixes(Chaindata) \ {<<>>, Chaindata} = {}
          BY AboveChaindata
        <4>4. QED
          BY <1>1, <2>2, <4>1, <4>2, <4>3 DEF InTar
      <3>2. 1 \in DOMAIN s
        <4>1. DOMAIN f # {}
          BY <1>2, <3>1 DEF Listed
        <4>2. QED
          BY <1>4, <1>5, <4>1
      <3>3. IsPrefix(Chaindata, s[1].path) /\ s[1].path = f[1] /\ s[1].node = orig[f[1]]
        BY <1>3, <1>6, <2>2, <3>2
      <3>4. QED
        BY <1>1, <1>5, <2>2, <3>2, <3>3 DEF Rooted, s
    <2>3. QED
      BY <2>1, <2>2
  <1>8. Base(Tarball) = IF flat THEN Chaindata ELSE <<>>
    BY <1>7 DEF Base
  <1>9. \A n \in DOMAIN s : TarPath(n) = f[n]
    <2> SUFFICES ASSUME NEW n \in DOMAIN s PROVE Base(Tarball) \o s[n].path = f[n]
      BY DEF TarPath, s
    <2>1. CASE flat
      BY <1>3, <1>6, <1>8, <2>1, ChaindataAndTail
    <2>2. CASE ~flat
      <3>1. f[n] \in Seq(Word)
        BY <1>6 DEF Name
      <3>2. <<>> \o f[n] = f[n]
        BY <3>1, ConcatEmptySeq
      <3>3. QED
        BY <1>3, <1>8, <2>2, <3>2
    <2>3. QED
      BY <2>1, <2>2
  <1>10. \A p : InTar(orig, source, p) => \E n \in DOMAIN s : TarPath(n) = p
    <2> SUFFICES ASSUME NEW p, InTar(orig, source, p) PROVE \E n \in DOMAIN s : TarPath(n) = p
      OBVIOUS
    <2>1. p \in Paths
      BY <1>1, InTarFacts
    <2>2. QED
      BY <1>2, <1>5, <1>9, <2>1 DEF Listed
  <1>11. \A n \in DOMAIN s : InTar(orig, source, TarPath(n)) /\ s[n].node = orig[TarPath(n)]
    BY <1>3, <1>9
  <1>12. \A m, n \in DOMAIN s : TarPath(m) = TarPath(n) => m = n
    BY <1>2, <1>5, <1>9 DEF Listed
  <1>13. source = "rooted" <=> Rooted
    BY <1>1, <1>7
  <1>14. QED
    BY <1>5, <1>8, <1>10, <1>11, <1>12, <1>13 DEF TarTargets, s

LEMMA InitTar == Init => TarInv
  <1> SUFFICES ASSUME Init, source # "parts" PROVE TarInv
    BY DEF TarInv
  <1>1. /\ source \in {"rooted", "flat"} /\ upc = "ok" /\ touched = {} /\ datadir = orig
        /\ orig \in Datadirs /\ Chaindata \in DOMAIN orig /\ orig[Chaindata] = Dir
        /\ dst = <<>> /\ dpc = "idle" /\ DOMAIN pos = Streams
    BY DEF Init
  <1>2. \A k \in PartKinds : k \in Streams /\ k # Tarball
    BY KindsDiffer DEF Streams
  <1>3. stream[Tarball] = LegacyTar(orig, source) /\ pos[Tarball] = 0
        /\ \A k \in PartKinds : stream[k] = <<>> /\ pos[k] = 0
    <2>1. Tarball \in Streams
      BY DEF Streams
    <2>2. QED
      BY <1>1, <1>2, <2>1 DEF Init
  <1>4. TarSource
    BY <1>1, <1>3 DEF TarSource
  <1>5. Len(stream[Tarball]) \in Nat
    <2>1. PICK f \in Seq(Paths) : Listed(LegacyTar(orig, source), orig, source, f)
      BY TarEntries
    <2>2. Len(f) \in Nat /\ DOMAIN f = 1..Len(f)
      OBVIOUS
    <2>3. DOMAIN stream[Tarball] = 1..Len(f)
      BY <1>3, <2>1, <2>2 DEF Listed
    <2>4. QED
      BY <2>2, <2>3
  <1>6. TarPlaced
    BY <1>1, <1>3, <1>5 DEF TarPlaced
  <1>7. QED
    BY <1>1, <1>4, <1>6 DEF TarInv

(* The next entry of a tarball can be placed, unless it is an absolute     *)
(* link.                                                                   *)
LEMMA NextInTar ==
  ASSUME NoInnerChaindata, TarSource, TarPlaced, pos[Tarball] < Len(stream[Tarball])
  PROVE  LET p == TarPath(pos[Tarball] + 1)
         IN  orig[p] # AbsLink => Extractable(orig[p], p)
  <1> DEFINE i == pos[Tarball] + 1
             p == TarPath(i)
             n == orig[p]
  <1>1. TarTargets /\ orig \in Datadirs
    BY TarTargetsAre DEF TarSource
  <1>2. i \in DOMAIN stream[Tarball] /\ pos[Tarball] \in Nat
        /\ \A m \in 1..pos[Tarball] : m \in DOMAIN stream[Tarball] /\ m # i
    BY <1>1 DEF TarTargets, TarPlaced
  <1>3. InTar(orig, source, p)
    BY <1>1, <1>2 DEF TarTargets
  <1>4. /\ p \in Name /\ p # <<>> /\ n \in Nodes
        /\ \A q \in Prefixes(p) \ {<<>>, p} : orig[q] = Dir
    BY <1>1, <1>3, InTarFacts
  <1>5. p \in DOMAIN dst => n = Dir
    <2>1. ASSUME NEW m \in 1..pos[Tarball], TarPath(m) = p PROVE FALSE
      BY <1>1, <1>2, <2>1 DEF TarTargets
    <2>2. QED
      BY <2>1 DEF TarPlaced
  <1> HIDE DEF i, p, n
  <1>6. <<>> \notin DOMAIN dst
    <2>1. ~InTar(orig, source, <<>>)
      BY <1>1, InTarFacts
    <2>2. QED
      BY <2>1, ChaindataName DEF TarPlaced
  <1>7. \A q \in Prefixes(p) \cap DOMAIN dst : q # p => dst[q] = Dir
    BY <1>4, <1>6 DEF TarPlaced
  <1>8. CanMkdirAll(Front(p))
    <2>1. Prefixes(Front(p)) \cup {p} = Prefixes(p) /\ p \notin Prefixes(Front(p))
      <3>1. Front(p) \in Name /\ Len(Front(p)) = Len(p) - 1 /\ Len(p) \in Nat
        BY <1>4, FrontPrefix DEF Name
      <3>2. IsPrefix(p, Front(p)) => Len(p) <= Len(Front(p))
        BY <1>4, <3>1, PrefixIff
      <3>3. ~IsPrefix(p, Front(p))
        BY <3>1, <3>2
      <3>4. QED
        BY <1>4, <3>1, <3>3, PrefixFront, PrefixesAre
    <2>2. QED
      BY <1>7, <2>1 DEF CanMkdirAll
  <1>9. n = Dir => CanMkdirAll(p)
    <2>1. n = Dir /\ p \in DOMAIN dst => dst[p] = Dir
      BY DEF TarPlaced, n
    <2>2. QED
      BY <1>7, <2>1 DEF CanMkdirAll
  <1>10. n \in {Dir, Symlink, AbsLink, Fifo} \/ n.kind = "file"
    BY <1>4 DEF Nodes, File
  <1>11. n # AbsLink => Extractable(n, p)
    <2>1. CASE n = Dir
      BY <1>9, <2>1 DEF Extractable, Dir, Symlink, AbsLink, Fifo
    <2>2. CASE n.kind = "file"
      <3>1. p \notin DOMAIN dst /\ n # Dir
        BY <1>5, <2>2 DEF Dir
      <3>2. QED
        BY <1>8, <2>2, <3>1 DEF Extractable, Dir, Symlink, AbsLink, Fifo
    <2>3. CASE n = Symlink
      <3>1. p \notin DOMAIN dst
        BY <1>5, <2>3 DEF Dir, Symlink
      <3>2. QED
        BY <1>8, <2>3, <3>1 DEF Extractable, Dir, Symlink, AbsLink, Fifo
    <2>4. CASE n = Fifo
      BY <2>4 DEF Extractable, Dir, Symlink, AbsLink, Fifo
    <2>5. QED
      BY <1>10, <2>1, <2>2, <2>3, <2>4
  <1>12. QED
    BY <1>11 DEF n, p, i

(* The paths that are in the scratch directory were in the tarball, and    *)
(* more of its entries are there.                                          *)
LEMMA TarPlaceOne ==
  ASSUME NoInnerChaindata, TarSource, TarPlaced, pos[Tarball] < Len(stream[Tarball]),
         UNCHANGED <<source, orig, stream>>,
         dst' = Placed(orig[TarPath(pos[Tarball] + 1)], TarPath(pos[Tarball] + 1)),
         pos' = [pos EXCEPT ![Tarball] = @ + 1]
  PROVE  TarPlaced' /\ DOMAIN dst \subseteq DOMAIN dst'
  <1>1. TarTargets /\ orig \in Datadirs
    BY TarTargetsAre DEF TarSource
  <1>2. pos[Tarball] \in Nat /\ pos[Tarball] + 1 \in DOMAIN stream[Tarball]
        /\ Len(stream[Tarball]) \in Nat
    BY <1>1 DEF TarTargets, TarPlaced
  <1> PICK i : i = pos[Tarball] + 1
    OBVIOUS
  <1> PICK p : p = TarPath(i)
    OBVIOUS
  <1> PICK n : n = orig[p]
    OBVIOUS
  <1>3. \A m : TarPath(m)' = TarPath(m)
    BY DEF TarPath, Base, Rooted
  <1>4. InTar(orig, source, p)
    BY <1>1, <1>2 DEF TarTargets
  <1>5. /\ p \in Name /\ p # <<>> /\ n \in Nodes
        /\ \A q \in Prefixes(p) \ {<<>>, p} :
             orig[q] = Dir /\ (q = Chaindata \/ InTar(orig, source, q))
    BY <1>1, <1>4, InTarFacts
  <1>6. WithEntry(Placed(n, p), n, p)
    BY <1>5, PlacedIs
  <1>7. DOMAIN pos' = Streams /\ pos'[Tarball] = i
    BY <1>2 DEF TarPlaced, Streams
  <1>8. i \in 1..i /\ i \in 0..Len(stream[Tarball]) /\ 1..pos[Tarball] \subseteq 1..i
        /\ \A m \in 1..i : m = i \/ m \in 1..pos[Tarball]
    BY <1>2
  <1> PICK d : d = Placed(n, p)
    OBVIOUS
  <1>9. d = dst'
    OBVIOUS
  <1>10. /\ n # Fifo => /\ DOMAIN d = DOMAIN dst \cup (Prefixes(p) \ {<<>>})
                        /\ \A q \in DOMAIN d \ DOMAIN dst :
                             (q # p /\ d[q] = Dir) \/ (q = p /\ d[q] = n)
                        /\ \A q \in DOMAIN dst : d[q] = dst[q] \/ (q = p /\ d[q] = n)
         /\ n = Fifo => d = dst
    BY <1>6 DEF WithEntry
  <1>11. DOMAIN dst \subseteq DOMAIN d
    BY <1>10
  <1>12. d = [q \in DOMAIN d |-> d[q]]
    <2>1. d = dst \/ d = WithDirs(dst, p) \/ d = WithNode(WithDirs(dst, Front(p)), p, n)
      BY DEF Placed
    <2>2. CASE d = dst
      BY <2>2 DEF TarPlaced
    <2>3. CASE d = WithDirs(dst, p)
      BY <2>3 DEF WithDirs
    <2>4. CASE d = WithNode(WithDirs(dst, Front(p)), p, n)
      BY <2>4 DEF WithNode
    <2>5. QED
      BY <2>1, <2>2, <2>3, <2>4
  <1>13. ASSUME NEW q \in DOMAIN d
         PROVE  /\ q = Chaindata \/ InTar(orig, source, q)
                /\ d[q] = orig[q] /\ orig[q] # Fifo
                /\ orig[q] = Dir \/ \E m \in 1..i : TarPath(m) = q
    <2>1. CASE q \in DOMAIN dst /\ d[q] = dst[q]
      BY <1>8, <2>1 DEF TarPlaced
    <2>2. CASE n # Fifo /\ q = p /\ d[q] = n
      BY <1>4, <1>8, <2>2
    <2>3. CASE q \in Prefixes(p) \ {<<>>, p} /\ d[q] = Dir
      BY <1>5, <2>3 DEF Dir, Fifo
    <2>4. QED
      BY <1>10, <2>1, <2>2, <2>3
  <1>14. ASSUME NEW m \in 1..i, orig[TarPath(m)] # Fifo
         PROVE  TarPath(m) \in DOMAIN d
    <2>1. CASE m = i
      <3>1. p \in Prefixes(p) \ {<<>>}
        BY <1>5, PrefixOrder, PrefixesAre
      <3>2. QED
        BY <1>10, <1>14, <2>1, <3>1
    <2>2. CASE m \in 1..pos[Tarball]
      BY <1>11, <1>14, <2>2 DEF TarPlaced
    <2>3. QED
      BY <1>8, <2>1, <2>2
  <1>15. TarPlaced'
    BY <1>3, <1>7, <1>8, <1>9, <1>12, <1>13, <1>14 DEF TarPlaced
  <1>16. QED
    BY <1>9, <1>11, <1>15

LEMMA TarStep ==
  ASSUME NoInnerChaindata, TarInv, [Next]_vars
  PROVE  TarInv'
  <1>0. source' = source
    BY DEF Next, Plan, Finish, Begin, Extracted, Visit, Copy, Extract, NodeWrites,
           vars, up, down
  <1> SUFFICES ASSUME source # "parts" PROVE TarInv'
    BY <1>0 DEF TarInv
  <1>1. TarSource /\ TarPlaced /\ TarTargets /\ upc = "ok"
    BY TarTargetsAre DEF TarInv, TarSource
  <1>2. TarTargets /\ Len(stream[Tarball]) \in Nat /\ DOMAIN stream[Tarball] = 1..Len(stream[Tarball])
    BY <1>1 DEF TarTargets
  <1>3. ASSUME UNCHANGED <<source, up, pos, dst>> PROVE TarSource' /\ TarPlaced'
    BY <1>1, <1>3 DEF TarSource, TarPlaced, TarPath, Base, Rooted, up
  <1>4. CASE Begin
    <2>1. /\ dpc = "idle" /\ dst = <<>> /\ UNCHANGED <<source, up, pos>> /\ dpc' = "extract"
          /\ dst' = IF Rooted THEN dst ELSE WithDirs(dst, Chaindata)
      BY <1>4 DEF Begin, TarInv
    <2>2. TarSource'
      BY <1>1, <2>1 DEF TarSource, up
    <2>3. DOMAIN dst = {}
      BY <2>1
    <2>4. \/ dst' = dst /\ Rooted
          \/ /\ DOMAIN dst' = {Chaindata} /\ dst'[Chaindata] = Dir
             /\ dst' = [q \in DOMAIN dst' |-> dst'[q]]
      <3>1. CASE Rooted
        BY <2>1, <3>1
      <3>2. CASE ~Rooted
        <4>1. dst' = WithDirs(dst, Chaindata)
          BY <2>1, <3>2
        <4>2. DOMAIN dst' = Prefixes(Chaindata) \ {<<>>}
          BY <2>3, <4>1 DEF WithDirs
        <4>3. Prefixes(Chaindata) \ {<<>>} = {Chaindata}
          BY AboveChaindata
        <4>4. dst' = [q \in DOMAIN dst' |-> dst'[q]] /\ \A q \in DOMAIN dst' : dst'[q] = Dir
          BY <2>3, <4>1 DEF WithDirs
        <4>5. QED
          BY <4>2, <4>3, <4>4
      <3>3. QED
        BY <3>1, <3>2
    <2>5. TarPlaced'
      <3>1. \A m : TarPath(m)' = TarPath(m)
        BY <2>1 DEF TarPath, Base, Rooted, up
      <3>2. \A q \in DOMAIN dst' : q = Chaindata /\ dst'[q] = orig[q] /\ orig[q] = Dir
        BY <1>1, <2>3, <2>4 DEF TarSource
      <3>3. \A m \in 1..pos[Tarball] : orig[TarPath(m)] # Fifo => FALSE
        BY <1>1, <2>3 DEF TarPlaced
      <3>4. dst' = [q \in DOMAIN dst' |-> dst'[q]]
        BY <1>1, <2>4 DEF TarPlaced
      <3>5. Dir # Fifo
        BY DEF Dir, Fifo
      <3>6. /\ DOMAIN pos' = Streams /\ pos'[Tarball] \in 0..Len(stream'[Tarball])
            /\ orig' = orig /\ source' = source /\ pos' = pos
        BY <1>1, <2>1 DEF TarPlaced, up
      <3>7. QED
        BY <3>1, <3>2, <3>3, <3>4, <3>5, <3>6 DEF TarPlaced
    <2>6. source = "flat" => Chaindata \in DOMAIN dst'
      <3>1. source = "flat" => ~Rooted
        BY <1>1 DEF TarTargets
      <3>2. QED
        BY <2>4, <3>1
    <2>7. QED
      BY <2>1, <2>2, <2>5, <2>6 DEF TarInv
  <1>5. CASE \E k \in Streams : Extract(k)
    <2>1. PICK k \in Streams : Extract(k)
      BY <1>5
    <2>2. /\ dpc = "extract" /\ pos[k] < Len(stream[k]) /\ UNCHANGED <<source, up>>
      BY <2>1 DEF Extract
    <2>3. k = Tarball
      <3>1. ASSUME k \in PartKinds PROVE FALSE
        <4>1. stream[k] = <<>> /\ pos[k] = 0
          BY <1>1, <3>1 DEF TarSource
        <4>2. Len(stream[k]) = 0
          BY <4>1
        <4>3. QED
          BY <2>2, <4>1, <4>2
      <3>2. QED
        BY <3>1 DEF Streams
    <2> DEFINE i == pos[Tarball] + 1
               p == TarPath(i)
               n == orig[p]
    <2>4. i \in DOMAIN stream[Tarball] /\ stream[Tarball][i].node = n
      <3>1. i \in DOMAIN stream[Tarball]
        BY <1>1, <1>2, <2>2, <2>3 DEF TarPlaced
      <3>2. QED
        BY <1>2, <3>1 DEF TarTargets
    <2>5. \/ /\ Extractable(n, p) /\ dst' = Placed(n, p)
             /\ pos' = [pos EXCEPT ![Tarball] = @ + 1] /\ dpc' = dpc
          \/ /\ ~Extractable(n, p) /\ dpc' = "err" /\ UNCHANGED <<dst, pos>>
      BY <2>1, <2>3, <2>4 DEF Extract, TarPath
    <2>6. TarSource'
      <3>1. \A k2 \in PartKinds : pos'[k2] = pos[k2]
        BY <1>1, <2>5, KindsDiffer DEF TarPlaced, Streams
      <3>2. QED
        BY <1>1, <2>2, <3>1 DEF TarSource, up
    <2>7. CASE /\ dst' = Placed(n, p) /\ pos' = [pos EXCEPT ![Tarball] = @ + 1] /\ dpc' = dpc
      <3>1. TarPlaced' /\ DOMAIN dst \subseteq DOMAIN dst'
        BY <1>1, <2>2, <2>3, <2>7, TarPlaceOne DEF up
      <3>2. QED
        BY <2>2, <2>6, <2>7, <3>1 DEF TarInv
    <2>8. CASE ~Extractable(n, p) /\ dpc' = "err" /\ UNCHANGED <<dst, pos>>
      <3>1. n = AbsLink
        BY <1>1, <2>2, <2>3, <2>8, NextInTar
      <3>2. TarPlaced'
        BY <1>3, <2>2, <2>8
      <3>3. \E m \in DOMAIN stream'[Tarball] : stream'[Tarball][m].node = AbsLink
        BY <2>2, <2>4, <3>1 DEF up
      <3>4. QED
        BY <2>2, <2>6, <2>8, <3>2, <3>3 DEF TarInv
    <2>9. QED
      BY <2>5, <2>7, <2>8
  <1>6. CASE Extracted
    <2>1. /\ dpc = "extract" /\ dpc' = "ok" /\ UNCHANGED <<source, up, pos, dst>>
          /\ pos[Tarball] = Len(stream[Tarball])
      BY <1>6 DEF Extracted, Streams
    <2>2. QED
      BY <1>3, <2>1 DEF TarInv, up
  <1>7. CASE UNCHANGED vars
    BY <1>3, <1>7 DEF TarInv, vars, up, down
  <1>8. ~Plan /\ ~Finish /\ (\A k \in PartKinds : ~Visit(k) /\ ~Copy(k))
        /\ \A p \in Paths : ~NodeWrites(p)
    BY <1>1 DEF Plan, Finish, Visit, Copy, NodeWrites
  <1>9. QED
    BY <1>4, <1>5, <1>6, <1>7, <1>8 DEF Next

LEMMA TarInvariant ==
  ASSUME NoInnerChaindata
  PROVE  Spec => []TarInv
  <1>1. TarInv /\ [Next]_vars => TarInv'
    BY TarStep
  <1>2. QED
    BY <1>1, InitTar, PTL DEF Spec

(* What comes out of a tarball is what a node needs of what it was made    *)
(* from.                                                                   *)
LEMMA TarRestored ==
  ASSUME NoInnerChaindata, TarInv, source # "parts"
  PROVE  Restored
  <1> SUFFICES ASSUME dpc = "ok"
               PROVE  dst = [p \in {q \in DOMAIN orig : Kept(q)} |->
                               IF source = "parts" /\ p = Ancient THEN Dir ELSE orig[p]]
    BY DEF Restored
  <1>1. /\ TarSource /\ TarPlaced /\ TarTargets /\ orig \in Datadirs
        /\ pos[Tarball] = Len(stream[Tarball]) /\ (source = "flat" => Chaindata \in DOMAIN dst)
        /\ Chaindata \in DOMAIN orig /\ orig[Chaindata] = Dir
    BY TarTargetsAre DEF TarInv, TarSource
  <1>2. \A q \in Name : q # <<>> => (Head(q) = "chaindata" <=> IsPrefix(Chaindata, q))
    <2> SUFFICES ASSUME NEW q \in Name, q # <<>>
                 PROVE  Head(q) = "chaindata" <=> IsPrefix(Chaindata, q)
      OBVIOUS
    <2>1. Len(q) \in Nat \ {0} /\ Head(q) = q[1]
      BY EmptySeq DEF Name
    <2>2. IsPrefix(Chaindata, q) <=> 1 <= Len(q) /\ \A i \in 1..1 : Chaindata[i] = q[i]
      BY ChaindataName, PrefixIff
    <2>3. QED
      BY <2>1, <2>2, ChaindataName
  <1>3. ASSUME NEW q \in DOMAIN dst
        PROVE  q \in DOMAIN orig /\ Kept(q) /\ dst[q] = orig[q]
    <2>1. dst[q] = orig[q] /\ orig[q] # Fifo /\ (q = Chaindata \/ InTar(orig, source, q))
      BY <1>1 DEF TarPlaced
    <2>2. q \in DOMAIN orig /\ q \in Name /\ q # <<>> /\ IsPrefix(Chaindata, q)
      BY <1>1, <2>1, InTarFacts, ChaindataName, PrefixOrder
    <2>3. \A r \in Prefixes(q) \ {<<>>, q} : orig[r] \notin Links
      <3>1. CASE q = Chaindata
        BY <3>1, AboveChaindata
      <3>2. CASE InTar(orig, source, q)
        BY <3>2 DEF InTar
      <3>3. QED
        BY <2>1, <3>1, <3>2
    <2>4. QED
      BY <1>2, <2>1, <2>2, <2>3 DEF Kept
  <1>4. ASSUME NEW q, Kept(q) PROVE q \in DOMAIN dst
    <2>1. /\ q \in DOMAIN orig /\ orig[q] # Fifo /\ Head(q) = "chaindata"
          /\ \A r \in Prefixes(q) \ {<<>>, q} : orig[r] \notin Links
      BY <1>4 DEF Kept
    <2>2. q \in Name /\ q # <<>> /\ IsPrefix(Chaindata, q)
      BY <1>1, <1>2, <2>1, TreeFacts
    <2>3. CASE source = "flat" /\ q = Chaindata
      BY <1>1, <2>3
    <2>4. CASE ~(source = "flat" /\ q = Chaindata)
      <3>1. InTar(orig, source, q)
        BY <2>1, <2>2, <2>4 DEF InTar
      <3>2. PICK n \in DOMAIN stream[Tarball] : TarPath(n) = q
        BY <1>1, <3>1 DEF TarTargets
      <3>3. n \in 1..pos[Tarball]
        BY <1>1, <3>2 DEF TarTargets
      <3>4. QED
        BY <1>1, <2>1, <3>2, <3>3 DEF TarPlaced
    <2>5. QED
      BY <2>3, <2>4
  <1>5. DOMAIN dst = {q \in DOMAIN orig : Kept(q)}
    BY <1>3, <1>4
  <1>6. dst = [q \in DOMAIN dst |-> dst[q]]
    BY <1>1 DEF TarPlaced
  <1>7. QED
    BY <1>3, <1>5, <1>6

-----------------------------------------------------------------------------
(* Both kinds of snapshot.                                                 *)

(* What an upload has accepted extracts, for every datadir whose chaindata *)
(* is no link, whatever a node did to it meanwhile and in whatever order   *)
(* the parts are extracted, and so does every legacy tarball; only an      *)
(* absolute link is refused.  (Of a linked chaindata the link is uploaded, *)
(* and the freezer parts go below.)                                        *)
THEOREM ExtractsTheorem ==
  ASSUME PlainChaindata, NoInnerChaindata
  PROVE  Spec => []ExtractsUnlessAbsolute
  <1>1. ExtractInv /\ source = "parts" => ExtractsUnlessAbsolute
    BY DEF ExtractInv, ExtractsUnlessAbsolute, Streams
  <1>2. TarInv /\ source # "parts" => ExtractsUnlessAbsolute
    BY DEF TarInv, ExtractsUnlessAbsolute, Streams
  <1>3. ExtractInv /\ TarInv => ExtractsUnlessAbsolute
    BY <1>1, <1>2
  <1>4. QED
    BY <1>3, ExtractInvariant, TarInvariant, PTL

(* A datadir that did not change during the upload comes back as it was,   *)
(* for every datadir and every order in which the parts are extracted, if  *)
(* chaindata is no link and ancient/chain no fifo; and so does chaindata   *)
(* from a legacy tarball of either shape, if there is no chaindata in it   *)
(* that could be taken for the root.                                       *)
THEOREM RestoredTheorem ==
  ASSUME PlainChaindata, NoInnerChaindata,
         \A d \in Datadirs : Root(AncientChain) \in DOMAIN d => d[Root(AncientChain)] # Fifo
  PROVE  Spec => []Restored
  <1>1. TarInv => (source = "parts" \/ Restored)
    BY TarRestored
  <1>2. (source = "parts" => Restored) /\ (source = "parts" \/ Restored) => Restored
    OBVIOUS
  <1>3. QED
    BY <1>1, <1>2, PartsRestored, TarInvariant, PTL

=============================================================================
