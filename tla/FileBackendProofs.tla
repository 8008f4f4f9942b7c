------------------------- MODULE FileBackendProofs -------------------------
(***************************************************************************)
(* What the file backend guarantees for any number of writers in any       *)
(* directories, wherever they fail or die, and to a List that walks these  *)
(* directories meanwhile.                                                  *)
(***************************************************************************)
EXTENDS FileBackend, FiniteSetTheorems, SequenceTheorems, TLAPS

Phases == {"new", "open", "werr", "rename", "closed", "failed", "aborted", "crashed"}

TypeOK ==
  /\ pc \in [Writers -> Phases]
  /\ accepted \in [Writers -> Nat]
  /\ temp \subseteq Writers /\ keys \subseteq Writers
  /\ DOMAIN object = Writers

(* Only the rename shows bytes under a key, and then all there were.       *)
WriterInv ==
  /\ TypeOK
  /\ NoPartialObject
  /\ TempsCleaned
  /\ \A w \in Writers : pc[w] \in {"open", "werr", "rename"} => w \in temp

LEMMA WriterInit == Init => WriterInv
<1>1. Existing \subseteq Writers
  BY FileAssumption
<1> SUFFICES ASSUME Init PROVE WriterInv
  OBVIOUS
<1>2. /\ pc = [w \in Writers |-> "new"] /\ accepted = [w \in Writers |-> 0]
      /\ temp = {} /\ object = [w \in Writers |-> Old] /\ keys = Existing
  BY DEF Init
<1>3. TypeOK
  BY <1>1, <1>2 DEF TypeOK, Phases
<1> QED BY <1>2, <1>3 DEF WriterInv, NoPartialObject, TempsCleaned

LEMMA WriterStep == WriterInv /\ [Next]_vars => WriterInv'
<1> SUFFICES ASSUME WriterInv, [Next]_vars PROVE WriterInv'
  OBVIOUS
<1> USE DEF WriterInv, TypeOK, Phases, NoPartialObject, TempsCleaned
<1>1. ASSUME NEW w \in Writers, Put(w) PROVE WriterInv'
  BY <1>1 DEF Put
<1>2. ASSUME NEW w \in Writers, Write(w) PROVE WriterInv'
  BY <1>2 DEF Write
<1>3. ASSUME NEW w \in Writers, CloseFile(w) PROVE WriterInv'
  BY <1>3 DEF CloseFile, DropTemp
<1>4. ASSUME NEW w \in Writers, Rename(w) PROVE WriterInv'
  BY <1>4 DEF Rename, DropTemp
<1>5. ASSUME NEW w \in Writers, Abort(w) PROVE WriterInv'
  BY <1>5 DEF Abort, DropTemp
<1>6. ASSUME NEW w \in Writers, Crash(w) PROVE WriterInv'
  BY <1>6 DEF Crash
<1>7. CASE ListBegin \/ ListEnter \/ ListInfo \/ UNCHANGED vars
  BY <1>7 DEF ListBegin, ListEnter, ListInfo, vars, writerVars
<1> QED BY <1>1, <1>2, <1>3, <1>4, <1>5, <1>6, <1>7 DEF Next

(* A key shows what it showed before, or all that a writer whose Close     *)
(* returned nil had written (Close, Abort).                                *)
THEOREM WholeObjectTheorem == Spec => []NoPartialObject
<1>1. WriterInv => NoPartialObject
  BY DEF WriterInv
<1> QED BY <1>1, WriterInit, WriterStep, PTL DEF Spec

(* A writer that has terminated, in whatever way, has no temp file left.   *)
THEOREM CleanTheorem == Spec => []TempsCleaned
<1>1. WriterInv => TempsCleaned
  BY DEF WriterInv
<1> QED BY <1>1, WriterInit, WriterStep, PTL DEF Spec

-----------------------------------------------------------------------------

(* A finite set in some order has all its elements.                        *)
LEMMA SeqsLemma ==
  ASSUME NEW S, IsFiniteSet(S), NEW f \in SetToSeqs(S)
  PROVE  f \in Seq(S) /\ \A x \in S : \E i \in 1..Len(f) : f[i] = x
<1> DEFINE c == Cardinality(S)
<1>1. c \in Nat
  BY FS_CardinalityType
<1>2. f \in [1..c -> S] /\ \A i, j \in 1..c : i # j => f[i] # f[j]
  BY DEF SetToSeqs
<1>3. f \in Injection(1..c, S)
  BY <1>2 DEF Injection, IsInjective
<1>4. IsFiniteSet(1..c) /\ Cardinality(1..c) = c
  BY <1>1, FS_Interval
<1>5. f \in Surjection(1..c, S)
  BY <1>3, <1>4, FS_Injection
<1>6. \A x \in S : \E i \in 1..c : f[i] = x
  BY <1>5 DEF Surjection
<1>7. f \in Seq(S) /\ Len(f) = c
  BY <1>1, <1>2, SeqDef, LenProperties
<1> QED BY <1>6, <1>7

(* The names of a directory.                                               *)
Names == {TempOf(w) : w \in Writers} \cup {KeyOf(w) : w \in Writers}

LEMMA TagLemma ==
  ASSUME NEW A, IsFiniteSet(A), NEW tag
  PROVE  IsFiniteSet({<<tag, w>> : w \in A})
<1> DEFINE T == {<<tag, w>> : w \in A}
           g == [t \in T |-> t[2]]
<1>1. g \in Injection(T, A)
  BY DEF Injection, IsInjective
<1> QED BY <1>1, FS_Injection

LEMMA EntriesLemma ==
  ASSUME WriterInv, NEW d, NEW e \in EntriesOf(d)
  PROVE  /\ e \in Seq(Names)
         /\ \A n \in 1..Len(e) : Exists(e[n])
         /\ \A w \in keys : DirOf[w] = d => \E n \in 1..Len(e) : e[n] = KeyOf(w)
<1> DEFINE A == {v \in temp : DirOf[v] = d}
           B == {v \in keys : DirOf[v] = d}
           S == {TempOf(w) : w \in A}
           T == {KeyOf(w) : w \in B}
<1>1. PICK s \in SetToSeqs(S), t \in SetToSeqs(T) : e = s \o t
  <2>1. EntriesOf(d) = {t \o k : t \in SetToSeqs(S), k \in SetToSeqs(T)}
    BY DEF EntriesOf
  <2> HIDE DEF S, T
  <2> QED BY <2>1
<1>2. IsFiniteSet(A) /\ IsFiniteSet(B)
  BY FS_Subset, FileAssumption DEF WriterInv, TypeOK
<1>3. IsFiniteSet(S) /\ IsFiniteSet(T)
  BY <1>2, TagLemma DEF TempOf, KeyOf
<1>4. S \subseteq Names /\ T \subseteq Names
  BY DEF WriterInv, TypeOK, Names
<1>5. /\ \A x \in S \cup T : Exists(x)
      /\ \A w \in keys : DirOf[w] = d => KeyOf(w) \in T
  BY DEF Exists, TempOf, KeyOf
<1> HIDE DEF S, T
<1>6. /\ s \in Seq(S) /\ t \in Seq(T)
      /\ \A x \in T : \E i \in 1..Len(t) : t[i] = x
  BY <1>3, SeqsLemma
<1>7. s \in Seq(S \cup T) /\ t \in Seq(S \cup T)
  BY <1>6
<1>8. /\ e \in Seq(S \cup T) /\ Len(e) = Len(s) + Len(t)
      /\ \A i \in 1..Len(t) : e[Len(s) + i] = t[i]
  BY <1>1, <1>7, ConcatProperties
<1>9. Len(s) \in Nat /\ Len(t) \in Nat
  BY <1>6, LenProperties
<1>10. \A n \in 1..Len(e) : e[n] \in S \cup T
  BY <1>8, ElementOfSeq
<1>11. \A x \in T : \E n \in 1..Len(e) : e[n] = x
  <2> SUFFICES ASSUME NEW x \in T PROVE \E n \in 1..Len(e) : e[n] = x
    OBVIOUS
  <2>1. PICK i \in 1..Len(t) : t[i] = x
    BY <1>6
  <2>2. Len(s) + i \in 1..Len(e)
    BY <1>8, <1>9
  <2> QED BY <1>8, <2>1, <2>2
<1>12. e \in Seq(Names)
  BY <1>4, <1>8
<1> QED BY <1>5, <1>10, <1>11, <1>12

(* How far the walk has come: an object that was there at the start is in  *)
(* the result, ahead in this directory, or in a directory still to enter.  *)
Ahead(w) == \/ \E n \in 1..Len(todo) : todo[n] = KeyOf(w)
            \/ \E j \in ldir..Len(Dirs) : Dirs[j] = DirOf[w]

ListInv ==
  /\ ldir \in Nat /\ ldir >= 1 /\ todo \in Seq(Names)
  /\ lpc = "idle" => ldir = 1 /\ todo = <<>>
  /\ lpc # "idle" => before \subseteq keys
  /\ lpc = "walk" /\ ~vanished =>
       /\ \A n \in 1..Len(todo) : Exists(todo[n])
       /\ \A w \in before : KeyOf(w) \in out \/ Ahead(w)
  /\ lpc = "done" /\ ~vanished => \A w \in before : KeyOf(w) \in out

LEMMA DirsLemma ==
  /\ Len(Dirs) \in Nat
  /\ \A w \in Writers : \E j \in 1..Len(Dirs) : Dirs[j] = DirOf[w]
<1>1. Len(Dirs) \in Nat /\ DOMAIN Dirs = 1..Len(Dirs)
  BY FileAssumption, LenProperties
<1>2. DirOf \in [Writers -> {Dirs[i] : i \in DOMAIN Dirs}]
  BY FileAssumption
<1> QED BY <1>1, <1>2

LEMMA ListInit == Init => ListInv
BY DEF Init, ListInv

(* What writers do to the directories under a walk: a name that goes away  *)
(* is noticed.                                                             *)
LEMMA WriterMoves ==
  ASSUME WriterInv, NEW w \in Writers,
         Put(w) \/ Write(w) \/ CloseFile(w) \/ Rename(w) \/ Abort(w) \/ Crash(w)
  PROVE  /\ UNCHANGED listVars /\ keys \subseteq keys'
         /\ lpc = "walk" /\ ~vanished' => ~vanished /\ temp \subseteq temp'
         /\ lpc = "done" /\ ~vanished' => ~vanished
<1>1. CASE Put(w) \/ Write(w) \/ Crash(w)
  BY <1>1 DEF Put, Write, Crash
<1>2. CASE CloseFile(w)
  <2>1. UNCHANGED <<listVars, keys>> /\ (UNCHANGED <<temp, vanished>> \/ DropTemp(w))
    BY <1>2 DEF CloseFile
  <2>2. CASE UNCHANGED <<temp, vanished>>
    BY <2>1, <2>2
  <2>3. CASE DropTemp(w)
    BY <2>1, <2>3 DEF DropTemp
  <2> QED BY <2>1, <2>2, <2>3
<1>3. CASE Abort(w)
  BY <1>3 DEF Abort, DropTemp
<1>4. CASE Rename(w)
  BY <1>4 DEF Rename, DropTemp
<1> QED BY <1>1, <1>2, <1>3, <1>4

LEMMA ListEnterStep ==
  ASSUME WriterInv, ListInv, ListEnter PROVE ListInv'
<1>1. lpc = "walk" /\ todo = <<>> /\ UNCHANGED <<out, before, temp, keys, vanished>>
  BY DEF ListEnter, writerVars
<1>2. Len(todo) = 0
  BY <1>1
<1>3. CASE ldir > Len(Dirs)
  <2>1. lpc' = "done" /\ UNCHANGED <<ldir, todo>>
    BY <1>3 DEF ListEnter
  <2>2. \A j : ~(j \in ldir..Len(Dirs))
    BY <1>3, DirsLemma DEF ListInv
  <2>3. ~vanished => \A w \in before : KeyOf(w) \in out
    BY <1>1, <1>2, <2>2 DEF ListInv, Ahead
  <2> QED BY <1>1, <2>1, <2>3 DEF ListInv
<1>4. CASE ~(ldir > Len(Dirs))
  <2>1. todo' \in EntriesOf(Dirs[ldir]) /\ ldir' = ldir + 1 /\ lpc' = lpc
    BY <1>4 DEF ListEnter
  <2>2. PICK e \in EntriesOf(Dirs[ldir]) : todo' = e
    BY <2>1
  <2>3. /\ e \in Seq(Names) /\ \A n \in 1..Len(e) : Exists(e[n])
        /\ \A w \in keys : DirOf[w] = Dirs[ldir] => \E n \in 1..Len(e) : e[n] = KeyOf(w)
    BY EntriesLemma
  <2>4. \A n \in 1..Len(e) : Exists(e[n])'
    BY <1>1, <2>2, <2>3 DEF Exists
  <2>5. ASSUME ~vanished, NEW w \in before, KeyOf(w) \notin out PROVE Ahead(w)'
    <3>1. PICK j \in ldir..Len(Dirs) : Dirs[j] = DirOf[w]
      BY <1>1, <1>2, <2>5 DEF ListInv, Ahead
    <3>2. CASE j = ldir
      BY <1>1, <2>2, <2>3, <3>1, <3>2 DEF Ahead, ListInv
    <3>3. CASE j # ldir
      <4>1. j \in (ldir + 1)..Len(Dirs)
        BY <3>3, DirsLemma DEF ListInv
      <4> QED BY <2>1, <3>1, <4>1 DEF Ahead
    <3> QED BY <3>2, <3>3
  <2>6. ldir' \in Nat /\ ldir' >= 1
    BY <2>1 DEF ListInv
  <2> QED BY <1>1, <2>1, <2>2, <2>3, <2>4, <2>5, <2>6 DEF ListInv
<1> QED BY <1>3, <1>4

LEMMA ListInfoStep ==
  ASSUME WriterInv, ListInv, ListInfo PROVE ListInv'
<1>1. lpc = "walk" /\ todo # <<>> /\ UNCHANGED <<ldir, before, temp, keys, vanished>>
  BY DEF ListInfo, writerVars
<1>2. todo \in Seq(Names) /\ Len(todo) \in Nat /\ Len(todo) >= 1 /\ Head(todo) = todo[1]
  BY <1>1, HeadTailProperties, LenProperties, EmptySeq DEF ListInv
<1>3. CASE Exists(Head(todo))
  <2>1. out' = out \cup {Head(todo)} /\ todo' = Tail(todo) /\ lpc' = lpc
    BY <1>3 DEF ListInfo
  <2>2. /\ Tail(todo) \in Seq(Names) /\ Len(Tail(todo)) = Len(todo) - 1
        /\ \A n \in 1..Len(Tail(todo)) : Tail(todo)[n] = todo[n + 1]
    BY <1>1, <1>2, HeadTailProperties
  <2>3. ~vanished => \A n \in 1..Len(Tail(todo)) : Exists(Tail(todo)[n])
    <3>1. \A n \in 1..Len(Tail(todo)) : n + 1 \in 1..Len(todo)
      BY <1>2, <2>2
    <3> QED BY <1>1, <2>2, <3>1 DEF ListInv
  <2>4. ASSUME ~vanished, NEW w \in before PROVE KeyOf(w) \in out' \/ Ahead(w)'
    <3>1. CASE KeyOf(w) \in out
      BY <2>1, <3>1
    <3>2. CASE \E n \in 1..Len(todo) : todo[n] = KeyOf(w)
      <4>1. PICK n \in 1..Len(todo) : todo[n] = KeyOf(w)
        BY <3>2
      <4>2. CASE n = 1
        BY <1>2, <2>1, <4>1, <4>2
      <4>3. CASE n # 1
        <5>1. n - 1 \in 1..Len(Tail(todo)) /\ (n - 1) + 1 = n
          BY <1>2, <2>2, <4>3
        <5>2. Tail(todo)[n - 1] = KeyOf(w)
          BY <2>2, <4>1, <5>1
        <5> QED BY <2>1, <5>1, <5>2 DEF Ahead
      <4> QED BY <4>2, <4>3
    <3>3. CASE \E j \in ldir..Len(Dirs) : Dirs[j] = DirOf[w]
      BY <1>1, <3>3 DEF Ahead
    <3> QED BY <1>1, <2>4, <3>1, <3>2, <3>3 DEF ListInv, Ahead
  <2>5. \A n \in 1..Len(todo') : ~vanished => Exists(todo[n])'
    <3>1. \A n \in 1..Len(todo') : ~vanished => Exists(todo'[n])
      BY <2>1, <2>3
    <3> QED BY <1>1, <3>1 DEF Exists
  <2> QED BY <1>1, <2>1, <2>2, <2>4, <2>5 DEF ListInv
<1>4. CASE ~Exists(Head(todo))
  <2>1. vanished
    BY <1>1, <1>2, <1>4 DEF ListInv
  <2> QED BY <1>1, <1>4, <2>1 DEF ListInfo, ListInv
<1> QED BY <1>3, <1>4

LEMMA ListStep == WriterInv /\ ListInv /\ [Next]_vars => ListInv'
<1> SUFFICES ASSUME WriterInv, ListInv, [Next]_vars PROVE ListInv'
  OBVIOUS
<1>1. ASSUME NEW w \in Writers,
             Put(w) \/ Write(w) \/ CloseFile(w) \/ Rename(w) \/ Abort(w) \/ Crash(w)
      PROVE  ListInv'
  <2>1. /\ UNCHANGED <<lpc, ldir, todo, out, before>> /\ keys \subseteq keys'
        /\ lpc = "walk" /\ ~vanished' => ~vanished /\ temp \subseteq temp'
        /\ lpc = "done" /\ ~vanished' => ~vanished
    BY <1>1, WriterMoves DEF listVars
  <2>2. \A v : Ahead(v)' <=> Ahead(v)
    BY <2>1 DEF Ahead
  <2>3. lpc = "walk" /\ ~vanished' => \A n \in 1..Len(todo) : Exists(todo[n]) => Exists(todo[n])'
    BY <2>1 DEF Exists
  <2> QED BY <2>1, <2>2, <2>3 DEF ListInv
<1>2. CASE ListBegin
  <2>1. /\ lpc = "idle" /\ lpc' = "walk" /\ before' = keys
        /\ UNCHANGED <<ldir, todo, out, temp, keys, vanished>>
    BY <1>2 DEF ListBegin, writerVars
  <2>2. ldir = 1 /\ Len(todo) = 0 /\ todo \in Seq(Names)
    BY <2>1 DEF ListInv
  <2>3. \A w \in keys : Ahead(w)'
    BY <2>1, <2>2, DirsLemma DEF Ahead, WriterInv, TypeOK
  <2> QED BY <2>1, <2>2, <2>3 DEF ListInv
<1>3. CASE UNCHANGED vars
  <2>1. UNCHANGED <<lpc, ldir, todo, out, before, temp, keys, vanished>>
    BY <1>3 DEF vars, writerVars, listVars
  <2> QED BY <2>1 DEF ListInv, Ahead, Exists
<1> QED BY <1>1, <1>2, <1>3, ListEnterStep, ListInfoStep DEF Next

(* A List under which no temp file goes away returns every object that was *)
(* there when it was called, whatever writers create meanwhile.            *)
THEOREM QuietListTheorem == Spec => []QuietListComplete
<1>1. ListInv => QuietListComplete
  BY DEF ListInv, QuietListComplete
<1> QED BY <1>1, WriterInit, WriterStep, ListInit, ListStep, PTL DEF Spec

-----------------------------------------------------------------------------

LEMMA ContractInit ==
  ASSUME Init, NEW w \in Writers PROVE Contract(w)!Init
BY DEF Init, Failed, Contract!Init

(* What a step of one writer is to the caller of another, or of that one.  *)
LEMMA ContractStep ==
  ASSUME WriterInv, [Next]_vars, NEW w \in Writers
  PROVE  [Contract(w)!Next]_(Contract(w)!vars)
<1> USE DEF Failed, WriterInv, TypeOK, Phases
<1>1. CASE UNCHANGED <<pc, accepted, object>>
  BY <1>1 DEF Contract!vars
<1>2. ASSUME NEW v \in Writers, v # w, Put(v) \/ Write(v) \/ CloseFile(v) \/ Rename(v)
                                       \/ Abort(v) \/ Crash(v)
      PROVE  [Contract(w)!Next]_(Contract(w)!vars)
  <2>1. pc'[w] = pc[w] /\ accepted'[w] = accepted[w] /\ object'[w] = object[w]
    BY <1>2 DEF Put, Write, CloseFile, Rename, Abort, Crash
  <2> QED BY <2>1 DEF Contract!vars
<1>3. CASE Put(w)
  <2>1. /\ pc[w] = "new" /\ pc'[w] \in {"open", "failed"}
        /\ accepted' = accepted /\ object' = object
    BY <1>3 DEF Put
  <2> QED BY <2>1 DEF Contract!vars, Contract!Next, Contract!Discard
<1>4. CASE Write(w)
  <2>1. /\ pc[w] = "open" /\ pc'[w] \in {"open", "werr"}
        /\ accepted'[w] = accepted[w] + 1 /\ accepted[w] \in Nat /\ object' = object
    BY <1>4 DEF Write
  <2>2. accepted'[w] \in Nat /\ accepted'[w] > accepted[w]
    BY <2>1
  <2> QED BY <2>1, <2>2 DEF Contract!vars, Contract!Next, Contract!Write
<1>5. CASE CloseFile(w) \/ Abort(w) \/ Crash(w)
  <2>1. /\ pc[w] \in {"open", "werr", "rename"}
        /\ pc'[w] \in {"rename", "failed", "aborted", "crashed"}
        /\ accepted' = accepted /\ object' = object
    BY <1>5 DEF CloseFile, Abort, Crash
  <2> QED BY <2>1 DEF Contract!vars, Contract!Next, Contract!Discard
<1>6. CASE Rename(w)
  <2>1. /\ pc[w] = "rename" /\ accepted' = accepted
        /\ \/ pc'[w] = "closed" /\ object'[w] = Bytes(accepted[w])
           \/ pc'[w] = "failed" /\ object' = object
    BY <1>6 DEF Rename
  <2>2. CASE pc'[w] = "closed" /\ object'[w] = Bytes(accepted[w])
    BY <2>1, <2>2 DEF Contract!vars, Contract!Next, Contract!Commit, Contract!Bytes, Bytes
  <2>3. CASE pc'[w] = "failed" /\ object' = object
    BY <2>1, <2>3 DEF Contract!vars, Contract!Next, Contract!Discard
  <2> QED BY <2>1, <2>2, <2>3
<1>7. CASE ListBegin \/ ListEnter \/ ListInfo \/ UNCHANGED vars
  BY <1>1, <1>7 DEF ListBegin, ListEnter, ListInfo, vars, writerVars
<1> QED BY <1>2, <1>3, <1>4, <1>5, <1>6, <1>7 DEF Next

(* Every writer of the file backend keeps the contract of backend.Writer   *)
(* in its strict form: a Close that fails, an Abort and a crash leave the  *)
(* object as it was, a Close that returns nil makes it all the bytes.      *)
THEOREM ContractTheorem == Spec => ImplementsWriter
<1>1. Init => \A w \in Writers : Contract(w)!Init
  BY ContractInit
<1>2. WriterInv /\ [Next]_vars => [\A w \in Writers : [Contract(w)!Next]_(Contract(w)!vars)]_vars
  BY ContractStep
<1> QED BY <1>1, <1>2, WriterInit, WriterStep, PTL DEF Spec, ImplementsWriter

=============================================================================
