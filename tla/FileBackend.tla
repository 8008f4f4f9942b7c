---------------------------- MODULE FileBackend -----------------------------
(***************************************************************************)
(* pkg/backend/file: writers that go through a temp file next to the       *)
(* destination, and a List that walks the same directories meanwhile.      *)
(*                                                                         *)
(* Each writer puts one key.  Directories are walked in the order of Dirs; *)
(* within one, the temp files (".ferry-*") sort before every key.  Bytes   *)
(* are numbered in the order they are written.                             *)
(***************************************************************************)
EXTENDS Naturals, Sequences, SequencesExt

CONSTANTS
  Writers,    \* Put calls, one key each
  Dirs,       \* the directories below the root, in lexical order
  DirOf,      \* [Writers -> the directory of the writer's key]
  Existing,   \* writers whose key already holds an object
  MaxBytes,   \* bound: bytes a writer writes
  Old         \* the bytes an existing object holds

ASSUME FileAssumption ==
  /\ DirOf \in [Writers -> {Dirs[i] : i \in DOMAIN Dirs}]
  /\ Existing \subseteq Writers
  /\ MaxBytes \in Nat
  /\ Dirs \in Seq(Range(Dirs)) /\ IsFiniteSet(Writers)

VARIABLES
  pc,         \* where the caller of each writer stands
  accepted,   \* bytes the temp file holds
  temp,       \* writers whose temp file exists
  object,     \* [Writers -> contents under the writer's key, or Old]
  keys,       \* writers whose key exists
  lpc,        \* where List stands
  ldir,       \* index of the directory the walk has to enter or is in
  todo,       \* the directory entries still to visit
  out,        \* what List will return: a set of entries
  before,     \* history: the keys that existed when List was called
  vanished    \* history: a temp file went away during the walk

writerVars == <<pc, accepted, temp, object, keys>>
listVars   == <<lpc, ldir, todo, out, before>>
vars       == <<writerVars, listVars, vanished>>

Bytes(n) == [i \in 1..n |-> i]

TempOf(w) == <<"temp", w>>
KeyOf(w)  == <<"key", w>>
Exists(e) == IF e[1] = "temp" THEN e[2] \in temp ELSE e[2] \in keys

Init ==
  /\ pc = [w \in Writers |-> "new"]
  /\ accepted = [w \in Writers |-> 0]
  /\ temp = {}
  /\ object = [w \in Writers |-> Old]
  /\ keys = Existing
  /\ lpc = "idle" /\ ldir = 1 /\ todo = <<>> /\ out = {} /\ before = {}
  /\ vanished = FALSE

-----------------------------------------------------------------------------

(* A temp file goes away, by rename or by removal.                         *)
DropTemp(w) ==
  /\ temp' = temp \ {w}
  /\ vanished' = (vanished \/ (w \in temp /\ lpc = "walk"))

(* Put: MkdirAll and CreateTemp.                                           *)
Put(w) ==
  /\ pc[w] = "new"
  /\ \/ /\ temp' = temp \cup {w}
        /\ pc' = [pc EXCEPT ![w] = "open"]
     \/ /\ pc' = [pc EXCEPT ![w] = "failed"]
        /\ UNCHANGED temp
  /\ UNCHANGED <<accepted, object, keys, listVars, vanished>>

(* Faulty variant: the bytes go to the final path.                         *)
WriteInPlace(w) ==
  /\ pc[w] = "open"
  /\ accepted[w] < MaxBytes
  /\ accepted' = [accepted EXCEPT ![w] = @ + 1]
  /\ object' = [object EXCEPT ![w] = Bytes(accepted'[w])]
  /\ UNCHANGED <<pc, temp, keys, listVars, vanished>>

(* Write: a short write is an error, after which the caller only aborts.   *)
Write(w) ==
  /\ pc[w] = "open"
  /\ accepted[w] < MaxBytes
  /\ accepted' = [accepted EXCEPT ![w] = @ + 1]
  /\ \/ UNCHANGED pc
     \/ pc' = [pc EXCEPT ![w] = "werr"]
  /\ UNCHANGED <<temp, object, keys, listVars, vanished>>

(* Close, first half: the file is closed; on an error it is removed.       *)
CloseFile(w) ==
  /\ pc[w] = "open"
  /\ \/ /\ pc' = [pc EXCEPT ![w] = "rename"]
        /\ UNCHANGED <<temp, vanished>>
     \/ /\ pc' = [pc EXCEPT ![w] = "failed"]
        /\ DropTemp(w)
  /\ UNCHANGED <<accepted, object, keys, listVars>>

(* Faulty variant: a failed rename leaves the temp file.                   *)
RenameUncleaned(w) ==
  /\ pc[w] = "rename"
  /\ \/ /\ DropTemp(w)
        /\ object' = [object EXCEPT ![w] = Bytes(accepted[w])]
        /\ keys' = keys \cup {w}
        /\ pc' = [pc EXCEPT ![w] = "closed"]
     \/ /\ pc' = [pc EXCEPT ![w] = "failed"]
        /\ UNCHANGED <<temp, vanished, object, keys>>
  /\ UNCHANGED <<accepted, listVars>>

(* Close, second half: the rename, or the removal when it fails.           *)
Rename(w) ==
  /\ pc[w] = "rename"
  /\ DropTemp(w)
  /\ \/ /\ object' = [object EXCEPT ![w] = Bytes(accepted[w])]
        /\ keys' = keys \cup {w}
        /\ pc' = [pc EXCEPT ![w] = "closed"]
     \/ /\ pc' = [pc EXCEPT ![w] = "failed"]
        /\ UNCHANGED <<object, keys>>
  /\ UNCHANGED <<accepted, listVars>>

(* Faulty variant: Abort goes through Close.                               *)
AbortCommits(w) ==
  /\ pc[w] \in {"open", "werr"}
  /\ DropTemp(w)
  /\ object' = [object EXCEPT ![w] = Bytes(accepted[w])]
  /\ keys' = keys \cup {w}
  /\ pc' = [pc EXCEPT ![w] = "aborted"]
  /\ UNCHANGED <<accepted, listVars>>

(* Abort: close and remove the temp file.                                  *)
Abort(w) ==
  /\ pc[w] \in {"open", "werr"}
  /\ DropTemp(w)
  /\ pc' = [pc EXCEPT ![w] = "aborted"]
  /\ UNCHANGED <<accepted, object, keys, listVars>>

(* The process of w dies; its temp file stays.                             *)
Crash(w) ==
  /\ pc[w] \in {"open", "werr", "rename"}
  /\ pc' = [pc EXCEPT ![w] = "crashed"]
  /\ UNCHANGED <<accepted, temp, object, keys, listVars, vanished>>

-----------------------------------------------------------------------------

ListBegin ==
  /\ lpc = "idle"
  /\ lpc' = "walk"
  /\ before' = keys
  /\ UNCHANGED <<ldir, todo, out, writerVars, vanished>>

(* The names of a directory, read at once and sorted: temp files first.    *)
EntriesOf(d) ==
  {t \o k : t \in SetToSeqs({TempOf(w) : w \in {v \in temp : DirOf[v] = d}}),
            k \in SetToSeqs({KeyOf(w) : w \in {v \in keys : DirOf[v] = d}})}

(* Faulty variant: the walk stops before the last directory.               *)
ListEnterShort ==
  /\ lpc = "walk"
  /\ todo = <<>>
  /\ IF ldir >= Len(Dirs)
     THEN /\ lpc' = "done"
          /\ UNCHANGED <<ldir, todo>>
     ELSE /\ todo' \in EntriesOf(Dirs[ldir])
          /\ ldir' = ldir + 1
          /\ UNCHANGED lpc
  /\ UNCHANGED <<out, before, writerVars, vanished>>

(* WalkDir enters the next directory.                                      *)
ListEnter ==
  /\ lpc = "walk"
  /\ todo = <<>>
  /\ IF ldir > Len(Dirs)
     THEN /\ lpc' = "done"
          /\ UNCHANGED <<ldir, todo>>
     ELSE /\ todo' \in EntriesOf(Dirs[ldir])
          /\ ldir' = ldir + 1
          /\ UNCHANGED lpc
  /\ UNCHANGED <<out, before, writerVars, vanished>>

(* The callback for one file.  d.Info() of a name that is gone by now is   *)
(* an ErrNotExist; returned to WalkDir it ends the walk, and List takes    *)
(* ErrNotExist for an absent root and returns what it has, without error.  *)
ListInfo ==
  /\ lpc = "walk"
  /\ todo # <<>>
  /\ IF Exists(Head(todo))
     THEN /\ out' = out \cup {Head(todo)}
          /\ todo' = Tail(todo)
          /\ UNCHANGED lpc
     ELSE /\ lpc' = "done"
          /\ UNCHANGED <<out, todo>>
  /\ UNCHANGED <<ldir, before, writerVars, vanished>>

Next ==
  \/ \E w \in Writers :
       \/ Put(w) \/ Write(w) \/ CloseFile(w) \/ Rename(w)
       \/ Abort(w) \/ Crash(w)
  \/ ListBegin \/ ListEnter \/ ListInfo

Spec == Init /\ [][Next]_vars

-----------------------------------------------------------------------------

(* "A writer that is Abort()'d (or never terminated) leaves no partial     *)
(* object visible" (file.go, Put): what a key holds is what it held before *)
(* or all the bytes of a writer whose Close returned nil, whatever fails   *)
(* or crashes in between.                                                  *)
NoPartialObject ==
  \A w \in Writers :
    object[w] # Old => pc[w] = "closed" /\ object[w] = Bytes(accepted[w])

(* A writer that terminated has no temp file left; only a crash leaves one *)
(* behind (Close's and Abort's os.Remove).                                 *)
TempsCleaned ==
  \A w \in temp : pc[w] \in {"open", "werr", "rename", "crashed"}

(* "List returns objects whose keys begin with the given relative prefix"  *)
(* (backend.go): a List that returned without error has every object that  *)
(* was there when it was called (nothing deletes one meanwhile).           *)
ListComplete ==
  lpc = "done" => \A w \in before : KeyOf(w) \in out

(* List has every object that was there when it was called, provided that  *)
(* no temp file is renamed or removed while WalkDir is under way: d.Info() *)
(* then never meets a name that is gone.                                   *)
QuietListComplete ==
  lpc = "done" /\ ~vanished => \A w \in before : KeyOf(w) \in out

-----------------------------------------------------------------------------

(* A writer as its caller sees it.                                         *)
Failed(w) == pc[w] \in {"failed", "aborted", "crashed"}

Contract(w) == INSTANCE ObjectWriter WITH
  Lossy    <- FALSE,
  phase    <- IF Failed(w) THEN "failed" ELSE IF pc[w] = "closed" THEN "ok" ELSE "open",
  accepted <- IF Failed(w) THEN 0 ELSE accepted[w],
  object   <- object[w]

(* atomicFile implements the contract of backend.Writer in its strict      *)
(* form: a Close that fails has no effect.  (For every writer w this is    *)
(* Contract(w)!Spec, in the shape that TLC takes.)                         *)
ImplementsWriter ==
  /\ \A w \in Writers : Contract(w)!Init
  /\ [][\A w \in Writers : [Contract(w)!Next]_(Contract(w)!vars)]_vars

=============================================================================
