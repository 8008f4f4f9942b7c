------------------------------ MODULE Snapshot ------------------------------
(***************************************************************************)
(* pkg/snapshot: what a snapshot is made of.  Part names, the manifest and *)
(* its validation, shared by the upload and the download pipelines.        *)
(*                                                                         *)
(* Bytes are abstracted to their PRODUCER: the compressed stream of part k *)
(* made by upload run r is the value r stored under k, and its sha256 is   *)
(* again r (the digest is injective on the streams that exist).            *)
(***************************************************************************)
EXTENDS Naturals, Sequences

CONSTANTS
  None          \* no object / no digest

(* PartKind: the four parts, in the canonical order of planParts.          *)
Live         == "chaindata-live"
AncientChain == "ancient-chain"
AncientState == "ancient-state"
Triedb       == "triedb"

PartKinds == {Live, AncientChain, AncientState, Triedb}

(* len(planned) never exceeds the number of kinds.                         *)
Slots == 1..4

(* planParts: live and ancient-chain always, the two optional parts only   *)
(* when their source directory exists.                                     *)
PlanParts(hasState, hasTriedb) ==
  LET always    == <<Live, AncientChain>>
      withState == IF hasState THEN Append(always, AncientState) ELSE always
  IN  IF hasTriedb THEN Append(withState, Triedb) ELSE withState

(* snapshot.Part as the manifest records it, and Go's zero value of it.    *)
Part(k, sha, tocSha) == [name |-> k, sha256 |-> sha, toc |-> tocSha]
ZeroPart             == [name |-> "", sha256 |-> None, toc |-> None]

(* (m *Manifest) Validate, the conditions that depend on m.Parts; the      *)
(* version, name and role were set from validated options.                 *)
ValidParts(parts) ==
  /\ parts # <<>>
  /\ \A i \in DOMAIN parts :
       /\ parts[i].name # ""
       /\ parts[i].sha256 # None
       /\ \A j \in DOMAIN parts : parts[j].name = parts[i].name => j = i

(* A snapshot as a completed upload w with these parts leaves it.          *)
Published(w, ks) ==
  [run |-> w, parts |-> [i \in DOMAIN ks |-> Part(ks[i], w, w)]]
Objects(w, ks)   ==
  [k \in PartKinds |-> IF \E i \in DOMAIN ks : ks[i] = k THEN w ELSE None]

=============================================================================
