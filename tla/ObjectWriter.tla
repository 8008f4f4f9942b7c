---------------------------- MODULE ObjectWriter ----------------------------
(***************************************************************************)
(* backend.Writer as its callers may rely on it: bytes are accepted until  *)
(* exactly one terminator runs; Close makes exactly the accepted bytes the *)
(* object, or fails; Abort leaves the object that was there before.        *)
(*                                                                         *)
(* Bytes are numbered in the order they are written, so an object is the   *)
(* sequence 1, 2, .. n, or Old when the key still holds what it held       *)
(* before.                                                                 *)
(***************************************************************************)
EXTENDS Naturals

CONSTANTS
  Old,      \* what readers of the key see before the first commit
  Lossy     \* TRUE: Close may fail after the object became visible

VARIABLES
  phase,    \* "open", "ok" (Close returned nil) or "failed" (aborted, or an
            \* error decided: Close's, or Abort's)
  accepted, \* number of bytes accepted by Write
  object    \* what readers of the key see

vars == <<phase, accepted, object>>

Bytes(n) == [i \in 1..n |-> i]

Init ==
  /\ phase = "open"
  /\ accepted = 0
  /\ object = Old

Write ==
  /\ phase = "open"
  /\ accepted' \in Nat
  /\ accepted' > accepted
  /\ UNCHANGED <<phase, object>>

Commit ==
  /\ phase = "open"
  /\ phase' = "ok"
  /\ object' = Bytes(accepted)
  /\ UNCHANGED accepted

(* What was accepted is forgotten.                                         *)
Discard ==
  /\ phase = "open"
  /\ phase' = "failed"
  /\ accepted' = 0
  /\ UNCHANGED object

(* The commit took effect and its answer was lost.                         *)
CommitUnacknowledged ==
  /\ Lossy
  /\ phase = "open"
  /\ phase' = "failed"
  /\ object' = Bytes(accepted)
  /\ accepted' = 0

Next == Write \/ Commit \/ Discard \/ CommitUnacknowledged

Spec == Init /\ [][Next]_vars

=============================================================================
