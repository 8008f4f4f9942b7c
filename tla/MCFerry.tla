------------------------------ MODULE MCFerry -------------------------------
(* An instance of Ferry for TLC.                                           *)
EXTENDS Ferry

(* Runs that pass the preflight; hash-based nodes (two parts).             *)
TwoPartInvocations ==
  [ valid : {TRUE}, force : {FALSE}, live : {FALSE}, overwrite : BOOLEAN,
    layout : {TRUE}, state : {FALSE}, triedb : {FALSE} ]

(* The two-part snapshots of equal size and of another.                    *)
Sizes == [w \in Runs \cup {Prev} |-> IF w = Prev THEN 1 ELSE 2]

(* A manifest.json one level deeper, with the name of the snapshot.        *)
Nested == {<<"old", Name, "manifest.json">>}

(* An earlier upload of two or three parts; an empty datadir is in         *)
(* MCDownload.                                                             *)
MCInit == Init /\ tar[Triedb] = None /\ orig # D!EmptyTree

(* Downloads and readers write nothing the other reads: they need not run  *)
(* at once, nor a reader beside every kind of datadir.                     *)
NoDownload == orig = NoDir /\ \A d \in Downs : dpc[d] = "start" /\ ~force[d]

MCNext == \/ UploadStep
          \/ tool = None /\ DownloadStep
          \/ NoDownload /\ ReaderStep

MCSpec == MCInit /\ [][MCNext]_vars

=============================================================================
