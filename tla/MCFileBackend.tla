--------------------------- MODULE MCFileBackend ----------------------------
(* An instance of FileBackend for TLC.                                     *)
EXTENDS FileBackend

TwoWriters  == {"w1", "w2"}
TwoDirs     == <<"snapA", "snapB">>
MCDirOf     == [w \in TwoWriters |-> IF w = "w1" THEN "snapA" ELSE "snapB"]
MCExisting  == {"w2"}

=============================================================================
