----------------------------- MODULE MCDownload -----------------------------
(* Instances of Download for TLC.                                          *)
EXTENDS Download, TLC

AllShapes == BOOLEAN \X BOOLEAN   \* every combination of optional parts
TwoParts  == {<<FALSE, FALSE>>}   \* hash-based nodes

(* Downloads are interchangeable.                                          *)
DownsSymmetry == Permutations(Downs)

=============================================================================
