---------------------------- MODULE MCMultipart -----------------------------
(* Instances of PartStream for TLC.                                        *)
EXTENDS PartStream, TLC

BuffersSymmetry == Permutations(Buffers)

=============================================================================
