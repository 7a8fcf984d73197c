----------------------------- MODULE MCFileStore -----------------------------
(* Small instances of FileStore: two frames; every fault, or those after which *)
(* memory and disk still agree.                                               *)
EXTENDS FileStore, TLC

CONSTANTS a, b

TwoFrames == {a, b}
FrameSymmetry == Permutations(TwoFrames)

NoHalfReset == {"persist", "write", "repair"}

\* issued and failed are history that no guard and no property of the reset run reads.
ResetView == <<files, object, op, ret, pending, owed, accepted>>
==============================================================================
