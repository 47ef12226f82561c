----------------------------- MODULE MCTransfer -----------------------------
(* Instances of TransferManager for TLC.                                   *)
EXTENDS TransferInvariant, TLC

\* Requests are interchangeable: nothing but equality is asked of them.
ReqSymmetry == Permutations(Reqs)
=============================================================================
