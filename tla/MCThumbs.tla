------------------------------- MODULE MCThumbs --------------------------------
(***************************************************************************)
(* ThumbRenderer for TLC: two callers and two renders, so that a canceled  *)
(* render of a key can still be running beside a new one.                  *)
(***************************************************************************)
EXTENDS ThumbRenderer, TLC

CONSTANTS k1, k2, f1, f2

\* Thumbnails of two files, so that one file's strikes can push out the other's.
MCFileOf == (k1 :> f1) @@ (k2 :> f2)
================================================================================
