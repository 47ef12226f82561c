----------------------------- MODULE MCDownload -----------------------------
(* An instance of DownloadEngine for TLC.                                  *)
EXTENDS DownloadEngine

\* The second version is shorter than a partial file of the first can be.
MCSize == <<3, 2>>

\* The properties say nothing of the states after a race, which is never
\* unset, so those states need no successors.
Unraced == ~raced
=============================================================================
