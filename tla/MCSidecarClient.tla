---------------------------- MODULE MCSidecarClient ----------------------------
(***************************************************************************)
(* SidecarClient for TLC.                                                  *)
(***************************************************************************)
EXTENDS SidecarClient
================================================================================
