----------------------------- MODULE MCSupervisor ------------------------------
(***************************************************************************)
(* SidecarSupervisor for TLC.                                              *)
(***************************************************************************)
EXTENDS SidecarSupervisor
================================================================================
