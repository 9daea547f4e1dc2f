------------------------------- MODULE MCSidecar -------------------------------
(***************************************************************************)
(* Instances of Sidecar for TLC.                                           *)
(***************************************************************************)
EXTENDS SidecarProps, SidecarClaims
================================================================================
