---------------------------- MODULE MCIotDevices ----------------------------
(***************************************************************************)
(* An instance of IotDevices.                                              *)
(***************************************************************************)
EXTENDS IotDevices

CONSTANTS d1, d2, a1
=============================================================================
