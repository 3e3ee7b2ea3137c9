------------------------------ MODULE MCDeviceFlow ------------------------------
(* Small instances of DeviceFlow for TLC. *)
EXTENDS DeviceFlow

CONSTANTS r1, r2, r3
=============================================================================
