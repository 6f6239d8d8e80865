--------------------------- MODULE MCDeviceManager ---------------------------
(* DeviceManager on a small instance.                                      *)
EXTENDS DeviceManager, TLC

=============================================================================
