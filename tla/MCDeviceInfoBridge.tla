------------------------- MODULE MCDeviceInfoBridge -------------------------
(* This client and one other; two deletions, of one device or of both.      *)
EXTENDS DeviceInfoBridge

CONSTANTS self, other

MCDevice == {self, other}
=============================================================================
