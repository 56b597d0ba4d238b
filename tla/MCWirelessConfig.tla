-------------------------- MODULE MCWirelessConfig --------------------------
(* Instances of WirelessConfig for TLC.                                    *)
EXTENDS WirelessConfig
=============================================================================
