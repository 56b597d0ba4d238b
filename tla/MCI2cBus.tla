------------------------------ MODULE MCI2cBus ------------------------------
(* Instances of I2cBus for TLC: two threads, packets with at most two bytes *)
(* in each direction, four session identifiers, one killed process.  *)
EXTENDS I2cBus
=============================================================================
