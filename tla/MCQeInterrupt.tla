--------------------------- MODULE MCQeInterrupt ---------------------------
(* Instances of QeInterrupt for TLC: the motor's vector and one or two     *)
(* vectors of digital inputs, the first of which a module may also claim.  *)
EXTENDS QeInterrupt, TLC

Motor == 1
Gpio0 == 16
Gpio1 == 17

MCGpio   == {Gpio0, Gpio1}
MCOne    == {Gpio0}
MCShared == {Motor, Gpio0}
MCNobody == {}
MCSymmetry == Permutations(Procs)
=============================================================================
