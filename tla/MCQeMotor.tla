------------------------------ MODULE MCQeMotor ------------------------------
(* Instances of QeMotor for TLC: queue sizes of one to three words in a    *)
(* fifo of three, for liveness of one to five in a fifo of two, past what  *)
(* a threshold of half the size can reach; a trajectory timer of one, a    *)
(* PWM register of one step.                                               *)
(* The writers of a safety run are interchangeable.                        *)
EXTENDS QeMotor, TLC

MCPidOut == {-2, 0}
MCUserPwm == {1}
MCQuiet == {0}
MCNone == {}
MCSymmetry == Permutations(Writers)
=============================================================================
