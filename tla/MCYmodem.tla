------------------------------ MODULE MCYmodem ------------------------------
(* Instances of Ymodem for TLC. *)
EXTENDS Ymodem
=============================================================================
