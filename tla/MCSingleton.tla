----------------------------- MODULE MCSingleton -----------------------------
(* Instances of Singleton for TLC: two or three processes.                 *)
EXTENDS Singleton

CONSTANTS p1, p2, p3

MCTwo == {p1, p2}
MCThree == {p1, p2, p3}

(* The first process to ask for the object after a boot creates the        *)
(* semaphore undisturbed.  MCSingleton_race.cfg and MCSingleton_crash.cfg   *)
(* show what happens otherwise.                                            *)
CreatesAlone ==
  \A p \in Procs :
    /\ pc[p] = "create" => pc'[p] = "setval"
    /\ pc[p] = "setval" => pc'[p] = "take"

AloneSpec == Init /\ [][Next /\ CreatesAlone]_vars
=============================================================================
