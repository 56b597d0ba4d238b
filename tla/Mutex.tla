-------------------------------- MODULE Mutex --------------------------------
(***************************************************************************)
(* What a semaphore per class is there for: at most one process owns the   *)
(* hardware of the class, only a process that asked for it becomes its     *)
(* owner, and it is not left free while a process waits for it.            *)
(***************************************************************************)
CONSTANT Procs

VARIABLES owners, waiting

Init == owners = {} /\ waiting = {}

Take(p) == owners = {} /\ waiting = {} /\ owners' = {p} /\ UNCHANGED waiting

Ask(p) == owners # {} /\ waiting' = waiting \cup {p} /\ UNCHANGED owners

Withdraw(p) == waiting' = waiting \ {p} /\ UNCHANGED owners

(* An owner that waits as well stops waiting when it loses its ownership.  *)
Give(p) ==
  /\ owners = {p} /\ waiting \subseteq {p}
  /\ owners' = {} /\ waiting' = {}

Hand(p, q) ==
  /\ owners = {p} /\ q \in waiting \ {p}
  /\ owners' = {q} /\ waiting' = waiting \ {p, q}

Next ==
  \E p \in Procs :
    Take(p) \/ Ask(p) \/ Withdraw(p) \/ Give(p) \/ \E q \in Procs : Hand(p, q)

Spec == Init /\ [][Next]_<<owners, waiting>>
=============================================================================
