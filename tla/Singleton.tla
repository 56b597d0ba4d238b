------------------------------ MODULE Singleton ------------------------------
(***************************************************************************)
(* TSingleton<T> (libqwerk/singleton.h) for one registered class T: one    *)
(* System V semaphore for all processes, and in each process an instance   *)
(* and a count of its users.  A process has one thread here.               *)
(*                                                                         *)
(* Each call of semget, semctl, semtimedop and semop is a step of its own, *)
(* and so are the construction and the destruction of T.  A process may be *)
(* killed between any two steps, and then the kernel applies its undo      *)
(* value.  A waiting semtimedop ends with the semaphore, after a second or *)
(* by a signal (SIGIO is installed without SA_RESTART); the last two are   *)
(* the same to the code.                                                   *)
(*                                                                         *)
(* A definition named Faulty... is the one that follows it with a          *)
(* plausible bug; no specification uses it (README, "Seeded faults").      *)
(***************************************************************************)
EXTENDS Integers, Sequences, FiniteSets

CONSTANTS Procs,
          Created,   \* the semaphore has been created and initialised before
          MaxRef     \* bound: calls of GetPtr not yet released, per process

ASSUME SingletonAssumption ==
  Created \in BOOLEAN /\ MaxRef \in Nat \ {0}

VARIABLES
  exists,  \* the semaphore exists in the kernel
  val,     \* its value
  queue,   \* processes asleep in semtimedop, first come first served
  undo,    \* the kernel's undo value for each process
  pc,      \* where each process is
  inst,    \* the processes whose m_pInstance is set
  id,      \* the processes whose m_id is a semaphore
  ref      \* m_refCount of each process

kernel == <<exists, val, queue, undo>>
vars == <<kernel, pc, inst, id, ref>>

Init ==
  /\ exists = Created
  /\ val = IF Created THEN 1 ELSE 0
  /\ queue = <<>> /\ undo = [p \in Procs |-> 0]
  /\ pc = [p \in Procs |-> "idle"]
  /\ inst = {} /\ id = {} /\ ref = [p \in Procs |-> 0]

-----------------------------------------------------------------------------
(* The kernel: the value becomes v, the undo values u, the sleepers q, and *)
(* the first sleeper completes its operation if it can.                    *)
Settle(v, u, q, next) ==
  IF v > 0 /\ q # <<>>
  THEN /\ val' = v - 1
       /\ undo' = [u EXCEPT ![Head(q)] = @ + 1]
       /\ queue' = Tail(q)
       /\ pc' = [next EXCEPT ![Head(q)] = "construct"]
  ELSE val' = v /\ undo' = u /\ queue' = q /\ pc' = next

Goto(p, l) == [pc EXCEPT ![p] = l]

Without(i) == SubSeq(queue, 1, i - 1) \o SubSeq(queue, i + 1, Len(queue))

Others(p) ==
  IF \E i \in 1..Len(queue) : queue[i] = p
  THEN Without(CHOOSE i \in 1..Len(queue) : queue[i] = p)
  ELSE queue

-----------------------------------------------------------------------------
(* GetPtr *)

GetPtrAgain(p) ==
  /\ pc[p] = "idle" /\ p \in inst /\ ref[p] < MaxRef
  /\ ref' = [ref EXCEPT ![p] = @ + 1]
  /\ UNCHANGED <<kernel, pc, inst, id>>

(* semget without IPC_CREAT *)
GetPtr(p) ==
  /\ pc[p] = "idle" /\ p \notin inst /\ ref[p] < MaxRef
  /\ id' = IF exists THEN id \cup {p} ELSE id \ {p}
  /\ pc' = Goto(p, IF exists THEN "take" ELSE "create")
  /\ UNCHANGED <<kernel, inst, ref>>

(* semget with IPC_CREAT, which finds the one created in the meantime *)
Create(p) ==
  /\ pc[p] = "create"
  /\ exists' = TRUE
  /\ id' = id \cup {p}
  /\ pc' = Goto(p, "setval")
  /\ UNCHANGED <<val, queue, undo, inst, ref>>

(* SETVAL forgets the undo values of every process. *)
SetVal(p) ==
  /\ pc[p] = "setval"
  /\ Settle(1, [q \in Procs |-> 0], queue, Goto(p, "take"))
  /\ UNCHANGED <<exists, inst, id, ref>>

Take(p) ==
  /\ pc[p] = "take"
  /\ IF val > 0
     THEN /\ val' = val - 1
          /\ undo' = [undo EXCEPT ![p] = @ + 1]
          /\ pc' = Goto(p, "construct")
          /\ UNCHANGED queue
     ELSE /\ queue' = Append(queue, p)
          /\ pc' = Goto(p, "wait")
          /\ UNCHANGED <<val, undo>>
  /\ UNCHANGED <<exists, inst, id, ref>>

FaultyGiveUp(p) ==
  /\ pc[p] = "wait"
  /\ queue' = Others(p)
  /\ pc' = Goto(p, "idle")
  /\ UNCHANGED <<exists, val, undo, inst, id, ref>>

GiveUp(p) ==
  /\ pc[p] = "wait"
  /\ queue' = Others(p)
  /\ id' = id \ {p}
  /\ pc' = Goto(p, "idle")
  /\ UNCHANGED <<exists, val, undo, inst, ref>>

Construct(p) ==
  /\ pc[p] = "construct"
  /\ inst' = inst \cup {p}
  /\ ref' = [ref EXCEPT ![p] = @ + 1]
  /\ pc' = Goto(p, "idle")
  /\ UNCHANGED <<kernel, id>>

(* The constructor throws; nothing is undone. *)
Throw(p) ==
  /\ pc[p] = "construct"
  /\ pc' = Goto(p, "idle")
  /\ UNCHANGED <<kernel, inst, id, ref>>

-----------------------------------------------------------------------------
(* Release, the static destructor, and the end of a process *)

FaultyRelease(p) ==
  /\ pc[p] = "idle"
  /\ ref' = [ref EXCEPT ![p] = @ - 1]
  /\ pc' = IF ref'[p] = 0 THEN Goto(p, "cleanup") ELSE pc
  /\ UNCHANGED <<kernel, inst, id>>

Release(p) ==
  /\ pc[p] = "idle"
  /\ ref' = [ref EXCEPT ![p] = IF @ > 0 THEN @ - 1 ELSE @]
  /\ pc' = IF ref'[p] = 0 THEN Goto(p, "cleanup") ELSE pc
  /\ UNCHANGED <<kernel, inst, id>>

Exit(p) ==
  /\ pc[p] = "idle"
  /\ pc' = Goto(p, "exit")
  /\ UNCHANGED <<kernel, inst, id, ref>>

AfterPost(p) == Goto(p, IF pc[p] = "exit" THEN "bury" ELSE "delete")

FaultyCleanup(p) ==
  /\ pc[p] \in {"cleanup", "exit"}
  /\ IF p \in id
     THEN Settle(val + 1, [undo EXCEPT ![p] = @ - 1], queue, AfterPost(p))
     ELSE pc' = AfterPost(p) /\ UNCHANGED <<val, undo, queue>>
  /\ UNCHANGED <<exists, inst, id, ref>>

(* Cleanup increments the semaphore, and then deletes the instance. *)
Cleanup(p) ==
  /\ pc[p] \in {"cleanup", "exit"}
  /\ IF p \in id
     THEN Settle(val + 1, [undo EXCEPT ![p] = @ - 1], queue, AfterPost(p))
     ELSE pc' = AfterPost(p) /\ UNCHANGED <<val, undo, queue>>
  /\ id' = id \ {p}
  /\ UNCHANGED <<exists, inst, ref>>

Delete(p) ==
  /\ pc[p] = "delete"
  /\ inst' = inst \ {p}
  /\ pc' = Goto(p, "idle")
  /\ UNCHANGED <<kernel, id, ref>>

(* A process is killed anywhere, or has come to the end of its exit.       *)
Undone(p) == IF val + undo[p] < 0 THEN 0 ELSE val + undo[p]

Die(p) ==
  /\ pc[p] # "gone"
  /\ Settle(Undone(p), [undo EXCEPT ![p] = 0], Others(p), Goto(p, "gone"))
  /\ inst' = inst \ {p} /\ id' = id \ {p}
  /\ ref' = [ref EXCEPT ![p] = 0]
  /\ UNCHANGED exists

Start(p) ==
  /\ pc[p] = "gone"
  /\ pc' = Goto(p, "idle")
  /\ UNCHANGED <<kernel, inst, id, ref>>

Step(p) ==
  \/ GetPtrAgain(p) \/ GetPtr(p) \/ Create(p) \/ SetVal(p) \/ Take(p)
  \/ GiveUp(p) \/ Construct(p) \/ Throw(p)
  \/ Release(p) \/ Exit(p) \/ Cleanup(p) \/ Delete(p)
  \/ Die(p) \/ Start(p)

Next == \E p \in Procs : Step(p)

Spec == Init /\ [][Next]_vars

-----------------------------------------------------------------------------
Labels == {"idle", "create", "setval", "take", "wait", "construct", "cleanup",
           "exit", "delete", "bury", "gone"}

(* Types: among them, a count of users is never negative, whatever calls   *)
(* of Release there are.                                                   *)
TypeOK ==
  /\ exists \in BOOLEAN /\ val \in Nat
  /\ queue \in Seq(Procs)
  /\ undo \in [Procs -> Int]
  /\ pc \in [Procs -> Labels]
  /\ inst \subseteq Procs /\ id \subseteq Procs
  /\ ref \in [Procs -> Nat]

(* The processes the semaphore counts as its owners.                       *)
Owners == {p \in Procs : undo[p] = 1}

(* The semaphore exists, and nobody is between its creation and SETVAL.    *)
Initialised == exists /\ \A p \in Procs : pc[p] \notin {"create", "setval"}

(* The unit of the semaphore is free or has one owner, whoever is killed,  *)
(* gives up, or fails to construct the object, at whatever step.           *)
SemaphoreConserved ==
  Initialised =>
  /\ val \in {0, 1}
  /\ \A p \in Procs : undo[p] \in {0, 1}
  /\ val = 1 <=> Owners = {}
  /\ \A p, q \in Owners : p = q

(* A process that uses the object owns the semaphore: from the end of the  *)
(* constructor until Cleanup gives it up.                                  *)
UserOwns ==
  \A p \in inst : pc[p] \notin {"delete", "bury"} => undo[p] = 1

(* An object that is used is of the process's own count: the count is zero *)
(* exactly when there is no object to use.                                 *)
CountedUsers ==
  \A p \in Procs : pc[p] = "idle" => (p \in inst <=> ref[p] > 0)

(* The processes asleep in semtimedop.                                     *)
Asleep(q) == {q[i] : i \in 1..Len(q)}

(* The semaphore implements the abstract mutex: one owner at a time, which *)
(* asked for it, and none asleep while it is free.                         *)
SemMutex == INSTANCE Mutex WITH owners <- Owners, waiting <- Asleep(queue)
MutexSpec == SemMutex!Spec

(* CKeypad's documentation: of a device that is not input-only, one        *)
(* process at a time has an object to use.                                 *)
OneUser ==
  \A p, q \in inst :
    pc[p] \notin {"delete", "bury"} /\ pc[q] \notin {"delete", "bury"} => p = q

(* The same of the object's whole life, its destructor included, which     *)
(* still works on the hardware.                                            *)
OneInstance == \A p, q \in inst : p = q

(* The comment in GetPtr: the semaphore is created and initialised.  So    *)
(* when every process that created one is gone, it can be had.             *)
CreatedUsable == exists /\ (\A p \in Procs : pc[p] = "gone") => val > 0
=============================================================================
