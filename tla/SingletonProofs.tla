--------------------------- MODULE SingletonProofs ---------------------------
(***************************************************************************)
(* Proofs about Singleton for every set of processes, once the semaphore   *)
(* has been initialised (Created).                                         *)
(*                                                                         *)
(* SemaphoreConserved is not inductive: a process that posts the semaphore *)
(* must own it, which the code knows only by m_id.  Inv says where m_id    *)
(* may be trusted (IdOwns), where there is an object (ObjectOwns), and     *)
(* that the kernel's sleepers are processes in semtimedop, each once, and  *)
(* none while the semaphore is free (SleepersWait, NoneStranded).          *)
(***************************************************************************)
EXTENDS Singleton, SequenceTheorems, TLAPS

(* The sleepers q are in semtimedop according to c, each of them once.      *)
Sleepers(q, c) ==
  \A i \in 1..Len(q) :
    /\ c[q[i]] = "wait"
    /\ \A j \in 1..Len(q) : q[i] = q[j] => i = j

SleepersWait == Sleepers(queue, pc)

(* The unit is free or has one owner, for a value v and undo values u.      *)
Conserved(v, u) ==
  /\ v \in {0, 1} /\ u \in [Procs -> {0, 1}]
  /\ v = 1 <=> \A p \in Procs : u[p] = 0
  /\ \A p, q \in Procs : u[p] = 1 /\ u[q] = 1 => p = q

Ones(u) == {p \in Procs : u[p] = 1}

NoneStranded == val = 1 => queue = <<>>

IdOwns ==
  \A p \in Procs :
    /\ pc[p] \in {"take", "wait", "construct"} => p \in id
    /\ pc[p] \in {"idle", "cleanup", "exit", "construct"} /\ p \in id => undo[p] = 1
    /\ pc[p] \in {"delete", "bury", "gone"} => p \notin id

ObjectOwns ==
  \A p \in Procs :
    /\ pc[p] \in {"idle", "cleanup", "exit"} /\ p \in inst => p \in id
    /\ pc[p] \in {"take", "wait", "construct", "gone"} => p \notin inst
    /\ p \notin inst => ref[p] = 0
    /\ pc[p] \in {"cleanup", "delete"} => ref[p] = 0
    /\ pc[p] = "idle" /\ p \in inst => ref[p] > 0

Inv ==
  /\ TypeOK /\ Conserved(val, undo)
  /\ SleepersWait /\ NoneStranded /\ Initialised /\ IdOwns /\ ObjectOwns
-----------------------------------------------------------------------------
(* Facts about the kernel. *)

(* The first sleeper leaves the queue; the others still sleep in it.       *)
LEMMA WithoutFirst ==
  ASSUME NEW q \in Seq(Procs), q # <<>>, NEW c \in [Procs -> Labels],
         Sleepers(q, c)
  PROVE  /\ Head(q) \in Procs /\ c[Head(q)] = "wait"
         /\ Tail(q) \in Seq(Procs)
         /\ Sleepers(Tail(q), [c EXCEPT ![Head(q)] = "construct"])
         /\ Asleep(Tail(q)) = Asleep(q) \ {Head(q)} /\ Head(q) \in Asleep(q)
<1>1. /\ Head(q) = q[1] /\ Head(q) \in Procs
      /\ Tail(q) \in Seq(Procs)
      /\ Len(q) \in Nat /\ Len(q) >= 1
      /\ Len(Tail(q)) = Len(q) - 1
      /\ \A i \in 1..Len(Tail(q)) : Tail(q)[i] = q[i + 1]
  BY HeadTailProperties, LenProperties, EmptySeq
<1>2. \A i \in 1..Len(q) : q[i] \in Procs
  BY ElementOfSeq
<1>3. \A i \in 1..Len(Tail(q)) :
        /\ i + 1 \in 1..Len(q) /\ 1 \in 1..Len(q) /\ i + 1 # 1
  BY <1>1
<1>4. c[Head(q)] = "wait"
  BY <1>1 DEF Sleepers
<1>5. ASSUME NEW i \in 1..Len(Tail(q))
      PROVE  /\ [c EXCEPT ![Head(q)] = "construct"][Tail(q)[i]] = "wait"
             /\ \A j \in 1..Len(Tail(q)) : Tail(q)[i] = Tail(q)[j] => i = j
  <2>1. Tail(q)[i] # Head(q) /\ Tail(q)[i] \in Procs /\ c[Tail(q)[i]] = "wait"
    BY <1>1, <1>2, <1>3 DEF Sleepers
  <2>2. ASSUME NEW j \in 1..Len(Tail(q)), Tail(q)[i] = Tail(q)[j]
        PROVE  i = j
    <3>1. i + 1 = j + 1
      BY <1>1, <1>3, <2>2 DEF Sleepers
    <3> QED BY <3>1, <1>1
  <2> QED BY <2>1, <2>2
<1>6. Asleep(Tail(q)) = Asleep(q) \ {Head(q)} /\ Head(q) \in Asleep(q)
  <2>1. \A i \in 1..Len(q) : i = 1 \/ (i - 1 \in 1..Len(Tail(q)) /\ (i - 1) + 1 = i)
    BY <1>1
  <2>2. \A i \in 1..Len(q) : q[i] # Head(q) => \E j \in 1..Len(Tail(q)) : Tail(q)[j] = q[i]
    BY <1>1, <2>1
  <2>3. \A j \in 1..Len(Tail(q)) : Tail(q)[j] # Head(q) /\ Tail(q)[j] \in Asleep(q)
    BY <1>1, <1>3 DEF Sleepers, Asleep
  <2>4. Head(q) \in Asleep(q)
    BY <1>1 DEF Asleep
  <2>5. Asleep(Tail(q)) \subseteq Asleep(q) \ {Head(q)}
    BY <2>3 DEF Asleep
  <2>6. Asleep(q) \ {Head(q)} \subseteq Asleep(Tail(q))
    BY <2>2 DEF Asleep
  <2> QED BY <2>4, <2>5, <2>6
<1> QED BY <1>1, <1>4, <1>5, <1>6 DEF Sleepers

(* A process that leaves the queue is not in it; the others still are.     *)
LEMMA WithoutOne ==
  ASSUME queue \in Seq(Procs), NEW p \in Procs, NEW c \in [Procs -> Labels],
         Sleepers(queue, c)
  PROVE  /\ Others(p) \in Seq(Procs)
         /\ \A l \in Labels : Sleepers(Others(p), [c EXCEPT ![p] = l])
         /\ Asleep(Others(p)) = Asleep(queue) \ {p}
         /\ queue = <<>> => Others(p) = <<>>
<1>1. Len(queue) \in Nat /\ \A i \in 1..Len(queue) : queue[i] \in Procs
  BY ElementOfSeq, LenProperties
<1>2. CASE ~ \E i \in 1..Len(queue) : queue[i] = p
  <2>1. Others(p) = queue
    BY <1>2 DEF Others
  <2> QED BY <1>1, <1>2, <2>1 DEF Sleepers, Asleep
<1>3. CASE \E i \in 1..Len(queue) : queue[i] = p
  <2> DEFINE k == CHOOSE i \in 1..Len(queue) : queue[i] = p
             left == SubSeq(queue, 1, k - 1)
             right == SubSeq(queue, k + 1, Len(queue))
  <2>1. k \in 1..Len(queue) /\ queue[k] = p
    BY <1>3
  <2>2. Others(p) = left \o right
    BY <1>3 DEF Others, Without
  <2> HIDE DEF k
  <2>3. /\ left \in Seq(Procs) /\ Len(left) = k - 1
        /\ \A i \in 1..k - 1 : left[i] = queue[i]
    <3>1. \A i \in 1..k - 1 : queue[i] \in Procs
      BY <1>1, <2>1
    <3>2. /\ left \in Seq(Procs)
          /\ Len(left) = IF 1 <= k - 1 THEN k - 1 - 1 + 1 ELSE 0
          /\ \A i \in 1..k - 1 - 1 + 1 : left[i] = queue[1 + i - 1]
      BY <1>1, <2>1, <3>1, SubSeqProperties
    <3> QED BY <1>1, <2>1, <3>2
  <2>4. /\ right \in Seq(Procs) /\ Len(right) = Len(queue) - k
        /\ \A i \in 1..Len(queue) - k : right[i] = queue[k + i]
    <3>1. \A i \in k + 1..Len(queue) : queue[i] \in Procs
      BY <1>1, <2>1
    <3>2. /\ right \in Seq(Procs)
          /\ Len(right) = IF k + 1 <= Len(queue) THEN Len(queue) - (k + 1) + 1 ELSE 0
          /\ \A i \in 1..Len(queue) - (k + 1) + 1 : right[i] = queue[k + 1 + i - 1]
      BY <1>1, <2>1, <3>1, SubSeqProperties
    <3> QED BY <1>1, <2>1, <3>2
  <2>5. /\ left \o right \in Seq(Procs)
        /\ Len(left \o right) = Len(queue) - 1
        /\ \A i \in 1..Len(queue) - 1 :
             (left \o right)[i] = queue[IF i < k THEN i ELSE i + 1]
    <3> HIDE DEF left, right
    <3>1. /\ left \o right \in Seq(Procs)
          /\ Len(left \o right) = Len(left) + Len(right)
          /\ \A i \in 1..Len(left) + Len(right) :
               (left \o right)[i] = IF i <= Len(left) THEN left[i]
                                                     ELSE right[i - Len(left)]
      BY <2>3, <2>4, ConcatProperties
    <3>2. ASSUME NEW i \in 1..Len(queue) - 1
          PROVE  (left \o right)[i] = queue[IF i < k THEN i ELSE i + 1]
      <4>1. CASE i < k
        <5>1. i \in 1..k - 1 /\ i <= Len(left) /\ i \in 1..Len(left) + Len(right)
          BY <1>1, <2>1, <2>3, <2>4, <4>1
        <5> QED BY <2>3, <3>1, <4>1, <5>1
      <4>2. CASE i >= k
        <5>1. /\ ~(i <= Len(left)) /\ i \in 1..Len(left) + Len(right)
              /\ i - Len(left) \in 1..Len(queue) - k
              /\ k + (i - Len(left)) = i + 1 /\ ~(i < k)
          BY <1>1, <2>1, <2>3, <2>4, <4>2
        <5> QED BY <2>4, <3>1, <5>1
      <4>3. i < k \/ i >= k
        BY <1>1, <2>1
      <4> QED BY <4>1, <4>2, <4>3
    <3> QED BY <1>1, <2>1, <2>3, <2>4, <3>1, <3>2
  <2> HIDE DEF left, right
  <2>6. ASSUME NEW l \in Labels, NEW i \in 1..Len(queue) - 1
        PROVE  /\ [c EXCEPT ![p] = l][(left \o right)[i]] = "wait"
               /\ \A j \in 1..Len(queue) - 1 :
                    (left \o right)[i] = (left \o right)[j] => i = j
    <3> DEFINE at(n) == IF n < k THEN n ELSE n + 1
    <3>1. \A n \in 1..Len(queue) - 1 : at(n) \in 1..Len(queue) /\ at(n) # k
      BY <1>1, <2>1
    <3>2. \A m, n \in 1..Len(queue) - 1 : at(m) = at(n) => m = n
      BY <1>1, <2>1
    <3>3. \A n \in 1..Len(queue) - 1 : (left \o right)[n] = queue[at(n)]
      BY <2>5
    <3> HIDE DEF at
    <3>4. queue[at(i)] # p /\ queue[at(i)] \in Procs /\ c[queue[at(i)]] = "wait"
      BY <1>1, <2>1, <3>1 DEF Sleepers
    <3>5. ASSUME NEW j \in 1..Len(queue) - 1, (left \o right)[i] = (left \o right)[j]
          PROVE  i = j
      <4>1. queue[at(i)] = queue[at(j)]
        BY <3>3, <3>5
      <4>2. at(i) = at(j)
        BY <3>1, <4>1 DEF Sleepers
      <4> QED BY <3>2, <3>5, <4>2
    <3> QED BY <3>3, <3>4, <3>5
  <2>7. Asleep(left \o right) = Asleep(queue) \ {p}
    <3>1. ASSUME NEW i \in 1..Len(queue) - 1
          PROVE  (left \o right)[i] \in Asleep(queue) \ {p}
      <4> DEFINE n == IF i < k THEN i ELSE i + 1
      <4>1. n \in 1..Len(queue) /\ n # k /\ (left \o right)[i] = queue[n]
        BY <1>1, <2>1, <2>5
      <4> HIDE DEF n
      <4>2. queue[n] # p
        BY <2>1, <4>1 DEF Sleepers
      <4> QED BY <4>1, <4>2 DEF Asleep
    <3>2. ASSUME NEW i \in 1..Len(queue), queue[i] # p
          PROVE  \E j \in 1..Len(queue) - 1 : (left \o right)[j] = queue[i]
      <4>1. CASE i < k
        <5>1. i \in 1..Len(queue) - 1
          BY <1>1, <2>1, <4>1
        <5>2. (left \o right)[i] = queue[i]
          BY <2>5, <4>1, <5>1
        <5> QED BY <5>1, <5>2
      <4>2. CASE i > k
        <5>1. i - 1 \in 1..Len(queue) - 1 /\ ~(i - 1 < k) /\ (i - 1) + 1 = i
          BY <1>1, <2>1, <4>2
        <5>2. (left \o right)[i - 1] = queue[i]
          BY <2>5, <5>1
        <5> QED BY <5>1, <5>2
      <4>3. i < k \/ i > k
        BY <1>1, <2>1, <3>2
      <4> QED BY <4>1, <4>2, <4>3
    <3>3. Asleep(left \o right) = {(left \o right)[i] : i \in 1..Len(queue) - 1}
      BY <2>5 DEF Asleep
    <3>4. ASSUME NEW x \in Asleep(left \o right)
          PROVE  x \in Asleep(queue) \ {p}
      <4>1. PICK i \in 1..Len(queue) - 1 : x = (left \o right)[i]
        BY <3>3
      <4> QED BY <3>1, <4>1
    <3>5. ASSUME NEW x \in Asleep(queue) \ {p}
          PROVE  x \in Asleep(left \o right)
      <4>1. PICK i \in 1..Len(queue) : x = queue[i]
        BY DEF Asleep
      <4>2. PICK j \in 1..Len(queue) - 1 : (left \o right)[j] = queue[i]
        BY <3>2, <4>1
      <4> QED BY <3>3, <4>1, <4>2
    <3> QED BY <3>4, <3>5
  <2>8. queue # <<>>
    BY <1>1, <2>1, EmptySeq
  <2> QED BY <2>2, <2>5, <2>6, <2>7, <2>8 DEF Sleepers
<1> QED BY <1>2, <1>3

(* After an operation of the kernel the unit is still free or owned once,  *)
(* and a process is where it was put, or has come out of its sleep with    *)
(* the semaphore.                                                          *)
Settled(u, q, c) ==
  /\ Conserved(val', undo')
  /\ queue' \in Seq(Procs) /\ pc' \in [Procs -> Labels]
  /\ Sleepers(queue', pc') /\ NoneStranded'
  /\ \A r \in Procs :
       \/ pc'[r] = c[r] /\ undo'[r] = u[r]
       \/ c[r] = "wait" /\ pc'[r] = "construct" /\ undo'[r] = 1
  /\ \/ Owners' = Ones(u) /\ queue' = q
     \/ \E h \in Asleep(q) :
          Owners' = {h} /\ Asleep(queue') = Asleep(q) \ {h}

LEMMA SettleConserves ==
  ASSUME NEW v, NEW u, NEW q \in Seq(Procs), NEW c \in [Procs -> Labels],
         Conserved(v, u), Sleepers(q, c), Settle(v, u, q, c)
  PROVE  Settled(u, q, c)
<1>1. CASE v > 0 /\ q # <<>>
  <2> DEFINE h == Head(q)
  <2>1. /\ h \in Procs /\ c[h] = "wait" /\ Tail(q) \in Seq(Procs)
        /\ Sleepers(Tail(q), [c EXCEPT ![h] = "construct"])
        /\ Asleep(Tail(q)) = Asleep(q) \ {h} /\ h \in Asleep(q)
    BY <1>1, WithoutFirst
  <2>2. /\ val' = v - 1 /\ undo' = [u EXCEPT ![h] = u[h] + 1]
        /\ queue' = Tail(q) /\ pc' = [c EXCEPT ![h] = "construct"]
    BY <1>1 DEF Settle
  <2> HIDE DEF h
  <2>3. v = 1 /\ u \in [Procs -> {0, 1}] /\ \A r \in Procs : u[r] = 0
    BY <1>1 DEF Conserved
  <2>4. val' = 0 /\ undo' = [u EXCEPT ![h] = 1]
    <3>1. v - 1 = 0 /\ u[h] + 1 = 1
      BY <2>1, <2>3
    <3> QED BY <2>2, <3>1
  <2>5. Conserved(val', undo')
    <3>1. undo' \in [Procs -> {0, 1}] /\ \A r \in Procs : undo'[r] = 1 <=> r = h
      BY <2>1, <2>3, <2>4
    <3> QED BY <2>1, <2>4, <3>1 DEF Conserved
  <2>6. pc' \in [Procs -> Labels]
    BY <2>1, <2>2 DEF Labels
  <2>7. Owners' = {h}
    BY <2>1, <2>3, <2>4 DEF Owners
  <2>8. \A r \in Procs :
          \/ pc'[r] = c[r] /\ undo'[r] = u[r]
          \/ c[r] = "wait" /\ pc'[r] = "construct" /\ undo'[r] = 1
    BY <2>1, <2>2, <2>3, <2>4
  <2>9. NoneStranded'
    BY <2>4 DEF NoneStranded
  <2> QED BY <2>1, <2>2, <2>5, <2>6, <2>7, <2>8, <2>9 DEF Settled
<1>2. CASE ~(v > 0 /\ q # <<>>)
  <2>1. val' = v /\ undo' = u /\ queue' = q /\ pc' = c
    BY <1>2 DEF Settle
  <2>2. Owners' = Ones(u) /\ NoneStranded'
    BY <1>2, <2>1 DEF Owners, Ones, NoneStranded
  <2> QED BY <2>1, <2>2 DEF Settled
<1> QED BY <1>1, <1>2

(* Moving a process that is not asleep leaves the sleepers as they are.    *)
LEMMA AwakeMoves ==
  ASSUME queue \in Seq(Procs), NEW c \in [Procs -> Labels], Sleepers(queue, c),
         NEW p \in Procs, c[p] # "wait", NEW l \in Labels
  PROVE  Sleepers(queue, [c EXCEPT ![p] = l])
<1>1. \A i \in 1..Len(queue) : queue[i] \in Procs
  BY ElementOfSeq
<1> QED BY <1>1 DEF Sleepers

-----------------------------------------------------------------------------
(* The inductive invariant. *)

LEMMA InitInv == Created /\ Init => Inv
<1> SUFFICES ASSUME Created, Init PROVE Inv
  OBVIOUS
<1>1. TypeOK
  BY SingletonAssumption, EmptySeq DEF Init, TypeOK, Labels
<1>2. Conserved(val, undo)
  BY DEF Init, Conserved
<1>3. SleepersWait
  BY EmptySeq DEF Init, SleepersWait, Sleepers
<1>4. NoneStranded /\ Initialised /\ IdOwns /\ ObjectOwns
  BY DEF Init, NoneStranded, Initialised, IdOwns, ObjectOwns
<1> QED BY <1>1, <1>2, <1>3, <1>4 DEF Inv

(* The steps that leave the kernel alone move one process that is awake.   *)
LEMMA QuietStep ==
  ASSUME Inv, NEW p \in Procs,
         \/ GetPtrAgain(p) \/ GetPtr(p) \/ Construct(p) \/ Throw(p)
         \/ Release(p) \/ Exit(p) \/ Delete(p) \/ Start(p)
  PROVE  Inv'
<1> USE DEF Inv
<1>1. /\ UNCHANGED kernel
      /\ pc[p] # "wait"
      /\ \E l \in Labels : pc' = [pc EXCEPT ![p] = l]
  <2>1. pc = [pc EXCEPT ![p] = pc[p]] /\ pc[p] \in Labels
    BY DEF TypeOK
  <2> QED
    BY <2>1 DEF GetPtrAgain, GetPtr, Construct, Throw, Release, Exit, Delete, Start,
                Goto, Labels, Initialised
<1>2. Conserved(val, undo)' /\ NoneStranded'
  BY <1>1 DEF kernel, NoneStranded
<1>3. SleepersWait'
  <2>1. queue' = queue /\ pc \in [Procs -> Labels] /\ queue \in Seq(Procs)
    BY <1>1 DEF kernel, TypeOK
  <2>2. PICK l \in Labels : pc' = [pc EXCEPT ![p] = l]
    BY <1>1
  <2>3. Sleepers(queue, [pc EXCEPT ![p] = l])
    BY <1>1, <2>1, AwakeMoves DEF SleepersWait
  <2> QED BY <2>1, <2>2, <2>3 DEF SleepersWait
<1>4. TypeOK'
  <2>1. /\ exists' \in BOOLEAN /\ val' \in Nat /\ queue' \in Seq(Procs)
        /\ undo' \in [Procs -> Int] /\ pc' \in [Procs -> Labels]
    BY <1>1 DEF TypeOK, kernel
  <2>2. inst' \subseteq Procs /\ id' \subseteq Procs
    BY DEF TypeOK, GetPtrAgain, GetPtr, Construct, Throw, Release, Exit, Delete, Start
  <2>3. \E n \in Nat : ref' = [ref EXCEPT ![p] = n]
    <3>1. ref[p] \in Nat /\ ref = [ref EXCEPT ![p] = ref[p]]
      BY DEF TypeOK
    <3>2. CASE GetPtrAgain(p) \/ Construct(p)
      BY <3>1, <3>2 DEF GetPtrAgain, Construct
    <3>3. CASE Release(p)
      <4>1. (IF ref[p] > 0 THEN ref[p] - 1 ELSE ref[p]) \in Nat
        BY <3>1
      <4> QED BY <3>3, <4>1 DEF Release
    <3>4. CASE GetPtr(p) \/ Throw(p) \/ Exit(p) \/ Delete(p) \/ Start(p)
      BY <3>1, <3>4 DEF GetPtr, Throw, Exit, Delete, Start
    <3> QED BY <3>2, <3>3, <3>4
  <2>4. ref' \in [Procs -> Nat]
    BY <2>3 DEF TypeOK
  <2> QED BY <2>1, <2>2, <2>4 DEF TypeOK
<1>5. Initialised' /\ IdOwns' /\ ObjectOwns'
  <2> USE DEF TypeOK, Initialised, IdOwns, ObjectOwns, Conserved, kernel, Goto
  <2>1. CASE GetPtrAgain(p)
    BY <2>1 DEF GetPtrAgain
  <2>2. CASE GetPtr(p)
    BY <2>2 DEF GetPtr
  <2>3. CASE Construct(p)
    BY <2>3 DEF Construct
  <2>4. CASE Throw(p)
    BY <2>4 DEF Throw
  <2>5. CASE Release(p)
    BY <2>5 DEF Release
  <2>6. CASE Exit(p)
    BY <2>6 DEF Exit
  <2>7. CASE Delete(p)
    BY <2>7 DEF Delete
  <2>8. CASE Start(p)
    BY <2>8 DEF Start
  <2> QED BY <2>1, <2>2, <2>3, <2>4, <2>5, <2>6, <2>7, <2>8
<1> QED BY <1>2, <1>3, <1>4, <1>5

(* Who finds the semaphore taken goes to sleep, once.                      *)
LEMMA TakeStep ==
  ASSUME Inv, NEW p \in Procs, Take(p)
  PROVE  Inv'
<1> USE DEF Inv
<1>1. pc[p] = "take" /\ UNCHANGED <<exists, inst, id, ref>>
  BY DEF Take
<1>2. CASE val > 0
  <2>1. /\ val' = val - 1 /\ undo' = [undo EXCEPT ![p] = undo[p] + 1]
        /\ pc' = [pc EXCEPT ![p] = "construct"] /\ queue' = queue
    BY <1>2 DEF Take, Goto
  <2>2. val = 1 /\ \A r \in Procs : undo[r] = 0
    BY <1>2 DEF Conserved
  <2>3. val' = 0 /\ undo' = [undo EXCEPT ![p] = 1]
    <3>1. val - 1 = 0 /\ undo[p] + 1 = 1
      BY <2>2
    <3> QED BY <2>1, <3>1
  <2>4. Conserved(val, undo)'
    <3>1. undo' \in [Procs -> {0, 1}] /\ \A r \in Procs : undo'[r] = 1 <=> r = p
      BY <2>2, <2>3 DEF Conserved
    <3> QED BY <2>3, <3>1 DEF Conserved
  <2>5. SleepersWait'
    <3>1. Sleepers(queue, [pc EXCEPT ![p] = "construct"])
      BY <1>1, AwakeMoves DEF SleepersWait, TypeOK, Labels
    <3> QED BY <2>1, <3>1 DEF SleepersWait
  <2>6. TypeOK' /\ NoneStranded'
    BY <1>1, <2>1, <2>3 DEF TypeOK, Labels, NoneStranded
  <2>7. Initialised' /\ IdOwns' /\ ObjectOwns'
    BY <1>1, <2>1, <2>3
       DEF TypeOK, Initialised, IdOwns, ObjectOwns, Conserved
  <2> QED BY <2>4, <2>5, <2>6, <2>7
<1>3. CASE ~(val > 0)
  <2>1. /\ queue' = Append(queue, p) /\ pc' = [pc EXCEPT ![p] = "wait"]
        /\ UNCHANGED <<val, undo>>
    BY <1>3 DEF Take, Goto
  <2>2. /\ Append(queue, p) \in Seq(Procs)
        /\ Len(queue) \in Nat /\ Len(Append(queue, p)) = Len(queue) + 1
        /\ \A i \in 1..Len(queue) : Append(queue, p)[i] = queue[i]
        /\ Append(queue, p)[Len(queue) + 1] = p
    BY AppendProperties, LenProperties DEF TypeOK
  <2>3. \A i \in 1..Len(queue) : queue[i] \in Procs /\ pc[queue[i]] = "wait"
    BY ElementOfSeq DEF SleepersWait, Sleepers, TypeOK
  <2>4. SleepersWait'
    <3>1. ASSUME NEW i \in 1..Len(queue) + 1
          PROVE  /\ pc'[queue'[i]] = "wait"
                 /\ \A j \in 1..Len(queue) + 1 : queue'[i] = queue'[j] => i = j
      BY <1>1, <2>1, <2>2, <2>3 DEF SleepersWait, Sleepers, TypeOK
    <3> QED BY <2>1, <2>2, <3>1 DEF SleepersWait, Sleepers
  <2>5. TypeOK'
    BY <1>1, <2>1, <2>2 DEF TypeOK, Labels
  <2>6. Initialised' /\ IdOwns' /\ ObjectOwns'
    BY <1>1, <2>1 DEF TypeOK, Initialised, IdOwns, ObjectOwns
  <2>7. NoneStranded'
    BY <1>3, <2>1 DEF NoneStranded
  <2> QED BY <2>1, <2>4, <2>5, <2>6, <2>7 DEF Conserved
<1> QED BY <1>2, <1>3

(* Who gives up has left the queue and owns nothing it would post.         *)
LEMMA GiveUpStep ==
  ASSUME Inv, NEW p \in Procs, GiveUp(p)
  PROVE  Inv'
<1> USE DEF Inv
<1>1. /\ pc[p] = "wait" /\ queue' = Others(p) /\ id' = id \ {p}
      /\ pc' = [pc EXCEPT ![p] = "idle"]
      /\ UNCHANGED <<exists, val, undo, inst, ref>>
  BY DEF GiveUp, Goto
<1>2. /\ Others(p) \in Seq(Procs) /\ Sleepers(Others(p), [pc EXCEPT ![p] = "idle"])
      /\ queue = <<>> => Others(p) = <<>>
  BY WithoutOne DEF SleepersWait, TypeOK, Labels
<1>3. SleepersWait' /\ NoneStranded'
  BY <1>1, <1>2 DEF SleepersWait, NoneStranded
<1>4. TypeOK'
  BY <1>1, <1>2 DEF TypeOK, Labels
<1>5. Initialised' /\ IdOwns' /\ ObjectOwns'
  BY <1>1 DEF TypeOK, Initialised, IdOwns, ObjectOwns
<1> QED BY <1>1, <1>3, <1>4, <1>5 DEF Conserved

(* A process posts the semaphore only if m_id says so, and then owns it.   *)
LEMMA CleanupSettles ==
  ASSUME Inv, NEW p \in Procs, Cleanup(p), p \in id
  PROVE  undo[p] = 1 /\ Settled([undo EXCEPT ![p] = 0], queue, AfterPost(p))
<1> DEFINE c == AfterPost(p)
           u == [undo EXCEPT ![p] = 0]
<1>1. pc[p] \in {"cleanup", "exit"}
  BY DEF Cleanup
<1>2. undo[p] = 1 /\ val = 0
  BY <1>1 DEF Inv, IdOwns, Conserved
<1>3. Settle(1, u, queue, c)
  <2>1. val + 1 = 1 /\ undo[p] - 1 = 0
    BY <1>2
  <2>2. Settle(val + 1, [undo EXCEPT ![p] = undo[p] - 1], queue, c)
    BY DEF Cleanup
  <2> QED BY <2>1, <2>2
<1>4. Conserved(1, u)
  BY <1>2 DEF Inv, Conserved
<1>5. /\ queue \in Seq(Procs) /\ pc \in [Procs -> Labels] /\ Sleepers(queue, pc)
  BY DEF Inv, TypeOK, SleepersWait
<1>6. c \in [Procs -> Labels] /\ Sleepers(queue, c)
  <2>1. c = [pc EXCEPT ![p] = IF pc[p] = "exit" THEN "bury" ELSE "delete"]
    BY DEF AfterPost, Goto
  <2>2. pc[p] # "wait"
    BY <1>1
  <2>3. (IF pc[p] = "exit" THEN "bury" ELSE "delete") \in Labels
    BY DEF Labels
  <2> HIDE DEF c
  <2> QED BY <1>5, <2>1, <2>2, <2>3, AwakeMoves
<1> HIDE DEF c, u
<1>7. Settled(u, queue, c)
  BY ONLY <1>3, <1>4, <1>5, <1>6, SettleConserves
<1> QED BY <1>2, <1>7 DEF c, u

(* Cleanup leaves a process without the semaphore and without m_id.        *)
LEMMA CleanupStep ==
  ASSUME Inv, NEW p \in Procs, Cleanup(p)
  PROVE  Inv'
<1> USE DEF Inv
<1> DEFINE c == AfterPost(p)
<1>1. /\ pc[p] \in {"cleanup", "exit"} /\ id' = id \ {p}
      /\ UNCHANGED <<exists, inst, ref>>
  BY DEF Cleanup
<1>2. /\ c \in [Procs -> Labels] /\ c[p] \in {"delete", "bury"}
      /\ c[p] = "delete" <=> pc[p] = "cleanup"
      /\ \A r \in Procs : r # p => c[r] = pc[r]
  BY <1>1 DEF AfterPost, Goto, TypeOK, Labels
<1>3. Sleepers(queue, c)
  <2>1. c = [pc EXCEPT ![p] = IF pc[p] = "exit" THEN "bury" ELSE "delete"]
    BY DEF AfterPost, Goto
  <2> QED BY <1>1, <2>1, AwakeMoves DEF SleepersWait, TypeOK, Labels
<1> HIDE DEF c
<1>4. /\ Conserved(val', undo') /\ queue' \in Seq(Procs)
      /\ pc' \in [Procs -> Labels] /\ Sleepers(queue', pc')
      /\ NoneStranded'
      /\ \A r \in Procs \ {p} :
           \/ pc'[r] = c[r] /\ undo'[r] = undo[r]
           \/ c[r] = "wait" /\ pc'[r] = "construct" /\ undo'[r] = 1
      /\ pc'[p] = c[p]
  <2>1. CASE p \in id
    BY <1>1, <1>2, <2>1, CleanupSettles DEF Settled, c, TypeOK
  <2>2. CASE p \notin id
    <3>1. pc' = c /\ UNCHANGED <<val, undo, queue>>
      BY <2>2 DEF Cleanup, c
    <3> QED BY <1>2, <1>3, <3>1 DEF TypeOK, NoneStranded
  <2> QED BY <2>1, <2>2
<1>5. TypeOK'
  BY <1>1, <1>4 DEF TypeOK, Conserved
<1>6. Initialised'
  BY <1>1, <1>2, <1>4 DEF Initialised
<1>7. IdOwns'
  BY <1>1, <1>2, <1>4 DEF IdOwns
<1>8. ObjectOwns'
  BY <1>1, <1>2, <1>4 DEF ObjectOwns
<1> QED BY <1>4, <1>5, <1>6, <1>7, <1>8 DEF SleepersWait

(* The kernel gives back what a dead process owned, and no more.           *)
LEMMA DieSettles ==
  ASSUME Inv, NEW p \in Procs, Die(p)
  PROVE  Settled([undo EXCEPT ![p] = 0], Others(p), Goto(p, "gone"))
<1> USE DEF Inv
<1> DEFINE c == Goto(p, "gone")
           u == [undo EXCEPT ![p] = 0]
<1>1. Settle(Undone(p), u, Others(p), c)
  BY DEF Die
<1>2. c \in [Procs -> Labels] /\ Others(p) \in Seq(Procs) /\ Sleepers(Others(p), c)
  BY WithoutOne DEF SleepersWait, TypeOK, Labels, Goto
<1>3. Conserved(Undone(p), u)
  <2>1. CASE undo[p] = 0
    <3>1. Undone(p) = val /\ u = undo
      BY <2>1 DEF Undone, Conserved
    <3> QED BY <3>1
  <2>2. CASE undo[p] = 1
    <3>1. val = 0 /\ Undone(p) = 1
      BY <2>2 DEF Undone, Conserved
    <3> QED BY <2>2, <3>1 DEF Conserved
  <2> QED BY <2>1, <2>2 DEF Conserved
<1> HIDE DEF c, u
<1>4. Settled(u, Others(p), c)
  BY ONLY <1>1, <1>2, <1>3, SettleConserves
<1> QED BY <1>4 DEF c, u

LEMMA DieStep ==
  ASSUME Inv, NEW p \in Procs, Die(p)
  PROVE  Inv'
<1> USE DEF Inv
<1> DEFINE c == Goto(p, "gone")
           u == [undo EXCEPT ![p] = 0]
<1>1. /\ inst' = inst \ {p} /\ id' = id \ {p} /\ ref' = [ref EXCEPT ![p] = 0]
      /\ exists' = exists
  BY DEF Die
<1>2. /\ c[p] = "gone" /\ \A r \in Procs : r # p => c[r] = pc[r]
  BY DEF Goto, TypeOK
<1>3. \A r \in Procs : r # p => u[r] = undo[r]
  BY DEF TypeOK
<1>4. Settled(u, Others(p), c)
  BY DieSettles
<1> HIDE DEF c, u
<1>5. TypeOK'
  <2>1. /\ exists' \in BOOLEAN /\ inst' \subseteq Procs /\ id' \subseteq Procs
        /\ ref' \in [Procs -> Nat]
    BY <1>1 DEF TypeOK
  <2>2. val' \in Nat /\ undo' \in [Procs -> Int]
    BY <1>4 DEF Settled, Conserved
  <2> QED BY <1>4, <2>1, <2>2 DEF Settled, TypeOK
<1>6. Initialised'
  BY <1>1, <1>2, <1>4 DEF Settled, Initialised
<1>7. IdOwns'
  BY <1>1, <1>2, <1>3, <1>4 DEF Settled, IdOwns
<1>8. ObjectOwns'
  BY <1>1, <1>2, <1>4 DEF Settled, ObjectOwns, TypeOK
<1> QED BY <1>4, <1>5, <1>6, <1>7, <1>8 DEF Settled, SleepersWait

LEMMA NextInv == Inv /\ [Next]_vars => Inv'
<1> SUFFICES ASSUME Inv, [Next]_vars PROVE Inv'
  OBVIOUS
<1>1. CASE UNCHANGED vars
  BY <1>1 DEF vars, kernel, Inv, TypeOK, Conserved, SleepersWait, Sleepers, NoneStranded,
              Initialised, IdOwns, ObjectOwns
<1>2. ASSUME NEW p \in Procs, Step(p) PROVE Inv'
  <2>1. ~Create(p) /\ ~SetVal(p)
    BY DEF Inv, Initialised, Create, SetVal
  <2> QED
    BY <1>2, <2>1, QuietStep, TakeStep, GiveUpStep, CleanupStep, DieStep DEF Step
<1> QED BY <1>1, <1>2 DEF Next

(* The states of every set of processes have their types.                  *)
THEOREM TypeCorrect == Created /\ Spec => []TypeOK
<1>1. Inv => TypeOK
  BY DEF Inv
<1> QED BY <1>1, InitInv, NextInv, PTL DEF Spec

(* The semaphore's unit is neither lost nor doubled, whoever is killed.    *)
THEOREM Conservation == Created /\ Spec => []SemaphoreConserved
<1>1. Inv => SemaphoreConserved
  BY DEF Inv, Conserved, SemaphoreConserved, Owners
<1> QED BY <1>1, InitInv, NextInv, PTL DEF Spec

(* Whoever uses the object owns the semaphore.                             *)
THEOREM UsersOwn == Created /\ Spec => []UserOwns
<1>1. Inv => UserOwns
  BY DEF Inv, UserOwns, IdOwns, ObjectOwns, Initialised, TypeOK, Labels
<1> QED BY <1>1, InitInv, NextInv, PTL DEF Spec

(* So no two processes use the object.                                     *)
THEOREM SingleUser == Created /\ Spec => []OneUser
<1>1. Inv => UserOwns
  BY DEF Inv, UserOwns, IdOwns, ObjectOwns, Initialised, TypeOK, Labels
<1>2. Inv => OneUser
  BY <1>1 DEF Inv, TypeOK, Conserved, UserOwns, OneUser
<1> QED BY <1>2, InitInv, NextInv, PTL DEF Spec

(* The count of users is zero exactly when there is no object to use.      *)
THEOREM UsersCounted == Created /\ Spec => []CountedUsers
<1>1. Inv => CountedUsers
  BY DEF Inv, ObjectOwns, CountedUsers, TypeOK
<1> QED BY <1>1, InitInv, NextInv, PTL DEF Spec

-----------------------------------------------------------------------------
(* The refinement. *)

(* What the abstract mutex sees of a step. *)
MutexStep == [SemMutex!Next]_<<Owners, Asleep(queue)>>

(* An owner that gives the unit up, and does not sleep any more, hands it  *)
(* to a sleeper, or frees it when there is none.                           *)
LEMMA PostImplements ==
  ASSUME Inv, NEW p \in Procs, undo[p] = 1, NEW q \in Seq(Procs), NEW c,
         Asleep(q) = Asleep(queue) \ {p},
         Settled([undo EXCEPT ![p] = 0], q, c)
  PROVE  MutexStep
<1> DEFINE u == [undo EXCEPT ![p] = 0]
<1>1. Owners = {p} /\ Ones(u) = {}
  BY DEF Inv, Conserved, Owners, Ones
<1>2. /\ Conserved(val', undo') /\ NoneStranded'
      /\ \/ Owners' = Ones(u) /\ queue' = q
         \/ \E h \in Asleep(q) : Owners' = {h} /\ Asleep(queue') = Asleep(q) \ {h}
  BY DEF Settled
<1> HIDE DEF u
<1>3. CASE Owners' = Ones(u) /\ queue' = q
  <2>1. val' = 1
    BY <1>1, <1>2, <1>3 DEF Conserved, Owners
  <2>2. queue' = <<>>
    BY <1>2, <2>1 DEF NoneStranded
  <2>3. Asleep(queue') = {}
    BY <2>2 DEF Asleep
  <2>4. SemMutex!Give(p)
    BY <1>1, <1>3, <2>3 DEF SemMutex!Give
  <2> QED BY <2>4 DEF MutexStep, SemMutex!Next
<1>4. CASE \E h \in Asleep(q) : Owners' = {h} /\ Asleep(queue') = Asleep(q) \ {h}
  <2>1. PICK h \in Asleep(q) : Owners' = {h} /\ Asleep(queue') = Asleep(q) \ {h}
    BY <1>4
  <2>2. h \in Procs
    BY ElementOfSeq DEF Asleep
  <2>3. SemMutex!Hand(p, h)
    BY <1>1, <2>1 DEF SemMutex!Hand
  <2> QED BY <2>2, <2>3 DEF MutexStep, SemMutex!Next
<1> QED BY <1>2, <1>3, <1>4

(* A process takes the free unit, or asks for it while it has an owner.    *)
LEMMA TakeImplements ==
  ASSUME Inv, NEW p \in Procs, Take(p)
  PROVE  MutexStep
<1>1. CASE val > 0
  <2>1. val = 1 /\ undo' = [undo EXCEPT ![p] = undo[p] + 1] /\ queue' = queue
    BY <1>1 DEF Inv, Conserved, Take
  <2>2. queue = <<>> /\ \A r \in Procs : undo[r] = 0
    BY <2>1 DEF Inv, Conserved, NoneStranded
  <2>3. undo' = [undo EXCEPT ![p] = 1]
    <3>1. undo[p] + 1 = 1
      BY <2>2
    <3> QED BY <2>1, <3>1
  <2>4. Owners = {} /\ Owners' = {p}
    BY <2>2, <2>3 DEF Inv, Conserved, Owners
  <2>5. Asleep(queue) = {} /\ Asleep(queue') = Asleep(queue)
    BY <2>1, <2>2 DEF Asleep
  <2> QED BY <2>4, <2>5 DEF MutexStep, SemMutex!Next, SemMutex!Take
<1>2. CASE ~(val > 0)
  <2>1. undo' = undo /\ queue' = Append(queue, p)
    BY <1>2 DEF Take
  <2>2. /\ Len(queue) \in Nat /\ Len(queue') = Len(queue) + 1
        /\ \A i \in 1..Len(queue) : queue'[i] = queue[i]
        /\ queue'[Len(queue) + 1] = p
    BY <2>1, AppendProperties, LenProperties DEF Inv, TypeOK
  <2>3. Owners # {} /\ Owners' = Owners
    BY <1>2, <2>1 DEF Inv, Conserved, Owners
  <2>4. Asleep(queue') = Asleep(queue) \cup {p}
    <3>1. \A i \in 1..Len(queue') : i \in 1..Len(queue) \/ i = Len(queue) + 1
      BY <2>2
    <3>2. 1..Len(queue) \subseteq 1..Len(queue') /\ Len(queue) + 1 \in 1..Len(queue')
      BY <2>2
    <3> QED BY <2>2, <3>1, <3>2 DEF Asleep
  <2> QED BY <2>3, <2>4 DEF MutexStep, SemMutex!Next, SemMutex!Ask
<1> QED BY <1>1, <1>2

(* A process that dies without the unit only stops waiting for it: nobody  *)
(* is handed anything, because nobody slept if the unit was free.          *)
LEMMA PennilessDeath ==
  ASSUME Inv, NEW p \in Procs, Die(p), undo[p] = 0
  PROVE  undo' = undo /\ queue' = Others(p)
<1>1. Undone(p) = val /\ [undo EXCEPT ![p] = 0] = undo
  BY DEF Inv, Conserved, Undone
<1>2. Settle(val, undo, Others(p), Goto(p, "gone"))
  BY <1>1 DEF Die
<1>3. ~(val > 0 /\ Others(p) # <<>>)
  <2>1. queue \in Seq(Procs) /\ pc \in [Procs -> Labels] /\ Sleepers(queue, pc)
    BY DEF Inv, TypeOK, SleepersWait
  <2>2. queue = <<>> => Others(p) = <<>>
    BY <2>1, WithoutOne
  <2> QED BY <2>2 DEF Inv, Conserved, NoneStranded
<1> QED BY <1>2, <1>3 DEF Settle

(* Every step of the processes and the kernel is one of the mutex.         *)
LEMMA StepImplements ==
  ASSUME Inv, NEW p \in Procs, Step(p)
  PROVE  MutexStep
<1>1. /\ queue \in Seq(Procs) /\ pc \in [Procs -> Labels] /\ Sleepers(queue, pc)
  BY DEF Inv, TypeOK, SleepersWait
<1>2. /\ Others(p) \in Seq(Procs)
      /\ Asleep(Others(p)) = Asleep(queue) \ {p}
  BY <1>1, WithoutOne
<1>3. CASE UNCHANGED <<undo, queue>>
  BY <1>3 DEF MutexStep, Owners
<1>4. CASE undo' = undo /\ queue' = Others(p)
  <2>1. Owners' = Owners /\ Asleep(queue') = Asleep(queue) \ {p}
    BY <1>2, <1>4 DEF Owners
  <2> QED BY <2>1 DEF MutexStep, SemMutex!Next, SemMutex!Withdraw
<1>5. CASE Cleanup(p)
  <2>1. CASE p \in id
    <3>1. undo[p] = 1 /\ Settled([undo EXCEPT ![p] = 0], queue, AfterPost(p))
      BY <1>5, <2>1, CleanupSettles
    <3>2. Asleep(queue) = Asleep(queue) \ {p}
      BY <1>1, <1>5 DEF Cleanup, Sleepers, Asleep
    <3> QED BY <1>1, <3>1, <3>2, PostImplements
  <2>2. CASE p \notin id
    BY <1>3, <1>5, <2>2 DEF Cleanup
  <2> QED BY <2>1, <2>2
<1>6. CASE Die(p)
  <2>1. CASE undo[p] = 0
    BY <1>4, <1>6, <2>1, PennilessDeath
  <2>2. CASE undo[p] = 1
    BY <1>2, <1>6, <2>2, DieSettles, PostImplements
  <2> QED BY <2>1, <2>2 DEF Inv, Conserved
<1>7. CASE Take(p)
  BY <1>7, TakeImplements
<1>8. CASE GiveUp(p)
  BY <1>4, <1>8 DEF GiveUp
<1>9. ~Create(p) /\ ~SetVal(p)
  BY DEF Inv, Initialised, Create, SetVal
<1>10. CASE \/ GetPtrAgain(p) \/ GetPtr(p) \/ Construct(p) \/ Throw(p)
            \/ Release(p) \/ Exit(p) \/ Delete(p) \/ Start(p)
  BY <1>3, <1>10
     DEF GetPtrAgain, GetPtr, Construct, Throw, Release, Exit, Delete, Start, kernel
<1> QED BY <1>5, <1>6, <1>7, <1>8, <1>9, <1>10 DEF Step

(* The semaphore that has been initialised is a mutex between processes.   *)
THEOREM Refinement == Created /\ Spec => MutexSpec
<1>1. Init => SemMutex!Init
  BY EmptySeq DEF Init, SemMutex!Init, Owners, Asleep
<1>2. Inv /\ [Next]_vars => MutexStep
  <2> SUFFICES ASSUME Inv, [Next]_vars PROVE MutexStep
    OBVIOUS
  <2>1. CASE UNCHANGED vars
    BY <2>1 DEF vars, kernel, MutexStep, Owners
  <2>2. CASE Next
    BY <2>2, StepImplements DEF Next
  <2> QED BY <2>1, <2>2
<1> QED BY <1>1, <1>2, InitInv, NextInv, PTL DEF Spec, MutexSpec, SemMutex!Spec, MutexStep
=============================================================================
