-------------------------- MODULE QeInterruptProofs --------------------------
(***************************************************************************)
(* Proofs about QeInterrupt for every set of processes, every assignment   *)
(* of vectors to processes and modules, and every time stamp.              *)
(*                                                                         *)
(* The inductive invariant Inv adds to the properties who owns a vector    *)
(* (Ownership), that one process runs in the kernel (OneInKernel), that    *)
(* what the handler services is enabled (HandlerInv), and what a process   *)
(* may rely on at each step of a system call (StepInv).                    *)
(***************************************************************************)
EXTENDS QeInterrupt, TLAPS

Steps == {"user", "openClear", "openEnable", "releaseUnused", "timeSec",
          "timeUsec", "resetStore", "modEnable", "unregister", "set", "setEnd",
          "get", "fault"}

(* A vector belongs to a process, which has its device open, or to a       *)
(* module, which has registered a callback; both use it in the mode that   *)
(* serves interrupts.                                                      *)
Ownership ==
  /\ callback \subseteq used /\ used \subseteq mode
  /\ \A v \in Vectors : fd[v] # None => v \in used /\ v \notin callback
  /\ \A v \in async : fd[v] # None

OneInKernel == \A p \in Procs : pc[p].at \notin {"user", "fault"} <=> cpu = p

HandlerInv ==
  /\ irq.at \in {"service", "clear"} => irq.status # {} /\ irq.status \subseteq mask
  /\ irq.at = "clear" /\ Current \in fresh => Current \in late

(* The vector of a process is masked from the call that disabled it to the *)
(* one that enables it, if no other process can run in between.            *)
MaskedSteps == {"releaseUnused", "timeSec", "timeUsec", "unregister", "set"}

StepInv(p) ==
  LET at == pc[p].at
      v == pc[p].v IN
  /\ at = "openClear" => v \notin used
  /\ at = "openEnable" => v \in used
  /\ at = "releaseUnused" => fd[v] = p
  /\ at \in {"modEnable", "unregister", "set", "setEnd", "get", "fault"}
       => v \in callback
  /\ at = "unregister" => \A q \in Procs : ~Guarding(q, v)
  /\ at \in MaskedSteps => v \notin mask
  /\ at \in {"releaseUnused", "unregister"} => v \notin on
  /\ at \in {"timeSec", "timeUsec"} =>
       /\ saved[p] \subseteq used
       /\ \A w \in on \ saved[p] : \E q \in Procs : Guarding(q, w)
  /\ at = "timeUsec" => sec[p] = tv[v]
  /\ at \in {"openClear", "resetStore"} =>
       \A w \in saved[p] : fd[w] # None => w \in since

Inv ==
  /\ TypeOK /\ Ownership /\ OneInKernel /\ HandlerInv
  /\ \A p \in Procs : StepInv(p)
  /\ MaskedUnlessUsed /\ NotLeftMasked /\ NoStaleReport /\ EdgesKept
-----------------------------------------------------------------------------
(* A set of vectors that is not empty has a lowest one.  Had it none, its  *)
(* elements would all be above 0, 1, 2, 4 ... and above 31.                *)
LEMMA LowIn ==
  ASSUME NEW S, S \subseteq Vectors, S # {}
  PROVE  Low(S) \in S
<1> DEFINE Above(a) == \A v \in S : a <= v
<1>1. S \subseteq 0..31
  BY VectorAssumption
<1>2. SUFFICES ASSUME ~ \E v \in S : \A w \in S : v <= w PROVE S = {}
  BY DEF Low
<1>3. \A a \in Nat : Above(a) => Above(a + 1)
  <2>1. TAKE a \in Nat
  <2>2. HAVE Above(a)
  <2>3. a \notin S
    BY <1>2, <2>2
  <2>4. \A v \in S : v # a /\ v \in Int /\ a <= v
    BY <1>1, <2>2, <2>3
  <2> QED BY <2>4
<1>4. Above(0)
  BY <1>1
<1> HIDE DEF Above
<1>5. \A a \in Nat : Above(a) => Above(a + 2)
  BY <1>3 
<1>6. \A a \in Nat : Above(a) => Above(a + 4)
  BY <1>5
<1>7. \A a \in Nat : Above(a) => Above(a + 8)
  BY <1>6
<1>8. \A a \in Nat : Above(a) => Above(a + 16)
  BY <1>7
<1>9. Above(32)
  BY <1>4, <1>8
<1> QED BY <1>1, <1>9 DEF Above

(* A process that goes on at another step: it is where it says, the others *)
(* have not moved and are not in the kernel.                               *)
LEMMA ProcStep ==
  ASSUME Inv, NEW p \in Procs, NEW step \in Steps, NEW v \in Vectors,
         cpu \in {None, p}, GoTo(p, step, v)
  PROVE  /\ pc' \in [Procs -> [at : Steps, v : Vectors]]
         /\ cpu' \in Procs \cup {None}
         /\ OneInKernel'
         /\ pc'[p].at = step /\ pc'[p].v = v
         /\ \A q \in Procs \ {p} :
              pc'[q] = pc[q] /\ pc[q].at \in {"user", "fault"}
<1>1. pc \in [Procs -> [at : Steps, v : Vectors]]
  BY DEF Inv, TypeOK, Steps
<1>2. pc' = [pc EXCEPT ![p] = [at |-> step, v |-> v]]
  BY DEF GoTo
<1>3. cpu' = IF step \in {"user", "fault"} THEN None ELSE p
  BY DEF GoTo
<1>4. pc' \in [Procs -> [at : Steps, v : Vectors]]
  BY <1>1, <1>2
<1>5. pc'[p].at = step /\ pc'[p].v = v
  BY <1>1, <1>2
<1>6. \A q \in Procs \ {p} : pc'[q] = pc[q] /\ pc[q].at \in {"user", "fault"}
  BY <1>1, <1>2, VectorAssumption DEF Inv, OneInKernel
<1>7. OneInKernel'
  BY <1>3, <1>5, <1>6, VectorAssumption DEF OneInKernel
<1> QED BY <1>3, <1>4, <1>5, <1>6, <1>7

(* A process that is not in the kernel relies on little. *)
LEMMA OthersRely ==
  ASSUME NEW q \in Procs, pc'[q] = pc[q], pc[q].at \in {"user", "fault"},
         pc[q].at = "fault" => pc[q].v \in callback'
  PROVE  StepInv(q)'
BY DEF StepInv, MaskedSteps

(* While the handler is in the loop its current vector is one it has seen  *)
(* raised, and that vector is enabled, used, and served by its mode.       *)
LEMMA CurrentEnabled ==
  ASSUME Inv, irq.at \in {"service", "clear"}
  PROVE  /\ Current \in irq.status /\ Current \in Vectors
         /\ Current \in mask /\ Current \in used /\ Current \in mode
<1>1. irq.status \subseteq Vectors /\ irq.status # {} /\ irq.status \subseteq mask
  BY DEF Inv, TypeOK, HandlerInv
<1>2. Current \in irq.status
  BY <1>1, LowIn DEF Current
<1> QED BY <1>1, <1>2 DEF Inv, MaskedUnlessUsed, Ownership

(* The mask is a register the handler may touch, but does not change.      *)
LEMMA HandlerMask == Inv /\ Handler => mask' = mask
<1>1. SUFFICES ASSUME Inv, Service PROVE mask' = mask
  BY DEF Handler, HandlerEnter, ReadStatus, Clear
<1>2. Current \in mask
  BY <1>1, CurrentEnabled DEF Service
<1> QED BY <1>1, <1>2 DEF Service, Callback
-----------------------------------------------------------------------------
LEMMA InvInit == Init => Inv
<1>1. SUFFICES ASSUME Init PROVE Inv
  OBVIOUS
<1>2. \A p \in Procs : pc[p] \in [at : {"user"}, v : Vectors]
  BY <1>1 DEF Init
<1>3. TypeOK
  BY <1>1 DEF Init, TypeOK
<1>4. \A p \in Procs : StepInv(p)
  BY <1>2 DEF StepInv, MaskedSteps
<1>5. OneInKernel
  BY <1>1, <1>2, VectorAssumption DEF Init, OneInKernel
<1>6. Ownership /\ HandlerInv /\ MaskedUnlessUsed /\ NotLeftMasked
      /\ NoStaleReport /\ EdgesKept
  BY <1>1 DEF Init, Ownership, HandlerInv, MaskedUnlessUsed, NotLeftMasked,
              NoStaleReport, EdgesKept
<1> QED BY <1>3, <1>4, <1>5, <1>6 DEF Inv

(* An edge. *)
LEMMA EdgeInv == ASSUME Inv, NEW e \in Vectors, Edge(e) PROVE Inv'
<1>1. /\ UNCHANGED <<mask, driverVars, procVars, irq, sigio, on, since>>
      /\ latch' = latch \cup {e} /\ fresh' = fresh \cup {e}
      /\ late' = IF irq.at = "clear" /\ e = Current THEN late \cup {e} ELSE late \ {e}
  BY DEF Edge, InWindow
<1> USE <1>1 DEF driverVars, procVars
<1>2. TypeOK'
  BY DEF Inv, TypeOK
<1>3. Current' = Current
  BY DEF Current, Low
<1>4. HandlerInv'
  BY <1>3 DEF Inv, HandlerInv
<1>5. Ownership' /\ OneInKernel' /\ MaskedUnlessUsed' /\ NoStaleReport'
  BY DEF Inv, Ownership, OneInKernel, MaskedUnlessUsed, NoStaleReport
<1>6. NotLeftMasked' /\ \A p \in Procs : StepInv(p)'
  BY DEF Inv, NotLeftMasked, StepInv, Guarding, ReadingTime
<1>7. EdgesKept'
  BY DEF Inv, EdgesKept
<1> QED BY <1>2, <1>4, <1>5, <1>6, <1>7 DEF Inv

(* A step of the handler.  No process moves, so what processes rely on is  *)
(* disturbed only by what a service writes.                                *)
LEMMA HandlerKeeps ==
  ASSUME Inv, Handler
  PROVE  /\ mask' = mask /\ MaskedUnlessUsed' /\ NotLeftMasked'
         /\ Ownership' /\ OneInKernel'
         /\ UNCHANGED <<used, mode, async, callback, fd, procVars, on>>
<1>1. mask' = mask
  BY HandlerMask
<1>2. UNCHANGED <<used, mode, async, callback, fd, procVars, on>>
  BY DEF Handler, HandlerEnter, ReadStatus, Service, Clear, driverVars
<1>3. MaskedUnlessUsed' /\ NotLeftMasked' /\ Ownership' /\ OneInKernel'
  BY <1>1, <1>2 DEF Inv, MaskedUnlessUsed, NotLeftMasked, Guarding, ReadingTime,
     Ownership, OneInKernel, procVars
<1> QED BY <1>1, <1>2, <1>3

LEMMA HandlerStepInv == ASSUME Inv, Handler PROVE Inv'
<1>1. /\ mask' = mask /\ MaskedUnlessUsed' /\ NotLeftMasked'
      /\ Ownership' /\ OneInKernel'
      /\ UNCHANGED <<used, mode, async, callback, fd, cpu, pc, saved, sec, on>>
  BY HandlerKeeps DEF procVars
<1>2. irq \in [at : {"out", "loop", "service", "clear"}, status : SUBSET Vectors,
               stamp : Stamps]
  BY DEF Inv, TypeOK
<1>3. CASE HandlerEnter \/ ReadStatus
  <2>1. UNCHANGED <<signal, tv, sigio, since, latch, fresh, late>>
    BY <1>3 DEF HandlerEnter, ReadStatus, driverVars, edgeVars
  <2>2. /\ irq' \in [at : {"out", "loop", "service", "clear"},
                     status : SUBSET Vectors, stamp : Stamps]
        /\ irq'.at # "clear"
        /\ irq'.at = "service" => irq'.status # {} /\ irq'.status \subseteq mask
    <3>1. CASE HandlerEnter
      BY <3>1 DEF HandlerEnter
    <3>2. CASE ReadStatus /\ Raised = {}
      <4>1. irq' = [irq EXCEPT !.at = "out"]
        BY <3>2 DEF ReadStatus
      <4> QED BY <1>2, <4>1
    <3>3. CASE ReadStatus /\ Raised # {}
      <4>1. irq' = [irq EXCEPT !.at = "service", !.status = Raised]
        BY <3>3 DEF ReadStatus
      <4>2. Raised \subseteq mask /\ Raised \in SUBSET Vectors
        BY DEF Raised, Inv, TypeOK
      <4> QED BY <1>2, <3>3, <4>1, <4>2
    <3> QED BY <1>3, <3>1, <3>2, <3>3
  <2>3. TypeOK'
    BY <1>1, <2>1, <2>2 DEF Inv, TypeOK
  <2>4. HandlerInv'
    BY <1>1, <2>2 DEF HandlerInv
  <2>5. (\A p \in Procs : StepInv(p)') /\ NoStaleReport' /\ EdgesKept'
    BY <1>1, <2>1 DEF Inv, StepInv, Guarding, NoStaleReport, EdgesKept
  <2> QED BY <1>1, <2>3, <2>4, <2>5 DEF Inv
<1>4. CASE Service
  <2>1. /\ Current \in irq.status /\ Current \in Vectors
        /\ Current \in mask /\ Current \in mode
    BY <1>4, CurrentEnabled DEF Service
  <2>2. /\ tv' = [tv EXCEPT ![Current] = irq.stamp]
        /\ signal' = signal \cup {Current}
        /\ sigio' = IF Current \in async THEN sigio \cup {fd[Current]} ELSE sigio
        /\ since' = since \cup {Current}
        /\ fresh' = fresh \ {Current} /\ late' = late \ {Current}
        /\ latch' = latch
    BY <1>4, <2>1 DEF Service
  <2>3. /\ irq' \in [at : {"out", "loop", "service", "clear"},
                     status : SUBSET Vectors, stamp : Stamps]
        /\ irq'.at = "clear" /\ irq'.status = irq.status
    BY <1>2, <1>4 DEF Service
  <2>4. Current' = Current
    BY <2>3 DEF Current
  <2>5. TypeOK'
    <3>1. sigio' \subseteq Procs
      BY <2>1, <2>2 DEF Inv, TypeOK, Ownership
    <3>2. tv' \in [Vectors -> Stamps]
      BY <1>2, <2>1, <2>2 DEF Inv, TypeOK
    <3> QED BY <1>1, <2>1, <2>2, <2>3, <3>1, <3>2 DEF Inv, TypeOK
  <2>6. HandlerInv'
    BY <1>1, <1>4, <2>2, <2>3, <2>4 DEF Inv, HandlerInv, Service
  <2>7. ASSUME NEW p \in Procs PROVE StepInv(p)'
    <3>1. pc[p].at = "timeUsec" => tv'[pc[p].v] = tv[pc[p].v]
      BY <2>1, <2>2 DEF Inv, TypeOK, StepInv, MaskedSteps
    <3> QED BY <1>1, <2>2, <3>1 DEF Inv, StepInv, Guarding
  <2>8. NoStaleReport' /\ EdgesKept'
    BY <1>1, <2>2 DEF Inv, NoStaleReport, EdgesKept
  <2> QED BY <1>1, <2>5, <2>6, <2>7, <2>8 DEF Inv
<1>5. CASE Clear
  <2>1. Current \in irq.status /\ Current \in Vectors
    BY <1>5, CurrentEnabled DEF Clear
  <2>2. /\ latch' = latch \ {Current}
        /\ UNCHANGED <<signal, tv, sigio, since, fresh, late>>
    BY <1>5 DEF Clear, driverVars
  <2>3. /\ irq' \in [at : {"out", "loop", "service", "clear"},
                     status : SUBSET Vectors, stamp : Stamps]
        /\ irq'.at # "clear" /\ irq'.status \subseteq irq.status
        /\ irq'.at = "service" => irq'.status # {}
    BY <1>2, <1>5 DEF Clear
  <2>4. TypeOK'
    BY <1>1, <2>2, <2>3 DEF Inv, TypeOK
  <2>5. HandlerInv'
    BY <1>1, <1>5, <2>3 DEF Inv, HandlerInv, Clear
  <2>6. (\A p \in Procs : StepInv(p)') /\ NoStaleReport'
    BY <1>1, <2>2 DEF Inv, StepInv, Guarding, NoStaleReport
  <2>7. EdgesKept'
    BY <1>5, <2>2 DEF Inv, HandlerInv, EdgesKept, Clear
  <2> QED BY <1>1, <2>4, <2>5, <2>6, <2>7 DEF Inv
<1> QED BY <1>3, <1>4, <1>5 DEF Handler
-----------------------------------------------------------------------------
(* Steps of a process that change the mask, a copy of a register or what   *)
(* the owner wants, and nothing else of the driver.                        *)
LEMMA MaskStepInv ==
  ASSUME Inv, NEW p \in Procs, NEW step \in Steps, NEW v \in Vectors,
         cpu \in {None, p}, irq.at = "out", GoTo(p, step, v),
         UNCHANGED <<driverVars, edgeVars, irq, sigio, since>>,
         mask' \subseteq used, on' \subseteq Vectors,
         saved' \in [Procs -> SUBSET Vectors], sec' \in [Procs -> Stamps],
         StepInv(p)', NotLeftMasked'
  PROVE  Inv'
<1>1. /\ UNCHANGED <<signal, used, mode, async, callback, tv, fd>>
      /\ UNCHANGED <<latch, fresh, late, irq, sigio, since>>
  BY DEF driverVars, edgeVars
<1>2. /\ pc' \in [Procs -> [at : Steps, v : Vectors]]
      /\ cpu' \in Procs \cup {None} /\ OneInKernel'
      /\ \A q \in Procs \ {p} : pc'[q] = pc[q] /\ pc[q].at \in {"user", "fault"}
  BY ProcStep
<1>3. TypeOK'
  <2>1. mask' \subseteq Vectors
    BY DEF Inv, TypeOK
  <2> QED BY <1>1, <1>2, <2>1 DEF Inv, TypeOK, Steps
<1>4. ASSUME NEW q \in Procs \ {p} PROVE StepInv(q)'
  <2>1. pc[q].at = "fault" => pc[q].v \in callback'
    BY <1>1 DEF Inv, StepInv
  <2> QED BY <1>2, <2>1, OthersRely
<1>5. Ownership' /\ HandlerInv' /\ MaskedUnlessUsed' /\ NoStaleReport' /\ EdgesKept'
  BY <1>1 DEF Inv, Ownership, HandlerInv, MaskedUnlessUsed, NoStaleReport, EdgesKept
<1> QED BY <1>2, <1>3, <1>4, <1>5 DEF Inv

(* A process that neither guards a vector nor reads a time leaves every    *)
(* vector that is masked guarded by the same others.                       *)
LEMMA GuardsStay ==
  ASSUME Inv, NEW p \in Procs, cpu \in {None, p},
         pc[p].at \notin {"set", "setEnd", "get", "fault", "timeSec", "timeUsec"},
         \A q \in Procs \ {p} : pc'[q] = pc[q] /\ pc[q].at \in {"user", "fault"}
  PROVE  \A w \in on \ mask : \E q \in Procs : Guarding(q, w)'
BY DEF Inv, NotLeftMasked, Guarding, ReadingTime

(* What a call, or a step of one, starts from. *)
LEMMA Started ==
  ASSUME Inv, NEW p \in Procs
  PROVE  /\ Calls(p) => cpu \in {None, p} /\ irq.at = "out" /\ pc[p].at = "user"
         /\ \A step : At(p, step) => cpu \in {None, p} /\ irq.at = "out" /\ pc[p].at = step
         /\ pc[p].v \in Vectors
         /\ \A v \in Vectors : fd[v] = p => v \in used
         /\ \A v \in callback : v \in Vectors /\ v \in used
BY VectorAssumption DEF Calls, At, Inv, TypeOK, Ownership, Vectors

LEMMA OpenInv ==
  ASSUME Inv, NEW p \in Procs, NEW v \in Vectors,
         OpenCheck(p, v) \/ ReadTime(p, v) \/ ResetLoad(p, v) \/ ReleaseDisable(p, v)
  PROVE  Inv'
<1>1. /\ cpu \in {None, p} /\ irq.at = "out" /\ pc[p].at = "user"
      /\ \A w \in Vectors : fd[w] = p => w \in used
  BY Started DEF OpenCheck, ReadTime, ResetLoad, ReleaseDisable
<1>2. PICK step \in {"openClear", "timeSec", "resetStore", "releaseUnused"} :
        GoTo(p, step, v)
  BY DEF OpenCheck, ReadTime, ResetLoad, ReleaseDisable
<1>3. /\ step \in Steps
      /\ pc'[p].at = step /\ pc'[p].v = v
      /\ \A q \in Procs \ {p} : pc'[q] = pc[q] /\ pc[q].at \in {"user", "fault"}
  BY <1>1, <1>2, ProcStep DEF Steps
<1>4. \A w \in on \ mask : \E q \in Procs : Guarding(q, w)'
  BY <1>1, <1>3, GuardsStay
<1>5. UNCHANGED <<driverVars, edgeVars, irq, sigio, since, sec>>
  BY DEF OpenCheck, ReadTime, ResetLoad, ReleaseDisable
<1>6. /\ UNCHANGED <<signal, used, callback, tv, fd, since>>
      /\ sec' \in [Procs -> Stamps] /\ saved \in [Procs -> SUBSET Vectors]
      /\ signal \in SUBSET Vectors /\ mask \in SUBSET Vectors /\ on \subseteq Vectors
      /\ mask \subseteq used
  BY <1>5 DEF driverVars, Inv, TypeOK, MaskedUnlessUsed
<1>7. CASE OpenCheck(p, v) \/ ResetLoad(p, v)
  <2>1. /\ saved' = [saved EXCEPT ![p] = signal] /\ UNCHANGED <<mask, on>>
        /\ pc'[p].at \in {"openClear", "resetStore"}
        /\ pc'[p].at = "openClear" => v \notin used
    <3>1. CASE OpenCheck(p, v)
      BY <3>1, <1>1, <1>6, ProcStep DEF OpenCheck, Steps
    <3>2. CASE ResetLoad(p, v)
      BY <3>2, <1>1, <1>6, ProcStep DEF ResetLoad, Steps
    <3> QED BY <1>7, <3>1, <3>2
  <2>2. StepInv(p)'
    BY <1>3, <1>6, <2>1 DEF StepInv, MaskedSteps, Inv, NoStaleReport
  <2>3. NotLeftMasked'
    BY <1>4, <2>1 DEF NotLeftMasked
  <2> QED BY <1>1, <1>2, <1>3, <1>5, <1>6, <2>1, <2>2, <2>3, MaskStepInv
<1>8. CASE ReadTime(p, v)
  <2>1. /\ saved' = [saved EXCEPT ![p] = mask] /\ mask' = mask \ {v}
        /\ UNCHANGED on
        /\ pc'[p].at = "timeSec"
    BY <1>8, <1>1, <1>6, ProcStep DEF ReadTime, Disable, Steps
  <2>2. StepInv(p)'
    BY <1>3, <1>4, <1>6, <2>1 DEF StepInv, MaskedSteps, Inv
  <2>3. NotLeftMasked'
    BY <1>3, <1>4, <2>1 DEF NotLeftMasked, ReadingTime
  <2> QED BY <1>1, <1>2, <1>3, <1>5, <1>6, <2>1, <2>2, <2>3, MaskStepInv
<1>9. CASE ReleaseDisable(p, v)
  <2>1. /\ mask' = mask \ {v} /\ on' = on \ {v} /\ UNCHANGED saved
        /\ pc'[p].at = "releaseUnused" /\ fd[v] = p
    BY <1>9, <1>1, <1>6, ProcStep DEF ReleaseDisable, Disable, Steps
  <2>2. StepInv(p)'
    BY <1>3, <1>6, <2>1 DEF StepInv, MaskedSteps, Inv
  <2>3. NotLeftMasked'
    BY <1>4, <2>1 DEF NotLeftMasked
  <2> QED BY <1>1, <1>2, <1>3, <1>5, <1>6, <2>1, <2>2, <2>3, MaskStepInv
<1> QED BY <1>7, <1>8, <1>9

(* Reading a time stamp: the copies are made while nobody else runs. *)
LEMMA TimeInv ==
  ASSUME Inv, NEW p \in Procs, TimeSec(p) \/ TimeUsec(p)
  PROVE  Inv'
<1> DEFINE v == pc[p].v
<1>1. /\ cpu \in {None, p} /\ irq.at = "out" /\ v \in Vectors
      /\ pc[p].at \in {"timeSec", "timeUsec"}
  BY Started DEF TimeSec, TimeUsec
<1>2. /\ v \notin mask /\ saved[p] \subseteq used
      /\ \A w \in on \ saved[p] : \E q \in Procs : Guarding(q, w)
  BY <1>1 DEF Inv, StepInv, MaskedSteps
<1>3. /\ sec \in [Procs -> Stamps] /\ tv \in [Vectors -> Stamps] /\ on \subseteq Vectors
      /\ saved \in [Procs -> SUBSET Vectors]
      /\ mask \subseteq used
  BY DEF Inv, TypeOK, MaskedUnlessUsed
<1>4. CASE TimeSec(p)
  <2>1. /\ GoTo(p, "timeUsec", v) /\ sec' = [sec EXCEPT ![p] = tv[v]]
        /\ UNCHANGED <<mask, driverVars, saved, edgeVars, irq, sigio, on, since>>
    BY <1>4 DEF TimeSec
  <2>2. /\ pc'[p].at = "timeUsec" /\ pc'[p].v = v
        /\ \A q \in Procs \ {p} : pc'[q] = pc[q] /\ pc[q].at \in {"user", "fault"}
    BY <1>1, <2>1, ProcStep DEF Steps
  <2>3. \A w \in on \ saved[p] : \E q \in Procs : Guarding(q, w)'
    BY <1>1, <1>2, <2>2 DEF Guarding
  <2>4. StepInv(p)'
    BY <1>1, <1>2, <1>3, <2>1, <2>2, <2>3 DEF StepInv, MaskedSteps, driverVars
  <2>5. NotLeftMasked'
    BY <1>1, <2>1, <2>2 DEF Inv, NotLeftMasked, Guarding, ReadingTime
  <2>6. sec' \in [Procs -> Stamps]
    BY <1>1, <1>3, <2>1
  <2> QED BY <1>1, <1>3, <2>1, <2>4, <2>5, <2>6, MaskStepInv DEF Steps
<1>5. CASE TimeUsec(p)
  <2>1. /\ GoTo(p, "user", v) /\ mask' = saved[p]
        /\ UNCHANGED <<driverVars, saved, sec, edgeVars, irq, sigio, on, since>>
    BY <1>5 DEF TimeUsec
  <2>2. /\ pc'[p].at = "user"
        /\ \A q \in Procs \ {p} : pc'[q] = pc[q] /\ pc[q].at \in {"user", "fault"}
    BY <1>1, <2>1, ProcStep DEF Steps
  <2>3. StepInv(p)'
    BY <2>2 DEF StepInv, MaskedSteps
  <2>4. NotLeftMasked'
    BY <1>1, <1>2, <2>1, <2>2 DEF NotLeftMasked, Guarding
  <2> QED BY <1>1, <1>2, <1>3, <2>1, <2>3, <2>4, MaskStepInv DEF Steps
<1> QED BY <1>4, <1>5

(* The last step of open and of registration. *)
LEMMA EnableInv ==
  ASSUME Inv, NEW p \in Procs, OpenEnable(p) \/ ModEnable(p)
  PROVE  Inv'
<1> DEFINE v == pc[p].v
<1>1. /\ cpu \in {None, p} /\ irq.at = "out" /\ v \in Vectors
      /\ pc[p].at \in {"openEnable", "modEnable"}
  BY Started DEF OpenEnable, ModEnable
<1>2. v \in used
  BY <1>1, Started DEF Inv, StepInv
<1>3. /\ GoTo(p, "user", v) /\ mask' = mask \cup {v} /\ on' = on \cup {v}
      /\ UNCHANGED <<driverVars, saved, sec, edgeVars, irq, sigio, since>>
  BY <1>2 DEF OpenEnable, ModEnable, Enable
<1>4. /\ pc'[p].at = "user"
      /\ \A q \in Procs \ {p} : pc'[q] = pc[q] /\ pc[q].at \in {"user", "fault"}
  BY <1>1, <1>3, ProcStep DEF Steps
<1>5. StepInv(p)'
  BY <1>4 DEF StepInv, MaskedSteps
<1>6. NotLeftMasked'
  BY <1>1, <1>3, <1>4, GuardsStay DEF NotLeftMasked
<1>7. /\ mask' \subseteq used /\ on' \subseteq Vectors
      /\ saved' \in [Procs -> SUBSET Vectors] /\ sec' \in [Procs -> Stamps]
  BY <1>1, <1>2, <1>3 DEF Inv, TypeOK, MaskedUnlessUsed
<1> QED BY <1>1, <1>3, <1>5, <1>6, <1>7, MaskStepInv DEF Steps

(* A module begins to unload, or an ioctl to guard its vector. *)
LEMMA GuardInv ==
  ASSUME Inv, NEW p \in Procs, NEW v \in Vectors,
         UnregisterDisable(p, v) \/ Guard(p, v)
  PROVE  Inv'
<1>1. /\ cpu \in {None, p} /\ irq.at = "out"
      /\ pc[p].at \in {"user", "modEnable"}
  BY Started DEF UnregisterDisable, Guard
<1>2. v \in callback /\ v \in used
  BY Started DEF UnregisterDisable, Guard, At, Inv, StepInv
<1>3. PICK step \in {"unregister", "set", "get"} : GoTo(p, step, v)
  BY DEF UnregisterDisable, Guard
<1>4. /\ step \in Steps
      /\ pc'[p].at = step /\ pc'[p].v = v
      /\ \A q \in Procs \ {p} : pc'[q] = pc[q] /\ pc[q].at \in {"user", "fault"}
  BY <1>1, <1>3, ProcStep DEF Steps
<1>5. \A w \in on \ mask : \E q \in Procs : Guarding(q, w)'
  BY <1>1, <1>4, GuardsStay
<1>6. /\ mask' = mask \ {v}
      /\ UNCHANGED <<driverVars, saved, sec, edgeVars, irq, sigio, since>>
  BY <1>2 DEF UnregisterDisable, Guard, Disable
<1>7. /\ UNCHANGED <<used, callback>>
      /\ saved' \in [Procs -> SUBSET Vectors] /\ sec' \in [Procs -> Stamps]
      /\ mask' \subseteq used
  BY <1>6 DEF driverVars, Inv, TypeOK, MaskedUnlessUsed
<1>8. CASE UnregisterDisable(p, v)
  <2>1. /\ on' = on \ {v} /\ pc'[p].at = "unregister"
        /\ \A q \in Procs : ~Guarding(q, v)
    BY <1>8, <1>1, ProcStep DEF UnregisterDisable, Steps
  <2>2. \A q \in Procs : ~Guarding(q, v)'
    BY <1>4, <2>1 DEF Guarding
  <2>3. StepInv(p)'
    BY <1>2, <1>4, <1>6, <1>7, <2>1, <2>2 DEF StepInv, MaskedSteps
  <2>4. NotLeftMasked'
    BY <1>5, <1>6, <2>1 DEF NotLeftMasked
  <2>5. on' \subseteq Vectors
    BY <2>1 DEF Inv, TypeOK
  <2> QED BY <1>1, <1>3, <1>4, <1>6, <1>7, <2>3, <2>4, <2>5, MaskStepInv
<1>9. CASE Guard(p, v)
  <2>1. UNCHANGED on /\ pc'[p].at \in {"set", "get"}
    BY <1>9, <1>1, ProcStep DEF Guard, Steps
  <2>2. StepInv(p)'
    BY <1>2, <1>4, <1>6, <1>7, <2>1 DEF StepInv, MaskedSteps
  <2>3. NotLeftMasked'
    BY <1>4, <1>5, <1>6, <2>1 DEF NotLeftMasked, Guarding
  <2>4. on' \subseteq Vectors
    BY <2>1 DEF Inv, TypeOK
  <2> QED BY <1>1, <1>3, <1>4, <1>6, <1>7, <2>2, <2>3, <2>4, MaskStepInv
<1> QED BY <1>8, <1>9

(* An ioctl of a module goes on: it faults, calls mot_set_pwm or ends. *)
LEMMA GuardedInv ==
  ASSUME Inv, NEW p \in Procs,
         Fault(p) \/ FaultIn(p) \/ NestedPwm(p) \/ Unguard(p)
  PROVE  Inv'
<1> DEFINE v == pc[p].v
<1>1. /\ cpu \in {None, p} /\ irq.at = "out" /\ v \in Vectors
      /\ pc[p].at \in {"set", "setEnd", "get", "fault"}
  BY Started DEF Fault, FaultIn, NestedPwm, Unguard
<1>2. v \in callback /\ v \in used
  BY <1>1, Started DEF Inv, StepInv
<1>3. PICK step \in {"fault", "get", "setEnd", "user"} : GoTo(p, step, v)
  BY DEF Fault, FaultIn, NestedPwm, Unguard
<1>4. /\ step \in Steps
      /\ pc'[p].at = step /\ pc'[p].v = v
      /\ \A q \in Procs \ {p} : pc'[q] = pc[q] /\ pc[q].at \in {"user", "fault"}
  BY <1>1, <1>3, ProcStep DEF Steps
<1>5. UNCHANGED <<driverVars, saved, sec, edgeVars, irq, sigio, on, since>>
  BY DEF Fault, FaultIn, NestedPwm, Unguard
<1>6. /\ UNCHANGED callback /\ on' \subseteq Vectors
      /\ saved' \in [Procs -> SUBSET Vectors] /\ sec' \in [Procs -> Stamps]
      /\ mask \subseteq used
  BY <1>5 DEF driverVars, Inv, TypeOK, MaskedUnlessUsed
<1>7. StepInv(p)'
  BY <1>2, <1>4, <1>6 DEF StepInv, MaskedSteps
<1>8. \A w \in on \ mask : w # v => \E q \in Procs : Guarding(q, w)'
  BY <1>1, <1>4 DEF Inv, NotLeftMasked, Guarding, ReadingTime
<1>9. CASE Fault(p) \/ FaultIn(p)
  <2>1. UNCHANGED mask /\ pc'[p].at \in {"fault", "get"}
    <3>1. CASE Fault(p)
      BY <3>1, <1>1, ProcStep DEF Fault, Steps
    <3>2. CASE FaultIn(p)
      BY <3>2, <1>1, ProcStep DEF FaultIn, Steps
    <3> QED BY <1>9, <3>1, <3>2
  <2>2. NotLeftMasked'
    BY <1>4, <1>5, <1>8, <2>1 DEF NotLeftMasked, Guarding
  <2> QED BY <1>1, <1>3, <1>4, <1>5, <1>6, <1>7, <2>1, <2>2, MaskStepInv
<1>10. CASE NestedPwm(p) \/ Unguard(p)
  <2>1. mask' = mask \cup {v}
    BY <1>2, <1>10 DEF NestedPwm, Unguard, Enable
  <2>2. NotLeftMasked'
    BY <1>5, <1>8, <2>1 DEF NotLeftMasked
  <2>3. mask' \subseteq used
    BY <1>2, <1>6, <2>1
  <2> QED BY <1>1, <1>3, <1>4, <1>5, <1>6, <1>7, <2>2, <2>3, MaskStepInv
<1> QED BY <1>9, <1>10

(* Calls of one step: the process stays in user mode, and what the others  *)
(* rely on is not disturbed, because nobody is in the kernel.              *)
LEMMA ShortCallInv ==
  ASSUME Inv, NEW p \in Procs, NEW v \in Vectors,
         IocEnable(p, v) \/ IocDisable(p, v) \/ Fasync(p, v) \/ TakeSignal(p)
  PROVE  Inv'
<1>1. /\ cpu = None /\ irq.at = "out"
      /\ UNCHANGED <<procVars, edgeVars, irq, since>>
      /\ UNCHANGED <<signal, used, mode, callback, tv, fd>>
  BY DEF IocEnable, IocDisable, Fasync, TakeSignal, Calls, driverVars
<1>2. UNCHANGED <<cpu, pc, saved, sec, latch, fresh, late>>
  BY <1>1 DEF procVars, edgeVars
<1>3. \A q \in Procs : pc'[q] = pc[q] /\ pc[q].at \in {"user", "fault"}
  BY <1>1, <1>2, VectorAssumption DEF Inv, OneInKernel
<1>4. \A w \in on \ mask : \E q \in Procs : Guarding(q, w)'
  BY <1>3 DEF Inv, NotLeftMasked, Guarding, ReadingTime
<1>5. ASSUME NEW q \in Procs PROVE StepInv(q)'
  <2>1. pc[q].at = "fault" => pc[q].v \in callback'
    BY <1>1 DEF Inv, StepInv
  <2> QED BY <1>3, <2>1, OthersRely
<1>6. OneInKernel' /\ NoStaleReport' /\ EdgesKept' /\ HandlerInv'
  BY <1>1, <1>2 DEF Inv, OneInKernel, NoStaleReport, EdgesKept, HandlerInv
<1>7. /\ mask' \subseteq used /\ on' \subseteq Vectors /\ sigio' \subseteq Procs
      /\ async' \subseteq Vectors /\ \A w \in async' : fd[w] # None
      /\ \A w \in on' \ mask' : w \in on \ mask
  <2>1. /\ mask \subseteq used /\ on \subseteq Vectors /\ sigio \subseteq Procs
        /\ async \subseteq Vectors /\ \A w \in async : fd[w] # None
        /\ fd[v] = p => v \in used /\ fd[v] # None
    BY Started, VectorAssumption DEF Inv, TypeOK, MaskedUnlessUsed, Ownership
  <2>2. CASE IocEnable(p, v)
    BY <2>1, <2>2 DEF IocEnable, Enable, driverVars
  <2>3. CASE IocDisable(p, v)
    BY <2>1, <2>3 DEF IocDisable, Disable, driverVars
  <2>4. CASE Fasync(p, v)
    BY <2>1, <2>4 DEF Fasync
  <2>5. CASE TakeSignal(p)
    BY <2>1, <2>5 DEF TakeSignal, driverVars
  <2> QED BY <2>2, <2>3, <2>4, <2>5
<1>8. TypeOK' /\ Ownership' /\ MaskedUnlessUsed' /\ NotLeftMasked'
  <2>1. mask' \subseteq Vectors
    BY <1>7 DEF Inv, TypeOK
  <2> QED BY <1>1, <1>2, <1>4, <1>7, <2>1
          DEF Inv, TypeOK, Ownership, MaskedUnlessUsed, NotLeftMasked
<1> QED BY <1>5, <1>6, <1>8 DEF Inv

(* The vector changes hands: open and release, register and unregister;    *)
(* and the reset of a report.                                              *)
LEMMA OpenClearInv == ASSUME Inv, NEW p \in Procs, OpenClear(p) PROVE Inv'
<1> DEFINE v == pc[p].v
<1>1. /\ cpu \in {None, p} /\ irq.at = "out" /\ v \in Vectors /\ pc[p].at = "openClear"
  BY Started DEF OpenClear
<1>2. /\ v \notin used /\ v \notin callback
      /\ \A w \in saved[p] : fd[w] # None => w \in since
  BY <1>1 DEF Inv, StepInv, Ownership
<1>3. /\ signal' = saved[p] \ {v} /\ used' = used \cup {v} /\ mode' = mode \cup {v}
      /\ fd' = [fd EXCEPT ![v] = p] /\ since' = since \ {v}
      /\ GoTo(p, "openEnable", v)
      /\ UNCHANGED <<mask, async, callback, tv, saved, sec, irq, sigio, on>>
      /\ UNCHANGED <<latch, fresh, late>>
  BY DEF OpenClear, edgeVars
<1>4. /\ pc' \in [Procs -> [at : Steps, v : Vectors]]
      /\ cpu' \in Procs \cup {None} /\ OneInKernel'
      /\ pc'[p].at = "openEnable" /\ pc'[p].v = v
      /\ \A q \in Procs \ {p} : pc'[q] = pc[q] /\ pc[q].at \in {"user", "fault"}
  BY <1>1, <1>3, ProcStep DEF Steps
<1>5. fd \in [Vectors -> Procs \cup {None}] /\ saved \in [Procs -> SUBSET Vectors]
  BY DEF Inv, TypeOK
<1>6. TypeOK'
  BY <1>1, <1>3, <1>4, <1>5 DEF Inv, TypeOK, Steps
<1>7. Ownership'
  BY <1>1, <1>2, <1>3, <1>5, VectorAssumption DEF Inv, TypeOK, Ownership
<1>8. ASSUME NEW q \in Procs PROVE StepInv(q)'
  <2>1. CASE q = p
    BY <1>3, <1>4, <2>1 DEF StepInv, MaskedSteps
  <2>2. CASE q # p
    <3>1. pc[q].at = "fault" => pc[q].v \in callback'
      BY <1>3 DEF Inv, StepInv
    <3> QED BY <1>4, <2>2, <3>1, OthersRely
  <2> QED BY <2>1, <2>2
<1>9. MaskedUnlessUsed' /\ EdgesKept' /\ HandlerInv'
  BY <1>1, <1>3 DEF Inv, MaskedUnlessUsed, EdgesKept, HandlerInv
<1>10. NotLeftMasked'
  BY <1>1, <1>3, <1>4, GuardsStay DEF NotLeftMasked
<1>11. NoStaleReport'
  BY <1>1, <1>2, <1>3, <1>5 DEF NoStaleReport
<1> QED BY <1>4, <1>6, <1>7, <1>8, <1>9, <1>10, <1>11 DEF Inv

LEMMA ReleaseUnusedInv == ASSUME Inv, NEW p \in Procs, ReleaseUnused(p) PROVE Inv'
<1> DEFINE v == pc[p].v
<1>1. /\ cpu \in {None, p} /\ irq.at = "out" /\ v \in Vectors /\ pc[p].at = "releaseUnused"
  BY Started DEF ReleaseUnused
<1>2. fd[v] = p /\ v \notin mask /\ v \notin on /\ v \notin callback
  BY <1>1, VectorAssumption DEF Inv, StepInv, MaskedSteps, Ownership
<1>3. /\ used' = used \ {v} /\ async' = async \ {v}
      /\ fd' = [fd EXCEPT ![v] = None]
      /\ GoTo(p, "user", v)
      /\ UNCHANGED <<mask, signal, mode, callback, tv, saved, sec, irq, sigio, on, since>>
      /\ UNCHANGED <<latch, fresh, late>>
  BY DEF ReleaseUnused, edgeVars
<1>4. /\ pc' \in [Procs -> [at : Steps, v : Vectors]]
      /\ cpu' \in Procs \cup {None} /\ OneInKernel'
      /\ pc'[p].at = "user"
      /\ \A q \in Procs \ {p} : pc'[q] = pc[q] /\ pc[q].at \in {"user", "fault"}
  BY <1>1, <1>3, ProcStep DEF Steps
<1>5. fd \in [Vectors -> Procs \cup {None}]
  BY DEF Inv, TypeOK
<1>6. TypeOK'
  BY <1>1, <1>3, <1>4, <1>5 DEF Inv, TypeOK, Steps
<1>7. Ownership'
  BY <1>1, <1>2, <1>3, <1>5 DEF Inv, TypeOK, Ownership
<1>8. ASSUME NEW q \in Procs PROVE StepInv(q)'
  <2>1. CASE q = p
    BY <1>4, <2>1 DEF StepInv, MaskedSteps
  <2>2. CASE q # p
    <3>1. pc[q].at = "fault" => pc[q].v \in callback'
      BY <1>3 DEF Inv, StepInv
    <3> QED BY <1>4, <2>2, <3>1, OthersRely
  <2> QED BY <2>1, <2>2
<1>9. MaskedUnlessUsed' /\ EdgesKept' /\ HandlerInv'
  BY <1>1, <1>2, <1>3 DEF Inv, MaskedUnlessUsed, EdgesKept, HandlerInv
<1>10. NotLeftMasked'
  BY <1>1, <1>3, <1>4, GuardsStay DEF NotLeftMasked
<1>11. NoStaleReport'
  BY <1>1, <1>3, <1>5 DEF Inv, TypeOK, NoStaleReport
<1> QED BY <1>4, <1>6, <1>7, <1>8, <1>9, <1>10, <1>11 DEF Inv

LEMMA ResetStoreInv == ASSUME Inv, NEW p \in Procs, ResetStore(p) PROVE Inv'
<1> DEFINE v == pc[p].v
<1>1. /\ cpu \in {None, p} /\ irq.at = "out" /\ v \in Vectors /\ pc[p].at = "resetStore"
  BY Started DEF ResetStore
<1>2. \A w \in saved[p] : fd[w] # None => w \in since
  BY <1>1 DEF Inv, StepInv
<1>3. /\ signal' = saved[p] \ {v} /\ GoTo(p, "user", v)
      /\ UNCHANGED <<mask, used, mode, async, callback, tv, fd, saved, sec, irq,
                     sigio, on, since>>
      /\ UNCHANGED <<latch, fresh, late>>
  BY DEF ResetStore, edgeVars
<1>4. /\ pc' \in [Procs -> [at : Steps, v : Vectors]]
      /\ cpu' \in Procs \cup {None} /\ OneInKernel'
      /\ pc'[p].at = "user"
      /\ \A q \in Procs \ {p} : pc'[q] = pc[q] /\ pc[q].at \in {"user", "fault"}
  BY <1>1, <1>3, ProcStep DEF Steps
<1>5. TypeOK'
  BY <1>3, <1>4 DEF Inv, TypeOK, Steps
<1>6. ASSUME NEW q \in Procs PROVE StepInv(q)'
  <2>1. CASE q = p
    BY <1>4, <2>1 DEF StepInv, MaskedSteps
  <2>2. CASE q # p
    <3>1. pc[q].at = "fault" => pc[q].v \in callback'
      BY <1>3 DEF Inv, StepInv
    <3> QED BY <1>4, <2>2, <3>1, OthersRely
  <2> QED BY <2>1, <2>2
<1>7. Ownership' /\ MaskedUnlessUsed' /\ EdgesKept' /\ HandlerInv'
  BY <1>1, <1>3 DEF Inv, Ownership, MaskedUnlessUsed, EdgesKept, HandlerInv
<1>8. NotLeftMasked'
  BY <1>1, <1>3, <1>4, GuardsStay DEF NotLeftMasked
<1>9. NoStaleReport'
  BY <1>2, <1>3 DEF NoStaleReport
<1> QED BY <1>4, <1>5, <1>6, <1>7, <1>8, <1>9 DEF Inv

LEMMA RegisterInv ==
  ASSUME Inv, NEW p \in Procs, NEW v \in Vectors, Register(p, v)
  PROVE  Inv'
<1>1. /\ cpu \in {None, p} /\ irq.at = "out" /\ pc[p].at = "user"
      /\ v \in ModVectors /\ v \notin used
  BY Started DEF Register
<1>2. /\ used' = used \cup {v} /\ mode' = mode \cup {v} /\ callback' = callback \cup {v}
      /\ GoTo(p, "modEnable", v)
      /\ UNCHANGED <<mask, signal, async, tv, fd, saved, sec, irq, sigio, on, since>>
      /\ UNCHANGED <<latch, fresh, late>>
  BY DEF Register, edgeVars
<1>3. /\ pc' \in [Procs -> [at : Steps, v : Vectors]]
      /\ cpu' \in Procs \cup {None} /\ OneInKernel'
      /\ pc'[p].at = "modEnable" /\ pc'[p].v = v
      /\ \A q \in Procs \ {p} : pc'[q] = pc[q] /\ pc[q].at \in {"user", "fault"}
  BY <1>1, <1>2, ProcStep DEF Steps
<1>4. TypeOK'
  BY <1>1, <1>2, <1>3 DEF Inv, TypeOK, Steps
<1>5. Ownership'
  BY <1>1, <1>2 DEF Inv, Ownership
<1>6. ASSUME NEW q \in Procs PROVE StepInv(q)'
  <2>1. CASE q = p
    BY <1>2, <1>3, <2>1 DEF StepInv, MaskedSteps
  <2>2. CASE q # p
    <3>1. pc[q].at = "fault" => pc[q].v \in callback'
      BY <1>2 DEF Inv, StepInv
    <3> QED BY <1>3, <2>2, <3>1, OthersRely
  <2> QED BY <2>1, <2>2
<1>7. MaskedUnlessUsed' /\ NoStaleReport' /\ EdgesKept' /\ HandlerInv'
  BY <1>1, <1>2 DEF Inv, MaskedUnlessUsed, NoStaleReport, EdgesKept, HandlerInv
<1>8. NotLeftMasked'
  BY <1>1, <1>2, <1>3, GuardsStay DEF NotLeftMasked
<1> QED BY <1>3, <1>4, <1>5, <1>6, <1>7, <1>8 DEF Inv

LEMMA UnregisterInv == ASSUME Inv, NEW p \in Procs, Unregister(p) PROVE Inv'
<1> DEFINE v == pc[p].v
<1>1. /\ cpu \in {None, p} /\ irq.at = "out" /\ v \in Vectors /\ pc[p].at = "unregister"
  BY Started DEF Unregister
<1>2. /\ v \notin mask /\ v \notin on /\ v \in callback
      /\ \A q \in Procs : ~Guarding(q, v)
  BY <1>1 DEF Inv, StepInv, MaskedSteps
<1>3. /\ used' = used \ {v} /\ mode' = mode \ {v} /\ callback' = callback \ {v}
      /\ GoTo(p, "user", v)
      /\ UNCHANGED <<mask, signal, async, tv, fd, saved, sec, irq, sigio, on, since>>
      /\ UNCHANGED <<latch, fresh, late>>
  BY DEF Unregister, edgeVars
<1>4. /\ pc' \in [Procs -> [at : Steps, v : Vectors]]
      /\ cpu' \in Procs \cup {None} /\ OneInKernel'
      /\ pc'[p].at = "user"
      /\ \A q \in Procs \ {p} : pc'[q] = pc[q] /\ pc[q].at \in {"user", "fault"}
  BY <1>1, <1>3, ProcStep DEF Steps
<1>5. TypeOK'
  BY <1>3, <1>4 DEF Inv, TypeOK, Steps
<1>6. Ownership'
  <2>1. fd[v] = None
    BY <1>1, <1>2 DEF Inv, Ownership
  <2> QED BY <1>3, <2>1 DEF Inv, Ownership
<1>7. ASSUME NEW q \in Procs PROVE StepInv(q)'
  <2>1. CASE q = p
    BY <1>4, <2>1 DEF StepInv, MaskedSteps
  <2>2. CASE q # p
    <3>1. pc[q].at = "fault" => pc[q].v \in callback'
      BY <1>2, <1>3 DEF Inv, StepInv, Guarding
    <3> QED BY <1>4, <2>2, <3>1, OthersRely
  <2> QED BY <2>1, <2>2
<1>8. MaskedUnlessUsed' /\ NoStaleReport' /\ EdgesKept' /\ HandlerInv'
  BY <1>1, <1>2, <1>3 DEF Inv, MaskedUnlessUsed, NoStaleReport, EdgesKept, HandlerInv
<1>9. NotLeftMasked'
  BY <1>1, <1>3, <1>4, GuardsStay DEF NotLeftMasked
<1> QED BY <1>4, <1>5, <1>6, <1>7, <1>8, <1>9 DEF Inv
-----------------------------------------------------------------------------
LEMMA ProcessInv ==
  ASSUME Inv, NEW p \in Procs,
         \/ \E v \in Vectors : File(p, v) \/ Module(p, v)
         \/ FileStep(p) \/ ModuleStep(p) \/ TakeSignal(p)
  PROVE  Inv'
<1>1. CASE \E v \in Vectors : File(p, v)
  <2>1. PICK v \in Vectors : File(p, v)
    BY <1>1
  <2> QED BY <2>1, OpenInv, ShortCallInv DEF File
<1>2. CASE \E v \in Vectors : Module(p, v)
  <2>1. PICK v \in Vectors : Module(p, v)
    BY <1>2
  <2> QED BY <2>1, RegisterInv, GuardInv DEF Module
<1>3. CASE FileStep(p)
  BY <1>3, OpenClearInv, EnableInv, ReleaseUnusedInv, TimeInv, ResetStoreInv DEF FileStep
<1>4. CASE ModuleStep(p)
  BY <1>4, EnableInv, UnregisterInv, GuardedInv DEF ModuleStep
<1>5. CASE TakeSignal(p)
  BY <1>5, Started, ShortCallInv
<1> QED BY <1>1, <1>2, <1>3, <1>4, <1>5

LEMMA NextInv == Inv /\ [Next]_vars => Inv'
<1>1. SUFFICES ASSUME Inv, [Next]_vars PROVE Inv'
  OBVIOUS
<1>2. CASE Next
  BY <1>1, <1>2, EdgeInv, HandlerStepInv, ProcessInv DEF Next
<1>3. CASE UNCHANGED vars
  <2> USE <1>3 DEF vars, driverVars, procVars, edgeVars
  <2>1. TypeOK' /\ Ownership' /\ OneInKernel'
    BY <1>1 DEF Inv, TypeOK, Ownership, OneInKernel
  <2>2. HandlerInv' /\ \A p \in Procs : StepInv(p)'
    BY <1>1 DEF Inv, HandlerInv, Current, Low, StepInv, Guarding
  <2>3. MaskedUnlessUsed' /\ NotLeftMasked' /\ NoStaleReport' /\ EdgesKept'
    BY <1>1 DEF Inv, MaskedUnlessUsed, NotLeftMasked, Guarding, ReadingTime,
                NoStaleReport, EdgesKept
  <2> QED BY <1>1, <2>1, <2>2, <2>3 DEF Inv
<1> QED BY <1>1, <1>2, <1>3

LEMMA Invariance == Spec => []Inv
<1>1. Init => Inv
  BY InvInit
<1>2. Inv /\ [Next]_vars => Inv'
  BY NextInv
<1> QED BY <1>1, <1>2, PTL DEF Spec

(* Every variable keeps its type; only processes are ever sent SIGIO,      *)
(* because a device's readers are forgotten before it can change hands.    *)
THEOREM TypeCorrect == Spec => []TypeOK
<1>1. Inv => TypeOK
  BY DEF Inv
<1> QED BY <1>1, Invariance, PTL

(* A vector that belongs to nobody cannot interrupt. *)
THEOREM UnusedMasked == Spec => []MaskedUnlessUsed
<1>1. Inv => MaskedUnlessUsed
  BY DEF Inv
<1> QED BY <1>1, Invariance, PTL

(* A vector its owner enabled is masked only while somebody guards it or   *)
(* reads its time.                                                         *)
THEOREM EnabledUnmasked == Spec => []NotLeftMasked
<1>1. Inv => NotLeftMasked
  BY DEF Inv
<1> QED BY <1>1, Invariance, PTL

(* A time stamp is read whole, for every set of stamps. *)
THEOREM StampWhole == Spec => []TimeNotTorn
<1>1. Inv => TimeNotTorn
  BY DEF Inv, StepInv, TimeNotTorn
<1> QED BY <1>1, Invariance, PTL

(* No report of an interrupt outlives the open it was for. *)
THEOREM ReportsFresh == Spec => []NoStaleReport
<1>1. Inv => NoStaleReport
  BY DEF Inv
<1> QED BY <1>1, Invariance, PTL

(* An edge stays latched until the service that answers it, except in the  *)
(* window between an earlier service and its clearing.                     *)
THEOREM EdgesLatched == Spec => []EdgesKept
<1>1. Inv => EdgesKept
  BY DEF Inv
<1> QED BY <1>1, Invariance, PTL

(* The handler leaves the mask as it found it, so that a process may read, *)
(* change and write it back with interrupts enabled.                       *)
THEOREM MaskKept == Spec => HandlerKeepsMask
<1>1. Inv /\ [Next]_vars => [Handler => mask' = mask]_vars
  BY HandlerMask
<1> QED BY <1>1, Invariance, PTL DEF Spec, HandlerKeepsMask

(* The callback of a module does not run inside an ioctl that changes what *)
(* it reads: the vector of that ioctl is masked, and the handler services  *)
(* enabled vectors only.                                                   *)
THEOREM SettersExcludeCallback == Spec => SetterExcluded
<1>1. Inv /\ [Next]_vars =>
        [Service => \A p \in Procs : pc[p].at = "set" => pc[p].v # Current]_vars
  <2>1. SUFFICES ASSUME Inv, Service, NEW p \in Procs, pc[p].at = "set"
                 PROVE  pc[p].v # Current
    OBVIOUS
  <2>2. Current \in mask
    BY <2>1, CurrentEnabled DEF Service
  <2>3. pc[p].v \notin mask
    BY <2>1 DEF Inv, StepInv, MaskedSteps
  <2> QED BY <2>2, <2>3
<1> QED BY <1>1, Invariance, PTL DEF Spec, SetterExcluded
=============================================================================
