----------------------------- MODULE QeInterrupt -----------------------------
(***************************************************************************)
(* The FPGA interrupt controller (logic/vexpro) and the kernel driver that *)
(* shares its one interrupt line among processes, which open /dev/qeintN,  *)
(* and kernel modules, which register a callback (module/qeinterrupt).     *)
(*                                                                         *)
(* The kernel runs on one processor without preemption: a system call owns *)
(* the processor (cpu) until it returns or sleeps, the interrupt handler   *)
(* runs between any two of its steps and to its end, and edges reach the   *)
(* FPGA at any time.  A read-modify-write of the mask register is one step *)
(* because the handler leaves the mask as it found it (HandlerKeepsMask);  *)
(* one of signal_status, which the handler changes, is two.                *)
(*                                                                         *)
(* A definition named Faulty... is the one that follows it with a          *)
(* plausible bug; no specification uses it (README, "Seeded faults").      *)
(***************************************************************************)
EXTENDS Integers

CONSTANTS Procs,        \* processes
          ProcVectors,  \* vectors that processes open
          ModVectors,   \* vectors that kernel modules register
          Stamps,       \* times of day
          None          \* no process

Vectors == ProcVectors \cup ModVectors

ASSUME VectorAssumption ==
  /\ Vectors \subseteq 0..31
  /\ None \notin Procs
  /\ Stamps # {}

VARIABLES
  latch,     \* the latched edges: IntStatus of the FPGA's peripherals
  mask,      \* IntMask: the vectors that may interrupt
  signal,    \* signal_status: interrupts not yet seen by their process
  used, mode, async, callback,   \* qe_interrupt_data, as sets of vectors;
                                 \* mode is the set with QEINT_MODE_FAST
  tv,        \* the time stamp of each vector's last interrupt
  fd,        \* the process that holds each vector's device open
  irq,       \* the handler: where it is, its copy of STATUS, its time stamp
  sigio,     \* processes with a pending SIGIO
  cpu,       \* the process that runs in the kernel
  pc,        \* where each process is: a step of a system call, on a vector
  saved,     \* the copy each process took of the mask or of signal_status
  sec,       \* the first half of the time stamp each process is copying
  on,        \* history: vectors whose owner wants them enabled
  since,     \* history: vectors serviced since their process opened them
  fresh,     \* history: vectors with an edge no service has followed
  late       \* history: those of fresh whose edge came between the service
             \* and the clearing of an earlier one

driverVars == <<signal, used, mode, async, callback, tv, fd>>
procVars   == <<cpu, pc, saved, sec>>
edgeVars   == <<latch, fresh, late>>
vars == <<mask, driverVars, procVars, edgeVars, irq, sigio, on, since>>

Init ==
  /\ latch = {} /\ mask = {} /\ signal = {}
  /\ used = {} /\ mode = {} /\ async = {} /\ callback = {}
  /\ tv \in [Vectors -> Stamps]
  /\ fd = [v \in Vectors |-> None]
  /\ irq \in [at : {"out"}, status : {{}}, stamp : Stamps]
  /\ sigio = {}
  /\ cpu = None
  /\ pc \in [Procs -> [at : {"user"}, v : Vectors]]
  /\ saved = [p \in Procs |-> {}]
  /\ sec \in [Procs -> Stamps]
  /\ on = {} /\ since = {} /\ fresh = {} /\ late = {}

-----------------------------------------------------------------------------
(* The FPGA and the interrupt handler. *)

(* IntFilt: what STATUS shows and what drives the interrupt line. *)
Raised == latch \cap mask

Low(S) == CHOOSE v \in S : \A w \in S : v <= w
Current == Low(irq.status)

InWindow(v) == irq.at = "clear" /\ v = Current

(* An edge sets its latch, or finds it still set by an earlier edge. *)
Edge(v) ==
  /\ latch' = latch \cup {v}
  /\ fresh' = fresh \cup {v}
  /\ late' = IF InWindow(v) THEN late \cup {v} ELSE late \ {v}
  /\ UNCHANGED <<mask, driverVars, procVars, irq, sigio, on, since>>

(* qe_interrupt_callback takes one time stamp for all that it services. *)
HandlerEnter ==
  /\ irq.at = "out" /\ Raised # {}
  /\ \E s \in Stamps : irq' = [at |-> "loop", status |-> {}, stamp |-> s]
  /\ UNCHANGED <<mask, driverVars, procVars, edgeVars, sigio, on, since>>

FaultyReadStatus ==
  /\ irq.at = "loop"
  /\ irq' = IF Raised = {} THEN [irq EXCEPT !.at = "out"]
            ELSE [irq EXCEPT !.at = "service", !.status = {Low(Raised)}]
  /\ UNCHANGED <<mask, driverVars, procVars, edgeVars, sigio, on, since>>

ReadStatus ==
  /\ irq.at = "loop"
  /\ irq' = IF Raised = {} THEN [irq EXCEPT !.at = "out"]
            ELSE [irq EXCEPT !.at = "service", !.status = Raised]
  /\ UNCHANGED <<mask, driverVars, procVars, edgeVars, sigio, on, since>>

FaultyCallback(v) == mask' \in {mask, mask \ {v}}

(* A module's callback takes its time stamp with the mask saved and        *)
(* restored; mot_set_pwm, called from it, disables and enables its vector. *)
Callback(v) == mask' \in {mask, mask \cup {v}}

Service ==
  LET v == Current IN
  /\ irq.at = "service"
  /\ irq' = [irq EXCEPT !.at = "clear"]
  /\ IF v \in mode
     THEN /\ tv' = [tv EXCEPT ![v] = irq.stamp]
          /\ signal' = signal \cup {v}
          /\ sigio' = IF v \in async THEN sigio \cup {fd[v]} ELSE sigio
          /\ IF v \in callback THEN Callback(v) ELSE UNCHANGED mask
          /\ since' = since \cup {v}
          /\ fresh' = fresh \ {v} /\ late' = late \ {v}
     ELSE UNCHANGED <<mask, signal, tv, sigio, since, fresh, late>>
  /\ UNCHANGED <<latch, used, mode, async, callback, fd, procVars, on>>

(* The vector is serviced and its latch cleared only afterwards. *)
FaultyClear ==
  LET rest == irq.status \ {Current} IN
  /\ irq.at = "clear"
  /\ latch' = latch \ irq.status
  /\ irq' = [irq EXCEPT !.at = IF rest = {} THEN "loop" ELSE "service",
                        !.status = rest]
  /\ UNCHANGED <<mask, driverVars, procVars, fresh, late, sigio, on, since>>

Clear ==
  LET rest == irq.status \ {Current} IN
  /\ irq.at = "clear"
  /\ latch' = latch \ {Current}
  /\ irq' = [irq EXCEPT !.at = IF rest = {} THEN "loop" ELSE "service",
                        !.status = rest]
  /\ UNCHANGED <<mask, driverVars, procVars, fresh, late, sigio, on, since>>

Handler == HandlerEnter \/ ReadStatus \/ Service \/ Clear

-----------------------------------------------------------------------------
(* How a process moves.  p calls the driver from user mode, continues a    *)
(* call it is executing, and goes on at another step of it, in user mode   *)
(* or asleep.                                                              *)
Calls(p) == cpu = None /\ irq.at = "out" /\ pc[p].at = "user"
At(p, step) == cpu = p /\ irq.at = "out" /\ pc[p].at = step

GoTo(p, step, v) ==
  /\ pc' = [pc EXCEPT ![p] = [at |-> step, v |-> v]]
  /\ cpu' = IF step \in {"user", "fault"} THEN None ELSE p

(* qe_interrupt_enable and qe_interrupt_disable *)
Enable(v)  == mask' = IF v \in used THEN mask \cup {v} ELSE mask
Disable(v) == mask' = IF v \in used THEN mask \ {v} ELSE mask

(* open: it fails with -EBUSY on a used vector. *)
OpenCheck(p, v) ==
  /\ Calls(p) /\ v \in ProcVectors \ used
  /\ saved' = [saved EXCEPT ![p] = signal]
  /\ GoTo(p, "openClear", v)
  /\ UNCHANGED <<mask, driverVars, sec, edgeVars, irq, sigio, on, since>>

FaultyOpenClear(p) ==
  LET v == pc[p].v IN
  /\ At(p, "openClear")
  /\ used' = used \cup {v} /\ mode' = mode \cup {v}
  /\ fd' = [fd EXCEPT ![v] = p]
  /\ since' = since \ {v}
  /\ GoTo(p, "openEnable", v)
  /\ UNCHANGED <<mask, signal, async, callback, tv, saved, sec, edgeVars, irq,
                 sigio, on>>

OpenClear(p) ==
  LET v == pc[p].v IN
  /\ At(p, "openClear")
  /\ signal' = saved[p] \ {v}
  /\ used' = used \cup {v} /\ mode' = mode \cup {v}
  /\ fd' = [fd EXCEPT ![v] = p]
  /\ since' = since \ {v}
  /\ GoTo(p, "openEnable", v)
  /\ UNCHANGED <<mask, async, callback, tv, saved, sec, edgeVars, irq, sigio,
                 on>>

OpenEnable(p) ==
  LET v == pc[p].v IN
  /\ At(p, "openEnable")
  /\ Enable(v) /\ on' = on \cup {v}
  /\ GoTo(p, "user", v)
  /\ UNCHANGED <<driverVars, saved, sec, edgeVars, irq, sigio, since>>

FaultyReleaseDisable(p, v) ==
  /\ Calls(p) /\ fd[v] = p
  /\ used' = used \ {v} /\ on' = on \ {v}
  /\ GoTo(p, "releaseUnused", v)
  /\ UNCHANGED <<mask, signal, mode, async, callback, tv, fd, saved, sec,
                 edgeVars, irq, sigio, since>>

(* release: the last close of the device.  The mode stays what it was. *)
ReleaseDisable(p, v) ==
  /\ Calls(p) /\ fd[v] = p
  /\ Disable(v) /\ on' = on \ {v}
  /\ GoTo(p, "releaseUnused", v)
  /\ UNCHANGED <<driverVars, saved, sec, edgeVars, irq, sigio, since>>

FaultyReleaseUnused(p) ==
  LET v == pc[p].v IN
  /\ At(p, "releaseUnused")
  /\ used' = used \ {v}
  /\ fd' = [fd EXCEPT ![v] = None]
  /\ GoTo(p, "user", v)
  /\ UNCHANGED <<mask, signal, mode, async, callback, tv, saved, sec, edgeVars,
                 irq, sigio, on, since>>

ReleaseUnused(p) ==
  LET v == pc[p].v IN
  /\ At(p, "releaseUnused")
  /\ used' = used \ {v} /\ async' = async \ {v}
  /\ fd' = [fd EXCEPT ![v] = None]
  /\ GoTo(p, "user", v)
  /\ UNCHANGED <<mask, signal, mode, callback, tv, saved, sec, edgeVars, irq,
                 sigio, on, since>>

(* fcntl with FASYNC *)
Fasync(p, v) ==
  /\ Calls(p) /\ fd[v] = p
  /\ async' = async \cup {v}
  /\ UNCHANGED <<mask, signal, used, mode, callback, tv, fd, procVars, edgeVars,
                 irq, sigio, on, since>>

(* read: qe_interrupt_time saves the mask, disables the vector, copies the *)
(* two halves of its time stamp and restores the whole mask.               *)
FaultyTimeSave(p, v) ==
  /\ Calls(p) /\ fd[v] = p
  /\ Disable(v)
  /\ saved' = [saved EXCEPT ![p] = mask']
  /\ GoTo(p, "timeSec", v)
  /\ UNCHANGED <<driverVars, sec, edgeVars, irq, sigio, on, since>>

FaultyTimeCopy(p, v) ==
  /\ Calls(p) /\ fd[v] = p
  /\ saved' = [saved EXCEPT ![p] = mask]
  /\ GoTo(p, "timeSec", v)
  /\ UNCHANGED <<mask, driverVars, sec, edgeVars, irq, sigio, on, since>>

ReadTime(p, v) ==
  /\ Calls(p) /\ fd[v] = p
  /\ saved' = [saved EXCEPT ![p] = mask]
  /\ Disable(v)
  /\ GoTo(p, "timeSec", v)
  /\ UNCHANGED <<driverVars, sec, edgeVars, irq, sigio, on, since>>

ReadingTime(p, v) == pc[p].at \in {"timeSec", "timeUsec"} /\ pc[p].v = v

TimeSec(p) ==
  LET v == pc[p].v IN
  /\ At(p, "timeSec")
  /\ sec' = [sec EXCEPT ![p] = tv[v]]
  /\ GoTo(p, "timeUsec", v)
  /\ UNCHANGED <<mask, driverVars, saved, edgeVars, irq, sigio, on, since>>

TimeUsec(p) ==
  /\ At(p, "timeUsec")
  /\ mask' = saved[p]
  /\ GoTo(p, "user", pc[p].v)
  /\ UNCHANGED <<driverVars, saved, sec, edgeVars, irq, sigio, on, since>>

(* QEINT_IOC_RESET_STATUS, QEINT_IOC_ENABLE, QEINT_IOC_DISABLE *)
ResetLoad(p, v) ==
  /\ Calls(p) /\ fd[v] = p
  /\ saved' = [saved EXCEPT ![p] = signal]
  /\ GoTo(p, "resetStore", v)
  /\ UNCHANGED <<mask, driverVars, sec, edgeVars, irq, sigio, on, since>>

ResetStore(p) ==
  /\ At(p, "resetStore")
  /\ signal' = saved[p] \ {pc[p].v}
  /\ GoTo(p, "user", pc[p].v)
  /\ UNCHANGED <<mask, used, mode, async, callback, tv, fd, saved, sec, edgeVars,
                 irq, sigio, on, since>>

IocEnable(p, v) ==
  /\ Calls(p) /\ fd[v] = p
  /\ Enable(v) /\ on' = on \cup {v}
  /\ UNCHANGED <<driverVars, procVars, edgeVars, irq, sigio, since>>

IocDisable(p, v) ==
  /\ Calls(p) /\ fd[v] = p
  /\ Disable(v) /\ on' = on \ {v}
  /\ UNCHANGED <<driverVars, procVars, edgeVars, irq, sigio, since>>

(* A SIGIO reaches its process in user mode. *)
TakeSignal(p) ==
  /\ p \in sigio /\ Calls(p)
  /\ sigio' = sigio \ {p}
  /\ UNCHANGED <<mask, driverVars, procVars, edgeVars, irq, on, since>>

-----------------------------------------------------------------------------
(* A kernel module: it registers its vector when it is loaded, and guards  *)
(* every ioctl that shares state with its callback by disabling the vector *)
(* (module/qemotor).  An ioctl that only reads copies its result to user   *)
(* memory with the vector disabled, and that copy may fault and sleep.     *)

Register(p, v) ==
  /\ Calls(p) /\ v \in ModVectors \ used
  /\ used' = used \cup {v} /\ mode' = mode \cup {v}
  /\ callback' = callback \cup {v}
  /\ GoTo(p, "modEnable", v)
  /\ UNCHANGED <<mask, signal, async, tv, fd, saved, sec, edgeVars, irq, sigio,
                 on, since>>

ModEnable(p) ==
  LET v == pc[p].v IN
  /\ At(p, "modEnable")
  /\ Enable(v) /\ on' = on \cup {v}
  /\ GoTo(p, "user", v)
  /\ UNCHANGED <<driverVars, saved, sec, edgeVars, irq, sigio, since>>

Guarding(p, v) == pc[p].at \in {"set", "setEnd", "get", "fault"} /\ pc[p].v = v

(* Unloading, when nothing uses the module, or after a failure to load. *)
UnregisterDisable(p, v) ==
  /\ \/ Calls(p) /\ v \in callback
     \/ At(p, "modEnable") /\ v = pc[p].v
  /\ \A q \in Procs : ~Guarding(q, v)
  /\ Disable(v) /\ on' = on \ {v}
  /\ GoTo(p, "unregister", v)
  /\ UNCHANGED <<driverVars, saved, sec, edgeVars, irq, sigio, since>>

Unregister(p) ==
  LET v == pc[p].v IN
  /\ At(p, "unregister")
  /\ used' = used \ {v} /\ mode' = mode \ {v}
  /\ callback' = callback \ {v}
  /\ GoTo(p, "user", v)
  /\ UNCHANGED <<mask, signal, async, tv, fd, saved, sec, edgeVars, irq, sigio,
                 on, since>>

Guard(p, v) ==
  /\ Calls(p) /\ v \in callback \cap on
  /\ Disable(v)
  /\ \E step \in {"set", "get"} : GoTo(p, step, v)
  /\ UNCHANGED <<driverVars, saved, sec, edgeVars, irq, sigio, on, since>>

Fault(p) ==
  /\ At(p, "get")
  /\ GoTo(p, "fault", pc[p].v)
  /\ UNCHANGED <<mask, driverVars, saved, sec, edgeVars, irq, sigio, on, since>>

FaultIn(p) ==
  /\ cpu = None /\ irq.at = "out" /\ pc[p].at = "fault"
  /\ GoTo(p, "get", pc[p].v)
  /\ UNCHANGED <<mask, driverVars, saved, sec, edgeVars, irq, sigio, on, since>>

FaultyNestedPwm(p) ==
  /\ At(p, "set")
  /\ Enable(pc[p].v)
  /\ UNCHANGED <<driverVars, procVars, edgeVars, irq, sigio, on, since>>

(* Disabling does not nest: mot_set_pwm, the last call of mot_stop, enables *)
(* the vector that mot_stop disabled.                                      *)
NestedPwm(p) ==
  /\ At(p, "set")
  /\ Enable(pc[p].v)
  /\ GoTo(p, "setEnd", pc[p].v)
  /\ UNCHANGED <<driverVars, saved, sec, edgeVars, irq, sigio, on, since>>

Unguard(p) ==
  /\ At(p, "set") \/ At(p, "setEnd") \/ At(p, "get")
  /\ Enable(pc[p].v)
  /\ GoTo(p, "user", pc[p].v)
  /\ UNCHANGED <<driverVars, saved, sec, edgeVars, irq, sigio, on, since>>

-----------------------------------------------------------------------------
File(p, v) ==
  \/ OpenCheck(p, v) \/ ReleaseDisable(p, v) \/ Fasync(p, v) \/ ReadTime(p, v)
  \/ ResetLoad(p, v) \/ IocEnable(p, v) \/ IocDisable(p, v)

FileStep(p) ==
  \/ OpenClear(p) \/ OpenEnable(p) \/ ReleaseUnused(p)
  \/ TimeSec(p) \/ TimeUsec(p) \/ ResetStore(p)

Module(p, v) == Register(p, v) \/ UnregisterDisable(p, v) \/ Guard(p, v)

ModuleStep(p) ==
  \/ ModEnable(p) \/ Unregister(p)
  \/ Fault(p) \/ FaultIn(p) \/ NestedPwm(p) \/ Unguard(p)

Next ==
  \/ \E v \in Vectors : Edge(v)
  \/ Handler
  \/ \E p \in Procs :
       \/ \E v \in Vectors : File(p, v) \/ Module(p, v)
       \/ FileStep(p) \/ ModuleStep(p) \/ TakeSignal(p)

Spec == Init /\ [][Next]_vars

(* The processor takes a raised interrupt and executes its handler. *)
FairSpec == Spec /\ WF_vars(Handler)
-----------------------------------------------------------------------------
(* Types.  SIGIO is sent to processes only: the list of a device's         *)
(* asynchronous readers is emptied before the vector can go to a module.   *)
TypeOK ==
  /\ latch \subseteq Vectors /\ mask \subseteq Vectors
  /\ signal \subseteq Vectors /\ used \subseteq Vectors
  /\ mode \subseteq Vectors /\ async \subseteq Vectors
  /\ callback \subseteq ModVectors
  /\ tv \in [Vectors -> Stamps]
  /\ fd \in [Vectors -> Procs \cup {None}]
  /\ irq \in [at : {"out", "loop", "service", "clear"},
              status : SUBSET Vectors, stamp : Stamps]
  /\ sigio \subseteq Procs /\ cpu \in Procs \cup {None}
  /\ pc \in [Procs -> [at : {"user", "openClear", "openEnable", "releaseUnused",
                            "timeSec", "timeUsec", "resetStore", "modEnable",
                            "unregister", "set", "setEnd", "get", "fault"},
                      v : Vectors]]
  /\ saved \in [Procs -> SUBSET Vectors] /\ sec \in [Procs -> Stamps]
  /\ on \subseteq Vectors /\ since \subseteq Vectors
  /\ fresh \subseteq Vectors /\ late \subseteq fresh

(* A vector nobody owns cannot interrupt: whatever order a device or a     *)
(* module lets go of it in, and although qe_interrupt_time writes back a   *)
(* copy of the whole mask.                                                 *)
MaskedUnlessUsed == mask \subseteq used

(* Disable and enable do not nest and the mask is saved and restored as a  *)
(* whole; still no vector whose owner enabled it stays masked once nobody  *)
(* guards it or reads its time.                                            *)
NotLeftMasked ==
  \A v \in on \ mask : \E p \in Procs :
    Guarding(p, v) \/ ReadingTime(p, v)

(* The two halves of the time stamp that read returns are of one interrupt.*)
TimeNotTorn == \A p \in Procs : pc[p].at = "timeUsec" => sec[p] = tv[pc[p].v]

(* A process is not told of interrupts from before it opened the device,   *)
(* although signal_status is written back from copies.                     *)
NoStaleReport == \A v \in signal : fd[v] # None => v \in since

(* The handler leaves the mask as it found it: this is what makes a        *)
(* process's read-modify-write of the mask one step.                       *)
HandlerKeepsMask == [][Handler => mask' = mask]_vars

(* The callback of a module never runs inside an ioctl that changes what   *)
(* the callback reads.  QeMotor's atomic ioctls rest on this.              *)
SetterExcluded ==
  [][Service => \A p \in Procs : pc[p].at = "set" => pc[p].v # Current]_vars

(* An edge whose service is still owed stays latched, unless it came       *)
(* between the service and the clearing of an earlier edge.                *)
EdgesKept == fresh \ late \subseteq latch

(* An edge on an enabled vector is serviced, even while others keep        *)
(* arriving, or its vector is disabled.                                    *)
EdgeServiced ==
  \A v \in Vectors : v \in mask /\ v \in fresh \ late
                     ~> v \notin mask \/ v \notin fresh

(* The documentation of CQEGpioInt::RegisterCallback: the callback is      *)
(* called when an interrupt event occurs, so no edge is forgotten before a *)
(* service that follows it.                                                *)
EveryEdgeKept == fresh \subseteq latch

(* The comments of the handler and of CQEGpioInt::SigHandler: signal_status *)
(* tells a process whether an interrupt has occurred on its vector, so only *)
(* an open or a reset of that vector withdraws it.                         *)
SignalKept ==
  [][\A v \in signal \ signal' : \E p \in Procs :
       pc[p].v = v /\ pc[p].at \in {"openClear", "resetStore"}]_vars
=============================================================================
