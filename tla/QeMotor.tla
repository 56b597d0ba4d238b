------------------------------- MODULE QeMotor -------------------------------
(***************************************************************************)
(* One axis of the kernel motor driver (module/qemotor/motor.c, main.c).   *)
(*                                                                         *)
(* Three kinds of actor share the state of an axis:                        *)
(*   - the FPGA interrupt, whose callback runs mot_periodic (Tick);        *)
(*   - threads inside write(2) and read(2), which move waypoints and       *)
(*     positions through two kfifos and sleep on ONE wait queue;           *)
(*   - threads issuing ioctls, and open and close of the device.           *)
(* The kernel is built for one processor without preemption, so a system   *)
(* call runs atomically with respect to other system calls between two     *)
(* points at which it can sleep; the interrupt comes between any two       *)
(* steps that do not mask it.  Queues are counted in words of sizeof(long) *)
(* bytes, the unit every function of motor.c rounds to.  The other axes of *)
(* the driver touch this one only through the two queue sizes, which are   *)
(* globals.                                                                *)
(*                                                                         *)
(* A definition named Faulty... is the one that follows it with a          *)
(* plausible bug; no specification uses it (README, "Seeded faults").      *)
(***************************************************************************)
EXTENDS Integers, Sequences

CONSTANTS Writers,    \* threads that call write(2) on the axis
          Readers,    \* threads that call read(2) on the axis
          Pos,        \* axis positions
          PidOut,     \* what the PID law may compute, before clamping
          UserPwm,    \* arguments of SetPWM
          Counts,     \* lengths of write(2) and read(2) calls, in words
          Sizes,      \* queue sizes, in words, that programs configure
          Cap,        \* MOT_QUEUE_SIZE, the physical kfifo, in words
          TrajTimer,  \* MOT_TRAJ_TIMER
          MaxPwm      \* MOT_MAX_PWM

ASSUME MotorAssumption ==
  /\ Writers \cap Readers = {}
  /\ Pos # {}
  /\ PidOut \subseteq Int /\ PidOut # {}
  /\ UserPwm \subseteq Int
  /\ Counts \subseteq Nat \ {0}
  /\ Sizes \subseteq Nat \ {0} /\ Sizes # {}
  /\ Cap \in Nat \ {0}
  /\ TrajTimer \in Nat
  /\ MaxPwm \in Nat \ {0}

VARIABLES
  dev,         \* qe_motor_data.used and the progress of open and release
  wq,          \* write_queue: waypoints not yet consumed
  rlen,        \* number of positions in read_queue
  wsize,       \* mot_write_queue_size, in words
  rsize,       \* mot_read_queue_size, in words
  flushed,     \* flushed_write
  hold, trajectory, timer,
  position, desired,
  pidState,    \* error_previous or error_integral may differ from 0
  pwm,         \* mot_axis_data.pwm: the controller's last command
  reg,         \* the PWM control register, as a signed value
  pc,          \* where each thread is inside read(2) or write(2)
  left,        \* lcount: words its call still has to move
  chunk,       \* tcount: words of its current chunk
  flushSeen,   \* history: the queue was flushed while its write was blocked
  regBy        \* history: who wrote the PWM register last: the driver, or the
               \* user with SetPWM ("override" on an axis under control)

queueVars  == <<wq, rlen, wsize, rsize, flushed>>
servoVars  == <<hold, trajectory, timer, position, desired, pidState>>
outputVars == <<pwm, reg, regBy>>
threadVars == <<pc, left, chunk, flushSeen>>
vars == <<dev, queueVars, servoVars, outputVars, threadVars>>

Procs == Writers \cup Readers

Used == dev \in {"open", "releaseHold", "releaseQueues"}

Smaller(a, b) == IF a <= b THEN a ELSE b

(* mot_set_pwm: the magnitude is clamped, the sign is a bit of its own. *)
Clamp(v) == IF v > MaxPwm THEN MaxPwm
            ELSE IF v < -MaxPwm THEN -MaxPwm ELSE v

SetReg(v, who) == reg' = Clamp(v) /\ regBy' = who

(* mot_axis_reset, given the values hold and trajectory have when it runs. *)
AxisReset(h, t) == pidState' = (IF h \/ t THEN pidState ELSE FALSE)

(* wake_up_interruptible: every sleeper, reader or writer, is made runnable. *)
Wake == pc' = [p \in Procs |-> IF pc[p] = "sleep" THEN "woken" ELSE pc[p]]

(* The conditions of the two wait_event_interruptible calls.  The first is *)
(* computed in unsigned arithmetic: a queue longer than its size wraps.    *)
Room(c) == Len(wq) > wsize \/ wsize - Len(wq) >= c
Data(c) == rlen >= c

Init ==
  /\ dev = "closed"
  /\ wq = <<>> /\ rlen = 0
  /\ wsize \in Sizes /\ rsize \in Sizes
  /\ flushed = FALSE
  /\ hold = FALSE /\ trajectory = FALSE /\ timer = 0
  /\ position \in Pos /\ desired = position
  /\ pidState = FALSE
  /\ pwm = 0 /\ reg = 0 /\ regBy = "driver"
  /\ pc = [p \in Procs |-> "idle"]
  /\ left = [p \in Procs |-> 0]
  /\ chunk = [p \in Procs |-> 0]
  /\ flushSeen = [w \in Writers |-> FALSE]

-----------------------------------------------------------------------------
(* The control interrupt: mot_periodic. *)

Underrun == ~(Used /\ wq # <<>>)
FaultyExpires == Underrun /\ trajectory /\ timer > TrajTimer
Expires  == Underrun /\ trajectory /\ timer >= TrajTimer

FaultyHandleWrite ==
  \/ /\ ~Underrun
     /\ desired' = Head(wq) /\ wq' = Tail(wq)
     /\ trajectory' = TRUE
     /\ UNCHANGED timer
  \/ /\ Underrun
     /\ trajectory' = (trajectory /\ ~Expires)
     /\ timer' = 0
     /\ UNCHANGED <<wq, desired>>

HandleWrite ==
  \/ /\ ~Underrun
     /\ desired' = Head(wq) /\ wq' = Tail(wq)
     /\ trajectory' = TRUE
     /\ UNCHANGED timer
  \/ /\ Underrun
     /\ trajectory' = (trajectory /\ ~Expires)
     /\ timer' = IF Expires THEN 0 ELSE IF trajectory THEN timer + 1 ELSE timer
     /\ UNCHANGED <<wq, desired>>

FaultyWakeForSpace == ~Underrun /\ (Len(wq) > wsize \/ 2 * Len(wq) < wsize)
WakeForSpace == ~Underrun /\ (Len(wq) > wsize \/ 2 * Len(wq) <= wsize)

(* Old positions are tossed until there is room for the new one. *)
HandleRead ==
  rlen' = IF Used THEN Smaller(Smaller(rlen, rsize - 1) + 1, Cap) ELSE rlen

FaultyWakeForData == Used /\ rlen' >= rsize
WakeForData == Used /\ 2 * rlen' >= rsize

FaultyHandlePid(out) ==
  IF hold \/ trajectory'
  THEN pidState' = TRUE /\ pwm' = out /\ SetReg(out, "driver")
  ELSE /\ pidState' = (pidState /\ ~Expires)
       /\ pwm' = 0
       /\ UNCHANGED <<reg, regBy>>

HandlePid(out) ==
  IF hold \/ trajectory'
  THEN pidState' = TRUE /\ pwm' = out /\ SetReg(out, "driver")
  ELSE /\ pidState' = (pidState /\ ~Expires)
       /\ pwm' = 0
       /\ IF pwm # 0 THEN SetReg(0, "driver") ELSE UNCHANGED <<reg, regBy>>

Tick ==
  /\ position' \in Pos
  /\ HandleWrite
  /\ HandleRead
  /\ \E out \in PidOut : HandlePid(out)
  /\ IF WakeForSpace \/ WakeForData THEN Wake ELSE UNCHANGED pc
  /\ UNCHANGED <<dev, wsize, rsize, flushed, hold, left, chunk, flushSeen>>

-----------------------------------------------------------------------------
(* write(2): qe_motor_write cuts the call into chunks of at most the queue *)
(* size and hands each to mot_axis_write.                                  *)

StartCall(p, size, n) ==
  /\ dev = "open"
  /\ pc[p] = "idle"
  /\ pc' = [pc EXCEPT ![p] = "top"]
  /\ left' = [left EXCEPT ![p] = n]
  /\ chunk' = [chunk EXCEPT ![p] = Smaller(n, size)]
  /\ flushSeen' = [flushSeen EXCEPT ![p] = FALSE]
  /\ UNCHANGED <<dev, queueVars, servoVars, outputVars>>

NextChunk(p, size) ==
  LET rest == left[p] - chunk[p] IN
  /\ left' = [left EXCEPT ![p] = rest]
  /\ chunk' = [chunk EXCEPT ![p] = Smaller(rest, size)]
  /\ pc' = [pc EXCEPT ![p] = IF rest = 0 THEN "idle" ELSE "top"]

Sleep(p) == pc' = [pc EXCEPT ![p] = "sleep"] /\ UNCHANGED <<left, chunk>>

(* kfifo_put stores what fits and the caller ignores how much that was. *)
PutChunk(w) ==
  /\ \E ws \in [1..Smaller(chunk[w], Cap - Len(wq)) -> Pos] : wq' = wq \o ws
  /\ NextChunk(w, wsize)

Write(w) == \E n \in Counts : StartCall(w, wsize, n)

(* Enter mot_axis_write: drop a residual flag, then go on or go to sleep. *)
AxisWrite(w) ==
  /\ pc[w] = "top"
  /\ flushed' = FALSE
  /\ IF Room(chunk[w]) THEN PutChunk(w) ELSE Sleep(w) /\ UNCHANGED wq
  /\ UNCHANGED <<dev, rlen, wsize, rsize, servoVars, outputVars, flushSeen>>

(* A woken writer tests its condition again; a flush aborts the chunk. *)
ResumeWrite(w) ==
  /\ pc[w] = "woken"
  /\ IF ~Room(chunk[w]) THEN Sleep(w) /\ UNCHANGED <<wq, flushed>>
     ELSE IF flushed THEN /\ flushed' = FALSE
                          /\ NextChunk(w, wsize)
                          /\ UNCHANGED wq
     ELSE PutChunk(w) /\ UNCHANGED flushed
  /\ UNCHANGED <<dev, rlen, wsize, rsize, servoVars, outputVars, flushSeen>>

(* A signal ends a wait whose condition is still false with -ERESTARTSYS;  *)
(* a restarted call is a new call of the same length.                      *)
Signal(p, ready) ==
  /\ pc[p] = "sleep"
  /\ IF ready THEN pc' = [pc EXCEPT ![p] = "woken"] /\ UNCHANGED <<left, chunk>>
     ELSE /\ pc' = [pc EXCEPT ![p] = "idle"]
          /\ left' = [left EXCEPT ![p] = 0]
          /\ chunk' = [chunk EXCEPT ![p] = 0]
  /\ UNCHANGED <<dev, queueVars, servoVars, outputVars, flushSeen>>

SignalWriter(w) == Signal(w, Room(chunk[w]))

-----------------------------------------------------------------------------
(* read(2): qe_motor_read and mot_axis_read, cut the same way. *)

Read(r) == \E n \in Counts : StartCall(r, rsize, n)

GetChunk(r) ==
  IF Data(chunk[r]) THEN rlen' = rlen - chunk[r] /\ NextChunk(r, rsize)
                    ELSE Sleep(r) /\ UNCHANGED rlen

AxisRead(r) ==
  /\ pc[r] \in {"top", "woken"}
  /\ GetChunk(r)
  /\ UNCHANGED <<dev, wq, wsize, rsize, flushed, servoVars, outputVars, flushSeen>>

SignalReader(r) == Signal(r, Data(chunk[r]))

-----------------------------------------------------------------------------
(* The ioctls that change state the control loop or the queues read. *)

SetPwm ==
  /\ dev = "open"
  /\ \E v \in UserPwm :
       SetReg(v, IF hold \/ trajectory THEN "override" ELSE "user")
  /\ UNCHANGED <<dev, queueVars, servoVars, pwm, threadVars>>

SetPosition ==
  /\ dev = "open"
  /\ position' \in Pos
  /\ UNCHANGED <<dev, queueVars, hold, trajectory, timer, desired, pidState,
                 outputVars, threadVars>>

(* mot_set_hold *)
Holding(h) ==
  /\ hold' = h
  /\ desired' = IF h THEN position ELSE desired
  /\ AxisReset(h, trajectory)
  /\ UNCHANGED <<trajectory, timer, position>>

SetHold ==
  /\ dev = "open"
  /\ \E h \in BOOLEAN : Holding(h)
  /\ UNCHANGED <<dev, queueVars, outputVars, threadVars>>

(* mot_flush_write_queue *)
FlushWriteQueue ==
  /\ wq' = <<>>
  /\ flushed' = TRUE
  /\ Wake
  /\ flushSeen' = [w \in Writers |-> flushSeen[w] \/ pc[w] \in {"sleep", "woken"}]
  /\ UNCHANGED <<rlen, wsize, rsize, left, chunk>>

Flush ==
  /\ dev = "open"
  /\ FlushWriteQueue
  /\ UNCHANGED <<dev, servoVars, outputVars>>

FaultyMotStop ==
  /\ FlushWriteQueue
  /\ AxisReset(hold, trajectory)
  /\ trajectory' = FALSE
  /\ SetReg(0, "driver")
  /\ UNCHANGED <<hold, timer, position, desired, pwm>>

(* mot_stop: hold, desired_position, .pwm and timer are left as they are. *)
MotStop ==
  /\ FlushWriteQueue
  /\ trajectory' = FALSE
  /\ AxisReset(hold, FALSE)
  /\ SetReg(0, "driver")
  /\ UNCHANGED <<hold, timer, position, desired, pwm>>

Stop ==
  /\ dev = "open"
  /\ MotStop
  /\ UNCHANGED dev

(* The two sizes are globals, set through any axis.  The buffer that       *)
(* qe_motor_write and qe_motor_read declare has the size in force when the *)
(* call began, so a size is raised only while no call is in progress.      *)
Idle == \A p \in Procs : pc[p] = "idle"

SetWriteQueueSize ==
  /\ \E s \in Sizes : (s < wsize \/ Idle) /\ wsize' = s
  /\ UNCHANGED <<dev, wq, rlen, rsize, flushed, servoVars, outputVars, threadVars>>

SetReadQueueSize ==
  /\ \E s \in Sizes : (s < rsize \/ Idle) /\ rsize' = s
  /\ UNCHANGED <<dev, wq, rlen, wsize, flushed, servoVars, outputVars, threadVars>>

-----------------------------------------------------------------------------
(* open and close.  Allocating the fifos may sleep, so the control         *)
(* interrupt and other calls come between the two halves of open; the      *)
(* interrupt comes between the steps of mot_axis_exit.                     *)

Open ==
  /\ dev = "closed"
  /\ dev' = "opening"
  /\ UNCHANGED <<queueVars, servoVars, outputVars, threadVars>>

AxisInit ==
  /\ dev = "opening"
  /\ dev' = "open"
  /\ wq' = <<>> /\ rlen' = 0
  /\ UNCHANGED <<wsize, rsize, flushed, servoVars, outputVars, threadVars>>

(* release runs when the last reference to the file is gone: no thread is  *)
(* inside a call.                                                          *)
FaultyReleaseHold ==
  /\ dev = "open" /\ Idle
  /\ dev' = "releaseHold"
  /\ UNCHANGED <<queueVars, servoVars, outputVars, threadVars>>

ReleaseHold ==
  /\ dev = "open" /\ Idle
  /\ dev' = "releaseHold"
  /\ Holding(FALSE)
  /\ UNCHANGED <<queueVars, outputVars, threadVars>>

ReleaseStop ==
  /\ dev = "releaseHold"
  /\ dev' = "releaseQueues"
  /\ MotStop

ReleaseQueues ==
  /\ dev = "releaseQueues"
  /\ dev' = "closed"
  /\ wq' = <<>> /\ rlen' = 0
  /\ UNCHANGED <<wsize, rsize, flushed, servoVars, outputVars, threadVars>>

-----------------------------------------------------------------------------
Ioctl == SetPwm \/ SetPosition \/ SetHold \/ Flush \/ Stop
         \/ SetWriteQueueSize \/ SetReadQueueSize

Device == Open \/ AxisInit \/ ReleaseHold \/ ReleaseStop \/ ReleaseQueues

WriterStep(w) == Write(w) \/ AxisWrite(w) \/ ResumeWrite(w) \/ SignalWriter(w)
ReaderStep(r) == Read(r) \/ AxisRead(r) \/ SignalReader(r)

Next ==
  \/ Tick
  \/ \E w \in Writers : WriterStep(w)
  \/ \E r \in Readers : ReaderStep(r)
  \/ Ioctl
  \/ Device

(* The FPGA keeps interrupting and a runnable thread is scheduled; nobody  *)
(* is obliged to make a call or to send a signal.                          *)
Fairness ==
  /\ WF_vars(Tick)
  /\ \A w \in Writers : WF_vars(AxisWrite(w)) /\ WF_vars(ResumeWrite(w))
  /\ \A r \in Readers : WF_vars(AxisRead(r))

Spec == Init /\ [][Next]_vars
FairSpec == Spec /\ Fairness
-----------------------------------------------------------------------------
(* Types: every variable keeps its declared range; in particular the       *)
(* starvation timer never passes MOT_TRAJ_TIMER and no queue passes the    *)
(* physical kfifo, whatever order calls, signals and interrupts come in.   *)
TypeOK ==
  /\ dev \in {"closed", "opening", "open", "releaseHold", "releaseQueues"}
  /\ wq \in Seq(Pos) /\ Len(wq) <= Cap
  /\ rlen \in 0..Cap
  /\ wsize \in Sizes /\ rsize \in Sizes
  /\ flushed \in BOOLEAN
  /\ hold \in BOOLEAN /\ trajectory \in BOOLEAN
  /\ timer \in 0..TrajTimer
  /\ position \in Pos /\ desired \in Pos
  /\ pidState \in BOOLEAN
  /\ pwm \in Int /\ reg \in -MaxPwm..MaxPwm
  /\ regBy \in {"driver", "user", "override"}
  /\ pc \in [Procs -> {"idle", "top", "sleep", "woken"}]
  /\ left \in [Procs -> Nat] /\ chunk \in [Procs -> Nat]
  /\ flushSeen \in [Writers -> BOOLEAN]

(* A closed device leaves its motor off and uncontrolled, wherever the     *)
(* control interrupt falls between the steps of mot_axis_exit.             *)
ClosedMotorIsOff ==
  dev \in {"closed", "opening"} => reg = 0 /\ ~hold /\ ~trajectory

(* The PID law starts every hold and every trajectory without the error    *)
(* history of an earlier one: whichever of Stop, Hold(false) or the        *)
(* starvation timer ended it has called mot_axis_reset to effect.          *)
IdlePidIsClean == ~hold /\ ~trajectory => ~pidState

(* No writer sleeps on an empty queue, where no waypoint is left to be     *)
(* consumed and so no later wake_up for space could come, unless its chunk *)
(* is larger than a size lowered meanwhile, or the size is a single word:  *)
(* then mot_handle_write wakes nobody and the writer depends on the wakeup *)
(* that mot_handle_read sends to the same wait queue.                      *)
NoStrandedWriter ==
  \A w \in Writers : pc[w] = "sleep" /\ wq = <<>>
                     => chunk[w] > wsize \/ wsize = 1

(* Writers never push the queue over the configured size: only lowering    *)
(* the size below what is already queued can leave it longer.              *)
QueueWithinSize ==
  [][Len(wq) <= wsize /\ Len(wq') > wsize' => wsize' # wsize]_vars

(* An axis that is neither held nor following a trajectory is off one      *)
(* control interrupt later, unless the user's SetPWM wrote the register.   *)
OffWithinOneTick ==
  [][Tick /\ ~hold' /\ ~trajectory' /\ regBy \notin {"user", "override"}
     => reg' = 0]_vars

(* The write(2) of an axis with one writer returns: no wakeup that the     *)
(* threshold of mot_handle_write withholds was the last one it could get.  *)
(* Two cases are excepted, and the code strands a writer in both: its      *)
(* chunk is larger than a size lowered meanwhile; or the size is a single  *)
(* word, for which mot_handle_write wakes nobody, and what mot_handle_read *)
(* sends to the same wait queue fails to come when the positions are read  *)
(* as fast as they arrive or their size is above twice the fifo.           *)
WriteReturns ==
  \A w \in Writers :
    pc[w] # "idle" ~> pc[w] = "idle" \/ chunk[w] > wsize \/ wsize = 1

(* The read(2) of an axis with one reader returns although its wakeups are *)
(* thresholded, except that a chunk larger than the size or than the fifo  *)
(* never finds its data, and that the threshold of mot_handle_read, half   *)
(* the size, is above what the fifo can hold once the size, which          *)
(* mot_set_read_queue_size accepts unchecked, is above twice the fifo.     *)
ReadReturns ==
  \A r \in Readers :
    pc[r] # "idle" ~> pc[r] = "idle" \/ chunk[r] > Smaller(rsize, Cap)
                      \/ rsize > 2 * Cap

(* When programs stop writing waypoints, GetDone turns true: the           *)
(* starvation timer ends the trajectory.                                   *)
TrajectoryEnds ==
  <>[](\A w \in Writers : pc[w] = "idle") => []<>~trajectory

(* The comment of mot_flush_write_queue: a write that is blocked when the  *)
(* queue is flushed is aborted, so it queues nothing more.                 *)
FlushAbortsWrite ==
  [][\A w \in Writers : flushSeen[w] /\ left'[w] < left[w] => wq' = wq]_vars

(* The documentation of CQEMotorUser::SetPWM: the value set determines the *)
(* motor's voltage.  Set on an axis that is not under active control, it   *)
(* is not replaced by a control interrupt while that stays so.             *)
PwmCommandKept ==
  [][Tick /\ ~hold /\ ~trajectory /\ ~trajectory' /\ regBy = "user"
     => reg' = reg]_vars

(* The documentation of CQEMotorUser::Stop: the axis stops at its current  *)
(* position, so an axis that is held after a movement is held there.       *)
StopsAtCurrentPosition ==
  [][MotStop /\ trajectory /\ hold' => desired' = position']_vars
=============================================================================
