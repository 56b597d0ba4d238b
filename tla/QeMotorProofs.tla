---------------------------- MODULE QeMotorProofs ----------------------------
(***************************************************************************)
(* Proofs about QeMotor for every set of threads, every queue size, every  *)
(* timer bound and every output of the PID law.                            *)
(*                                                                         *)
(* The inductive invariant Inv adds to the properties themselves who wrote *)
(* the PWM register (RegisterFollows), what each stage of close has        *)
(* already undone (ShutIsQuiet, ShutIsIdle) and the bookkeeping of the     *)
(* chunk loop (ChunksFit).                                                 *)
(***************************************************************************)
EXTENDS QeMotor, SequenceTheorems, TLAPS

(* Where the driver wrote the register last it holds the controller's own  *)
(* command, or 0 after a stop, which leaves that command as it was.        *)
RegisterFollows == regBy = "driver" => reg = 0 \/ reg = Clamp(pwm)

ShutIsQuiet ==
  /\ dev \in {"closed", "opening", "releaseQueues"}
     => ~hold /\ ~trajectory /\ reg = 0 /\ wq = <<>>
  /\ dev = "releaseHold" => ~hold

ShutIsIdle == dev # "open" => Idle

ChunksFit == \A p \in Procs : chunk[p] <= left[p]

ServoInv == IdlePidIsClean /\ RegisterFollows /\ ShutIsQuiet
QueueInv == ShutIsIdle /\ ChunksFit /\ NoStrandedWriter
Inv == TypeOK /\ ServoInv /\ QueueInv

-----------------------------------------------------------------------------
(* Facts about the helpers. *)

(* The register keeps the sign of a command and at most MaxPwm of it. *)
LEMMA ClampRange ==
  /\ \A v \in Int : Clamp(v) \in -MaxPwm..MaxPwm
  /\ Clamp(0) = 0
BY MotorAssumption DEF Clamp

LEMMA SmallerNat ==
  \A a, b \in Nat : /\ Smaller(a, b) \in Nat
                    /\ Smaller(a, b) <= a
                    /\ Smaller(a, b) <= b
BY DEF Smaller

(* A chunk of positions appended to a queue of positions is one again, and *)
(* is empty only if both parts were.                                       *)
LEMMA AppendChunk ==
  ASSUME wq \in Seq(Pos), NEW k \in Nat, NEW ws \in [1..k -> Pos]
  PROVE  /\ wq \o ws \in Seq(Pos)
         /\ Len(wq \o ws) = Len(wq) + k
         /\ wq \o ws = <<>> => wq = <<>>
<1>1. ws \in Seq(Pos)
  BY SeqDef
<1>2. Len(ws) = k
  BY <1>1, LenProperties
<1>3. /\ wq \o ws \in Seq(Pos)
      /\ Len(wq \o ws) = Len(wq) + k
  BY <1>1, <1>2, ConcatProperties
<1>4. wq \o ws = <<>> => wq = <<>>
  BY <1>1, ConcatEqualIffEmpty
<1>5. QED
  BY <1>3, <1>4

(* What one interrupt consumes from the queue. *)
LEMMA TakeWaypoint ==
  ASSUME wq \in Seq(Pos), wq # <<>>
  PROVE  /\ Head(wq) \in Pos
         /\ Tail(wq) \in Seq(Pos)
         /\ Len(Tail(wq)) = Len(wq) - 1
         /\ Len(wq) \in Nat \ {0}
BY HeadTailProperties, EmptySeq

(* wake_up leaves no sleeper and wakes nobody who was not asleep. *)
LEMMA WakeAll ==
  ASSUME TypeOK, Wake
  PROVE  /\ pc' \in [Procs -> {"idle", "top", "sleep", "woken"}]
         /\ \A p \in Procs : pc'[p] # "sleep"
         /\ Idle => Idle'
BY DEF TypeOK, Wake, Idle

-----------------------------------------------------------------------------
LEMMA InvInit == Init => Inv
<1>1. SUFFICES ASSUME Init PROVE Inv
  OBVIOUS
<1>2. TypeOK
  <2>1. wq \in Seq(Pos) /\ Len(wq) <= Cap
    BY <1>1, MotorAssumption, EmptySeq DEF Init
  <2>2. reg \in -MaxPwm..MaxPwm /\ timer \in 0..TrajTimer /\ rlen \in 0..Cap
    BY <1>1, MotorAssumption DEF Init
  <2>3. /\ pc \in [Procs -> {"idle", "top", "sleep", "woken"}]
        /\ left \in [Procs -> Nat] /\ chunk \in [Procs -> Nat]
        /\ flushSeen \in [Writers -> BOOLEAN]
    BY <1>1 DEF Init
  <2>4. /\ position \in Pos /\ desired \in Pos
        /\ wsize \in Sizes /\ rsize \in Sizes
    BY <1>1 DEF Init
  <2>5. pwm \in Int /\ reg \in Int
    BY <1>1 DEF Init
  <2>6. QED
    BY <1>1, <2>1, <2>2, <2>3, <2>4, <2>5 DEF Init, TypeOK
<1>3. ServoInv
  BY <1>1 DEF Init, ServoInv, IdlePidIsClean, RegisterFollows, ShutIsQuiet
<1>4. QueueInv
  BY <1>1 DEF Init, QueueInv, ShutIsIdle, Idle, ChunksFit, NoStrandedWriter, Procs
<1>5. QED
  BY <1>2, <1>3, <1>4 DEF Inv

(* The control interrupt. *)
LEMMA TickInv == Inv /\ Tick => Inv'
<1>1. SUFFICES ASSUME Inv, Tick PROVE Inv'
  OBVIOUS
<1> USE <1>1, MotorAssumption
<1>2. PICK out \in PidOut : HandlePid(out)
  BY DEF Tick
<1>3. /\ UNCHANGED <<dev, wsize, rsize, flushed, hold, left, chunk, flushSeen>>
      /\ position' \in Pos /\ HandleWrite /\ HandleRead
      /\ \/ Wake
         \/ UNCHANGED pc /\ ~WakeForSpace
  BY DEF Tick
<1>4. /\ wq' \in Seq(Pos) /\ Len(wq') <= Cap
      /\ wq' = <<>> => wq = <<>> \/ (~Underrun /\ Len(wq) = 1)
      /\ desired' \in Pos /\ trajectory' \in BOOLEAN /\ timer' \in 0..TrajTimer
  <2>1. CASE ~Underrun
    <3>1. wq # <<>> /\ desired' = Head(wq) /\ wq' = Tail(wq)
          /\ trajectory' = TRUE /\ timer' = timer
      BY <1>3, <2>1 DEF HandleWrite, Underrun
    <3>2. Len(<<>>) = 0
      BY EmptySeq
    <3>3. /\ desired' \in Pos /\ wq' \in Seq(Pos)
          /\ Len(wq') = Len(wq) - 1 /\ Len(wq) \in Nat \ {0}
      BY <3>1, TakeWaypoint DEF Inv, TypeOK
    <3>4. Len(wq') <= Cap
      BY <3>3 DEF Inv, TypeOK
    <3>5. wq' = <<>> => Len(wq) = 1
      BY <3>2, <3>3
    <3>6. QED
      BY <2>1, <3>1, <3>3, <3>4, <3>5 DEF Inv, TypeOK
  <2>2. CASE Underrun
    <3>1. /\ wq' = wq /\ desired' = desired
          /\ trajectory' = (trajectory /\ ~Expires)
      BY <1>3, <2>2 DEF HandleWrite
    <3>2. timer' \in 0..TrajTimer
      BY <1>3, <2>2 DEF HandleWrite, Inv, TypeOK, Expires
    <3>3. QED
      BY <3>1, <3>2 DEF Inv, TypeOK
  <2>3. QED
    BY <2>1, <2>2
<1>5. rlen' \in 0..Cap
  BY <1>3 DEF HandleRead, Smaller, Inv, TypeOK
<1>6. /\ pwm' \in Int /\ reg' \in -MaxPwm..MaxPwm
      /\ regBy' \in {"driver", "user", "override"}
      /\ pidState' \in BOOLEAN
  <2>1. out \in Int /\ Clamp(out) \in -MaxPwm..MaxPwm
                    /\ Clamp(0) \in -MaxPwm..MaxPwm
    BY ClampRange
  <2>2. CASE hold \/ trajectory'
    BY <1>2, <2>1, <2>2 DEF HandlePid, SetReg
  <2>3. CASE ~(hold \/ trajectory')
    <3>1. pwm' = 0 /\ pidState' = (pidState /\ ~Expires)
      BY <1>2, <2>3 DEF HandlePid
    <3>2. \/ reg' = Clamp(0) /\ regBy' = "driver"
          \/ reg' = reg /\ regBy' = regBy
      BY <1>2, <2>3 DEF HandlePid, SetReg
    <3>3. QED
      BY <2>1, <3>1, <3>2 DEF Inv, TypeOK
  <2>4. QED
    BY <2>2, <2>3
<1>7. /\ pc' \in [Procs -> {"idle", "top", "sleep", "woken"}]
      /\ Idle => Idle'
  BY <1>3, WakeAll DEF Inv, TypeOK, Idle
<1>8. TypeOK'
  BY <1>3, <1>4, <1>5, <1>6, <1>7 DEF Inv, TypeOK
<1>9. IdlePidIsClean'
  BY <1>2, <1>3 DEF HandleWrite, HandlePid, Inv, TypeOK, ServoInv, IdlePidIsClean, Expires
<1>10. RegisterFollows'
  BY <1>2, ClampRange DEF HandlePid, SetReg, Inv, TypeOK, ServoInv, RegisterFollows, Clamp
<1>11. ShutIsQuiet'
  BY <1>2, <1>3, ClampRange
     DEF HandleWrite, HandlePid, SetReg, Inv, TypeOK, ServoInv, ShutIsQuiet,
         Underrun, Expires, Used
<1>12. NoStrandedWriter'
  <2>1. CASE Wake
    BY <2>1, WakeAll DEF Inv, NoStrandedWriter, Procs
  <2>2. CASE UNCHANGED pc /\ ~WakeForSpace
    <3>1. wq' = <<>> => wq = <<>> \/ wsize = 1
      <4>1. wsize \in Nat \ {0}
        BY DEF Inv, TypeOK
      <4>2. ~Underrun /\ Len(wq) = 1 => ~(Len(wq) > wsize \/ 2 * Len(wq) <= wsize)
        BY <2>2 DEF WakeForSpace
      <4>3. ~(1 > wsize \/ 2 * 1 <= wsize) => wsize = 1
        BY <4>1
      <4>4. QED
        BY <1>4, <4>2, <4>3
    <3>2. QED
      BY <2>2, <1>3, <3>1 DEF Inv, QueueInv, NoStrandedWriter
  <2>3. QED
    BY <1>3, <2>1, <2>2
<1>13. QED
  BY <1>3, <1>7, <1>8, <1>9, <1>10, <1>11, <1>12
     DEF Inv, ServoInv, QueueInv, ShutIsIdle, ChunksFit

(* The four actions of a write and a read, through what they share. *)

LEMMA NextChunkInv ==
  ASSUME Inv, NEW p \in Procs, NEW size \in Nat,
         dev = "open", NextChunk(p, size)
  PROVE  /\ pc' \in [Procs -> {"idle", "top", "sleep", "woken"}]
         /\ left' \in [Procs -> Nat] /\ chunk' \in [Procs -> Nat]
         /\ ChunksFit'
         /\ pc'[p] # "sleep"
         /\ \A q \in Procs \ {p} : pc'[q] = pc[q] /\ chunk'[q] = chunk[q]
<1>1. left[p] - chunk[p] \in Nat
  BY DEF Inv, TypeOK, QueueInv, ChunksFit
<1>2. Smaller(left[p] - chunk[p], size) \in Nat
      /\ Smaller(left[p] - chunk[p], size) <= left[p] - chunk[p]
  BY <1>1, SmallerNat
<1>3. QED
  BY <1>1, <1>2 DEF NextChunk, Inv, TypeOK, QueueInv, ChunksFit

(* A call in progress keeps the device open. *)
LEMMA BusyIsOpen ==
  ASSUME Inv, NEW p \in Procs, pc[p] # "idle"
  PROVE  dev = "open"
BY DEF Inv, QueueInv, ShutIsIdle, Idle

LEMMA PutChunkInv ==
  ASSUME Inv, NEW w \in Writers, dev = "open", PutChunk(w)
  PROVE  /\ wq' \in Seq(Pos) /\ Len(wq') <= Cap
         /\ Len(wq') <= Len(wq) + chunk[w]
         /\ wq' = <<>> => wq = <<>>
<1>1. Cap - Len(wq) \in Nat /\ chunk[w] \in Nat
  BY MotorAssumption, LenProperties DEF Inv, TypeOK, Procs
<1>2. PICK ws \in [1..Smaller(chunk[w], Cap - Len(wq)) -> Pos] : wq' = wq \o ws
  BY DEF PutChunk
<1>3. /\ Smaller(chunk[w], Cap - Len(wq)) \in Nat
      /\ Smaller(chunk[w], Cap - Len(wq)) <= Cap - Len(wq)
      /\ Smaller(chunk[w], Cap - Len(wq)) <= chunk[w]
  BY <1>1, SmallerNat
<1>4. wq \in Seq(Pos) /\ Len(wq) \in Nat
  BY LenProperties DEF Inv, TypeOK
<1>5. /\ wq' \in Seq(Pos)
      /\ Len(wq') = Len(wq) + Smaller(chunk[w], Cap - Len(wq))
      /\ wq' = <<>> => wq = <<>>
  BY <1>2, <1>3, <1>4, AppendChunk
<1>6. QED
  BY <1>1, <1>3, <1>4, <1>5, MotorAssumption

LEMMA WriterInv == ASSUME Inv, NEW w \in Writers, AxisWrite(w) \/ ResumeWrite(w)
                   PROVE  Inv'
<1> USE MotorAssumption
<1>1. /\ UNCHANGED <<dev, rlen, wsize, rsize, servoVars, outputVars, flushSeen>>
      /\ flushed' \in BOOLEAN
      /\ \/ PutChunk(w)
         \/ NextChunk(w, wsize) /\ UNCHANGED wq
         \/ ~Room(chunk[w]) /\ Sleep(w) /\ UNCHANGED wq
  BY DEF AxisWrite, ResumeWrite, Inv, TypeOK
<1>2. dev = "open" /\ w \in Procs /\ wsize \in Nat
  BY BusyIsOpen DEF AxisWrite, ResumeWrite, Procs, Inv, TypeOK
<1>3. /\ wq' \in Seq(Pos) /\ Len(wq') <= Cap
      /\ wq' = <<>> => wq = <<>>
  BY <1>1, <1>2, PutChunkInv DEF Inv, TypeOK
<1>4. CASE NextChunk(w, wsize)
  <2>1. TypeOK'
    BY <1>1, <1>2, <1>3, <1>4, NextChunkInv DEF Inv, TypeOK, servoVars, outputVars
  <2>2. ServoInv'
    BY <1>1, <1>2 DEF Inv, ServoInv, IdlePidIsClean, RegisterFollows, ShutIsQuiet,
                      Clamp, servoVars, outputVars
  <2>3. NoStrandedWriter'
    BY <1>1, <1>2, <1>3, <1>4, NextChunkInv
       DEF Inv, QueueInv, NoStrandedWriter, Procs
  <2>4. QED
    BY <1>1, <1>2, <1>4, <2>1, <2>2, <2>3, NextChunkInv DEF Inv, QueueInv, ShutIsIdle
<1>5. CASE ~Room(chunk[w]) /\ Sleep(w) /\ UNCHANGED wq
  <2>1. TypeOK'
    BY <1>1, <1>5 DEF Inv, TypeOK, Sleep, servoVars, outputVars
  <2>2. ServoInv'
    BY <1>1, <1>2 DEF Inv, ServoInv, IdlePidIsClean, RegisterFollows, ShutIsQuiet,
                      Clamp, servoVars, outputVars
  <2>3. wq = <<>> => chunk[w] > wsize
    BY <1>2, <1>5, EmptySeq DEF Room, Inv, TypeOK, Procs
  <2>4. NoStrandedWriter'
    BY <1>1, <1>2, <1>5, <2>3 DEF Inv, TypeOK, QueueInv, NoStrandedWriter, Sleep, Procs
  <2>5. QED
    BY <1>1, <1>2, <1>5, <2>1, <2>2, <2>4
       DEF Inv, QueueInv, ShutIsIdle, ChunksFit, Sleep
<1>6. QED
  BY <1>1, <1>4, <1>5 DEF PutChunk

LEMMA ReaderInv == ASSUME Inv, NEW r \in Readers, AxisRead(r)
                   PROVE  Inv'
<1> USE MotorAssumption
<1>1. /\ UNCHANGED <<dev, wq, wsize, rsize, flushed, servoVars, outputVars, flushSeen>>
      /\ r \in Procs /\ r \notin Writers
  BY DEF AxisRead, Procs
<1>2. dev = "open" /\ rsize \in Nat
  BY <1>1, BusyIsOpen DEF AxisRead, Inv, TypeOK
<1>3. ServoInv'
  BY <1>1, <1>2 DEF Inv, ServoInv, IdlePidIsClean, RegisterFollows, ShutIsQuiet,
                    Clamp, servoVars, outputVars
<1>4. CASE Data(chunk[r]) /\ rlen' = rlen - chunk[r] /\ NextChunk(r, rsize)
  <2>1. rlen' \in 0..Cap
    BY <1>1, <1>4 DEF Data, Inv, TypeOK
  <2>2. TypeOK'
    BY <1>1, <1>2, <1>4, <2>1, NextChunkInv DEF Inv, TypeOK, servoVars, outputVars
  <2>3. NoStrandedWriter'
    BY <1>1, <1>2, <1>4, NextChunkInv DEF Inv, QueueInv, NoStrandedWriter, Procs
  <2>4. QED
    BY <1>1, <1>2, <1>3, <1>4, <2>2, <2>3, NextChunkInv DEF Inv, QueueInv, ShutIsIdle
<1>5. CASE Sleep(r) /\ UNCHANGED rlen
  <2>1. TypeOK'
    BY <1>1, <1>5 DEF Inv, TypeOK, Sleep, servoVars, outputVars
  <2>2. NoStrandedWriter'
    BY <1>1, <1>5 DEF Inv, TypeOK, QueueInv, NoStrandedWriter, Sleep, Procs
  <2>3. QED
    BY <1>1, <1>2, <1>3, <1>5, <2>1, <2>2
       DEF Inv, QueueInv, ShutIsIdle, ChunksFit, Sleep
<1>6. QED
  BY <1>4, <1>5 DEF AxisRead, GetChunk

LEMMA StartCallInv ==
  ASSUME Inv, NEW p \in Procs, NEW size \in Nat, NEW n \in Nat, StartCall(p, size, n)
  PROVE  Inv'
<1>1. Smaller(n, size) \in Nat /\ Smaller(n, size) <= n
  BY SmallerNat
<1>2. TypeOK' /\ ChunksFit' /\ ShutIsIdle'
  BY <1>1 DEF StartCall, Inv, TypeOK, QueueInv, ChunksFit, ShutIsIdle,
              queueVars, servoVars, outputVars
<1>3. ServoInv'
  BY DEF StartCall, Inv, ServoInv, IdlePidIsClean, RegisterFollows, ShutIsQuiet,
         Clamp, queueVars, servoVars, outputVars
<1>4. NoStrandedWriter'
  BY DEF StartCall, Inv, TypeOK, QueueInv, NoStrandedWriter, Procs, queueVars
<1>5. QED
  BY <1>2, <1>3, <1>4 DEF Inv, QueueInv

LEMMA SignalInv ==
  ASSUME Inv, NEW p \in Procs, NEW ready, Signal(p, ready)
  PROVE  Inv'
<1>1. TypeOK' /\ ChunksFit' /\ ShutIsIdle'
  <2>1. /\ pc' \in [Procs -> {"idle", "top", "sleep", "woken"}]
        /\ left' \in [Procs -> Nat] /\ chunk' \in [Procs -> Nat]
        /\ ChunksFit'
    <3>1. CASE pc' = [pc EXCEPT ![p] = "woken"] /\ UNCHANGED <<left, chunk>>
      BY <3>1 DEF Inv, TypeOK, QueueInv, ChunksFit
    <3>2. CASE /\ pc' = [pc EXCEPT ![p] = "idle"]
               /\ left' = [left EXCEPT ![p] = 0]
               /\ chunk' = [chunk EXCEPT ![p] = 0]
      BY <3>2 DEF Inv, TypeOK, QueueInv, ChunksFit
    <3>3. QED
      BY <3>1, <3>2 DEF Signal
  <2>2. dev = "open"
    BY BusyIsOpen DEF Signal
  <2>3. QED
    BY <2>1, <2>2 DEF Signal, Inv, TypeOK, QueueInv, ChunksFit, ShutIsIdle,
                      queueVars, servoVars, outputVars
<1>2. ServoInv'
  BY DEF Signal, Inv, ServoInv, IdlePidIsClean, RegisterFollows, ShutIsQuiet,
         Clamp, queueVars, servoVars, outputVars
<1>3. NoStrandedWriter'
  BY DEF Signal, Inv, TypeOK, QueueInv, NoStrandedWriter, Procs, queueVars
<1>4. QED
  BY <1>1, <1>2, <1>3 DEF Inv, QueueInv

(* Flushing wakes every sleeper, so it strands nobody. *)
LEMMA FlushInv ==
  ASSUME Inv, FlushWriteQueue, dev' \in {"open", "releaseQueues"}, dev' # "open" => Idle
  PROVE  /\ wq' = <<>> /\ wq' \in Seq(Pos) /\ Len(wq') <= Cap
         /\ flushed' \in BOOLEAN
         /\ pc' \in [Procs -> {"idle", "top", "sleep", "woken"}]
         /\ flushSeen' \in [Writers -> BOOLEAN]
         /\ UNCHANGED <<rlen, wsize, rsize, left, chunk>>
         /\ QueueInv'
<1>1. wq' = <<>> /\ wq' \in Seq(Pos) /\ Len(wq') <= Cap
  BY EmptySeq, MotorAssumption DEF FlushWriteQueue
<1>2. pc' \in [Procs -> {"idle", "top", "sleep", "woken"}]
      /\ (\A p \in Procs : pc'[p] # "sleep") /\ (Idle => Idle')
  BY WakeAll DEF FlushWriteQueue, Inv
<1>3. flushSeen' \in [Writers -> BOOLEAN]
  BY DEF FlushWriteQueue, Inv, TypeOK
<1>4. UNCHANGED <<rlen, wsize, rsize, left, chunk>> /\ flushed' \in BOOLEAN
  BY DEF FlushWriteQueue
<1>5. QueueInv'
  BY <1>2, <1>4 DEF Inv, QueueInv, ShutIsIdle, ChunksFit, NoStrandedWriter, Procs
<1>6. QED
  BY <1>1, <1>2, <1>3, <1>4, <1>5

LEMMA HoldingInv ==
  ASSUME Inv, NEW h \in BOOLEAN, Holding(h)
  PROVE  /\ hold' = h /\ desired' \in Pos /\ pidState' \in BOOLEAN
         /\ UNCHANGED <<trajectory, timer, position>>
         /\ IdlePidIsClean'
<1>1. hold' = h /\ UNCHANGED <<trajectory, timer, position>>
  BY DEF Holding
<1>2. desired' \in Pos
  BY DEF Holding, Inv, TypeOK
<1>3. pidState' = (IF h \/ trajectory THEN pidState ELSE FALSE)
  BY DEF Holding, AxisReset
<1>4. pidState' \in BOOLEAN
  BY <1>3 DEF Inv, TypeOK
<1>5. IdlePidIsClean'
  BY <1>1, <1>3 DEF IdlePidIsClean
<1>6. QED
  BY <1>1, <1>2, <1>4, <1>5

LEMMA MotStopInv ==
  ASSUME Inv, MotStop, dev' \in {"open", "releaseQueues"}, dev' # "open" => Idle /\ ~hold
  PROVE  Inv'
<1>1. /\ trajectory' = FALSE
      /\ pidState' = (IF hold \/ FALSE THEN pidState ELSE FALSE)
      /\ reg' = Clamp(0) /\ regBy' = "driver"
      /\ UNCHANGED <<hold, timer, position, desired, pwm>>
      /\ FlushWriteQueue
  BY DEF MotStop, AxisReset, SetReg
<1>2. reg' = 0 /\ reg' \in -MaxPwm..MaxPwm
  BY <1>1, ClampRange
<1>3. pidState' \in BOOLEAN
  BY <1>1 DEF Inv, TypeOK
<1>4. TypeOK'
  BY <1>1, <1>2, <1>3, FlushInv DEF Inv, TypeOK
<1>5. IdlePidIsClean'
  BY <1>1 DEF IdlePidIsClean
<1>6. RegisterFollows' /\ ShutIsQuiet'
  BY <1>1, <1>2, FlushInv DEF RegisterFollows, ShutIsQuiet
<1>7. QED
  BY <1>1, <1>4, <1>5, <1>6, FlushInv DEF Inv, ServoInv

LEMMA IoctlInv == Inv /\ Ioctl => Inv'
<1>1. SUFFICES ASSUME Inv, Ioctl PROVE Inv'
  OBVIOUS
<1> USE <1>1, MotorAssumption
<1>2. CASE SetPwm
  <2>1. PICK v \in UserPwm : SetReg(v, IF hold \/ trajectory THEN "override" ELSE "user")
    BY <1>2 DEF SetPwm
  <2>2. reg' = Clamp(v) /\ regBy' \in {"override", "user"}
    BY <2>1 DEF SetReg
  <2>3. reg' \in -MaxPwm..MaxPwm
    BY <2>2, ClampRange
  <2>4. TypeOK'
    BY <1>2, <2>2, <2>3 DEF SetPwm, Inv, TypeOK, queueVars, servoVars, threadVars
  <2>5. ServoInv'
    BY <1>2, <2>2 DEF SetPwm, Inv, ServoInv, IdlePidIsClean, RegisterFollows,
                      ShutIsQuiet, queueVars, servoVars
  <2>6. QueueInv'
    BY <1>2 DEF SetPwm, Inv, QueueInv, ShutIsIdle, Idle, ChunksFit,
                NoStrandedWriter, queueVars, threadVars
  <2>7. QED
    BY <2>4, <2>5, <2>6 DEF Inv
<1>3. CASE SetPosition
  <2>1. TypeOK'
    BY <1>3 DEF SetPosition, Inv, TypeOK, queueVars, outputVars, threadVars
  <2>2. ServoInv' /\ QueueInv'
    BY <1>3 DEF SetPosition, Inv, ServoInv, IdlePidIsClean, RegisterFollows, Clamp,
                ShutIsQuiet, QueueInv, ShutIsIdle, Idle, ChunksFit,
                NoStrandedWriter, queueVars, outputVars, threadVars
  <2>3. QED
    BY <2>1, <2>2 DEF Inv
<1>4. CASE SetHold
  <2>1. PICK h \in BOOLEAN : Holding(h)
    BY <1>4 DEF SetHold
  <2>2. /\ dev = "open"
        /\ UNCHANGED <<dev, queueVars, outputVars, threadVars>>
    BY <1>4 DEF SetHold
  <2>3. TypeOK'
    BY <2>1, <2>2, HoldingInv DEF Inv, TypeOK, queueVars, outputVars, threadVars
  <2>4. ServoInv'
    BY <2>1, <2>2, HoldingInv
       DEF Inv, ServoInv, RegisterFollows, ShutIsQuiet, Clamp, queueVars, outputVars
  <2>5. QueueInv'
    BY <2>2 DEF Inv, QueueInv, ShutIsIdle, Idle, ChunksFit, NoStrandedWriter,
                queueVars, threadVars
  <2>6. QED
    BY <2>3, <2>4, <2>5 DEF Inv
<1>5. CASE Flush
  <2>1. FlushWriteQueue /\ dev = "open" /\ UNCHANGED <<dev, servoVars, outputVars>>
    BY <1>5 DEF Flush
  <2>2. TypeOK'
    BY <2>1, FlushInv DEF Inv, TypeOK, servoVars, outputVars
  <2>3. ServoInv'
    BY <2>1 DEF Inv, ServoInv, IdlePidIsClean, RegisterFollows, ShutIsQuiet,
                Clamp, servoVars, outputVars
  <2>4. QED
    BY <2>1, <2>2, <2>3, FlushInv DEF Inv
<1>6. CASE Stop
  BY <1>6, MotStopInv DEF Stop
<1>7. CASE SetWriteQueueSize
  <2>1. PICK s \in Sizes : (s < wsize \/ Idle) /\ wsize' = s
    BY <1>7 DEF SetWriteQueueSize
  <2>2. UNCHANGED <<dev, wq, rlen, rsize, flushed, servoVars, outputVars, threadVars>>
    BY <1>7 DEF SetWriteQueueSize
  <2>3. TypeOK' /\ ServoInv'
    BY <2>1, <2>2 DEF Inv, TypeOK, ServoInv, IdlePidIsClean, RegisterFollows,
                      ShutIsQuiet, Clamp, servoVars, outputVars, threadVars
  <2>4. NoStrandedWriter'
    <3>1. CASE Idle
      BY <2>2, <3>1 DEF Idle, NoStrandedWriter, Procs, threadVars
    <3>2. CASE s < wsize
      BY <2>1, <2>2, <3>2
         DEF Inv, TypeOK, QueueInv, NoStrandedWriter, Procs, threadVars
    <3>3. QED
      BY <2>1, <3>1, <3>2
  <2>5. QED
    BY <2>2, <2>3, <2>4 DEF Inv, QueueInv, ShutIsIdle, Idle, ChunksFit, threadVars
<1>8. CASE SetReadQueueSize
  <2>1. rsize' \in Sizes
        /\ UNCHANGED <<dev, wq, rlen, wsize, flushed, servoVars, outputVars, threadVars>>
    BY <1>8 DEF SetReadQueueSize
  <2>2. TypeOK' /\ ServoInv'
    BY <2>1 DEF Inv, TypeOK, ServoInv, IdlePidIsClean, RegisterFollows,
                ShutIsQuiet, Clamp, servoVars, outputVars, threadVars
  <2>3. QueueInv'
    BY <2>1 DEF Inv, QueueInv, ShutIsIdle, Idle, ChunksFit, NoStrandedWriter, threadVars
  <2>4. QED
    BY <2>2, <2>3 DEF Inv
<1>9. QED
  BY <1>2, <1>3, <1>4, <1>5, <1>6, <1>7, <1>8 DEF Ioctl

LEMMA DeviceInv == Inv /\ Device => Inv'
<1>1. SUFFICES ASSUME Inv, Device PROVE Inv'
  OBVIOUS
<1> USE <1>1, MotorAssumption
<1>2. CASE Open
  <2>1. dev = "closed" /\ dev' = "opening"
        /\ UNCHANGED <<queueVars, servoVars, outputVars, threadVars>>
    BY <1>2 DEF Open
  <2>2. TypeOK' /\ ServoInv'
    BY <2>1 DEF Inv, TypeOK, ServoInv, IdlePidIsClean, RegisterFollows,
                ShutIsQuiet, Clamp, queueVars, servoVars, outputVars, threadVars
  <2>3. QueueInv'
    BY <2>1 DEF Inv, QueueInv, ShutIsIdle, Idle, ChunksFit, NoStrandedWriter,
                queueVars, threadVars
  <2>4. QED
    BY <2>2, <2>3 DEF Inv
<1>3. CASE AxisInit \/ ReleaseQueues
  <2>1. /\ dev \in {"opening", "releaseQueues"} /\ dev' \in {"open", "closed"}
        /\ wq' = <<>> /\ rlen' = 0
        /\ UNCHANGED <<wsize, rsize, flushed, servoVars, outputVars, threadVars>>
    BY <1>3 DEF AxisInit, ReleaseQueues
  <2>2. wq' \in Seq(Pos) /\ Len(wq') <= Cap /\ rlen' \in 0..Cap
    BY <2>1, EmptySeq
  <2>3. TypeOK' /\ ServoInv'
    BY <2>1, <2>2 DEF Inv, TypeOK, ServoInv, IdlePidIsClean, RegisterFollows,
                      ShutIsQuiet, Clamp, servoVars, outputVars, threadVars
  <2>4. Idle
    BY <2>1 DEF Inv, QueueInv, ShutIsIdle
  <2>5. QueueInv'
    BY <2>1, <2>4 DEF Inv, QueueInv, ShutIsIdle, Idle, ChunksFit,
                      NoStrandedWriter, Procs, threadVars
  <2>6. QED
    BY <2>3, <2>5 DEF Inv
<1>4. CASE ReleaseHold
  <2>1. /\ Idle /\ dev' = "releaseHold" /\ Holding(FALSE)
        /\ UNCHANGED <<queueVars, outputVars, threadVars>>
    BY <1>4 DEF ReleaseHold
  <2>2. TypeOK'
    BY <2>1, HoldingInv DEF Inv, TypeOK, queueVars, outputVars, threadVars
  <2>3. ServoInv'
    BY <2>1, HoldingInv
       DEF Inv, ServoInv, RegisterFollows, ShutIsQuiet, Clamp, queueVars, outputVars
  <2>4. QueueInv'
    BY <2>1 DEF Inv, QueueInv, ShutIsIdle, Idle, ChunksFit, NoStrandedWriter,
                queueVars, threadVars
  <2>5. QED
    BY <2>2, <2>3, <2>4 DEF Inv
<1>5. CASE ReleaseStop
  <2>1. dev = "releaseHold" /\ dev' = "releaseQueues" /\ MotStop
    BY <1>5 DEF ReleaseStop
  <2>2. Idle /\ ~hold
    BY <2>1 DEF Inv, ServoInv, ShutIsQuiet, QueueInv, ShutIsIdle
  <2>3. QED
    BY <2>1, <2>2, MotStopInv
<1>6. QED
  BY <1>2, <1>3, <1>4, <1>5 DEF Device

LEMMA StutterInv == Inv /\ UNCHANGED vars => Inv'
BY DEF Inv, TypeOK, ServoInv, IdlePidIsClean, RegisterFollows, ShutIsQuiet, Clamp,
       QueueInv, ShutIsIdle, Idle, ChunksFit, NoStrandedWriter,
       vars, queueVars, servoVars, outputVars, threadVars

LEMMA InvStep == Inv /\ [Next]_vars => Inv'
<1>1. SUFFICES ASSUME Inv, [Next]_vars PROVE Inv'
  OBVIOUS
<1>2. ASSUME NEW w \in Writers, WriterStep(w) PROVE Inv'
  <2>1. w \in Procs /\ wsize \in Nat
    BY <1>1, MotorAssumption DEF Procs, Inv, TypeOK
  <2>2. CASE Write(w)
    BY <1>1, <2>1, <2>2, MotorAssumption, StartCallInv DEF Write
  <2>3. CASE AxisWrite(w) \/ ResumeWrite(w)
    BY <1>1, <2>3, WriterInv
  <2>4. CASE SignalWriter(w)
    BY <1>1, <2>1, <2>4, SignalInv DEF SignalWriter
  <2>5. QED
    BY <1>2, <2>2, <2>3, <2>4 DEF WriterStep
<1>3. ASSUME NEW r \in Readers, ReaderStep(r) PROVE Inv'
  <2>1. r \in Procs /\ rsize \in Nat
    BY <1>1, MotorAssumption DEF Procs, Inv, TypeOK
  <2>2. CASE Read(r)
    BY <1>1, <2>1, <2>2, MotorAssumption, StartCallInv DEF Read
  <2>3. CASE AxisRead(r)
    BY <1>1, <2>3, ReaderInv
  <2>4. CASE SignalReader(r)
    BY <1>1, <2>1, <2>4, SignalInv DEF SignalReader
  <2>5. QED
    BY <1>3, <2>2, <2>3, <2>4 DEF ReaderStep
<1>4. QED
  BY <1>1, <1>2, <1>3, TickInv, IoctlInv, DeviceInv, StutterInv DEF Next

-----------------------------------------------------------------------------
(* The results. *)

LEMMA Invariance == Spec => []Inv
BY InvInit, InvStep, PTL DEF Spec

(* Types, with the bounds on the timer and the two fifos, in every         *)
(* reachable state of the driver.                                          *)
THEOREM TypeCorrect == Spec => []TypeOK
<1>1. Inv => TypeOK
  BY DEF Inv
<1>2. QED
  BY <1>1, Invariance, PTL

(* mot_axis_exit leaves the motor off, wherever the control interrupt      *)
(* falls between its steps, and it stays off until the next open is done.  *)
THEOREM ClosedOff == Spec => []ClosedMotorIsOff
<1>1. Inv => ClosedMotorIsOff
  BY DEF Inv, ServoInv, ShutIsQuiet, ClosedMotorIsOff
<1>2. QED
  BY <1>1, Invariance, PTL

(* No hold and no trajectory starts from the PID history of another. *)
THEOREM PidClean == Spec => []IdlePidIsClean
<1>1. Inv => IdlePidIsClean
  BY DEF Inv, ServoInv
<1>2. QED
  BY <1>1, Invariance, PTL

(* No writer is left asleep on an empty queue with nothing to wake it. *)
THEOREM NotStranded == Spec => []NoStrandedWriter
<1>1. Inv => NoStrandedWriter
  BY DEF Inv, QueueInv
<1>2. QED
  BY <1>1, Invariance, PTL

(* Once neither held nor following waypoints, an axis is off after one     *)
(* control interrupt unless a SetPWM drives it.                            *)
THEOREM OffPromptly == Spec => OffWithinOneTick
<1>1. ASSUME Inv, Tick, ~hold', ~trajectory', regBy \notin {"user", "override"}
      PROVE  reg' = 0
  <2>1. hold' = hold
    BY <1>1 DEF Tick
  <2>2. pwm' = 0 /\ (IF pwm # 0 THEN SetReg(0, "driver") ELSE UNCHANGED <<reg, regBy>>)
    BY <1>1, <2>1 DEF Tick, HandlePid
  <2>3. CASE pwm # 0
    BY <2>2, <2>3, ClampRange DEF SetReg
  <2>4. CASE pwm = 0
    <3>1. regBy = "driver"
      BY <1>1 DEF Inv, TypeOK
    <3>2. reg = 0
      BY <1>1, <2>4, <3>1, ClampRange DEF Inv, ServoInv, RegisterFollows
    <3>3. QED
      BY <2>2, <2>4, <3>2
  <2>5. QED
    BY <2>3, <2>4
<1>2. Inv /\ [Next]_vars
      => [Tick /\ ~hold' /\ ~trajectory' /\ regBy \notin {"user", "override"}
          => reg' = 0]_vars
  BY <1>1
<1>3. QED
  BY <1>2, Invariance, PTL DEF Spec, OffWithinOneTick

(* Every step that is not a write leaves the queue no longer than it was. *)
LEMMA OnlyWritesGrow ==
  ASSUME Inv, Next,
         \A w \in Writers : ~(AxisWrite(w) \/ ResumeWrite(w))
  PROVE  Len(wq') <= Len(wq)
<1> USE MotorAssumption
<1>1. Len(wq) \in Nat /\ Len(<<>>) = 0
  BY LenProperties, EmptySeq DEF Inv, TypeOK
<1>2. CASE Tick
  <2>1. \/ wq # <<>> /\ wq' = Tail(wq)
        \/ wq' = wq
    BY <1>2 DEF Tick, HandleWrite, Underrun
  <2>2. QED
    BY <1>1, <2>1, TakeWaypoint DEF Inv, TypeOK
<1>3. ASSUME NEW w \in Writers, WriterStep(w) PROVE wq' = wq
  BY <1>3 DEF WriterStep, Write, StartCall, SignalWriter, Signal, queueVars
<1>4. ASSUME NEW r \in Readers, ReaderStep(r) PROVE wq' = wq
  BY <1>4 DEF ReaderStep, Read, StartCall, AxisRead, SignalReader, Signal, queueVars
<1>5. CASE Ioctl
  <2>1. wq' = wq \/ wq' = <<>>
    BY <1>5 DEF Ioctl, SetPwm, SetPosition, SetHold, Flush, Stop, MotStop,
                FlushWriteQueue, SetWriteQueueSize, SetReadQueueSize, queueVars
  <2>2. QED
    BY <1>1, <2>1
<1>6. CASE Device
  <2>1. wq' = wq \/ wq' = <<>>
    BY <1>6 DEF Device, Open, AxisInit, ReleaseHold, ReleaseStop, ReleaseQueues,
                MotStop, FlushWriteQueue, queueVars
  <2>2. QED
    BY <1>1, <2>1
<1>7. QED
  BY <1>1, <1>2, <1>3, <1>4, <1>5, <1>6 DEF Next

(* The back pressure of mot_axis_write: no write, in whatever chunks and   *)
(* with whatever other writers, takes the queue past the configured size.  *)
THEOREM WithinSize == Spec => QueueWithinSize
<1>1. ASSUME Inv, Next, Len(wq) <= wsize, wsize' = wsize
      PROVE  Len(wq') <= wsize'
  <2>1. Len(wq) \in Nat /\ wsize \in Nat
    BY <1>1, MotorAssumption, LenProperties DEF Inv, TypeOK
  <2>2. ASSUME NEW w \in Writers, AxisWrite(w) \/ ResumeWrite(w)
        PROVE  Len(wq') <= wsize
    <3>1. dev = "open" /\ w \in Procs
      BY <1>1, <2>2, BusyIsOpen DEF AxisWrite, ResumeWrite, Procs
    <3>2. (Room(chunk[w]) /\ PutChunk(w)) \/ wq' = wq
      BY <2>2 DEF AxisWrite, ResumeWrite
    <3>3. chunk[w] \in Nat
      BY <1>1, <3>1 DEF Inv, TypeOK
    <3>4. CASE Room(chunk[w]) /\ PutChunk(w)
      <4>1. Len(wq') <= Len(wq) + chunk[w] /\ Len(wq') \in Nat
        BY <1>1, <3>1, <3>4, PutChunkInv, LenProperties
      <4>2. wsize - Len(wq) >= chunk[w]
        BY <1>1, <2>1, <3>4 DEF Room
      <4>3. QED
        BY <2>1, <3>3, <4>1, <4>2
    <3>5. QED
      BY <1>1, <3>2, <3>4
  <2>3. CASE \A w \in Writers : ~(AxisWrite(w) \/ ResumeWrite(w))
    <3>1. Len(wq') <= Len(wq)
      BY <1>1, <2>3, OnlyWritesGrow
    <3>2. Len(wq') \in Nat
      BY <1>1, InvStep, LenProperties DEF Inv, TypeOK
    <3>3. QED
      BY <1>1, <2>1, <3>1, <3>2
  <2>4. QED
    BY <1>1, <2>2, <2>3
<1>2. Inv /\ Inv' /\ [Next]_vars
      => [Len(wq) <= wsize /\ Len(wq') > wsize' => wsize' # wsize]_vars
  <2>1. SUFFICES ASSUME Inv, Inv', Next, Len(wq) <= wsize, wsize' = wsize
                 PROVE  ~(Len(wq') > wsize')
    OBVIOUS
  <2>2. Len(wq') <= wsize'
    BY <1>1, <2>1
  <2>3. Len(wq') \in Nat /\ wsize' \in Nat
    BY <2>1, MotorAssumption, LenProperties DEF Inv, TypeOK
  <2>4. QED
    BY <2>2, <2>3
<1>3. QED
  BY <1>2, Invariance, PTL DEF Spec, QueueWithinSize

=============================================================================
