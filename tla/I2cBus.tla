------------------------------- MODULE I2cBus -------------------------------
(***************************************************************************)
(* The I2C bus of libqwerk (qei2cbus.cxx), bit by bit: the threads of one  *)
(* process open sessions, and drive clock and data through the register of *)
(* the FPGA (logic/vexpro/i2c.v) in the packets of vexi2cdevice.cxx and    *)
(* vexi2cencoder.cxx; one device follows the I2C protocol on the other     *)
(* side.  A process may be killed between two writes of the register; the  *)
(* next one finds the bus as it was left, and its constructor clears it.   *)
(*                                                                         *)
(* Left out: values of data bits beyond their level on the wire, clock     *)
(* stretching, delays, and several devices answering at once.              *)
(*                                                                         *)
(* A definition named Faulty... is the one that follows it with a          *)
(* plausible bug; no specification uses it (README, "Seeded faults").      *)
(***************************************************************************)
EXTENDS Integers, Sequences

CONSTANTS
  Threads,
  Main,      \* the thread that constructs CQEI2CBus
  Used,      \* the packets that the program sends
  Ids,       \* session identifiers are computed modulo Ids (2^32)
  Prime,     \* what Open adds to it (409)
  MaxKills,  \* bound: processes that are killed
  Free

VARIABLES
  mutex,          \* bus_mutex
  SessionActive,
  SessionID,
  up,             \* the constructor has returned
  job,            \* per thread: [packet, calls, n, ack, sid]
  reg,            \* the register: [sda, scl], each 1 when released
  dev,            \* the device: [mode, n, read, drive]
  ended,          \* history: what the device was doing when a process ended
  kills,
  afterSpeed      \* history: the last session closed was of Speed

session == <<mutex, SessionActive, SessionID>>
wire == <<reg, dev>>
history == <<ended, kills, afterSpeed>>
vars == <<session, up, job, wire, history>>

-----------------------------------------------------------------------------
(* Packets: the calls a driver makes.  "ask" is a write whose refusal makes *)
(* the driver skip to Stop, "last" a read that is not acknowledged.         *)
FaultyCalls(p) ==
  CASE p = "boot"     -> <<"release", "read", "stop", "close">>
    [] p = "probe"    -> <<"open", "startW", "stop", "close">>
    [] p = "command"  -> <<"open", "startW", "write", "write", "stop", "close">>
    [] p = "info"     -> <<"open", "startW", "write", "startR", "read", "last", "stop", "close">>
    [] p = "position" -> <<"open", "startW", "ask", "startR", "read", "read", "stop", "close">>
    [] p = "speed"    -> <<"open", "startW", "ask", "startR", "read", "read", "stop", "close">>

Calls(p) ==
  CASE p = "boot"     -> <<"release", "read", "stop", "close">>
    [] p = "probe"    -> <<"open", "startW", "stop", "close">>
    [] p = "command"  -> <<"open", "startW", "write", "write", "stop", "close">>
    [] p = "info"     -> <<"open", "startW", "write", "startR", "read", "last", "stop", "close">>
    [] p = "position" -> <<"open", "startW", "ask", "startR", "read", "last", "stop", "close">>
    [] p = "speed"    -> <<"open", "startW", "ask", "startR", "read", "read", "stop", "close">>

Packets == {"probe", "command", "info", "position", "speed"}

ASSUME BusAssumption ==
  /\ Main \in Threads /\ Free \notin Threads
  /\ Used \subseteq Packets
  /\ Ids \in Nat \ {0} /\ Prime \in Nat /\ Prime % Ids # 0 /\ MaxKills \in Nat

NoJob == [packet |-> "none", calls |-> <<>>, n |-> 0, ack |-> 0, sid |-> 0]
Job(p) == [packet |-> p, calls |-> Calls(p), n |-> 0, ack |-> 0, sid |-> 0]
Call(t) == IF job[t].calls = <<>> THEN "none" ELSE Head(job[t].calls)

-----------------------------------------------------------------------------
(* The register writes of a call, in order.  The nine clocks of a byte are  *)
(* three writes each: set up the data line, raise the clock, lower it.      *)
Bit == {0, 1}
Reads == {"read", "last"}
Starts == {"startW", "startR"}
Bytes == {"write", "ask"} \cup Reads

FaultyByteLength == 24

ByteLength == 27
Header(c) == IF c \in Starts THEN 3 ELSE 0  \* writes of Start before the byte

FaultyLength(c) ==
  CASE c = "release" -> 1 [] c = "stop" -> 2 [] OTHER -> Header(c) + ByteLength

Length(c) ==
  CASE c = "release" -> 1 [] c = "stop" -> 3 [] OTHER -> Header(c) + ByteLength

(* The levels of the data line the master may set up for bit b of a byte *)
Levels(c, b) ==
  CASE b = 8 /\ c = "read" -> {0}             \* I2C_Tx(!ack)
    [] b = 8 /\ c # "read" -> {1}             \* I2C_Rx, or the end of a read
    [] b < 8 /\ c \in Reads -> {1}
    [] b = 7 /\ c \in Starts -> {IF c = "startR" THEN 1 ELSE 0}
    [] OTHER -> Bit

ByteWrites(c, k) ==
  CASE k % 3 = 0 -> [sda : Levels(c, k \div 3), scl : {0}]
    [] k % 3 = 1 -> {[reg EXCEPT !.scl = 1]}
    [] k % 3 = 2 -> {[reg EXCEPT !.scl = 0]}

High(b) == [sda |-> b, scl |-> 1]
Low(b) == [sda |-> b, scl |-> 0]

Writes(c, n) ==
  IF c = "release" THEN {High(1)}
  ELSE IF c = "stop" THEN {<<Low(0), High(0), High(1)>>[n + 1]}
  ELSE IF n < Header(c) THEN {<<High(1), High(0), Low(0)>>[n + 1]}
  ELSE ByteWrites(c, n - Header(c))

-----------------------------------------------------------------------------
(* The device (external): it leaves the data line alone until a start      *)
(* condition, takes eight bits of address and direction, and then receives *)
(* or sends bytes.  The receiver of a byte acknowledges it by pulling the  *)
(* data line low at the ninth clock.                                       *)
Silent == [mode |-> "idle", n |-> 0, read |-> 0, drive |-> 1]
Started == [Silent EXCEPT !.mode = "addr"]
Sending == [mode : {"send"}, n : {0}, read : {1}, drive : Bit]
Receiving == [Silent EXCEPT !.mode = "recv"]

Line(r, d) == IF r.sda = 0 \/ d.drive = 0 THEN 0 ELSE 1

Risen(d, level) ==
  CASE d.mode = "idle" -> d
    [] d.mode # "idle" /\ d.n < 8 ->
         [d EXCEPT !.n = @ + 1, !.read = IF d.mode = "addr" THEN level ELSE @]
    [] d.mode = "send" /\ d.n = 8 /\ level = 1 -> Silent
    [] OTHER -> [d EXCEPT !.n = 9]

Fallen(d) ==
  CASE d.mode = "idle" -> {d}
    [] d.mode = "send" /\ d.n < 8 -> {[d EXCEPT !.drive = b] : b \in Bit}
    [] d.mode = "send" /\ d.n = 8 -> {[d EXCEPT !.drive = 1]}
    [] d.mode # "send" /\ d.n = 8 -> {[d EXCEPT !.drive = 0], Silent}
    [] d.n = 9 -> IF d.read = 1 THEN Sending ELSE {Receiving}
    [] OTHER -> {d}

(* One wire changes its level *)
Heard(d, a, b) ==
  CASE a = b \/ (a.scl = 0 /\ b.scl = 0) -> {d}
    [] a.scl = 0 /\ b.scl = 1 -> {Risen(d, b.sda)}
    [] a.scl = 1 /\ b.scl = 0 -> Fallen(d)
    [] OTHER ->
         IF d.drive = 0 THEN {d} ELSE IF b.sda = 0 THEN {Started} ELSE {Silent}

(* A write that changes both: their order on the wires is not determined *)
HeardBoth(d, a, b) ==
  UNION {UNION {Heard(m, mid, b) : m \in Heard(d, a, mid)} :
           mid \in {[a EXCEPT !.scl = b.scl], [a EXCEPT !.sda = b.sda]}}

-----------------------------------------------------------------------------
Init ==
  /\ mutex = Free /\ SessionActive = TRUE /\ SessionID = 0
  /\ up = FALSE
  /\ job = [t \in Threads |-> IF t = Main THEN Job("boot") ELSE NoJob]
  /\ reg = Low(1) /\ dev = Silent
  /\ ended = "none" /\ kills = 0 /\ afterSpeed = FALSE

(* A driver begins a packet; Open comes first. *)
Begin(t, p) ==
  /\ up /\ Call(t) = "none"
  /\ job' = [job EXCEPT ![t] = Job(p)]
  /\ UNCHANGED <<session, up, wire, history>>

NextId ==
  LET id == (SessionID + Prime) % Ids IN
  IF id = 0 THEN Prime % Ids ELSE id

FaultyOpen(t) ==
  /\ Call(t) = "open"
  /\ mutex' = t /\ SessionActive' = TRUE /\ SessionID' = NextId
  /\ job' = [job EXCEPT ![t].calls = Tail(@), ![t].sid = NextId]
  /\ UNCHANGED <<up, wire, history>>

(* Open(true) *)
Open(t) ==
  /\ Call(t) = "open" /\ mutex = Free
  /\ mutex' = t /\ SessionActive' = TRUE /\ SessionID' = NextId
  /\ job' = [job EXCEPT ![t].calls = Tail(@), ![t].sid = NextId]
  /\ UNCHANGED <<up, wire, history>>

(* Start checks the session, WriteByte, ReadByte and Stop that there is one *)
Refused(t) ==
  \/ ~SessionActive
  \/ Call(t) \in Starts /\ SessionID # job[t].sid

OnBus(t) == Call(t) \in {"release", "stop"} \cup Starts \cup Bytes

(* After its first write, Start waits for both lines to be high. *)
BusIsIdle == reg.scl = 1 /\ Line(reg, dev) = 1

Remaining(t, acked) ==
  IF Call(t) = "ask" /\ acked = 0 THEN <<"stop", "close">> ELSE Tail(job[t].calls)

(* Write number n of call c, and in it the reading of the acknowledgement *)
Write(t, c, n) ==
  \E r \in Writes(c, n) :
    LET acked == IF c # "ask" THEN 0
                 ELSE IF n = Length(c) - 2 THEN 1 - Line(r, dev') ELSE job[t].ack IN
    /\ reg' = r
    /\ dev' \in HeardBoth(dev, reg, r)
    /\ job' = [job EXCEPT ![t] =
                 IF n + 1 < Length(c) THEN [@ EXCEPT !.n = n + 1, !.ack = acked]
                 ELSE [@ EXCEPT !.n = 0, !.ack = 0, !.calls = Remaining(t, acked)]]

(* The next write of the call a thread is in; a refused call returns. *)
Drive(t) ==
  LET c == Call(t)
      n == job[t].n IN
  /\ OnBus(t)
  /\ c \in Starts /\ n = 1 => BusIsIdle
  /\ IF c # "release" /\ n = 0 /\ Refused(t)
     THEN job' = [job EXCEPT ![t].calls = Remaining(t, 0)] /\ UNCHANGED wire
     ELSE Write(t, c, n)
  /\ UNCHANGED <<session, up, history>>

(* The empty loop of Start *)
Wait(t) ==
  /\ Call(t) \in Starts /\ job[t].n = 1 /\ ~BusIsIdle
  /\ UNCHANGED vars

(* Close; the constructor unlocks a mutex that nobody has locked. *)
Close(t) ==
  /\ Call(t) = "close"
  /\ IF SessionActive /\ SessionID = job[t].sid
     THEN SessionActive' = FALSE /\ mutex' = Free
     ELSE UNCHANGED <<SessionActive, mutex>>
  /\ up' = TRUE /\ afterSpeed' = (job[t].packet = "speed")
  /\ job' = [job EXCEPT ![t] = NoJob]
  /\ UNCHANGED <<SessionID, wire, ended, kills>>

(* The process ends, and another constructs the bus.  A killed process     *)
(* leaves the register as it is; an orderly one is not inside a packet,    *)
(* and its destructor releases both lines, which changes nothing then.     *)
Restart ==
  /\ mutex' = Free /\ SessionActive' = TRUE /\ SessionID' = 0 /\ up' = FALSE
  /\ ended' = dev.mode
  /\ job' = [t \in Threads |-> IF t = Main THEN Job("boot") ELSE NoJob]
  /\ UNCHANGED <<wire, afterSpeed>>

Kill ==
  /\ kills < MaxKills
  /\ kills' = kills + 1
  /\ Restart

Exit ==
  /\ up /\ \A t \in Threads : Call(t) = "none"
  /\ UNCHANGED kills
  /\ Restart

-----------------------------------------------------------------------------
Step(t) == Open(t) \/ Drive(t) \/ Wait(t) \/ Close(t)

Next ==
  \/ \E t \in Threads : Step(t) \/ \E p \in Used : Begin(t, p)
  \/ Kill \/ Exit

Spec == Init /\ [][Next]_vars

(* The processor runs the thread that has the bus. *)
FairSpec == Spec /\ \A t \in Threads : WF_vars(Drive(t) \/ Close(t))

-----------------------------------------------------------------------------
TypeOK ==
  /\ mutex \in Threads \cup {Free} /\ SessionActive \in BOOLEAN
  /\ SessionID \in 0..(Ids - 1) /\ up \in BOOLEAN
  /\ \A t \in Threads :
       /\ job[t].packet \in Packets \cup {"boot", "none"}
       /\ job[t].n \in 0..(Length("startW") - 1) /\ job[t].sid \in 0..(Ids - 1)
  /\ afterSpeed \in BOOLEAN /\ kills \in 0..MaxKills
  /\ reg \in [sda : Bit, scl : Bit]
  /\ dev \in [mode : {"idle", "addr", "recv", "send"}, n : 0..9, read : Bit, drive : Bit]

(* A thread with a session has the mutex, and the identifier that Start and *)
(* Close compare is its own; so at most one has.  Close takes any session   *)
(* for closed when none is active, and unlocks for whoever knows the        *)
(* identifier, which a constructor does without having locked.              *)
SessionOwned ==
  \A t \in Threads :
    job[t].sid # 0 => mutex = t /\ SessionActive /\ SessionID = job[t].sid

(* Master and device agree where a byte begins and who sends it, whatever  *)
(* other threads do and whatever an earlier process left on the bus: "to   *)
(* ensure drivers sharing the bus do not issue overlapping I/O"            *)
(* (qei2cbus.h).                                                           *)
Role(c) == CASE c \in Starts -> "addr" [] c \in Reads -> "send" [] OTHER -> "recv"

Aligned ==
  \A t \in Threads :
    up /\ Call(t) \in Starts \cup Bytes /\ job[t].n = Header(Call(t)) =>
      \/ dev.mode = Role(Call(t)) /\ dev.n = 0
      \/ dev.mode = "idle" /\ Call(t) \notin Starts

(* A bus that nobody has open is idle, also after the constructor of the   *)
(* program that follows one killed in the middle of a read: the device has *)
(* seen the end of the packet and holds no line.  (Not after Speed, and    *)
(* not after a kill in the middle of a write: BusFreed and BusCleared.)    *)
Fresh == SessionID = 0

IdleWhenClosed ==
  up /\ mutex = Free /\ ~afterSpeed /\ (Fresh => ended \in {"none", "idle", "send"}) =>
    dev.mode = "idle" /\ BusIsIdle

(* A session that is open ends, unless the bus was held when it began.     *)
(* Start waits for an idle bus without limit, with the mutex taken.        *)
Holds(t) == mutex = t
HeldBefore == afterSpeed \/ ended \in {"addr", "recv"}

SessionEnds == \A t \in Threads : Holds(t) ~> (~Holds(t) \/ HeldBefore)

(* The constructor clears a bus that a process has left in the middle of a *)
(* byte of data ("Clock in one byte just to clear the bus",                *)
(* qei2cbus.cxx:384).  A process killed after seven bits of a byte it was  *)
(* writing leaves a device that acknowledges just when Stop is sent.       *)
BusCleared == up /\ Fresh /\ ended # "addr" => dev.mode = "idle" /\ BusIsIdle

(* Close releases the bus for other drivers ("release control and allow    *)
(* other device drivers access", qei2cbus.h).                              *)
BusFreed == up /\ mutex = Free /\ ~Fresh => dev.mode = "idle" /\ BusIsIdle
=============================================================================
