--------------------------- MODULE TrajectoryProofs ---------------------------
(***************************************************************************)
(* Proofs about Trajectory for every set of axes and of clients, every     *)
(* recording and every queue.                                              *)
(*                                                                         *)
(* OneWaypointAfterStop is not inductive: it needs to know where a waypoint *)
(* may still come from.  Pending says so of an axis, and Inv adds that a   *)
(* stopped axis has no command, that playback is never stopped this way,   *)
(* and that the one waypoint has not been queued while it is pending.      *)
(***************************************************************************)
EXTENDS Trajectory, TLAPS

Writing == at \in {"write", "velocity", "servo", "put", "blocked"}

(* The thread has passed its last test of the axis's bits, or will find    *)
(* m_servo set when it gets there.                                         *)
Pending(a) ==
  /\ Writing /\ a \in todo
  /\ servo \/ (at \in {"put", "blocked"} /\ a = Low)

StoppedInv ==
  /\ \A a \in stopped : a \notin trajectory /\ a \notin velocity
  /\ state \in {"transition_play", "play"} => stopped = {}
  /\ \A a \in stopped : extra[a] <= 1 /\ (Pending(a) => extra[a] = 0)

Inv == TypeOK /\ ServoOnlyForPlay /\ StoppedInv
-----------------------------------------------------------------------------
(* While the thread writes there is an axis to write, the lowest of todo.  *)
LEMMA LowInTodo == ASSUME TypeOK, Writing PROVE Low \in todo /\ Low \in Axes
<1>1. todo \subseteq 0..3 /\ todo \subseteq Axes /\ todo # {}
  BY TrajectoryAssumption DEF TypeOK, Writing
<1>2. \E a \in todo : \A b \in todo : a <= b
  <2>1. CASE 0 \in todo
    BY <1>1, <2>1
  <2>2. CASE 0 \notin todo /\ 1 \in todo
    BY <1>1, <2>2
  <2>3. CASE 0 \notin todo /\ 1 \notin todo /\ 2 \in todo
    BY <1>1, <2>3
  <2>4. CASE 0 \notin todo /\ 1 \notin todo /\ 2 \notin todo
    <3>1. \A b \in todo : b = 3
      BY <1>1, <2>4
    <3>2. PICK a \in todo : TRUE
      BY <1>1
    <3>3. a = 3 /\ \A b \in todo : a <= b
      BY <3>1, <3>2
    <3> QED BY <3>3
  <2> QED BY <2>1, <2>2, <2>3, <2>4
<1>3. Low \in todo
  BY <1>2 DEF Low
<1> QED BY <1>1, <1>3

(* The thread leaves its lowest axis behind: what is pending of another is *)
(* what was pending of it.                                                 *)
LEMMA NextAxisKeeps ==
  ASSUME TypeOK, Writing, NextAxis, UNCHANGED servo
  PROVE  /\ todo' \subseteq Axes
         /\ at' \in {"write", "read"} /\ (at' = "write" => todo' # {})
         /\ \A a \in Axes : Pending(a)' => a # Low /\ Pending(a)
<1>1. Low \in todo
  BY LowInTodo
<1>2. todo' = todo \ {Low} /\ at' = IF todo = {Low} THEN "read" ELSE "write"
  BY DEF NextAxis
<1>3. todo' \subseteq Axes /\ at' \in {"write", "read"} /\ (at' = "write" => todo' # {})
  BY <1>1, <1>2 DEF TypeOK
<1>4. ASSUME NEW a \in Axes, Pending(a)' PROVE a # Low /\ Pending(a)
  <2>1. a \in todo' /\ servo'
    BY <1>3, <1>4 DEF Pending
  <2> QED BY <1>2, <2>1 DEF Pending
<1> QED BY <1>3, <1>4

LEMMA InvInit == Init => Inv
<1>1. SUFFICES ASSUME Init PROVE Inv
  OBVIOUS
<1>2. TypeOK
  <2>1. 0 \in 0..Frames /\ 0 \in 0..QueueSize
    BY TrajectoryAssumption
  <2>2. /\ kq \in [Axes -> 0..QueueSize] /\ extra \in [Axes -> 0..2]
        /\ kTrajectory \in [Axes -> BOOLEAN] /\ kFlushed \in [Axes -> BOOLEAN]
        /\ waypoint \in [Axes -> {"stale", "current"}]
    BY <1>1, <2>1 DEF Init
  <2> QED BY <1>1, <2>1, <2>2 DEF Init, TypeOK
<1>3. ServoOnlyForPlay /\ StoppedInv
  BY <1>1 DEF Init, ServoOnlyForPlay, StoppedInv, Pending, Writing
<1> QED BY <1>2, <1>3 DEF Inv

LEMMA TickInv == Inv /\ Tick => Inv'
<1>1. SUFFICES ASSUME Inv, Tick PROVE Inv'
  OBVIOUS
<1>2. /\ UNCHANGED <<run, trajectory, velocity, still, begun, waypoint, state, servo>>
      /\ UNCHANGED <<readIndex, writeIndex, at, todo, kFlushed, pc, stopped, extra>>
  BY <1>1 DEF Tick, moveVars, recVars, threadVars, histVars
<1>3. kq' \in [Axes -> 0..QueueSize]
  <2>1. kq' = [a \in Axes |-> IF kq[a] > 0 THEN kq[a] - 1 ELSE 0]
    BY <1>1 DEF Tick
  <2> QED BY <1>1, <2>1, TrajectoryAssumption DEF Inv, TypeOK
<1>4. kTrajectory' \in [Axes -> BOOLEAN]
  <2>1. PICK expired : kTrajectory' = [a \in Axes |-> a \notin expired
                                        /\ (kTrajectory[a] \/ kq[a] > 0)]
    BY <1>1 DEF Tick
  <2> QED BY <2>1
<1>5. TypeOK'
  BY <1>1, <1>2, <1>3, <1>4 DEF Inv, TypeOK
<1>6. ServoOnlyForPlay' /\ StoppedInv'
  BY <1>1, <1>2 DEF Inv, ServoOnlyForPlay, StoppedInv, Pending, Writing, Low
<1> QED BY <1>5, <1>6 DEF Inv

(* The thread before and after it generates a waypoint. *)
LEMMA WaitInv ==
  ASSUME Inv, While \/ Wait \/ Spurious \/ ReadPosition
  PROVE  Inv'
<1>1. /\ UNCHANGED <<run, trajectory, velocity, still, begun, waypoint, state, servo>>
      /\ UNCHANGED <<readIndex, writeIndex, todo, kq, kTrajectory, kFlushed, pc>>
      /\ UNCHANGED <<stopped, extra>>
  BY DEF While, Wait, Spurious, ReadPosition, moveVars, recVars, driverVars, histVars
<1>2. /\ at' \in {"lock", "exit", "wait", "read", "generate"}
  BY DEF While, Wait, Spurious, ReadPosition, Inv, TypeOK
<1>3. TypeOK'
  BY <1>1, <1>2 DEF Inv, TypeOK
<1>4. ServoOnlyForPlay' /\ StoppedInv'
  BY <1>1, <1>2 DEF Inv, ServoOnlyForPlay, StoppedInv, Pending, Writing
<1> QED BY <1>3, <1>4 DEF Inv

(* One step of a recording or of playback. *)
LEMMA RecordUpdateKeeps ==
  ASSUME Inv, RecordUpdate
  PROVE  /\ state' \in {"standby", "play", "record"} /\ servo' \in BOOLEAN
         /\ readIndex' \in 0..Frames /\ writeIndex' \in 0..Frames
         /\ waypoint' \in [Axes -> {"stale", "current"}]
         /\ ServoOnlyForPlay'
         /\ servo' => stopped = {}
         /\ state' = "play" => stopped = {}
<1> USE TrajectoryAssumption
<1>1. CASE state = "transition_play"
  BY <1>1 DEF RecordUpdate, Current, Inv, TypeOK, StoppedInv, ServoOnlyForPlay
<1>2. CASE state = "play"
  <2>1. stopped = {} /\ writeIndex' = writeIndex
    BY <1>2 DEF RecordUpdate, Inv, StoppedInv
  <2>2. CASE Played
    BY <1>2, <2>1, <2>2 DEF RecordUpdate, RStop, Inv, TypeOK, ServoOnlyForPlay
  <2>3. CASE ~Played
    BY <1>2, <2>1, <2>3 DEF RecordUpdate, Current, Played, Inv, TypeOK, ServoOnlyForPlay
  <2> QED BY <2>2, <2>3
<1>3. CASE state = "transition_record"
  BY <1>3 DEF RecordUpdate, Inv, TypeOK, ServoOnlyForPlay
<1>4. CASE state = "record"
  BY <1>4 DEF RecordUpdate, Full, Inv, TypeOK, ServoOnlyForPlay
<1> QED BY <1>1, <1>2, <1>3, <1>4 DEF RecordUpdate

LEMMA GenerateInv == ASSUME Inv, Generate PROVE Inv'
<1>1. /\ UNCHANGED <<run, kq, kTrajectory, kFlushed, pc, stopped, extra>>
      /\ at = "generate"
  BY DEF Generate, driverVars, histVars
<1>2. CASE (Active = {} /\ ~RecordActive) \/ ~run
  <2>1. /\ at' = "while" /\ UNCHANGED todo
        /\ UNCHANGED <<trajectory, velocity, still, begun, waypoint, state, servo>>
        /\ UNCHANGED <<readIndex, writeIndex>>
    BY <1>2 DEF Generate, moveVars, recVars
  <2>2. TypeOK'
    BY <1>1, <2>1 DEF Inv, TypeOK
  <2> QED BY <1>1, <2>1, <2>2 DEF Inv, ServoOnlyForPlay, StoppedInv, Pending, Writing
<1>3. CASE ~((Active = {} /\ ~RecordActive) \/ ~run) /\ RecordActive
  <2>1. /\ at' = "write" /\ todo' = Axes /\ RecordUpdate
        /\ UNCHANGED <<trajectory, velocity, still, begun>>
    BY <1>3 DEF Generate
  <2>2. /\ state' \in {"standby", "play", "record"} /\ servo' \in BOOLEAN
        /\ readIndex' \in 0..Frames /\ writeIndex' \in 0..Frames
        /\ waypoint' \in [Axes -> {"stale", "current"}]
        /\ ServoOnlyForPlay'
        /\ servo' => stopped = {}
        /\ state' = "play" => stopped = {}
    BY <2>1, RecordUpdateKeeps
  <2>3. TypeOK'
    BY <1>1, <2>1, <2>2, TrajectoryAssumption DEF Inv, TypeOK
  <2>4. StoppedInv'
    BY <1>1, <2>1, <2>2 DEF Inv, StoppedInv, Pending, Writing
  <2> QED BY <2>2, <2>3, <2>4 DEF Inv
<1>4. CASE ~((Active = {} /\ ~RecordActive) \/ ~run) /\ ~RecordActive
  <2>1. /\ at' = "write" /\ todo' = Axes
        /\ UNCHANGED <<state, servo, readIndex, writeIndex>> /\ state = "standby"
        /\ TrapezoidTrajectory
    BY <1>4 DEF Generate, RecordActive, recVars
  <2>2. /\ trajectory' \subseteq trajectory /\ velocity' \subseteq velocity
        /\ still' = still /\ begun' \subseteq begun \cup trajectory \cup velocity
        /\ waypoint' \in [Axes -> {"stale", "current"}]
    BY <2>1 DEF TrapezoidTrajectory, Active, Inv, TypeOK
  <2>3. TypeOK'
    BY <1>1, <2>1, <2>2, TrajectoryAssumption DEF Inv, TypeOK
  <2>4. ServoOnlyForPlay' /\ StoppedInv'
    BY <1>1, <2>1, <2>2 DEF Inv, ServoOnlyForPlay, StoppedInv, Pending, Writing
  <2> QED BY <2>3, <2>4 DEF Inv
<1> QED BY <1>2, <1>3, <1>4

LEMMA TestBitsInv == ASSUME Inv, TestBits PROVE Inv'
<1>1. /\ UNCHANGED <<run, trajectory, velocity, still, begun, waypoint, state, servo>>
      /\ UNCHANGED <<readIndex, writeIndex, kq, kTrajectory, kFlushed, pc>>
      /\ UNCHANGED <<stopped, extra>>
  BY DEF TestBits, moveVars, recVars, driverVars, histVars
<1>2. Writing /\ Low \in todo
  BY LowInTodo DEF TestBits, Writing, Inv
<1>3. ServoOnlyForPlay'
  BY <1>1 DEF Inv, ServoOnlyForPlay
<1>4. CASE UNCHANGED todo
  <2>1. /\ at' \in {"velocity", "servo", "put"} /\ todo # {}
        /\ at' = "put" => servo \/ Low \in trajectory \/ Low \in velocity
    BY <1>2, <1>4 DEF TestBits, NextAxis
  <2>2. TypeOK'
    BY <1>1, <1>4, <2>1 DEF Inv, TypeOK
  <2>3. Low' = Low
    BY <1>4 DEF Low
  <2>4. ASSUME NEW a \in stopped, Pending(a)' PROVE Pending(a)
    BY <1>1, <1>2, <1>4, <2>1, <2>3, <2>4 DEF Pending, Inv, StoppedInv, Writing
  <2>5. StoppedInv'
    BY <1>1, <2>4 DEF Inv, StoppedInv
  <2> QED BY <1>3, <2>2, <2>5 DEF Inv
<1>5. CASE NextAxis
  <2>1. /\ todo' \subseteq Axes
        /\ at' \in {"write", "read"} /\ (at' = "write" => todo' # {})
        /\ \A a \in Axes : Pending(a)' => a # Low /\ Pending(a)
    BY <1>1, <1>2, <1>5, NextAxisKeeps DEF Inv
  <2>2. TypeOK'
    BY <1>1, <2>1 DEF Inv, TypeOK
  <2>3. StoppedInv'
    BY <1>1, <2>1 DEF Inv, StoppedInv, TypeOK
  <2> QED BY <1>3, <2>2, <2>3 DEF Inv
<1> QED BY <1>4, <1>5 DEF TestBits

(* What the driver does with a waypoint of the lowest axis. *)
LEMMA QueueKeeps ==
  ASSUME Inv, at \in {"put", "blocked"}, kq[Low] < QueueSize, Queue(Low)
  PROVE  /\ kq' \in [Axes -> 0..QueueSize] /\ extra' \in [Axes -> 0..2]
         /\ \A a \in Axes \ {Low} : extra'[a] = extra[a]
         /\ Low \in stopped => extra'[Low] <= 1
<1>1. Low \in todo /\ Low \in Axes
  BY LowInTodo DEF Inv, Writing
<1>2. kq[Low] \in 0..QueueSize /\ extra[Low] \in 0..2
  BY <1>1 DEF Inv, TypeOK
<1>3. kq' = [kq EXCEPT ![Low] = kq[Low] + 1] /\ kq[Low] + 1 \in 0..QueueSize
  BY <1>2, TrajectoryAssumption DEF Queue
<1>4. Low \in stopped => extra[Low] = 0
  BY <1>1 DEF Inv, StoppedInv, Pending, Writing
<1>5. PICK n \in 0..2 : /\ extra' = [extra EXCEPT ![Low] = n]
                        /\ Low \in stopped => n <= 1
  <2>1. CASE Low \notin stopped \/ extra[Low] = 2
    <3>1. extra' = [extra EXCEPT ![Low] = extra[Low]]
      BY <2>1 DEF Queue
    <3>2. Low \in stopped => extra[Low] <= 1
      BY <1>4
    <3> QED BY <1>2, <3>1, <3>2
  <2>2. CASE ~(Low \notin stopped \/ extra[Low] = 2)
    <3>1. extra' = [extra EXCEPT ![Low] = extra[Low] + 1]
      BY <2>2 DEF Queue
    <3>2. extra[Low] + 1 \in 0..2 /\ (Low \in stopped => extra[Low] + 1 <= 1)
      BY <1>2, <1>4, <2>2
    <3> QED BY <3>1, <3>2
  <2> QED BY <2>1, <2>2
<1>6. kq \in [Axes -> 0..QueueSize] /\ extra \in [Axes -> 0..2]
  BY DEF Inv, TypeOK
<1>7. kq' \in [Axes -> 0..QueueSize]
  BY <1>1, <1>3, <1>6
<1>8. /\ extra' \in [Axes -> 0..2] /\ extra'[Low] = n
      /\ \A a \in Axes \ {Low} : extra'[a] = extra[a]
  BY <1>1, <1>5, <1>6
<1> QED BY <1>5, <1>7, <1>8

LEMMA PutInv == ASSUME Inv, Put \/ Unblock PROVE Inv'
<1>1. /\ UNCHANGED <<run, trajectory, velocity, still, begun, waypoint, state, servo>>
      /\ UNCHANGED <<readIndex, writeIndex, kTrajectory, pc, stopped>>
      /\ at \in {"put", "blocked"}
  BY DEF Put, Unblock, moveVars, recVars
<1>2. Writing /\ Low \in todo /\ Low \in Axes
  BY <1>1, LowInTodo DEF Writing, Inv
<1>3. ServoOnlyForPlay'
  BY <1>1 DEF Inv, ServoOnlyForPlay
<1>4. kFlushed' \in [Axes -> BOOLEAN]
  BY DEF Put, Unblock, Inv, TypeOK
<1>5. CASE NextAxis
  <2>1. /\ todo' \subseteq Axes
        /\ at' \in {"write", "read"} /\ (at' = "write" => todo' # {})
        /\ \A a \in Axes : Pending(a)' => a # Low /\ Pending(a)
    BY <1>1, <1>2, <1>5, NextAxisKeeps DEF Inv
  <2>2. /\ kq' \in [Axes -> 0..QueueSize] /\ extra' \in [Axes -> 0..2]
        /\ \A a \in Axes \ {Low} : extra'[a] = extra[a]
        /\ Low \in stopped => extra'[Low] <= 1
    <3>1. CASE UNCHANGED <<kq, extra>>
      BY <3>1, <1>2 DEF Inv, TypeOK, StoppedInv
    <3>2. CASE kq[Low] < QueueSize /\ Queue(Low)
      BY <3>2, <1>1, QueueKeeps
    <3> QED BY <3>1, <3>2 DEF Put, Unblock
  <2>3. TypeOK'
    BY <1>1, <1>4, <2>1, <2>2 DEF Inv, TypeOK
  <2>4. ASSUME NEW a \in stopped
        PROVE  extra'[a] <= 1 /\ (Pending(a)' => extra'[a] = 0)
    <3>1. a \in Axes
      BY DEF Inv, TypeOK
    <3>2. CASE a = Low
      BY <3>1, <3>2, <2>1, <2>2
    <3>3. CASE a # Low
      BY <3>1, <3>3, <2>1, <2>2 DEF Inv, StoppedInv
    <3> QED BY <3>2, <3>3
  <2>5. StoppedInv'
    BY <1>1, <2>4 DEF Inv, StoppedInv
  <2> QED BY <1>3, <2>3, <2>5 DEF Inv
<1>6. CASE at' = "blocked" /\ UNCHANGED <<todo, kq, extra>>
  <2>1. TypeOK'
    BY <1>1, <1>2, <1>4, <1>6 DEF Inv, TypeOK
  <2>2. Low' = Low
    BY <1>6 DEF Low
  <2>3. \A a \in stopped : Pending(a)' => Pending(a)
    BY <1>1, <1>2, <1>6, <2>2 DEF Pending, Writing
  <2>4. StoppedInv'
    BY <1>1, <1>6, <2>3 DEF Inv, StoppedInv
  <2> QED BY <1>3, <2>1, <2>4 DEF Inv
<1> QED BY <1>5, <1>6 DEF Put, Unblock

(* No method starts a write: a signal sends the thread back to its reading *)
(* of positions, and m_servo is only set by playback.                      *)
LEMMA SignalKeeps ==
  ASSUME Inv, Signal \/ UNCHANGED at, UNCHANGED todo, servo' => servo
  PROVE  /\ at' \in {"while", "lock", "wait", "read", "generate", "write",
                     "velocity", "servo", "put", "blocked", "exit"}
         /\ at' \in {"write", "velocity", "servo", "put", "blocked"} => todo' # {}
         /\ \A a \in Axes : Pending(a)' => Pending(a)
<1>1. at' = at \/ at' = "read"
  BY DEF Signal
<1>2. Low' = Low
  BY DEF Low
<1> QED BY <1>1, <1>2 DEF Inv, TypeOK, Pending, Writing

LEMMA MoveInv ==
  ASSUME Inv, NEW c \in Clients, NEW a \in Axes, Move(c, a) \/ MoveVelocity(c, a)
  PROVE  Inv'
<1>1. /\ UNCHANGED <<run, state, servo, readIndex, writeIndex, todo, kq>>
      /\ UNCHANGED <<kTrajectory, kFlushed, pc>>
      /\ Signal /\ stopped' = stopped \ {a} /\ extra' = [extra EXCEPT ![a] = 0]
  BY DEF Move, MoveVelocity, recVars, driverVars
<1>2. /\ trajectory' \subseteq trajectory \cup {a}
      /\ velocity' \subseteq velocity \cup {a}
      /\ still' \subseteq Axes /\ begun' \subseteq Axes
      /\ waypoint' \in [Axes -> {"stale", "current"}]
  BY DEF Move, MoveVelocity, Stale, Inv, TypeOK
<1>3. /\ at' \in {"while", "lock", "wait", "read", "generate", "write",
                  "velocity", "servo", "put", "blocked", "exit"}
      /\ at' \in {"write", "velocity", "servo", "put", "blocked"} => todo' # {}
      /\ \A b \in Axes : Pending(b)' => Pending(b)
  BY <1>1, SignalKeeps
<1>4. TypeOK'
  <2>1. stopped' \subseteq Axes /\ extra' \in [Axes -> 0..2]
    BY <1>1 DEF Inv, TypeOK
  <2>2. trajectory' \subseteq Axes /\ velocity' \subseteq Axes
    BY <1>2 DEF Inv, TypeOK
  <2> QED BY <1>1, <1>2, <1>3, <2>1, <2>2 DEF Inv, TypeOK
<1>5. ServoOnlyForPlay' /\ StoppedInv'
  BY <1>1, <1>2, <1>3 DEF Inv, TypeOK, ServoOnlyForPlay, StoppedInv
<1> QED BY <1>4, <1>5 DEF Inv

LEMMA StopInv == ASSUME Inv, NEW c \in Clients, NEW a \in Axes, Stop(c, a) PROVE Inv'
<1>1. /\ UNCHANGED <<run, still, begun, state, servo, readIndex, writeIndex>>
      /\ UNCHANGED <<at, todo, pc>>
      /\ trajectory' = trajectory \ {a} /\ velocity' = velocity \ {a}
      /\ extra' = [extra EXCEPT ![a] = 0]
      /\ stopped' = IF state \in {"transition_play", "play"} THEN stopped
                    ELSE stopped \cup {a}
  BY DEF Stop, recVars, threadVars
<1>2. /\ waypoint' \in [Axes -> {"stale", "current"}]
      /\ kq' \in [Axes -> 0..QueueSize]
      /\ kTrajectory' \in [Axes -> BOOLEAN] /\ kFlushed' \in [Axes -> BOOLEAN]
  <2>1. 0 \in 0..QueueSize
    BY TrajectoryAssumption
  <2> QED BY <2>1 DEF Stop, Stale, Inv, TypeOK
<1>3. TypeOK'
  <2>1. stopped' \subseteq Axes /\ extra' \in [Axes -> 0..2]
    BY <1>1 DEF Inv, TypeOK
  <2>2. trajectory' \subseteq Axes /\ velocity' \subseteq Axes
    BY <1>1 DEF Inv, TypeOK
  <2> QED BY <1>1, <1>2, <2>1, <2>2 DEF Inv, TypeOK
<1>4. \A b \in Axes : Pending(b)' => Pending(b)
  BY <1>1, SignalKeeps
<1>5. ServoOnlyForPlay'
  BY <1>1 DEF Inv, ServoOnlyForPlay
<1>6. StoppedInv'
  BY <1>1, <1>4 DEF Inv, TypeOK, StoppedInv
<1> QED BY <1>3, <1>5, <1>6 DEF Inv

LEMMA RecordInv ==
  ASSUME Inv, NEW c \in Clients, Record(c) \/ Play(c) \/ StopRecord(c)
  PROVE  Inv'
<1>1. /\ UNCHANGED <<run, trajectory, velocity, still, begun, waypoint>>
      /\ UNCHANGED <<at, todo, kq, kTrajectory, kFlushed>>
      /\ servo' => servo
  BY DEF Record, Play, StopRecord, RStop, moveVars, threadVars, driverVars
<1>2. /\ pc' \in [Clients -> {"idle", "signal", "destroy", "join", "gone"}]
      /\ readIndex' \in 0..Frames /\ writeIndex' \in 0..Frames
      /\ servo' \in BOOLEAN
  <2>1. 0 \in 0..Frames
    BY TrajectoryAssumption
  <2>2. CASE StopRecord(c)
    BY <2>2 DEF StopRecord, RStop, Inv, TypeOK
  <2>3. CASE Record(c)
    BY <2>1, <2>3 DEF Record, Inv, TypeOK
  <2>4. CASE Play(c)
    BY <2>1, <2>4 DEF Play, Inv, TypeOK
  <2> QED BY <2>2, <2>3, <2>4
<1>3. /\ state' \in {"transition_record", "transition_play", "standby"}
      /\ servo' => state' # "standby"
      /\ \/ UNCHANGED <<stopped, extra>> /\ state' # "transition_play"
         \/ stopped' = {} /\ extra' = [a \in Axes |-> 0]
  BY DEF Record, Play, StopRecord, RStop, histVars
<1>4. TypeOK'
  <2>1. stopped' \subseteq Axes /\ extra' \in [Axes -> 0..2]
    BY <1>3 DEF Inv, TypeOK
  <2> QED BY <1>1, <1>2, <1>3, <2>1 DEF Inv, TypeOK
<1>5. \A b \in Axes : Pending(b)' => Pending(b)
  BY <1>1, SignalKeeps
<1>6. ServoOnlyForPlay' /\ StoppedInv'
  BY <1>1, <1>3, <1>5 DEF Inv, TypeOK, ServoOnlyForPlay, StoppedInv
<1> QED BY <1>4, <1>6 DEF Inv

(* The rest of a method: signals, and the destructor's wait. *)
LEMMA MethodStepInv ==
  ASSUME Inv, NEW c \in Clients, MethodStep(c) \/ Destroy(c)
  PROVE  Inv'
<1>1. /\ UNCHANGED <<trajectory, velocity, still, begun, waypoint, state, servo>>
      /\ UNCHANGED <<readIndex, writeIndex, todo, kq, kTrajectory, kFlushed>>
      /\ UNCHANGED <<stopped, extra>>
      /\ Signal \/ UNCHANGED at
  BY DEF MethodStep, SignalStart, DestroySignal, Join, Destroy, moveVars, recVars,
         threadVars, driverVars, histVars
<1>2. /\ pc' \in [Clients -> {"idle", "signal", "destroy", "join", "gone"}]
      /\ run' \in BOOLEAN
  BY DEF MethodStep, SignalStart, DestroySignal, Join, Destroy, Inv, TypeOK
<1>3. /\ at' \in {"while", "lock", "wait", "read", "generate", "write",
                  "velocity", "servo", "put", "blocked", "exit"}
      /\ at' \in {"write", "velocity", "servo", "put", "blocked"} => todo' # {}
      /\ \A b \in Axes : Pending(b)' => Pending(b)
  BY <1>1, SignalKeeps
<1>4. TypeOK'
  BY <1>1, <1>2, <1>3 DEF Inv, TypeOK
<1>5. ServoOnlyForPlay' /\ StoppedInv'
  BY <1>1, <1>3 DEF Inv, TypeOK, ServoOnlyForPlay, StoppedInv
<1> QED BY <1>4, <1>5 DEF Inv

LEMMA StutterInv == ASSUME Inv, UNCHANGED vars PROVE Inv'
<1>1. /\ UNCHANGED <<run, trajectory, velocity, still, begun, waypoint, state, servo>>
      /\ UNCHANGED <<readIndex, writeIndex, at, todo, kq, kTrajectory>>
      /\ UNCHANGED <<kFlushed, pc, stopped, extra>>
  BY DEF vars, moveVars, recVars, threadVars, driverVars, histVars
<1> QED BY <1>1 DEF Inv, TypeOK, ServoOnlyForPlay, StoppedInv, Pending, Writing, Low

LEMMA NextInv == Inv /\ [Next]_vars => Inv'
<1>1. SUFFICES ASSUME Inv, Next PROVE Inv'
  BY StutterInv
<1>2. CASE Tick
  BY <1>1, <1>2, TickInv
<1>3. CASE Thread \/ Spurious
  BY <1>1, <1>3, WaitInv, GenerateInv, TestBitsInv, PutInv DEF Thread
<1>4. ASSUME NEW c \in Clients, Method(c) \/ MethodStep(c) PROVE Inv'
  BY <1>1, <1>4, MoveInv, StopInv, RecordInv, MethodStepInv DEF Method
<1> QED BY <1>1, <1>2, <1>3, <1>4 DEF Next

(* The invariant of this module holds throughout. *)
THEOREM Invariance == Spec => []Inv
  BY InvInit, NextInv, PTL DEF Spec
-----------------------------------------------------------------------------
(* Recordings of any length: m_readIndex and m_writeIndex stay within the  *)
(* buffer that CQEMotorRec allocated, whatever is called while a recording *)
(* or playback is going on, and the driver's queues within their size.     *)
THEOREM TypeCorrect == Spec => []TypeOK
<1>1. Inv => TypeOK
  BY DEF Inv
<1> QED BY <1>1, Invariance, PTL

(* m_servo, which has WriteTrajectory drive every axis, does not outlive   *)
(* playback, however many threads record, play and stop.                   *)
THEOREM ServoIsPlayback == Spec => []ServoOnlyForPlay
<1>1. Inv => ServoOnlyForPlay
  BY DEF Inv
<1> QED BY <1>1, Invariance, PTL

(* After Stop the trajectory thread queues at most one more waypoint for   *)
(* the axis, for any number of axes and of callers.                        *)
THEOREM StopHolds == Spec => []OneWaypointAfterStop
<1>1. Inv => OneWaypointAfterStop
  BY DEF Inv, StoppedInv, OneWaypointAfterStop
<1> QED BY <1>1, Invariance, PTL
=============================================================================
