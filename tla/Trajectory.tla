----------------------------- MODULE Trajectory ------------------------------
(***************************************************************************)
(* CQEMotorTraj and CQEMotorRec (libqwerk): a thread that generates the    *)
(* waypoints of moves and of playback and writes them to the motor driver, *)
(* and the threads of a program that command it.                           *)
(*                                                                         *)
(* Everything the code does with m_mutex held is one step, because all     *)
(* that it reads and writes there is accessed with the mutex held, with    *)
(* these exceptions, which are steps of their own: m_threadRun, the state  *)
(* read by UpdatePosition, and the bits read by WriteTrajectory.  Stop and *)
(* the two moves call the driver before they change those bits; a write    *)
(* that falls between has the effect of one that follows.  No lock is held *)
(* across a blocking read or write of the device.                          *)
(*                                                                         *)
(* The shape of a trajectory is left to another module: here a move may    *)
(* end at any step after its first.  The driver's axis is reduced to the   *)
(* length of its write queue, its trajectory flag and its flush flag.      *)
(*                                                                         *)
(* A definition named Faulty... is the one that follows it with a          *)
(* plausible bug; no specification uses it (README, "Seeded faults").      *)
(***************************************************************************)
EXTENDS Integers

CONSTANTS Clients,     \* threads that call the object's methods
          Axes,        \* m_servoAxes
          Frames,      \* m_size / m_axes: the frames a recording can hold
          QueueSize    \* the driver's write queue

ASSUME TrajectoryAssumption ==
  /\ Axes \subseteq 0..3 /\ Axes # {}
  /\ Frames \in Nat /\ QueueSize \in Nat \ {0}

VARIABLES
  run,         \* m_threadRun
  trajectory,  \* m_trajectory
  velocity,    \* m_velocityTrajectory
  still,       \* the velocity trajectories whose target velocity is 0
  begun,       \* axes whose current trajectory has generated a waypoint
  waypoint,    \* m_generatedTrajectoryPositionUs: whether the value is of
               \* the axis's current command
  state,       \* m_state
  servo,       \* m_servo
  readIndex, writeIndex,
  at,          \* where the trajectory thread is
  todo,        \* the axes WriteTrajectory has still to deal with
  kq, kTrajectory, kFlushed,  \* the driver's queue length and flags, by axis
  pc,          \* where each client is inside a method
  stopped,     \* history: axes stopped by Stop and not commanded since
  extra        \* history: waypoints queued for each of those since, up to 2

moveVars   == <<trajectory, velocity, still, begun, waypoint>>
recVars    == <<state, servo, readIndex, writeIndex>>
threadVars == <<at, todo>>
driverVars == <<kq, kTrajectory, kFlushed>>
histVars   == <<stopped, extra>>
vars == <<run, moveVars, recVars, threadVars, driverVars, pc, histVars>>

Init ==
  /\ run = TRUE
  /\ trajectory = {} /\ velocity = {} /\ still = {} /\ begun = {}
  /\ waypoint = [a \in Axes |-> "stale"]
  /\ state = "standby" /\ servo = FALSE
  /\ readIndex = 0 /\ writeIndex = 0
  /\ at = "while" /\ todo = {}
  /\ kq = [a \in Axes |-> 0]
  /\ kTrajectory = [a \in Axes |-> FALSE]
  /\ kFlushed = [a \in Axes |-> FALSE]
  /\ pc = [c \in Clients |-> "idle"]
  /\ stopped = {} /\ extra = [a \in Axes |-> 0]

Active == trajectory \cup velocity
RecordActive == state # "standby"

-----------------------------------------------------------------------------
(* The driver: a control interrupt consumes a waypoint of every axis that  *)
(* has one, and sooner or later ends the trajectory of one that has none.  *)
Tick ==
  /\ \E expired \in SUBSET {a \in Axes : kq[a] = 0} :
       kTrajectory' = [a \in Axes |-> a \notin expired
                                      /\ (kTrajectory[a] \/ kq[a] > 0)]
  /\ kq' = [a \in Axes |-> IF kq[a] > 0 THEN kq[a] - 1 ELSE 0]
  /\ UNCHANGED <<run, moveVars, recVars, threadVars, kFlushed, pc, histVars>>

-----------------------------------------------------------------------------
(* TrajThread *)

While ==
  /\ at = "while"
  /\ at' = IF run THEN "lock" ELSE "exit"
  /\ UNCHANGED <<run, moveVars, recVars, todo, driverVars, pc, histVars>>

FaultyWait ==
  /\ at = "lock"
  /\ at' = "wait"
  /\ UNCHANGED <<run, moveVars, recVars, todo, driverVars, pc, histVars>>

(* It waits if there is no move; it does not look for anything else.       *)
Wait ==
  /\ at = "lock"
  /\ at' = IF trajectory = {} THEN "wait" ELSE "read"
  /\ UNCHANGED <<run, moveVars, recVars, todo, driverVars, pc, histVars>>

(* pthread_cond_wait may return without a signal. *)
Spurious ==
  /\ at = "wait"
  /\ at' = "read"
  /\ UNCHANGED <<run, moveVars, recVars, todo, driverVars, pc, histVars>>

(* UpdatePosition, without the mutex, and ReadPosition; positions have no   *)
(* value here.                                                             *)
ReadPosition ==
  /\ at = "read"
  /\ at' = "generate"
  /\ UNCHANGED <<run, moveVars, recVars, todo, driverVars, pc, histVars>>

FaultyRStopState == servo' = FALSE /\ UNCHANGED state
RStop == state' = "standby" /\ servo' = FALSE

Full == writeIndex >= Frames

FaultyPlayed == readIndex > writeIndex
Played == readIndex >= Frames \/ readIndex >= writeIndex

Current == waypoint' = [a \in Axes |-> "current"]

RecordUpdate ==
  \/ /\ state = "transition_play"
     /\ state' = "play" /\ servo' = TRUE
     /\ Current
     /\ UNCHANGED <<readIndex, writeIndex>>
  \/ /\ state = "play"
     /\ IF Played THEN RStop /\ UNCHANGED <<readIndex, waypoint>>
        ELSE readIndex' = readIndex + 1 /\ Current /\ UNCHANGED <<state, servo>>
     /\ UNCHANGED writeIndex
  \/ /\ state = "transition_record"
     /\ state' = "record" /\ servo' = FALSE
     /\ UNCHANGED <<readIndex, writeIndex, waypoint>>
  \/ /\ state = "record"
     /\ IF Full THEN state' = "standby" /\ UNCHANGED writeIndex
        ELSE writeIndex' = writeIndex + 1 /\ UNCHANGED state
     /\ UNCHANGED <<servo, readIndex, waypoint>>

(* A move ends at the step that finds it at its goal, a velocity           *)
(* trajectory at the step that reaches its target velocity 0.              *)
TrapezoidTrajectory ==
  \E ended \in SUBSET ((trajectory \cap begun) \cup (velocity \cap still)) :
    /\ trajectory' = trajectory \ ended
    /\ velocity' = velocity \ ended
    /\ begun' = (begun \cup Active) \ ended
    /\ waypoint' = [a \in Axes |-> IF a \in Active THEN "current"
                                                   ELSE waypoint[a]]
    /\ UNCHANGED still

FaultyGenerate ==
  /\ at = "generate"
  /\ IF Active = {} /\ ~RecordActive
     THEN at' = "while" /\ UNCHANGED <<moveVars, recVars, todo>>
     ELSE /\ at' = "write" /\ todo' = Axes
          /\ IF RecordActive
             THEN RecordUpdate /\ UNCHANGED <<trajectory, velocity, still, begun>>
             ELSE TrapezoidTrajectory /\ UNCHANGED recVars
  /\ UNCHANGED <<run, driverVars, pc, histVars>>

Generate ==
  /\ at = "generate"
  /\ IF (Active = {} /\ ~RecordActive) \/ ~run
     THEN at' = "while" /\ UNCHANGED <<moveVars, recVars, todo>>
     ELSE /\ at' = "write" /\ todo' = Axes
          /\ IF RecordActive
             THEN RecordUpdate /\ UNCHANGED <<trajectory, velocity, still, begun>>
             ELSE TrapezoidTrajectory /\ UNCHANGED recVars
  /\ UNCHANGED <<run, driverVars, pc, histVars>>

(* WriteTrajectory, without the mutex: an axis's bits are tested, then the *)
(* waypoint is written, and the write may block.                           *)
Low == CHOOSE a \in todo : \A b \in todo : a <= b

NextAxis ==
  /\ todo' = todo \ {Low}
  /\ at' = IF todo = {Low} THEN "read" ELSE "write"

(* The three conditions are read one after the other, and commands may     *)
(* replace one another in between.                                         *)
TestBits ==
  /\ \/ /\ at = "write"
        /\ UNCHANGED todo
        /\ at' = IF Low \in trajectory THEN "put" ELSE "velocity"
     \/ /\ at = "velocity"
        /\ UNCHANGED todo
        /\ at' = IF Low \in velocity THEN "put" ELSE "servo"
     \/ /\ at = "servo"
        /\ IF servo THEN at' = "put" /\ UNCHANGED todo ELSE NextAxis
  /\ UNCHANGED <<run, moveVars, recVars, driverVars, pc, histVars>>

Queue(a) ==
  /\ kq' = [kq EXCEPT ![a] = @ + 1]
  /\ extra' = [extra EXCEPT ![a] = IF a \notin stopped \/ @ = 2 THEN @ ELSE @ + 1]

Put ==
  /\ at = "put"
  /\ kFlushed' = [kFlushed EXCEPT ![Low] = FALSE]
  /\ IF kq[Low] < QueueSize THEN Queue(Low) /\ NextAxis
     ELSE at' = "blocked" /\ UNCHANGED <<todo, kq, extra>>
  /\ UNCHANGED <<run, moveVars, recVars, kTrajectory, pc, stopped>>

Unblock ==
  /\ at = "blocked" /\ kq[Low] < QueueSize
  /\ IF kFlushed[Low] THEN UNCHANGED <<kq, extra>> ELSE Queue(Low)
  /\ kFlushed' = [kFlushed EXCEPT ![Low] = FALSE]
  /\ NextAxis
  /\ UNCHANGED <<run, moveVars, recVars, kTrajectory, pc, stopped>>

Thread == While \/ Wait \/ ReadPosition \/ Generate \/ TestBits \/ Put \/ Unblock

-----------------------------------------------------------------------------
(* The methods. *)

Idle(c) == pc[c] = "idle"

(* pthread_cond_signal: it is lost when the thread is not waiting. *)
Signal == at' = IF at = "wait" THEN "read" ELSE at

Done(a) == a \notin trajectory /\ ~kTrajectory[a]

Stale(a) == waypoint' = [waypoint EXCEPT ![a] = "stale"]

(* Move returns without a word when the last one is not done. *)
Move(c, a) ==
  /\ Idle(c) /\ Done(a)
  /\ trajectory' = trajectory \cup {a}
  /\ velocity' = velocity \ {a}
  /\ begun' = begun \ {a}
  /\ Stale(a)
  /\ Signal
  /\ stopped' = stopped \ {a} /\ extra' = [extra EXCEPT ![a] = 0]
  /\ UNCHANGED <<run, still, recVars, todo, driverVars, pc>>

MoveVelocity(c, a) ==
  /\ Idle(c)
  /\ velocity' = velocity \cup {a}
  /\ trajectory' = trajectory \ {a}
  /\ still' \in {still \cup {a}, still \ {a}}
  /\ IF Done(a) THEN Stale(a) /\ begun' = begun \ {a}
                ELSE UNCHANGED <<waypoint, begun>>
  /\ Signal
  /\ stopped' = stopped \ {a} /\ extra' = [extra EXCEPT ![a] = 0]
  /\ UNCHANGED <<run, recVars, todo, driverVars, pc>>

FaultyStop(c, a) ==
  /\ Idle(c)
  /\ trajectory' = trajectory \ {a}
  /\ Stale(a)
  /\ kq' = [kq EXCEPT ![a] = 0]
  /\ kTrajectory' = [kTrajectory EXCEPT ![a] = FALSE]
  /\ kFlushed' = [kFlushed EXCEPT ![a] = TRUE]
  /\ stopped' = IF state \in {"transition_play", "play"} THEN stopped
                ELSE stopped \cup {a}
  /\ extra' = [extra EXCEPT ![a] = 0]
  /\ UNCHANGED <<run, velocity, still, begun, recVars, threadVars, pc>>

(* Stop ends moves; playback goes on. *)
Stop(c, a) ==
  /\ Idle(c)
  /\ trajectory' = trajectory \ {a}
  /\ velocity' = velocity \ {a}
  /\ Stale(a)
  /\ kq' = [kq EXCEPT ![a] = 0]
  /\ kTrajectory' = [kTrajectory EXCEPT ![a] = FALSE]
  /\ kFlushed' = [kFlushed EXCEPT ![a] = TRUE]
  /\ stopped' = IF state \in {"transition_play", "play"} THEN stopped
                ELSE stopped \cup {a}
  /\ extra' = [extra EXCEPT ![a] = 0]
  /\ UNCHANGED <<run, still, begun, recVars, threadVars, pc>>

(* Record and Play set the state and signal with the mutex taken twice. *)
Record(c) ==
  /\ Idle(c)
  /\ writeIndex' = 0 /\ state' = "transition_record"
  /\ pc' = [pc EXCEPT ![c] = "signal"]
  /\ UNCHANGED <<run, moveVars, servo, readIndex, threadVars, driverVars, histVars>>

Play(c) ==
  /\ Idle(c)
  /\ readIndex' = 0 /\ state' = "transition_play"
  /\ pc' = [pc EXCEPT ![c] = "signal"]
  /\ stopped' = {} /\ extra' = [a \in Axes |-> 0]
  /\ UNCHANGED <<run, moveVars, servo, writeIndex, threadVars, driverVars>>

SignalStart(c) ==
  /\ pc[c] = "signal"
  /\ Signal
  /\ pc' = [pc EXCEPT ![c] = "idle"]
  /\ UNCHANGED <<run, moveVars, recVars, todo, driverVars, histVars>>

StopRecord(c) ==
  /\ Idle(c)
  /\ RStop
  /\ UNCHANGED <<run, moveVars, readIndex, writeIndex, threadVars, driverVars, pc,
                 histVars>>

(* The destructor, when the last user of the object has released it: it    *)
(* clears m_threadRun without the mutex, signals and joins.                *)
Destroy(c) ==
  /\ \A d \in Clients : Idle(d)
  /\ run' = FALSE
  /\ pc' = [d \in Clients |-> IF d = c THEN "destroy" ELSE "gone"]
  /\ UNCHANGED <<moveVars, recVars, threadVars, driverVars, histVars>>

DestroySignal(c) ==
  /\ pc[c] = "destroy"
  /\ Signal
  /\ pc' = [pc EXCEPT ![c] = "join"]
  /\ UNCHANGED <<run, moveVars, recVars, todo, driverVars, histVars>>

Join(c) ==
  /\ pc[c] = "join" /\ at = "exit"
  /\ pc' = [pc EXCEPT ![c] = "gone"]
  /\ UNCHANGED <<run, moveVars, recVars, threadVars, driverVars, histVars>>

Method(c) ==
  \/ \E a \in Axes : Move(c, a) \/ MoveVelocity(c, a) \/ Stop(c, a)
  \/ Record(c) \/ Play(c) \/ StopRecord(c) \/ Destroy(c)

MethodStep(c) == SignalStart(c) \/ DestroySignal(c) \/ Join(c)

Next ==
  \/ Tick
  \/ Thread \/ Spurious
  \/ \E c \in Clients : Method(c) \/ MethodStep(c)

Spec == Init /\ [][Next]_vars

(* The control interrupt recurs and gets round to ending a trajectory that *)
(* nobody feeds; threads that can run are scheduled.  Nobody is obliged to *)
(* call a method, and no condition is obliged to wake up spuriously.       *)
Expire(a) == Tick /\ ~kTrajectory'[a]

Fairness ==
  /\ WF_vars(Tick) /\ WF_vars(Thread)
  /\ \A a \in Axes : WF_vars(Expire(a))
  /\ \A c \in Clients : WF_vars(MethodStep(c))

FairSpec == Spec /\ Fairness
-----------------------------------------------------------------------------
(* Types: among them, no index passes the end of the recording buffer,     *)
(* however Record, Play and RStop cut into each other.                     *)
TypeOK ==
  /\ run \in BOOLEAN
  /\ trajectory \subseteq Axes /\ velocity \subseteq Axes
  /\ still \subseteq Axes /\ begun \subseteq Axes
  /\ waypoint \in [Axes -> {"stale", "current"}]
  /\ state \in {"standby", "transition_play", "play", "transition_record", "record"}
  /\ servo \in BOOLEAN
  /\ readIndex \in 0..Frames /\ writeIndex \in 0..Frames
  /\ at \in {"while", "lock", "wait", "read", "generate", "write",
             "velocity", "servo", "put", "blocked", "exit"}
  /\ todo \subseteq Axes
  /\ at \in {"write", "velocity", "servo", "put", "blocked"} => todo # {}
  /\ kq \in [Axes -> 0..QueueSize]
  /\ kTrajectory \in [Axes -> BOOLEAN] /\ kFlushed \in [Axes -> BOOLEAN]
  /\ pc \in [Clients -> {"idle", "signal", "destroy", "join", "gone"}]
  /\ stopped \subseteq Axes /\ extra \in [Axes -> 0..2]

(* WriteTrajectory drives every axis while m_servo is set: it is set only  *)
(* during playback, or until the thread gets to a command that replaced it.*)
ServoOnlyForPlay ==
  servo => state \in {"play", "transition_play", "transition_record"}

(* A waypoint may be on its way to the driver when Stop is called, and be  *)
(* queued after it; no second one follows it.                              *)
OneWaypointAfterStop == \A a \in stopped : extra[a] <= 1

(* An axis that stays stopped comes to rest: its queue empties for good    *)
(* and the driver ends its trajectory.                                     *)
StopTakesEffect ==
  \A a \in Axes :
    <>[](a \in stopped) => <>[](kq[a] = 0 /\ ~kTrajectory[a])

(* A move that was accepted is generated, stopped or replaced: its signal  *)
(* may be lost, but the thread looks for a move before it waits.           *)
MoveStarts ==
  \A a \in Axes :
    a \in trajectory \ begun
      ~> a \notin trajectory \/ a \in begun \/ RecordActive \/ ~run

(* Playback ends, or the object is destroyed.                              *)
PlaybackEnds == state = "play" ~> state # "play" \/ ~run

(* The destructor returns when it is called during a move: the thread sees *)
(* m_threadRun between two waypoints and its blocked writes get room.      *)
DestructorEndsMove ==
  \A c \in Clients :
    pc[c] = "join" /\ trajectory # {} ~> pc[c] = "gone"

(* The documentation of MoveVelocity: it initiates a movement.  So the     *)
(* trajectory thread generates it, unless it is replaced first.            *)
VelocityStarts ==
  \A a \in Axes :
    a \in velocity \ begun
      ~> a \notin velocity \/ a \in begun \/ RecordActive \/ ~run

(* The comment in the destructor: it waits for the thread to exit, which   *)
(* has been told to, so the wait ends.                                     *)
DestructorReturns ==
  \A c \in Clients : pc[c] = "join" ~> pc[c] = "gone"

(* The documentation of Stop: it stops the last move command, so nothing   *)
(* of that command is queued afterwards.                                   *)
StopEndsMove == [][\A a \in stopped : kq'[a] <= kq[a]]_vars

(* The documentation of Done: it tells whether the axis is done with the   *)
(* last Move, so a move that ends with waypoints queued is not done yet.   *)
DoneAfterLastWaypoint ==
  [][\A a \in trajectory \ trajectory' :
       Generate /\ kq[a] > 0 => ~Done(a)']_vars

(* The comment on WriteTrajectory: it writes trajectory waypoints, so what *)
(* it queues for a move has been generated for that move.                  *)
WaypointGenerated ==
  [][\A a \in trajectory : kq'[a] > kq[a] => waypoint[a] = "current"]_vars
=============================================================================
