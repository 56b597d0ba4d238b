------------------------------- MODULE Sonar -------------------------------
(***************************************************************************)
(* Sonar modules (libqwerk/sonar.cxx, sonarcont.cxx) on top of GpioInt.    *)
(*                                                                         *)
(* A program constructs sonars, fires them and waits for the echo, and     *)
(* destroys them; a CSonarController fires others from SIGALRM, whose      *)
(* handler and that of SIGIO exclude each other.  A time stamp is the      *)
(* number of the shot that caused the edge, and a distance the pair of the *)
(* stamps it is computed from.                                             *)
(***************************************************************************)
EXTENDS GpioInt, Sequences

CONSTANTS
  Sonars,
  TriggerPort, EchoPort,   \* m_triggerPort and m_echoPort of each
  Controlled,              \* the sonars of the CSonarController
  OldEcho,                 \* an echo may be under way when the program starts
  MaxShots                 \* bound: shots of each sonar

ASSUME SonarAssumption ==
  /\ Objects = Sonars /\ Controlled \subseteq Sonars
  /\ TriggerPort \in [Sonars -> Pins] /\ EchoPort \in [Sonars -> Pins]
  /\ OldEcho \in BOOLEAN /\ MaxShots \in Nat

VARIABLES
  main,              \* where the program is, and with which sonar
  built,             \* the sonars whose constructor has returned
  flag, tv0,         \* m_flag, m_tv0
  valid, val,        \* m_valid, m_val
  shots,             \* how often each has been fired
  echoes,            \* the shots whose echo has not yet come back
  crashed            \* a callback has used a null pointer

sonarVars == <<flag, tv0, valid, val>>
world == <<shots, echoes>>
vars == <<gpioVars, main, built, sonarVars, world, crashed>>

Idle == [at |-> "idle", sonar |-> Null]

Init ==
  /\ GpioInit
  /\ main = Idle /\ built = {} /\ crashed = FALSE
  /\ flag = [s \in Sonars |-> FALSE] /\ tv0 = [s \in Sonars |-> 0]
  /\ valid = [s \in Sonars |-> FALSE] /\ val = [s \in Sonars |-> <<0, 0>>]
  /\ shots = [s \in Sonars |-> 0]
  /\ echoes \in [Sonars -> IF OldEcho THEN {<<>>, <<0>>} ELSE {<<>>}]

-----------------------------------------------------------------------------
(* The program is at a step of its own, no call of the library in progress *)
Main(at) == main.at = at /\ call.at = "none" /\ InUser
Goto(at, s) == main' = [at |-> at, sonar |-> s]

(* CSonar::CSonar *)
Construct(s) ==
  /\ Main("idle") /\ s \notin built
  /\ flag' = [flag EXCEPT ![s] = FALSE] /\ valid' = [valid EXCEPT ![s] = FALSE]
  /\ Register(TriggerPort[s], s)
  /\ Goto("echo", s)
  /\ UNCHANGED <<built, tv0, val, world, crashed>>

ConstructEcho ==
  /\ Main("echo")
  /\ Register(EchoPort[main.sonar], main.sonar)
  /\ Goto("built", main.sonar)
  /\ UNCHANGED <<built, sonarVars, world, crashed>>

Constructed ==
  /\ Main("built")
  /\ built' = built \cup {main.sonar} /\ main' = Idle
  /\ UNCHANGED <<gpioVars, sonarVars, world, crashed>>

(* CSonar::~CSonar *)
Destroy(s) ==
  /\ Main("idle") /\ s \in built
  /\ built' = built \ {s}
  /\ Unregister(TriggerPort[s])
  /\ Goto("unecho", s)
  /\ UNCHANGED <<sonarVars, world, crashed>>

DestroyEcho ==
  /\ Main("unecho")
  /\ Unregister(EchoPort[main.sonar])
  /\ main' = Idle
  /\ UNCHANGED <<built, sonarVars, world, crashed>>

LibraryStep ==
  CallStep /\ UNCHANGED <<main, built, sonarVars, world, crashed>>

(* The pulse, whose falling edge interrupts and starts the sonar *)
Pulse(s) ==
  /\ shots[s] < MaxShots
  /\ shots' = [shots EXCEPT ![s] = @ + 1]
  /\ echoes' = [echoes EXCEPT ![s] = Append(@, shots[s] + 1)]
  /\ Served(TriggerPort[s], shots[s] + 1)

FaultyFire(s) ==
  /\ Main("idle") /\ s \in built \ Controlled /\ shots[s] < MaxShots
  /\ Goto("pulse", s)
  /\ UNCHANGED <<gpioVars, built, sonarVars, world, crashed>>

(* Fire(true) of the program *)
Fire(s) ==
  /\ Main("idle") /\ s \in built \ Controlled /\ shots[s] < MaxShots
  /\ valid' = [valid EXCEPT ![s] = FALSE]
  /\ Goto("pulse", s)
  /\ UNCHANGED <<gpioVars, built, flag, tv0, val, world, crashed>>

FirePulse ==
  /\ Main("pulse")
  /\ Pulse(main.sonar)
  /\ Goto("wait", main.sonar)
  /\ UNCHANGED <<fd, async, saved, lost, library, call, handler, built, sonarVars,
                 crashed>>

FireReturn ==
  /\ Main("wait") /\ valid[main.sonar]
  /\ main' = Idle
  /\ UNCHANGED <<gpioVars, built, sonarVars, world, crashed>>

FirePoll == Main("wait") /\ ~valid[main.sonar] /\ UNCHANGED vars

(* CSonarController::SigHandler calls Fire() *)
Alarm(s) ==
  /\ InUser /\ s \in built \cap Controlled
  /\ valid' = [valid EXCEPT ![s] = FALSE]
  /\ Pulse(s)
  /\ UNCHANGED <<fd, async, saved, lost, library, call, handler, main, built,
                 flag, tv0, val, crashed>>

(* The echo comes back, at any time *)
Echo(s) ==
  /\ echoes[s] # <<>>
  /\ Served(EchoPort[s], Head(echoes[s]))
  /\ echoes' = [echoes EXCEPT ![s] = Tail(@)]
  /\ UNCHANGED <<fd, async, saved, lost, library, call, handler, main, built,
                 sonarVars, shots, crashed>>

-----------------------------------------------------------------------------
(* CSonar::Callback, called by the SIGIO handler with the user pointer *)
Callback(io) ==
  LET s == userPointer[io] IN
  /\ Calling(io)
  /\ \/ s = Null /\ crashed' = TRUE /\ UNCHANGED sonarVars
     \/ /\ s # Null /\ io = TriggerPort[s]
        /\ flag' = [flag EXCEPT ![s] = TRUE] /\ tv0' = [tv0 EXCEPT ![s] = stamp[io]]
        /\ UNCHANGED <<valid, val, crashed>>
     \/ /\ s # Null /\ io = EchoPort[s] /\ flag[s]
        /\ val' = [val EXCEPT ![s] = <<tv0[s], stamp[io]>>]
        /\ valid' = [valid EXCEPT ![s] = TRUE]
        /\ UNCHANGED <<flag, tv0, crashed>>
     \/ /\ s # Null /\ io = EchoPort[s] /\ ~flag[s]
        /\ UNCHANGED <<sonarVars, crashed>>
  /\ UNCHANGED <<main, built, world>>

SigHandler ==
  \/ (TakeSignal \/ HandlerStep) /\ UNCHANGED <<main, built, sonarVars, world, crashed>>
  \/ \E io \in Pins : Callback(io)

-----------------------------------------------------------------------------
MainStep ==
  \/ ConstructEcho \/ Constructed \/ DestroyEcho \/ LibraryStep
  \/ FirePulse \/ FireReturn

Next ==
  \/ /\ ~crashed
     /\ \/ MainStep \/ SigHandler \/ FirePoll
        \/ \E s \in Sonars : Construct(s) \/ Destroy(s) \/ Fire(s) \/ Alarm(s) \/ Echo(s)
  \/ crashed /\ UNCHANGED vars

Spec == Init /\ [][Next]_vars

(* The processor runs the program and its handler, and a sonar answers.    *)
FairSpec ==
  /\ Spec
  /\ WF_vars(~crashed /\ MainStep) /\ WF_vars(~crashed /\ SigHandler)
  /\ \A s \in Sonars : WF_vars(~crashed /\ Echo(s))

-----------------------------------------------------------------------------
TypeOK ==
  /\ GpioTypeOK
  /\ main.at \in {"idle", "echo", "built", "unecho", "pulse", "wait"}
  /\ main.sonar \in Sonars \cup {Null}
  /\ built \subseteq Sonars /\ crashed \in BOOLEAN
  /\ flag \in [Sonars -> BOOLEAN] /\ valid \in [Sonars -> BOOLEAN]
  /\ tv0 \in [Sonars -> 0..MaxShots] /\ val \in [Sonars -> (0..MaxShots) \X (0..MaxShots)]
  /\ shots \in [Sonars -> 0..MaxShots]
  /\ \A s \in Sonars : Len(echoes[s]) <= MaxShots + 1

(* The value that Fire(true) returns was measured by its own shot: "this   *)
(* method will wait until the echo is received before returning"           *)
(* (sonar.h).  m_flag survives a shot, so an old echo would do.            *)
OwnEcho ==
  main.at = "wait" /\ valid[main.sonar] =>
    val[main.sonar] = <<shots[main.sonar], shots[main.sonar]>>

(* Fire(true) returns, if the driver has not lost a report of its sonar:   *)
(* signals that coalesce and a handler that finds several pins at once do  *)
(* not lose the order of trigger and echo.                                 *)
Reported(s) == {TriggerPort[s], EchoPort[s]} \cap lost = {}

FireReturns ==
  \A s \in Sonars :
    (main.at = "wait" /\ main.sonar = s) ~>
      (main.at # "wait" \/ main.sonar # s \/ ~Reported(s))

(* A callback gets the user pointer registered with it (qegpioint.h: "that *)
(* will be passed to your callback function").  Violated by SIGIO between   *)
(* the two assignments of RegisterCallback (qegpioint.cxx:199).            *)
CallbackGetsItsPointer ==
  handler.at = "call" => userPointer[handler.io] # Null
=============================================================================
