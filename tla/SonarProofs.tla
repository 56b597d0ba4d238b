---------------------------- MODULE SonarProofs ----------------------------
(***************************************************************************)
(* Fire(true) of a sonar returns the measurement of its own shot.          *)
(*                                                                         *)
(* Neither m_flag nor m_tv0 is tied to a shot: what ties them is the order *)
(* in which the handler finds the reports.  The invariant follows a shot   *)
(* through the driver: its trigger has been heard or is due before the     *)
(* handler can come to the echo (Shot), and between two shots nothing of   *)
(* an earlier one is left in the driver, the handler or the air (Rest).    *)
(***************************************************************************)
EXTENDS Sonar, SequenceTheorems, TLAPS

(***************************************************************************)
(* Types.                                                                  *)
(***************************************************************************)
(* Where a call of the library, and the handler with a pin, may be         *)
CallPlaces == {"none", "openStore", "setown", "reset", "store", "callback", "pointer", "unpointer", "close"}
Handling == {"reset", "store", "call"}

(* GpioTypeOK, and with it: a call and the handler are at pins that exist, *)
(* the handler at one that is open and has a callback, and the copy of the *)
(* reports that a reset has taken holds none that the driver has not.      *)
GpioTypes ==
  /\ GpioTypeOK
  /\ call \in [at : CallPlaces, io : 0..15, object : Objects \cup {Null}]
  /\ call.at # "none" => call.io \in Pins
  /\ call.at \in {"setown", "reset", "store", "callback", "pointer"} => call.io \in fd
  /\ handler \in [at : {"out", "scan"} \cup Handling, io : 0..16]
  /\ handler.at \in Handling => handler.io \in callback \cap fd
  /\ stamp \in [Pins -> 0..MaxShots]
  /\ saved \subseteq status

(* The handler's loop finds the lowest of the pins with a report.          *)
LEMMA LowIs ==
  ASSUME NEW S \in SUBSET (0..15), S # {}
  PROVE  Low(S) \in S /\ \A other \in S : Low(S) <= other
<1>1. \E io \in S : \A other \in S : io <= other
  <2>. SUFFICES ASSUME \A io \in S : \E other \in S : other < io PROVE FALSE
    BY SMT
  <2>0. 0 \notin S
    OBVIOUS
  <2>1. 1 \notin S
    BY <2>0
  <2>2. 2 \notin S
    BY <2>0, <2>1
  <2>3. 3 \notin S
    BY <2>0, <2>1, <2>2
  <2>4. 4 \notin S
    BY <2>0, <2>1, <2>2, <2>3
  <2>5. 5 \notin S
    BY <2>0, <2>1, <2>2, <2>3, <2>4
  <2>6. 6 \notin S
    BY <2>0, <2>1, <2>2, <2>3, <2>4, <2>5
  <2>7. 7 \notin S
    BY <2>0, <2>1, <2>2, <2>3, <2>4, <2>5, <2>6
  <2>8. \A io \in S : io >= 8
    BY <2>0, <2>1, <2>2, <2>3, <2>4, <2>5, <2>6, <2>7
  <2>9. 8 \notin S
    BY <2>8
  <2>10. 9 \notin S
    BY <2>8, <2>9
  <2>11. 10 \notin S
    BY <2>8, <2>9, <2>10
  <2>12. 11 \notin S
    BY <2>8, <2>9, <2>10, <2>11
  <2>13. 12 \notin S
    BY <2>8, <2>9, <2>10, <2>11, <2>12
  <2>14. 13 \notin S
    BY <2>8, <2>9, <2>10, <2>11, <2>12, <2>13
  <2>15. 14 \notin S
    BY <2>8, <2>9, <2>10, <2>11, <2>12, <2>13, <2>14
  <2>16. 15 \notin S
    BY <2>8, <2>9, <2>10, <2>11, <2>12, <2>13, <2>14, <2>15
  <2>17. PICK io \in S : TRUE
    OBVIOUS
  <2>18. io \in 8..15
    BY <2>8
  <2>. QED
    BY <2>9, <2>10, <2>11, <2>12, <2>13, <2>14, <2>15, <2>16, <2>17, <2>18
<1>. QED
  BY <1>1 DEF Low

(* RegisterCallback and UnregisterCallback begin a call.                   *)
LEMMA RegisterTypes ==
  ASSUME GpioTypes, NEW io \in Pins, NEW object \in Objects, Register(io, object)
  PROVE  GpioTypes'
<1>. io \in 0..15
  BY PinAssumption
<1>1. handler.at = "out"
  BY DEF Register, InUser
<1>2. UNCHANGED <<fd, async, status, stamp, sigio, lost, callback, userPointer, handler>>
  BY DEF Register, library
<1>3. /\ saved' \subseteq status /\ saved' \subseteq Pins
      /\ \/ call' = call /\ call.at = "none"
         \/ call' = [at |-> "setown", io |-> io, object |-> object] /\ io \in fd
         \/ call' = [at |-> "openStore", io |-> io, object |-> object]
  BY DEF GpioTypes, GpioTypeOK, Register, Load
<1>4. /\ call' \in [at : CallPlaces, io : 0..15, object : Objects \cup {Null}]
      /\ call'.at # "none" => call'.io \in Pins
      /\ call'.at \in {"setown", "reset", "store", "callback", "pointer"} => call'.io \in fd
  BY <1>3 DEF GpioTypes, CallPlaces
<1>. QED
  BY <1>2, <1>3, <1>4 DEF GpioTypes, GpioTypeOK, CallPlaces

(* An UnregisterCallback removes a callback while no handler runs.         *)
LEMMA UnregisterTypes ==
  ASSUME GpioTypes, NEW io \in Pins, Unregister(io)
  PROVE  GpioTypes'
<1>. io \in 0..15
  BY PinAssumption
<1>. QED
  BY DEF GpioTypes, GpioTypeOK, Unregister, InUser, driver, CallPlaces, Handling

(* Each step of a call keeps the types.                                    *)
LEMMA CallTypes ==
  ASSUME GpioTypes, CallStep
  PROVE  GpioTypes'
<1>. USE DEF GpioTypes, GpioTypeOK, Step, Then, driver, library, CallPlaces, Handling, NoCall
<1>1. CASE OpenDevice
  BY <1>1 DEF OpenDevice, Store
<1>2. CASE SetAsync
  BY <1>2 DEF SetAsync
<1>3. CASE ResetStatus
  BY <1>3 DEF ResetStatus, Load
<1>4. CASE ResetDone
  BY <1>4 DEF ResetDone, Store
<1>5. CASE SetCallback
  BY <1>5 DEF SetCallback
<1>6. CASE SetPointer
  BY <1>6 DEF SetPointer
<1>7. CASE ClearPointer
  BY <1>7 DEF ClearPointer
<1>8. CASE CloseDevice
  BY <1>8 DEF CloseDevice
<1>. QED
  BY <1>1, <1>2, <1>3, <1>4, <1>5, <1>6, <1>7, <1>8 DEF CallStep

(* An edge that the driver serves keeps the types.                         *)
LEMMA ServedTypes ==
  ASSUME GpioTypes, NEW io \in Pins, NEW t \in 0..MaxShots, Served(io, t),
         UNCHANGED <<fd, async, saved, lost, library, call, handler>>
  PROVE  GpioTypes'
<1>1. /\ status \subseteq status' /\ status' \subseteq Pins
      /\ stamp' \in [Pins -> 0..MaxShots] /\ sigio' \in BOOLEAN
  <2>1. CASE io \in fd
    BY <2>1 DEF GpioTypes, GpioTypeOK, Served
  <2>2. CASE io \notin fd
    BY <2>2 DEF GpioTypes, GpioTypeOK, Served
  <2>. QED
    BY <2>1, <2>2
<1>. QED
  BY <1>1 DEF GpioTypes, GpioTypeOK, library

(* Each step of the SIGIO handler keeps the types.                         *)
LEMMA HandlerTypes ==
  ASSUME GpioTypes, TakeSignal \/ HandlerStep \/ \E io \in Pins : Calling(io)
  PROVE  GpioTypes'
<1>. USE DEF GpioTypes, GpioTypeOK, driver, library, Handling
<1>1. CASE TakeSignal
  <2>1. /\ UNCHANGED <<fd, async, status, stamp, saved, lost, callback, userPointer, call>>
        /\ sigio' \in BOOLEAN /\ handler' = [at |-> "scan", io |-> 0]
    BY <1>1, Zenon DEF TakeSignal
  <2>2. /\ handler' \in [at : {"out", "scan"} \cup Handling, io : 0..16]
        /\ handler'.at = "scan"
    BY <2>1
  <2>. QED
    BY <2>1, <2>2
<1>2. CASE ReadStatus
  <2>1. Scanned # {} => Low(Scanned) \in Scanned /\ Low(Scanned) \in 0..15
    <3>1. Scanned \in SUBSET (0..15)
      BY PinAssumption DEF Scanned
    <3>. QED
      BY <3>1, LowIs
  <2>2. Low(Scanned) \in Scanned => Low(Scanned) \in callback \cap fd
    BY DEF Scanned
  <2>. QED
    BY <1>2, <2>1, <2>2 DEF ReadStatus
<1>3. CASE HandlerReset
  BY <1>3 DEF HandlerReset, Load
<1>4. CASE HandlerResetDone
  BY <1>4 DEF HandlerResetDone, Store
<1>5. ASSUME NEW io \in Pins, Calling(io) PROVE GpioTypes'
  <2>1. io \in 0..15
    BY PinAssumption
  <2>. QED
    BY <1>5, <2>1 DEF Calling
<1>. QED
  BY <1>1, <1>2, <1>3, <1>4, <1>5 DEF HandlerStep

(* Where the program may be                                                *)
MainPlaces == {"idle", "echo", "built", "unecho", "pulse", "wait"}

(* A program that is at work on a sonar has one.                           *)
ProgramTypes ==
  /\ main \in [at : MainPlaces, sonar : Sonars \cup {Null}]
  /\ main.at # "idle" => main.sonar \in Sonars
  /\ built \subseteq Sonars /\ crashed \in BOOLEAN

(* The fields of the sonars                                                *)
SonarTypes ==
  /\ flag \in [Sonars -> BOOLEAN] /\ valid \in [Sonars -> BOOLEAN]
  /\ tv0 \in [Sonars -> 0..MaxShots] /\ val \in [Sonars -> (0..MaxShots) \X (0..MaxShots)]

(* A sonar owes no more echoes than it has been fired, and the old one.    *)
WorldTypes ==
  /\ shots \in [Sonars -> 0..MaxShots]
  /\ echoes \in [Sonars -> Seq(0..MaxShots)]
  /\ \A s \in Sonars : Len(echoes[s]) <= shots[s] + 1

(* The four together are an inductive invariant.                           *)
Types == GpioTypes /\ ProgramTypes /\ SonarTypes /\ WorldTypes

(* The ports of a sonar are pins.                                          *)
LEMMA PortsAre ==
  \A s \in Sonars : TriggerPort[s] \in Pins /\ EchoPort[s] \in Pins /\ s \in Objects
BY SonarAssumption

(* The types hold when the process starts.                                 *)
LEMMA InitTypes == Init => Types
<1>. SUFFICES ASSUME Init PROVE Types
  OBVIOUS
<1>1. GpioTypes
  <2>1. /\ call = [at |-> "none", io |-> 0, object |-> Null] /\ handler = [at |-> "out", io |-> 0]
        /\ fd = {} /\ async = {} /\ status = {} /\ stamp = [io \in Pins |-> 0]
        /\ sigio \in BOOLEAN /\ saved = {} /\ lost = {}
        /\ callback = {} /\ userPointer = [io \in Pins |-> Null]
    BY DEF Init, GpioInit, NoCall
  <2>2. MaxShots \in Nat
    BY SonarAssumption
  <2>. QED
    BY <2>1, <2>2 DEF GpioTypes, GpioTypeOK, CallPlaces, Handling
<1>2. ProgramTypes
  BY DEF Init, Idle, ProgramTypes, MainPlaces
<1>3. SonarTypes
  BY SonarAssumption DEF Init, SonarTypes
<1>4. WorldTypes
  <2>1. 0 \in 0..MaxShots
    BY SonarAssumption
  <2>2. <<>> \in Seq(0..MaxShots) /\ <<0>> \in Seq(0..MaxShots) /\ Len(<<>>) = 0 /\ Len(<<0>>) = 1
    BY <2>1
  <2>3. echoes \in [Sonars -> {<<>>, <<0>>}]
    BY DEF Init
  <2>4. \A s \in Sonars : echoes[s] = <<>> \/ echoes[s] = <<0>>
    BY <2>3
  <2>5. echoes \in [Sonars -> Seq(0..MaxShots)]
    BY <2>2, <2>3
  <2>6. shots \in [Sonars -> 0..MaxShots] /\ \A s \in Sonars : shots[s] = 0
    BY <2>1 DEF Init
  <2>7. ASSUME NEW s \in Sonars PROVE Len(echoes[s]) <= shots[s] + 1
    <3>. DEFINE k == Len(echoes[s])
                n == shots[s]
    <3>1. k = 0 \/ k = 1
      BY <2>2, <2>4
    <3>2. n = 0
      BY <2>6
    <3>. HIDE DEF k, n
    <3>3. k <= n + 1
      BY <3>1, <3>2
    <3>. QED
      BY <3>3 DEF k, n
  <2>. QED
    BY <2>5, <2>6, <2>7 DEF WorldTypes
<1>. QED
  BY <1>1, <1>2, <1>3, <1>4 DEF Types

(* A pulse is one more shot and one more echo that is due.                 *)
LEMMA PulseTypes ==
  ASSUME Types, NEW s \in Sonars, Pulse(s), UNCHANGED <<fd, async, saved, lost, library, call, handler>>
  PROVE  GpioTypes' /\ WorldTypes'
<1>. DEFINE k == shots[s] + 1
<1>1. k \in 0..MaxShots /\ shots' = [shots EXCEPT ![s] = k] /\ shots[s] \in Nat
  BY SonarAssumption DEF Types, WorldTypes, Pulse
<1>2. echoes[s] \in Seq(0..MaxShots) /\ Len(echoes[s]) <= k
  BY DEF Types, WorldTypes
<1>. DEFINE e == Append(echoes[s], k)
<1>3. echoes' = [echoes EXCEPT ![s] = e] /\ Served(TriggerPort[s], k)
  BY DEF Pulse
<1>. HIDE DEF k
<1>4. e \in Seq(0..MaxShots) /\ Len(e) = Len(echoes[s]) + 1
  BY <1>1, <1>2, AppendProperties
<1>. HIDE DEF e
<1>5. GpioTypes'
  BY <1>1, <1>3, PortsAre, ServedTypes DEF Types
<1>6. Len(e) <= k + 1
  BY <1>1, <1>2, <1>4, LenProperties
<1>7. WorldTypes'
  <2>1. ASSUME NEW u \in Sonars PROVE Len(echoes'[u]) <= shots'[u] + 1
    BY <1>1, <1>3, <1>6 DEF Types, WorldTypes
  <2>. QED
    BY <1>1, <1>3, <1>4, <2>1 DEF Types, WorldTypes
<1>. QED
  BY <1>5, <1>7

(* An echo is one that was due.                                            *)
LEMMA EchoTypes ==
  ASSUME Types, NEW s \in Sonars, Echo(s)
  PROVE  GpioTypes' /\ WorldTypes'
<1>. DEFINE e == Tail(echoes[s])
<1>1. echoes[s] \in Seq(0..MaxShots) /\ echoes[s] # <<>>
  BY DEF Types, WorldTypes, Echo
<1>2. /\ Head(echoes[s]) \in 0..MaxShots /\ e \in Seq(0..MaxShots)
      /\ Len(e) = Len(echoes[s]) - 1 /\ Len(echoes[s]) \in Nat
  BY <1>1, HeadTailProperties, LenProperties
<1>3. echoes' = [echoes EXCEPT ![s] = e] /\ Served(EchoPort[s], Head(echoes[s])) /\ shots' = shots
      /\ UNCHANGED <<fd, async, saved, lost, library, call, handler>>
  BY DEF Echo
<1>4. GpioTypes'
  BY <1>2, <1>3, PortsAre, ServedTypes DEF Types
<1>. HIDE DEF e
<1>5. ASSUME NEW u \in Sonars PROVE Len(echoes'[u]) <= shots'[u] + 1
  <2>1. Len(echoes[u]) <= shots[u] + 1 /\ shots[u] \in Nat
    BY DEF Types, WorldTypes
  <2>2. CASE u = s
    BY <1>2, <1>3, <2>1, <2>2 DEF Types, WorldTypes
  <2>3. CASE u # s
    BY <1>3, <2>1, <2>3 DEF Types, WorldTypes
  <2>. QED
    BY <2>2, <2>3
<1>. QED
  BY <1>2, <1>3, <1>4, <1>5 DEF Types, WorldTypes

(* A callback writes the fields of the sonar that was registered.          *)
LEMMA CallbackTypes ==
  ASSUME Types, NEW io \in Pins, Callback(io)
  PROVE  SonarTypes' /\ crashed' \in BOOLEAN
<1>. DEFINE s == userPointer[io]
<1>1. s \in Sonars \cup {Null} /\ stamp[io] \in 0..MaxShots
  BY SonarAssumption DEF Types, GpioTypes, GpioTypeOK
<1>. HIDE DEF s
<1>2. CASE s = Null /\ crashed' = TRUE /\ UNCHANGED sonarVars
  BY <1>2 DEF Types, SonarTypes, sonarVars
<1>3. CASE /\ s # Null /\ flag' = [flag EXCEPT ![s] = TRUE] /\ tv0' = [tv0 EXCEPT ![s] = stamp[io]]
           /\ UNCHANGED <<valid, val, crashed>>
  BY <1>1, <1>3 DEF Types, SonarTypes, ProgramTypes
<1>4. CASE /\ s # Null /\ val' = [val EXCEPT ![s] = <<tv0[s], stamp[io]>>]
           /\ valid' = [valid EXCEPT ![s] = TRUE] /\ UNCHANGED <<flag, tv0, crashed>>
  <2>1. <<tv0[s], stamp[io]>> \in (0..MaxShots) \X (0..MaxShots)
    BY <1>1, <1>4 DEF Types, SonarTypes
  <2>. QED
    BY <1>1, <1>4, <2>1 DEF Types, SonarTypes, ProgramTypes
<1>5. CASE UNCHANGED <<sonarVars, crashed>>
  BY <1>5 DEF Types, SonarTypes, sonarVars, ProgramTypes
<1>. QED
  BY <1>2, <1>3, <1>4, <1>5 DEF Callback, s

(* Every step keeps the types.                                             *)
LEMMA TypesKept == Types /\ [Next]_vars => Types'
<1>. SUFFICES ASSUME Types, [Next]_vars PROVE Types'
  OBVIOUS
<1>1. CASE UNCHANGED vars
  BY <1>1 DEF vars, gpioVars, driver, library, sonarVars, world, Types, GpioTypes, GpioTypeOK, ProgramTypes, SonarTypes, WorldTypes
<1>2. ASSUME NEW s \in Sonars, Construct(s) PROVE Types'
  <2>1. GpioTypes'
    BY <1>2, PortsAre, RegisterTypes DEF Types, Construct
  <2>2. ProgramTypes' /\ SonarTypes' /\ WorldTypes'
    BY <1>2 DEF Types, Construct, Goto, ProgramTypes, SonarTypes, WorldTypes, MainPlaces, world
  <2>. QED
    BY <2>1, <2>2 DEF Types
<1>3. CASE ConstructEcho
  <2>1. GpioTypes'
    BY <1>3, PortsAre, RegisterTypes DEF Types, ConstructEcho, Main, ProgramTypes
  <2>2. ProgramTypes' /\ SonarTypes' /\ WorldTypes'
    BY <1>3 DEF Types, ConstructEcho, Main, Goto, ProgramTypes, SonarTypes, WorldTypes, MainPlaces, world, sonarVars
  <2>. QED
    BY <2>1, <2>2 DEF Types
<1>4. CASE Constructed
  <2>1. GpioTypes' /\ SonarTypes' /\ WorldTypes'
    BY <1>4 DEF Types, Constructed, gpioVars, driver, library, sonarVars, world, GpioTypes, GpioTypeOK, SonarTypes, WorldTypes
  <2>2. ProgramTypes'
    BY <1>4 DEF Types, Constructed, Main, Idle, ProgramTypes, MainPlaces
  <2>. QED
    BY <2>1, <2>2 DEF Types
<1>5. ASSUME NEW s \in Sonars, Destroy(s) PROVE Types'
  <2>1. GpioTypes'
    BY <1>5, PortsAre, UnregisterTypes DEF Types, Destroy
  <2>2. ProgramTypes' /\ SonarTypes' /\ WorldTypes'
    BY <1>5 DEF Types, Destroy, Goto, ProgramTypes, SonarTypes, WorldTypes, MainPlaces, world, sonarVars
  <2>. QED
    BY <2>1, <2>2 DEF Types
<1>6. CASE DestroyEcho
  <2>1. GpioTypes'
    BY <1>6, PortsAre, UnregisterTypes DEF Types, DestroyEcho, Main, ProgramTypes
  <2>2. ProgramTypes' /\ SonarTypes' /\ WorldTypes'
    BY <1>6 DEF Types, DestroyEcho, Idle, ProgramTypes, SonarTypes, WorldTypes, MainPlaces, world, sonarVars
  <2>. QED
    BY <2>1, <2>2 DEF Types
<1>7. CASE LibraryStep
  <2>1. GpioTypes'
    BY <1>7, CallTypes DEF Types, LibraryStep
  <2>2. ProgramTypes' /\ SonarTypes' /\ WorldTypes'
    BY <1>7 DEF Types, LibraryStep, ProgramTypes, SonarTypes, WorldTypes, world, sonarVars
  <2>. QED
    BY <2>1, <2>2 DEF Types
<1>8. ASSUME NEW s \in Sonars, Fire(s) PROVE Types'
  <2>1. GpioTypes' /\ WorldTypes'
    BY <1>8 DEF Types, Fire, gpioVars, driver, library, world, GpioTypes, GpioTypeOK, WorldTypes
  <2>2. ProgramTypes' /\ SonarTypes'
    BY <1>8 DEF Types, Fire, Goto, ProgramTypes, SonarTypes, MainPlaces
  <2>. QED
    BY <2>1, <2>2 DEF Types
<1>9. CASE FirePulse
  <2>1. main.sonar \in Sonars
    BY <1>9 DEF Types, ProgramTypes, FirePulse, Main
  <2>2. GpioTypes' /\ WorldTypes'
    BY <1>9, <2>1, PulseTypes DEF FirePulse
  <2>3. ProgramTypes' /\ SonarTypes'
    BY <1>9, <2>1 DEF Types, FirePulse, Goto, ProgramTypes, SonarTypes, MainPlaces, sonarVars
  <2>. QED
    BY <2>2, <2>3 DEF Types
<1>10. CASE FireReturn
  <2>1. GpioTypes' /\ SonarTypes' /\ WorldTypes'
    BY <1>10 DEF Types, FireReturn, gpioVars, driver, library, sonarVars, world, GpioTypes, GpioTypeOK, SonarTypes, WorldTypes
  <2>2. ProgramTypes'
    BY <1>10 DEF Types, FireReturn, Idle, ProgramTypes, MainPlaces
  <2>. QED
    BY <2>1, <2>2 DEF Types
<1>11. ASSUME NEW s \in Sonars, Alarm(s) PROVE Types'
  <2>1. GpioTypes' /\ WorldTypes'
    BY <1>11, PulseTypes DEF Alarm
  <2>2. ProgramTypes' /\ SonarTypes'
    BY <1>11 DEF Types, Alarm, ProgramTypes, SonarTypes
  <2>. QED
    BY <2>1, <2>2 DEF Types
<1>12. ASSUME NEW s \in Sonars, Echo(s) PROVE Types'
  <2>1. GpioTypes' /\ WorldTypes'
    BY <1>12, EchoTypes
  <2>2. ProgramTypes' /\ SonarTypes'
    BY <1>12 DEF Types, Echo, ProgramTypes, SonarTypes, sonarVars
  <2>. QED
    BY <2>1, <2>2 DEF Types
<1>13. ASSUME TakeSignal \/ HandlerStep, UNCHANGED <<main, built, sonarVars, world, crashed>>
       PROVE  Types'
  <2>1. GpioTypes'
    BY <1>13, HandlerTypes DEF Types
  <2>2. ProgramTypes' /\ SonarTypes' /\ WorldTypes'
    BY <1>13 DEF Types, ProgramTypes, SonarTypes, WorldTypes, sonarVars, world
  <2>. QED
    BY <2>1, <2>2 DEF Types
<1>14. ASSUME NEW io \in Pins, Callback(io) PROVE Types'
  <2>1. GpioTypes'
    BY <1>14, HandlerTypes DEF Types, Callback
  <2>2. SonarTypes' /\ crashed' \in BOOLEAN
    BY <1>14, CallbackTypes
  <2>3. ProgramTypes' /\ WorldTypes'
    BY <1>14, <2>2 DEF Types, Callback, ProgramTypes, WorldTypes, world
  <2>. QED
    BY <2>1, <2>2, <2>3 DEF Types
<1>. QED
  BY <1>1, <1>2, <1>3, <1>4, <1>5, <1>6, <1>7, <1>8, <1>9, <1>10, <1>11, <1>12, <1>13, <1>14
     DEF Next, MainStep, SigHandler, FirePoll

(* The types imply those of the model.                                     *)
LEMMA TypesAnswer == Types => TypeOK
<1>. SUFFICES ASSUME Types PROVE TypeOK
  OBVIOUS
<1>1. /\ main.at \in {"idle", "echo", "built", "unecho", "pulse", "wait"}
      /\ main.sonar \in Sonars \cup {Null}
      /\ built \subseteq Sonars /\ crashed \in BOOLEAN
  BY DEF Types, ProgramTypes, MainPlaces
<1>2. GpioTypeOK
  BY DEF Types, GpioTypes
<1>3. \A s \in Sonars : Len(echoes[s]) <= MaxShots + 1
  <2>. SUFFICES ASSUME NEW s \in Sonars PROVE Len(echoes[s]) <= MaxShots + 1
    OBVIOUS
  <2>1. /\ Len(echoes[s]) \in Nat /\ Len(echoes[s]) <= shots[s] + 1 /\ shots[s] \in 0..MaxShots
    BY LenProperties DEF Types, WorldTypes
  <2>. QED
    BY <2>1, SonarAssumption
<1>. QED
  BY <1>1, <1>2, <1>3, Zenon DEF Types, SonarTypes, WorldTypes, TypeOK

(***************************************************************************)
(* Where sonars are registered, and when the program fires.                *)
(***************************************************************************)
(* The two ports of a sonar                                                *)
Ports(s) == {TriggerPort[s], EchoPort[s]}

(* How the sonars are wired: the trigger below the echo, in the order in   *)
(* which the handler looks ("CSonar s0(2, 3)", test/sonar/sonar.cxx:189),  *)
(* and no port shared by two sonars.                                       *)
Wired ==
  /\ \A s \in Sonars : TriggerPort[s] < EchoPort[s]
  /\ \A s, u \in Sonars : s # u => Ports(s) \cap Ports(u) = {}

(* The constructor of s has begun, and its destructor has not.             *)
Live(s) == s \in built \/ (main.at \in {"echo", "built"} /\ main.sonar = s)

(* A sonar whose trigger has been heard has it registered, and the call that *)
(* unregisters a port is not at the trigger of a sonar that is in use.     *)
Registered ==
  /\ \A s \in Sonars : Live(s) /\ flag[s] => TriggerPort[s] \in callback \cap fd
  /\ call.at \in {"unpointer", "close"} => \A s \in Sonars : Live(s) => call.io # TriggerPort[s]

(* The program fires sonars that it has, and calls nothing meanwhile.      *)
Fires ==
  main.at \in {"pulse", "wait"} => call.at = "none" /\ main.sonar \in built \ Controlled

(* What the wiring says of the ports of one sonar                          *)
LEMMA WiredIs ==
  ASSUME Wired, NEW s \in Sonars
  PROVE  /\ TriggerPort[s] \in 0..15 /\ EchoPort[s] \in 0..15 /\ TriggerPort[s] < EchoPort[s]
         /\ \A u \in Sonars : TriggerPort[s] # EchoPort[u]
         /\ \A u \in Sonars \ {s} : TriggerPort[s] # TriggerPort[u] /\ EchoPort[s] # EchoPort[u]
                                    /\ EchoPort[s] # TriggerPort[u]
<1>1. TriggerPort[s] \in 0..15 /\ EchoPort[s] \in 0..15
  BY PortsAre, PinAssumption
<1>2. TriggerPort[s] < EchoPort[s]
  BY DEF Wired
<1>3. ASSUME NEW u \in Sonars \ {s}
      PROVE  /\ TriggerPort[s] # TriggerPort[u] /\ EchoPort[s] # EchoPort[u]
             /\ EchoPort[s] # TriggerPort[u] /\ TriggerPort[s] # EchoPort[u]
  <2>1. Ports(s) \cap Ports(u) = {}
    BY DEF Wired
  <2>. QED
    BY <2>1 DEF Ports
<1>. QED
  BY <1>1, <1>2, <1>3

(* RegisterCallback begins where no handler runs, and unregisters nothing. *)
LEMMA RegisterIs ==
  ASSUME NEW io, NEW object, Register(io, object)
  PROVE  /\ handler.at = "out" /\ handler' = handler /\ call.at = "none"
         /\ call'.at \notin {"unpointer", "close"}
         /\ UNCHANGED <<fd, status, stamp, callback>>
BY DEF Register, InUser, library

(* A call only ever removes the pin that it unregisters.                   *)
LEMMA CallIs ==
  ASSUME CallStep, call \in [at : CallPlaces, io : 0..15, object : Objects \cup {Null}]
  PROVE  /\ handler.at = "out" /\ handler' = handler /\ stamp' = stamp /\ call.at # "none"
         /\ callback \subseteq callback'
         /\ call'.at \in {"unpointer", "close"} => call.at = "unpointer" /\ call'.io = call.io
         /\ (fd' = fd \ {call.io} /\ call.at = "close") \/ fd \subseteq fd'
         /\ status' \subseteq status \cup saved
<1>. USE DEF Step, Then, driver, library, NoCall
<1>1. CASE OpenDevice
  BY <1>1 DEF OpenDevice, Store
<1>2. CASE SetAsync
  BY <1>2 DEF SetAsync
<1>3. CASE ResetStatus
  BY <1>3 DEF ResetStatus, Load
<1>4. CASE ResetDone
  BY <1>4 DEF ResetDone, Store
<1>5. CASE SetCallback
  BY <1>5 DEF SetCallback
<1>6. CASE SetPointer
  BY <1>6 DEF SetPointer
<1>7. CASE ClearPointer
  BY <1>7 DEF ClearPointer
<1>8. CASE CloseDevice
  BY <1>8 DEF CloseDevice
<1>. QED
  BY <1>1, <1>2, <1>3, <1>4, <1>5, <1>6, <1>7, <1>8 DEF CallStep

(* Sonars stay registered while they are in use.                           *)
LEMMA RegisteredKept == Wired /\ Types /\ Registered /\ [Next]_vars => Registered'
<1>. SUFFICES ASSUME Wired, Types, Registered, [Next]_vars PROVE Registered'
  OBVIOUS
<1>1. ASSUME UNCHANGED <<flag, callback, fd, call, built, main>> PROVE Registered'
  BY <1>1 DEF Registered, Live
<1>2. CASE UNCHANGED vars
  BY <1>1, <1>2 DEF vars, gpioVars, driver, library, sonarVars
<1>3. ASSUME NEW s \in Sonars, Construct(s) PROVE Registered'
  <2>1. main' = [at |-> "echo", sonar |-> s] /\ built' = built /\ flag' = [flag EXCEPT ![s] = FALSE]
    BY <1>3 DEF Construct, Goto
  <2>2. UNCHANGED <<fd, callback>> /\ call'.at \notin {"unpointer", "close"}
    BY <1>3, RegisterIs DEF Construct
  <2>3. ASSUME NEW u \in Sonars, Live(u)', flag'[u] PROVE TriggerPort[u] \in callback \cap fd
    <3>1. u # s
      BY <2>1, <2>3 DEF Types, SonarTypes
    <3>2. flag[u] /\ u \in built
      BY <2>1, <2>3, <3>1 DEF Types, SonarTypes, Live
    <3>. QED
      BY <3>2 DEF Registered, Live
  <2>. QED
    BY <2>2, <2>3 DEF Registered
<1>4. CASE ConstructEcho
  <2>1. main.at = "echo" /\ main' = [at |-> "built", sonar |-> main.sonar] /\ UNCHANGED <<built, flag>>
    BY <1>4 DEF ConstructEcho, Goto, Main, sonarVars
  <2>2. UNCHANGED <<fd, callback>> /\ call'.at \notin {"unpointer", "close"}
    BY <1>4, RegisterIs DEF ConstructEcho
  <2>3. \A u : Live(u)' => Live(u)
    BY <2>1 DEF Live
  <2>. QED
    BY <2>1, <2>2, <2>3 DEF Registered
<1>5. CASE Constructed
  <2>1. main.at = "built" /\ main' = Idle /\ built' = built \cup {main.sonar}
        /\ UNCHANGED <<fd, callback, call, flag>>
    BY <1>5 DEF Constructed, Main, sonarVars, gpioVars, driver, library
  <2>2. \A u : Live(u)' => Live(u)
    BY <2>1 DEF Live, Idle
  <2>. QED
    BY <2>1, <2>2 DEF Registered
<1>6. ASSUME NEW s \in Sonars, Destroy(s) PROVE Registered'
  <2>1. main' = [at |-> "unecho", sonar |-> s] /\ built' = built \ {s} /\ flag' = flag
    BY <1>6 DEF Destroy, Goto, sonarVars
  <2>2. fd' = fd /\ callback' = callback \ {TriggerPort[s]} /\ call'.io = TriggerPort[s]
    BY <1>6 DEF Destroy, Unregister, driver
  <2>3. ASSUME NEW u \in Sonars, Live(u)' PROVE Live(u) /\ TriggerPort[u] # TriggerPort[s]
    BY <2>1, <2>3, WiredIs DEF Live
  <2>. QED
    BY <2>1, <2>2, <2>3 DEF Registered
<1>7. CASE DestroyEcho
  <2>1. main' = Idle /\ UNCHANGED <<built, flag>>
    BY <1>7 DEF DestroyEcho, sonarVars
  <2>2. fd' = fd /\ callback' = callback \ {EchoPort[main.sonar]} /\ call'.io = EchoPort[main.sonar]
    BY <1>7 DEF DestroyEcho, Unregister, driver
  <2>3. main.sonar \in Sonars
    BY <1>7 DEF DestroyEcho, Main, Types, ProgramTypes
  <2>4. ASSUME NEW u \in Sonars, Live(u)' PROVE Live(u) /\ TriggerPort[u] # EchoPort[main.sonar]
    BY <2>1, <2>3, <2>4, WiredIs DEF Live, Idle
  <2>. QED
    BY <2>1, <2>2, <2>4 DEF Registered
<1>8. CASE LibraryStep
  <2>1. CallStep /\ UNCHANGED <<main, built, flag>>
    BY <1>8 DEF LibraryStep, sonarVars
  <2>2. \A u : Live(u)' <=> Live(u)
    BY <2>1 DEF Live
  <2>. QED
    BY <2>1, <2>2, CallIs DEF Types, GpioTypes, Registered
<1>9. ASSUME NEW s \in Sonars, Fire(s) PROVE Registered'
  <2>1. main.at = "idle" /\ main' = [at |-> "pulse", sonar |-> s] /\ UNCHANGED <<built, flag, callback, fd, call>>
    BY <1>9 DEF Fire, Main, Goto, gpioVars, driver, library
  <2>2. \A u : Live(u)' => Live(u)
    BY <2>1 DEF Live
  <2>. QED
    BY <2>1, <2>2 DEF Registered
<1>10. CASE FirePulse \/ FireReturn
  <2>1. main.at \in {"pulse", "wait"} /\ main'.at \in {"wait", "idle"} /\ UNCHANGED <<built, flag, callback, fd, call>>
    BY <1>10 DEF FirePulse, FireReturn, Main, Goto, Idle, gpioVars, driver, library, sonarVars
  <2>2. \A u : Live(u)' => Live(u)
    BY <2>1 DEF Live
  <2>. QED
    BY <2>1, <2>2 DEF Registered
<1>11. ASSUME NEW s \in Sonars, Alarm(s) \/ Echo(s) PROVE Registered'
  BY <1>1, <1>11 DEF Alarm, Echo, library, sonarVars
<1>12. ASSUME TakeSignal \/ HandlerStep, UNCHANGED <<main, built, sonarVars, world, crashed>>
       PROVE  Registered'
  BY <1>1, <1>12 DEF TakeSignal, HandlerStep, ReadStatus, HandlerReset, HandlerResetDone, driver, library, sonarVars
<1>13. ASSUME NEW io \in Pins, Callback(io) PROVE Registered'
  <2>1. UNCHANGED <<main, built, callback, fd, call>> /\ io \in callback \cap fd
    BY <1>13 DEF Callback, Calling, driver, library, Types, GpioTypes, Handling
  <2>2. CASE flag' = flag
    BY <1>1, <2>1, <2>2
  <2>3. CASE flag' # flag
    <3>. DEFINE s == userPointer[io]
    <3>1. io = TriggerPort[s] /\ flag' = [flag EXCEPT ![s] = TRUE]
      BY <1>13, <2>3 DEF Callback, sonarVars
    <3>. HIDE DEF s
    <3>2. ASSUME NEW u \in Sonars, Live(u), flag'[u] PROVE TriggerPort[u] \in callback \cap fd
      <4>1. CASE u = s
        BY <2>1, <3>1, <4>1
      <4>2. CASE u # s
        BY <3>1, <3>2, <4>2 DEF Registered, Types, SonarTypes
      <4>. QED
        BY <4>1, <4>2
    <3>3. \A u : Live(u)' <=> Live(u)
      BY <2>1 DEF Live
    <3>. QED
      BY <2>1, <3>2, <3>3 DEF Registered
  <2>. QED
    BY <2>2, <2>3
<1>. QED
  BY <1>2, <1>3, <1>4, <1>5, <1>6, <1>7, <1>8, <1>9, <1>10, <1>11, <1>12, <1>13
     DEF Next, MainStep, SigHandler, FirePoll

(* The program fires only sonars that it has, and calls nothing meanwhile. *)
LEMMA FiresKept == Types /\ Fires /\ [Next]_vars => Fires'
<1>. SUFFICES ASSUME Types, Fires, [Next]_vars PROVE Fires'
  OBVIOUS
<1>1. ASSUME UNCHANGED <<call, built, main>> PROVE Fires'
  BY <1>1 DEF Fires
<1>2. ASSUME main'.at \notin {"pulse", "wait"} PROVE Fires'
  BY <1>2 DEF Fires
<1>3. CASE UNCHANGED vars
  BY <1>1, <1>3 DEF vars, gpioVars
<1>4. CASE \/ ConstructEcho \/ Constructed \/ DestroyEcho \/ FireReturn
           \/ \E s \in Sonars : Construct(s) \/ Destroy(s)
  BY <1>2, <1>4 DEF ConstructEcho, Constructed, DestroyEcho, FireReturn, Construct, Destroy, Goto, Idle
<1>5. CASE LibraryStep
  <2>1. call.at # "none" /\ UNCHANGED main
    BY <1>5, CallIs DEF LibraryStep, Types, GpioTypes
  <2>. QED
    BY <2>1 DEF Fires
<1>6. ASSUME NEW s \in Sonars, Fire(s) PROVE Fires'
  <2>1. /\ call.at = "none" /\ s \in built \ Controlled /\ UNCHANGED <<call, built>>
        /\ main' = [at |-> "pulse", sonar |-> s]
    BY <1>6 DEF Fire, Main, Goto, gpioVars
  <2>. QED
    BY <2>1 DEF Fires
<1>7. CASE FirePulse
  <2>1. /\ main.at = "pulse" /\ UNCHANGED <<call, built>>
        /\ main' = [at |-> "wait", sonar |-> main.sonar]
    BY <1>7 DEF FirePulse, Main, Goto
  <2>. QED
    BY <2>1 DEF Fires
<1>8. ASSUME NEW s \in Sonars, Alarm(s) \/ Echo(s) PROVE Fires'
  BY <1>1, <1>8 DEF Alarm, Echo
<1>9. ASSUME TakeSignal \/ HandlerStep, UNCHANGED <<main, built, sonarVars, world, crashed>>
       PROVE  Fires'
  BY <1>1, <1>9 DEF TakeSignal, HandlerStep, ReadStatus, HandlerReset, HandlerResetDone
<1>10. ASSUME NEW io \in Pins, Callback(io) PROVE Fires'
  BY <1>1, <1>10 DEF Callback, Calling
<1>. QED
  BY <1>3, <1>4, <1>5, <1>6, <1>7, <1>8, <1>9, <1>10 DEF Next, MainStep, SigHandler, FirePoll

(***************************************************************************)
(* One sonar, between two of its shots and during one.                     *)
(***************************************************************************)
(* The handler has found a report of pin io.                               *)
Handles(io) == handler.at \in Handling /\ handler.io = io

(* The time stamp that the callback will subtract is that of this shot; a  *)
(* sonar whose m_flag is not set yet has none and makes no value.          *)
TriggerSeen(s) == flag[s] => tv0[s] = shots[s]

(* The report of this shot's trigger is ahead of the handler: it has not   *)
(* passed the pin, and the reset of another pin does not clear it.         *)
TriggerDue(s) ==
  LET io == TriggerPort[s] IN
  /\ io \in callback \cap fd
  /\ \/ /\ io \in status
        /\ handler.at = "out" \/ handler.io <= io
        /\ handler.at = "store" => io \in saved
     \/ handler.at = "call" /\ handler.io = io

(* The echo has not come back: there is no report of it and no value.      *)
EchoAhead(s) ==
  /\ echoes[s] = <<shots[s]>> /\ ~valid[s]
  /\ EchoPort[s] \notin status /\ ~Handles(EchoPort[s])

(* The echo has come back: its report is the one of this shot, and so is   *)
(* the value, if there is one.                                             *)
EchoBack(s) ==
  LET io == EchoPort[s] IN
  /\ echoes[s] = <<>>
  /\ (io \in status \/ Handles(io)) => ~valid[s] /\ stamp[io] = shots[s]
  /\ handler.at = "call" /\ handler.io = io => io \notin status
  /\ valid[s] => val[s] = <<shots[s], shots[s]>>

(* What holds of a sonar that Fire(true) is waiting for                    *)
Shot(s) ==
  /\ TriggerPort[s] \in fd => stamp[TriggerPort[s]] = shots[s]
  /\ TriggerSeen(s) \/ TriggerDue(s) \/ crashed
  /\ EchoAhead(s) \/ EchoBack(s)

(* What holds of a sonar that it is not waiting for: no echo is under way  *)
(* and none is reported, and between the two steps of Fire no value is valid. *)
Rest(s) ==
  /\ echoes[s] = <<>> /\ EchoPort[s] \notin status /\ ~Handles(EchoPort[s])
  /\ main.at = "pulse" /\ main.sonar = s => ~valid[s]

(* Fire(true) of s is waiting.                                             *)
Waiting(s) == main.at = "wait" /\ main.sonar = s

(* The state of one sonar that the program fires                           *)
InTurn(s) == (Waiting(s) => Shot(s)) /\ (~Waiting(s) => Rest(s))

(* The calls of the program neither run the handler nor add a report.      *)
LEMMA ProgramKeeps ==
  ASSUME Types, NEW s \in Sonars, InTurn(s),
         main.at \notin {"pulse", "wait"}, main'.at \notin {"pulse", "wait"},
         handler' = handler, status' \subseteq status \cup saved, echoes' = echoes
  PROVE  InTurn(s)'
<1>1. status' \subseteq status
  BY DEF Types, GpioTypes
<1>2. Rest(s)
  BY DEF InTurn, Waiting
<1>3. Rest(s)'
  BY <1>1, <1>2 DEF Rest, Handles
<1>. QED
  BY <1>3 DEF InTurn, Waiting

(* An edge of another sonar is at another port.                            *)
LEMMA OtherEdge ==
  ASSUME Wired, Types, NEW s \in Sonars, InTurn(s), NEW u \in Sonars \ {s}, NEW io \in Ports(u), NEW t,
         Served(io, t), UNCHANGED <<main, handler, fd, callback, saved, flag, tv0, val, crashed>>,
         echoes'[s] = echoes[s], shots'[s] = shots[s], valid'[s] = valid[s]
  PROVE  InTurn(s)'
<1>1. io # TriggerPort[s] /\ io # EchoPort[s]
  BY WiredIs DEF Ports
<1>2. /\ status \subseteq status' /\ (EchoPort[s] \in status' => EchoPort[s] \in status)
      /\ stamp'[EchoPort[s]] = stamp[EchoPort[s]] /\ stamp'[TriggerPort[s]] = stamp[TriggerPort[s]]
  <2>1. CASE io \in fd
    BY <1>1, <2>1, PortsAre DEF Served, Types, GpioTypes
  <2>2. CASE io \notin fd
    BY <1>1, <2>2 DEF Served, Types, GpioTypes
  <2>. QED
    BY <2>1, <2>2
<1>3. Rest(s) => Rest(s)'
  BY <1>2 DEF Rest, Handles
<1>4. TriggerSeen(s) => TriggerSeen(s)'
  BY DEF TriggerSeen
<1>5. TriggerDue(s) => TriggerDue(s)'
  BY <1>2 DEF TriggerDue
<1>6. EchoAhead(s) => EchoAhead(s)'
  BY <1>2 DEF EchoAhead, Handles
<1>7. EchoBack(s) => EchoBack(s)'
  BY <1>2 DEF EchoBack, Handles
<1>. QED
  BY <1>2, <1>3, <1>4, <1>5, <1>6, <1>7 DEF InTurn, Shot, Waiting

(* The echo of the sonar itself comes while Fire is waiting for it.        *)
LEMMA OwnEdge ==
  ASSUME Wired, Types, NEW s \in Sonars, InTurn(s), Echo(s)
  PROVE  InTurn(s)'
<1>1. /\ echoes[s] # <<>> /\ echoes'[s] = Tail(echoes[s]) /\ Served(EchoPort[s], Head(echoes[s]))
      /\ UNCHANGED <<main, handler, fd, callback, saved, flag, tv0, val, valid, shots, crashed>>
  BY DEF Echo, sonarVars, library, Types, WorldTypes
<1>2. Waiting(s) /\ Shot(s) /\ EchoAhead(s)
  BY <1>1 DEF InTurn, Rest, Shot, EchoBack
<1>3. echoes[s] = <<shots[s]>> /\ ~valid[s] /\ EchoPort[s] \notin status /\ ~Handles(EchoPort[s])
  BY <1>2 DEF EchoAhead
<1>4. echoes'[s] = <<>> /\ Served(EchoPort[s], shots[s])
  BY <1>1, <1>3
<1>5. TriggerPort[s] # EchoPort[s]
  BY WiredIs
<1>6. /\ status \subseteq status' /\ stamp'[TriggerPort[s]] = stamp[TriggerPort[s]]
      /\ EchoPort[s] \in status' => stamp'[EchoPort[s]] = shots[s]
  <2>1. CASE EchoPort[s] \in fd
    BY <1>4, <1>5, <2>1, PortsAre DEF Served, Types, GpioTypes
  <2>2. CASE EchoPort[s] \notin fd
    BY <1>3, <1>4, <1>5, <2>2 DEF Served, Types, GpioTypes
  <2>. QED
    BY <2>1, <2>2
<1>7. EchoBack(s)'
  <2>1. ~Handles(EchoPort[s])'
    BY <1>1, <1>3 DEF Handles
  <2>2. ~(handler'.at = "call" /\ handler'.io = EchoPort[s])
    BY <2>1 DEF Handles, Handling
  <2>3. ~valid'[s]
    BY <1>1, <1>3
  <2>. QED
    BY <1>1, <1>4, <1>6, <2>1, <2>2, <2>3 DEF EchoBack
<1>8. TriggerSeen(s) => TriggerSeen(s)'
  BY <1>1 DEF TriggerSeen
<1>9. TriggerDue(s) => TriggerDue(s)'
  BY <1>1, <1>6 DEF TriggerDue
<1>10. Shot(s)'
  BY <1>1, <1>2, <1>6, <1>7, <1>8, <1>9 DEF Shot
<1>. QED
  BY <1>1, <1>2, <1>10 DEF InTurn, Waiting

(* The pulse of the program starts a shot of a sonar that was at rest.     *)
LEMMA PulseKeeps ==
  ASSUME Wired, Types, Registered, Fires, NEW s \in Sonars, InTurn(s), FirePulse
  PROVE  InTurn(s)'
<1>. DEFINE u == main.sonar
<1>1. /\ main.at = "pulse" /\ main' = [at |-> "wait", sonar |-> u] /\ Pulse(u) /\ handler.at = "out"
      /\ UNCHANGED <<fd, saved, callback, handler, flag, tv0, valid, val, crashed>>
  BY DEF FirePulse, Main, InUser, Goto, sonarVars, library
<1>2. u \in Sonars /\ u \in built /\ Rest(s)
  BY <1>1 DEF Fires, Types, ProgramTypes, InTurn, Waiting
<1>. HIDE DEF u
<1>3. CASE u # s
  <2>1. /\ Served(TriggerPort[u], shots[u] + 1) /\ echoes'[s] = echoes[s]
    BY <1>1, <1>2, <1>3 DEF Pulse, Types, WorldTypes
  <2>2. EchoPort[s] # TriggerPort[u]
    BY <1>2, <1>3, WiredIs
  <2>3. EchoPort[s] \notin status'
    <3>1. status' = status \/ status' = status \cup {TriggerPort[u]}
      BY <2>1 DEF Served
    <3>. QED
      BY <1>2, <2>2, <3>1 DEF Rest
  <2>4. Rest(s)'
    BY <1>1, <1>2, <2>1, <2>3 DEF Rest, Handles
  <2>. QED
    BY <1>1, <1>3, <2>4 DEF InTurn, Waiting
<1>4. CASE u = s
  <2>. DEFINE n == shots[s] + 1
  <2>1. /\ Served(TriggerPort[s], n) /\ echoes'[s] = Append(echoes[s], n) /\ shots'[s] = n
    BY <1>1, <1>4 DEF Pulse, Types, WorldTypes
  <2>2. echoes[s] = <<>> /\ EchoPort[s] \notin status /\ ~valid[s] /\ ~Handles(EchoPort[s])
    BY <1>1, <1>2, <1>4 DEF Rest, u
  <2>. HIDE DEF n
  <2>3. echoes'[s] = <<n>>
    BY <2>1, <2>2
  <2>4. TriggerPort[s] # EchoPort[s]
    BY WiredIs
  <2>5. /\ EchoPort[s] \notin status'
        /\ TriggerPort[s] \in fd => stamp'[TriggerPort[s]] = n /\ TriggerPort[s] \in status'
    <3>1. CASE TriggerPort[s] \in fd
      BY <2>1, <2>2, <2>4, <3>1, PortsAre DEF Served, Types, GpioTypes
    <3>2. CASE TriggerPort[s] \notin fd
      BY <2>1, <2>2, <3>2 DEF Served
    <3>. QED
      BY <3>1, <3>2
  <2>6. EchoAhead(s)'
    BY <1>1, <2>1, <2>2, <2>3, <2>5 DEF EchoAhead, Handles
  <2>7. TriggerSeen(s)' \/ TriggerDue(s)'
    <3>1. CASE flag[s]
      <4>1. TriggerPort[s] \in callback \cap fd
        BY <1>2, <1>4, <3>1 DEF Registered, Live
      <4>. QED
        BY <1>1, <2>5, <4>1 DEF TriggerDue
    <3>2. CASE ~flag[s]
      BY <1>1, <3>2 DEF TriggerSeen
    <3>. QED
      BY <3>1, <3>2
  <2>8. Shot(s)'
    BY <1>1, <2>1, <2>5, <2>6, <2>7 DEF Shot
  <2>. QED
    BY <1>1, <1>4, <2>8 DEF InTurn, Waiting
<1>. QED
  BY <1>3, <1>4

(***************************************************************************)
(* The handler.                                                            *)
(***************************************************************************)
(* The handler scans upwards, so it finds the trigger before the echo.     *)
LEMMA ScanKeeps ==
  ASSUME Wired, Types, NEW s \in Sonars, InTurn(s), TakeSignal \/ ReadStatus \/ HandlerReset,
         UNCHANGED <<main, flag, tv0, valid, val, shots, echoes, crashed>>
  PROVE  InTurn(s)'
<1>. DEFINE T == TriggerPort[s]
            E == EchoPort[s]
<1>0. T \in 0..15 /\ E \in 0..15 /\ T < E
  BY WiredIs
<1>1. UNCHANGED <<fd, status, stamp, callback>>
  BY DEF TakeSignal, ReadStatus, HandlerReset, driver, library
<1>2. handler'.at # "call"
  BY DEF TakeSignal, ReadStatus, HandlerReset, Types, GpioTypes
<1>3. Handles(E)' => Handles(E) \/ E \in status
  <2>1. CASE TakeSignal
    BY <2>1 DEF TakeSignal, Handles, Handling
  <2>2. CASE ReadStatus
    BY <2>2 DEF ReadStatus, Handles, Handling
  <2>3. CASE HandlerReset
    BY <2>3 DEF HandlerReset, Handles, Handling, Types, GpioTypes
  <2>. QED
    BY <2>1, <2>2, <2>3
<1>4. Rest(s) => Rest(s)'
  BY <1>1, <1>3 DEF Rest
<1>5. EchoAhead(s) => EchoAhead(s)'
  BY <1>1, <1>3 DEF EchoAhead
<1>6. EchoBack(s) => EchoBack(s)'
  BY <1>1, <1>2, <1>3 DEF EchoBack
<1>7. TriggerSeen(s) => TriggerSeen(s)'
  BY DEF TriggerSeen
<1>8. ASSUME TriggerDue(s) PROVE TriggerDue(s)'
  <2>1. T \in callback \cap fd /\ handler.at # "call" /\ T \in status
    BY <1>8 DEF TriggerDue, TakeSignal, ReadStatus, HandlerReset, InUser
  <2>2. CASE TakeSignal
    <3>1. handler' = [at |-> "scan", io |-> 0]
      BY <2>2 DEF TakeSignal
    <3>. QED
      BY <1>0, <1>1, <2>1, <3>1 DEF TriggerDue
  <2>3. CASE ReadStatus
    <3>1. handler.at = "scan" /\ handler.io <= T
      BY <1>8, <2>1, <2>3 DEF ReadStatus, TriggerDue
    <3>2. T \in Scanned /\ Scanned \in SUBSET (0..15)
      BY <2>1, <3>1, PinAssumption DEF Scanned, Types, GpioTypes, GpioTypeOK
    <3>3. Low(Scanned) \in 0..15 /\ Low(Scanned) <= T
      BY <3>2, LowIs
    <3>4. \/ handler' = [at |-> "reset", io |-> Low(Scanned)]
          \/ handler' = [at |-> "scan", io |-> Low(Scanned) + 1] /\ Low(Scanned) # T
      BY <2>1, <2>3, <3>2 DEF ReadStatus
    <3>. HIDE DEF T
    <3>5. handler'.io <= T /\ handler'.at # "store"
      BY <1>0, <3>3, <3>4
    <3>. QED
      BY <1>1, <2>1, <3>5 DEF TriggerDue, T
  <2>4. CASE HandlerReset
    <3>1. handler'.io = handler.io /\ saved' = status /\ handler.at = "reset"
      BY <2>4 DEF HandlerReset, Load, Types, GpioTypes
    <3>. QED
      BY <1>1, <1>8, <2>1, <3>1 DEF TriggerDue
  <2>. QED
    BY <2>2, <2>3, <2>4
<1>9. Shot(s) => Shot(s)'
  BY <1>1, <1>5, <1>6, <1>7, <1>8 DEF Shot
<1>. QED
  BY <1>4, <1>9 DEF InTurn, Waiting

(* The reset of a report writes back a copy of the others: it may lose one *)
(* that has come since, but not that of a trigger that is due, which was   *)
(* there when the copy was taken.                                          *)
LEMMA ResetKeeps ==
  ASSUME Wired, Types, NEW s \in Sonars, InTurn(s), HandlerResetDone,
         UNCHANGED <<main, flag, tv0, valid, val, shots, echoes, crashed>>
  PROVE  InTurn(s)'
<1>. DEFINE T == TriggerPort[s]
            E == EchoPort[s]
<1>1. /\ UNCHANGED <<fd, stamp, callback>> /\ status' = saved \ {handler.io} /\ saved \subseteq status
      /\ handler.at = "store" /\ handler'.at = "call" /\ handler'.io = handler.io
  BY DEF HandlerResetDone, Store, library, Types, GpioTypes
<1>2. Handles(E)' => Handles(E)
  BY <1>1 DEF Handles, Handling
<1>3. Rest(s) => Rest(s)'
  BY <1>1, <1>2 DEF Rest
<1>4. EchoAhead(s) => EchoAhead(s)'
  BY <1>1, <1>2 DEF EchoAhead
<1>5. EchoBack(s) => EchoBack(s)'
  BY <1>1, <1>2 DEF EchoBack
<1>6. TriggerSeen(s) => TriggerSeen(s)'
  BY DEF TriggerSeen
<1>7. TriggerDue(s) => TriggerDue(s)'
  BY <1>1 DEF TriggerDue
<1>8. Shot(s) => Shot(s)'
  BY <1>1, <1>4, <1>5, <1>6, <1>7 DEF Shot
<1>. QED
  BY <1>3, <1>8 DEF InTurn, Waiting

(* What a callback does to the sonar s: nothing at another's pin, and the  *)
(* half that belongs to the pin at its own.                                *)
LEMMA CallbackIs ==
  ASSUME Wired, Types, NEW s \in Sonars, NEW io \in Pins, Callback(io)
  PROVE  /\ io # TriggerPort[s] /\ io # EchoPort[s] => UNCHANGED <<flag[s], tv0[s], valid[s], val[s]>>
         /\ io = TriggerPort[s] =>
              /\ UNCHANGED <<valid[s], val[s]>>
              /\ crashed' \/ (flag'[s] /\ tv0'[s] = stamp[io])
         /\ io = EchoPort[s] =>
              /\ UNCHANGED <<flag[s], tv0[s]>>
              /\ \/ UNCHANGED <<valid[s], val[s]>>
                 \/ flag[s] /\ valid'[s] /\ val'[s] = <<tv0[s], stamp[io]>>
<1>. DEFINE u == userPointer[io]
<1>1. u \in Sonars \cup {Null} /\ stamp' = stamp
  BY SonarAssumption DEF Types, GpioTypes, GpioTypeOK, Callback, Calling, driver
<1>2. u # Null => io = TriggerPort[u] \/ io = EchoPort[u]
  BY DEF Callback
<1>3. CASE u = Null
  BY <1>3 DEF Callback, sonarVars
<1>4. CASE u # Null /\ u # s
  <2>1. io # TriggerPort[s] /\ io # EchoPort[s]
    BY <1>1, <1>2, <1>4, WiredIs
  <2>2. UNCHANGED <<flag[s], tv0[s], valid[s], val[s]>>
    BY <1>1, <1>4 DEF Callback, sonarVars, Types, SonarTypes
  <2>. QED
    BY <2>1, <2>2
<1>5. CASE u = s /\ u # Null
  <2>1. TriggerPort[s] # EchoPort[s]
    BY WiredIs
  <2>2. CASE io = TriggerPort[s]
    <3>1. /\ flag' = [flag EXCEPT ![s] = TRUE] /\ tv0' = [tv0 EXCEPT ![s] = stamp[io]]
          /\ valid' = valid /\ val' = val
      BY <1>5, <2>1, <2>2 DEF Callback
    <3>. QED
      BY <2>1, <2>2, <3>1 DEF Types, SonarTypes
  <2>3. CASE io = EchoPort[s] /\ flag[s]
    <3>1. /\ val' = [val EXCEPT ![s] = <<tv0[s], stamp[io]>>] /\ valid' = [valid EXCEPT ![s] = TRUE]
          /\ flag' = flag /\ tv0' = tv0
      BY <1>5, <2>1, <2>3 DEF Callback
    <3>. QED
      BY <2>1, <2>3, <3>1 DEF Types, SonarTypes
  <2>4. CASE io = EchoPort[s] /\ ~flag[s]
    BY <1>5, <2>1, <2>4 DEF Callback, sonarVars
  <2>. QED
    BY <1>2, <1>5, <2>2, <2>3, <2>4
<1>. QED
  BY <1>1, <1>3, <1>4, <1>5

(* The callback for the trigger of a shot comes before that for its echo.  *)
LEMMA CallbackKeeps ==
  ASSUME Wired, Types, NEW s \in Sonars, InTurn(s), ~crashed, NEW io \in Pins, Callback(io)
  PROVE  InTurn(s)'
<1>. DEFINE T == TriggerPort[s]
            E == EchoPort[s]
<1>0. T \in 0..15 /\ E \in 0..15 /\ T < E /\ T # E /\ io \in 0..15
  BY WiredIs, PinAssumption
<1>1. /\ UNCHANGED <<main, fd, status, stamp, saved, callback, shots, echoes>>
      /\ handler.at = "call" /\ handler.io = io /\ handler' = [at |-> "scan", io |-> io + 1]
      /\ io \in callback \cap fd
  BY DEF Callback, Calling, driver, library, world, Types, GpioTypes, Handling
<1>2. /\ io # T /\ io # E => UNCHANGED <<flag[s], tv0[s], valid[s], val[s]>>
      /\ io = T => UNCHANGED <<valid[s], val[s]>> /\ (crashed' \/ (flag'[s] /\ tv0'[s] = stamp[io]))
      /\ io = E =>
           /\ UNCHANGED <<flag[s], tv0[s]>>
           /\ \/ UNCHANGED <<valid[s], val[s]>>
              \/ flag[s] /\ valid'[s] /\ val'[s] = <<tv0[s], stamp[io]>>
  BY CallbackIs
<1>. HIDE DEF T, E
<1>3. ~Handles(E)' /\ handler'.at = "scan"
  BY <1>1 DEF Handles, Handling
<1>4. Handles(io)
  BY <1>1 DEF Handles, Handling
<1>5. ASSUME Rest(s) PROVE Rest(s)'
  <2>1. io # E
    BY <1>4, <1>5 DEF Rest, E
  <2>2. valid'[s] = valid[s]
    BY <1>2, <2>1
  <2>. QED
    BY <1>1, <1>3, <1>5, <2>2 DEF Rest, E
<1>6. ASSUME Shot(s) PROVE Shot(s)'
  <2>1. CASE io = T
    <3>1. TriggerSeen(s)' \/ crashed'
      BY <1>1, <1>2, <1>6, <2>1 DEF Shot, TriggerSeen, T
    <3>2. EchoAhead(s) => EchoAhead(s)'
      BY <1>1, <1>2, <1>3, <2>1 DEF EchoAhead, E
    <3>3. EchoBack(s) => EchoBack(s)'
      BY <1>1, <1>2, <1>3, <2>1 DEF EchoBack, E
    <3>. QED
      BY <1>1, <1>6, <3>1, <3>2, <3>3 DEF Shot
  <2>2. CASE io = E
    <3>1. EchoBack(s) /\ ~valid[s] /\ stamp[E] = shots[s] /\ E \notin status /\ echoes[s] = <<>>
      BY <1>1, <1>4, <1>6, <2>2 DEF Shot, EchoAhead, EchoBack, E
    <3>2. ~TriggerDue(s)
      BY <1>0, <1>1, <2>2 DEF TriggerDue, T
    <3>3. TriggerSeen(s)
      BY <1>6, <3>2 DEF Shot
    <3>4. TriggerSeen(s)'
      BY <1>1, <1>2, <2>2, <3>3 DEF TriggerSeen
    <3>5. valid'[s] => val'[s] = <<shots[s], shots[s]>>
      BY <1>2, <2>2, <3>1, <3>3 DEF TriggerSeen
    <3>6. EchoBack(s)'
      BY <1>1, <1>3, <3>1, <3>5 DEF EchoBack, E
    <3>. QED
      BY <1>1, <1>6, <3>4, <3>6 DEF Shot
  <2>3. CASE io # T /\ io # E
    <3>1. TriggerSeen(s) => TriggerSeen(s)'
      BY <1>1, <1>2, <2>3 DEF TriggerSeen
    <3>2. ASSUME TriggerDue(s) PROVE TriggerDue(s)'
      <4>1. T \in callback \cap fd /\ T \in status /\ io <= T
        BY <1>1, <2>3, <3>2 DEF TriggerDue, T
      <4>2. handler'.io <= T
        BY <1>0, <1>1, <2>3, <4>1
      <4>. QED
        BY <1>1, <1>3, <4>1, <4>2 DEF TriggerDue, T
    <3>3. EchoAhead(s) => EchoAhead(s)'
      BY <1>1, <1>2, <1>3, <2>3 DEF EchoAhead, E
    <3>4. EchoBack(s) => EchoBack(s)'
      BY <1>1, <1>2, <1>3, <2>3 DEF EchoBack, E
    <3>. QED
      BY <1>1, <1>6, <3>1, <3>2, <3>3, <3>4 DEF Shot
  <2>. QED
    BY <2>1, <2>2, <2>3
<1>. QED
  BY <1>1, <1>5, <1>6 DEF InTurn, Waiting

(***************************************************************************)
(* The inductive invariant and the theorems.                               *)
(***************************************************************************)
(* Sonars of a CSonarController are fired by alarms that wait for nothing. *)
Shots == \A s \in Sonars \ Controlled : InTurn(s)

(* The inductive invariant                                                 *)
IInv == Types /\ Registered /\ Fires /\ Shots

(* Every step keeps the state of a sonar that the program fires.           *)
LEMMA InTurnKept ==
  ASSUME Wired, Types, Registered, Fires, NEW s \in Sonars \ Controlled, InTurn(s), [Next]_vars
  PROVE  InTurn(s)'
<1>1. ASSUME main.at \notin {"pulse", "wait"}, main'.at \notin {"pulse", "wait"},
             handler' = handler, status' \subseteq status \cup saved, echoes' = echoes
      PROVE  InTurn(s)'
  BY <1>1, ProgramKeeps
<1>2. CASE UNCHANGED vars
  <2>1. UNCHANGED <<main, handler, fd, callback, status, stamp, saved, flag, tv0, valid, val, shots, echoes, crashed>>
    BY <1>2 DEF vars, gpioVars, driver, library, sonarVars, world
  <2>. QED
    BY <2>1 DEF InTurn, Waiting, Rest, Shot, TriggerSeen, TriggerDue, EchoAhead, EchoBack, Handles
<1>3. CASE ConstructEcho \/ \E u \in Sonars : Construct(u)
  <2>1. PICK io, u : Register(io, u)
    BY <1>3 DEF ConstructEcho, Construct
  <2>2. handler' = handler /\ status' = status
    BY <2>1, RegisterIs
  <2>3. main.at \in {"idle", "echo"} /\ main'.at \in {"echo", "built"} /\ echoes' = echoes
    BY <1>3 DEF ConstructEcho, Construct, Main, Goto, world
  <2>. QED
    BY <1>1, <2>2, <2>3
<1>4. CASE Constructed
  BY <1>1, <1>4 DEF Constructed, Main, Idle, gpioVars, driver, world
<1>5. CASE DestroyEcho \/ \E u \in Sonars : Destroy(u)
  <2>1. handler' = handler /\ status' = status
    BY <1>5 DEF DestroyEcho, Destroy, Unregister, driver
  <2>2. main.at \in {"idle", "unecho"} /\ main'.at \in {"idle", "unecho"} /\ echoes' = echoes
    BY <1>5 DEF DestroyEcho, Destroy, Main, Goto, Idle, world
  <2>. QED
    BY <1>1, <2>1, <2>2
<1>6. CASE LibraryStep
  <2>1. call.at # "none" /\ handler' = handler /\ status' \subseteq status \cup saved
    BY <1>6, CallIs DEF LibraryStep, Types, GpioTypes
  <2>2. main' = main /\ echoes' = echoes /\ main.at \notin {"pulse", "wait"}
    BY <1>6, <2>1 DEF LibraryStep, world, Fires
  <2>. QED
    BY <1>1, <2>1, <2>2
<1>7. ASSUME NEW u \in Sonars, Fire(u) PROVE InTurn(s)'
  <2>1. /\ main.at = "idle" /\ main' = [at |-> "pulse", sonar |-> u]
        /\ valid' = [valid EXCEPT ![u] = FALSE] /\ UNCHANGED <<handler, status, echoes>>
    BY <1>7 DEF Fire, Main, Goto, gpioVars, driver, world
  <2>2. Rest(s)
    BY <2>1 DEF InTurn, Waiting
  <2>3. u = s => ~valid'[s]
    BY <2>1 DEF Types, SonarTypes
  <2>4. Rest(s)'
    BY <2>1, <2>2, <2>3 DEF Rest, Handles
  <2>. QED
    BY <2>1, <2>4 DEF InTurn, Waiting
<1>8. CASE FirePulse
  BY <1>8, PulseKeeps
<1>9. CASE FireReturn
  <2>1. /\ main.at = "wait" /\ valid[main.sonar] /\ main' = Idle /\ UNCHANGED <<handler, status, echoes>>
    BY <1>9 DEF FireReturn, Main, gpioVars, driver, world
  <2>2. CASE Waiting(s)
    <3>1. EchoBack(s) /\ valid[s]
      BY <2>1, <2>2 DEF InTurn, Shot, EchoAhead, Waiting
    <3>2. Rest(s)'
      BY <2>1, <3>1 DEF EchoBack, Rest, Handles, Idle
    <3>. QED
      BY <2>1, <3>2 DEF InTurn, Waiting, Idle
  <2>3. CASE ~Waiting(s)
    <3>1. Rest(s)'
      BY <2>1, <2>3 DEF InTurn, Rest, Handles, Idle
    <3>. QED
      BY <2>1, <3>1 DEF InTurn, Waiting, Idle
  <2>. QED
    BY <2>2, <2>3
<1>10. ASSUME NEW u \in Sonars, Alarm(u) PROVE InTurn(s)'
  <2>1. /\ u \in Sonars \ {s} /\ TriggerPort[u] \in Ports(u) /\ Served(TriggerPort[u], shots[u] + 1)
        /\ UNCHANGED <<main, handler, fd, callback, saved, flag, tv0, val, crashed>>
    BY <1>10 DEF Alarm, Pulse, Ports, library
  <2>2. echoes'[s] = echoes[s] /\ shots'[s] = shots[s] /\ valid'[s] = valid[s]
    BY <1>10, <2>1 DEF Alarm, Pulse, Types, SonarTypes, WorldTypes
  <2>. QED
    BY <2>1, <2>2, OtherEdge
<1>11. ASSUME NEW u \in Sonars, Echo(u) PROVE InTurn(s)'
  <2>1. CASE u = s
    BY <1>11, <2>1, OwnEdge
  <2>2. CASE u # s
    <3>1. /\ u \in Sonars \ {s} /\ EchoPort[u] \in Ports(u) /\ Served(EchoPort[u], Head(echoes[u]))
          /\ UNCHANGED <<main, handler, fd, callback, saved, flag, tv0, val, crashed>>
      BY <1>11, <2>2 DEF Echo, Ports, library, sonarVars
    <3>2. echoes'[s] = echoes[s] /\ shots'[s] = shots[s] /\ valid'[s] = valid[s]
      BY <1>11, <2>2 DEF Echo, sonarVars, Types, WorldTypes
    <3>. QED
      BY <3>1, <3>2, OtherEdge
  <2>. QED
    BY <2>1, <2>2
<1>12. ASSUME TakeSignal \/ HandlerStep, UNCHANGED <<main, built, sonarVars, world, crashed>>
       PROVE  InTurn(s)'
  BY <1>12, ScanKeeps, ResetKeeps DEF HandlerStep, sonarVars, world
<1>13. ASSUME ~crashed, NEW io \in Pins, Callback(io) PROVE InTurn(s)'
  BY <1>13, CallbackKeeps
<1>. QED
  BY <1>2, <1>3, <1>4, <1>5, <1>6, <1>7, <1>8, <1>9, <1>10, <1>11, <1>12, <1>13
     DEF Next, MainStep, SigHandler, FirePoll

(* The invariant holds at the start, if no echo is under way then.         *)
LEMMA InitInv == ~OldEcho /\ Init => IInv
<1>. SUFFICES ASSUME ~OldEcho, Init PROVE IInv
  OBVIOUS
<1>1. main = [at |-> "idle", sonar |-> Null] /\ built = {} /\ status = {} /\ handler.at = "out" /\ call.at = "none"
  BY DEF Init, GpioInit, NoCall, Idle
<1>2. \A s \in Sonars : echoes[s] = <<>>
  BY DEF Init
<1>3. Registered /\ Fires
  BY <1>1 DEF Registered, Fires, Live
<1>4. \A s \in Sonars : Rest(s) /\ ~Waiting(s)
  BY <1>1, <1>2 DEF Rest, Waiting, Handles, Handling
<1>. QED
  BY <1>3, <1>4, InitTypes DEF IInv, Shots, InTurn

(* Every step keeps the invariant.                                         *)
LEMMA StepInv == Wired /\ IInv /\ [Next]_vars => IInv'
<1>. SUFFICES ASSUME Wired, IInv, [Next]_vars PROVE IInv'
  OBVIOUS
<1>1. Types' /\ Registered' /\ Fires'
  BY TypesKept, RegisteredKept, FiresKept DEF IInv
<1>2. ASSUME NEW s \in Sonars \ Controlled PROVE InTurn(s)'
  BY InTurnKept DEF IInv, Shots
<1>. QED
  BY <1>1, <1>2 DEF IInv, Shots

(* The types hold for every set of sonars, however they are wired: pins are *)
(* opened before they are used, and no more echoes come back than were due. *)
THEOREM SonarTypeOK == Spec => []TypeOK
BY InitTypes, TypesKept, TypesAnswer, PTL DEF Spec

(* Fire(true) returns the measurement of its own shot, for every number of *)
(* sonars and shots, while a controller fires others from SIGALRM, while   *)
(* signals coalesce, the driver loses reports and sonars are constructed and *)
(* destroyed.  Both hypotheses are needed: with the echo below the trigger *)
(* (MCSonar_order.cfg) or an echo under way at the start (MCSonar_old.cfg) the *)
(* value is computed from the trigger of another shot.                     *)
THEOREM EchoIsOwn ==
  ASSUME Wired, ~OldEcho
  PROVE  Spec => []OwnEcho
<1>1. Init => IInv
  BY InitInv
<1>2. IInv /\ [Next]_vars => IInv'
  BY StepInv
<1>3. IInv => OwnEcho
  <2>. SUFFICES ASSUME IInv, main.at = "wait", valid[main.sonar]
                PROVE  val[main.sonar] = <<shots[main.sonar], shots[main.sonar]>>
    BY DEF OwnEcho
  <2>1. main.sonar \in Sonars \ Controlled
    BY DEF IInv, Fires, Types, ProgramTypes
  <2>2. Shot(main.sonar)
    BY <2>1 DEF IInv, Shots, InTurn, Waiting
  <2>. QED
    BY <2>2 DEF Shot, EchoAhead, EchoBack
<1>. QED
  BY <1>1, <1>2, <1>3, PTL DEF Spec
=============================================================================
