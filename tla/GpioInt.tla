------------------------------ MODULE GpioInt ------------------------------
(***************************************************************************)
(* The digital inputs of libqwerk (qegpioint.cxx) in a process with one    *)
(* thread: pins with an interrupt device, a callback and a user pointer,   *)
(* and the SIGIO handler that looks for reports on every pin.              *)
(*                                                                         *)
(* The driver is what QeInterrupt shows of it to one process: an edge on   *)
(* an open pin is served at once, whatever the process is doing; ioctl     *)
(* RESET_STATUS and open change signal_status in two steps, and between    *)
(* them an edge's report may be stored over; a SIGIO is delivered in user  *)
(* mode, does not queue, and its handler runs to the end.                  *)
(*                                                                         *)
(* A definition named Faulty... is the one that follows it with a          *)
(* plausible bug; no specification uses it (README, "Seeded faults").      *)
(***************************************************************************)
EXTENDS Integers

CONSTANTS
  Pins,     \* of 0..15
  Busy,     \* pins whose device another process holds
  Objects,  \* what user pointers point to
  Null

ASSUME PinAssumption ==
  /\ Pins \subseteq 0..15 /\ Pins # {}
  /\ Busy \subseteq Pins /\ Null \notin Objects

VARIABLES
  fd,          \* pins with m_fd[io] # -1
  async,       \* those with FASYNC
  status,      \* their bits of signal_status
  stamp,       \* time stamp of the last edge of each pin
  sigio,       \* a SIGIO is pending
  callback,    \* pins with m_callback[io] # NULL
  userPointer, \* m_userPointer
  call,        \* the call of the library in progress: [at, io, object]
  handler,     \* SigHandler: [at, io]
  saved,       \* the copy of signal_status that a RESET_STATUS will store
  lost         \* history: pins of which a report was stored over

driver == <<fd, async, status, stamp, sigio, saved, lost>>
library == <<callback, userPointer>>
gpioVars == <<driver, library, call, handler>>

InUser == handler.at = "out" /\ call.at # "store" /\ call.at # "openStore"
NoCall == [at |-> "none", io |-> 0, object |-> Null]

GpioInit ==
  /\ fd = {} /\ async = {} /\ status = {} /\ stamp = [io \in Pins |-> 0]
  /\ sigio = FALSE /\ saved = {} /\ lost = {}
  /\ callback = {} /\ userPointer = [io \in Pins |-> Null]
  /\ call = NoCall /\ handler = [at |-> "out", io |-> 0]

-----------------------------------------------------------------------------
(* The driver *)

(* qe_interrupt_callback for an edge at time t on io *)
Served(io, t) ==
  IF io \in fd
  THEN /\ status' = status \cup {io}
       /\ stamp' = [stamp EXCEPT ![io] = t]
       /\ sigio' = (sigio \/ io \in async)
  ELSE UNCHANGED <<status, stamp, sigio>>

Load == saved' = status

FaultyStore(io) ==
  status' = {} /\ saved' = {} /\ UNCHANGED lost

Store(io) ==
  /\ status' = saved \ {io}
  /\ lost' = lost \cup (status \ (saved \cup {io}))
  /\ saved' = {}

-----------------------------------------------------------------------------
(* RegisterCallback; a failure to open the device makes it return -1, which *)
(* its callers ignore.                                                      *)
Register(io, object) ==
  /\ call.at = "none" /\ InUser
  /\ IF io \in fd
     THEN call' = [at |-> "setown", io |-> io, object |-> object] /\ UNCHANGED saved
     ELSE IF io \in Busy THEN UNCHANGED <<call, saved>>
     ELSE call' = [at |-> "openStore", io |-> io, object |-> object] /\ Load
  /\ UNCHANGED <<fd, async, status, stamp, sigio, lost, library, handler>>

Step(at) == handler.at = "out" /\ call.at = at
Then(at) == call' = IF at = "none" THEN NoCall ELSE [call EXCEPT !.at = at]

OpenDevice ==
  /\ Step("openStore")
  /\ fd' = fd \cup {call.io}
  /\ Store(call.io)
  /\ Then("setown")
  /\ UNCHANGED <<async, stamp, sigio, library, handler>>

SetAsync ==
  /\ Step("setown")
  /\ async' = async \cup {call.io}
  /\ Then("reset")
  /\ UNCHANGED <<fd, status, stamp, sigio, saved, lost, library, handler>>

ResetStatus ==
  /\ Step("reset") /\ Load /\ Then("store")
  /\ UNCHANGED <<fd, async, status, stamp, sigio, lost, library, handler>>

ResetDone ==
  /\ Step("store") /\ Store(call.io) /\ Then("callback")
  /\ UNCHANGED <<fd, async, stamp, sigio, library, handler>>

SetCallback ==
  /\ Step("callback")
  /\ callback' = callback \cup {call.io}
  /\ Then("pointer")
  /\ UNCHANGED <<driver, userPointer, handler>>

SetPointer ==
  /\ Step("pointer")
  /\ userPointer' = [userPointer EXCEPT ![call.io] = call.object]
  /\ Then("none")
  /\ UNCHANGED <<driver, callback, handler>>

(* UnregisterCallback *)
Unregister(io) ==
  /\ call.at = "none" /\ InUser
  /\ callback' = callback \ {io}
  /\ call' = [at |-> "unpointer", io |-> io, object |-> Null]
  /\ UNCHANGED <<driver, userPointer, handler>>

ClearPointer ==
  /\ Step("unpointer")
  /\ userPointer' = [userPointer EXCEPT ![call.io] = Null]
  /\ Then("close")
  /\ UNCHANGED <<driver, callback, handler>>

CloseDevice ==
  /\ Step("close")
  /\ fd' = fd \ {call.io} /\ async' = async \ {call.io}
  /\ Then("none")
  /\ UNCHANGED <<status, stamp, sigio, saved, lost, library, handler>>

CallStep ==
  \/ OpenDevice \/ SetAsync \/ ResetStatus \/ ResetDone \/ SetCallback
  \/ SetPointer \/ ClearPointer \/ CloseDevice

-----------------------------------------------------------------------------
(* SigHandler, from the first pin to the last *)
Low(S) == CHOOSE io \in S : \A other \in S : io <= other
Scanned == {io \in callback \cap fd : handler.io <= io}

TakeSignal ==
  /\ sigio /\ InUser
  /\ sigio' = FALSE
  /\ handler' = [at |-> "scan", io |-> 0]
  /\ UNCHANGED <<fd, async, status, stamp, saved, lost, library, call>>

ReadStatus ==
  /\ handler.at = "scan"
  /\ handler' = IF Scanned = {} THEN [at |-> "out", io |-> 0]
                ELSE IF Low(Scanned) \in status THEN [at |-> "reset", io |-> Low(Scanned)]
                ELSE [at |-> "scan", io |-> Low(Scanned) + 1]
  /\ UNCHANGED <<driver, library, call>>

HandlerReset ==
  /\ handler.at = "reset" /\ Load
  /\ handler' = [handler EXCEPT !.at = "store"]
  /\ UNCHANGED <<fd, async, status, stamp, sigio, lost, library, call>>

HandlerResetDone ==
  /\ handler.at = "store" /\ Store(handler.io)
  /\ handler' = [handler EXCEPT !.at = "call"]
  /\ UNCHANGED <<fd, async, stamp, sigio, library, call>>

(* The time is read and the callback called: its effect is the caller's.   *)
Calling(io) ==
  /\ handler.at = "call" /\ io = handler.io
  /\ handler' = [at |-> "scan", io |-> io + 1]
  /\ UNCHANGED <<driver, library, call>>

HandlerStep == ReadStatus \/ HandlerReset \/ HandlerResetDone

-----------------------------------------------------------------------------
GpioTypeOK ==
  /\ fd \subseteq Pins /\ async \subseteq fd /\ status \subseteq Pins
  /\ sigio \in BOOLEAN /\ saved \subseteq Pins /\ lost \subseteq Pins
  /\ callback \subseteq Pins /\ userPointer \in [Pins -> Objects \cup {Null}]
  /\ call.at \in {"none", "openStore", "setown", "reset", "store", "callback",
                  "pointer", "unpointer", "close"}
  /\ call.object \in Objects \cup {Null}
  /\ handler.at \in {"out", "scan", "reset", "store", "call"}
=============================================================================
