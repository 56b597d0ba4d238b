---------------------------- MODULE I2cBusProofs ----------------------------
(***************************************************************************)
(* The I2C bus keeps master and device in step, for every set of threads,  *)
(* every set of packets, every modulus of the identifiers, and however     *)
(* often processes end.                                                    *)
(*                                                                         *)
(* The invariant IInv says where each thread is in its packet and, of the  *)
(* one thread with the session, what register and device are like before   *)
(* its next write (Spoken, and BootSpoken for the constructor).  A write   *)
(* keeps it by lemmas on the nine clocks of a byte (SetUp, ClockUp and     *)
(* ClockDown), on whole calls (CallAdvances, BootAdvances), and on the     *)
(* order of the calls of a packet (CallsOrder); the sessions keep other    *)
(* threads away from the register meanwhile.                               *)
(***************************************************************************)
EXTENDS I2cBus, SequenceTheorems, TLAPS

(***************************************************************************)
(* The wires and the device.                                               *)
(***************************************************************************)
Wires == [sda : Bit, scl : Bit]
Devices == [mode : {"idle", "addr", "recv", "send"}, n : 0..9, read : Bit, drive : Bit]

(* What holds of register and device at every write, whoever writes: a     *)
(* device that sends has its direction bit, has counted a clock that is    *)
(* up, and leaves the data line alone at the ninth clock.                  *)
WireOK(r, d) ==
  /\ r \in Wires /\ d \in Devices
  /\ d.mode = "idle" => d = Silent
  /\ d.mode = "recv" => d.read = 0
  /\ d.mode = "send" =>
       /\ d.read = 1
       /\ r.scl = 1 => d.n >= 1
       /\ d.n = 9 => r.sda = 0 /\ r.scl = 1 /\ d.drive = 1
       /\ d.n = 8 /\ r.scl = 0 => d.drive = 1

(* A device is the record of its four fields.                              *)
LEMMA Devised ==
  ASSUME NEW d \in Devices
  PROVE  d = [mode |-> d.mode, n |-> d.n, read |-> d.read, drive |-> d.drive]
BY DEF Devices

(* Such a record is a device.                                              *)
LEMMA DevicesAre ==
  ASSUME NEW m \in {"idle", "addr", "recv", "send"}, NEW n \in 0..9, NEW r \in Bit, NEW b \in Bit
  PROVE  [mode |-> m, n |-> n, read |-> r, drive |-> b] \in Devices
BY DEF Devices

(* The states a device goes to when nothing is in progress on the bus      *)
LEMMA RestingIs ==
  /\ Silent = [mode |-> "idle", n |-> 0, read |-> 0, drive |-> 1]
  /\ Started = [mode |-> "addr", n |-> 0, read |-> 0, drive |-> 1]
  /\ Receiving = [mode |-> "recv", n |-> 0, read |-> 0, drive |-> 1]
<1>1. Silent = [mode |-> "idle", n |-> 0, read |-> 0, drive |-> 1]
  BY DEF Silent
<1>2. Started = [Silent EXCEPT !.mode = "addr"] /\ Receiving = [Silent EXCEPT !.mode = "recv"]
  BY DEF Started, Receiving
<1>. HIDE DEF Silent
<1>. QED
  BY <1>1, <1>2

(* A device that rests is in order, whatever the lines are.                *)
LEMMA RestingOK ==
  ASSUME NEW b \in Wires, NEW m \in {Silent, Started, Receiving}
  PROVE  WireOK(b, m)
<1>1. m \in Devices
  BY RestingIs, DevicesAre DEF Bit
<1>2. m.read = 0 /\ m.mode # "send" /\ (m.mode = "idle" => m = Silent)
  BY RestingIs
<1>. QED
  BY <1>1, <1>2 DEF WireOK

(* A device about to send a byte                                           *)
LEMMA SendingIs ==
  ASSUME NEW m \in Sending
  PROVE  m \in Devices /\ m.read = 1 /\ m.mode = "send" /\ m.n = 0
BY DEF Sending, Devices, Bit

(* What a rising clock does, by the case of Risen that applies             *)
LEMMA RisenIs ==
  ASSUME NEW d \in Devices, NEW level \in Bit
  PROVE  /\ d.mode = "idle" => Risen(d, level) = d
         /\ d.mode = "send" /\ d.n = 8 /\ level = 1 => Risen(d, level) = Silent
         /\ d.mode # "idle" /\ d.n < 8 =>
              Risen(d, level) =
                [mode |-> d.mode, n |-> d.n + 1, drive |-> d.drive,
                 read |-> IF d.mode = "addr" THEN level ELSE d.read]
         /\ d.mode # "idle" /\ d.n >= 8 /\ ~(d.mode = "send" /\ d.n = 8 /\ level = 1) =>
              Risen(d, level) = [mode |-> d.mode, n |-> 9, drive |-> d.drive, read |-> d.read]
<1>1. d.mode = "idle" => Risen(d, level) = d
  BY DEF Risen
<1>2. d.mode = "send" /\ d.n = 8 /\ level = 1 => Risen(d, level) = Silent
  BY DEF Risen
<1>3. ASSUME d.mode # "idle" /\ d.n < 8 
      PROVE Risen(d, level) =
                [mode |-> d.mode, n |-> d.n + 1, drive |-> d.drive,
                 read |-> IF d.mode = "addr" THEN level ELSE d.read]
  <2>1. Risen(d, level) = [d EXCEPT !.n = @ + 1, !.read = IF d.mode = "addr" THEN level ELSE @]
    BY <1>3 DEF Risen
  <2>. QED BY <2>1, Devised
<1>4. ASSUME d.mode # "idle" /\ d.n >= 8 /\ ~(d.mode = "send" /\ d.n = 8 /\ level = 1)
      PROVE  Risen(d, level) = [mode |-> d.mode, n |-> 9, drive |-> d.drive, read |-> d.read]
  <2>1. Risen(d, level) = [d EXCEPT !.n = 9]
    BY <1>4, SMT DEF Risen, Devices
  <2>. QED BY <2>1, Devised
<1>. QED BY <1>1, <1>2, <1>3, <1>4

(* What a falling clock does, by the case of Fallen that applies           *)
LEMMA FallenIs ==
  ASSUME NEW d \in Devices, d.mode = "idle" => d = Silent, NEW m \in Fallen(d)
  PROVE  \/ d.mode = "idle" /\ m = d
         \/ /\ d.mode = "send" /\ d.n < 8
            /\ \E b \in Bit : m = [mode |-> "send", n |-> d.n, read |-> d.read, drive |-> b]
         \/ /\ d.mode = "send" /\ d.n = 8
            /\ m = [mode |-> "send", n |-> 8, read |-> d.read, drive |-> 1]
         \/ /\ d.mode \in {"addr", "recv"} /\ d.n = 8
            /\ m \in {[mode |-> d.mode, n |-> 8, read |-> d.read, drive |-> 0], Silent}
         \/ d.mode # "idle" /\ d.n = 9 /\ m \in IF d.read = 1 THEN Sending ELSE {Receiving}
         \/ d.mode \in {"addr", "recv"} /\ d.n < 8 /\ m = d
<1>1. CASE d.mode = "idle"
  <2>1. d.n = 0
    BY <1>1 DEF Silent
  <2>. QED
    BY <1>1, <2>1 DEF Fallen
<1>2. CASE d.mode = "send" /\ d.n < 8
  <2>1. PICK b \in Bit : m = [d EXCEPT !.drive = b]
    BY <1>2 DEF Fallen
  <2>. QED
    BY <1>2, <2>1, Devised
<1>3. CASE d.mode = "send" /\ d.n = 8
  <2>1. m = [d EXCEPT !.drive = 1]
    BY <1>3 DEF Fallen
  <2>. QED
    BY <1>3, <2>1, Devised
<1>4. CASE d.mode \in {"addr", "recv"} /\ d.n = 8
  <2>1. m \in {[d EXCEPT !.drive = 0], Silent}
    BY <1>4 DEF Fallen
  <2>. QED
    BY <1>4, <2>1, Devised
<1>5. CASE d.mode # "idle" /\ d.n = 9
  BY <1>5 DEF Fallen
<1>6. CASE d.mode \in {"addr", "recv"} /\ d.n < 8
  BY <1>6 DEF Fallen
<1>. QED
  BY <1>1, <1>2, <1>3, <1>4, <1>5, <1>6 DEF Devices

(* A rising clock keeps register and device in order.                      *)
LEMMA RiseKept ==
  ASSUME NEW a, NEW b \in Wires, NEW d, WireOK(a, d), a.scl = 0, b.scl = 1, a.sda = b.sda,
         NEW m, m = Risen(d, b.sda)
  PROVE  WireOK(b, m)
<1>1. d \in Devices /\ b.sda \in Bit /\ (d.mode = "idle" => d = Silent)
  BY DEF WireOK, Wires
<1>2. /\ d.n \in 0..9 /\ d.mode \in {"idle", "addr", "recv", "send"} /\ d.drive \in Bit
      /\ d.read \in Bit
  BY <1>1 DEF Devices
<1>3. CASE m \in {Silent}
  BY <1>3, RestingOK
<1>4. CASE d.mode # "idle" /\ d.n < 8
  <2>. DEFINE e == IF d.mode = "addr" THEN b.sda ELSE d.read
  <2>1. m = [mode |-> d.mode, n |-> d.n + 1, drive |-> d.drive, read |-> e]
    BY <1>1, <1>4, RisenIs
  <2>2. e \in Bit /\ d.n + 1 \in 0..9
    BY <1>1, <1>2, <1>4
  <2>3. d.mode # "addr" => e = d.read
    OBVIOUS
  <2>. HIDE DEF e
  <2>4. m \in Devices
    BY <1>2, <2>1, <2>2, DevicesAre
  <2>5. /\ m.mode = d.mode /\ m.n = d.n + 1 /\ m.drive = d.drive /\ m.read = e
    BY <2>1
  <2>6. m.mode = "recv" => m.read = 0
    BY <2>3, <2>5 DEF WireOK
  <2>7. m.mode = "send" => m.read = 1
    BY <2>3, <2>5 DEF WireOK
  <2>. QED
    BY <1>2, <1>4, <2>4, <2>5, <2>6, <2>7 DEF WireOK
<1>5. CASE d.mode # "idle" /\ d.n >= 8 /\ ~(d.mode = "send" /\ d.n = 8 /\ b.sda = 1)
  <2>1. m = [mode |-> d.mode, n |-> 9, drive |-> d.drive, read |-> d.read]
    BY <1>1, <1>5, RisenIs
  <2>2. m \in Devices
    <3>1. 9 \in 0..9
      OBVIOUS
    <3>. QED
      BY <1>2, <2>1, <3>1, DevicesAre
  <2>3. m.mode = d.mode /\ m.n = 9 /\ m.drive = d.drive /\ m.read = d.read
    BY <2>1
  <2>4. m.mode = "recv" => m.read = 0
    BY <2>3 DEF WireOK
  <2>5. m.mode = "send" => m.read = 1
    BY <2>3 DEF WireOK
  <2>6. d.mode = "send" => d.n = 8 /\ b.sda = 0 /\ d.drive = 1
    BY <1>1, <1>2, <1>5 DEF WireOK, Bit
  <2>. QED
    BY <1>1, <1>5, <2>2, <2>3, <2>4, <2>5, <2>6 DEF WireOK
<1>. QED
  BY <1>1, <1>2, <1>3, <1>4, <1>5, RisenIs

(* A falling clock keeps register and device in order.                     *)
LEMMA FallKept ==
  ASSUME NEW a, NEW b \in Wires, NEW d, WireOK(a, d), a.scl = 1, b.scl = 0, NEW m \in Fallen(d)
  PROVE  WireOK(b, m)
<1>1. /\ d \in Devices /\ (d.mode = "idle" => d = Silent)
      /\ d.n \in 0..9 /\ d.drive \in Bit /\ d.read \in Bit
  BY DEF WireOK, Devices
<1>2. CASE m = d /\ d.mode # "send"
  BY <1>1, <1>2 DEF WireOK
<1>3. CASE \E l \in Bit : /\ m = [mode |-> "send", n |-> d.n, read |-> d.read, drive |-> l]
                          /\ d.mode = "send" /\ d.n < 8
  <2>1. m \in Devices
    BY <1>1, <1>3, DevicesAre
  <2>. QED
    BY <2>1, <1>3 DEF WireOK
<1>4. CASE m = [mode |-> "send", n |-> 8, read |-> d.read, drive |-> 1] /\ d.mode = "send"
  <2>1. m \in Devices
    BY <1>1, <1>4, DevicesAre DEF Bit
  <2>. QED
    BY <2>1, <1>4 DEF WireOK
<1>5. CASE /\ m = [mode |-> d.mode, n |-> 8, read |-> d.read, drive |-> 0]
           /\ d.mode \in {"addr", "recv"}
  <2>1. m \in Devices
    BY <1>1, <1>5, DevicesAre DEF Bit
  <2>. QED
    BY <2>1, <1>5 DEF WireOK
<1>6. CASE m \in {Silent, Receiving}
  BY <1>6, RestingOK
<1>7. CASE m \in Sending
  BY <1>7, SendingIs DEF WireOK
<1>. QED
  BY <1>1, <1>2, <1>3, <1>4, <1>5, <1>6, <1>7, FallenIs

(* The change of one wire is one of four: nothing that the device notices, *)
(* a rising clock, a falling clock, or a start or stop condition.          *)
LEMMA HeardIs ==
  ASSUME NEW a \in Wires, NEW b \in Wires, a.sda = b.sda \/ a.scl = b.scl, NEW d, NEW m \in Heard(d, a, b)
  PROVE  \/ m = d /\ (a = b \/ (a.scl = 0 /\ b.scl = 0))
         \/ m = Risen(d, b.sda) /\ a.scl = 0 /\ b.scl = 1 /\ a.sda = b.sda
         \/ m \in Fallen(d) /\ a.scl = 1 /\ b.scl = 0
         \/ /\ a.scl = 1 /\ b.scl = 1 /\ a.sda # b.sda
            /\ m = IF d.drive = 0 THEN d ELSE IF b.sda = 0 THEN Started ELSE Silent
<1>1. CASE a = b \/ (a.scl = 0 /\ b.scl = 0)
  <2>1. Heard(d, a, b) = {d}
    BY <1>1 DEF Heard
  <2>2. m = d
    BY <2>1
  <2>. QED
    BY <1>1, <2>2
<1>2. CASE a.scl = 0 /\ b.scl = 1
  BY <1>2 DEF Heard
<1>3. CASE a.scl = 1 /\ b.scl = 0
  BY <1>3 DEF Heard
<1>4. CASE a # b /\ a.scl = 1 /\ b.scl = 1
  <2>1. a.sda # b.sda
    BY <1>4 DEF Wires
  <2>. QED
    BY <1>4, <2>1 DEF Heard
<1>. QED
  BY <1>1, <1>2, <1>3, <1>4 DEF Wires, Bit

(* The change of one wire keeps register and device in order.              *)
LEMMA HeardKept ==
  ASSUME NEW a, NEW b \in Wires, NEW d, WireOK(a, d), a.sda = b.sda \/ a.scl = b.scl,
         NEW m \in Heard(d, a, b)
  PROVE  WireOK(b, m)
<1>1. a \in Wires /\ d \in Devices
  BY DEF WireOK
<1>2. CASE m = d /\ (a = b \/ (a.scl = 0 /\ b.scl = 0))
  BY <1>2 DEF WireOK
<1>3. CASE /\ m = IF d.drive = 0 THEN d ELSE IF b.sda = 0 THEN Started ELSE Silent
           /\ a.scl = 1 /\ b.scl = 1 /\ a.sda # b.sda
  <2>1. CASE m \in {Silent, Started}
    BY <2>1, RestingOK
  <2>2. CASE m = d /\ d.drive = 0
    BY <1>3, <2>2 DEF WireOK
  <2>. QED
    BY <1>3, <2>1, <2>2
<1>. QED
  BY <1>1, <1>2, <1>3, HeardIs, RiseKept, FallKept

(* A write that changes both wires is two changes of one wire.             *)
LEMMA BothInTwo ==
  ASSUME NEW a \in Wires, NEW b \in Wires, NEW d, NEW m \in HeardBoth(d, a, b)
  PROVE  \E mid \in Wires : \E x \in Heard(d, a, mid) :
           /\ mid = [sda |-> a.sda, scl |-> b.scl] \/ mid = [sda |-> b.sda, scl |-> a.scl]
           /\ m \in Heard(x, mid, b)
BY DEF HeardBoth, Wires

(* Every write of the register keeps register and device in order.         *)
LEMMA BothKept ==
  ASSUME NEW a, NEW b \in Wires, NEW d, WireOK(a, d), NEW m \in HeardBoth(d, a, b)
  PROVE  WireOK(b, m)
<1>1. a \in Wires
  BY DEF WireOK
<1>2. PICK mid \in Wires : \E x \in Heard(d, a, mid) :
           /\ mid = [sda |-> a.sda, scl |-> b.scl] \/ mid = [sda |-> b.sda, scl |-> a.scl]
           /\ m \in Heard(x, mid, b)
  BY <1>1, BothInTwo
<1>3. PICK x \in Heard(d, a, mid) : m \in Heard(x, mid, b)
  BY <1>2
<1>4. WireOK(mid, x)
  BY <1>2, HeardKept
<1>. QED
  BY <1>2, <1>3, <1>4, HeardKept

(* A write that changes one wire is heard as that change.                  *)
LEMMA One ==
  ASSUME NEW a \in Wires, NEW b \in Wires, a.sda = b.sda \/ a.scl = b.scl, NEW d, NEW m \in HeardBoth(d, a, b)
  PROVE  m \in Heard(d, a, b)
<1>2. PICK mid \in Wires : \E x \in Heard(d, a, mid) :
           /\ mid = [sda |-> a.sda, scl |-> b.scl] \/ mid = [sda |-> b.sda, scl |-> a.scl]
           /\ m \in Heard(x, mid, b)
  BY BothInTwo
<1>2a. a = [sda |-> a.sda, scl |-> a.scl] /\ b = [sda |-> b.sda, scl |-> b.scl]
  BY DEF Wires
<1>3. mid = a \/ mid = b
  BY <1>2, <1>2a
<1>4. \A y : Heard(y, a, a) = {y} /\ Heard(y, b, b) = {y}
  BY DEF Heard
<1>. QED
  BY <1>2, <1>3, <1>4

(***************************************************************************)
(* A byte: 27 writes, three for each of nine clocks.                       *)
(***************************************************************************)
(* Before write k of the byte of call c: the clock line has the level that  *)
(* the write before left, and the device counts the same clocks as the     *)
(* master and sends or receives as the call expects, or it has given up.   *)
ByteSpoken(c, k, r, d) ==
  /\ r.scl = IF k % 3 = 2 THEN 1 ELSE 0
  /\ \/ d.mode = "idle" /\ (c \in Starts => k >= 24)
     \/ d.mode = Role(c) /\ d.n = (k + 1) \div 3 /\ (c = "last" => k < 26)
  /\ c \in Starts /\ k = 22 => r.sda = IF c = "startR" THEN 1 ELSE 0
  /\ c \in Starts /\ k >= 23 /\ d.mode # "idle" => d.read = IF c = "startR" THEN 1 ELSE 0
  /\ c \in Reads /\ k = 25 => r.sda = IF c = "read" THEN 0 ELSE 1

(* After the last write of a byte: the device is ready for the next one    *)
Ended(c, r, m) ==
  /\ r.scl = 0
  /\ \/ m.mode = "idle"
     \/ c \in {"startW", "write", "ask"} /\ m = Receiving
     \/ c \in {"startR", "read"} /\ m \in Sending

(* What the device does during the byte of a call                          *)
LEMMA RoleIs ==
  ASSUME NEW c \in Starts \cup Bytes
  PROVE  /\ c \in Starts => Role(c) = "addr"
         /\ c \in Reads => Role(c) = "send"
         /\ c \notin Starts /\ c \notin Reads => Role(c) = "recv"
         /\ c \in Starts => c \notin Reads
BY DEF Role, Starts, Reads, Bytes

(* The first of the three writes of a clock sets up the data line: the device *)
(* notices nothing, the clock being low.                                   *)
LEMMA SetUp ==
  ASSUME WireOK(reg, dev), NEW c \in Starts \cup Bytes, NEW b \in 0..8, NEW k, k = 3 * b,
         ByteSpoken(c, k, reg, dev), NEW r \in ByteWrites(c, k), NEW m \in HeardBoth(dev, reg, r)
  PROVE  WireOK(r, m) /\ ByteSpoken(c, k + 1, r, m)
<1>1. k \in 0..24 /\ k % 3 = 0 /\ k \div 3 = b /\ (k + 1) % 3 = 1 /\ (k + 1) \div 3 = b /\ ((k + 1) + 1) \div 3 = b
  OBVIOUS
<1>2. ByteWrites(c, k) = [sda : Levels(c, b), scl : {0}]
  <2>1. ByteWrites(c, k) = [sda : Levels(c, k \div 3), scl : {0}]
    <3>1. k % 3 = 0 /\ k % 3 # 1 /\ k % 3 # 2
      BY <1>1
    <3>. HIDE <1>1
    <3>. QED
      BY <3>1, Zenon DEF ByteWrites
  <2>. QED
    BY <1>1, <2>1
<1>3. Levels(c, b) \subseteq Bit
  BY DEF Levels, Bit
<1>4. r \in Wires /\ r.scl = 0 /\ r.sda \in Levels(c, b)
  <2>1. r \in [sda : Levels(c, b), scl : {0}]
    BY <1>2
  <2>2. r = [sda |-> r.sda, scl |-> r.scl] /\ r.sda \in Levels(c, b) /\ r.scl = 0
    BY <2>1
  <2>. QED
    BY <1>3, <2>2 DEF Wires, Bit
<1>5. reg \in Wires /\ reg.scl = 0
  BY <1>1 DEF ByteSpoken, WireOK
<1>6. m = dev
  BY <1>4, <1>5, HeardIs, One
<1>7. WireOK(r, m)
  BY <1>4, BothKept
<1>8. k + 1 = 22 /\ c \in Starts => r.sda = IF c = "startR" THEN 1 ELSE 0
  BY <1>1, <1>4, RoleIs DEF Levels
<1>9. k + 1 = 25 /\ c \in Reads => r.sda = IF c = "read" THEN 0 ELSE 1
  BY <1>1, <1>4, RoleIs DEF Levels, Reads
<1>10. c \in Starts /\ k + 1 >= 23 => k >= 23
  BY <1>1
<1>. QED
  BY <1>1, <1>4, <1>6, <1>7, <1>8, <1>9, <1>10 DEF ByteSpoken

(* The second raises the clock: the device counts it.                      *)
LEMMA ClockUp ==
  ASSUME WireOK(reg, dev), NEW c \in Starts \cup Bytes, NEW b \in 0..8, NEW k, k = 3 * b + 1,
         ByteSpoken(c, k, reg, dev), NEW r \in ByteWrites(c, k), NEW m \in HeardBoth(dev, reg, r)
  PROVE  WireOK(r, m) /\ ByteSpoken(c, k + 1, r, m)
<1>1. k \in 1..25 /\ k % 3 = 1 /\ (k + 1) % 3 = 2 /\ (k + 1) \div 3 = b /\ ((k + 1) + 1) \div 3 = b + 1
  OBVIOUS
<1>2. ByteWrites(c, k) = {[reg EXCEPT !.scl = 1]}
  BY <1>1 DEF ByteWrites
<1>3. reg \in Wires /\ reg.scl = 0 /\ dev \in Devices /\ dev.n \in 0..9
  BY <1>1 DEF ByteSpoken, WireOK, Devices
<1>4. r \in Wires /\ r.scl = 1 /\ r.sda = reg.sda
  BY <1>2, <1>3 DEF Wires, Bit
<1>5. m = Risen(dev, r.sda)
  BY <1>3, <1>4, HeardIs, One
<1>6. WireOK(r, m)
  BY <1>4, BothKept
<1>7. CASE dev.mode = "idle"
  <2>1. m.mode = "idle"
    BY <1>3, <1>4, <1>5, <1>7, RisenIs DEF Wires
  <2>. QED
    BY <1>1, <1>4, <1>6, <1>7, <2>1, RoleIs DEF ByteSpoken
<1>8. CASE dev.mode # "idle" /\ b < 8
  <2>1. dev.mode = Role(c) /\ dev.n = b
    BY <1>1, <1>8 DEF ByteSpoken
  <2>2. m = [mode |-> dev.mode, n |-> dev.n + 1, drive |-> dev.drive,
             read |-> IF dev.mode = "addr" THEN r.sda ELSE dev.read]
    BY <1>3, <1>4, <1>5, <1>8, <2>1, RisenIs DEF Wires
  <2>3. m.mode = Role(c) /\ m.n = b + 1 /\ (c \in Starts => m.read = r.sda)
    BY <2>1, <2>2, RoleIs
  <2>4. k + 1 \in 2..23 /\ (k + 1 >= 23 => k = 22)
    BY <1>1, <1>8
  <2>5. c \in Starts /\ k + 1 >= 23 => m.read = IF c = "startR" THEN 1 ELSE 0
    BY <1>4, <2>3, <2>4 DEF ByteSpoken
  <2>. QED
    BY <1>1, <1>4, <1>6, <2>3, <2>4, <2>5 DEF ByteSpoken
<1>9. CASE dev.mode # "idle" /\ b = 8
  <2>1. dev.mode = Role(c) /\ dev.n = 8 /\ k = 25
    BY <1>1, <1>9 DEF ByteSpoken
  <2>2. CASE c = "last"
    <3>1. m = Silent
      BY <1>3, <1>4, <1>5, <2>1, <2>2, RisenIs, RoleIs DEF Wires, ByteSpoken, Reads, Bit
    <3>. QED
      BY <1>1, <1>4, <1>6, <2>1, <2>2, <3>1, RestingIs DEF ByteSpoken, Starts
  <2>3. CASE c # "last"
    <3>1. ~(dev.mode = "send" /\ dev.n = 8 /\ r.sda = 1)
      BY <1>4, <2>1, <2>3, RoleIs DEF ByteSpoken, Reads
    <3>2. m = [mode |-> dev.mode, n |-> 9, drive |-> dev.drive, read |-> dev.read]
      BY <1>3, <1>4, <1>5, <1>9, <2>1, <3>1, RisenIs DEF Wires
    <3>3. m.mode = Role(c) /\ m.n = 9 /\ m.read = dev.read
      BY <2>1, <3>2
    <3>. QED
      BY <1>1, <1>4, <1>6, <1>9, <2>1, <2>3, <3>3, RoleIs DEF ByteSpoken
  <2>. QED
    BY <2>2, <2>3
<1>. QED
  BY <1>7, <1>8, <1>9

(* The third lowers the clock: after nine the byte is over, and the device *)
(* receives or sends next as its direction bit says.                       *)
LEMMA ClockDown ==
  ASSUME WireOK(reg, dev), NEW c \in Starts \cup Bytes, NEW b \in 0..8, NEW k, k = 3 * b + 2,
         ByteSpoken(c, k, reg, dev), NEW r \in ByteWrites(c, k), NEW m \in HeardBoth(dev, reg, r)
  PROVE  /\ WireOK(r, m)
         /\ IF k = 26 THEN Ended(c, r, m) ELSE ByteSpoken(c, k + 1, r, m)
<1>1. k \in 2..26 /\ k % 3 = 2 /\ (k + 1) % 3 = 0 /\ (k + 1) \div 3 = b + 1 /\ ((k + 1) + 1) \div 3 = b + 1
  OBVIOUS
<1>2. ByteWrites(c, k) = {[reg EXCEPT !.scl = 0]}
  BY <1>1 DEF ByteWrites
<1>3. /\ reg \in Wires /\ reg.scl = 1 /\ dev \in Devices /\ dev.n \in 0..9
      /\ dev.mode = "idle" => dev = Silent
  BY <1>1 DEF ByteSpoken, WireOK, Devices
<1>4. r \in Wires /\ r.scl = 0 /\ r.sda = reg.sda
  BY <1>2, <1>3 DEF Wires, Bit
<1>5. m \in Fallen(dev)
  BY <1>3, <1>4, HeardIs, One
<1>6. WireOK(r, m)
  BY <1>4, BothKept
<1>7. CASE dev.mode = "idle"
  <2>1. m.mode = "idle"
    BY <1>3, <1>5, <1>7, FallenIs
  <2>. QED
    BY <1>1, <1>4, <1>6, <1>7, <2>1, RoleIs DEF ByteSpoken, Ended
<1>8. CASE dev.mode # "idle" /\ b < 8
  <2>1. dev.mode = Role(c) /\ dev.n = b + 1 /\ k < 24
    BY <1>1, <1>8 DEF ByteSpoken
  <2>2. CASE m.mode = dev.mode /\ m.n = dev.n /\ m.read = dev.read
    BY <1>1, <1>4, <1>6, <2>1, <2>2, RoleIs DEF ByteSpoken
  <2>3. CASE m = Silent /\ dev.n = 8
    BY <1>1, <1>4, <1>6, <2>1, <2>3, RestingIs DEF ByteSpoken
  <2>. QED
    BY <1>3, <1>5, <1>8, <2>1, <2>2, <2>3, FallenIs
<1>9. CASE dev.mode # "idle" /\ b = 8
  <2>1. dev.mode = Role(c) /\ dev.n = 9 /\ k = 26 /\ c # "last"
    BY <1>1, <1>9 DEF ByteSpoken
  <2>2. m \in IF dev.read = 1 THEN Sending ELSE {Receiving}
    BY <1>3, <1>5, <1>9, <2>1, FallenIs
  <2>3. c \in {"startR", "read"} => dev.read = 1
    BY <1>9, <2>1, RoleIs DEF ByteSpoken, WireOK, Starts, Reads
  <2>4. c \in {"startW", "write", "ask"} => dev.read = 0
    BY <1>9, <2>1, RoleIs DEF ByteSpoken, WireOK, Starts, Reads
  <2>5. c \in {"startR", "read", "startW", "write", "ask"}
    BY <2>1 DEF Starts, Bytes, Reads
  <2>. QED
    BY <1>4, <1>6, <2>1, <2>2, <2>3, <2>4, <2>5 DEF Ended
<1>. QED
  BY <1>7, <1>8, <1>9

(***************************************************************************)
(* The calls of a packet.                                                  *)
(***************************************************************************)
(* Call e of packet p may come right after call c.                         *)
Follow(p, c, e) ==
  \/ c = "startW" /\ e \in {"write", "ask", "stop"}
  \/ c = "write" /\ e \in {"write", "startR", "stop"}
  \/ c = "ask" /\ e \in {"startR", "stop"}
  \/ c = "startR" /\ e = "read"
  \/ c = "read" /\ (e \in Reads \/ (e = "stop" /\ p = "speed"))
  \/ c = "last" /\ e = "stop"
  \/ c = "stop" /\ e = "close"

(* Before write n of call c of packet p: Start has found both lines high and *)
(* made its start condition, a byte is spoken, Stop finds the clock low and *)
(* (but for Speed, which acknowledges its last byte) a data line that the  *)
(* device leaves alone, and Close finds an idle bus.                       *)
Spoken(p, c, n, r, d) ==
  /\ c \in Starts /\ n = 1 => r = High(1)
  /\ c \in Starts /\ n = 2 => r = High(0) /\ d = Started
  /\ c \in Starts \cup Bytes /\ n >= Header(c) => ByteSpoken(c, n - Header(c), r, d)
  /\ c = "stop" =>
       /\ n = 0 => r.scl = 0
       /\ n = 1 => r = Low(0)
       /\ n = 2 => r = High(0)
       /\ p # "speed" => d.drive = 1
  /\ c = "close" /\ p # "speed" => d.mode = "idle" /\ r = High(1)

(* The end of a byte is what the call that follows needs.                  *)
LEMMA ByteEnds ==
  ASSUME NEW p, NEW c \in Starts \cup Bytes, NEW r, NEW m, WireOK(r, m), Ended(c, r, m),
         NEW e, Follow(p, c, e)
  PROVE  Spoken(p, e, 0, r, m)
<1>1. e \in Starts \/ e \in Bytes \/ e = "stop"
  BY DEF Follow, Starts, Bytes, Reads
<1>2. CASE e \in Starts
  BY <1>2 DEF Spoken, Starts, Bytes, Reads, Header
<1>3. CASE e \in Bytes
  <2>1. Header(e) = 0 /\ e \notin Starts
    BY <1>3 DEF Bytes, Reads, Starts, Header
  <2>2. e \in Reads => c \in {"startR", "read"}
    BY DEF Follow, Reads
  <2>3. e \notin Reads => c \in {"startW", "write"}
    BY <1>3 DEF Follow, Reads, Bytes
  <2>4. m.mode = "idle" \/ (m.mode = Role(e) /\ m.n = 0)
    <3>1. CASE e \in Reads /\ m.mode # "idle"
      BY <1>3, <3>1, <2>2, SendingIs, RoleIs DEF Ended
    <3>2. CASE e \notin Reads /\ m.mode # "idle"
      BY <1>3, <2>1, <2>3, <3>2, RestingIs, RoleIs DEF Ended
    <3>. QED
      BY <3>1, <3>2
  <2>5. ByteSpoken(e, 0, r, m)
    BY <1>3, <2>1, <2>4 DEF ByteSpoken, Ended
  <2>6. e # "stop" /\ e # "close"
    BY <1>3 DEF Bytes, Reads
  <2>. QED
    BY <2>1, <2>5, <2>6 DEF Spoken
<1>4. CASE e = "stop"
  <2>1. p # "speed" => c \in {"startW", "write", "ask", "last"}
    BY <1>4 DEF Follow, Reads
  <2>2. p # "speed" => m.drive = 1
    BY <2>1, RestingIs DEF Ended, WireOK
  <2>. QED
    BY <1>4, <2>2 DEF Spoken, Starts, Bytes, Reads, Ended
<1>. QED
  BY <1>1, <1>2, <1>3, <1>4

(* A write of a byte advances it or ends it.                               *)
LEMMA ByteAdvances ==
  ASSUME WireOK(reg, dev), NEW c \in Starts \cup Bytes, NEW k \in 0..26,
         ByteSpoken(c, k, reg, dev), NEW r \in ByteWrites(c, k), NEW m \in HeardBoth(dev, reg, r)
  PROVE  /\ WireOK(r, m)
         /\ IF k = 26 THEN Ended(c, r, m) ELSE ByteSpoken(c, k + 1, r, m)
<1>1. PICK b \in 0..8 : k = 3 * b \/ k = 3 * b + 1 \/ k = 3 * b + 2
  <2>. DEFINE b == k \div 3
  <2>1. b \in 0..8 /\ 3 * b <= k /\ k < 3 * b + 3
    OBVIOUS
  <2>. HIDE DEF b
  <2>2. k = 3 * b \/ k = 3 * b + 1 \/ k = 3 * b + 2
    BY <2>1
  <2>. QED
    BY <2>1, <2>2
<1>2. CASE k = 3 * b
  BY <1>2, SetUp
<1>3. CASE k = 3 * b + 1
  BY <1>3, ClockUp
<1>4. CASE k = 3 * b + 2
  BY <1>4, ClockDown
<1>. QED
  BY <1>1, <1>2, <1>3, <1>4

(* The four levels of the register                                         *)
LEMMA LevelsAre ==
  ASSUME NEW b \in Bit
  PROVE  /\ High(b) \in Wires /\ High(b).sda = b /\ High(b).scl = 1
         /\ Low(b) \in Wires /\ Low(b).sda = b /\ Low(b).scl = 0
BY DEF High, Low, Wires, Bit

(* How many writes a call takes, and how many of them precede its byte     *)
LEMMA LengthIs ==
  /\ Length("release") = 1 /\ Length("stop") = 3
  /\ \A c \in Starts : Length(c) = 30 /\ Header(c) = 3
  /\ \A c \in Bytes : Length(c) = 27 /\ Header(c) = 0
BY DEF Length, Header, ByteLength, Starts, Bytes, Reads

(* The three writes before the byte of a Start make a start condition: the *)
(* device takes down an address next.                                      *)
LEMMA StartAdvances ==
  ASSUME WireOK(reg, dev), NEW p, NEW c \in Starts, NEW n \in 0..2,
         Spoken(p, c, n, reg, dev), n = 1 => BusIsIdle,
         NEW r \in Writes(c, n), NEW m \in HeardBoth(dev, reg, r)
  PROVE  WireOK(r, m) /\ Spoken(p, c, n + 1, r, m)
<1>1. Header(c) = 3 /\ c \notin Bytes /\ c # "stop" /\ c # "close" /\ c # "release"
  BY LengthIs DEF Starts, Bytes, Reads
<1>2. 0 \in Bit /\ 1 \in Bit
  BY DEF Bit
<1>3. r = IF n = 0 THEN High(1) ELSE IF n = 1 THEN High(0) ELSE Low(0)
  BY <1>1 DEF Writes
<1>4. WireOK(r, m) /\ r \in Wires
  BY <1>2, <1>3, LevelsAre, BothKept
<1>5. CASE n = 0
  BY <1>1, <1>3, <1>4, <1>5 DEF Spoken
<1>6. CASE n = 1
  <2>1. reg = High(1) /\ r = High(0) /\ dev.drive # 0
    BY <1>3, <1>6 DEF Spoken, BusIsIdle, Line
  <2>2. m = Started
    BY <1>2, <2>1, LevelsAre, One, HeardIs
  <2>. QED
    BY <1>1, <1>4, <1>6, <2>1, <2>2 DEF Spoken
<1>7. CASE n = 2
  <2>1. reg = High(0) /\ dev = Started /\ r = Low(0) /\ reg \in Wires
    BY <1>3, <1>7, <1>2, LevelsAre DEF Spoken
  <2>2. m \in Fallen(Started)
    BY <1>2, <2>1, LevelsAre, One, HeardIs
  <2>3. m = Started
    BY <2>1, <2>2, RestingIs, FallenIs DEF WireOK
  <2>4. ByteSpoken(c, 0, r, m)
    BY <1>2, <2>1, <2>3, LevelsAre, RestingIs, RoleIs DEF ByteSpoken, Starts
  <2>. QED
    BY <1>1, <1>4, <1>7, <2>4 DEF Spoken
<1>. QED
  BY <1>5, <1>6, <1>7

(* The three writes of Stop end in a stop condition if the device does not *)
(* hold the data line down.                                                *)
LEMMA StopAdvances ==
  ASSUME WireOK(reg, dev), NEW n \in 0..2, NEW r \in Writes("stop", n), NEW m \in HeardBoth(dev, reg, r),
         n = 0 => reg.scl = 0, n = 1 => reg = Low(0), n = 2 => reg = High(0)
  PROVE  /\ WireOK(r, m)
         /\ r = IF n = 0 THEN Low(0) ELSE IF n = 1 THEN High(0) ELSE High(1)
         /\ dev.drive = 1 => m.drive = 1
         /\ dev.drive = 1 /\ n = 2 => m = Silent
         /\ dev.mode = "idle" => m.mode = "idle"
<1>1. r = IF n = 0 THEN Low(0) ELSE IF n = 1 THEN High(0) ELSE High(1)
  BY DEF Writes
<1>2. 0 \in Bit /\ 1 \in Bit
  BY DEF Bit
<1>3. /\ WireOK(r, m) /\ r \in Wires /\ reg \in Wires /\ dev \in Devices
      /\ dev.mode = "idle" => dev.drive = 1
      /\ dev.n \in 0..9
  BY <1>1, <1>2, LevelsAre, BothKept, RestingIs DEF WireOK, Devices
<1>4. CASE n = 0
  <2>1. m = dev
    BY <1>1, <1>2, <1>3, <1>4, LevelsAre, One, HeardIs
  <2>. QED
    BY <1>1, <1>3, <1>4, <2>1
<1>5. CASE n = 1
  <2>1. m = Risen(dev, 0)
    BY <1>1, <1>2, <1>3, <1>5, LevelsAre, One, HeardIs
  <2>2. m.drive = dev.drive /\ (dev.mode = "idle" => m.mode = "idle")
    BY <1>2, <1>3, <2>1, RisenIs
  <2>. QED
    BY <1>1, <1>3, <1>5, <2>2
<1>6. CASE n = 2
  <2>1. m = IF dev.drive = 0 THEN dev ELSE Silent
    BY <1>1, <1>2, <1>3, <1>6, LevelsAre, One, HeardIs
  <2>. QED
    BY <1>1, <1>3, <1>6, <2>1, RestingIs
<1>. QED
  BY <1>4, <1>5, <1>6

(* A write of a call advances it, or leaves what the next call needs.      *)
LEMMA CallAdvances ==
  ASSUME WireOK(reg, dev), NEW p, NEW c \in Starts \cup Bytes \cup {"stop"}, NEW n \in 0..(Length(c) - 1),
         Spoken(p, c, n, reg, dev), c \in Starts /\ n = 1 => BusIsIdle,
         NEW r \in Writes(c, n), NEW m \in HeardBoth(dev, reg, r)
  PROVE  /\ WireOK(r, m)
         /\ n + 1 < Length(c) => Spoken(p, c, n + 1, r, m)
         /\ n + 1 = Length(c) => \A e : Follow(p, c, e) => Spoken(p, e, 0, r, m)
<1>1. CASE c = "stop"
  <2>1. Length(c) = 3 /\ c \notin Starts /\ c \notin Bytes
    BY <1>1, LengthIs DEF Starts, Bytes, Reads
  <2>2. /\ WireOK(r, m)
        /\ r = IF n = 0 THEN Low(0) ELSE IF n = 1 THEN High(0) ELSE High(1)
        /\ dev.drive = 1 => m.drive = 1
        /\ dev.drive = 1 /\ n = 2 => m = Silent
    BY <1>1, <2>1, StopAdvances DEF Spoken
  <2>3. n + 1 < Length(c) => Spoken(p, c, n + 1, r, m)
    BY <1>1, <2>1, <2>2 DEF Spoken
  <2>4. ASSUME n + 1 = Length(c), NEW e, Follow(p, c, e) PROVE Spoken(p, e, 0, r, m)
    <3>1. e = "close" /\ e \notin Starts /\ e \notin Bytes
      BY <1>1, <2>4 DEF Follow, Starts, Bytes, Reads
    <3>2. n = 2
      BY <2>1, <2>4
    <3>. QED
      BY <1>1, <2>2, <3>1, <3>2, RestingIs DEF Spoken
  <2>. QED
    BY <2>2, <2>3, <2>4
<1>2. CASE c \in Starts /\ n < 3
  <2>1. n \in 0..2 /\ n + 1 < Length(c)
    BY <1>2, LengthIs
  <2>. QED
    BY <1>2, <2>1, StartAdvances
<1>3. CASE c \in Starts \cup Bytes /\ n >= Header(c)
  <2>. DEFINE k == n - Header(c)
  <2>1. c # "stop" /\ c # "close" /\ c # "release"
    BY <1>3 DEF Starts, Bytes, Reads
  <2>2. Header(c) \in {0, 3} /\ Length(c) = Header(c) + 27 /\ (c \in Starts => Header(c) = 3)
    BY <1>3, LengthIs
  <2>3. k \in 0..26 /\ (n + 1) - Header(c) = k + 1 /\ (n + 1 = Length(c) <=> k = 26) /\ (n + 1 < Length(c) <=> k # 26)
    BY <1>3, <2>2
  <2>4. ByteSpoken(c, k, reg, dev)
    BY <1>3 DEF Spoken
  <2>5. r \in ByteWrites(c, k)
    BY <1>3, <2>1, <2>2 DEF Writes
  <2>6. /\ WireOK(r, m)
        /\ IF k = 26 THEN Ended(c, r, m) ELSE ByteSpoken(c, k + 1, r, m)
    BY <1>3, <2>3, <2>4, <2>5, ByteAdvances
  <2>. HIDE DEF k
  <2>7. n + 1 < Length(c) => Spoken(p, c, n + 1, r, m)
    <3>1. (n + 1 # 1 /\ n + 1 # 2) \/ c \notin Starts
      BY <1>3, <2>2
    <3>. QED
      BY <1>3, <2>1, <2>3, <2>6, <3>1 DEF Spoken
  <2>8. ASSUME n + 1 = Length(c), NEW e, Follow(p, c, e) PROVE Spoken(p, e, 0, r, m)
    BY <1>3, <2>3, <2>6, <2>8, ByteEnds
  <2>. QED
    BY <2>6, <2>7, <2>8
<1>. QED
  BY <1>1, <1>2, <1>3, LengthIs

(***************************************************************************)
(* The constructor: release the bus, clock in a byte, stop.                *)
(***************************************************************************)
(* The process that ended had not left the device taking an address or     *)
(* receiving.                                                              *)
Cleared == ended \in {"none", "idle", "send"}

(* A device that still sends has counted more clocks than the master, since *)
(* the clock that was up or in progress when the last process ended; so it *)
(* comes to its ninth bit while the master still leaves the data line high. *)
Running(d, clocks) ==
  d.mode = "idle" \/ (d.mode = "send" /\ d.n \in (clocks + 1)..8)

(* Before write n of call c of the constructor; of the device it says      *)
(* something only if the bus was left Cleared.                             *)
BootSpoken(c, n, r, d) ==
  /\ c = "release" => n = 0 /\ (Cleared => d.mode \in {"idle", "send"})
  /\ c = "read" =>
       /\ IF n = 0 THEN r = High(1) ELSE r.scl = IF n % 3 = 2 THEN 1 ELSE 0
       /\ n < 24 /\ n % 3 = 1 => r.sda = 1
       /\ Cleared => Running(d, (n + 1) \div 3)
  /\ c = "stop" =>
       /\ n = 0 => r.scl = 0
       /\ n = 1 => r = Low(0)
       /\ n = 2 => r = High(0)
       /\ Cleared => d.mode = "idle"
  /\ c = "close" => r = High(1) /\ (Cleared => d.mode = "idle")

(* Letting go of a wire makes no start condition, and no falling clock.    *)
LEMMA ReleaseOne ==
  ASSUME NEW a, NEW b \in Wires, NEW d, WireOK(a, d), a.sda = b.sda \/ a.scl = b.scl,
         b.sda = 1 \/ b.sda = a.sda, b.scl = 1 \/ b.scl = a.scl,
         d.mode \in {"idle", "send"}, NEW m \in Heard(d, a, b)
  PROVE  m.mode \in {"idle", "send"}
<1>1. a \in Wires /\ d \in Devices /\ d.n \in 0..9 /\ a.sda \in Bit /\ b.sda \in Bit
  BY DEF WireOK, Devices, Wires
<1>2. ~(a.scl = 1 /\ b.scl = 0)
  BY <1>1 DEF Bit
<1>3. CASE m = d
  BY <1>3
<1>4. CASE m = Risen(d, b.sda)
  BY <1>1, <1>4, RisenIs, RestingIs
<1>5. CASE /\ a.scl = 1 /\ b.scl = 1 /\ a.sda # b.sda
           /\ m = IF d.drive = 0 THEN d ELSE IF b.sda = 0 THEN Started ELSE Silent
  BY <1>5, RestingIs
<1>. QED
  BY <1>1, <1>2, <1>3, <1>4, <1>5, HeardIs

(* Release leaves the device sending or idle.                              *)
LEMMA ReleaseAdvances ==
  ASSUME WireOK(reg, dev), NEW m \in HeardBoth(dev, reg, High(1))
  PROVE  /\ WireOK(High(1), m)
         /\ dev.mode \in {"idle", "send"} => Running(m, 0)
<1>1. High(1) \in Wires /\ High(1).sda = 1 /\ High(1).scl = 1
  BY LevelsAre DEF Bit
<1>2. WireOK(High(1), m)
  BY <1>1, BothKept
<1>3. ASSUME dev.mode \in {"idle", "send"} PROVE Running(m, 0)
  <2>1. reg \in Wires /\ reg.sda \in Bit /\ reg.scl \in Bit
    BY DEF WireOK, Wires
  <2>2. PICK mid \in Wires : \E x \in Heard(dev, reg, mid) :
           /\ mid = [sda |-> reg.sda, scl |-> 1] \/ mid = [sda |-> 1, scl |-> reg.scl]
           /\ m \in Heard(x, mid, High(1))
    BY <1>1, <2>1, BothInTwo
  <2>3. PICK x \in Heard(dev, reg, mid) : m \in Heard(x, mid, High(1))
    BY <2>2
  <2>4. WireOK(mid, x)
    BY <2>2, HeardKept
  <2>5. x.mode \in {"idle", "send"}
    BY <1>3, <2>1, <2>2, <2>3, ReleaseOne
  <2>6. m.mode \in {"idle", "send"}
    BY <1>1, <2>2, <2>3, <2>4, <2>5, ReleaseOne
  <2>7. m.mode = "send" => m.n \in 1..8
    BY <1>1, <1>2 DEF WireOK, Devices
  <2>. QED
    BY <2>6, <2>7 DEF Running
<1>. QED
  BY <1>2, <1>3

(* After the byte that the constructor clocks in, no device sends: it has  *)
(* seen a high data line at its ninth clock, a refusal, before the master's. *)
LEMMA ClearAdvances ==
  ASSUME WireOK(reg, dev), NEW n \in 0..26, BootSpoken("read", n, reg, dev),
         NEW r \in Writes("read", n), NEW m \in HeardBoth(dev, reg, r)
  PROVE  /\ WireOK(r, m)
         /\ n + 1 < 27 => BootSpoken("read", n + 1, r, m)
         /\ n + 1 = 27 => BootSpoken("stop", 0, r, m)
<1>. USE DEF Reads
<1>1. "read" \in Bytes /\ "read" \notin Starts /\ Header("read") = 0 /\ r \in ByteWrites("read", n)
  <2>1. "read" \in Bytes /\ "read" \notin Starts /\ Header("read") = 0
    BY LengthIs DEF Bytes, Starts
  <2>. QED
    BY <2>1 DEF Writes
<1>2. reg \in Wires /\ dev \in Devices /\ reg.sda \in Bit /\ dev.n \in 0..9
  BY DEF WireOK, Wires, Devices
<1>3. High(1).sda = 1 /\ High(1).scl = 1
  BY LevelsAre DEF Bit
<1>4. PICK b \in 0..8 : n = 3 * b \/ n = 3 * b + 1 \/ n = 3 * b + 2
  <2>. DEFINE b == n \div 3
  <2>1. b \in 0..8 /\ 3 * b <= n /\ n < 3 * b + 3
    OBVIOUS
  <2>. HIDE DEF b
  <2>2. n = 3 * b \/ n = 3 * b + 1 \/ n = 3 * b + 2
    BY <2>1
  <2>. QED
    BY <2>1, <2>2
<1>5. CASE n = 3 * b
  <2>1. n % 3 = 0 /\ n % 3 # 1 /\ n % 3 # 2 /\ n \div 3 = b /\ (n + 1) % 3 = 1 /\ (n + 1) \div 3 = b /\ ((n + 1) + 1) \div 3 = b
    BY <1>5
  <2>2. r \in [sda : Levels("read", b), scl : {0}]
    <3>1. ByteWrites("read", n) = [sda : Levels("read", n \div 3), scl : {0}]
      BY <2>1, Zenon DEF ByteWrites
    <3>. QED
      BY <1>1, <2>1, <3>1
  <2>3. Levels("read", b) = IF b = 8 THEN {0} ELSE {1}
    <3>1. CASE b = 8
      BY <3>1 DEF Levels
    <3>2. CASE b # 8
      <4>1. b < 8
        BY <3>2
      <4>. QED
        BY <1>1, <3>2, <4>1 DEF Levels
    <3>. QED
      BY <3>1, <3>2
  <2>4. r = [sda |-> r.sda, scl |-> r.scl] /\ r.sda = (IF b = 8 THEN 0 ELSE 1) /\ r.scl = 0
    BY <2>2, <2>3
  <2>5. r \in Wires
    BY <2>4 DEF Wires, Bit
  <2>6. WireOK(r, m)
    BY <2>5, BothKept
  <2>7. Cleared => Running(m, ((n + 1) + 1) \div 3)
    <3>1. CASE n = 0
      <4>1. reg.scl = 1 /\ reg.sda = 1 /\ r.sda = 1
        BY <1>3, <1>5, <2>4, <3>1 DEF BootSpoken
      <4>2. m \in Fallen(dev)
        BY <1>2, <2>4, <2>5, <4>1, One, HeardIs
      <4>3. dev.mode = "idle" => dev = Silent
        BY DEF WireOK
      <4>4. Cleared => dev.mode = "idle" \/ (dev.mode = "send" /\ 1 <= dev.n /\ dev.n <= 8)
        BY <3>1 DEF BootSpoken, Running
      <4>5. Cleared => m.mode = "idle" \/ (m.mode = "send" /\ m.n \in 1..8)
        BY <1>2, <4>2, <4>3, <4>4, FallenIs
      <4>. QED
        <5>1. ((n + 1) + 1) \div 3 = 0
          BY <1>5, <2>1, <3>1
        <5>2. Cleared => Running(m, 0)
          BY <4>5 DEF Running
        <5>. QED
          BY <5>1, <5>2
    <3>2. CASE n # 0
      <4>1. reg.scl = 0
        BY <2>1, <3>2 DEF BootSpoken
      <4>2. m = dev
        BY <1>2, <2>4, <2>5, <4>1, One, HeardIs
      <4>. QED
        BY <2>1, <4>2 DEF BootSpoken, Running
    <3>. QED
      BY <3>1, <3>2
  <2>8. n + 1 < 24 => r.sda = 1
    BY <1>5, <2>4
  <2>. QED
    BY <1>5, <2>1, <2>4, <2>6, <2>7, <2>8 DEF BootSpoken
<1>6. CASE n = 3 * b + 1
  <2>1. n % 3 = 1 /\ n # 0 /\ n # 26 /\ (n + 1) % 3 = 2 /\ (n + 1) \div 3 = b /\ ((n + 1) + 1) \div 3 = b + 1
    BY <1>6
  <2>2. ByteWrites("read", n) = {[reg EXCEPT !.scl = 1]}
    BY <2>1 DEF ByteWrites
  <2>3. r \in Wires /\ r.scl = 1 /\ r.sda = reg.sda
    BY <1>1, <1>2, <2>2 DEF Wires, Bit
  <2>4. reg.scl = 0
    BY <2>1 DEF BootSpoken
  <2>5. WireOK(r, m) /\ m = Risen(dev, r.sda)
    BY <1>2, <2>3, <2>4, One, HeardIs, BothKept
  <2>6. ASSUME Cleared PROVE Running(m, ((n + 1) + 1) \div 3)
    <3>1. CASE dev.mode = "idle"
      BY <1>2, <2>3, <2>5, <3>1, RisenIs DEF Running
    <3>2. CASE dev.mode = "send" /\ 1 + b <= dev.n /\ dev.n <= 7
      <4>1. m.mode = "send" /\ m.n = dev.n + 1
        BY <1>2, <2>3, <2>5, <3>2, RisenIs
      <4>. QED
        BY <1>2, <2>1, <3>2, <4>1 DEF Running
    <3>3. CASE dev.mode = "send" /\ dev.n = 8 /\ b < 8
      <4>1. r.sda = 1
        BY <1>6, <2>1, <2>3, <3>3 DEF BootSpoken
      <4>. QED
        BY <1>2, <2>5, <3>3, <4>1, RisenIs, RestingIs DEF Running, Bit
    <3>. QED
      BY <1>2, <2>1, <2>6, <3>1, <3>2, <3>3 DEF BootSpoken, Running
  <2>. QED
    BY <2>1, <2>3, <2>5, <2>6 DEF BootSpoken
<1>7. CASE n = 3 * b + 2
  <2>1. n % 3 = 2 /\ n # 0 /\ (n + 1) % 3 = 0 /\ (n + 1) \div 3 = b + 1 /\ ((n + 1) + 1) \div 3 = b + 1
    BY <1>7
  <2>2. ByteWrites("read", n) = {[reg EXCEPT !.scl = 0]}
    BY <2>1 DEF ByteWrites
  <2>3. r \in Wires /\ r.scl = 0 /\ r.sda = reg.sda
    BY <1>1, <1>2, <2>2 DEF Wires, Bit
  <2>4. reg.scl = 1
    BY <2>1 DEF BootSpoken
  <2>5. WireOK(r, m) /\ m \in Fallen(dev)
    BY <1>2, <2>3, <2>4, One, HeardIs, BothKept
  <2>6. ASSUME Cleared
        PROVE  Running(m, b + 1)
    <3>1. dev.mode = "idle" => dev = Silent
      BY DEF WireOK
    <3>2. dev.mode = "idle" \/ (dev.mode = "send" /\ 1 + (b + 1) <= dev.n /\ dev.n <= 8)
      BY <2>1, <2>6 DEF BootSpoken, Running
    <3>. QED
      BY <1>2, <2>5, <3>1, <3>2, FallenIs DEF Running
  <2>7. n + 1 < 27 => BootSpoken("read", n + 1, r, m)
    BY <2>1, <2>3, <2>6 DEF BootSpoken, Running
  <2>8. n + 1 = 27 => BootSpoken("stop", 0, r, m)
    <3>1. n + 1 = 27 => b = 8
      BY <1>7
    <3>2. n + 1 = 27 /\ Cleared => m.mode = "idle"
      <4>1. m.n \in Int
        BY <2>5 DEF WireOK, Devices
      <4>. QED
        BY <2>6, <3>1, <4>1 DEF Running
    <3>. QED
      BY <2>3, <3>2 DEF BootSpoken
  <2>. QED
    BY <2>5, <2>7, <2>8
<1>. QED
  BY <1>4, <1>5, <1>6, <1>7

(* The call of the constructor after call c                                *)
BootNext(c) == CASE c = "release" -> "read" [] c = "read" -> "stop" [] c = "stop" -> "close"

(* A write of the constructor advances its call, or leaves what the next   *)
(* call needs.                                                             *)
LEMMA BootAdvances ==
  ASSUME WireOK(reg, dev), NEW c \in {"release", "read", "stop"}, NEW n \in 0..(Length(c) - 1),
         BootSpoken(c, n, reg, dev),
         NEW r \in Writes(c, n), NEW m \in HeardBoth(dev, reg, r)
  PROVE  /\ WireOK(r, m)
         /\ n + 1 < Length(c) => BootSpoken(c, n + 1, r, m)
         /\ n + 1 = Length(c) => BootSpoken(BootNext(c), 0, r, m)
<1>1. CASE c = "release"
  <2>1. Length(c) = 1 /\ r = High(1)
    BY <1>1, LengthIs DEF Writes
  <2>2. n = 0
    BY <2>1
  <2>. QED
    BY <1>1, <2>1, <2>2, ReleaseAdvances DEF BootSpoken, BootNext
<1>2. CASE c = "read"
  <2>1. Length(c) = 27
    BY <1>2, LengthIs DEF Bytes, Reads
  <2>. QED
    BY <1>2, <2>1, ClearAdvances DEF BootNext
<1>3. CASE c = "stop"
  <2>1. Length(c) = 3
    BY <1>3, LengthIs
  <2>2. /\ WireOK(r, m)
        /\ r = IF n = 0 THEN Low(0) ELSE IF n = 1 THEN High(0) ELSE High(1)
        /\ dev.mode = "idle" => m.mode = "idle"
    BY <1>3, <2>1, StopAdvances DEF BootSpoken
  <2>. QED
    BY <1>3, <2>1, <2>2 DEF BootSpoken, BootNext
<1>. QED
  BY <1>1, <1>2, <1>3

(***************************************************************************)
(* Where a job is in its packet.                                           *)
(***************************************************************************)
CallNames == {"open", "close", "release", "stop"} \cup Starts \cup Bytes

Jobs == [packet : Packets \cup {"boot", "none"}, calls : Seq(CallNames), n : 0..29,
         ack : Bit, sid : 0..(Ids - 1)]

(* Job j is at call number i of packet p.                                  *)
At(j, p, i) ==
  j.packet = p /\ j.calls = SubSeq(Calls(p), i, Len(Calls(p)))

(* A job at call i has that call first, and then is at call i + 1.         *)
LEMMA RestOfCalls ==
  ASSUME NEW s \in Seq(CallNames), NEW i \in 1..Len(s)
  PROVE  /\ SubSeq(s, i, Len(s)) \in Seq(CallNames) /\ SubSeq(s, i, Len(s)) # <<>>
         /\ Head(SubSeq(s, i, Len(s))) = s[i]
         /\ i < Len(s) => Tail(SubSeq(s, i, Len(s))) = SubSeq(s, i + 1, Len(s))
<1>1. Len(s) \in Nat /\ \A k \in 1..Len(s) : s[k] \in CallNames
  BY LenProperties
<1>2. /\ SubSeq(s, i, Len(s)) \in Seq(CallNames)
      /\ Len(SubSeq(s, i, Len(s))) = Len(s) - i + 1
  BY <1>1, SubSeqProperties
<1>3. SubSeq(s, i, Len(s)) # <<>>
  <2>. DEFINE r == SubSeq(s, i, Len(s))
  <2>1. Len(r) >= 1
    BY <1>1, <1>2
  <2>. HIDE DEF r
  <2>2. r # <<>>
    BY <2>1
  <2>. QED
    BY <2>2 DEF r
<1>. QED
  BY <1>1, <1>2, <1>3, HeadTailOfSubSeq

(* The packets of vexi2cdevice.cxx and vexi2cencoder.cxx, one by one       *)
LEMMA CallsAre ==
  /\ Calls("boot") = <<"release", "read", "stop", "close">>
  /\ Calls("probe") = <<"open", "startW", "stop", "close">>
  /\ Calls("command") = <<"open", "startW", "write", "write", "stop", "close">>
  /\ Calls("info") = <<"open", "startW", "write", "startR", "read", "last", "stop", "close">>
  /\ Calls("position") = <<"open", "startW", "ask", "startR", "read", "last", "stop", "close">>
  /\ Calls("speed") = <<"open", "startW", "ask", "startR", "read", "read", "stop", "close">>
BY DEF Calls

(* What the calls of every packet have in common                           *)
Ordered(p, s) ==
  /\ s \in Seq(CallNames) /\ Len(s) \in 4..8
  /\ s[1] = "open" /\ s[2] = "startW" /\ s[Len(s) - 1] = "stop" /\ s[Len(s)] = "close"
  /\ \A i \in 2..(Len(s) - 1) : s[i] \in Starts \cup Bytes \cup {"stop"} /\ Follow(p, s[i], s[i + 1])

(* The names of calls, for the provers                                     *)
LEMMA NamesAre ==
  /\ {"startW", "startR", "write", "ask", "read", "last", "stop"} = Starts \cup Bytes \cup {"stop"}
  /\ "open" \in CallNames /\ "close" \in CallNames /\ "release" \in CallNames /\ "stop" \in CallNames
  /\ "startW" \in CallNames /\ "startR" \in CallNames /\ "write" \in CallNames /\ "ask" \in CallNames
  /\ "read" \in CallNames /\ "last" \in CallNames
BY DEF CallNames, Starts, Bytes, Reads

(* The successions that occur in packets                                   *)
LEMMA FollowsAre ==
  /\ \A p : Follow(p, "startW", "write") /\ Follow(p, "startW", "ask") /\ Follow(p, "startW", "stop")
  /\ \A p : Follow(p, "write", "write") /\ Follow(p, "write", "startR") /\ Follow(p, "write", "stop")
  /\ \A p : Follow(p, "ask", "startR") /\ Follow(p, "ask", "stop") /\ Follow(p, "startR", "read")
  /\ \A p : Follow(p, "read", "read") /\ Follow(p, "read", "last") /\ Follow(p, "last", "stop")
  /\ \A p : Follow(p, "stop", "close")
  /\ Follow("speed", "read", "stop")
BY DEF Follow, Reads

(* Every packet opens, starts a write, has calls that may follow each other, *)
(* stops and closes.                                                       *)
LEMMA CallsOrder ==
  ASSUME NEW p \in Packets
  PROVE  Ordered(p, Calls(p))
<1>1. CASE p = "probe"
  <2>. DEFINE s == Calls("probe")
  <2>1. s = <<"open", "startW", "stop", "close">>
    BY CallsAre
  <2>. HIDE DEF s
  <2>2. s \in Seq(CallNames)
    BY <2>1, NamesAre
  <2>3. /\ Len(s) = 4
        /\ s[Len(s) - 1] = "stop" /\ s[Len(s)] = "close"
        /\ s[1] = "open" /\ s[2] = "startW" /\ s[3] = "stop" /\ s[4] = "close"
    BY <2>1
  <2>4. ASSUME NEW i \in 2..3
        PROVE  s[i] \in Starts \cup Bytes \cup {"stop"} /\ Follow(p, s[i], s[i + 1])
    <3>1. i = 2 \/ i = 3
      OBVIOUS
    <3>. QED
      BY <1>1, <2>3, <3>1, NamesAre, FollowsAre
  <2>5. \A i \in 2..(Len(s) - 1) :
          s[i] \in Starts \cup Bytes \cup {"stop"} /\ Follow(p, s[i], s[i + 1])
    BY <2>3, <2>4
  <2>6. Ordered(p, s)
    BY <2>2, <2>3, <2>5 DEF Ordered
  <2>. QED
    BY <1>1, <2>6 DEF s
<1>2. CASE p = "command"
  <2>. DEFINE s == Calls("command")
  <2>1. s = <<"open", "startW", "write", "write", "stop", "close">>
    BY CallsAre
  <2>. HIDE DEF s
  <2>2. s \in Seq(CallNames)
    BY <2>1, NamesAre
  <2>3. /\ Len(s) = 6
        /\ s[Len(s) - 1] = "stop" /\ s[Len(s)] = "close"
        /\ s[1] = "open" /\ s[2] = "startW" /\ s[3] = "write" /\ s[4] = "write"
        /\ s[5] = "stop" /\ s[6] = "close"
    BY <2>1
  <2>4. ASSUME NEW i \in 2..5
        PROVE  s[i] \in Starts \cup Bytes \cup {"stop"} /\ Follow(p, s[i], s[i + 1])
    <3>1. i = 2 \/ i = 3 \/ i = 4 \/ i = 5
      OBVIOUS
    <3>. QED
      BY <1>2, <2>3, <3>1, NamesAre, FollowsAre
  <2>5. \A i \in 2..(Len(s) - 1) :
          s[i] \in Starts \cup Bytes \cup {"stop"} /\ Follow(p, s[i], s[i + 1])
    BY <2>3, <2>4
  <2>6. Ordered(p, s)
    BY <2>2, <2>3, <2>5 DEF Ordered
  <2>. QED
    BY <1>2, <2>6 DEF s
<1>3. CASE p = "info"
  <2>. DEFINE s == Calls("info")
  <2>1. s = <<"open", "startW", "write", "startR", "read", "last", "stop", "close">>
    BY CallsAre
  <2>. HIDE DEF s
  <2>2. s \in Seq(CallNames)
    BY <2>1, NamesAre
  <2>3. /\ Len(s) = 8
        /\ s[Len(s) - 1] = "stop" /\ s[Len(s)] = "close"
        /\ s[1] = "open" /\ s[2] = "startW" /\ s[3] = "write" /\ s[4] = "startR"
        /\ s[5] = "read" /\ s[6] = "last" /\ s[7] = "stop" /\ s[8] = "close"
    BY <2>1
  <2>4. ASSUME NEW i \in 2..7
        PROVE  s[i] \in Starts \cup Bytes \cup {"stop"} /\ Follow(p, s[i], s[i + 1])
    <3>1. i = 2 \/ i = 3 \/ i = 4 \/ i = 5 \/ i = 6 \/ i = 7
      OBVIOUS
    <3>. QED
      BY <1>3, <2>3, <3>1, NamesAre, FollowsAre
  <2>5. \A i \in 2..(Len(s) - 1) :
          s[i] \in Starts \cup Bytes \cup {"stop"} /\ Follow(p, s[i], s[i + 1])
    BY <2>3, <2>4
  <2>6. Ordered(p, s)
    BY <2>2, <2>3, <2>5 DEF Ordered
  <2>. QED
    BY <1>3, <2>6 DEF s
<1>4. CASE p = "position"
  <2>. DEFINE s == Calls("position")
  <2>1. s = <<"open", "startW", "ask", "startR", "read", "last", "stop", "close">>
    BY CallsAre
  <2>. HIDE DEF s
  <2>2. s \in Seq(CallNames)
    BY <2>1, NamesAre
  <2>3. /\ Len(s) = 8
        /\ s[Len(s) - 1] = "stop" /\ s[Len(s)] = "close"
        /\ s[1] = "open" /\ s[2] = "startW" /\ s[3] = "ask" /\ s[4] = "startR"
        /\ s[5] = "read" /\ s[6] = "last" /\ s[7] = "stop" /\ s[8] = "close"
    BY <2>1
  <2>4. ASSUME NEW i \in 2..7
        PROVE  s[i] \in Starts \cup Bytes \cup {"stop"} /\ Follow(p, s[i], s[i + 1])
    <3>1. i = 2 \/ i = 3 \/ i = 4 \/ i = 5 \/ i = 6 \/ i = 7
      OBVIOUS
    <3>. QED
      BY <1>4, <2>3, <3>1, NamesAre, FollowsAre
  <2>5. \A i \in 2..(Len(s) - 1) :
          s[i] \in Starts \cup Bytes \cup {"stop"} /\ Follow(p, s[i], s[i + 1])
    BY <2>3, <2>4
  <2>6. Ordered(p, s)
    BY <2>2, <2>3, <2>5 DEF Ordered
  <2>. QED
    BY <1>4, <2>6 DEF s
<1>5. CASE p = "speed"
  <2>. DEFINE s == Calls("speed")
  <2>1. s = <<"open", "startW", "ask", "startR", "read", "read", "stop", "close">>
    BY CallsAre
  <2>. HIDE DEF s
  <2>2. s \in Seq(CallNames)
    BY <2>1, NamesAre
  <2>3. /\ Len(s) = 8
        /\ s[Len(s) - 1] = "stop" /\ s[Len(s)] = "close"
        /\ s[1] = "open" /\ s[2] = "startW" /\ s[3] = "ask" /\ s[4] = "startR"
        /\ s[5] = "read" /\ s[6] = "read" /\ s[7] = "stop" /\ s[8] = "close"
    BY <2>1
  <2>4. ASSUME NEW i \in 2..7
        PROVE  s[i] \in Starts \cup Bytes \cup {"stop"} /\ Follow(p, s[i], s[i + 1])
    <3>1. i = 2 \/ i = 3 \/ i = 4 \/ i = 5 \/ i = 6 \/ i = 7
      OBVIOUS
    <3>. QED
      BY <1>5, <2>3, <3>1, NamesAre, FollowsAre
  <2>5. \A i \in 2..(Len(s) - 1) :
          s[i] \in Starts \cup Bytes \cup {"stop"} /\ Follow(p, s[i], s[i + 1])
    BY <2>3, <2>4
  <2>6. Ordered(p, s)
    BY <2>2, <2>3, <2>5 DEF Ordered
  <2>. QED
    BY <1>5, <2>6 DEF s
<1>. QED
  BY <1>1, <1>2, <1>3, <1>4, <1>5 DEF Packets

(* The calls of the constructor                                            *)
LEMMA BootOrder ==
  LET s == Calls("boot") IN
  /\ s \in Seq(CallNames) /\ Len(s) = 4
  /\ s[1] = "release" /\ s[2] = "read" /\ s[3] = "stop" /\ s[4] = "close"
<1>. DEFINE s == Calls("boot")
<1>1. s = <<"release", "read", "stop", "close">>
  BY CallsAre
<1>. HIDE DEF s
<1>2. s \in Seq(CallNames)
  BY <1>1, NamesAre
<1>. QED
  BY <1>1, <1>2 DEF s

(* A driver that skips to Stop is at the last call but one of its packet.  *)
LEMMA StopSkips ==
  ASSUME NEW p \in Packets
  PROVE  <<"stop", "close">> = SubSeq(Calls(p), Len(Calls(p)) - 1, Len(Calls(p)))
<1>. DEFINE s == Calls(p)
            r == SubSeq(s, Len(s) - 1, Len(s))
<1>1. s \in Seq(CallNames) /\ Len(s) \in 4..8 /\ s[Len(s) - 1] = "stop" /\ s[Len(s)] = "close"
  BY CallsOrder DEF Ordered
<1>. HIDE DEF s
<1>2. r \in Seq(CallNames) /\ Len(r) = 2 /\ \A k \in 1..2 : r[k] = s[k + (Len(s) - 1) - 1]
  <2>1. ASSUME NEW k \in (Len(s) - 1)..Len(s) PROVE s[k] \in CallNames
    BY <1>1, NamesAre
  <2>2. r \in Seq(CallNames) /\ Len(r) = 2
    BY <1>1, <2>1, SubSeqProperties
  <2>3. \A k \in 1..2 : r[k] = s[k + (Len(s) - 1) - 1]
    BY <1>1, <2>1, SubSeqProperties
  <2>. QED
    BY <2>2, <2>3
<1>3. r[1] = "stop" /\ r[2] = "close"
  BY <1>1, <1>2
<1>. HIDE DEF r
<1>4. r = <<"stop", "close">>
  BY <1>2, <1>3
<1>. QED
  BY <1>4 DEF r, s

(***************************************************************************)
(* The inductive invariant.                                                *)
(***************************************************************************)
JobsOK == job \in [Threads -> Jobs]

(* A write of call c has number n.                                         *)
Within(c, n) == c # "close" => n \in 0..(Length(c) - 1)

(* A thread has no packet, has one that it has not opened, or is in the    *)
(* middle of one; the constructor is in the middle of its own.             *)
Resting(j) == j.calls = <<>> /\ j.sid = 0

Beginning(j) == \E p \in Packets : At(j, p, 1) /\ j.sid = 0 /\ j.n = 0

Speaking(j, r, d) ==
  /\ j.sid # 0
  /\ \E p \in Packets : \E i \in 2..Len(Calls(p)) :
       At(j, p, i) /\ Within(Calls(p)[i], j.n) /\ Spoken(p, Calls(p)[i], j.n, r, d)

Booting(j, r, d) ==
  /\ j.sid = 0
  /\ \E i \in 1..4 :
       At(j, "boot", i) /\ Within(Calls("boot")[i], j.n) /\ BootSpoken(Calls("boot")[i], j.n, r, d)

(* Every thread is in one of these places; while the constructor runs, it  *)
(* runs alone.                                                             *)
Places ==
  /\ up => \A t \in Threads : Resting(job[t]) \/ Beginning(job[t]) \/ Speaking(job[t], reg, dev)
  /\ ~up =>
       /\ SessionActive /\ SessionID = 0
       /\ Booting(job[Main], reg, dev)
       /\ \A t \in Threads \ {Main} : Resting(job[t])

(* A bus that nobody has open is idle and released, with the exceptions of *)
(* IdleWhenClosed.                                                         *)
Quiet ==
  up /\ mutex = Free /\ ~afterSpeed /\ (Fresh => Cleared) => dev.mode = "idle" /\ reg = High(1)

IInv == TypeOK /\ JobsOK /\ SessionOwned /\ WireOK(reg, dev) /\ Places /\ Quiet

(* An identifier that Open returns is a number and never 0, the value that *)
(* means no session ("Ensure 0 isn't returned").                           *)
LEMMA NextIdIsSession ==
  ASSUME SessionID \in Nat
  PROVE  NextId \in 0..(Ids - 1) /\ NextId # 0
<1>1. Ids \in Nat \ {0} /\ Prime \in Nat /\ Prime % Ids # 0
  BY BusAssumption
<1>2. Prime % Ids \in 0..(Ids - 1) /\ (SessionID + Prime) % Ids \in 0..(Ids - 1)
  BY <1>1, SMT
<1>. QED
  BY <1>1, <1>2 DEF NextId

(* The call a thread makes next, from its place                            *)
LEMMA CallIs ==
  ASSUME JobsOK, NEW t \in Threads
  PROVE  /\ Resting(job[t]) => Call(t) = "none"
         /\ Beginning(job[t]) => Call(t) = "open"
         /\ \A p \in Packets : \A i \in 1..Len(Calls(p)) : At(job[t], p, i) => Call(t) = Calls(p)[i]
         /\ \A i \in 1..4 : At(job[t], "boot", i) => Call(t) = Calls("boot")[i]
<1>1. ASSUME NEW p \in Packets, NEW i \in 1..Len(Calls(p)), At(job[t], p, i)
      PROVE  Call(t) = Calls(p)[i]
  <2>1. Calls(p) \in Seq(CallNames)
    BY CallsOrder DEF Ordered
  <2>. QED
    BY <1>1, <2>1, RestOfCalls DEF At, Call
<1>2. ASSUME NEW i \in 1..4, At(job[t], "boot", i)
      PROVE  Call(t) = Calls("boot")[i]
  <2>1. Calls("boot") \in Seq(CallNames) /\ Len(Calls("boot")) = 4
    BY BootOrder
  <2>. QED
    BY <1>2, <2>1, RestOfCalls DEF At, Call
<1>3. Resting(job[t]) => Call(t) = "none"
  BY DEF Resting, Call
<1>4. ASSUME Beginning(job[t]) PROVE Call(t) = "open"
  <2>1. PICK p \in Packets : At(job[t], p, 1)
    BY <1>4 DEF Beginning
  <2>2. 1 \in 1..Len(Calls(p)) /\ Calls(p)[1] = "open"
    BY CallsOrder DEF Ordered
  <2>. QED
    BY <1>1, <2>1, <2>2
<1>. QED
  BY <1>1, <1>2, <1>3, <1>4

(* Once the constructor has returned, a thread that has opened its packet is *)
(* the one with the session.                                               *)
LEMMA SpeakerIs ==
  ASSUME IInv, up, NEW t \in Threads, Call(t) \notin {"none", "open"}
  PROVE  /\ job[t].sid # 0 /\ mutex = t /\ SessionActive /\ SessionID = job[t].sid
         /\ \E p \in Packets : \E i \in 2..Len(Calls(p)) :
              /\ At(job[t], p, i) /\ Calls(p)[i] = Call(t) /\ Within(Call(t), job[t].n)
              /\ Spoken(p, Call(t), job[t].n, reg, dev)
<1>1. Speaking(job[t], reg, dev)
  BY CallIs DEF IInv, Places
<1>2. PICK p \in Packets : \E i \in 2..Len(Calls(p)) :
         At(job[t], p, i) /\ Within(Calls(p)[i], job[t].n) /\ Spoken(p, Calls(p)[i], job[t].n, reg, dev)
  BY <1>1 DEF Speaking
<1>2a. PICK i \in 2..Len(Calls(p)) :
         At(job[t], p, i) /\ Within(Calls(p)[i], job[t].n) /\ Spoken(p, Calls(p)[i], job[t].n, reg, dev)
  BY <1>2
<1>3. i \in 1..Len(Calls(p))
  BY CallsOrder DEF Ordered
<1>4. Calls(p)[i] = Call(t)
  BY <1>2a, <1>3, CallIs DEF IInv
<1>. QED
  BY <1>1, <1>2a, <1>4 DEF IInv, SessionOwned, Speaking

(* Before it has returned, the constructor's thread is the only one that   *)
(* calls anything.                                                         *)
LEMMA BooterIs ==
  ASSUME IInv, ~up, NEW t \in Threads, Call(t) # "none"
  PROVE  /\ t = Main /\ job[t].sid = 0
         /\ \E i \in 1..4 :
              /\ At(job[t], "boot", i) /\ Calls("boot")[i] = Call(t) /\ Within(Call(t), job[t].n)
              /\ BootSpoken(Call(t), job[t].n, reg, dev)
<1>1. t = Main /\ Booting(job[t], reg, dev)
  BY CallIs DEF IInv, Places
<1>2. PICK i \in 1..4 : At(job[t], "boot", i) /\ Within(Calls("boot")[i], job[t].n) /\ BootSpoken(Calls("boot")[i], job[t].n, reg, dev)
  BY <1>1 DEF Booting
<1>3. Calls("boot")[i] = Call(t)
  BY <1>2, CallIs DEF IInv
<1>. QED
  BY <1>1, <1>2, <1>3 DEF Booting

(* The invariant implies the two properties of the bus.                    *)
LEMMA Answers ==
  ASSUME IInv
  PROVE  Aligned /\ IdleWhenClosed
<1>1. ASSUME NEW t \in Threads, up, Call(t) \in Starts \cup Bytes, job[t].n = Header(Call(t))
      PROVE  \/ dev.mode = Role(Call(t)) /\ dev.n = 0
             \/ dev.mode = "idle" /\ Call(t) \notin Starts
  <2>. DEFINE c == Call(t)
  <2>1. c \notin {"none", "open"}
    BY <1>1 DEF Starts, Bytes, Reads
  <2>2. PICK p \in Packets : Spoken(p, c, job[t].n, reg, dev)
    BY <1>1, <2>1, SpeakerIs
  <2>3. Header(c) \in Nat
    BY DEF Header
  <2>4. ByteSpoken(c, 0, reg, dev)
    BY <1>1, <2>2, <2>3 DEF Spoken
  <2>. QED
    BY <2>4 DEF ByteSpoken
<1>2. ASSUME up, mutex = Free, ~afterSpeed, Fresh => ended \in {"none", "idle", "send"}
      PROVE  dev.mode = "idle" /\ BusIsIdle
  <2>1. dev.mode = "idle" /\ reg = High(1)
    BY <1>2 DEF IInv, Quiet, Cleared
  <2>2. dev.drive = 1
    BY <2>1, RestingIs DEF IInv, WireOK
  <2>. QED
    BY <2>1, <2>2, LevelsAre DEF BusIsIdle, Line, Bit
<1>. QED
  BY <1>1, <1>2 DEF Aligned, IdleWhenClosed

(* No job, and a job that begins                                           *)
LEMMA JobsBegin ==
  /\ NoJob \in Jobs /\ Resting(NoJob) /\ NoJob.n = 0 /\ NoJob.packet = "none"
  /\ \A p \in Packets \cup {"boot"} :
       /\ Job(p) \in Jobs /\ At(Job(p), p, 1) /\ Job(p).sid = 0 /\ Job(p).n = 0
<1>1. Ids \in Nat \ {0}
  BY BusAssumption
<1>2. <<>> \in Seq(CallNames)
  BY EmptySeq
<1>3. NoJob \in Jobs /\ Resting(NoJob) /\ NoJob.n = 0 /\ NoJob.packet = "none"
  BY <1>1, <1>2 DEF NoJob, Jobs, Resting, Bit
<1>4. ASSUME NEW p \in Packets \cup {"boot"}
      PROVE  Job(p) \in Jobs /\ At(Job(p), p, 1) /\ Job(p).sid = 0 /\ Job(p).n = 0
  <2>1. Calls(p) \in Seq(CallNames)
    BY CallsOrder, BootOrder DEF Ordered
  <2>2. Job(p) \in Jobs
    BY <1>1, <2>1 DEF Job, Jobs, Bit
  <2>3. SubSeq(Calls(p), 1, Len(Calls(p))) = Calls(p)
    BY <2>1, SubSeqFull
  <2>. QED
    BY <2>2, <2>3 DEF Job, At
<1>. QED
  BY <1>3, <1>4

(* The fields of a job                                                     *)
LEMMA LevelsOfJob ==
  ASSUME NEW j \in Jobs
  PROVE  /\ j.packet \in Packets \cup {"boot", "none"} /\ j.calls \in Seq(CallNames)
         /\ j.n \in 0..29 /\ j.sid \in 0..(Ids - 1)
BY DEF Jobs

(* The job of one thread is replaced; those of the others stay.            *)
LEMMA TypeOfJobs ==
  ASSUME IInv, NEW t \in Threads, NEW j \in Jobs, job' = [job EXCEPT ![t] = j]
  PROVE  /\ JobsOK' /\ job'[t] = j /\ \A u \in Threads \ {t} : job'[u] = job[u]
         /\ \A u \in Threads : job'[u].packet \in Packets \cup {"boot", "none"}
         /\ \A u \in Threads : job'[u].n \in 0..(Length("startW") - 1) /\ job'[u].sid \in 0..(Ids - 1)
<1>1. job \in [Threads -> Jobs]
  BY DEF IInv, JobsOK
<1>2. JobsOK' /\ job'[t] = j /\ \A u \in Threads \ {t} : job'[u] = job[u]
  BY <1>1 DEF JobsOK
<1>3. \A u \in Threads : job'[u] \in Jobs
  BY <1>2 DEF JobsOK
<1>4. 0..(Length("startW") - 1) = 0..29
  <2>1. Length("startW") = 30
    BY LengthIs DEF Starts
  <2>. QED
    BY <2>1
<1>. QED
  BY <1>2, <1>3, <1>4, LevelsOfJob

(* Begin forgets no session and writes no register.                        *)
LEMMA BeginKept ==
  ASSUME IInv, NEW t \in Threads, NEW p \in Used, Begin(t, p)
  PROVE  IInv'
<1>1. /\ job' = [job EXCEPT ![t] = Job(p)] /\ UNCHANGED <<session, up, wire, history>>
      /\ up /\ Call(t) = "none"
  BY DEF Begin
<1>2. p \in Packets
  BY BusAssumption
<1>3. Job(p) \in Jobs /\ Beginning(Job(p)) /\ Job(p).sid = 0
  BY <1>2, JobsBegin DEF Beginning
<1>4. TypeOK' /\ JobsOK'
  BY <1>1, <1>3, TypeOfJobs DEF IInv, TypeOK, session, wire, history
<1>5. job'[t] = Job(p) /\ \A u \in Threads \ {t} : job'[u] = job[u]
  BY <1>1, <1>3, TypeOfJobs
<1>6. SessionOwned'
  BY <1>1, <1>3, <1>5 DEF IInv, SessionOwned, session
<1>7. Places'
  BY <1>1, <1>3, <1>5 DEF IInv, Places, session, wire
<1>8. Quiet' /\ WireOK(reg, dev)'
  BY <1>1 DEF IInv, Quiet, Cleared, Fresh, session, wire, history
<1>. QED
  BY <1>4, <1>6, <1>7, <1>8 DEF IInv

(* Open has waited for the mutex, so nobody else has a session.            *)
LEMMA OpenKept ==
  ASSUME IInv, NEW t \in Threads, Open(t)
  PROVE  IInv'
<1>. DEFINE j == [job[t] EXCEPT !.calls = Tail(@), !.sid = NextId]
<1>1. /\ Call(t) = "open" /\ mutex = Free
      /\ mutex' = t /\ SessionActive' = TRUE /\ SessionID' = NextId
      /\ job' = [job EXCEPT ![t] = j]
      /\ UNCHANGED <<up, wire, history>>
  BY DEF Open
<1>2. NextId \in 0..(Ids - 1) /\ NextId # 0
  BY NextIdIsSession, BusAssumption DEF IInv, TypeOK
<1>3. job[t] \in Jobs
  BY DEF IInv, JobsOK
<1>4. up
  BY <1>1, BooterIs, BootOrder
<1>5. Beginning(job[t])
  <2>1. ASSUME Speaking(job[t], reg, dev) PROVE FALSE
    <3>1. PICK p \in Packets : \E i \in 2..Len(Calls(p)) : At(job[t], p, i)
      BY <2>1 DEF Speaking
    <3>2. PICK i \in 2..Len(Calls(p)) : At(job[t], p, i)
      BY <3>1
    <3>3. Calls(p)[i] # "open" /\ i \in 1..Len(Calls(p))
      BY CallsOrder DEF Ordered, Starts, Bytes, Reads
    <3>. QED
      BY <1>1, <3>2, <3>3, CallIs DEF IInv
  <2>. QED
    BY <1>1, <1>4, <2>1, CallIs DEF IInv, Places
<1>6. PICK p \in Packets : At(job[t], p, 1) /\ job[t].n = 0
  BY <1>5 DEF Beginning
<1>7. Calls(p) \in Seq(CallNames) /\ Len(Calls(p)) \in 4..8 /\ Calls(p)[2] = "startW"
  BY CallsOrder DEF Ordered
<1>8. Tail(job[t].calls) = SubSeq(Calls(p), 2, Len(Calls(p))) /\ Tail(job[t].calls) \in Seq(CallNames)
  BY <1>6, <1>7, RestOfCalls DEF At
<1>9. /\ j \in Jobs /\ j.calls = Tail(job[t].calls) /\ j.sid = NextId
      /\ j.n = 0 /\ j.packet = p
  BY <1>2, <1>3, <1>6, <1>8 DEF Jobs, At
<1>. HIDE DEF j
<1>10. Speaking(j, reg, dev)
  <2>1. At(j, p, 2)
    BY <1>8, <1>9 DEF At
  <2>2. Within("startW", 0) /\ Spoken(p, "startW", 0, reg, dev)
    BY LengthIs DEF Within, Spoken, Starts, Header
  <2>. QED
    BY <1>2, <1>7, <1>9, <2>1, <2>2 DEF Speaking
<1>11. JobsOK' /\ job'[t] = j /\ \A u \in Threads \ {t} : job'[u] = job[u]
  BY <1>1, <1>9, TypeOfJobs
<1>12. TypeOK'
  BY <1>1, <1>2, <1>9, TypeOfJobs DEF IInv, TypeOK, wire, history
<1>13. SessionOwned'
  <2>1. \A u \in Threads \ {t} : job[u].sid = 0
    BY <1>1, BusAssumption DEF IInv, SessionOwned
  <2>. QED
    BY <1>1, <1>9, <1>11, <2>1 DEF SessionOwned
<1>14. Places'
  BY <1>1, <1>4, <1>10, <1>11 DEF IInv, Places, wire
<1>15. Quiet' /\ WireOK(reg, dev)'
  BY <1>1, BusAssumption DEF IInv, Quiet, wire
<1>. QED
  BY <1>11, <1>12, <1>13, <1>14, <1>15 DEF IInv

(* A write replaces fields of a job: inside a call, and at its end.        *)
Moved(j, k, a) == [j EXCEPT !.n = k, !.ack = a]
Finished(j, a, c) == [j EXCEPT !.n = 0, !.ack = a, !.calls = c]

(* The two jobs that a write of the register may leave                     *)
LEMMA WriteIs ==
  ASSUME JobsOK, NEW t \in Threads, NEW c, NEW n, Write(t, c, n)
  PROVE  /\ reg' \in Writes(c, n) /\ dev' \in HeardBoth(dev, reg, reg')
         /\ \E a \in Bit :
              job' = [job EXCEPT ![t] =
                        IF n + 1 < Length(c) THEN Moved(job[t], n + 1, a)
                        ELSE Finished(job[t], 0, Remaining(t, a))]
<1>1. PICK r \in Writes(c, n) :
        LET acked == IF c # "ask" THEN 0
                     ELSE IF n = Length(c) - 2 THEN 1 - Line(r, dev') ELSE job[t].ack IN
        /\ reg' = r
        /\ dev' \in HeardBoth(dev, reg, r)
        /\ job' = [job EXCEPT ![t] =
                     IF n + 1 < Length(c) THEN [@ EXCEPT !.n = n + 1, !.ack = acked]
                     ELSE [@ EXCEPT !.n = 0, !.ack = 0, !.calls = Remaining(t, acked)]]
  BY DEF Write
<1>. DEFINE acked == IF c # "ask" THEN 0
                     ELSE IF n = Length(c) - 2 THEN 1 - Line(r, dev') ELSE job[t].ack
<1>2. acked \in Bit
  <2>1. job[t].ack \in Bit
    BY DEF JobsOK, Jobs
  <2>. QED
    BY <2>1 DEF Line, Bit
<1>3. job' = [job EXCEPT ![t] =
                IF n + 1 < Length(c) THEN [job[t] EXCEPT !.n = n + 1, !.ack = acked]
                ELSE [job[t] EXCEPT !.n = 0, !.ack = 0, !.calls = Remaining(t, acked)]]
  BY <1>1
<1>. HIDE DEF acked
<1>. QED
  BY <1>1, <1>2, <1>3 DEF Moved, Finished

(* Where a packet goes on after a call that has ended                      *)
LEMMA GoesOn ==
  ASSUME JobsOK, NEW t \in Threads, NEW p \in Packets, NEW i \in 2..Len(Calls(p)), At(job[t], p, i),
         Call(t) = Calls(p)[i], Calls(p)[i] # "close", NEW a \in Bit
  PROVE  /\ Remaining(t, a) \in Seq(CallNames)
         /\ \E k \in 2..Len(Calls(p)) :
              /\ Remaining(t, a) = SubSeq(Calls(p), k, Len(Calls(p)))
              /\ Follow(p, Calls(p)[i], Calls(p)[k])
<1>. DEFINE s == Calls(p)
<1>1. /\ s \in Seq(CallNames) /\ Len(s) \in 4..8
      /\ s[Len(s) - 1] = "stop" /\ s[Len(s)] = "close"
      /\ \A k \in 2..(Len(s) - 1) : Follow(p, s[k], s[k + 1])
  BY CallsOrder DEF Ordered
<1>2. i \in 2..(Len(s) - 1) /\ i \in 1..Len(s)
  BY <1>1
<1>3. CASE Call(t) = "ask" /\ a = 0
  <2>1. Remaining(t, a) = SubSeq(s, Len(s) - 1, Len(s))
    BY <1>3, StopSkips DEF Remaining
  <2>2. Len(s) - 1 \in 2..Len(s) /\ Len(s) - 1 \in 1..Len(s)
    BY <1>1
  <2>3. Follow(p, s[i], s[Len(s) - 1])
    BY <1>1, <1>3, FollowsAre
  <2>. HIDE DEF s
  <2>. QED
    BY <1>1, <2>1, <2>2, <2>3, RestOfCalls DEF s
<1>4. CASE ~(Call(t) = "ask" /\ a = 0)
  <2>1. Remaining(t, a) = Tail(job[t].calls)
    BY <1>4 DEF Remaining
  <2>2. Remaining(t, a) = SubSeq(s, i + 1, Len(s))
    BY <1>1, <1>2, <2>1, RestOfCalls DEF At
  <2>3. i + 1 \in 2..Len(s) /\ i + 1 \in 1..Len(s) /\ Follow(p, s[i], s[i + 1])
    BY <1>1, <1>2
  <2>. HIDE DEF s
  <2>. QED
    BY <1>1, <2>2, <2>3, RestOfCalls DEF s
<1>. QED
  BY <1>3, <1>4

(* The fields of a job that has moved on inside its call                   *)
LEMMA JobWithin ==
  ASSUME NEW j \in Jobs, NEW a \in Bit, NEW k \in 0..29
  PROVE  /\ Moved(j, k, a) \in Jobs /\ Moved(j, k, a).sid = j.sid /\ Moved(j, k, a).packet = j.packet
         /\ Moved(j, k, a).calls = j.calls /\ Moved(j, k, a).n = k
<1>1. /\ j = [packet |-> j.packet, calls |-> j.calls, n |-> j.n, ack |-> j.ack, sid |-> j.sid]
      /\ j.packet \in Packets \cup {"boot", "none"} /\ j.calls \in Seq(CallNames) /\ j.sid \in 0..(Ids - 1)
  BY DEF Jobs
<1>2. Moved(j, k, a) = [packet |-> j.packet, calls |-> j.calls, n |-> k, ack |-> a, sid |-> j.sid]
  <2>. DEFINE m == [j EXCEPT !.n = k]
  <2>1. m = [packet |-> j.packet, calls |-> j.calls, n |-> k, ack |-> j.ack, sid |-> j.sid]
    BY <1>1
  <2>2. Moved(j, k, a) = [m EXCEPT !.ack = a]
    BY DEF Moved
  <2>. HIDE DEF m
  <2>. QED
    BY <2>1, <2>2
<1>. QED
  BY <1>1, <1>2 DEF Jobs

(* The fields of a job that has come to the end of its call                *)
LEMMA JobFinished ==
  ASSUME NEW j \in Jobs, NEW c \in Seq(CallNames), NEW a \in Bit
  PROVE  /\ Finished(j, a, c) \in Jobs /\ Finished(j, a, c).sid = j.sid /\ Finished(j, a, c).packet = j.packet
         /\ Finished(j, a, c).calls = c /\ Finished(j, a, c).n = 0
<1>1. /\ j = [packet |-> j.packet, calls |-> j.calls, n |-> j.n, ack |-> j.ack, sid |-> j.sid]
      /\ j.packet \in Packets \cup {"boot", "none"} /\ j.sid \in 0..(Ids - 1)
  BY DEF Jobs
<1>2. Finished(j, a, c) = [packet |-> j.packet, calls |-> c, n |-> 0, ack |-> a, sid |-> j.sid]
  <2>. DEFINE m == [j EXCEPT !.n = 0]
            r == [m EXCEPT !.ack = a]
  <2>1. m = [packet |-> j.packet, calls |-> j.calls, n |-> 0, ack |-> j.ack, sid |-> j.sid]
    BY <1>1
  <2>2. Finished(j, a, c) = [r EXCEPT !.calls = c]
    BY DEF Finished
  <2>. HIDE DEF m
  <2>3. r = [packet |-> j.packet, calls |-> j.calls, n |-> 0, ack |-> a, sid |-> j.sid]
    BY <2>1
  <2>. HIDE DEF r
  <2>. QED
    BY <2>2, <2>3
<1>. QED
  BY <1>1, <1>2 DEF Jobs

(* A write inside a packet: the thread has the session, so Start is not    *)
(* refused and no other thread has written since.                          *)
LEMMA SpeakerDrives ==
  ASSUME IInv, NEW t \in Threads, Drive(t), up
  PROVE  IInv'
<1>. DEFINE c == Call(t)
            n == job[t].n
<1>1. /\ OnBus(t) /\ (c \in Starts /\ n = 1 => BusIsIdle)
      /\ UNCHANGED <<session, up, history>>
  BY DEF Drive
<1>2. c \in {"release", "stop"} \cup Starts \cup Bytes
  BY <1>1 DEF OnBus
<1>3. c \notin {"none", "open", "close"}
  BY <1>2 DEF Starts, Bytes, Reads
<1>4. /\ job[t].sid # 0 /\ mutex = t /\ SessionActive /\ SessionID = job[t].sid
  BY <1>3, SpeakerIs
<1>5. PICK p \in Packets : \E i \in 2..Len(Calls(p)) :
              /\ At(job[t], p, i) /\ Calls(p)[i] = Call(t) /\ Within(Call(t), job[t].n)
              /\ Spoken(p, Call(t), job[t].n, reg, dev)
  BY <1>3, SpeakerIs
<1>6. PICK i \in 2..Len(Calls(p)) :
              /\ At(job[t], p, i) /\ Calls(p)[i] = c /\ Within(c, n)
              /\ Spoken(p, c, n, reg, dev)
  BY <1>5
<1>7. c \in Starts \cup Bytes \cup {"stop"}
  <2>1. i \in 2..(Len(Calls(p)) - 1)
    BY <1>3, <1>6, CallsOrder DEF Ordered
  <2>. QED
    BY <1>6, <2>1, CallsOrder DEF Ordered
<1>8. Write(t, c, n)
  BY <1>4 DEF Drive, Refused
<1>9. n \in 0..(Length(c) - 1) /\ Length(c) \in {3, 27, 30} /\ n \in 0..29 /\ job[t] \in Jobs
  <2>1. Length(c) \in {3, 27, 30}
    BY <1>7, LengthIs
  <2>. QED
    BY <1>3, <1>6, <2>1, LevelsOfJob DEF Within, IInv, JobsOK
<1>10. reg' \in Writes(c, n) /\ dev' \in HeardBoth(dev, reg, reg')
  BY <1>8, WriteIs DEF IInv
<1>11. PICK a \in Bit :
              job' = [job EXCEPT ![t] =
                        IF n + 1 < Length(c) THEN Moved(job[t], n + 1, a)
                        ELSE Finished(job[t], 0, Remaining(t, a))]
  BY <1>8, WriteIs DEF IInv
<1>12. /\ WireOK(reg', dev')
       /\ n + 1 < Length(c) => Spoken(p, c, n + 1, reg', dev')
       /\ n + 1 = Length(c) => \A e : Follow(p, c, e) => Spoken(p, e, 0, reg', dev')
  BY <1>1, <1>6, <1>7, <1>9, <1>10, CallAdvances DEF IInv
<1>. DEFINE Advanced(j) ==
       /\ j \in Jobs /\ j.sid = job[t].sid /\ job' = [job EXCEPT ![t] = j] /\ Speaking(j, reg', dev')
<1>. HIDE DEF c, n
<1>13. PICK j : Advanced(j)
  <2>1. CASE n + 1 < Length(c)
    <3>. DEFINE q == Moved(job[t], n + 1, a)
    <3>1. n + 1 \in 0..29 /\ Within(c, n + 1)
      BY <1>9, <2>1 DEF Within
    <3>2. q \in Jobs /\ q.sid = job[t].sid /\ q.packet = job[t].packet /\ q.calls = job[t].calls /\ q.n = n + 1
      BY <1>9, <3>1, JobWithin
    <3>3. job' = [job EXCEPT ![t] = q]
      BY <1>11, <2>1
    <3>. HIDE DEF q
    <3>4. At(q, p, i) /\ q.n = n + 1
      BY <1>6, <3>2 DEF At
    <3>5. Speaking(q, reg', dev')
      BY <1>4, <1>6, <1>12, <2>1, <3>1, <3>2, <3>4 DEF Speaking
    <3>6. Advanced(q)
      BY <3>2, <3>3, <3>5
    <3>. QED
      BY <3>6
  <2>2. CASE ~(n + 1 < Length(c))
    <3>. DEFINE q == Finished(job[t], 0, Remaining(t, a))
    <3>1. n + 1 = Length(c)
      BY <1>9, <2>2
    <3>2. Remaining(t, a) \in Seq(CallNames)
      BY <1>3, <1>6, GoesOn DEF IInv, c
    <3>3. PICK k \in 2..Len(Calls(p)) :
            Remaining(t, a) = SubSeq(Calls(p), k, Len(Calls(p))) /\ Follow(p, c, Calls(p)[k])
      BY <1>3, <1>6, GoesOn DEF IInv, c
    <3>4. q \in Jobs /\ q.sid = job[t].sid /\ q.packet = job[t].packet /\ q.calls = Remaining(t, a) /\ q.n = 0
      BY <1>9, <3>2, JobFinished DEF Bit
    <3>5. job' = [job EXCEPT ![t] = q]
      BY <1>11, <2>2
    <3>. HIDE DEF q
    <3>6. At(q, p, k)
      BY <1>6, <3>3, <3>4 DEF At
    <3>7. Spoken(p, Calls(p)[k], 0, reg', dev')
      BY <1>12, <3>1, <3>3
    <3>8. Within(Calls(p)[k], 0)
      <4>1. Calls(p)[k] \in Starts \cup Bytes \cup {"stop", "close"}
        BY CallsOrder DEF Ordered
      <4>. QED
        BY <4>1, LengthIs DEF Within
    <3>9. Speaking(q, reg', dev')
      BY <1>4, <3>4, <3>6, <3>7, <3>8 DEF Speaking
    <3>10. Advanced(q)
      BY <3>4, <3>5, <3>9
    <3>. QED
      BY <3>10
  <2>. QED
    BY <2>1, <2>2
<1>14. JobsOK' /\ job'[t] = j /\ \A u \in Threads \ {t} : job'[u] = job[u]
  BY <1>13, TypeOfJobs
<1>15. TypeOK'
  <2>1. reg' \in Wires /\ dev' \in Devices
    BY <1>12 DEF WireOK
  <2>. QED
    BY <1>1, <1>13, <2>1, TypeOfJobs DEF IInv, TypeOK, session, history, Wires, Devices
<1>16. SessionOwned'
  BY <1>1, <1>13, <1>14 DEF IInv, SessionOwned, session
<1>17. Places'
  <2>1. ASSUME NEW u \in Threads \ {t} PROVE Resting(job'[u]) \/ Beginning(job'[u])
    <3>1. job[u].sid = 0
      BY <1>4 DEF IInv, SessionOwned
    <3>. QED
      BY <1>14, <3>1 DEF IInv, Places, Speaking
  <2>2. up'
    BY <1>1
  <2>. QED
    BY <1>13, <1>14, <2>1, <2>2 DEF Places
<1>18. Quiet'
  BY <1>1, <1>4, BusAssumption DEF Quiet, session
<1>. QED
  BY <1>12, <1>14, <1>15, <1>16, <1>17, <1>18 DEF IInv

(* Where the constructor goes on after a call that has ended               *)
LEMMA BootGoesOn ==
  ASSUME JobsOK, NEW t \in Threads, NEW i \in 1..4, At(job[t], "boot", i), Call(t) = Calls("boot")[i],
         Call(t) # "close", NEW a \in Bit
  PROVE  /\ Call(t) \in {"release", "read", "stop"} /\ i + 1 \in 1..4
         /\ Remaining(t, a) = SubSeq(Calls("boot"), i + 1, Len(Calls("boot")))
         /\ Remaining(t, a) \in Seq(CallNames)
         /\ Calls("boot")[i + 1] = BootNext(Call(t))
<1>. DEFINE s == Calls("boot")
<1>1. /\ s \in Seq(CallNames) /\ Len(s) = 4
      /\ s[1] = "release" /\ s[2] = "read" /\ s[3] = "stop" /\ s[4] = "close"
  BY BootOrder
<1>. HIDE DEF s
<1>2. i \in 1..3 /\ Call(t) = s[i]
  BY <1>1 DEF s
<1>3. Call(t) \in {"release", "read", "stop"} /\ s[i + 1] = BootNext(Call(t))
  <2>1. i = 1 \/ i = 2 \/ i = 3
    BY <1>2
  <2>. QED
    BY <1>1, <1>2, <2>1 DEF BootNext
<1>4. Remaining(t, a) = Tail(SubSeq(s, i, Len(s)))
  BY <1>3 DEF Remaining, At, s
<1>5. i \in 1..Len(s) /\ i < Len(s) /\ i + 1 \in 1..Len(s) /\ i + 1 \in 1..4
  BY <1>1, <1>2
<1>6. Remaining(t, a) = SubSeq(s, i + 1, Len(s)) /\ Remaining(t, a) \in Seq(CallNames)
  BY <1>1, <1>4, <1>5, RestOfCalls
<1>. QED
  BY <1>3, <1>5, <1>6 DEF s

(* A write of the constructor                                              *)
LEMMA BooterDrives ==
  ASSUME IInv, NEW t \in Threads, Drive(t), ~up
  PROVE  IInv'
<1>. DEFINE c == Call(t)
            n == job[t].n
<1>1. OnBus(t) /\ UNCHANGED <<session, up, history>>
  BY DEF Drive
<1>2. c \in {"release", "stop"} \cup Starts \cup Bytes /\ c \notin {"none", "close"}
  BY <1>1 DEF OnBus, Starts, Bytes, Reads
<1>3. t = Main /\ job[t].sid = 0 /\ SessionActive /\ SessionID = 0
  BY <1>2, BooterIs DEF IInv, Places
<1>4. PICK i \in 1..4 :
        /\ At(job[t], "boot", i) /\ Calls("boot")[i] = Call(t) /\ Within(Call(t), job[t].n)
        /\ BootSpoken(Call(t), job[t].n, reg, dev)
  BY <1>2, BooterIs
<1>5. c \in {"release", "read", "stop"}
  BY <1>2, <1>4, BootGoesOn DEF IInv, Bit
<1>6. Write(t, c, n)
  BY <1>3, <1>5 DEF Drive, Refused, Starts
<1>7. Length(c) \in {1, 3, 27} /\ n \in 0..(Length(c) - 1) /\ n \in 0..29 /\ job[t] \in Jobs
  <2>1. Length(c) \in {1, 3, 27}
    BY <1>5, LengthIs DEF Bytes, Reads
  <2>. QED
    BY <1>2, <1>4, <2>1, LevelsOfJob DEF Within, IInv, JobsOK
<1>8. reg' \in Writes(c, n) /\ dev' \in HeardBoth(dev, reg, reg')
  BY <1>6, WriteIs DEF IInv
<1>9. PICK a \in Bit :
              job' = [job EXCEPT ![t] =
                        IF n + 1 < Length(c) THEN Moved(job[t], n + 1, a)
                        ELSE Finished(job[t], 0, Remaining(t, a))]
  BY <1>6, WriteIs DEF IInv
<1>10. /\ WireOK(reg', dev')
       /\ n + 1 < Length(c) => BootSpoken(c, n + 1, reg', dev')
       /\ n + 1 = Length(c) => BootSpoken(BootNext(c), 0, reg', dev')
  BY <1>4, <1>5, <1>7, <1>8, BootAdvances DEF IInv
<1>. DEFINE Advanced(j) ==
       /\ j \in Jobs /\ j.sid = 0 /\ job' = [job EXCEPT ![t] = j] /\ Booting(j, reg', dev')
<1>. HIDE DEF c, n
<1>11. PICK j : Advanced(j)
  <2>1. CASE n + 1 < Length(c)
    <3>. DEFINE q == Moved(job[t], n + 1, a)
    <3>1. n + 1 \in 0..29 /\ Within(c, n + 1)
      BY <1>7, <2>1 DEF Within
    <3>2. q \in Jobs /\ q.sid = job[t].sid /\ q.packet = job[t].packet /\ q.calls = job[t].calls /\ q.n = n + 1
      BY <1>7, <3>1, JobWithin
    <3>3. job' = [job EXCEPT ![t] = q]
      BY <1>9, <2>1
    <3>. HIDE DEF q
    <3>4. At(q, "boot", i)
      BY <1>4, <3>2 DEF At
    <3>5. Booting(q, reg', dev')
      BY <1>3, <1>4, <1>10, <2>1, <3>1, <3>2, <3>4 DEF Booting, c
    <3>6. Advanced(q)
      BY <1>3, <3>2, <3>3, <3>5
    <3>. QED
      BY <3>6
  <2>2. CASE ~(n + 1 < Length(c))
    <3>. DEFINE q == Finished(job[t], 0, Remaining(t, a))
    <3>1. n + 1 = Length(c)
      BY <1>7, <2>2
    <3>2. /\ i + 1 \in 1..4 /\ Remaining(t, a) = SubSeq(Calls("boot"), i + 1, Len(Calls("boot")))
          /\ Remaining(t, a) \in Seq(CallNames) /\ Calls("boot")[i + 1] = BootNext(c)
      BY <1>2, <1>4, BootGoesOn DEF IInv, c
    <3>3. q \in Jobs /\ q.sid = job[t].sid /\ q.packet = job[t].packet /\ q.calls = Remaining(t, a) /\ q.n = 0
      BY <1>7, <3>2, JobFinished DEF Bit
    <3>4. job' = [job EXCEPT ![t] = q]
      BY <1>9, <2>2
    <3>. HIDE DEF q
    <3>5. At(q, "boot", i + 1)
      BY <1>4, <3>2, <3>3 DEF At
    <3>6. BootSpoken(Calls("boot")[i + 1], 0, reg', dev')
      BY <1>10, <3>1, <3>2
    <3>7. Within(Calls("boot")[i + 1], 0)
      <4>1. BootNext(c) \in {"read", "stop", "close"}
        BY <1>5 DEF BootNext, c
      <4>. QED
        BY <3>2, <4>1, LengthIs DEF Within, Bytes, Reads
    <3>8. Booting(q, reg', dev')
      BY <1>3, <3>2, <3>3, <3>5, <3>6, <3>7 DEF Booting
    <3>9. Advanced(q)
      BY <1>3, <3>3, <3>4, <3>8
    <3>. QED
      BY <3>9
  <2>. QED
    BY <2>1, <2>2
<1>12. JobsOK' /\ job'[t] = j /\ \A u \in Threads \ {t} : job'[u] = job[u]
  BY <1>11, TypeOfJobs
<1>13. TypeOK'
  <2>1. reg' \in Wires /\ dev' \in Devices
    BY <1>10 DEF WireOK
  <2>. QED
    BY <1>1, <1>11, <2>1, TypeOfJobs DEF IInv, TypeOK, session, history, Wires, Devices
<1>14. SessionOwned'
  BY <1>1, <1>11, <1>12 DEF IInv, SessionOwned, session
<1>15. Places'
  <2>1. Booting(job'[Main], reg', dev')
    BY <1>3, <1>11, <1>12
  <2>2. \A u \in Threads \ {Main} : Resting(job'[u])
    BY <1>3, <1>12 DEF IInv, Places
  <2>3. ~up' /\ SessionActive' /\ SessionID' = 0
    BY <1>1, <1>3 DEF session
  <2>4. Cleared' = Cleared
    BY <1>1 DEF Cleared, history
  <2>5. Booting(job[Main], reg, dev)'
    BY <2>1, <2>4, Zenon DEF Booting, BootSpoken
  <2>. QED
    BY <2>2, <2>3, <2>5, Zenon DEF Places
<1>16. Quiet'
  BY <1>1 DEF Quiet
<1>. QED
  BY <1>10, <1>12, <1>13, <1>14, <1>15, <1>16 DEF IInv

(* Close unlocks only for the identifier of the session, so nobody else has *)
(* one; the constructor closes session 0, which no thread has.             *)
LEMMA CloseKept ==
  ASSUME IInv, NEW t \in Threads, Close(t)
  PROVE  IInv'
<1>1. /\ Call(t) = "close" /\ job' = [job EXCEPT ![t] = NoJob]
      /\ up' = TRUE /\ afterSpeed' = (job[t].packet = "speed")
      /\ UNCHANGED <<SessionID, wire, ended, kills>>
  BY DEF Close
<1>2. NoJob \in Jobs /\ Resting(NoJob) /\ NoJob.sid = 0
  BY JobsBegin DEF Resting
<1>3. /\ JobsOK' /\ job'[t] = NoJob /\ \A u \in Threads \ {t} : job'[u] = job[u]
      /\ \A u \in Threads : job'[u].packet \in Packets \cup {"boot", "none"}
      /\ \A u \in Threads : job'[u].n \in 0..(Length("startW") - 1) /\ job'[u].sid \in 0..(Ids - 1)
  BY <1>1, <1>2, TypeOfJobs
<1>4. SessionActive /\ SessionID = job[t].sid /\ (up => mutex = t /\ job[t].sid # 0)
  BY <1>1, SpeakerIs, BooterIs DEF IInv, Places
<1>5. SessionActive' = FALSE /\ mutex' = Free
  BY <1>4 DEF Close
<1>6. TypeOK'
  BY <1>1, <1>3, <1>5 DEF IInv, TypeOK, wire
<1>7. SessionOwned'
  <2>1. \A u \in Threads \ {t} : job[u].sid = 0
    BY <1>4 DEF IInv, SessionOwned, Places, Resting
  <2>. QED
    BY <1>2, <1>3, <2>1 DEF SessionOwned
<1>8. Places'
  <2>1. ASSUME NEW u \in Threads \ {t}
        PROVE  Resting(job'[u]) \/ Beginning(job'[u]) \/ Speaking(job'[u], reg', dev')
    <3>1. CASE up
      BY <1>1, <1>3, <3>1 DEF IInv, Places, wire
    <3>2. CASE ~up
      BY <1>1, <1>3, <3>2, BooterIs DEF IInv, Places
    <3>. QED
      BY <3>1, <3>2
  <2>. QED
    BY <1>1, <1>2, <1>3, <2>1 DEF Places
<1>9. Quiet'
  <2>1. CASE up
    <3>1. PICK p \in Packets : \E i \in 2..Len(Calls(p)) :
            At(job[t], p, i) /\ Spoken(p, "close", job[t].n, reg, dev)
      BY <1>1, <2>1, SpeakerIs
    <3>2. job[t].packet = p /\ (p # "speed" => dev.mode = "idle" /\ reg = High(1))
      BY <3>1 DEF At, Spoken
    <3>. QED
      BY <1>1, <1>4, <2>1, <3>2 DEF Quiet, Fresh, wire
  <2>2. CASE ~up
    <3>1. BootSpoken("close", job[t].n, reg, dev) /\ SessionID = 0
      BY <1>1, <2>2, BooterIs DEF IInv, Places
    <3>. QED
      BY <1>1, <3>1 DEF Quiet, BootSpoken, Cleared, Fresh, wire
  <2>. QED
    BY <2>1, <2>2
<1>. QED
  BY <1>1, <1>3, <1>6, <1>7, <1>8, <1>9 DEF IInv, wire

(* The jobs a process starts with                                          *)
LEMMA BootJobs ==
  ASSUME NEW jobs, jobs = [t \in Threads |-> IF t = Main THEN Job("boot") ELSE NoJob]
  PROVE  /\ jobs \in [Threads -> Jobs]
         /\ \A t \in Threads : jobs[t].sid = 0 /\ jobs[t].n = 0 /\ jobs[t].packet \in {"boot", "none"}
         /\ \A t \in Threads \ {Main} : Resting(jobs[t])
         /\ At(jobs[Main], "boot", 1) /\ jobs[Main].sid = 0 /\ jobs[Main].n = 0
<1>1. /\ NoJob \in Jobs /\ Resting(NoJob) /\ NoJob.n = 0 /\ NoJob.packet = "none" /\ NoJob.sid = 0
      /\ Job("boot") \in Jobs /\ At(Job("boot"), "boot", 1) /\ Job("boot").sid = 0 /\ Job("boot").n = 0
      /\ Job("boot").packet = "boot"
  BY JobsBegin DEF Resting, At
<1>2. Main \in Threads
  BY BusAssumption
<1>. QED
  BY <1>1, <1>2

(* The bound that TypeOK gives                                             *)
LEMMA LengthOfStart == 0 \in 0..(Length("startW") - 1)
BY LengthIs DEF Starts

(* The state the first process starts in                                   *)
LEMMA InitOK == Init => IInv
<1>. SUFFICES ASSUME Init PROVE IInv
  OBVIOUS
<1>. USE DEF Init
<1>1. 0 \in 0..(Ids - 1) /\ 0 \in 0..MaxKills /\ 0 \in Bit /\ 1 \in Bit /\ Free \notin Threads
  BY BusAssumption DEF Bit
<1>2. reg \in Wires /\ reg.scl = 0 /\ WireOK(reg, dev)
  BY <1>1, LevelsAre, RestingOK
<1>3. /\ JobsOK
      /\ \A t \in Threads : job[t].sid = 0 /\ job[t].n = 0 /\ job[t].packet \in {"boot", "none"}
      /\ \A t \in Threads \ {Main} : Resting(job[t])
      /\ At(job[Main], "boot", 1) /\ job[Main].sid = 0 /\ job[Main].n = 0
  BY BootJobs DEF JobsOK
<1>4. TypeOK
  BY <1>1, <1>2, <1>3, LengthOfStart DEF TypeOK, WireOK, Wires, Devices
<1>5. SessionOwned
  BY <1>3 DEF SessionOwned
<1>6. Places
  <2>1. dev.mode \in {"idle", "send"} /\ Calls("boot")[1] = "release"
    BY RestingIs, BootOrder
  <2>2. Within("release", 0) /\ BootSpoken("release", 0, reg, dev)
    BY <2>1, LengthIs DEF Within, BootSpoken
  <2>. QED
    BY <1>3, <2>1, <2>2 DEF Places, Booting
<1>7. Quiet
  BY DEF Quiet
<1>. QED
  BY <1>2, <1>3, <1>4, <1>5, <1>6, <1>7 DEF IInv

(* A process ends, wherever it is, and the next one finds the wires as it  *)
(* leaves them.                                                            *)
LEMMA RestartKept ==
  ASSUME IInv, Restart, kills' \in 0..MaxKills
  PROVE  IInv'
<1>1. /\ mutex' = Free /\ SessionActive' = TRUE /\ SessionID' = 0 /\ up' = FALSE
      /\ ended' = dev.mode
      /\ job' = [t \in Threads |-> IF t = Main THEN Job("boot") ELSE NoJob]
      /\ reg' = reg /\ dev' = dev /\ afterSpeed' = afterSpeed
  BY DEF Restart, wire
<1>2. 0 \in 0..(Ids - 1)
  BY BusAssumption
<1>3. /\ job' \in [Threads -> Jobs]
      /\ \A t \in Threads : job'[t].sid = 0 /\ job'[t].n = 0 /\ job'[t].packet \in {"boot", "none"}
      /\ \A t \in Threads \ {Main} : Resting(job'[t])
      /\ At(job'[Main], "boot", 1) /\ job'[Main].sid = 0 /\ job'[Main].n = 0
  BY <1>1, BootJobs
<1>4. TypeOK'
  BY <1>1, <1>2, <1>3, LengthOfStart DEF IInv, TypeOK
<1>5. SessionOwned'
  BY <1>3 DEF SessionOwned
<1>6. Places'
  <2>1. Calls("boot")[1] = "release" /\ Within("release", 0)
    BY BootOrder, LengthIs DEF Within
  <2>2. dev.mode \in {"idle", "addr", "recv", "send"}
    BY DEF IInv, WireOK, Devices
  <2>3. BootSpoken("release", 0, reg, dev)'
    BY <1>1, <2>2 DEF BootSpoken, Cleared
  <2>4. Booting(job[Main], reg, dev)'
    BY <1>3, <2>1, <2>3 DEF Booting
  <2>5. ~up' /\ SessionActive' /\ SessionID' = 0
    BY <1>1
  <2>. QED
    BY <1>3, <2>4, <2>5, Zenon DEF Places
<1>7. Quiet'
  BY <1>1 DEF Quiet
<1>8. JobsOK' /\ WireOK(reg, dev)'
  BY <1>1, <1>3 DEF IInv, JobsOK
<1>. QED
  BY <1>4, <1>5, <1>6, <1>7, <1>8 DEF IInv

(* Every step keeps the invariant.                                         *)
LEMMA StepKept == IInv /\ [Next]_vars => IInv'
<1>. SUFFICES ASSUME IInv, [Next]_vars PROVE IInv'
  OBVIOUS
<1>1. ASSUME UNCHANGED vars PROVE IInv'
  <2>1. /\ mutex' = mutex /\ SessionActive' = SessionActive /\ SessionID' = SessionID
        /\ up' = up /\ job' = job /\ reg' = reg /\ dev' = dev
        /\ ended' = ended /\ kills' = kills /\ afterSpeed' = afterSpeed
    BY <1>1 DEF vars, session, wire, history
  <2>2. TypeOK' /\ JobsOK' /\ SessionOwned' /\ WireOK(reg, dev)'
    BY <2>1 DEF IInv, TypeOK, JobsOK, SessionOwned
  <2>3. Cleared' = Cleared /\ Fresh' = Fresh
    BY <2>1 DEF Cleared, Fresh
  <2>4. Booting(job[Main], reg, dev)' = Booting(job[Main], reg, dev)
    BY <2>1, <2>3, Zenon DEF Booting, BootSpoken
  <2>5. Places'
    BY <2>1, <2>4 DEF IInv, Places
  <2>6. Quiet'
    BY <2>1, <2>3 DEF IInv, Quiet
  <2>. QED
    BY <2>2, <2>5, <2>6 DEF IInv
<1>2. ASSUME NEW t \in Threads, Step(t) PROVE IInv'
  <2>1. CASE Wait(t)
    BY <1>1, <2>1 DEF Wait
  <2>. QED
    BY <1>2, <2>1, OpenKept, SpeakerDrives, BooterDrives, CloseKept DEF Step
<1>3. ASSUME NEW t \in Threads, NEW p \in Used, Begin(t, p) PROVE IInv'
  BY <1>3, BeginKept
<1>4. CASE Kill \/ Exit
  <2>1. kills' \in 0..MaxKills
    BY <1>4, BusAssumption DEF Kill, Exit, IInv, TypeOK
  <2>. QED
    BY <1>4, <2>1, RestartKept DEF Kill, Exit
<1>. QED
  BY <1>1, <1>2, <1>3, <1>4 DEF Next

(* The invariant holds in every reachable state.                           *)
LEMMA Invariant == Spec => []IInv
BY InitOK, StepKept, PTL DEF Spec

(* Every variable keeps its type, the count of the device and of the writes *)
(* of a call included.                                                     *)
THEOREM BusTypeOK == Spec => []TypeOK
<1>1. IInv => TypeOK
  BY DEF IInv
<1>. QED
  BY <1>1, Invariant, PTL

(* A thread that has a session has the mutex and the current identifier, in *)
(* every reachable state, restarts included.                               *)
THEOREM SessionsAreOwned == Spec => []SessionOwned
<1>1. IInv => SessionOwned
  BY DEF IInv
<1>. QED
  BY <1>1, Invariant, PTL

(* Master and device agree where a byte begins and who sends it, for every set *)
(* of threads and packets, however threads interleave and processes end.   *)
THEOREM BytesAreAligned == Spec => []Aligned
BY Answers, Invariant, PTL

(* A bus that nobody has open is idle, also after the constructor that follows *)
(* a process killed in the middle of a read.                               *)
THEOREM ClosedBusIsIdle == Spec => []IdleWhenClosed
BY Answers, Invariant, PTL
=============================================================================
