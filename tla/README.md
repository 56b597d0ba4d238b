# Verification of TerkOS

TerkOS is the system software of the Qwerk and VEX Pro robot controllers: an
ARM board running Linux with an FPGA that drives motors, servos, digital
inputs, audio and an I2C bus. This directory holds TLA+ models of the code
TerkOS itself adds, the TLC runs that check them on small instances and the
TLAPS proofs that establish the central invariants for every instance. Paths
below are relative to `src/src/` unless they start with `src/`.

## 1. Inventory

The repository is mostly vendored (`src/oe/` is OpenEmbedded, `redboot` is eCos,
`jsoncpp`, `tinyxml++` and `pstreams` are libraries). TerkOS's own code is:

| Part | State it keeps | Operations | Interacts with |
|---|---|---|---|
| FPGA (`logic/vexpro/*.v`) | interrupt mask, latched edges, PWM and BEMF registers, I2C shift register | register reads and writes, edges | read and written by drivers and, through `/dev/mem`, by `libqwerk` |
| Interrupt driver (`module/qeinterrupt`) | per vector: used, mode, callback, async queue, time stamp; `signal_status`; the FPGA mask | open, release, read, 4 ioctls, register, unregister, enable, disable, the handler | SIGIO to processes, callbacks to modules |
| Motor driver (`module/qemotor`) | per axis: position, PID state, hold, trajectory, timer, two kfifos, flags; PWM registers | open, release, read, write, 26 ioctls, the periodic callback | called back by the interrupt driver |
| Motor library (`libqwerk/qemotoruser`, `qemotorrec`, `qemotortraj`) | open axes, trapezoid state, record and playback buffers, one thread with mutex and condition | moves, velocity moves, record, play, stop, done | ioctls, read, write of the motor driver |
| Digital inputs (`libqwerk/qegpioint`) | a descriptor, a callback and a user pointer per pin | register and unregister callbacks, the SIGIO handler | interrupt driver, FPGA |
| Sonar (`libqwerk/sonar`, `sonarcont`) | time of the trigger, flag, distance and its validity per module; a timer | construct, destroy, fire and wait, callback; fire in turn from SIGALRM | digital inputs |
| Singletons (`libqwerk/singleton.h`) | one System V semaphore per class, an instance pointer and count per process | GetPtr, Release, Requested, Cleanup | other processes |
| I2C (`libqwerk/qei2cbus`, `vexi2cdevice`, `vexi2cencoder`) | bus mutex and session, the register with the two open-drain lines, device address, encoder offset | open, close, start, stop, bytes in and out, relocate, zero | FPGA register, devices on the bus |
| Counters, servos, audio, power, LEDs, analog, LCD, keypad (`libqwerk/*`) | registers and caches | get, set | FPGA |
| Timer (`libqwerk/timer`) | none | usleep, msleep, differences of times | - |
| LCD menu (`lcdmenu`, `libCharacterDisplayMenu`) | menu tree position, per-item running state | key events, item actions, polling | keypad, LCD singleton, configuration |
| Configuration (`libConfigurationManagement`) | JSON files, and the system's files derived from them | get, set, join, revert, apply at boot | web server scripts, menu, boot |
| Image loader (`util/reimage`, and `redboot/packages/redboot/v2_0/src/xyzModem.c`, `load.c`) | on each side of a serial line: block number, retries, what has been stored | send, answer, repeat, cancel, report | console, flash |
| Scripts and web pages (`scripts`, `www`) | - | start-up, JSON helpers | configuration |

### What is hard here

* The control interrupt runs between any two instructions of a process; motor
  ioctls exclude it only by masking one bit of one FPGA register, and masking
  does not nest.
* A blocked `write` and a blocked `read` share a wait queue that is woken only
  past thresholds, and a flush must abort a blocked write.
* The interrupt latch is cleared after service, `signal_status` is updated
  without exclusion, and SIGIO does not queue.
* The trajectory thread waits on a condition without a predicate, reads state
  outside its mutex, and is stopped from other threads.
* Ownership of hardware passes between processes through semaphores that are
  created, initialised, undone at exit and polled for requests.
* Settings are written as several files or several saves, a save truncates
  before it writes, nothing is locked, and power may fail at any step.
* The two sides of an image transfer repeat, time out and toss input on rules of
  their own, over a line that loses and adds characters.
* SIGIO and SIGALRM run library code between any two instructions of a program
  that is inside the same library.
* A process may be killed in the middle of a bit on a bus whose devices live on.

### What makes each part correct

* Interrupt driver: only owned vectors interrupt; nobody's vector is left
  masked; callbacks do not run inside guarded sections; an edge is serviced;
  reports and time stamps belong to the right event and owner.
* Motor driver: a closed or idle axis is off; control starts from clean PID
  state; queues stay within their size; blocked calls return; a trajectory
  ends; stop and flush do what their documentation says.
* Motor library: a command started on an idle axis runs and ends; after Stop
  nothing more is queued; the thread can be joined.
* Singletons: at most one process drives a device; a waiting process gets it.
* Digital inputs and sonar: a callback gets what was registered with it; a fired
  sonar returns the measurement of its own shot, and returns.
* I2C: one thread at a time drives the bus; master and device agree where a byte
  begins; a packet and a constructor leave the bus idle.
* Configuration: what is saved can be loaded, is what was asked for, and the
  system's files agree with it, after crashes too.
* Image loader: what is stored is the file, in order, and a report of success
  says so.

## 2. Plan

Ordered so that the code whose failure is hardest to see is modelled first.

| | Module | Models | State |
|---|---|---|---|
| 1 | `QeMotor`, `QeMotorProofs` | one axis of the motor driver | done: 3 runs, 6 theorems |
| 2 | `QeInterrupt` | the interrupt driver and the FPGA controller; its `SetterExcluded` and `HandlerKeepsMask` justify the atomic ioctls of `QeMotor` | done: 3 runs |
| 3 | `Trajectory` | the trajectory thread of `libqwerk` with its lock and condition, recording and playback, against the threads of a program | done: 1 run |
| 4 | `Singleton`, `Mutex`, `SingletonProofs` | ownership of hardware between processes, and the abstract mutex it promises | done: 1 run, 6 theorems |
| 5 | `QeInterruptProofs` | every safety property of 2, for every set of vectors and processes | done: 8 theorems |
| 6 | `TrajectoryProofs` | `TypeOK`, `ServoOnlyForPlay`, `OneWaypointAfterStop` for every set of axes and clients | done: 3 theorems |
| 7 | `GpioInt`, `Sonar`, `SonarProofs` | `QeInterrupt` as one process sees it, the callbacks of `libqwerk/qegpioint` under SIGIO, and sonars on top of them under SIGALRM | done: 1 run, 2 theorems |
| 8 | `I2cBus`, `I2cBusProofs` | sessions and packets on the bus, bit by bit, against a device | done: 1 run, 4 theorems |
| 9 | `WirelessConfig`, `WirelessConfigProofs` | the configuration files, the programs that change them, losses of power and the boot | done: 1 run, 4 theorems |
| 10 | `Ymodem`, `YmodemProofs` | the transfer of an image to the boot loader, both sides and the line | done: 1 run, 2 theorems |
| 11 | `Menu` | the LCD pointer that the threads of the menu share through `Requested` and `Release`, on top of `Singleton` | not done |
| 12 | `Relocation` | which device of a chain has which address while `Scan` hands them out | not done |
| 13 | `Trapezoid`, `FrequencySearch`, `Encoders` | the arithmetic, as functions against reference definitions | not done |

Abstract specifications: `Mutex` for `Singleton`. The others are promises over
histories: the beginning of the file for `Ymodem`, the settings last asked for in
`WirelessConfig`, a measurement's own shot in `Sonar`. The theorem that remains
worth having is `InOrder` of `Ymodem` on a line that also adds characters: it must
bound how far the sender runs ahead of the block it was answered for, and exclude
the files for which it is false (section 5).

## 3. The models

Common to all: one action per operation of the source; what happens with
interrupts or a lock held, or without a point at which another actor can come
in, is one step, and everything else is cut at those points. Data is reduced to
what a property tells apart. A definition named `Faulty...` belongs to no
specification (section 7).

The kernel of the board is built for one processor and without preemption
(`CONFIG_PREEMPT` is not set,
`src/oe/openembedded/recipes/linux/linux-2.6.29/qwerk/defconfig`). A system call
therefore runs alone until it sleeps or returns, and only the interrupt comes
in between. User processes and threads interleave anywhere.

### 3.1 `QeMotor`

One axis of `module/qemotor/motor.c`, and the system calls of `main.c`.

| Model | Code |
|---|---|
| `dev` | `qe_motor_data.used`, and how far `open` or `release` has got |
| `wq`, `rlen`, `wsize`, `rsize` | the two kfifos (the positions read back have no value here) and their configured sizes, in words |
| `hold`, `trajectory`, `timer`, `desired`, `pidState`, `pwm` | the fields of `mot_axis_data`; `pidState` tells whether the error history may be nonzero |
| `reg` | the PWM control register |
| `flushed`, `pc`, `left`, `chunk` | `flushed_write`, and the calls in progress with their `lcount` and `tcount` |
| `Tick` | `mot_periodic` for the axis: `mot_handle_write`, `mot_handle_read`, `mot_handle_pid_control` |
| `Write`, `AxisWrite`, `ResumeWrite`, `SignalWriter` | `qe_motor_write` and `mot_axis_write` up to, at and after the wait; the same for `Read` ... |
| `SetPwm` ... `SetReadQueueSize` | the ioctls that change state |
| `Open`, `AxisInit`, `ReleaseHold`, `ReleaseStop`, `ReleaseQueues` | `open` (which may sleep to allocate) and the three steps of `mot_axis_exit`, between which the interrupt may come |

The PID law is any value of `PidOut`. An ioctl that changes what the control loop
reads in more than one place runs with its vector disabled and is one step; that
this excludes the callback is not assumed but is `SetterExcluded` of
`QeInterrupt`. Three ioctls leave the vector enabled: the two queue sizes
(`motor.c:636-648`), which are one assignment, and the flush (`motor.c:623`). An
interrupt between the statements of a flush finds the queue empty, does not read
the flag, and wakes nobody who could run before the flush has woken everybody:
it ends as if it had come after the flush.

Preconditions: programs do not set a queue size of zero (the loop that tosses old
positions would not end), and raise a size only while no call is in progress,
because the buffer that `qe_motor_write` declares has the size in force when the
call began.

### 3.2 `QeInterrupt`

`module/qeinterrupt/qeinterrupt.c` on `logic/vexpro/interruptcont.v`: sets of
vectors for the latches, the mask, `signal_status` and the fields of
`qe_interrupt_data`; the handler (`HandlerEnter`, `ReadStatus`, `Service`,
`Clear`), which runs to its end between two steps of a system call; `Edge` at any
time; the system calls of a process on its device, cut at every access to a
register or to a variable that the handler writes; and, as the module that uses
the exported functions, the motor driver's registration and the guard around its
ioctls (`Register` ... `Unguard`). A vector may be claimed by a process or by a
module, whoever comes first, and pass from one to the other. The paths that fail
with `-EBUSY` change nothing and are the guards of `OpenCheck` and `Register`.

A getter copies its result to user memory while its vector is disabled; the copy
may fault and sleep (`Fault`, `FaultIn`), and then other system calls run.

### 3.3 `Trajectory`

`CQEMotorTraj` and `CQEMotorRec`: `TrajThread` step by step (`While`, `Wait`,
`ReadPosition`, `Generate`, `TestBits`, `Put`, `Unblock`), every public method as
an action of a client thread, a lossy `Signal`, `Spurious` returns from the wait,
and the driver reduced to a queue length, a trajectory flag and a flush flag per
axis. What runs under `m_mutex` is one step; what the code does without it (the
tests of `m_threadRun` and of the bits in `WriteTrajectory`) is cut into steps.
`UpdatePosition` and `ReadPosition` are a single step without a condition, because
positions have no value here. The trapezoid is reduced to when a move
may end: at any step after its first. `waypoint` tells whether the waypoint of
an axis has been generated for its current command.

### 3.4 `Singleton` and `Mutex`

`TSingleton<T>` for one registered class: the System V semaphore with its value,
its queue of sleepers and its undo values; and per process `m_pInstance`,
`m_id`, `m_refCount` and where it is. Linux hands the unit of a posted semaphore
directly to the first sleeper (`Settle`), `SETVAL` clears the undo values of all
processes, and the end of a process applies its undo value and clamps the result
at zero. A process may be killed at any step. `Mutex` is the abstract
specification: processes wait, one at a time owns, and whoever owns or waits may
leave at any time.

Classes without `SINGLETON_REGISTER` (`C9302Hardware`, `CKeypad`,
`CQEQuadEncoder`) have no semaphore and are shared on purpose. `CQEMotorUser` and
`CQEMotorTraj` are different singletons for the same motors: what keeps their
users apart is `open` of the device, which `QeMotor` models.

### 3.5 `GpioInt` and `Sonar`

`GpioInt` is `CQEGpioInt` in a process with one thread. `RegisterCallback` and
`UnregisterCallback` are cut at every assignment and system call (`OpenDevice`,
`SetAsync`, `ResetStatus`, `SetCallback`, `SetPointer` ...), because SIGIO may be
delivered between them; `SigHandler` is cut where an edge can come in. The driver
is reduced to what `QeInterrupt` shows of it to a process: an edge on an open pin
sets its bit and its time stamp and raises SIGIO, which does not queue, and a
RESET_STATUS stores a copy of `signal_status` back over an edge that came in
between (`lost`; this is `SignalKept`, which the driver violates).

`Sonar` extends it: the constructor and destructor of `CSonar`, `Fire` with its
pulse and its polling, `Callback` called by the handler, and `Alarm`, the handler
of `CSonarController`, which fires another sonar between any two instructions of
the program. A time stamp is the number of the shot that caused the edge and a
distance the pair it is computed from, so that a property can tell whose echo has
been measured. Every shot has an echo: without one Fire waits for ever, which the
code does not guard against.

### 3.6 `WirelessConfig`

`WirelessNetworkingConfigManager` on `ConfigFile`, with `wpa_supplicant.conf` and
`/etc/network/interfaces`. An operation (`SetJson`, `JoinNetwork`,
`SetWillStartOnBootup`, `RevertToDefault`, `Apply`, `Get`) is the sequence of
steps its code makes (`todo`), and a step is load, truncate, write: the loads and
saves are where other programs and a loss of power come in. The constructor
loads, and reverts a file it cannot parse. After a loss of power the boot runs
`Apply`, which the user's programs may overlap. A file is its settings or `Torn`;
the JSON parser ignores text behind the first document, so the last of two
overlapping writers wins, while the other two files may become torn. `serial` and
`goal` are histories: whether anything has overlapped, and what was asked for.

Assumed: the read-only defaults are intact and agree with each other (those of
the system's files are not in the repository); the disk does not fill up. The
other managers make the same calls with fewer settings.

### 3.7 `I2cBus`

`CQEI2CBus` write by write of its register (`Writes` lists those of each call,
`Drive` makes the next one) in the packets that `vexi2cdevice.cxx` and
`vexi2cencoder.cxx` send, by several threads; `Open` and `Close` with the mutex,
`SessionActive` and an identifier that wraps; the constructor, which clocks one
byte, stops and closes a session nobody opened; and a process that ends in order
or is killed between two writes. The device (`dev`) is external: it follows the
I2C protocol on the open-drain lines and may refuse, answer and send any bit.
Packets have at most two bytes each way: "command" stands for one to three
written bytes, "position" for the four that are read.
`Open(false)` has no caller.

### 3.8 `Ymodem`

Both sides of `reimage`'s transfer to RedBoot. The sender (`ymodem_send_data`,
`ymodem_send_data_blocks`) waits at
one place at a time (`spc`) and reacts to one character (`React`); the receiver is
`xyzModem_stream_open` and `xyzModem_stream_read` around `xyzModem_get_hdr` (`GetBlock`,
`GetBad`, `GetEot`, `GetCan`, `Silent`, `Timeout`), with its flush (`Toss`,
`FlushEnds`) and the loop of `do_load` for raw images. Block numbers are modulo
`Mod`. The line (external) loses or garbles up to `MaxDamage` of what is put on it
and adds up to `MaxStray` characters; the computer of the sender may stall for
longer than the receiver's timeout, which counts as a stray event. Damage that
happens to look like the start of a block is left out; once load has returned, RedBoot's
prompt echoes whatever it likes of what still comes (`Prompt`).

What the model makes visible: every damage in the exchange of the header costs two
of the receiver's retries, so that `Delivered` needs
`2 * (MaxDamage + MaxStray) + 1 < MaxRetries` (20 in the code); a damaged header or
answer to it makes the sender give up at once, because the receiver does not
repeat its request in CRC mode. `InOrder` rests on three things. The tries must
not run out at the repetition of a block already stored, which is then stored again.
The sides must not be `Mod` blocks apart, which stale acknowledgements allow by one
block each. And the file must not end with the block numbered `Mod - 1`: if it does
(255 blocks, or 256 more), a stray character and a lost end of file are enough for the
sender to take a late acknowledgement for that of its EOT and to send the empty
header of the end of the session, whose number is 0; the receiver, which has not
seen the EOT, waits for block 0 and stores it (`MCYmodem_desync`, section 5).

## 4. Runs

Run one with `tlc -workers 2 -config <cfg> <module>`.

| Run | Module, configuration | Bounds | Shows |
|---|---|---|---|
| `motor_safe` | `MCQeMotor`, `_safe` | two writers, sizes 1 to 3 and calls of 1 or 3 words in a fifo of 3, timer 1 | a closed or idle axis is off (`ClosedMotorIsOff`, `OffWithinOneTick`), control starts from clean PID state (`IdlePidIsClean`), no writer is stranded |
| `motor_live` | `_live` | one writer, one reader, sizes 1 to 5 and calls of 1 or 3 words in a fifo of 2, timer 1 | blocked calls return although most ticks withhold their wakeup (`WriteReturns`, `ReadReturns`), but for the cases below; a trajectory nobody feeds ends |
| `motor_flush` | `_flush` | one writer | counterexample: a flush aborts one chunk of a write, the next is queued |
| `interrupt_safe` | `MCQeInterrupt`, `_safe` | two processes; the motor's vector and one that a process or a module may claim | the mask follows ownership, no enabled vector is left masked, the callback never runs inside a setter, the handler leaves the mask as it found it |
| `interrupt_files` | `_files` | one process, two vectors, two time stamps | time stamps are read whole, reports belong to the current open, edges stay latched until serviced, and are serviced while the other vector storms |
| `interrupt_edge` | `_edge` | one vector | counterexample: an edge between a service and the clearing of the latch is forgotten |
| `traj` | `MCTrajectory`, `_one` | two clients, one axis, a recording of one frame, a queue of two | indices stay in the buffer, at most one waypoint follows a Stop and the axis comes to rest, moves start, playback ends, the destructor joins a thread that is moving |
| `singleton` | `MCSingleton`, `_safe` | three processes, two references each, from a boot on; the first to ask creates the semaphore undisturbed (`CreatesAlone`) | the unit is neither lost nor doubled, one user at a time, and the semaphore implements `Mutex` |
| `sonar` | `MCSonar`, `_fire` | a sonar that the program fires, one of a controller, two shots each | a waiting Fire returns the measurement of its own shot (`OwnEcho`), and does return unless the driver lost a report (`FireReturns`) |
| `config` | `MCWirelessConfig`, `_serial` | one user with two operations of up to two profiles, one loss of power, and the boot | a configuration nobody is writing can be loaded (`QuietJsonLoads`), operations in turn leave exactly what was asked for in all files (`SerialExact`), a torn file is repaired (`JsonRecovers`) |
| `i2c` | `MCI2cBus`, `_bits` | two threads, all five packets, four identifiers, one killed process | a session belongs to the thread that has the mutex, master and device agree on every byte, a closed bus is idle, also after a restart, and sessions end |
| `ymodem` | `MCYmodem`, `_transfer` | a file of 5 blocks, numbers modulo 4, two damages, two stray events, 12 retries | what is stored is the beginning of the file (`InOrder`); load returns, and without stray events with the whole file, unless the sender gave up at the header (`Delivered`) |

**Why the bounds are enough.** Sizes 1, 2 and 3 in a fifo of 3 give each side of
every comparison in the driver: the one-word size that the half-full test never
wakes, a call that fits and one that is cut into chunks, a queue longer than a
lowered size, and a full fifo. `motor_live` has every size from one word to one
above twice the fifo, which has two: with a read size of 1 or 2 every tick would
pass the threshold of `motor.c:229`; at 3 and 4 only the full fifo does, so that
wakeups are withheld while positions are read as they come, and a read may ask for
more than the fifo holds; at 5 nothing does. Two writers give every order in which
one flag and one wait queue can be shared; a third would only repeat the part of
one of them. A timer bound of 1 has values below, at and (if the test were wrong) above
the limit. In the interrupt driver two vectors are needed for saved copies that
contain somebody else's bits and for a storm on one; two processes for a change
of owner and for an ioctl during another's page fault. In `Trajectory` two
clients give every race between methods (Destroy excludes the others); frames
and queue lengths only delay. Three processes are needed for the semaphore: two
asleep and one that ends.

Two sonars are what it takes for an alarm to come between the instructions of a
Fire, and two shots for an echo to be mistaken for a later one's. In the
configuration, two profiles tell orders and priorities apart, and two operations
with one loss of power give every place where the second finds what the first left
torn; for two users at once the safety properties are proved. Four session
identifiers make the counter wrap several times; two threads give every hand-over
of the bus, and the longest packet has every kind of byte. In the transfer five
blocks make numbers modulo 4 come round, so that a block could be taken for the
one four before it; two damages hit a block and the answer to its repetition.

**Threads the motor driver strands.** `WriteReturns` and `ReadReturns` name the
cases in which the code loses a thread, and each is needed: without it TLC finds,
in the configuration of `motor_live`, a behaviour in which the thread sleeps for
ever.
  * `wsize = 1`: with a write queue of one word `mot_handle_write` wakes nobody
    (`motor.c:193`). The writer sleeps on an empty queue unless the read side of
    the axis happens to pass its own threshold, which it does not when each
    position is read as it comes and the read size is 3 words or more, nor ever
    when the read size is above twice the fifo.
  * `rsize > 2 * Cap`: `mot_set_read_queue_size` accepts any size, and half of
    this one is more than the fifo holds (`motor.c:229`): a reader of one word is
    not woken by it though the fifo is full of positions.
  * `chunk[w] > wsize`: the size was lowered below the chunk a writer waits with.
  * `chunk[r] > Smaller(rsize, Cap)`: the same for a reader, or a read chunk
    larger than the fifo, which a read size above the fifo allows.

The proofs of section 6 remove the bounds for every safety property of the runs
but one: `InOrder` is proved for all files and all amounts of damage only as long
as the line adds nothing, and stays within the bounds of `ymodem` otherwise.

**Fairness.** `QeMotor`: the FPGA interrupts for ever (it is a free-running
timer) and a runnable thread is scheduled; nobody has to call, and no signal has
to come. Liveness is stated for one writer and one reader: of two, one may take the room
or the data each time before the other wakes, and the code does not prevent it. `QeInterrupt`:
the processor takes a raised interrupt and runs the handler. `Trajectory`:
runnable threads are scheduled, the control interrupt recurs, and the driver
ends a trajectory that is not fed, which is `TrajectoryEnds` of `QeMotor`. No
client has to call, and no wait has to return spuriously. `Singleton` has no
liveness property: `semtimedop` gives up, and nothing obliges an owner to
release. `Sonar`: the program, once it is inside a call, and the handlers of
pending signals are scheduled, and an echo comes back; nobody has to fire.
`WirelessConfig`: a program that has begun an operation is scheduled to its end;
no one has to begin one, and power need not fail. `I2cBus`: a thread that is
driving the bus or closing a session is scheduled; nobody has to begin a packet.
`Ymodem`: both computers run, and a stall ends; the line owes nothing but that what
is put on it and not lost arrives.

`CHECK_DEADLOCK` is off for `WirelessConfig` only, where operations and losses of
power are counted and the system stops when they are used up. Elsewhere the
hardware can always take a step, and processes start anew.

## 5. Where the code and its documentation disagree

Two disagreements are runs that end in a counterexample (`motor_flush`,
`interrupt_edge`). The following were found the same way; their configurations
are kept, and each is a single command away:

| Configuration | Property | What TLC shows |
|---|---|---|
| `MCQeMotor_setpwm` | `PwmCommandKept` | Hold(false) and Stop leave the controller's `pwm` field; the next control interrupt zeroes a `SetPWM` that followed (`motor.c:170`, against `qemotoruser.h:91`) |
| `MCQeMotor_stop` | `StopsAtCurrentPosition` | Stop on a held axis leaves `desired_position`: the axis is held at the last waypoint, not where it was (`motor.c:534`, against `qemotoruser.h:137`) |
| `MCQeInterrupt_signal` | `SignalKept` | open and `QEINT_IOC_RESET_STATUS` write `signal_status` back over a bit the handler set for another vector (`qeinterrupt.c:363`, `458`) |
| `MCTrajectory_velocity` | `VelocityStarts` | the thread's condition knows moves only: the signal of a velocity move that comes before the wait is lost (`qemotortraj.cxx:30`, against `qemotortraj.h:103`) |
| `MCTrajectory_destroy` | `DestructorReturns` | the destructor's signal falls between the test of `m_threadRun` and the wait: the join never ends (`qemotortraj.cxx:26`) |
| `MCTrajectory_stop` | `StopEndsMove` | a waypoint whose bits were tested before Stop is queued after it (`qemotortraj.cxx:345`) |
| `MCTrajectory_done` | `DoneAfterLastWaypoint` | Done answers true while waypoints of a short move are still queued (`qemotortraj.cxx:142`) |
| `MCTrajectory_done` | `WaypointGenerated` | during a recording the writer still queues waypoints nobody generated (`qemotortraj.cxx:342`) |
| `MCSingleton_race` | `OneUser` | two processes that find no semaphore both create it, the second sets it again after the first has taken it, and both use the device (`singleton.h:112`, against `singleton.h:139`) |
| `MCSingleton_delete` | `OneInstance` | `Cleanup` posts the semaphore before it deletes: a destructor runs while another process constructs (`singleton.h:206`) |
| `MCSingleton_crash` | `CreatedUsable` | a process killed between `semget` and `SETVAL` leaves a semaphore nobody can take (`singleton.h:112`) |
| `MCSonar_pointer` | `CallbackGetsItsPointer` | SIGIO between the assignments of the callback and of its user pointer: the callback gets the pointer of before (`qegpioint.cxx:199`, against `qegpioint.h:161`) |
| `MCSonar_old` | `OwnEcho` | an echo under way when the sonar is constructed is taken for that of the first shot (`sonar.cxx`, `m_flag` is not tied to a shot) |
| `MCSonar_order` | `FireReturns`, `OwnEcho` | with the echo on a lower port than the trigger the handler calls it first: Fire waits for ever, or returns a distance computed from the trigger of the shot before (`qegpioint.cxx:249`) |
| `MCWirelessConfig_reflect` | `ReflectedInInterfaces` | an interfaces file left empty has no marker line and is written back empty by every boot (`EtcNetworkInterfacesConf.cpp:26`, against `ConfigFile.h:61`) |
| `MCWirelessConfig_survive` | `SavedSurvives` | the boot reverts the saved configuration before it sets it again; power lost in between loses it (`WirelessNetworkingConfigManager.cpp:132`) |
| `MCWirelessConfig_reader` | `ReadersChangeNothing` | the constructor of a program that only reads reverts a file another has truncated and is about to write (`ConfigFile.h:44`) |
| `MCI2cBus_clear` | `BusCleared` | after a kill behind seven bits of a written byte, the one byte of the constructor leaves the device in its acknowledgement, and the bus held (against the comment at `qei2cbus.cxx:384`) |
| `MCI2cBus_speed` | `BusFreed` | Speed acknowledges its last byte, the device sends on and may hold the line through Stop; the next Start waits with the mutex taken (`vexi2cencoder.cxx:68`) |
| `MCYmodem_loaded` | `LoadedMeansEof` | a transfer that fails half-way ends like a complete one: load reports "Raw file loaded" (`load.c:716`, against `load.c:117`) |
| `MCYmodem_desync` | `EofMeansComplete` | after a stall or a stray character the sender is a block ahead, and the receiver takes its end of file with blocks missing (`xyzModem.c`, `xyzModem_get_hdr`) |
| `MCYmodem_desync` | `InOrder` | for a file of 255 blocks, or 256 more: the receiver takes the header that ends the session for the next block (`xyzModem.c:408`; 7 blocks with numbers modulo 8 in the configuration) |

## 6. Proofs

`tlapm` checks each of `QeMotorProofs`, `QeInterruptProofs`, `TrajectoryProofs`,
`SingletonProofs`, `SonarProofs`, `WirelessConfigProofs`, `I2cBusProofs` and
`YmodemProofs`. They assume what the modules' ASSUMEs say of the
constants: sizes and calls are positive, the PID law and the arguments are
integers, the threads that write do not also read, axes are numbered 0 to 3 and
vectors 0 to 31; the boot is not a user's program, and a torn file is neither a
configuration nor a list of networks; pins are numbered 0 to 15; the step of the
session identifier is not a multiple of their number; block numbers are sent modulo
more than 2. Sets of processes, clients, programs, sonars and threads need not be
finite. What a theorem assumes beyond that is a hypothesis of its statement
(`Created` of the singletons, `Wired` and `~OldEcho` of `EchoIsOwn`, the tries of
`LossyInOrder`), and a configuration of section 5 shows what happens without it,
or section 3 says so.

Three proved properties are in no run, because TLC would only repeat on a small
instance what is proved for all: `QueueWithinSize` (no write
overfills the queue), `ServoOnlyForPlay` (`m_servo` belongs to playback) and
`CountedUsers` (a process with an instance has references).

**`QeMotorProofs`.** Six theorems: `TypeCorrect`, `ClosedOff`, `PidClean`,
`NotStranded`, `OffPromptly` and `WithinSize`, each for `Spec`.
None of the properties is inductive alone. `ClosedMotorIsOff` needs what each
stage of `mot_axis_exit` has already undone (`ShutIsQuiet`, `ShutIsIdle`): the
interrupt may come between its steps and must find nothing to restart control
with. `OffWithinOneTick` needs to know who wrote the PWM register last
and what that leaves in it (`RegisterFollows`), because the control loop zeroes it
only if its own last command was not zero. `TypeOK` needs that a chunk is no longer than what is left
of its call (`ChunksFit`), or the count would turn negative. These,
`IdlePidIsClean` and `NoStrandedWriter` together are inductive (`Inv`: a queue
that empties wakes every sleeper unless the size is one word, and the size is
raised only while nobody sleeps); one lemma per actor shows
it (`TickInv`, `WriterInv`, `ReaderInv`, `IoctlInv`, `DeviceInv`), and the two
action properties follow from it at the step that could break them.

**`QeInterruptProofs`.** `TypeCorrect`, `UnusedMasked`, `EnabledUnmasked`,
`StampWhole`, `ReportsFresh`, `EdgesLatched`, `MaskKept` and
`SettersExcludeCallback`. The difficulty is that the mask and `signal_status`
are read, changed and written back as a whole, by system calls that the handler
interrupts between the steps. The invariant says of each process which vector it
has made its own (`Ownership`), that at most one is in the kernel awake
(`OneInKernel`), what its saved copies are worth at each step and which steps
have its vector masked (`StepInv`); and of the handler that whatever it is
servicing is enabled (`HandlerInv`). From the last it follows that a module's
callback never finds its vector guarded and that the handler leaves the mask as
it found it, so a copy of the mask stays good while the handler comes and goes,
provided that no other process runs: copies are trusted only while their process
holds the kernel. `MaskedUnlessUsed`, `NotLeftMasked`, `NoStaleReport` and
`EdgesKept` are parts of the invariant; the rest follows from it.

**`TrajectoryProofs`.** `TypeCorrect`, `ServoIsPlayback` and `StopHolds`.
`OneWaypointAfterStop` is not inductive: one must know where a waypoint may
still come from. `Pending(a)` says that the thread has passed its last test of
the axis's bits or will find `m_servo` set when it gets there; `StoppedInv`, that
a stopped axis has no command, that playback is never stopped this way, and that
the one waypoint has not been queued while it is pending. No method makes an
axis pending (`SignalKeeps`), the thread leaves an axis behind once it has
written it (`NextAxisKeeps`), and a new round of writes begins with `m_servo` set
only if nothing is stopped (`RecordUpdateKeeps`): it may still be set in
`transition_record`, after a Record that cut into playback, but the step that
starts the recording clears it before it writes.

**`SingletonProofs`.** `TypeCorrect`, `Conservation`, `UsersOwn`, `SingleUser`,
`UsersCounted` and `Refinement`. All of them assume `Created`: the
semaphore has been initialised, which is true from the first use of a class
after a boot on, unless its creation was raced or cut off (`MCSingleton_race`,
`MCSingleton_crash`).
`SemaphoreConserved` is not inductive: a process posts the semaphore whenever its
`m_id` is set, so one must know that `m_id` is set only in processes that own,
wait, or are about to take it. The invariant is the conjunction of
  * `Conserved(val, undo)`: the value is 0 or 1 and exactly one of "it is 1" and
    "one process has undo value 1" holds;
  * `SleepersWait`: the queue lists each process that waits once, and no other;
  * `NoneStranded`: nobody sleeps while the value is positive;
  * `Initialised`: no process is creating the semaphore;
  * `IdOwns` and `ObjectOwns`: what `m_id` and the place of a process say of its
    undo value.

The lemmas follow the code: `CleanupSettles` and `DieSettles` say what a post and
a death do to value, undo values and queue together, and are used both for the
invariant and for the refinement, whose step lemma `StepImplements` maps every
step to a step of `Mutex` or to a stutter. The direct hand-over of the unit is
what makes this work: release and take of the abstract mutex are one step of the
kernel, so `Mutex` has an action for it.

**`SonarProofs`.** `SonarTypeOK` and `EchoIsOwn`. Neither `m_flag` nor `m_tv0` is
tied to a shot. What ties them is that the handler looks at the pins from the
lowest up and finds, behind a trigger, the echo of the same shot. The invariant
follows a shot of each sonar that no controller fires (`InTurn`). While its Fire
waits (`Shot`), its trigger has been stamped into `m_tv0` or no trigger has been
heard at all (`TriggerSeen`), or its report is still to come to the handler
(`TriggerDue`: at a pin not yet passed, and not lost by the reset of another), and
its echo is still ahead of the driver (`EchoAhead`) or has been measured against
it (`EchoBack`). While none waits (`Rest`), nothing of an earlier shot is left in
the air, the driver or the handler. `Registered` says which callbacks are in
place, `Fires` that the program fires only what it has constructed. `Wired` is how
the repository's program wires them (`test/sonar/sonar.cxx:189`): the trigger at
the lower port, no port shared.

**`WirelessConfigProofs`.** `WirelessTypeOK`, `TornIsRepaired`, `QuietConfigLoads`
and `OperationsAreExact`, for any programs, requests and number of crashes.
`QuietJsonLoads` is not inductive: a file may well be torn while somebody is at
work. The invariant adds that a torn file has a program bound to repair it
(`TornHasRepairer`: one that has truncated it and will write, or the boot, which
has yet to load and then to revert it), and that what a program is about to save
is a configuration (`LoadedInv`). A crash ends every
program and starts the boot, which constructs a manager: that is what makes the
invariant survive it. `SerialExact` speaks only of a system at rest; its invariant
(`SerialInv`) says of every state on the way what is left of the operation and
what files and networks must be for that rest to be right (`Ready`), where a file
that its program has truncated counts as what the program has loaded (`InHand`).
Between the profiles, those already done are in the file if setJson knows them
(`Keeps`) and have networks ranked above those to come (`Ranked`). `Paired` says
that an operation starts without networks left over from another. The model says what
is kept of a list by its members and their order (`IsKnown`) and not by a filter,
which is recursive and out of the prover's reach.

**`I2cBusProofs`.** `BusTypeOK`, `SessionsAreOwned`, `BytesAreAligned` and
`ClosedBusIsIdle`. Sessions: a thread that has one has the mutex, the session is active
and its identifier is the current one (`SessionOwned`); with the types of jobs
(`JobsOK`) this is inductive by itself, and rests on two facts: Open never hands
out 0 (`NextIdIsSession`), and Close compares. The constructor closes
identifier 0, which it has set without locking, and unlocks a mutex that is free;
a thread whose call Close refuses leaves the session of another alone. On top of
this, the invariant says where each thread is in its packet (`Places`) and what
the register and the device are like before the next write of the one thread
that has the session (`Spoken`; `BootSpoken` for the constructor, whose byte finds
the device wherever the killed process left it), and that without a session the
bus is idle (`Quiet`). Writes keep it by lemmas on the three writes of a clock (`SetUp`,
`ClockUp`, `ClockDown`), on the end of a call (`CallAdvances`, `BootAdvances`) and
on the order of the calls in each packet (`CallsOrder`).

**`YmodemProofs`.** `YmodemTypeOK`, and `LossyInOrder`: while `stray` is 0, which
is to say as long as the line adds no character and the sender does not stall,
`InOrder` holds, for every file and modulus, if
`MaxRetries > 2 * MaxDamage`; with equality TLC finds a block stored twice. RedBoot's 20
tries allow for nine losses. `InOrder` is not inductive: a repeated
block is data again when the tries run out. On such a line at most one item or
reply is under way, so that the invariant (`Lockstep`) is a list of states
(`Opening`, `Greeted`, `Invited`, `Ahead`, `Behind`, `Ending`): the sender's wait,
what is on the line, and how its block and the receiver's count compare. In those
where the sender is at a block already stored it bounds the tries that are used
up by twice the damage, less what the way back to a new block will still cost. Once the
sender has given up (`Over`) no block comes, and once the receiver has left its
loop (`Left`) nothing is stored.

**Only model-checked.** Liveness (`WriteReturns`, `ReadReturns`,
`TrajectoryEnds`, `EdgeServiced`, `StopTakesEffect`, `MoveStarts`,
`PlaybackEnds`, `DestructorEndsMove`, `FireReturns`, `JsonRecovers`, `SessionEnds`,
`Delivered`): the prover has no rule for fairness over ENABLED. And `InOrder` on a
line that adds characters: several items are then under way, and the invariant
would have to count them against the lead of the sender and the tries of the
receiver (section 2).

## 7. Seeded faults

To see that a property can fail, each one is also checked against a bug of the
kind this code could have. The definition named `Faulty...`, just before the one
it deviates from, has the same parameters; replacing the body of the original by
it must make TLC report the property: a flag that is not cleared (`FaultyMotStop`
resets the PID before it drops the trajectory), a test that is off by one
(`FaultyExpires`, `FaultyPlayed`), a release that does not mask
(`FaultyReleaseDisable`), latches cleared together (`FaultyClear`), a Stop that
forgets velocity moves (`FaultyStop`), an identifier that survives Cleanup
(`FaultyCleanup`), a bus opened without waiting for the mutex (`FaultyOpen` of
`I2cBus`), and so on. `PROJECT.json` lists which belongs to which run.

## 8. Not modelled

* Arithmetic: the PID law, the trapezoid, unit conversions, the search for a
  control period, the offset calibration, the accumulation of encoder positions.
  The models leave these values open where they matter to control.
* VEX devices: which one answers to which address (`Relocate`, `SetTerminator`,
  `ResetAll`), and `Zero`, which sets the offset to minus the count although
  positions are computed as count minus offset (`vexi2cencoder.cxx:83`).
* Loading of the drivers. Device nodes exist before the axes are allocated
  (`module/qemotor/main.c:211`); each module is loaded once, before the programs that use it
  (as in `test/motor/config:44`).
* Threads of one process inside `TSingleton`: GetPtr and Release have no lock,
  and the only program that calls them from several threads is the LCD menu, whose
  tree of items and screens is not modelled. Nor is a failure of `semget` to create
  the semaphore (`singleton.h:113`): GetPtr then returns NULL and changes nothing.
* A process that takes itself off the list for SIGIO with `F_SETFL`
  (`qe_interrupt_fasync`); it leaves the list when it closes the device.
* What a load that fails leaves in the object it was loading into: `setJson` goes on
  with it (`WirelessNetworkingConfigManager.cpp:211`). That takes a file which
  another program is just writing.
* FPGA timing: PWM, BEMF sampling, audio, servo pulses have no protocol with the
  software beyond registers.
* Encoders, servos, audio, power, LEDs, analog inputs, LCD, keypad and timer: one
  owner reads and writes registers, with the reasons in `PROJECT.json`.
* Vendored code, factory tests, examples, scripts and web pages. Almost all of the
  repository's lines are eCos, RedBoot and OpenEmbedded; of RedBoot only the
  receiver of images is modelled, because TerkOS's tool talks to it.
