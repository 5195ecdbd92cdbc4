# Midnight Sun XVI firmware: verification project

TLA+ models of the firmware of the Midnight Sun XVI solar car, the TLC runs that
check them on small instances, and theorems that TLAPS checks for every value of
their constants. Paths are relative to the repository (`projects/`, `libraries/`,
`can/`).

## 1. Inventory

The car is a set of boards on one CAN bus. Every board runs FreeRTOS (preemptive,
no time slicing: `libraries/ms-freertos/inc/FreeRTOSConfig.h`) with the three
*master tasks* of `libraries/master/src/master_tasks.c`:

| task | period | priority | name in the models |
| --- | --- | --- | --- |
| `master_task_1000hz` | 20 ms | 4 | fast |
| `master_task_10hz` | 300 ms | 3 | medium |
| `master_task_1hz` | 1 s | 2 | slow |
| timer daemon | on demand | 3 | daemon |
| `cell_sense` (rear board) | 5 s | 2 | cell |

A higher priority preempts a lower one between any two of its instructions; a
`delay_ms` lets every other task run. CAN fields are global structures: the fast
task's `run_can_rx_all` writes them, any task reads the last value received.

### Components

| component | state | operations | interacts with |
| --- | --- | --- | --- |
| rear state manager, relays | `s_current_state`, `started`, five output pins, four closed flags | `..._update_state_manager_medium_cycle`, `..._step`, `..._enter_state`, `relays_*` | drive state from the front board; called by the cell task on a fault |
| rear precharge | match counter, `precharge_complete` | `precharge_run` (fast) | read by the state manager; broadcast |
| rear cell sensing, BPS fault | AFE voltages, retries, `bps_fault` | `cell_sense` task, `trigger_bps_fault` | AFE over SPI, state manager, relays, CAN |
| front state manager | `s_current_state`, `s_brake_state`, `current_drive_state` | the medium cycle, `..._step`, `..._enter_state` | pedals (fast), rear and steering over CAN, power manager, lights |
| front pedals and motor command | `brake_state`, accelerator, `control` | `brake_pedal_run`, `accel_pedal_run`, `motor_can_update_target_current_velocity`, `motor_can_transmit_drive_command` (fast) | state published by the state manager; Wavesculptor |
| front lights | two light states, two timers | `process_event`, `set_bps_light`, two timer callbacks | steering's request, power manager, timer daemon |
| front power manager | output pins, measured currents | set, toggle, `power_manager_run_current_sense` | state manager, lights, horn |
| steering drive state manager | state, pending request, regeneration | `request` (fast, button callbacks), `update` (medium) | buttons, faults and precharge over CAN |
| steering buttons, lights, cruise | debounce state, light state, cruise target, the CAN byte | button callbacks, medium cycles, generated setters | front's drive state |
| CAN stack | receive queue, mutexes, watchdog counters | `run_can_tx_*`, `run_can_rx_all`, receive interrupt | every board |
| master tasks | late-cycle counter | `check_late_cycle` | every task |
| persist | flash section log, write and previous address | `persist_init`, `persist_commit` | pedal calibrator, front calibration reader, `bps_fault` |
| FOTA packets, datagrams, ring buffer | byte machine, active datagrams | `packet_manager_process`, the UART interrupt | FOTA update |
| FOTA update | update state, staging and application flash | `fota_dfu_process`, copy, jump | flash, CRC |
| CAN bootloader | state, page buffer, write address | `bootloader_run` per CAN message | flash, CRC |
| telemetry transmit | cache with pending marks, statistics | updater task, scheduler task | UART radio, SD card |
| midFS | superblock, groups, entries | add, write, delete, commit | flash |
| drivers, display, graphics, simulation, generators, small projects | hardware registers, images | I/O | - |

`projects/*/README.md` are empty templates; the documents the properties quote are
the comments of the headers. Vendored code (`HAL`, `CMSIS`, `FATFs`, `FreeRTOS`,
`unity`, `lvgl9`, `core`) and build tooling (`scons`, `doxygen`, `smoke`, `py`)
are not listed as components.

### What is hard here

* **Interleaving with delays.** State-changing handlers contain `delay_ms` (250 ms
  per relay, 40 ms per load switch) and the state they read before may be gone
  after. This is where the disagreements on the rear and front
  boards (section 4) come from.
* **One state machine, two callers.** On the rear board the medium task and the
  cell task both call `rear_controller_state_manager_step`.
* **Stale published state.** Both the motor command and the other boards see a
  copy made once per 300 ms.
* **Failure.** AFE reads fail and retry; CAN messages are lost; flash writes are
  cut by a reset; queues of fixed length drop.
* **Liveness by one thread.** A blink timer is one-shot and restarted by its own
  callback.

* **Distribution.** Three boards decide together whether the motor is connected,
  each on the last frame it has got; no message between them has a watchdog.

`PROJECT.json` lists each hazard at its line with the properties that would catch
it, and the few no property covers, with the reason.

## 2. Modules

| module | models | uses |
| --- | --- | --- |
| `PowerInterlock` | what the rear board promises about motor power, abstractly | - |
| `RearController` | rear state manager, relays, precharge, cell sensing, BPS fault | refined to `PowerInterlock` |
| `DriveSelector` | what the front board promises about the drive state, abstractly | - |
| `FrontController` | front state manager, pedals, motor command, outputs | refined to `DriveSelector` |
| `FrontLights` | turn signals, hazard and BPS light, blink timers | - |
| `Steering` | drive and light requests, regen, horn and cruise buttons, the CAN byte they share | - |
| `Vehicle` | the three boards over a bus that loses frames, with resets | `PowerInterlock` for the rear board |
| `Persist` | the flash log and its clients, with resets | - |
| `FotaLink` | ring buffer, packet state machine and datagram slots of the update link | - |
| `FotaDfu` | the update state machine, erase, staging, copy and jump, with resets | - |

`RearControllerMC`, `FrontControllerMC`, `PersistMC`, `FotaLinkMC` and `FotaDfuMC`
give TLC the constants that a `.cfg` cannot write; `RearControllerProofs`,
`FrontControllerProofs`, `FrontLightsProofs`, `SteeringProofs`, `VehicleProofs`,
`PersistProofs`, `FotaLinkProofs` and `FotaDfuProofs` hold the theorems (section 5).

### 2.1 RearController

State: `s_current_state`, `started` (state manager), `pin` (the five GPIO outputs:
`pos`, `neg`, `solar`, `motor`, `lv`) and `closed` (the flags of
`RearControllerStorage`), `bps_fault` with its CAN field `bps_can` and what was
last transmitted `bps_sent`, `precharge_complete` and `valid_cycles`, the cell
task's storage `afe`, `retries` and `pack_voltage`, and the last `drive_state`
received. `mediumPc`, `cellPc`, `raising`, `resetIdx` say where each task is.

* `FastCycle`: `run_can_rx_all` (any drive state may arrive), `precharge_run`. It
  has the highest priority and is one step.
* `MediumStep`: the medium cycle. `MediumStart` begins the START sequence;
  `BeginClose` raises a pin and goes to sleep; `MediumResume*` sets the closed
  flag after the delay and goes on. The medium cycle preempts the cell task and
  is preempted only by the fast task, which touches none of its data but
  precharge (monotone) and the drive state (read once): between two delays it is
  one step.
* `CellStep`: the cell task, the lowest of the three, statement by statement
  where it shares data: trigger, read, scan, opening solar (pin, then flag), each
  limit check, and a fault's three steps (bit, CAN field, state machine step with
  `relays_reset` pin by pin).

Abstractions. A scan yields `[max, min, pack]`; `Readings` is the set of
batteries. A failed read leaves any reading in storage. `retries` wraps modulo
`RetryModulus` (256 in the code). The CAN field of precharge always equals the
flag and is not a variable. The state after RESET (lines 112-125) is left out:
no caller sends RESET. The 1 Hz body is a comment (`main.c:68-70`).

### 2.2 FrontController

State: `can` (last fault, precharge and drive state received), `brake_state`,
`control` (the motor command), `current_drive_state` (the published copy),
`s_current_state`, `started`, `s_brake_state`, `local` (the medium cycle's local
variables), `target` and `next` (an entry in progress), `pc`, `output` (load
switches, light, horn), `bps_light`.

* `FastCycle`: receives, samples both pedals and recomputes the motor command
  from the *published* state. One step, highest priority.
* `MediumStep`: every read of shared state is a step; `EnterGroup`/`Entered`
  bracket the sleeps of the output groups, and `s_current_state` is assigned after
  them, as in the code. The switches of one group are one step.

`steering`'s drive state is two bits in the CAN message, so CRUISE never arrives
(`can/boards/steering.yaml`). Regeneration strength is
computed from the brake and velocity as integers in percent, and the driver's
range check (`ws22_motor_can_set_current`) refuses what is out of 0..100.
Because the entry of REVERSE tests the current state against DRIVE (line 76), the
model, too, leaves the DRIVE lamp on when going from DRIVE to REVERSE.

`DriveSelector` is the board without its statements, sleeps and outputs: inputs
change at any time, one at a time is read, and a change of state is one step taken
on what was read (`Brake`, `Select`, `Fail`, `Recover`). The mapping (`Selector`)
takes the medium cycle's locals for what was read, and the pedal for taken with the
assignment of the state, one statement before that of `s_brake_state`.

### 2.3 FrontLights

State: the request from steering and the fault (`inputs`), `light` (three lamps),
`active` timers, the daemon's command `queue`, `callback` and `toggle` (a callback
in progress), the two light states, and where the medium task is.

The daemon and the medium task have the same priority, and there is no time
slicing; but whenever the fast task preempts one of them FreeRTOS resumes the
*next* one of that priority, so that any two statements may be separated. The
models interleave them at every access to shared data. When the medium task
wakes, the daemon is idle and its queue is empty. `Expire` may fire at any time
an active timer exists: an over-approximation of its 400 or 200 ms.
`xTimerDelete` of a static timer only stops it. A command posted to a full queue
is dropped, as in `software_timer.c` (block time 0).

### 2.4 Persist

State: the page (`flash`, an array of 32-bit words), the program running and what
it is about to do (`program`, `pc`, `caller`), the client's `blob` in RAM, the
`header` last read, `flash_addr` and `prev_flash_addr` of `PersistStorage`, and how
much of the blob has been `written`. `author`, `latest` and `durable` are history: the
client that erased the page or committed last, its blob, and whether that commit
has returned OK.

* `Boot` starts one of three programs: the pedal calibrator (erases the page,
  initialises with overwriting, commits once), the front controller's reader
  (initialises without overwriting), or a client of the library that commits
  again and again. Any of them may follow any other on the same page,
  which is blank at first or holds a section of an earlier, smaller blob.
* `ScanOn` is a round of the scan that finds no marker; `FoundNone`, `FoundOther`
  and `FoundBlob` are the three ways `persist_init` goes on.
* `Invalidate`, `MakeRoom`, `WriteHeader`, `WriteBlob`, `WriteLast` are
  `persist_commit`, one step per double word programmed or page erased.
* `Reset` at any of these points loses RAM and keeps the flash.
* `Used` is what the reader takes over from the blob: a word of zeros or of all ones
  has equal limits, which get a default; the first word, the opamp offset's, is taken
  as it is (`pedal_calib_reader.c:53-60`).

`CanProgram` is the flash's own rule (a double word is programmed if erased, or to
zeros). An address `flash_write` or `flash_read` finds unaligned is skipped and
reported as success, as in the code; an aligned one the flash refuses is an
error. An erase is atomic. Words that the scan may take for a size are small
enough not to wrap a 32-bit address; for the calibrator's pairs of 12-bit readings
this is so, a client that stores 0xFFFFFFF8 would make the scan stand still.

### 2.5 Steering

State: `current_state`, `current_request` and the regen state of
`drive_state_manager.c`, the `horn` button, `light_state` and `light_request` of
`light_signal_manager.c`, `cruise_enabled` and the latch `released` of
`cruise_control.c`, the byte `can`, and where the medium task is (`pc`, the request
it is `serving`, the byte `reg` it has loaded).

* `Fast` is one button callback of the 20 ms task. The medium task never preempts
  it, so it is one step, its setter included.
* `Medium` is the 300 ms task. The setters generated from
  `autogen/templates` load the whole byte, replace one field and store it: `Load`
  and `Store` are two steps, and a callback between them is overwritten in every
  bit but the ones it does not write.
* A request is read, served and cleared in separate statements (`ServeDrive` to
  `ClearRequest`): the names `DriveWindow` and `LightWindow` say where one that a
  button leaves is lost.

What the task only reads (rear status, front drive state, cruise buttons, menu,
speed) is any value at each read. `HornEdge` returns early while the menu is open.

### 2.6 Vehicle

State: of each board what the others can see or decide on: `wheel_state` and
`wheel_rx`; `front_state`, the `published` copy, `front_brake`, where its cycle
is, `front_rx` and `front_steer`; `mode`, `ready`, `fault`, `motor` of
`PowerInterlock` and `rear_rx`. `asked`, `resets` and `rear_reset` are history.

* A board's medium cycle is one step, or two on the front board (`FrontBegin`
  copies the state for publication before `FrontEnd` decides the next). Inside a
  board the finer modules apply; the rear board is used through the abstraction
  that `RearController` is shown to implement.
* `...Sends(receivers)` is one transmission: any subset of the receivers takes it.
  The bounded number of transmit attempts (`can_hw.c:232`) and the receive queue
  that drops when full (`can_hw.c:370`) have this effect; frames of one board are
  not reordered.
* `Reset...` puts a board's variables to their power-up values and leaves what the
  others have received. The rear board forgets its fault (`main.c:69` is a
  comment).

Braking with regeneration, which is enabled from power-up, makes the front board
publish REGEN in neutral too, and the rear board takes that for a request to
drive: `asked` includes it, and `NeutralOpensMotor` needs the pedal up. On the
rear board, the cell task's setter of the fault bit can overwrite a precharge bit
that the fast task sets at that moment; only with a fault already recorded, so
that for the other boards nothing depends on it.

### 2.7 FotaLink

State: what is `sent` and has `arrived`; `NetworkBuffer` (`ring`, the two indices,
`num_items`); the main loop inside `num_items--` (`pc`, `loaded`, `byte`); the
packet being put together (`rx`) and the active datagrams (`open`); what was
`delivered`. `accepted`, `taken`, `lost` and `intact` are history.

* `Receive` is the UART interrupt; it comes between any two steps of the main
  loop. `ReadByte`, `LoadCount` and `HandleByte` are the main loop: the decrement
  is a load and a store, and an increment in between is lost.
* `HandleByte` gives the byte to the packet state machine. A refused packet leaves
  the machine where it is, so that it never completes another (`Stuck`).
* A packet is two bytes: one with the fields that no CRC covers, one with payload,
  CRC and EOF. A splice of two packets, a payload damaged on the way, and a false
  SOF are steps of the model.
* `WordsSent` and `WordsChecked` are how many words the sender
  (`fota_packet.c:46-47`) and the receiver (`fota_encryption.c:94-101`) take the
  CRC over: with one byte over they differ.

The sender is the C one; `fota/scripts` speaks another dialect
(variable payload length), which this receiver never completes.

### 2.8 FotaDfu

State: `flash` by double words (what the flash programs at once) from the end of
the bootloader's program on, `fota_dfu_context` (`state`, `expected`, `next_id`,
`written`), the chunk being written or the copy (`pc`, `chunk`, `done`), what the
bootloader has jumped to (`mode`). `resets`, `cut` and `spoiled` are history.

* `Metadata`, `Chunk` and `JumpRequest` are the three datagram types of
  `fota_dfu_process`, any of them at any time; `WriteCell`/`WriteDone` is
  `fota_flash_write` of a chunk, `CopyCell`/`CopyDone` is
  `fota_dfu_copy_staging_to_app`, `TimeOut` the 15 s of `main.c:24`, looked at between
  two datagrams.
* **What is erased.** `fota_dfu.c:155` passes `fota_flash_erase` the number of
  staging's first page as `fota_flash.h:42` counts it, from the application's
  region on: 36. `arm/fota_flash.c:70` takes it for a page of the bank, at
  0x08012000: `Metadata` erases from there on, first the rest of the bootloader's
  region, and with the 13th page the beginning of the application. The staging
  region (page 84) is erased only by an image of more than 48 pages. `num_pages`
  is a `uint8_t` (`EraseWrap`); an erase that does not fit is refused.
* `spoiled` is set once an erase has taken some of an application, or once an image
  passes whose CRC is never computed. `OneImage` and `WholeUnlessCut` say nothing
  from then on: the application may then be two images, and be entered so at the
  timeout or a request to jump (section 4). `UpdateEntersWhole` and `SessionEnds`
  have no such exception.
* **What the flash layer skips.** A write whose address or length is not a multiple
  of four, or that is out of the flash, is not done and reported as done (`Accepts`,
  `Received`, `Copied`). One at an address that is not a multiple of eight fails: after
  a chunk whose length is not one, the session cannot go on. For a size that is not
  a multiple of four the CRC is 0 (`Verified`), and the last check refuses the jump
  (`NotBlank`).
* An image that reaches past the end of the flash has its CRC computed over what
  lies there: a fault (`Finish`).
* The staging region begins before the application's ends (72 KB into its 80 KB),
  and the flash goes on behind it with the file system's storage: a cell is the same
  flash for all of them.
* `Reset` comes between any two flash operations and may leave the cell in
  progress half programmed. Flash programs only what is erased (in truth zeros may
  be programmed over anything; an image's words are taken not to be all zeros);
  the emulated flash of the x86 build does not have this rule, which is why the
  repository's tests see updates succeed that the board refuses.

Erasing is atomic: a partial one leaves what an announcement of fewer pages and a
reset leave, or half erased cells, which are not distinguished from half
programmed ones and not modelled. The bootloader's program is taken to be smaller
than the 40 KB below the first page erased (`DfuAssumption`); what of the region
behind it is erased changes nothing that runs. The CRC is taken to tell images
apart. Over the link of this revision no METADATA arrives (`packet_manager.c:81`
makes every datagram a FIRMWARE_CHUNK): the module drives the state machine by its
interface.

## 3. Runs

| run | instance | checks |
| --- | --- | --- |
| `rear` | 3 batteries, 2 bus voltages, 2 front states, retries mod 2 | types; `MotorIsSafe`: the motor contactor needs precharge, the pack and, with its supply, DRIVE; `FaultLatches`: nothing engages after a fault; a fault stops the motor and is broadcast; DRIVE is reached; `PowerInterlock` is implemented |
| `rear_fault_relays` | 3 batteries, 3 bus voltages, 3 front states, retries mod 4 | **violated**: FAULT leaves relays energised |
| `front` | velocities -20 and 5 | types; `BrakeIsObeyed`; a held brake ends torque; a fault is published and recovered from; DRIVE is reached; `DriveSelector` is implemented |
| `front_fault_command` | as `front` | **violated**: the last command survives FAULT |
| `lights` | queue of 10 (the code's) | types; a blinking group's timer is alive; signals and BPS light blink for ever |
| `lights_lamps` | queue of 10 | **violated**: at rest a lamp is lit that no signal asks for |
| `persist_resets` | page of 20 words, two blobs, all three programs | types; the committed calibration is loaded, a pedal's limits are new or default; sections go to erased flash; the scan ends |
| `persist_durable` | two blobs, library client | **violated**: a committed blob is lost |
| `steering` | all buttons, all light commands | types; `BusFollowsWheel`; bits are lost only in a store under way; neutral and hazard requests are served |
| `vehicle` | neutral and DRIVE buttons, one reset of any board | types; no driving state ahead of precharge; no motor unasked; a fault is held; it reaches the front board; the motor ends where the wheel wants it |
| `fota_link` | ring of 2, one slot, 2 datagrams, 4 packets | types; the count is never ahead of the bytes; in-order delivery; the reader catches up; everything arrives |
| `fota_dfu` | 6 images of 16 to 144 bytes, pages of 16 bytes, 2 resets | types; a copy that ends in the application has left the whole image; one image, and whole unless cut, until an erase takes some of one; the bootloader is left |

**Why the bounds are enough.** The rear board distinguishes a battery only by
which limits it violates: the batteries sit at the limits' own values (healthy,
over- with solar threshold, under- with unbalance). Bus voltages are below
the match window and in it. A front state asks for drive or for neutral (in the
violation's run also for neither). The thresholds for retries and valid cycles
are reduced so that counters reach and wrap. On the front board a velocity
matters through its sign and through the standstill threshold. The brake is
released or beyond its deadzone, the accelerator at one reading: nothing but the
command's current depends on how far a pedal is pressed. The timer queue has its
real length, and the model is otherwise finite. The page of `Persist` holds three
sections of the calibration's three words and a remainder: enough for the first,
for one appended to it, for the commit that has no room, and for a scan that runs
over the end. The two blobs share no word, so that a mixture shows; as the scan
may read them, they hold a distance to the end of a section, one past it and one
that is not aligned. An erased word is 255 in place of all ones: its size reads
as -1. `Steering` is finite as it is. In `Vehicle` the reverse button is left out
of the instance (the boards treat REVERSE as DRIVE; the theorems have all
buttons), and one reset meets every state the other boards can be in. The ring
of `FotaLink` wraps and fills with two slots; one datagram slot is enough to run
out of, and four packets are a datagram of two with its header and one packet
that is out of place, or two datagrams of one. In `FotaDfu` pages of two
double words make the erase of a two-page image take the application's first page,
and the images are one of each kind the code tells apart (`FotaDfuMC` lists them):
of one page, of more, into staging, past the flash, beyond `num_pages`, of odd size,
and with chunks that misalign; with two resets every flash content a session can
leave is met by a session for another image and by one more.

**Fairness.** `RearController`: weak fairness of the medium and cell tasks: each
is periodic, sleeps are finite, and the tasks above them use a fraction of a
period. `FrontController`: weak fairness of the medium cycle and of `Refresh`, a
fast cycle whose receptions leave the inputs as they are: the fast task runs
every 20 ms, and a claim about inputs that stay the same must not be voided by
a cycle that always changes one. `FrontLights`: the daemon's steps weakly, the
expiry of a timer strongly (the daemon's list is in order of expiry, neither
timer starves the other), the medium task strongly (it is enabled only when the
daemon gives way, which it does after microseconds of each 200 ms). `Persist`: a
program goes on while the board has power, which it may keep (`Step`); nothing
makes it reset or start. `Steering`: weak fairness of the medium task, which is
periodic and never blocks; buttons are nobody's duty. `Vehicle`: weak fairness of
each board's cycles and of one transmission of each message to all its
receivers: every message is sent every 300 ms again, and a bus that loses all of
them for ever is not claimed about; buttons, pedal, precharge, faults and resets
are free. `FotaLink`: bytes on the line arrive, the main loop runs; nobody has to
send. `FotaDfu`: a write or a copy goes on (weak); the main loop looks at the time
between any two datagrams, whoever keeps sending (strong, as it does not while a
write is under way); nobody has to send.

## 4. Disagreements between code and documents

1. **Relays stay energised in FAULT** (`rear_fault_relays`). A fault during the
   START sequence is overtaken by the sequence. With the AFE absent at boot this
   is to be expected: by the code's delays its zero voltages fault after about
   470 ms, inside the three delays of 250 ms.
2. **A driving command in FAULT** (`front_fault_command`).
3. **Lamps do not follow the state** (`lights_lamps`): the light state is stored
   after the lamps are lowered, with the callback in between; the other side, or
   a lamp of a signal switched off, stays lit.
4. **A committed blob is lost** (`persist_durable`). Invalidating a marker zeroes its
   size too, so the scan does not skip the section as its comment says but walks
   through the old blob's words; read as a header they lead it past the valid
   section, or past the end, and the page is erased. The pedal
   calibration is not affected: the calibrator erases the page first, so the one
   section it ever invalidates holds zeros, through which the scan goes by eights
   (`CalibrationIsLoaded`, which depends on it).

The runs' counterexamples show each step by step; `PROJECT.json` quotes the
documents. What is *not* affected is proved: in every one of the rear board's
cases the motor relay and its supply are off.

Met while modelling, without a run of their own:

* `solar_relay_closed` is set after the closing delay, over a relay that the cell
  task has opened meanwhile (`relays.c:150`); the other flags likewise.
* Toggling cruise control returns before its CAN setter (`cruise_control.c:174`),
  so that the bit is never set: `CruiseStaysOffTheBus` states what follows.
* `fota_packet.c:46-47` pads with `length % 4` bytes where `4 - length % 4` are
  meant. With one byte over, the CRC covers a word less than is checked, and the
  packet is refused; `Orderly` excepts such packets, and `EverythingArrives` fails
  without the exception.
* After a refused packet the receiver takes no other until it is reset
  (`packet_manager.c:66`).
* An update erases the wrong pages (`fota_dfu.c:155`). `fota_flash.h:38` calls
  `FOTA_ADDR_TO_PAGE` "Convert memory address to page number", and does, counting
  from the application's region; the erase takes pages of the bank. An image of up to 12
  pages (24 KB) erases nothing that is in use, and the first update over an
  installed application stops at its first page: nothing ever erases that. A longer
  one erases the application's beginning, and the copy replaces just that much and
  stops: the rest is the old image's. At the timeout or a request to jump the
  bootloader enters the mixture; had the session been broken off before the copy,
  the first page is blank and the jump a fault. Staging is not erased (but by 49
  pages or more): a second session's chunks meet the first one's and fail.
* `FotaDfu` has two exceptions for this, in `OneImage` and `WholeUnlessCut`, and both fail
  without it. `DfuSmallImages` says that images of whole words and up to 12 pages
  never need it.
* The staging region lies over the last 8 KB of the application's, and its own
  last 8 KB over the file system's storage; nothing compares `binary_size` with
  either (`fota_dfu.c:51`), nor with the end of the flash.
* A chunk whose length is no multiple of four is reported as written and is not
  (`arm/fota_flash.c:45-62`); one of four bytes more than a multiple of eight makes
  every later one fail.
* The CRC of a size that is no multiple of four is 0 (`fota_encryption.c:59-61`): such
  an image, announced with 0, is copied over a blank application unchecked, but for
  its last page, and is not jumped to until the timeout.
* The opamp offset has no default after all: `pedal_calib_reader.c:54` sets one for a
  word with equal limits, and without an `else` 56-60 overwrite it with that word. After a
  calibration cut short the offset is 0 or 0xFFFF, and `accel_pedal.c:113` hands it to
  the DAC. `PedalsAreWhole` excepts it; all other limits get their defaults.
* A current outside 0..1 is refused and the old one kept (`ws22_motor_can.c:147`): a
  pedal let go while REGEN is still published makes the strength negative, and what
  was last set, perhaps the accelerator's, goes out with the regenerating velocity.
* `fota_timeout.h` speaks of a time without requests; the code measures the time
  since start-up.

## 5. Proofs

`tlapm` checks eight modules from nothing. They assume only the named ASSUMEs on
the constants (`ReadingsAssumption`, `LimitsAssumption`, `FrontAssumption`,
`TimerQueueAssumption`, `SteeringAssumption`, `VehicleAssumption`,
`PersistAssumption`, `LinkAssumption`, `DfuAssumption`), which TLC evaluates on the
instances.

**Rear** (`RearControllerProofs`): `TypeCorrect`, `MotorAlwaysSafe` (from `NoInrush`,
`PoweredExactlyInDrive`, `MotorBehindPack`, `FaultIsSafe`), `FaultAlwaysLatches` (from
`NoEngage`, `FaultStaysDown`), `RefinesInterlock`, and with scheduling (below)
`RearFaultStops`, `RearBroadcasts`, `RearDriveReached`, `RearImplementsInterlock`.
The properties are not inductive alone: what makes them so is *where each task
is*. The strengthening `IndInv` adds four facts: the FAULT path runs only with a
recorded fault (`FaultPath`); a closing delay in flight belongs to the state that
began it, or to a FAULT that overtook it (`ClosingDelay`); outside FAULT the pack's
contactors are closed in order and stay so (`PackConnected`); and a FAULT entry
has dropped the pins its index has passed (`ResetProgress`). Each is preserved by
one step per action. `RefinesInterlock` then maps every action to
an action of `PowerInterlock` or a stutter, and `RearImplementsInterlock` adds its
fairness: `Latch` and `Cut` do not stay enabled, as a fault ends in FAULT with the
motor cut. The broadcast needs one more invariant (`FieldTrails`): the CAN field
shows the mask but for the fault whose bit has just been set.

**Front** (`FrontControllerProofs`): `TypeCorrect`, `BrakeAlwaysObeyed` (from
`BrakeAlwaysHolds`, `BrakeAlwaysPublished`), `DriveAlwaysPrecharged`, which no run
repeats; `RefinesSelector`; and with scheduling `FrontFollowsFault`,
`FrontBrakeStops`, `FrontDriveReached`. The strengthening ties the entry
under way to the branch that began it: a first entry is to the initial state, an
entry from the brake branch is to BRAKE or REGEN, one from the choice requires
that the brake is not noted, and a state published while the brake is noted is
not a driving one. For the refinement, the entry under way is one that what was
read allows, however the inputs change in its sleeps (`Pending`), and the
statements on an edge of the pedal have seen one (`Cycling`); for liveness, the two
lights agree with the entry under way and the pedal that was seen (`Lamps`).

**Lights** (`FrontLightsProofs`): `LightsTypes` and `LightsTimerAlive`, for any timer
queue of two or more slots. Two are enough because the medium task has at most
one command under way and so has a callback (`FewCommands`). A timer that
should blink is running, or the last command for it in the queue starts it, or
its callback runs and will start it again (`SignalArmed`, `BpsArmed`). Only the event
that turns a light off posts a stop; the start that the next event posts comes
behind it, as nothing is dropped, and callbacks only restart. `LightsAlwaysBlink` adds
scheduling: whatever the medium task posts, the daemon comes to rest again and again
(it has never more than two commands before it), a timer that is alive is then
running, and each of its expiries toggles the lights of its group.

**Persist** (`PersistProofs`): `PersistTypes`; `PersistPedals` and `PersistErased`, for any
page and blob, any blobs committed and any number of resets and start-ups. The
properties say nothing of what lies on the page; the invariant does (`PageIs`):
since the calibrator has erased it the page holds zeros up to the base of the
first or the second section, that section's header and the words of it written
so far, and erased flash behind them. Each step of a commit adds a double word
to this or leaves it; the scan goes over the zeros and stops at the header
(`ScanHeader`); a reset leaves all of it in place; and a calibration that has
returned OK is a section with all its words.

**Steering** (`SteeringProofs`): `SteeringTypes`, `SteeringBus`, `SteeringBits`,
`SteeringHazards`. The invariant says how the loaded byte follows the shared one: in
the fields only the medium task writes they agree until the store (`RegFollows`),
between a setter and the assignment it announces the bus is ahead of the state
by exactly the request being served, and a setter of the cruise bit is reached
only with cruise control off. `SteeringServes` adds scheduling: the two requests that
make the car safe are served, with whatever the 20 ms task stores in between.

**Vehicle** (`VehicleProofs`): `VehicleTypes`, `VehiclePrecharge`, `VehicleMotor`,
`VehicleFault`, for any buttons and any number of resets. Precharge and fault are
never withdrawn until the rear board is reset, so what a lost or late frame
leaves behind errs in one direction (`Beliefs`, `FaultIsReported`); and before the
driver asks, no field on the way from the pedals to the motor holds a request
for drive (`RequestsAreAsked`). The theorems speak of `PowerInterlock`, which
`RefinesInterlock` connects to the rear board's tasks. `VehicleFaultReaches` and
`VehicleFollows` add scheduling and the end of resets: what a board last heard
follows the sender board by board, and once it agrees it stays so.

**FotaLink** (`FotaLinkProofs`): `LinkTypes`, `LinkCount`, `LinkSlots`, `LinkBytes` and
`LinkInOrder`, for any ring, slots, datagrams and sender. The count and the bytes differ by exactly the overwritten
increments; that it never goes below zero needs the main loop's loaded value to
be at most the count (`Counters`). A datagram that is complete has left its slot.
`LinkBytes` says that the ring holds the line's bytes in order from the last one
taken (`InOrder`). With it, `LinkInOrder` relates what has been taken to what
was sent: some number of packets has been handled, the machine holds the next one's
first byte or none, the one open datagram has exactly the packets handled since its
header, and those that ended have been delivered (`InPlace`, `Assembled`). How many ended
is a recursive function of the packets (`Ended`); that it exists, is a count and
grows only with a last packet is proved by induction over a set of numbers, from
the well-foundedness of the naturals.

**FotaDfu** (`FotaDfuProofs`): `DfuTypes`, `DfuOneImage`, `DfuWhole`, `DfuEnters`,
`DfuSmallImages`, for any images, chunks and layout of the flash (within
`DfuAssumption`), and any number of resets. None of it depends on which pages are
erased. The invariant has that a chunk's cells are in the flash (`WriteInv`), what a
copy has done so far (`CopyInv`), and that cells after a blank one are blank (`Prefix`):
with it a copy ends at its first cell, at the staging region, or not at all.
`DfuEnters` needs `CopyInv` alone and holds whatever was erased. `DfuOneImage` and
`DfuWhole` hold up to the first erase that takes some of an application
(`spoiled`), and say nothing of what is left after it; `DfuSmallImages` gives the images
for which it never comes.

**Scheduling.** The liveness theorems start from `Spec`, with the fairness of
section 3, and one kind of hypothesis: whenever a task has something to do, its
action is enabled (`[](work => ENABLED <<MediumStep>>_vars)`: `MediumIsReady`,
`CellIsReady`, `RefreshIsReady`, `LightsAreReady`, `BoardsAreReady`). The provers have no
rule for ENABLED, so that this cannot be discharged; it says nothing of what a
step does. It is a fact of the code: each task has a statement for every value
of its program counter, and none waits for another task; it holds in every reachable
state of the runs' instances, and the runs check the same properties
from `Spec` alone. (`RearImplementsInterlock` needs the converse as well, that the two fair
steps of `PowerInterlock` are enabled only under their guards.) For `Vehicle`,
`ResetsEnd` says that from some time on no board is reset: every execution has at most
`MaxResets`, but to conclude it takes an induction over them.

The argument is the same throughout. A rank bounds the statements left until what is
promised (`FaultLeft`, `DriveLeft`, `NeutralLeft`, `SignalLeft`, ...); a lemma for
every number n (`FaultNearer(n + 1, n)`) says that what is within n + 1 steps stays so
under every step of any task, and that a step of the fair task brings it within n;
temporal logic then chains the finitely many instances. The order of the
statements, and what each leaves behind, is in the lemmas; fairness is used only in
the chain, and without one of its conjuncts the chain breaks.

**Only model-checked**: `InitEnds` of `Persist`, `SessionEnds` of `FotaDfu`,
`ReaderCatchesUp` and `EverythingArrives` of `FotaLink`, whose ranks are as long as the
page, the image or the traffic (a chain whose length is a constant's value
needs an induction over temporal formulas, which the provers lack); the five readiness
hypotheses above; and the violations.

## 6. Plan

1. Rear board with `PowerInterlock`, runs, proofs. *Done.*
2. Front board with `DriveSelector` and proofs; front lights with proofs. *Done.*
3. `Persist`: the flash log with a reset between any two writes, with proofs.
   *Done.* The abstract specification of a register that keeps its last committed
   value is what `persist_durable` refutes for a client of the library.
4. `Steering` with proofs, and `Vehicle` composing the boards, with proofs. *Done.*
5. `FotaLink` and `FotaDfu` with proofs. *Done.*
6. Theorems: every invariant and action property of the runs, both refinements, and
   liveness where the rank is bounded. *Done.*
7. Left: the mailboxes and the receive queue of the CAN stack in a module of their
   own (`Vehicle` has their effect on the boards); transmission on the update
   link; runs of `Vehicle` with the reverse button and more than one reset
   (its theorems have both); a refinement from `FrontController` to the front board of
   `Vehicle`, as `PowerInterlock` is for the rear board.

## 7. Not modelled, and why

* Analogue conversion, calibration curves, state of charge and range estimation
  (arithmetic, no control); display, buzzer, graphics and logging (output only);
  device registers (modelled as operations that succeed or fail); the simulation
  and the generators (development tools).
* Options compiled out in this build (kill switch, thermistor faults, balancing,
  relay sense, one-pedal drive) are left out as the build leaves them out.
* Late cycles (a task missing its period): a task may take any time between
  steps. The late-cycle counter of the master tasks depends on execution times;
  a run could say no more than that the scheduler may end.
* The CAN bootloader: `bootloader_run` returns `UNINITIALIZED` on every call in this
  revision, whatever was initialised.
* midFS: its only clients write one fixed file at start-up.
* Telemetry: what its tiers leave unsent depends on the rates of bus and radio, and
  nothing in the vehicle reads it.
* In `FotaLink`: what later bytes overwrite once the packet state machine has run
  past its buffer, headers of garbage, damage to fields without a CRC other than
  by a splice, the UART's error callbacks and timeouts. In `FotaDfu`: the running
  bootloader's own flash, half erased pages, and errors of the flash other than a
  double word not erased.
* The greater part of the repository by lines is vendored (HAL, CMSIS, FreeRTOS,
  FatFs, lvgl, device headers): the modules use what it promises, and model none
  of its code.
