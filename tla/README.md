# Formal models of Growbox2

TLA+ models of the software of the growbox: a web backend on a single-board
computer that lets a user set lamp, coolers and climate, and the small
controllers it drives. The modules are checked with TLC on small instances; the
theorems are proved with TLAPS for all values of the constants.

## 1. Inventory

Paths are relative to `src/`.

| Component | State | Operations | Talks to |
| --- | --- | --- | --- |
| Cooler control: `UI/src/app_cl.cpp`, the cooler handlers of `app.cpp` | `app_data.cwt`, powers, published on/off flags; the worker's copies, `is_on`, `cl_signal` | `coolers_worker` (copy, clock, two checks, publish, sleep), `app_save_coolers_power`, `app_set_coolers_time`, `app_cl_wakeup` | shared memory under `app_coolers_mutex`, database, I2C |
| Start and end: `main.cpp`, `app_init`, `app_deinit`, `app_read_config` | `sig_num`, the configuration | start, SIGHUP, SIGTERM | all workers |
| Request threads: `main.cpp`, `httpserv.cpp` | four threads, `accept_mutex`, flags for reboot, poweroff, network restart | accept, route, reply | nginx over FastCGI |
| Lamp link: `flc.cpp` | serial line, `flc_mutex` | request, wait 2 s, parse, one retry | FLC-01 |
| Temperature and humidity: `app_th.cpp` | sampling period (configuration, database, user), `th_signal` | sample, clean up, sleep | SHT30, database |
| History: `app_get_th_*`, `mydb.cpp` | the shared vectors `th_records`, `th_dates` | fill, read, clear (read only for everybody else) | request threads |
| Database: `mydb.cpp` | one configuration row, the table of samples | get, set, insert, delete | SQLite |
| Bus: `sensors.cpp` | `i2c_mutex` | set and get power, read sensor | coolers board, SHT30 |
| Conversions: `jsont.c`, vendored `cJSON` | none | JSON to structs and back | |
| Second backend: `UI/src_v2` | `stop_main`, a condition variable, four threads | accept, wait, shut down | |
| Coolers board: `boards/sensors/Coolers_Controller/firmware` | two duty cycles, a flash page, watchdog, UART ring buffers | I2C registers 0x10/0x20 (set), 0x11/0x21 (get) | host |
| Web pages, nginx and systemd files | | | |

What is hard, and what makes each part correct:

* **Cooler control.** Four request threads, one worker, a mutex that covers the
  copies but neither the test of the on-flag nor the database nor the bus. A
  cooler must run when its schedule says so and stand still otherwise; a change
  must reach the worker; what is answered OK must survive a restart; failed
  writes must be retried.
* **Start and end.** A polled `sig_num` that is reset after the work; devices
  closed before their users are cancelled. Every termination signal must end the
  program.
* **Request threads.** One handler returns with a mutex locked. A request must
  always be answered.
* **Lamp link.** Late answers, timeouts, a retry. An OK must be the answer to
  this request.
* **Temperature and humidity.** Three sources for one period, none of which may
  make the worker spin or sleep for ever.
* **History.** Unprotected vectors. A query must return its own records.
* **Second backend.** A signal that comes just before a sleep, threads that miss
  their notification. It must stop whenever it is told to.
* **Coolers board.** Interrupts change the state that the main loop waits for;
  broken transfers, a reset at any point of a command; erase, then program. The
  board must come back to listen, an OK must be true, the flash must not mix the
  powers up.

`PROJECT.json` lists all components and each hazard at its line.

## 2. Modules

| Module | Content |
| --- | --- |
| `CoolerSchedule` | `check_cooler_schedule` as a function of the copied schedule and the minute: intervals, work period, `SwitchOn`, `SwitchOff`; and `Due`, what they are for |
| `CoolerControl` | the request threads, the worker, shared memory, database row, board, time and faults |
| `SettingsStore` | abstract: what a client may expect of settings that are kept |
| `CoolerStore` | `CoolerControl` implements `SettingsStore` (eight columns of the row) |
| `CoolerRaces` | `CoolerControl` with the memory of which requests crossed between memory and database |
| `LampControl` | the request threads that take turns on the lamp, `flc_mutex`, the serial line, the lamp as the code sees it |
| `ThSampler` | the worker that samples, its period and its three sources, the table of samples and its clean-up, the reload of the configuration, restarts |
| `SamplerStore` | `ThSampler` implements `SettingsStore` (the stored period) |
| `Backend` | the process: signals and their waiter, start and shutdown, the pool of request threads, the flags they leave work with |
| `V2Server` | the process of the second backend |
| `Servers` | the device with one of the two backends |
| `CoolersBoard` | the firmware's loop with the I2C slave, flash and watchdog, and the threads of the backend on the bus, byte by byte |
| `PowerService` | abstract: what the backend may expect of the board |
| `BoardService` | `CoolersBoard` implements `PowerService` |
| `*Proofs` | theorems: `CoolerScheduleProofs`, `CoolerControlProofs`, `CoolerDutyProofs`, `CoolerStoreProofs`, `LampControlProofs`, `ThSamplerProofs`, `BackendProofs`, `CoolersBoardProofs` |
| `MC*` | instances for TLC |

The modules meet at these places: `CoolerControl` sees the board as one step that
works or fails, which `CoolersBoard` opens up; `Backend` sees requests to the lamp
as ones that may never end, which is what `LampControl` finds; the end of a
process in good order is in `Backend`, its crash in each component.

A step is a section under one mutex, one access to the database or a bus, or one
unprotected access to shared data, since that is where threads can interleave.
The operators marked "Mutant" are deliberately wrong variants of the operator
after them. No definition uses them; put in the place of that operator they
make a property fail, which shows that the property depends on the code.

### `CoolerControl`

| Action | Code |
| --- | --- |
| `Receive` | a request thread accepts and parses (`main.cpp:176-190`, `jsont.c`); a malformed body is answered at once |
| `SaveToMemory` | the section under `app_coolers_mutex` (`app.cpp:672-674, 689-691, 714-716`) |
| `SaveToDatabase` | `db.save_cl_power`, `db.set_cl_time`; an error goes straight to the answer |
| `ReadFlag`, `SendPower` | the unprotected test of `cl_in_on`/`cl_out_on` and the write to the bus (`app.cpp:680-681, 697-698`) |
| `Wakeup`, `Reply` | `app_cl_wakeup`, the answer |
| `CopySettings` | `app_cl.cpp:196-219`; a cooler without work period keeps its old copy |
| `ReadClock` | `app_cl.cpp:221-222` |
| `CheckSchedule(c)` | the two calls of `check_cooler_schedule`; the input cooler first |
| `PublishState` | `app_cl.cpp:230-234` |
| `EndSleep` | `cl_sleep` returns, by time or by signal |
| `Tick` | a minute passes |
| `Restart` | the program ends anywhere and `app_init` runs again, with or without the board losing power; a query that fails leaves zeros, as `memset` did |

Abstractions. Times are minutes of the day (seconds are stored by the code and
never used). A request is a record, not a JSON text; one that does not parse is
`Malformed`. Times are not negative, as the page sends them. An answer is its
text ("OK" or an error), since the page looks at nothing else; its numeric code
is left out (`app.cpp:706` returns an uninitialised value as the code of an OK
answer to a power request). A write to the bus that fails leaves the board as it
was. `Tick` cannot pass more than `Lag` minutes between two visits of the worker
to the clock: `cl_sleep` takes `cl_poll_period` seconds, 60 in both
configuration files, and a round takes well under a second. At 60 seconds and a
little, up to two minutes begin between two readings: `Lag` is 2 in the run
about delays, and 1 where the properties do not speak of time. A period of 0, with
which the worker thread ends at once (`app_cl.cpp:176-179`), is outside the model.
A round that has no schedule to check, or cannot read the clock, also resets
`lag`, because the code does reach that point of its loop.

`CoolerRaces` adds to each action one history variable, `crossed`, which no guard
tests: the settings that were last written to memory while two threads were between
their two writes with different values for it (`Contested`).

### `LampControl`

| Action | Code |
| --- | --- |
| `Receive` | a thread accepts a request; every handler but the one for channel power parses the body now (`app.cpp:537-542, 567-572, 595-600`) |
| `Lock` | `pthread_mutex_lock(&flc_mutex)`; `app_set_flc_ch_pwr` parses after it and returns at once, still holding it, when the body is bad (`app.cpp:511-517`) |
| `Send` | `flc_send_request`: flush of both directions, write (`flc.cpp:72-81`) |
| `Timeout`, `Interrupt`, `Read`, `ReadTimeout` | the ways through `flc_get_responce` (`flc.cpp:83-127`) |
| `Evaluate` | `json_to_flc_resp`, the retry, what the handler makes of the answer |
| `Unlock`, `Reply` | the end of the handler and of the request |
| `Transmit`, `Answer`, `Finish`, `Lose` | the serial port and the lamp, external: a request waits in the port, reaches the lamp, is carried out and answered in one or two pieces, or is lost |

Abstractions. What a request sets and what an answer reports is left out; an
answer is what its `result_code` and `result_text` amount to (`Content`). A read
takes all that has arrived. A write that fails or is short is taken as nothing
written; a `read` that fails, after which the code goes on with a length of
-1, is left out, as is `test_mode`, in which three handlers answer without the
lamp. `late` means that select or read may give up while the lamp still has
something to say; without it they give up only when nothing is on the way.
`executed` and `owed` are history variables: the code cannot know them, and
no action tests them. `Earlier` stands for all requests of a thread but its
current one.

### `ThSampler`

| Action | Code |
| --- | --- |
| `TakePeriod`, `FetchPeriod`, `AdoptPeriod` | `app_th.cpp:45-61`: the period of the configuration or, without one, of the database, which is then written to the settings without their mutex |
| `CheckSize` | `mydb::check_size`: DELETE of the oldest rows and VACUUM, either of which may fail; the limit is read without the mutex |
| `TakeSample` | reading the SHT30, `put_th_val` |
| `RenewPeriod`, `WakeUp`, `SleepOver` | the period from the settings, `th_sleep` and its polled flag |
| `Receive`, `StorePeriod`, `SetPeriod`, `Wakeup`, `Reply` | `app_set_th_period`: check, database, memory, `app_th_wakeup`, answer |
| `ClearConf`, `FillConf` | `app_read_config` after a SIGHUP, holding `app_data_mutex` in between |
| `Restart` | the process ends anywhere and starts again; database and table stay |

Abstractions. A file is as large as the rows that fit in it; deleted rows leave
their pages with the file until VACUUM. The conversions are what they do: minutes
times 60 modulo `Word`, of any sign (`PeriodOf`); a number beyond 63 bits comes back
from its column as one digit (`ReadBack`); `th_sleep` counts an `int` down, so that
half of all periods never end by themselves (`Endless`). `th_sleep` tests the flag
every second, so that its time cannot run out while the flag is up.

### `Backend` and `V2Server`

| Action of `Backend` | Code |
| --- | --- |
| `Signal`, `PollSignal`, `ResetSignal` | the handler keeps the last signal, `termination_waiter` polls it, and resets it after a reload, whichever it then is |
| `FillConf` | `app_read_config` |
| `CloseDevices`, `CancelWorkers`, `CancelThreads` | `app_deinit` and the loop over `id[]` (`main.cpp:112-124`); to cancel a thread that was never created ends the process |
| `CreateThreads`, `JoinThreads`, `CleanUp` | `main` |
| `LockAccept`, `Accept`, `Finish` | `accept_mutex`, `FCGX_Accept_r`, `FCGX_Finish_r` |
| `SaveLan`, `NeedRestart` | `app_set_lan`: `nmcli`, then the flag |
| `AskReboot` | `app_reboot`; `app_poweroff` is alike |
| `CheckDatabase`, `QueryDatabase` | any operation of `mydb`: the test of its handle, its use |
| `ServeOther` | any other request; it need not end |
| `Afterwards`, `SystemReboot` | what a thread does for any request once its answer is sent (`main.cpp:195-204`): restart the network manager, reboot; either command may fail, and only the result of the first is looked at |
| `SystemStops` | a system that reboots sends SIGTERM, external |

In `V2Server` the actions have the names of what they stand for in
`src_v2/main.cpp`; a signal runs in main, whose sleep it ends if that has begun, or
in another thread. Accepting a request that never comes does not end by itself.

Abstractions. One kind of termination signal. `fd` stands for all the devices. A
handle that is used after it is closed may crash the process or fail; both are
allowed. The second backend does nothing with a request, and neither does the model.

### `CoolersBoard`

| Action | Code |
| --- | --- |
| `Boot`, `Loop`, `SeeRegister`, `Decide`, `SeeValue`, `SetDuty`, `SeeSent`, `Done`, `ListenAgain` | `main.c:40-133`, cut where main tests the state of the slave |
| `Erase`, `ProgramInput`, `ProgramOutput` | `flash_write_page`; only the result of the erase is looked at |
| `Watchdog`, `PowerFails` | a reset: when main waits for a state that cannot come any more, or at any time |
| `Receive`, `HoldOver`, `Unlock` | `set_coolers_power`, `get_coolers_power` under `i2c_mutex`, with their pause of 100 ms |
| `NotAcknowledged`, `Address`, `SendRegister`, `SendValue`, `Restart`, `Read`, `Stop` | a byte or a condition on the bus, with what the slave's interrupt makes of it (HAL, as the loop uses it); a transfer may be broken off after its address or any byte |
| `Unheard` | a byte that no interrupt takes: acknowledged, and lost |
| `TimedOut` | the slave holds the bus, and the ioctl of `get_coolers_power` ends with an error (`sensors.cpp:227-231`) |

Abstractions. The slave's state is one of five: off, listening, receiving,
sending, and `MUTE`: an address has turned off the interrupt of the bytes (`Addressed`)
after main had made ready for one, so that none is received or sent any more. The
first address does that when main still waits for a transfer that was broken off
after its own address (`Abandoned`), the repeated one when main is quick.
That the watchdog frees a bus which is held before the driver gives up is possible,
too: the byte read is then all ones (`WithoutBoard`).
`unset` and `restarted` are history variables: the coolers that have not been set since
the board started, and the transfers into which a reset came.
The watchdog waits 1.6 seconds, longer than any transfer or write to the flash, so
that it acts only when main is stuck. Noise on the bus (arbitration, bus errors) is
left out. `Erased` stands for a word of ones. That the loop over `coolers_pwm` takes
8 bytes for 8 elements (`main.c:50`) touches memory that the model does not have.

### `SettingsStore`

Each request changes one setting, once, in one step; an OK comes after that;
nothing else changes settings, and they survive the end of the program, which
forgets the requests. `CoolerStore` and `SamplerStore` give the mapping: `store` is
what the database holds, `client` how far each handler is, `change` what it has been
asked for.

### `PowerService`

What the backend may expect of the board, without bytes, interrupts or buffers: a
request to set or to get a power is carried out in one step, before its OK, and an
error means that nothing was done. A board that hangs carries nothing out before it has
started anew with both coolers still, and may give an OK for nothing until then.
`BoardService` gives the mapping: a request is asked (`Pending`) from the address until
main sets the timer, or until the answer has been read; the board hangs while main waits
for a state that cannot come (`Stuck`).

### `Servers`

Backend and V2Server side by side: the device has one of them installed, and the
other is over from the start.

## 3. Runs

| Run | Question | Result | Bounds |
| --- | --- | --- | --- |
| `MCRaces` | types, published flags, wake-ups, each setting in the database as in memory or on its way unless requests crossed, with two request threads, failing bus and clock, crashes | holds | day of 2 minutes, three requests (a power beyond a byte, a work period of one value and of another), `Lag` 1; the threads are symmetric; 2.7 million states |
| `MCAck` | an OK means stored, and the settings keep to `SettingsStore`, with failing database and bus, crashes, failed restoring | holds | a clock that stands at minute 0 (what is stored does not depend on it; the request for a start of 0 makes the second cooler due), one thread, a power beyond a byte, a time, a malformed body |
| `MCDuty` | the worker's switching follows `Due`; the board is right up to a delay | holds | every schedule with start 1..6, stop up to 16, work period 0..6 in a day of 18 minutes, hours of 6, `Lag` 2 |
| `MCLive` | a schedule reaches the worker; a running cooler is stopped while the bus keeps failing | holds | one thread, two work periods and a start; day of 4, hour of 2 |
| `MCSampler` | types, the file within its bound, the newest sample kept, no wake-up lost, periods taken up, `SettingsStore`; failing statements, reloads, restarts | holds | two threads; minutes 2, 3 and -1; one row at a time, a limit of two; 16-bit words |
| `MCServers` | a termination ends either backend, no thread takes the mutex of the accepting one with it, a reboot follows, network settings are not forgotten | holds | two threads each; signals at any time; socket, database, file, `nmcli`, restart of the network and `reboot` fail |
| `MCBoard` | types, no request lost, OK is true, flash kept, the board listens and keeps to `PowerService`; broken transfers, failing flash, resets | holds | two threads; three powers (one beyond the limit) and a reading; 407,222 states |
| `MCLampInTime` | types, an OK is about this request, with failing writes, lost and damaged lines | holds | two threads, every kind of request, every content of an answer |
| `MCLampLate` | an OK is about this request unless an answer was owed when it was sent; each request is served; with late, lost and damaged answers, interrupted waits | holds | two threads, one kind of request, a lamp that queues one request |
| `MCOnUsesPower` | "Use new power value if cooler is ON already" | violated | one thread, one power, no fault |
| `MCNoPeriod` | a cooler without work period stops | violated | one request |
| `MCLampLocked` | "Serving all incomming requests" | violated | two threads, nothing fails, one bad body |

**Why the bounds are enough.** The length of a day and of an hour are constants:
in `MCDuty` a schedule has up to three intervals, whole and partial ones (a
partial one lasts long enough to be missed if it were lost), a work period of
nothing, a part or all of an hour, and a stop before, at and after the end of an
interval; every comparison of the code is met on both sides of its boundary. The
proofs cover all lengths. Two request threads are enough for two handlers to meet
at each step, with the worker between them, and for the lamp to read each
other's answers. Two coolers are all there are. `LampQueue` 1: while a late request
is with the lamp the next one waits in the port, or is lost. In `MCSampler` a
clean-up of one row and a limit of two rows let the table be below, at and above its
limit, and the limit of zero during a reload makes a clean-up of a small table; the
words of 16 bits let -1 minute be as far off as with 64. In `MCRaces` two
requests give one setting different values, and reach memory and database in either
order (section 4). In `MCBoard` a set and a get on different coolers, and two sets on
the same one, follow each other in every way, broken off after the address and after
each byte.

In `MCLampLate` an OK to a request that was never carried out does occur, one
exchange after a timeout; what the property says is that a flush keeps it
from happening later than that. `CHECK_DEADLOCK FALSE` is set where the system stops:
in `MCServers` a process that is over, in `MCLampLocked` the violation itself.

**The delay.** `DutyNoOverrun` and `DutyNoUnderrun` allow `2 * Lag` minutes. The
worker may have read the clock just before a boundary, and needs one more round
after that to see it. The schedules stop at least `Lag` minutes before midnight.
That is the exact limit: with stops one minute later TLC finds a cooler that is not
stopped in time, because after midnight the minute is below the start and the check
returns early. It runs on until the next start. With polls once a minute this
concerns stops in the last two minutes of the day; the page offers times up to 23:59.

**Fairness.** Threads are ordinary POSIX threads, so that each has weak fairness
for the steps it can take by itself. Nobody is obliged to send a request or a signal,
to crash, or to let an access fail. What goes beyond that:

* `CoolerControl`: `BusRecovers` is strong fairness of the write that stops a
  cooler: it may fail any number of times, but not always; it is what a retry on each
  round can rely on. `ScheduleTakenUp` and `NoPeriodStops` do not need it.
* `LampControl`: `Lock` has strong fairness. A POSIX mutex promises no order, but a
  thread that gives `flc_mutex` back first finishes a whole request, so that a waiting
  one is not passed for ever. As select and read give up after their time, nothing is
  assumed of the lamp when it may be late.
* `Backend`: `Serve` has strong fairness, because it waits for `app_data_mutex` while
  a reload has it; between two reloads the waiter sleeps for 2 ms without it.
  `LockAccept`, `Accept` and `ServeOther` have none: requests need not come, and one to
  the lamp may never end. The command that reboots has strong fairness: it may fail any
  number of times, but not always. It is tried again only after the end of another
  request, so that `RebootFollows` is about a server to which requests keep coming.
* `V2Server`: the waits have limits (10 s, 5.25 s), so that they end.
* `CoolersBoard`: main, the watchdog, and a transfer once begun. `BoardListens` leaves
  out a supply that fails for ever.

## 4. Where the code departs from what it says

1. `app.cpp:679, 696`, "Use new power value if cooler is ON already". The flag is
   tested without the mutex, and is published only after the bus has been
   written. In `MCOnUsesPower` the worker copies the old power; the client sets a
   new one; the flag is still down, so nothing is sent; the worker switches on
   with the old power, which stays in use until the cooler is switched again.
   There is a second, longer way to violate the same property: the worker
   switches the cooler off between the test and the write, and the write starts a
   cooler that is marked as off.
2. `app_cl.cpp:195`, "Check if coolers are supposed to work": in `MCNoPeriod` a
   cooler is on when its work period becomes zero; the worker then does not check
   it any more, and it runs on.
3. `httpserv.cpp:493`, "Serving all incomming requests": in `MCLampLocked` a power
   request with a bad body leaves `flc_mutex` locked. Every later request to the
   lamp waits for ever and keeps its thread.

Met on the way, and modelled, without a promise in the repository that they break:

* `app.cpp:719`: two requests for one setting may write memory in one order and
  the database in the other; what a restart restores is then not what was in use.
  `MCRaces` goes through it. `StoredUnlessCrossed` says how far it goes: the setting
  is one for which two requests with different values were between their writes at the
  same time, and it is right again after the next request for it alone, or after a start.
  Without that exception TLC finds the opposite orders in six steps.
* `main.c:58` of the firmware: after a reset both timers stand at zero, while the
  board goes on reporting the powers that it has stored, although the register is that
  of the "current pwm value" (`main.c:19-20`). `OkIsTrue` says when: a reading is about
  the power at which the cooler turns if it has been set since the board started, and
  about the stored power if not. A set of the other cooler does not change that.
* `utils.c:341`: nobody looks at the result of `reboot` (`main.cpp:200`). A command that
  fails is tried again only after the next request has been answered.
* `main.cpp:127` of the backend: a SIGTERM that arrives during a reload is lost with
  the SIGHUP.
* `app_th.cpp:81`: a reload brings the period of the file back into use, or none, with
  which the worker samples without pause, until the next start.
* `app.cpp:1005`: after a query for the dates that fails the error text is
  overwritten: the answer has code -1, the text "OK" and the dates that had been
  read by then.

## 5. Proofs

Assumptions are those named in the modules (`HourAssumption`: an interval has at
least a minute; the others give the constants their types), and the hypotheses named
below. An invariant is inductive together with the type invariant of its module.

**Coolers** (`CoolerScheduleProofs`, `CoolerControlProofs`, `CoolerDutyProofs`,
`CoolerStoreProofs`)

* Between start and stop exactly one interval holds the minute, and it is
  numbered by the quotient (`OneInterval`, from `DivMod`, `QuotientUnique`,
  `QuotientMonotone`); inside it the work period is over exactly when the remainder
  has reached `wp` (`WorkPeriodInHour`). Hence `SwitchOnIffDue`, `SwitchOffIffNotDue`.
* `TypeCorrect`: `TypeOK` is inductive as it stands. It includes that a request
  thread is only in sections its request has.
* `FlagAlwaysPublished` is inductive.
* `WorkerSwitchesAsDue`: only `CheckSchedule` changes `is_on`, and the schedule
  theorems say when; `TypeOK` gives them their hypotheses.
* `OverrunBounded`, `UnderrunBounded`: both bounds on the delay, if nobody changes settings, nothing
  fails (`Undisturbed`), and every schedule stops `Lag` minutes before midnight and is
  not due at midnight (`InOneDay`). The invariant `DutyInv` says that the clock stands
  `lag` minutes after its last reading (`ClockInStep`), that each cooler is as its
  schedule calls for at that reading or, where the round has not come to it yet, at a
  minute at most `Lag` earlier (`InStep`), and that the board follows `is_on`. Where
  the reading is before the start, the one before it was on the same day before the
  start too, or after the stop of the day before: this is where the stop `Lag` minutes
  before midnight is needed (`NotDueBefore`). `ModPlus` carries minutes through the
  cut to a day.
* `WakeupNeverLost` assumes that the database works: after a failed write
  `app_set_coolers_time` skips the wake-up (`app.cpp:740-743`), and the new
  schedule waits for the end of the worker's sleep.
* `StoredUnlessRequestsCross`, for any number of request threads, while the database
  works. The invariant works setting by setting (`InStep`): for one that is not in
  `crossed`, all threads between its two writes have the value in memory for it, and
  where there are none memory and row agree. So the last of them, whichever it is,
  brings the two together; a write to memory that breaks this puts the setting
  in `crossed`. `MemorySaved`, `DatabaseSaved` and `StoreQuiet` say what a step does to
  one setting, `RaceIsControl` that `RaceSpec` is `Spec` with a history.
* `UncontestedAcknowledged`: an OK is about what is stored, whatever fails, as long as no
  two requests for one setting with different values overlap (`Uncontested`); past the
  database, the request is in it (`PassedIsStored`). `AcknowledgedStored`: that
  holds by itself with one request thread (`OneHandler`), as in `MCAck`, and with any
  number when all requests for one setting ask for the same value (`Agreeing`).
* `CoolerKeepsSettings`: the refinement of `SettingsStore`, for any number of
  threads. Each step maps to a step of the store or a stutter; `PowerSaved` and
  `TimeSaved` show that a write changes one of the eight columns and no other.

**Lamp** (`LampControlProofs`)

* `LampTypeCorrect`: `TypeOK` ties the tries of a thread to its place, so that no
  request is sent a third time.
* `LampNotMisled`: the inductive invariant adds that only the holder of
  `flc_mutex` is in an exchange (`Exclusive`), and that all that is on the way to a
  thread which was owed nothing at its first send is its own, and OK only if
  carried out (`Clean`). The flush is used where a request is sent.
* `LampOkIsExecuted`: in time, the line and the lamp are empty unless a thread
  waits, and hold at most one thing when it does (`Quiet`); so nothing is ever owed.

**Sampler** (`ThSamplerProofs`)

* `SamplerTypeCorrect`: for periods of any sign.
* `FileStaysWithinBound`, if DELETE works and the table starts within the bound:
  `RoomInv` adds that there is room for a row between clean-up and sample.
* `NewestAlwaysKept`, for all faults: a clean-up of a table with no row behind the
  oldest batch takes nothing.
* `SamplerWakeupNeverLost`, for all faults.
* `SamplerKeepsPeriod`: the refinement of `SettingsStore`; `PeriodAsked` says that a
  thread has a new period exactly while it serves a request.

**Process** (`BackendProofs`): `ServersTypeCorrect`, for both programs.
`LanNeverForgotten`, for all faults: a step that lowers the flag has applied the settings,
and between `nmcli` and the flag the thread has `settings_mutex`. `OneThreadAccepts`: the
mutex follows the thread into `FCGX_Accept_r` and out of it, by whichever of its ends
(`V2ThreadMoves`); before main has created the threads nobody can hold it.

**Board** (`CoolersBoardProofs`): `BoardTypeCorrect`, with the value received
within the limit (`TypeInv`). `NoRequestEverLost` and `OkIsAlwaysTrue` rest on one
invariant, `BoardInv`: the bus belongs to one thread (`Exclusive`); the place of
that thread tells where main and the slave can be, and what is in the registers
(`Places`); without a transfer the slave is off, or main is in its loop and nothing is
asked (`Quiet`). It is needed because neither side can see the other: main clears a
request although the next may have come, and reads registers although the next byte
may have overwritten them; `Places` excludes both. For `OkIsAlwaysTrue`, `Known` adds that
a cooler which has been set since the board started turns at the power the board knows.
`FlashAlwaysKept` follows the two
words through erase and programming.

`BoardServesPowers` is the refinement of `PowerService`. Each step of main, of an
interrupt, of a thread and of a reset maps to one step of the service or to none: the
timer's write is `Set`, the read of the byte is `Get`, and all other bytes are stutters.
To `BoardInv` it adds that the thread whose value main takes to the timer is still in its
transfer (`DutyOwed`): a power is set for the request under way and for no other.

**Only model-checked**: liveness, which is out of the prover's reach
(`ScheduleTakenUp`, `StopsEventually`, `RequestsServed`, `PeriodTakenUp`,
`TerminationEnds`, `RebootFollows`, `SignalStops`, `BoardListens`), and the violations.
Every invariant and every action property that a run checks is a theorem.

## 6. Not modelled

* **Vendored and generated code**: HAL, CMSIS, `cJSON`, `json.hpp`. Of some 211,000
  lines of implementation all but about 9,000 are of this kind. The HAL's slave is
  modelled as far as the board's loop depends on it.
* **History queries** read the table and change nothing that others read. Two requests
  at the same time share their vectors without a lock, so that nothing holds of
  their answers; with one at a time they are one SELECT and its text.
* **Routing, login, conversions** of JSON, units and dates keep no state.
* **Commands** (`nmcli` for the access point, `hwclock`, `date`): the result is passed
  on.
* **Log and debug messages**: no property is about them.
* **Firmware's serial buffers** are filled by interrupts and never read; Bluetooth,
  clock and the application skeleton are not called by main.
* **Second backend**: its lamp, sensors, database and configuration are not called by
  its main.
* Web pages, nginx, systemd, boards and case: no logic of the backend; what the pages
  send bounds the requests of the runs, and the service's restart is `Restart`.
* `test_mode`, in which values and answers are made up.
* **Locks inside libc**: a thread that is cancelled in the middle of an allocation or of a
  write to a stream, and what the end of the process then waits for.

## 7. What is left

1. Duty while settings change: the delay counted from the last change, and what
   happens to a cooler whose schedule becomes invalid while it runs.
2. `CoolerControl` over `CoolersBoard`: the power of the board over its resets, as
   the worker and the status page see it.
3. `RequestPool` with `LampControl` inside, so that the number of threads a bad
   body takes away is counted.
4. The time window of the history as a function, against the half hour it is meant
   to cover.
