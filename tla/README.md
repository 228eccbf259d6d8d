# drmlib in TLA+

drmlib is the C++ library (with C and Python bindings) that keeps an FPGA design
licensed: it talks to a DRM controller IP in the FPGA through two register
callbacks of the application and to a license web service over HTTPS. This
directory is a TLA+ development of its core logic: the metered session with its
background thread, the license requests with their retries and deadlines, the
node-locked mode with its files, the command handshake with the controller, the register
strategies under it, the detection of the frequency and the settings of `set()`.

Line numbers below are of `source/drm_manager.cpp` unless another file is named;
`HAL/` stands for `drm_controller_sdk/source/HAL/`. `PROJECT.json` has the machine
readable side: which definition stands for which lines (`map`), the runs, the
mutant each property is tested with, the hazards, the findings and the theorems.

## 1. The system

| component | state it keeps | operations | talks to |
|---|---|---|---|
| Session manager, `DrmManager::Impl` | `mSessionID`, `mSecurityStop`, `mThreadKeepAlive` (a future), `mThreadStopRequest`, `mLicenseDuration`, `mDrmControllerMutex` | constructor, destructor, `activate`, `deactivate`, `get`, `set` | controller (under the mutex), web service client, the callback `f_asynch_error` |
| Background license thread (1210-1267) | its place in the loop; shares everything of the manager | check the queue, sleep, request, install | the same; joined by `stopThread` (1269) |
| `getLicense` (886-963) | deadline, stage (token or license), wait | retry, back off, give up, exit on request | `DrmWSClient`, `sleepOrExit` |
| Web service client (`ws_client.cpp`) | OAuth2 token and its expiry | `requestOAuth2token`, `requestLicense` | curl, with what is left of the deadline as timeout |
| Node-locked licensing (566-620, 1050-1115) | request file and license file, both outlive the process | write request file, install license file, request a license | file system, controller, web service |
| Mailbox (380-460) | words in the controller that outlive the process | read, write | controller, other managers |
| Frequency detection (1118-1179) | measured frequency | two samples of a counter around a sleep, with the mutex held | controller |
| Parameters (1470-2020) | periods, timeouts, log settings | `get`, `set` | all of the above |
| DRM controller operations (`HAL/DrmControllerOperations.cpp`) | `mHeartBeatModeEnabled`, `mLicenseTimerWasLoaded` | extract DNA, VLNV, metering; activate; load, sample timer; end session | register strategy |
| Register strategies (`HAL/DrmControllerRegistersStrategy_*`) | none; the page register of the controller | about a hundred register accesses per version, selection by version | register callbacks |
| C wrapper, Python bindings, systemd service, FPGA drivers | last error message | one call each of the library | manager |

What makes it hard: two threads that share the session id and the stop flag with
no lock common to all accesses; web requests of minutes between two looks at the
controller; a process that may be killed at any time while the controller and the
web service keep the session; answers that are lost after they took effect;
deadlines computed from the clock in three places; exceptions that are swallowed
in some callers and end the process in others; commands whose ready bit belongs
to an earlier call.

What makes it correct, by component:

* session: manager, controller and web service agree on which session runs; the
  thread only works on it; it is closed exactly when asked to; nothing is stuck;
  the hardware stays licensed while the thread lives, and its end is reported;
* `getLicense`: ends, at the deadline at the latest (give or take a short
  retry period), and never sleeps through it;
* renewal: the deadline of the retries is the end of the license;
* node-lock: the switch happens outside a metered session; a license
  once bought is not lost; a new license is not refused for an old one's id;
* controller operations: an operation returns the values of its own command;
* register strategies: an access touches the page and the lines it is for, with the
  strategy the controller at hand is made for, and decodes a field to that field;
* frequency: what is measured is the frequency, whatever license ends meanwhile;
* parameters: settings that depend on one another stay consistent, and what is refused
  leaves no trace.

## 2. Modules

| module | models | proofs |
|---|---|---|
| `DrmSession` | the metered session: application thread, background thread, controller, web service, crash and restart | `DrmSession_proofs` |
| `TimedCall` | the promise to a caller of `getLicense`: it ends within a budget | |
| `LicenseRequest` | `getLicense` and `DrmWSClient` in time; refines `TimedCall` | `LicenseRenewal_proofs` |
| `LicenseRenewal` | the background loop against the license clocks; extends `LicenseRequest`, whose steps are the inside of its calls | `LicenseRenewal_proofs` |
| `NodeLock` | node-locked managers and metered ones before and after, both files, crashes within a write | `NodeLock_proofs` |
| `DrmController` | the command register and ready bits under the six commands | `DrmController_proofs` |
| `RegisterTables` | the vocabulary of the register strategies: words, fields, accesses | |
| `Strategy_v3_0_0` ... `Strategy_v3_2_2` | the five strategies: where the registers are, and the accesses of each method | |
| `FlatRegisters` | the promise to the operations: registers by page and line, with no page register | |
| `RegisterAccess` | an access bus call by bus call, with callbacks that fail; refines `FlatRegisters` | `RegisterAccess_proofs` |
| `DrmRegisters` | the selection of a strategy, the heart-beat detection, the HDK check, then all accesses of the selected one; composes `RegisterAccess` with the strategies | `DrmRegisters_proofs` |
| `FrequencyDetection` | `detectDrmFrequency` against the license timer counter | `FrequencyDetection_proofs` |
| `DrmParameters` | `set()` member by member, the log sinks, the words of the mailbox, `get()` of the log settings | `DrmParameters_proofs` |
| `MC*` | the instances TLC checks | |

### DrmSession

| variable | code |
|---|---|
| `apc`, `op` | where the application thread is in `activate`, `deactivate` or `~Impl`, and which of them |
| `areq`, `aid` | the metering request it has sent: `open` (`getMeteringStart`), `running` (`getMeteringWait`), `close` (`getMeteringStop`), and the session id in it |
| `bpc`, `bid` | where the lambda of `startLicenseContinuityThread` is, and the id in its answer |
| `sample` | the licenses there were when `detectDrmFrequency` took `counterStart`: 0 when the counter was at 0 |
| `sessionId`, `securityStop`, `future`, `stopReq` | `mSessionID`, `mSecurityStop`, `mThreadKeepAlive.valid()`, `mThreadStopRequest` |
| `asyncErr` | `f_asynch_error` was called since the API call began |
| `hwRunning`, `hwId`, `hwLic` | the controller: session running, the session of its license, licenses held (one counting down, one queued) |
| `cut` | `activate` has failed to end the session that still runs, has swallowed the error and gone on |
| `wsOpen` | the sessions open at the web service |

A step is one section the code runs under `mDrmControllerMutex`, one exchange with
the web service, or one step of the stop protocol (raise the flag and notify; join;
lower it). The order inside the handlers is the code's: `activate` sets
`mSecurityStop` first, `stopSession` is join - end the session in the controller -
send - check the id - clear `mSessionID`, a failure of it is swallowed by `activate`
(1438-1447) and by nobody else, an exception out of `~Impl` ends the process.
Decisions:

* An operation of the SDK fails in one of two ways. A timeout is a `std::exception` but not
  an `Exception`, so the `catch( const Exception& )` of `activate` does not swallow it; an
  error code, of the controller or of a register callback, becomes an `Exception`
  (`checkDRMCtlrRet`), which `activate` does swallow when it comes from the end of
  the pending session: the new session is then opened with the old one still running in the
  controller (`cut`), or ended unseen. `HwFaults` says which operations may fail: "extract" the
  metering, "end" the session, the license "key" (a malformed answer and a license the
  controller refuses among the reasons), load the "timer" (with the mode check after it), "read"
  the counter or the queue.
* The reads of `activate` are merged into its first step: nothing that the
  background thread does can change what they read.
* The answer of the web service to `open` is a fresh id; ids nobody holds are used
  again, which makes the state space finite without a counter.
* `detectDrmFrequency` keeps the mutex over its loop and its sleep (`BgSample`, `BgSpin`,
  `BgMeasure`). The loop waits for a count below the first one: a thread that takes
  its first count with no license left waits for ever, unless a read fails (`Stuck`). Three attempts
  are enough, which `FrequencyDetection` shows, so their number is left out.
* One application thread: concurrent API calls on one manager are not modelled.
* A timer loaded while one is queued replaces it (`QueueLicense`).

### LicenseRequest, TimedCall, LicenseRenewal

The clock ticks in seconds and is kept relative: `left` is the time to the deadline
rounded up, so no bound on time is needed. At `left = 0` the deadline lies within
the second, and comparisons of the code that could fall on either side (`Retry`) may
go either way. `token` is the remaining life of the OAuth2 token. The callers are
profiles: the application with a short period only (or none: no retry), the
background thread with both periods. The refinement to `TimedCall` maps the budget to
`left + short`: a call may overrun its deadline by one short wait.

`LicenseRenewal` starts the thread in the three situations `activate` can leave: on a
license it has just installed, with one more queued, or (`ResumeElsewhere`) on a full
queue left by another process, when `mLicenseDuration` is still 0.

### NodeLock

One manager at a time, of either license type, on one controller with one license
directory. A file is written in two steps: the open truncates it, the close completes
it or, unseen (`source/utils.cpp:157`), does not. A license is named by its session
id. `server` says whether `DrmWSClient` can be constructed: if not, the constructor
swallows the error and leaves a pending metered session running. It also swallows an error
code of the end-session command (611), whether the session has ended or not, and goes on to
the request file (`cut`); a timeout of the command it does not swallow. The calls of a
metered manager are one step each on the controller; their inside is `DrmSession`.
The user copies a license into the directory only where there is none and no request
is under way, and cleans it only between two managers.

### DrmController

Operations are serialised by the manager's mutex, so there is one `pc`. Two kinds:
`extractDna`, `extractVlnvFile` and `activate` write NOP first and leave their command
and its ready bit behind; the metering extraction, the end of the session and the
timer sample write their command at once, and NOP with a wait afterwards. A command
that is already in the register is not written again (`WriteCommand`: the read-back
is equal) and so not executed again. The controller is adversarial: it completes a
command whenever it likes, and drops an old bit whenever it likes, except the bits of
the first kind, which fall when the register changes - the code relies on it, for it
does not wait for them. A timeout is possible with the bit already up, since the time
is compared before the bit (`HAL/DrmControllerRegistersStrategyInterface.cpp:315`).
`Abort` is an error of a register callback, or a killed process whose successor finds
the controller as it is. Operations in heart-beat mode, where no command is written, are
left out; how the mode is found out is in `DrmRegisters`.

### RegisterTables, Strategy_v3_*, RegisterAccess, DrmRegisters

The registers of all pages have the same names, so a page register decides what
`DrmRegisterLine5` is. Each method of a strategy is translated to what it does on the bus,
an access: the page, the selections of it (one for a reader; a writer reads what is there
first, which selects it again), whether the error of a selection is dropped, the lines it
reads and those it writes. `Strategy_v3_0_0` and `Strategy_v3_2_0` have the tables of their
class with a definition per group of methods; the other three modules name what they
share with them and state what differs (3.1.0), or that nothing does (3.2.1 and 3.2.2 are
copies of 3.2.0 in the code). The positions (`StatusLsb`, `StatusMsb`) and the masks
(`StatusMask`) of the status fields are two tables in the code and two here, each written out;
the controller shows its fields by the positions (`StatusBits`), the library decodes
them with both. A method that only throws
`DrmControllerUnsupportedFeatureException` is `Unsupported`. Lines are computed from the sizes and the
order of the registers, as the constructors do.

`RegisterAccess` runs one access: read the page register, write it if it differs, read the
lines, compare, write. Any callback may fail, and a page write that fails may have been
done. `OwnPage` is about accesses that look at the error of their first selection
(`Disciplined`). Those that do not are marked in the tables: the mailbox methods, which
overwrite it (`HAL/DrmControllerRegistersStrategy_v3_2_2.cpp:1150`), and the raw read of a
page. The manager covers most of the first by selecting the page itself beforehand
(`Checked`); `getDesignInfo` does not.

`DrmRegisters` starts like the constructors do. Every strategy, the latest first, reads the
version where it has it (`readStrategiesDrmVersion`), on a controller that may have another
register there (`hw.foreign`); then `waitAutonomousControllerDone` finds out the heart-beat mode from bits
that change meanwhile (`HwActivated`), its error is dropped (`DetectionCut`), its timeout is
not; then `checkHdkCompatibility`; then any access of the selected strategy.

### FrequencyDetection

The counter loses `rate` per unit of time, the thread may be up to `MaxLate` units late
at any step, and a queued license is loaded at the end of the current one. `span` is the
time between the two looks at the clock; the difference of the samples is taken modulo
`Modulus` and the quotient rounded up as in the code (1161-1166). Assumed, and checked
nowhere by the code (`DetectionAssumption`): a license lasts longer than the two samples of
an attempt, and the ticks between them fit 32 bits. The wait for the counter to move (1132) has no limit:
it may hold the mutex for a whole license if that is how long the counter stands,
and on a counter at 0 it does not end; `SpinEnds` says when it does.

### DrmParameters

`set()` walks the members of a JSON object in the order of their names; an exception
leaves the earlier ones applied, so a valid pair of periods may be refused half way
depending on the values before it. `sinks` are the log sinks in their order and `logger` is
the level of `sLogger`, which every message passes first. A log file that spdlog cannot
open is reported on the console and leaves fewer sinks (`updateLog`); then the access of
`log_file_verbosity` to `sinks()[1]` (1831) is out of range - undefined, hence a choice of
no effect or the end of the process - or hits a service log created later.
`log_service_create` sorts before the settings of that log and uses the old ones. A mailbox write reads all words and
writes all of them back, and a bus error ends it among them. One application thread.

## 3. Runs

Distinct states are those of the instance in the cfg; the three largest runs take less than
half a minute each, the others seconds.

| run | states | shows |
|---|---|---|
| `session` | 95,767 | the eight invariants, three action properties and three liveness properties of `DrmSession`, with crashes and every fault |
| `request` | 1,203 | calls end in time and implement `TimedCall`, with its fairness |
| `renewal` | 2,447 | the deadline of the retries is the end of the license; the hardware is locked only there; the loop goes on |
| `node_lock` | 1,227 | the switch is clean unless the end of the pending session failed with an error; no license is lost or refused for an old id |
| `controller` | 23,689 | results are of the own command, clean handshakes, no operation is stuck |
| `registers` | 208,841 | the right strategy on every controller, its own page and fields in every access, the heart-beat mode known; the accesses implement `FlatRegisters` |
| `frequency` | 19,417 | the estimate is right, one retry is enough, the wait for the counter ends |
| `parameters` | 540,436 | periods stay ordered, refused members have no effect, logs do what `get()` says |
| `session_stale_id` | violation | finding 1 |
| `session_dead_thread` | violation | finding 2 |
| `node_lock_truncated` | violation | finding 3 |
| `registers_error` | violation | finding 4 |

The properties, in short:

* `ThreadHasSession`, `SessionIdAgrees`, `RunningSessionIsOpen`: the three parties
  agree, at every step and after any crash or lost answer.
* `StopFlagOnlyInJoin`: `sleepOrExit` is shared with the application's own retries; a
  flag left up would abort API calls and kill the next thread.
* `NoThreadWhileClosing`: what makes the accesses to `mSessionID` without a common lock
  safe is the join, and only the join.
* `RoomWhenAlone`: between the look at the queue by a resume (1305) and the license that comes
  back from the web service, only a living thread can have filled it.
* `QuietWhenPaused`, `PauseKeepsSession`, `CleanExitClosesSession`: pause and security stop.
* `ThreadEndIsReported`, `ExpiredIsRenewed`: the thread never gives up silently.
* `StopTerminates`, `CallsReturn`: nothing waits for ever, but for a thread that began its
  detection on a counter at 0 and what waits for it (`Stuck`). These two and `ExpiredIsRenewed`
  are violated without that exception.
* `OverrunBounded`, `IsFairTimedCall`: the retries and their deadline.
* `DeadlineIsExpiry`, `LockedOnlyAtDeadline`, `KeepsRenewing`: the renewal in time.
* `LicenseIdAccepted`, `LicenseKept`, `PendingSessionEnded`: node-lock.
* `ResultIsOwn`, `BitsAreDown`, `OperationsEnd`: the handshake.
* `OwnPage`, `IsFlat`: no disciplined access on a wrong page, whatever came before, and the strategies
  can be used as if there were no pages.
* `AcceptedFits`, `FieldIsOwn`, `HeartBeatKnown`: the strategy is the one of the controller,
  decodes each field to its own bits, and the mode is what the controller is in.
* `MeasuredIsReal`, `OneRetry`, `SpinEnds`: the frequency.
* `PeriodsOrdered`, `RefusedHasNoEffect`, `LoggerPassesAll`, `LogIsAsReported`: the settings.

For each of them `PROJECT.json` names a mutant, a plausible bug written next to the
definition it replaces (`\* Mutant: ...`), under which TLC finds it violated.

### Bounds

* `DrmSession`: four session ids. The manager, the controller and a request hold three
  different ones at most; the fourth is open at the service after a lost answer. When all
  are open, an `open` can only fail, which it may do at any time. There is no other bound:
  the number of calls, crashes, retries and licenses is unlimited. The violation runs
  use three ids and no crash: they need none.
* `LicenseRequest`: four profiles (with, without, with both periods, with no time),
  timeouts up to 8 s, tokens of 0, 1 and 5 s. The long period is longer than the short
  one and both fit several times into the timeout, so that each comparison is met on
  both sides and at equality.
* `LicenseRenewal`: licenses of 4 and 7 s, so a renewal can be longer or shorter than
  the license it follows, periods of 1 and 3 s.
* `NodeLock`: three licenses, one of them refused: one in the file, one in the manager,
  one answered. Accepted licenses are symmetric.
* `DrmController`: no constants; the six commands and all controllers.
* `DrmRegisters`: one IP, a license file of 11 words (header and one IP), two read-only and three
  read-write mailbox words, enough for every kind of line to exist and every access to have
  more than one line where it can. The controllers are 3.0.0, 3.1.0, 3.2.0 and an unknown
  3.3.0, each with a word that does or does not look like a version at the foreign place. All
  accesses of all five strategies are run.
* `FrequencyDetection`: rates 2 and 3 (the configured one and another), a period of 4,
  lateness 1, two lengths of licenses just above the assumed minimum, so that the end of a license
  falls at every place, and a modulus just above a license's counts between two samples.
* `DrmParameters`: periods 0, 1, 2 (equal, ordered, refused), two verbosities on both sides
  of the default, two members per call (`MaxKeys`) and any number of calls; three mailbox
  words, so that a write can fit, not fit, or be cut.

### Fairness

* `DrmSession`: weak fairness of each thread, because both are scheduled and each step
  ends (a curl exchange by `CURLOPT_TIMEOUT_MS`, a retry loop by its deadline, which is
  what `LicenseRequest` shows; the loop of the detection because a license in the controller counts
  down and none can be installed while the thread has the mutex, which is what `SpinEnds` shows - with
  no license at the first look `BgSpin` is not enabled and nothing is assumed of it). Strong fairness of `BgAnswer`, because the thread
  alternates between request and backoff and its deadline ends that. No fairness for
  API calls, expiry, positive answers, or reads that fail.
* `LicenseRequest`, `LicenseRenewal`: the call or the clock goes on. `TimedCall` asks for
  the same of its own steps.
* `DrmController`: weak fairness of the library's steps, timeouts included. The
  controller is under no obligation.
* `FrequencyDetection`: weak fairness of the clock and of the thread, not of its failures.
* `NodeLock`, `DrmRegisters`, `DrmParameters`: none; they have only safety properties. Without fairness
  `IsFlat` is the safety part of the refinement.

Deadlock is checked everywhere but where the system really stops: a thread that ends
(`renewal`), a detection that is over (`frequency`), a controller that is refused
(`registers`), and in the violation runs of `DrmSession` and `DrmRegisters`.

## 4. Proofs

All proofs hold for every value of the constants, under the assumptions named in the
modules: the empty id is not an id (`IdsAssumption`), faults and crashes are drawn from
the named sets (`FaultsAssumption`), periods, timeouts and validities are natural numbers
(`ProfilesAssumption`, `ValiditiesAssumption`), refused licenses are licenses and the two
file contents "none" and "partial" are not (`LicensesAssumption`), a license outlives the
two samples of an attempt (`DetectionAssumption`), a license file holds a header and one IP
at least, which the library checks before it writes one, and all sizes are natural numbers
(`SizesAssumption`), and the accesses are those of the strategies (`TablesAssumption`, below).

Every safety property of every passing run is stated by a theorem.

* `DrmSession_proofs`: every safety property of the run `session`, invariants and action
  properties (`RoomInv` for `RoomWhenAlone`: no license without a session, and room while the
  application asks for one with no thread beside it). The invariants are not inductive one by one. `IInv` adds to `TypeOK`:
  `FutureInv` (the future is valid exactly while a thread exists, and what the stop flag
  says of the application), `SessionInv` (thread, manager, controller and service on one
  session, or `cut` while the session runs), `AppInv` (what each place of the application implies: in `end` and while
  closing there is no thread, in `check`, `wait`, `spawn` the session runs), and
  `RequestInv` (the ids in requests and answers under way). One lemma per action, then
  one `PTL` step.
* `LicenseRenewal_proofs`, first part, about `LicenseRequest`: `OverrunBounded` and
  `LongWaitFits` from `BudgetInv`, which relates the wait to the deadline at each place; and
  `RequestIsTimedCall`, the safety part of the refinement: `Init` maps to `Timed!Init`, every
  step to a step or a stutter.
* `NodeLock_proofs`: the types and the three properties of the run. `IInv` adds where a session id can come from
  (`IdOfFile`, `NoIdYet`: a manager's id is that of its license file unless the file was
  cut short, so the file that is read again is never refused), and that running, mode and
  place fit (`RunningHasMode`, `MeteredIsReady`, `AskingHasNoFile`).
* `DrmController_proofs`: `ResultIsOwn` and `BitsAreDown`. `IInv` adds `CommandInv` (what is
  in the register at each place), `LeftInv` (a command of the second kind stays only
  after an early end), `BitsInv` (which bits can be up) and `OwnInv`.

* `LicenseRenewal_proofs`, second part: the three invariants of the run `renewal`, for a process that set
  the licenses it runs on (`~ResumeElsewhere`). `IInv` ties `mLicenseDuration` to the
  license that ends last: it is the queued one, or the current one, at most one second into
  its life; with it the sleep ends when the queued license has become the current one.
  The types of the calls come from the first part.
* `FrequencyDetection_proofs`: `OneRetry`, for every rate, period, lateness and license: from
  the second attempt on the queue is empty and the counter only goes down (`GoesDown`); and
  `MeasuredIsReal`. `RealInv` bounds what the counter has lost by the time between the two
  looks at the clock, at each place, in a multiplication by the rate: at least the rate times
  the sleep, at most the rate times the span and the lateness. The quotient that is rounded
  up then lies between (`Estimated`), and the modulus changes nothing because the ticks
  between two samples fit it (`DetectionAssumption`).
* `DrmParameters_proofs`: `PeriodsOrdered`, `LoggerPassesAll`, `LogIsAsReported` and the action
  property `RefusedHasNoEffect`, for all values, paths, levels and mailbox sizes.
  `LogIsAsReported` needs `SinksInv`: while the process lives and the log file is where the
  settings say, the sinks are, place by place, the ones the settings make.
* `RegisterAccess_proofs`: `OwnPage`, and `IsFlat` as a refinement theorem, for all sets of
  accesses as the tables make them (`AccessesAreTyped`). `IInv` says which selections are
  still to be made and that after the first of a disciplined access the page is its own.
* `DrmRegisters_proofs`: every safety property of the run `registers`, for all numbers of IPs
  and sizes of files.
  - The composition first: every step of `DrmRegisters` is a step of `RegisterAccess` or leaves
    it alone (`StepIsAccess`), because each access it begins is one of the tables; so
    `Spec => AccessSpec` (`RunsAccesses`), and `OwnPage` and `IsFlat` carry over.
  - The accesses are typed (`TablesAreTyped`), for all sizes: the line a register starts at
    comes from a recursive function, and a witness of its equation (`First320`, `First300`)
    shows that it exists and that its values are lines. `TablesAssumption` only gives the
    two constants of `RegisterAccess` their values, the accesses of the five strategies and
    their pages.
  - The tables: what the five modules instantiate is one set of definitions (`Copies`), so
    3.1.0 and the 3.2.x have the methods of `Strategy_v3_2_0` but for one file
    (`MethodsTable`); none of them throws when the license fits (`LaterIsComplete`); with each
    strategy the detection reads fields of one bit and one line, but for one that 3.0.0
    does not have (`StatusTable`).
  - `HeartBeatKnown` from `LibraryInv`: the value read last is the one of the controller
    until it is used (`Fresh`, in `DetectInv`), although the controller moves on, because the
    busy bit is only looked at after the activation; `KnownInv` says what each step of the
    detection has found out.
  - `AcceptedFits`: the selected strategy has read its own version (`SelectInv`). A foreign
    word that looks like a version is that of 3.0.0, which the HDK check refuses.
  - `FieldIsOwn`: field by field, the mask of the one table is the range from the LSB to the
    MSB of the other (`PositionsAre`, `MasksAre`, `RangesOfFields`), and the bits in a range
    are counted from its first (`BitsOfRange`); the sections of a metering file are computed for any number of IPs
    (`SectionsAre`), with the cardinality of the one for the IPs.

Only model-checked: liveness (`StopTerminates`, `CallsReturn`, `ExpiredIsRenewed`,
`KeepsRenewing`, `OperationsEnd`, `SpinEnds`) and the fair refinement `IsFairTimedCall`, all out
of the prover's reach, and the four violations.

## 5. Findings

1. `session_stale_id` (1335): after a failed close of the pending session `activate` opens
   a new one, but `mSessionID` still has the old id: the license of the new session is
   refused, and so is that of every later `activate`.
2. `session_dead_thread` (1212): the future of a thread that ended with an error is still
   valid, so `activate( true )` succeeds without a thread.
3. `node_lock_truncated` (1067): one manager opens the request file and does not get it
   written - the save throws, the process is killed, or the close fails unseen
   (`source/utils.cpp:157`) -, and a later manager takes it for complete.
4. `registers_error` (`HAL/DrmControllerRegistersStrategyInterface.cpp:340`): the position of
   a byte is taken for that of a bit, so only the error of the activation is decoded right.
   The waits pass errors of the VLNV extraction and of the timer load, and
   `checkLicenseTimerInitLoaded` (`HAL/DrmControllerOperations.cpp:967`) never sees that the
   controller was reset.

Further disagreements the models contain, for which no run is kept:

* a background thread that begins its detection when the license has run out (1132) spins
  with the controller mutex held: no call that needs the controller or joins the thread returns
  any more, nothing is reported, and no license is asked for;
* an error code of the end-session command is swallowed by `activate` (1443), which goes on to open
  a session over the one that runs, and by the constructor in node-locked mode (611), which
  goes on with it;
* the mailbox is read on another page when the callback of its page write fails
  (`HAL/DrmControllerRegistersStrategy_v3_2_2.cpp:1150`) under `getDesignInfo`; `OwnPage` and
  `IsFlat` are about the other accesses;
* the room in the queue is looked at before a web request and used after it (1305): a
  thread that is still alive may fill it meanwhile (`RoomWhenAlone` excludes that thread);
* the retries of the license loop go on with a token that may have expired (933); the
  refusal is not retried;
* a process that resumes on a full queue has no license duration (1246), and its first renewal
  is given no time; `LicenseRenewal` has it with `ResumeElsewhere = TRUE`;
* after a metering extraction that timed out the next one writes nothing and returns the
  earlier values (`HAL/DrmControllerOperations.cpp:681`); `ResultIsOwn` excludes it;
* a `ws_request_timeout` of 0 is refused and stays in force (1974): later requests fail at
  once; `RefusedHasNoEffect` names it as the exception;
* `log_file_verbosity` without a log file (1831) reaches past the sinks; the model has it, and no
  property speaks of it.

## 6. Not modelled, and what could follow

* Hardware reports (`printHwReport` and the `print...HwReport` methods of
  `HAL/DrmControllerRegisters*.cpp`), texts of errors and exceptions, `DrmControllerDataConverter`:
  wording and pure functions on strings. What the metering report relies on, the
  cut of the file into sections, is in `FieldIsOwn`.
* The license timer load in the heart-beat mode and the wait in microseconds modulo 2^32
  (`HAL/DrmControllerOperations.cpp:580`): all callers pass small constants.
* Two managers on one controller, and concurrent calls on one manager: the lock meant for the
  first returns at once (510, 523) and the tests call the case unspecified. The background
  thread reads the two retry periods (1250) without a lock while `set()` may change them
  one after the other; it may so see a pair that was never set.
* Settings that are only stored, and `get()` of what is read from the controller.
* The C wrapper and the bindings (one call is one call, with exceptions turned into
  codes), log formatting, JSON and HTTP, the systemd service and the board drivers.

Next in line: two managers sharing a mailbox with the lock enabled, `DrmController`
composed with `RegisterAccess` (a command write skipped on a read-back of a wrong page), and
concurrent `set()` and renewal.
