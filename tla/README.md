# aes67-sip: a verification development

TLA+ models of the gateway that carries AES67 audio to SIP calls and mixes the
intercom's party lines: what is modelled, what TLC checks of it on small
instances, and what TLAPS proves of it for all. Source references are relative
to the repository (`src/` is its source directory).

## 1. The system

An AES67 device gives the appliance a set of capture and playback channels. Some
of them belong to **lines**, each with one SIP call to a PBX; some to
**endpoints** (beltpacks, panels) whose microphones and ears are mixed into
**party lines** by the intercom matrix. One further SIP call, the **conference
leg**, brings a remote conference into the party lines that claim it.

| Part | State it keeps | Operations | Meets |
|---|---|---|---|
| `LineManager` (`src/bridge`) | `runtime_` (state, last dial, ptt timers of each line), `conference_held_`, the applied configuration | `apply_configuration`, `supervise`, `call_action`, `conference_action`, the engine's callbacks, `line_status` | calls the engine (blocking), the router, the matrix, the daemon; is called back by the engine |
| `PjsipSipEngine` (`src/sip`) | `calls_`, `ports_`, accounts, the job `queue_` | `dial`, `answer`, `hangup`, `add_line`..., media set-up and tear-down, notifications | pjsua2 (its own thread calls back), `LineManager`, `AudioRouter` through the port |
| `StubSipEngine` | simulated calls | the same, and `tick`, `simulate_*` | `LineManager` |
| `PjsipAudioPort`, `AudioRouter` (`src/sip`, `src/audio`) | per line: gate, rings, resamplers, flush and primed flags | `process_block` (audio thread), `pull_to_sip`, `push_from_sip` (media thread), `set_line_*`, `add_line` | backends, `SpscRing`, `Resampler`, `IntercomMatrix` |
| `SpscRing` | buffer, two indexes | `write`, `read`, `discard`, `reset` | the audio and the media thread |
| `IntercomMatrix` (`src/matrix`) | `runtime_` (the resolved routing), two conference rings | `configure`, `clear`, `process`, `push/pull_conference_audio`, `status` | `AudioRouter`, `LineManager` |
| `Config`, `App`, `ApiServer` | the configuration and its file; the life of the subsystems; HTTP requests | `load`, `save`; `initialise`, `restart`, `run`, `shutdown`; `POST /api/config`, `/api/lines/...` | everything |
| `DaemonClient` | none | REST calls that create and remove sources and sinks | the external AES67 daemon |
| audio backends (`src/audio`) | two ALSA streams, the sample format, two clocks | `open`, `close`, `read`, `write`, recovery | `AudioRouter`'s thread, the RAVENNA driver |
| web UI, util, log | - | pages, helpers | - |

What is hard, and what has to hold:

* **Calls.** Three kinds of thread touch a line's call: callers that wait for a
  result for five seconds and then go away while their job stays queued; the
  runner, which executes jobs in order; and the library's thread, which reports
  what the network did and may only leave jobs behind. A line must not get two
  calls, lose a call nobody ended, keep one nobody can end, pass audio without
  one, or show the state of another. The supervisor decides on what it read
  before it let go of the locks.
* **Audio of one line.** Gate, flush request, primed flag, rings and codec rate
  are moved by four threads, mostly without a common lock. What was said in one
  call must not be heard in another, and the resamplers must fit the codec.
* **Rings.** Lock-free, with indexes that wrap.
* **Accounts.** The runner makes and destroys a line's account while the library's
  thread reports on it; applies and edits give up after five seconds and their
  jobs do not. A line must not be registered twice, nor after it was switched
  off, and what is shown must be what the registrar said.
* **Locks.** A worker waits for the runner, the runner for the library's lock, the
  library's thread for `LineManager::mutex_`; the stub engine has a lock of its own.
* **Two clocks.** A block of the device is rarely a whole number of codec frames;
  what is left over, and the resampler's place in the stream, are carried from
  block to block for as long as a call lasts.
* **The matrix.** Routing is replaced while a block is mixed; names, ids,
  positions and device channels are four ways to mean the same hardware.
  Nobody may hear himself, everybody hears the others once, nothing else gets
  on the channels.
* **Configuration and life cycle.** Applied in many steps, some of which fail,
  while calls are up; the file survives a crash or does not.
* **The device.** Its driver stops, restarts and refuses; whoever finds out is the
  audio thread, whoever retries is the main thread, and only one may touch it.

`PROJECT.json` lists the hazards one by one, at their lines, with the properties
that cover them and, where none does yet, why.

## 2. Modules

| Module | Models | Extends |
|---|---|---|
| `LineCallbacks` | `LineManager`'s callbacks: state and gate | - |
| `PjsipEngine` | `PjsipSipEngine`: calls, ports, queue, runner, the library's thread | `LineCallbacks` |
| `CallControl` | `supervise`, `call_action`, `conference_action` over that engine; properties, fairness | `PjsipEngine` |
| `CallInvariants` | the inductive invariant of the composition | `CallControl` |
| `CallControlProofs` | types; the invariants and what follows from them | `CallInvariants` |
| `LineLife`, `LineLifeProofs` | a line's account: from an apply or edit through the job queue to the registrar and back; proofs | - |
| `StubEngine` | `StubSipEngine`: simulated calls, its mutex and the manager's | `LineCallbacks` |
| `LineAudio`, `LineAudioProofs` | one line of `AudioRouter` and its port, with four threads; proofs | - |
| `Resampler` | the conversion of a stream, block by block, and of the whole at once | - |
| `PlaybackClock`, `PlaybackClockProofs` | what a block takes of the call and what its resampler makes of it; proofs | `Resampler` |
| `SpscRing`, `AudioFifo`, `SpscRingProofs` | the ring step by step; the queue it implements; proofs | - |
| `MatrixPlan` | which configurations are refused, and what an accepted one routes | - |
| `IntercomMatrix`, `MatrixProofs` | configure, clear and process at work with the conference leg; proofs | `MatrixPlan` |
| `EndpointStreams` | which daemon streams a configuration asks for | - |
| `ConfigStore` | the file, and `Config::save` as the threads go through it | `EndpointStreams` |
| `Configuration`, `ConfigurationProofs` | a configuration's way from a request or the file into the running gateway and the daemon; proofs | `ConfigStore` |
| `RavennaBackend` | the RAVENNA device: opening, fallback, recovery; its driver | - |
| `AudioPath`, `AudioPathProofs` | `App::run`, `App::shutdown` and the router's thread over that device; proofs | `RavennaBackend` |
| `MCCallControl`, `MCLineLife`, `MCIntercomMatrix`, `MCConfiguration`, `MCPlaybackClock` | symmetry; the configurations and rates TLC is given | |

### Calls: `LineCallbacks`, `PjsipEngine`, `CallControl`

`call` is the library's view: phase, the line the `SipCall` names, whether its
media is active. `slot`, `port` and `queue` are `calls_`, `ports_` and `queue_`;
`reply` is the future a caller waits on. A job of the runner is one action,
except that `dial` and `setup_line_media` are two: between placing a call and
storing it, and between looking the call up and connecting its port, they hold
no lock and the library's thread gets in. `Released` is what dropping the last
`shared_ptr` to a live call does: pjsua2 ends the call and reports nothing.

* Jobs posted by the library's thread and requests of callers share the queue.
  `GiveUp` is the five second timeout: the job stays, nobody waits.
* An answered call settles its media and state before `answer` returns, so its
  callbacks and their jobs run inline; `RunHangupAtOnce` is the same for a call
  the library can end at once.
* `on_line_state` is one action though it takes two locks one after the other:
  nothing reads state and gate together.
* A hold, by either side, is the media of the call stopping and starting
  (`MediaChanged`); `set_hold` and `send_dtmf` change nothing else.
* What the library does is external, taken from how `src/sip/pjsip_engine.cpp`
  uses it. Every enabled line has an account and a target, and configuration
  does not change in these modules.
* The supervisor's timers are flags: `due` says five seconds have passed,
  `armed` that `ptt_hangup_at_ms` is set. Whether an endpoint talks is free.

### A line's account: `LineLife`

What `config_` says of a line is one of three words: no such line, switched off,
on. A request is about to take the lines (`apply`), asks the engine (`ask`) or
waits for it; what it still asks for is a set of jobs: the lines of `config_` in any
order, and last the leg. Lines that are gone are not among it: no code tells the
engine of them. The main thread makes one such apply, at the start, when the API is
open already. The engine is started right before it takes the lines; what is asked
of the engine earlier is asked in vain (`Running`). The leg is applied as the code
does it: looked up under `mutex_`, `config_` read without it, the entry raised under
it, the engine asked with no lock held, the entry of a removed leg erased at the end.

Three histories say what a switched-off line may still wait for. `owed` are the lines
`config_` has switched off and no request has handed to the engine since;
`crossed` the requests that met another under way; `muddled` the lines a crossed
request handed over last. `Registering` are the lines whose account has a registrar
that answers.

`live` is what the registrar knows, by the address of the account;
`context` and `index` are `lines_` and `account_index_`, which are emptied and
filled in sections of their own, with the library's thread in between.

* *The runner's jobs.* `add_line` is `Release`, `Forget`, `Create`, `Enter`, cut
  where the library's lock or `state_mutex_` is let go. An unknown account is
  found before the old one is released (`RefuseLine`). The jobs that touch nothing
  here (reloading the accounts, hanging up) are the time that passes before the next
  step, or the timeout that ends an apply (`ApplyFails`).
* *The library.* pjsua delivers callbacks with its lock held, and creating and
  shutting down an account take it; both are external. `RegState` is the callback
  with its look-up, `Report` what it does after it has let go of
  `state_mutex_`. A callback about a call waits for `LineManager::mutex_`.
* *Giving up* takes the thread out of the wait and leaves the job. An apply whose
  accounts are not taken in time ends before any line is handed over.
* `heard` is history: what was reported last since the line was switched off, none again
  when the registration lapsed. What a callback reports is chosen where it is first
  used, in `Report`.

### The simulating engine: `StubEngine`

Each operation is two steps: the engine's mutex is taken and the line changed,
the manager is told and the mutex let go. `LineStatus` takes the manager's
first. Its other mutex, the router's, is never held while another is waited for.

### The audio of one line: `LineAudio`

The number of a call stands for its samples. `process_block` is a step per
access another thread can get between: snapshot, look at `pending_rate`, rebuild
the resamplers, flush, send, play. `Connect` .. `OpenGate` are
`setup_line_media` and `on_media_start` in their order, `RemovePort` and
`MediaStop` those of `teardown_line_media`; `CloseGate` is `on_line_state`;
`Reapply` is `add_line` during `apply_configuration`, after which a block
still running concerns a line nobody has any more.

One assumption is made of time: a block takes a millisecond, so none that saw
the gate of one call open is still running when the next call's media is
connected (the guard of `Connect`). A block that saw it closed may be.

### The two clocks: `Resampler`, `PlaybackClock`

A frame is its number in the stream, an output frame the set of frames it is made
of, each with the coefficient or weight it went in with. `Whole` says, without
blocks, history or carried position, what output frame n is made of: `AsOneStream`
compares the two frame by frame. The coefficients themselves, and that there
are as many per phase as `Taps`, are all of the filter that is left out.
`PlaybackClock` feeds it as `process_block` does, with `rx_accumulator`,
flushes, and changes of the codec's rate; `Cut` is the room a block has for what was
converted, and `played` what went into it. `Streams` numbers resets modulo a small
number, so that a frame from before one is told from a frame after.

### `SpscRing`

Each load, each copied sample and each store is a step of its own. With acquire
loads and release stores that is enough: an old index loaded late is a current
one loaded early, and no property depends on more. `IndexRange` stands for 2^64
and is, as there, a multiple of the capacity. The FIFO `AudioFifo` moves whole
batches; `Waiting` maps the ring to it.

### The matrix: `MatrixPlan`, `IntercomMatrix`

`Accepted` is the conjunction of the refusals; `Contributions`, `Listeners` and
`Owned` are what `configure` resolves. A mix is the *set* of what is summed on a
channel: who is heard, by which line, through which binding. Gain, level and
clipping are abstracted. A block takes the routing once, under the mutex;
before that the router has written the SIP lines' channels and served the
leg. A block of conference audio is the number of the leg's call at the time, 0
between calls. Samples go by whole blocks, and each `reset()` in `clear()` is
one step. The leg is enabled and not muted.

### Configuration: `EndpointStreams`, `ConfigStore`, `Configuration`

A document is a record of what streams, the conference leg and refusal depend
on. An undiallable leg stands for every refusal, which `MatrixPlan` has in full.

* *The file.* `content` is by inode, `path` and `temp` are the two names. A save
  is a step for each of opening, writing and renaming, with the fallback that
  truncates the target. All savers use the one temporary name, so a writer
  may find its inode renamed, removed or truncated by another.
* *Requests* run on HTTP workers, `Restart` (`POST /api/system/restart`) among them;
  the main thread applies what `Boot` has loaded while the API is already open.
  Between the steps of an apply, each a put of one stream or the removal of the
  old ones, any other thread may go on: `config_` has no lock, and `mutex_`, under
  which `endpoint_stream_ids_` is replaced and the streams of endpoints that are gone
  are deleted (one step here), is not held from one step to the next.
* *The leg* is applied in the steps of `apply_conference`: looked up under `mutex_`
  (`LookUpLeg`), `config_` read without it (`ReadConference`), then either taken from
  the engine (`DropLeg`) and erased (`EraseLeg`), or put in (`RaiseLeg`) and registered
  (`RegisterLeg`), which the engine may refuse or time out on: that is logged only.
  `leg` is the manager's entry, `registered` the engine's. `clashed` are the threads
  that were in it with another beside them; `settled` says whether the last apply of
  the leg had it to itself and went through.
* *Failures.* `around` says what the gateway runs in: a directory that can be
  written, a disk that takes what is written, a daemon and an
  engine that take what is put to them (`answers`). Where they do not, every single put,
  delete or registration may be refused, which the code logs and passes over.
  `ApplyFails` is a refused document or, there, accounts the engine does not take.
* *Crash* ends the process at any step; the file and the daemon's table stay.
  `EditByHand` replaces the file while the gateway is down.
* An endpoint with `auto_create_streams` off takes its id like the others and is passed
  over (`PassOver`).
* `applied` is history: the document of the last complete apply, if no other
  thread put or removed a stream, or changed `config_`, meanwhile (`alone`).
* The daemon is set to be configured by the gateway. That the accounts and the
  router follow an apply is not modelled here; a leg that is held is in
  `CallControl`, what an apply does to running audio in `LineAudio`.

### The device and the life cycle: `RavennaBackend`, `AudioPath`

`main` is where the main thread is in `App::run` and `App::shutdown`, `thread`
where the audio thread is in `AudioRouter::run`; the fields of the backend have
their names, handles being the state ALSA reports for them, and two more: playback
that was filled with silence and not triggered is *primed*, a stream whose state
`snd_pcm_wait` reports is *faulted*. Opening is a step for each stream, whichever
thread does it, so a device may vanish half way; the fallback to 16 bit closes both
and begins again. `Detail` is the main thread's `detail()` after it created the
audio thread. With SIP disabled (`sip`) the lines start without an engine.

* *The driver* is external. It moves frames while its engine ticks and the clock
  is locked, and triggering either direction makes the engine run, as the
  comments at `start_stream` and `recover_if_stalled` have it. What may go wrong
  (device taken, clock lost, daemon restarted, stream disturbed) costs one of
  `Disruptions`; what heals does not.
* *Time* is two flags: two seconds without a frame (`quiet`) and fifteen since a
  recovery (`recent`). As in the code, a successful opening clears the second.
* *The process* may be ended by a signal in the main loop, and is started again.
  Crashes elsewhere are in `Configuration`.
* *Overruns and underruns* show in the transfer, which prepares the stream and triggers
  it again (`Restarted`, `PrepareFails`), or in the wait before it, which returns
  without doing either (`ReadFails`, `WriteFails`); `Disturbs` chooses.
* Conversion of samples is the format it goes by.

## 3. Runs

| Run | Instance | Question |
|---|---|---|
| `CallsOutbound` | conference leg, supervisor, one operator, two call slots, queue of two, nobody calls in; fair | `StateIsOfItsCall`, `NoCallDropped`, and `KeepsTrying` under fairness |
| `CallsPtt` | push-to-talk line the PBX calls too | `GateNeedsCall`, `OneCallPerLine`, `NoOrphanCall` |
| `LineAudio` | three calls, rings of two, two rates, edits and renegotiation | `HearsThisCall`, `PlaysThisCall` |
| `Ring` | three slots, six index values, batches of up to three | `NoSlotShared`, refinement of `AudioFifo` |
| `Matrix` | four channels, three endpoints of different shape; 15 configurations to route, 8 to refuse, one that clears; rings of two | `MixMinus`, `HeardOnce`, `OnlyOwned`, `ConferenceWhereClaimed` |
| `Configuration` | one worker and the main thread, four documents, two files; three surroundings | `FileWhole`, `FileIsTruth`, `LegIsTruth`, `ValidStays`, `ServesUnlessRemoved`, and `StartsAgain` under fairness |
| `AudioPath` | four disruptions, either format, with SIP and without, in any state of the driver | `OneFormat`, `OpensAlone`, `LinesBetweenThem`, and `ReturnsUnlessLost` under fairness |
| `LineLife` | a line and the leg, one worker and the main thread, two addresses, one job waiting | `AccountThereWhenAsked`, `RegisteredOnce`, `SwitchedOffIsOff`, `StatusIsHeard` |
| `Resampling` | four taps; a device at 18 and codecs at 2 to 18, periods of twelve: copied, filtered by 9, 6, 3 and 3/2, interpolated by 9/8; seven blocks a call | `AsOneStream`, `FitsCapacity`, `KeepsPace`, `EveryBlockFull` |
| `HoldRace` | as `CallsOutbound` | fails: a hang up of the leg does not hold it down |
| `ConferenceStale` | one claiming line, one call | fails: the conference hears what was queued before its call |
| `StubDeadlock` | one line, one caller, one status request | fails: the two wait for each other |

The failing runs are findings; `PROJECT.json` quotes the sentence of the
repository each one contradicts. In words:

* *The hold.* `supervise` reads `conference_held_`, lets go of the lock, and
  dials. A hang up in between finds the leg idle and asks nothing of the
  engine; the dial then raises the leg although it is held.
* *The conference's delay.* While the leg has no call nobody takes out what
  `process` queues for it. After 170 ms the ring of 8192 samples is full, and a
  call that starts then hears old audio, and stays that late, because the
  ring is filled and emptied at the same rate. `ConferenceHearsNow` lets the one
  block pass that is in the ring by ordinary pipelining.
* *The stub's deadlock.* `line_status` asks the engine with `mutex_` held. A stub
  that is dialled, or whose simulated call gets on, has its own mutex and wants
  `mutex_` to tell of it. (The PJSIP engine's `call_status` waits for nothing but a
  map.)

Five passing properties say where a claim of the repository, or the obvious wish,
ends; without any one of their exemptions TLC refutes each.

* `NoCallDropped` is checked for lines nobody calls. `onIncomingCall` stores the new
  call over the one the line holds (`src/sip/pjsip_engine.cpp:83`, 387), and the
  last reference to a connected call goes; the job of an ended call empties the slot
  by line id (664), whichever call is in it. `docs/DECISIONS.md:54` has "The call
  comes up and stays up until it fails".
* `ServesUnlessRemoved` exempts applies that removed an endpoint. From a, b, c to b,
  c: b is put under the id a had, c under b's; then what was allocated to a is
  deleted by id (`src/bridge/line_manager.cpp:380-386`), and that is b's stream by
  now. c has a second one, under its old id, that nobody remembers.
* `ReturnsUnlessLost` exempts two states nothing in the audio path leads out of.
  `NotReopened`: the engine stops; after two seconds without frames the audio thread
  closes the device and opens it again, and if that fails once, `open_` stays false.
  From then on `read` fails before it gets to the recovery, and the retry of `App::run`
  asks only whether the router runs, which it does. `README.md:233-235` has "No operator
  action is needed". `NotPrepared`: an overrun, underrun or suspension that
  `snd_pcm_wait` reports makes `read` and `write` return before any prepare and before
  `recover_if_stalled` (`src/audio/ravenna_backend.cpp:371-377`, 476-480), each time; and
  playback that was filled with silence but not started (504) never has room, so the
  wait before `writei`, which would trigger it, times out for as long as capture flows.
* `LegIsTruth` exempts two threads in `apply_conference` at once and applies that failed.
  The test of `config_` (`src/bridge/line_manager.cpp:424`) holds no lock, and the
  insertion and registration come after it (444-465): the main thread's apply at start
  reads that the leg is wanted, a worker switches it off, finds no leg and returns
  (425-427), and then the main thread raises and registers it. Nothing is left that would
  take it back until the next apply or edit of the leg.
* `SwitchedOffIsOff` exempts lines that were not handed over, and lines handed over last
  by one of two requests that overlapped. An apply that gives up at the accounts, or is
  refused, returns without a job for any line (`src/bridge/line_manager.cpp:530`): a line
  it switched off in `config_` stays registered, `owed`, until the next apply or edit that
  reaches it. Of two requests at once, the one that read `config_` first may queue
  its job last.

More places where the model shows what the code leaves open. Media that starts
before a call is confirmed opens its gate, a ringing report closes it, and the
confirmation does not open it again (`MediaChanged`, `Ringing`, `Connected`). An edit
adds every line again at 8000 Hz, under a call of 16 kHz as well (`Reapply`). The
fallback to 16 bit is taken whatever the opening failed of, a device that is busy
when the gateway starts included, and stays (`OpenFallsBack`). The fifteen seconds
between two recoveries are never waited for, as opening clears their clock
(`OpenPlayback`). On a full disk the fallback for read-only directories truncates the
good file (`FileWhole` assumes a healthy disk). There, too, the stream is asked whether it is
good before it is flushed, so that a short document may be reported saved and not be on the
disk (`SaveFill`; `FileIsTruth` assumes a healthy disk as well). Two saves at once rename what
the other is still writing (`FileWhole` and `FileIsTruth` are checked with one worker;
with two TLC refutes both). `AudioBackend` is to be called "from a single audio thread only"
(`src/audio/backend.hpp:32`), while `AudioRouter::start` asks for `detail()` when its thread
runs already, and so does every status request: `OpensAlone` says what is left, that
nobody opens or closes beside the thread. The PBX pulls audio from the moment its port is
connected, before the gate opens: `HearsThisCall` speaks of an open gate, because
until the flush those pulls may find what the last call left.

Of accounts: a line that is gone from the configuration stays registered, since nobody tells the
engine. A line moved to an account that does not exist keeps the registration it
had (`RefuseLine`). A success reported before the account is entered is shown as an
error until the next report (`Report` without an account). A job writes its refusal
through the caller's `error` pointer, which is dead once the caller has given up
(`src/sip/pjsip_engine.cpp:755`). Of the stub: an incoming call over a connected one
leaves the media on, switching a line off drops its call with the gate open, and
holding a line without a call shows it "in_call" afterwards (`SetHold`). Of the clocks:
`period_frames` is not checked against the codecs; where a period is not a whole
number of codec frames, a block may convert more than it has room for, which is lost, and
the next ends in silence. So "drift free" (`src/audio/router.hpp:153`) is true of what is
taken and converted (`KeepsPace`) and of what is played only where periods are whole
(`EveryBlockFull`); and the linear fallback shows where blocks end.

**Bounds.** Two call slots give a call and its replacement, or a call and an
intruding invitation, which is what the properties compare. A queue of two lets
jobs of two calls, or a request and a report, wait in either order; the end of a
call is reported whatever the queue's length. Three calls show the
last-but-one's audio as well as the last one's. Rings of two blocks can be
empty, part full and full. One queued job and the runner's give two jobs of a line
at once, a third being asked for, and two addresses let one be used again; the main thread
and one worker are two requests that may overlap (2.1 million states). Periods of twelve
against those rates are one and a third, two, four, eight, ten and two thirds and
twelve codec frames: whole and not, and the third of a frame carried over; four
taps are the fewest the code takes, and seven blocks carry
positions beyond a lap of the history. Six index values are two laps of a ring of three, so
indexes wrap in both states. Two files are the target and
the temporary one; the documents of `MCConfiguration` swap one
endpoint for another that is wired by hand, move the line onto the endpoint's id,
switch the leg, and one is refused; a directory that cannot be written, a full disk and
a daemon that refuses occur apart (0.8 million states). Four disruptions let a device
vanish while its engine is stopped and a stream is disturbed, once more after it
came back, or before and after a shutdown. The shapes and groups of
`MCIntercomMatrix` bind microphones twice, muted and not, in one direction only,
on one and on two lines, and beyond the device's width.

**Fairness** (`CallControl!Fairness`) is weak fairness of the supervisor and of
the runner, which are loops that run for as long as the gateway does; of the
passing of five seconds; and of the end of a call that was hung up, which the
library's own transaction timers force. Nothing is assumed of operators or of
the far end. `KeepsTrying` is checked for a leg nobody calls: with incoming
calls it depends on when the library reports the end of a call whose object has
gone, which the code does not determine. `Configuration` assumes weak fairness of
`Boot` alone: the unit has `Restart=always`, and its start limit is reached only by
a gateway that ends at once, which it does when there is no file to read. `AudioPath`
assumes weak fairness of the main thread (with the start of a new process after a
shutdown), of the audio thread, and of the passing of two and of fifteen
seconds; of the driver nothing, which is why `ReturnsUnlessLost` speaks of
behaviours in which device and clock stay.
`CHECK_DEADLOCK` is left on in all runs.

**Mutants.** Each property of a passing run is violated by a small change of
the code's model, kept beside it under a comment that begins with *Mistake* or
*A mistake*: a dropped look-up, a reference kept, an index stored early, a
refusal forgotten, a position that starts again with each block.

## 4. Proofs

| Theorem | Says | Rests on |
|---|---|---|
| `TypeCorrect` | `TypeOK` of the call control | - |
| `EngineConsistent` | `EngineInv` | `TypeCorrect` |
| `GateSafe`, `CallsSafe`, `NoneOrphaned` | `GateNeedsCall`, `OneCallPerLine`, `NoOrphanCall` | `EngineInv` |
| `StateFollowsCall`, `NoneDropped` | `StateIsOfItsCall`, `NoCallDropped`, for lines nobody calls | `EngineInv`, `OutboundInv` |
| `AudioTypeCorrect`, `AudioApart` | types and `AudioInv` of a line | - |
| `HearingApart`, `PlayingApart` | `HearsThisCall`, `PlaysThisCall` | `AudioInv` |
| `RingTypes`, `SlotsNotShared` | `TypeOK`, `NoSlotShared` of the ring | `RingInv` |
| `RingIsQueue` | `RefinesFifo`: the ring implements `AudioFifo` | `RingInv` |
| `ClockTypes`, `OneStream`, `RoomEnough` | `TypeOK`, `AsOneStream`, `FitsCapacity` of the conversion | `ClockInv` |
| `ConvertsExactly`, `CallKeepsPace`, `BlocksFilled` | `ExactRatio`, `KeepsPace`, `EveryBlockFull` | `ClockInv` |
| `MatrixTypes`, `NeverOneself`, `EachHeardOnce` | `TypeOK`, `MixMinus`, `HeardOnce` | `MixInv` |
| `LinesKeptApart`, `ConferenceKeptToItsLines` | `OnlyOwned`, `ConferenceWhereClaimed` | `MixInv` |
| `ConfigurationTypes`, `StreamsAsConfigured` | `TypeOK`, `ServesUnlessRemoved`, with any number of workers | `Placed`, `ServeInv` |
| `FileKeptWhole` | `FileWhole`, with one worker | `FileInv` |
| `FileHoldsTheTruth`, `ValidFileStays` | `FileIsTruth`, `ValidStays`, with one worker | `FileInv`, `TruthInv`; `SoundInv` |
| `LegAsConfigured` | `LegIsTruth`, with any number of workers | `LegInv` |
| `AskedSafely`, `LifeTypes`, `NeverRegisteredTwice` | `AccountThereWhenAsked`; `TypeOK`; `RegisteredOnce` | `LifeInv` |
| `ShownAsHeard` | `StatusIsHeard` | `LifeInv` |
| `SwitchedOff` | `SwitchedOffIsOff`, with any number of workers | `OffInv`, `LifeInv` |
| `PathSafe`, `PathTypes`, `FormatsAgree`, `LinesSafe` | `OpensAlone`; `TypeOK`; `OneFormat`; `LinesBetweenThem` of the audio path | `PathInv` |

Every invariant a passing run checks is proved, and so are the ring's refinement and
the action properties `NoCallDropped` and `ValidStays`. The theorems hold for every value
of the constants that satisfies the named `ASSUME` of the module, which TLC evaluates
in the runs: any set of lines, of calls, of HTTP workers; any queue; any number of
calls, any rates, any ring size; any configurations of the given shape. Those
assumptions say of the code:

* `StreamAssumption`: two lines of a document do not share a stream id, and there are
  ids enough for its endpoints. The first is the administrator's to keep, nothing refuses
  two lines that do; the second is a bound, the code counts on without one.
* `StoreAssumption`: a file that is created has an inode that is not the target's and
  that no other writer has open, however many there are.
* `ClockAssumption`: the ratio is that of the two rates (the constructor divides both
  by their greatest common divisor, though nothing rests on lowest terms).
* `TapsAssumption`, `RingAssumption`: a frame is not silence; the index range is a
  multiple of the capacity. `LifeAssumption`: the threads have different names, and the
  leg is there or is not (it is not "off").

*Calls.* That the gate needs a call is not inductive: a job could raise the gate
after the slot was emptied. What excludes it is that `slot[l]` is emptied only by
the runner, which also connects ports: a runner on its way to connect
(`ConnectNeedsCall`) has a slot that others may overwrite but not empty. From
this, gate needs port (`GateNeedsPort`) and port needs call (`PortNeedsCall`). One call per
line follows from slots and the runner holding only calls of their own line
(`SlotsHoldCalls`, `RunnerHoldsCall`), every live call being held by one of the two
(`NoOrphanCall`), and only invitations getting into the slot of a line the runner
is busy with (`OnlyInvitesIntrude`).

*Calls nobody makes to us.* What an operator sees follows the call's reports, which
reach a cell by line id, and the job of an ended call empties a slot by line id: both
would be somebody else's if a line could have a second call on its way. With
`Inbound = {}` it cannot: every call the library knows of is in its line's slot, or is
the one the runner is about to put there (`AllHeld`), the slot the runner is busy with is
empty or that call's (`NobodyIntrudes`), and a line has at most one job that forgets an ended
call, which finds an ended call (`OneEndEach`). `OutboundInv` is the three. The premise is that
of the run: with incoming calls both properties are false.

*Audio.* With the gate open and the line primed, `tx` has this call's samples
only; with the gate open, `rx` has, or a flush is due; a block that saw the gate
open works for this call and has its flush still ahead or nothing older to
play. `AudioInv` is these parts; each of the four threads keeps it.

*Ring.* `RingInv` counts: what waits and what the writer has taken on fit the ring, what
the reader has taken on waits. So the slots the two are at are at a distance below the
capacity, and slots at such a distance are different (`Apart`: numbers closer than M
leave different remainders), wherever the indexes have wrapped, because their range
is a multiple of the capacity. What the writer has copied is where it will be
published, what the reader has copied where it read it; so publishing appends a batch
to `Waiting` and reading takes its front, and the steps in between are stutters.

*Playback clock.* The next output frame lies `produced * down` parts along the stream, of
which an input frame is `up`. `Placed` says that base (polyphase) or position and the
frames behind it (linear) are that place, `Spaced` that it is past the blocks that are done and less
than an output frame past what has been fed, `Remembered` that history and buffer have the
stream's frames under the right numbers, silence before the first. From the second follow the
exact ratio and the room a call needs, by two facts about quotients (`DivBelow`, `CeilingAbove`). With
`Clocked`, which equates what was fed and is owed with what the device has counted, they
give `KeepsPace`, and for whole periods `WholePeriods`, that every block converts just what
it has room for, and then `EveryBlockFull`. `AsOneStream` is the
meeting of two enumerations: the taps that reach a frame of the block or the history, and the frames
whose coefficient is one of the filter's (`TapOfFrame`, `WindowIsWhole`); nothing rests on the
ratio being in lowest terms, or on how the stream was cut.

*Matrix.* `MixInv` says that the routing in force, and the one a block took, was accepted,
and what the channels carry at each step of the block: what the lines left there, then
what that routing makes of it (`Carried`). The rest is about accepted routings, whatever their
size. Its terms join two different ids; that two ids are two sets of device channels is what
`refuse_claimed_twice` and the resolving of positions establish (`BindingDeclared`, `OneClaimant`,
`TermsApart`). Ears and lines' contributions lie within the owned channels, and a channel
that is owned is one of the device's. That a member who is bound twice is heard once rests on
the first of its bindings: `configure` collects a contribution unless an earlier one is the
same, so of those that are the same exactly one is left (`OnceUnlessMuted`, `TermsBetween`).

*The file.* `Placed` is the place of every thread and what it may hold there. `FileInv` follows
one saver: while it writes, its inode is the one under the temporary name, which is not the one
under the file's name; at the rename it holds a whole document, since it was empty when
writing began; and with a writable directory and a healthy disk nobody gets to the fallback.
The main thread saves nothing, so one worker is one saver; `OneWorker` is a premise,
because with two the theorem is false. `TruthInv` adds what has become of `config_`: until a worker
saves, and again once it has assigned what it saved, the file holds the configuration in force (a
line's edit is in `config_` before it is saved, a whole document after).
`SoundInv` says that what is being saved validates, or
has the leg of what it replaces (a line's edit does not touch it), which makes `ValidStays` a
fact about the rename.

*The leg.* A thread at `apply_conference` that nobody has been beside (`AloneAtLeg`) has found the
leg as it is, or has read `config_` as it is unless somebody has changed it since; and who
changed it is on the way to the leg (`SomeoneDue`) or has given up, which unsettles it. So when
all are at rest and the last had the leg to itself, it did what `config_` says (`LegInv`).

*Streams.* `Faithful` says of an apply nobody got in the way of that the streams it has dealt with
are under their ids still. That needs the ids of one document to be different: `IdOfNth` is
the n-th free one, there are at least so many, and the n-th is below the m-th for n
below m, by the least number principle and the sizes of initial segments of the free ids. What is
deleted at the end is what an earlier apply allocated and this one did not, unless an endpoint
was removed, which is what the property exempts.

*The audio path.* `PathInv` adds where the threads may be: an audio thread exists
only while the router runs, and the main thread opens or closes only while it does
not (`Placed`); a backend being opened is not open, one of the threads is at it,
and the stream it has so far is in the format being tried (`Opened`).

*Accounts.* `LifeInv` says that each registered account is its line's in `lines_` or
the one about to be entered (`Held`), that what `lines_` has is registered
(`ContextLives`), and that the index has nothing else, except while the runner is
between destroying an account and dropping its entry (`IndexFollows`): there the line
has no account left to report (`Between`), and a callback that began earlier keeps the
runner from destroying anything. For `SwitchedOffIsOff` the jobs are followed from
their end: of a line that is to be off, the last job that decides about it, whether
queued or at work, is one that ends it, or it is gone already (`LastWordOff`); jobs
of callers that gave up are queued like the others, which is why their timeouts do no
harm. That the last word is the right one needs that nobody overlapped: any two
requests under way are `Crossed`, and one that is not crossed asks what `config_` says
(`AskedRightly`); nothing but the leg is ever asked to be removed (`Orderly`). A line
switched off is owed until a request hands it over, and muddled after that if the
request was crossed. A report is of a line with an account, so nothing
is shown of one that is gone (`AtWork`).

The least-number arguments go through without induction theorems that take an operator: `WFMin`
takes a set. What a recursive function computes for every input stays out of reach, and no
module here that is proved about has one.

Only model-checked: `KeepsTrying`, `StartsAgain` and `ReturnsUnlessLost`, as liveness is beyond
the prover; and the three findings, which are counterexamples.

## 5. Not modelled, and the plan

Not modelled: sample values (levels, gain, filter coefficients, clipping,
metering, push-to-talk detection), parsing and formatting, HTTP and JSON, the
web UI, the null backend. They carry no state that the properties tell apart.

Planned, in this order:

1. **Lines disabled or removed while their call is up**: `LineLife` composed with
   the calls of `PjsipEngine`, and the state and gate that remain.
2. **SpscRing with `reset()`** from a third thread, and what is left of the ring's
   guarantees.
3. **An abstract line** (`idle`, `trying`, `up`) that `CallControl` is shown to
   implement for lines nobody calls, by `OutboundInv`.
4. **Refinement of an abstract file** (a document that is replaced at once) by `ConfigStore`.
