------------------------------ MODULE AudioPath ------------------------------
(***************************************************************************)
(* The life of the gateway: App::run starts the API, then the audio path,   *)
(* the SIP engine and the lines, retries what did not start, and shuts all *)
(* down; AudioRouter's thread reads and writes the device meanwhile.       *)
(***************************************************************************)
EXTENDS RavennaBackend

VARIABLES
  main,       \* where the main thread is
  thread,     \* where the audio thread is
  running,    \* AudioRouter::running_
  stopping,   \* AudioRouter::stop_requested_
  sip,        \* whether there is a SIP engine (sip.enabled)
  engine,     \* whether it runs
  lines       \* whether the lines are configured and supervised

lifeVars == <<main, thread, running, stopping, sip, engine, lines>>
vars == <<deviceVars, lifeVars>>

MainPlaces ==
  {"api", "router", "opening", "detail", "engine", "lines", "loop", "stopLines",
   "stopEngine", "stopRouter", "join", "close", "down"}

LifeInit ==
  /\ main = "api"
  /\ thread = "none"
  /\ running = FALSE
  /\ stopping = FALSE
  /\ sip \in BOOLEAN
  /\ engine = FALSE
  /\ lines = FALSE

Init == DriverInit /\ BackendInit /\ LifeInit

To(place) == main' = place

-----------------------------------------------------------------------------
(* App::run.                                                               *)

ApiStarts ==
  /\ main = "api" /\ To("router")
  /\ UNCHANGED <<deviceVars, thread, running, stopping, sip, engine, lines>>

ApiFails ==
  /\ main = "api" /\ To("down") /\ Disrupts
  /\ UNCHANGED <<free, takes, locked, ticking, backendVars, thread, running, stopping, sip, engine, lines>>

(* AudioRouter::start.                                                     *)
StartRouter ==
  /\ main = "router"
  /\ IF running THEN To("engine") /\ UNCHANGED backendVars
     ELSE /\ To("opening")
          /\ opening' = IF open THEN "no" ELSE "capture"
          /\ UNCHANGED <<stream, format, open, sample, raw, quiet, recent>>
  /\ UNCHANGED <<driverVars, thread, running, stopping, sip, engine, lines>>

MainOpens ==
  /\ main = "opening" /\ OpenStep
  /\ UNCHANGED lifeVars

RouterStarted ==
  /\ main = "opening" /\ opening = "no" /\ open
  /\ To("detail")
  /\ running' = TRUE /\ stopping' = FALSE /\ thread' = "read"
  /\ UNCHANGED <<deviceVars, sip, engine, lines>>

(* What has been opened is logged: detail() reads open_ and the handles,   *)
(* which the audio thread may by now be closing and opening again.         *)
Detail ==
  /\ main = "detail"
  /\ To("engine")
  /\ UNCHANGED <<deviceVars, thread, running, stopping, sip, engine, lines>>

RouterNotStarted ==
  /\ main = "opening" /\ opening = "no" /\ ~open
  /\ To("loop")
  /\ UNCHANGED <<deviceVars, thread, running, stopping, sip, engine, lines>>

(* Without SIP the lines start without an engine.                          *)
StartEngine ==
  /\ main = "engine"
  /\ engine' = sip
  /\ To("lines")
  /\ UNCHANGED <<deviceVars, thread, running, stopping, sip, lines>>

EngineNotStarted ==
  /\ main = "engine" /\ sip /\ ~engine
  /\ To("loop")
  /\ UNCHANGED <<deviceVars, thread, running, stopping, sip, engine, lines>>

StartLines ==
  /\ main = "lines"
  /\ lines' = TRUE
  /\ To("loop")
  /\ UNCHANGED <<deviceVars, thread, running, stopping, sip, engine>>

(* Every five seconds, if something is down.                               *)
Retry ==
  /\ main = "loop"
  /\ ~running \/ (sip /\ ~engine)
  /\ To("router")
  /\ UNCHANGED <<deviceVars, thread, running, stopping, sip, engine, lines>>

(* A signal; App::shutdown stops the API first.                            *)
Shutdown ==
  /\ main = "loop" /\ To("stopLines") /\ Disrupts
  /\ UNCHANGED <<free, takes, locked, ticking, backendVars, thread, running, stopping, sip, engine, lines>>

(* A mistake: the engine is stopped before what calls it.                  *)
StopLinesLate ==
  /\ main = "stopLines"
  /\ To("stopEngine")
  /\ UNCHANGED <<deviceVars, thread, running, stopping, sip, engine, lines>>

StopLines ==
  /\ main = "stopLines"
  /\ lines' = FALSE
  /\ To("stopEngine")
  /\ UNCHANGED <<deviceVars, thread, running, stopping, sip, engine>>

StopEngine ==
  /\ main = "stopEngine"
  /\ engine' = FALSE
  /\ To("stopRouter")
  /\ UNCHANGED <<deviceVars, thread, running, stopping, sip, lines>>

StopRouter ==
  /\ main = "stopRouter"
  /\ IF running THEN stopping' = TRUE /\ To("join")
     ELSE To("down") /\ UNCHANGED stopping
  /\ UNCHANGED <<deviceVars, thread, running, sip, engine, lines>>

(* A mistake: the thread is not waited for.                                *)
JoinNot ==
  /\ main = "join"
  /\ running' = FALSE
  /\ To("close")
  /\ UNCHANGED <<deviceVars, thread, stopping, sip, engine, lines>>

Join ==
  /\ main = "join" /\ thread = "none"
  /\ running' = FALSE
  /\ To("close")
  /\ UNCHANGED <<deviceVars, thread, stopping, sip, engine, lines>>

CloseDevice ==
  /\ main = "close"
  /\ Close
  /\ To("down")
  /\ UNCHANGED <<driverVars, sample, raw, opening, quiet, recent,
                 thread, running, stopping, sip, engine, lines>>

(* The service manager starts a new process, as Restart=always and every   *)
(* start of the machine do.                                                *)
Boot ==
  /\ main = "down"
  /\ Close /\ raw' = "none" /\ opening' = "no" /\ quiet' = FALSE /\ recent' = FALSE
  /\ sample' \in Formats
  /\ To("api")
  /\ thread' = "none" /\ running' = FALSE /\ stopping' = FALSE
  /\ sip' \in BOOLEAN /\ engine' = FALSE /\ lines' = FALSE
  /\ UNCHANGED driverVars

MainStep ==
  \/ ApiStarts \/ StartRouter \/ MainOpens \/ RouterStarted \/ RouterNotStarted
  \/ Detail \/ StartEngine \/ StartLines \/ Retry
  \/ StopLines \/ StopEngine \/ StopRouter \/ Join \/ CloseDevice \/ Boot

-----------------------------------------------------------------------------
(* AudioRouter::run.                                                       *)

ThreadTo(place) == thread' = place /\ UNCHANGED <<main, running, stopping, sip, engine, lines>>

ThreadEnds ==
  /\ thread = "read" /\ stopping
  /\ ThreadTo("none")
  /\ UNCHANGED deviceVars

Read ==
  /\ thread = "read" /\ ~stopping
  /\ ReadFrames \/ Restarted("capture")
  /\ ThreadTo("write")

ReadAgain ==
  /\ thread = "read" /\ ~stopping
  /\ ReadFails \/ PrepareFails("capture")
  /\ UNCHANGED lifeVars

ReadRecovers ==
  /\ thread = "read" /\ ~stopping
  /\ Recover
  /\ ThreadTo("opening")

ThreadOpens ==
  /\ thread = "opening" /\ OpenStep
  /\ UNCHANGED lifeVars

(* The read that has recovered returns silence, successful or not.         *)
ThreadOpened ==
  /\ thread = "opening" /\ opening = "no"
  /\ ThreadTo("read")
  /\ UNCHANGED deviceVars

Write ==
  /\ thread = "write"
  /\ WriteFrames \/ Restarted("playback") \/ PrepareFails("playback") \/ WriteFails
  /\ ThreadTo("read")

ThreadStep == ThreadEnds \/ Read \/ ReadAgain \/ ReadRecovers \/ ThreadOpens \/ ThreadOpened \/ Write

DriverStep ==
  /\ \/ Appears \/ Vanishes \/ Locks \/ Unlocks \/ DaemonRestarts
     \/ \E d \in Directions : Disturbs(d)
     \/ TwoSeconds \/ FifteenSeconds
  /\ UNCHANGED lifeVars

Next == MainStep \/ ApiFails \/ EngineNotStarted \/ Shutdown \/ ThreadStep \/ DriverStep

(* The threads go on, and time does. Of the driver nothing is assumed.     *)
Fairness ==
  /\ WF_vars(MainStep)
  /\ WF_vars(ThreadStep)
  /\ WF_vars(TwoSeconds /\ UNCHANGED lifeVars)
  /\ WF_vars(FifteenSeconds /\ UNCHANGED lifeVars)

Spec == Init /\ [][Next]_vars /\ Fairness

-----------------------------------------------------------------------------
(* Properties.                                                             *)

(* The types; and a backend that is not open, and not about to be, holds   *)
(* no stream, which the next open would overwrite and never close.         *)
TypeOK ==
  /\ free \in BOOLEAN /\ locked \in BOOLEAN /\ ticking \in BOOLEAN
  /\ takes \subseteq Formats /\ left \in 0..Disruptions
  /\ stream \in [Directions -> StreamStates]
  /\ format \in [Directions -> Formats \cup {"none"}]
  /\ open \in BOOLEAN /\ quiet \in BOOLEAN /\ recent \in BOOLEAN
  /\ sample \in Formats /\ raw \in Formats \cup {"none"}
  /\ opening \in Directions \cup {"no"}
  /\ main \in MainPlaces /\ thread \in {"none", "read", "opening", "write"}
  /\ running \in BOOLEAN /\ stopping \in BOOLEAN
  /\ sip \in BOOLEAN /\ engine \in BOOLEAN /\ lines \in BOOLEAN
  /\ ~open /\ opening = "no" => \A d \in Directions : stream[d] = "closed"

(* Both streams, the conversions and their buffers agree on the format,    *)
(* through fallbacks half way and reopening (to_float and from_float go by *)
(* pcm_format_, the buffers by what it was at open).                       *)
OneFormat ==
  open => raw = sample /\ \A d \in Directions : format[d] = sample

(* The main thread opens and closes the device only when there is no audio *)
(* thread, which reads, writes and reopens it. That is less than "safe to  *)
(* call from a single audio thread only" (AudioBackend) relies on: main    *)
(* asks for detail() when the thread runs (Detail), and so do the API's    *)
(* requests at any time.                                                   *)
OpensAlone == main \in {"opening", "close"} => thread = "none"

(* Lines are supervised only between an engine, if there is to be one, and *)
(* an audio path that run, at start, after retries and in shutdown.        *)
LinesBetweenThem == lines => running /\ (sip => engine)

Flowing == thread \in {"read", "write"} /\ \A d \in Directions : Flows(d)

(* The device could not be opened again, and nobody tries.                 *)
NotReopened == running /\ ~open /\ opening = "no"

(* A wait that fails is not recovered from, and playback that is full and  *)
(* was not triggered is never written to; only a capture that stalls would *)
(* have either reopened.                                                   *)
NotPrepared == stream["capture"] = "faulted" \/ stream["playback"] \in {"primed", "faulted"}

Lost == NotReopened \/ NotPrepared

Ready == free /\ locked

(* When the driver has settled, audio comes back in both directions by     *)
(* itself, unless the audio path ends in one of the states nothing in it   *)
(* leads out of (Lost): from an overrun or underrun that the transfer      *)
(* meets, a stream prepared and not triggered, an engine that stopped, a   *)
(* device or clock that came late. Both exemptions are needed.             *)
ReturnsUnlessLost == <>[]Ready /\ []<>~Lost => <>[]Flowing
=============================================================================
