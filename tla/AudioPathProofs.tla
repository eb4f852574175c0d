--------------------------- MODULE AudioPathProofs ---------------------------
(***************************************************************************)
(* Who calls the backend, in which format it is open, and between what the *)
(* lines run: one invariant, kept by every step of App, router and driver. *)
(***************************************************************************)
EXTENDS AudioPath, TLAPS

(* The audio thread lives while the router runs, and that is never while   *)
(* the main thread opens or closes the device.                             *)
Placed ==
  /\ thread # "none" => running
  /\ main \in {"api", "opening", "close", "down"} => ~running
  /\ main \in {"detail", "engine", "lines", "join"} => running
  /\ main = "lines" /\ sip => engine
  /\ lines => running /\ (sip => engine) /\ main \in {"loop", "stopLines"}

(* While it is being opened it is not open, one of the threads is at it,   *)
(* and what is open has the format that is being tried.                    *)
Opened ==
  /\ opening # "no" => ~open /\ (main = "opening" \/ thread = "opening")
  /\ opening = "playback" => format["capture"] = sample

PathInv == TypeOK /\ Placed /\ Opened /\ OneFormat

LEMMA PathInit ==
  ASSUME DisruptionsAssumption, Init PROVE PathInv
<1> USE DEF Init, DriverInit, BackendInit, LifeInit
<1>1. TypeOK
  <2>1. stream \in [Directions -> StreamStates] /\ format \in [Directions -> Formats \cup {"none"}]
    BY DEF StreamStates
  <2>2. takes \subseteq Formats /\ left \in 0..Disruptions
    BY DEF Formats, DisruptionsAssumption
  <2>3. \A d \in Directions : stream[d] = "closed"
    OBVIOUS
  <2> QED
    BY <2>1, <2>2, <2>3 DEF TypeOK, MainPlaces
<1>2. Placed /\ Opened /\ OneFormat
  BY DEF Placed, Opened, OneFormat
<1> QED
  BY <1>1, <1>2 DEF PathInv

(* Steps that leave the streams alone: what else they may change.          *)
LEMMA TypesFollow ==
  ASSUME TypeOK,
         UNCHANGED <<free, takes, locked, ticking, left, stream, format, open, sample, raw, opening>>,
         quiet' \in BOOLEAN, recent' \in BOOLEAN,
         main' \in MainPlaces, thread' \in {"none", "read", "opening", "write"},
         running' \in BOOLEAN, stopping' \in BOOLEAN, sip' \in BOOLEAN,
         engine' \in BOOLEAN, lines' \in BOOLEAN
  PROVE  TypeOK'
BY DEF TypeOK

(* Closed is well typed.                                                   *)
LEMMA CloseKeeps ==
  ASSUME Close
  PROVE  /\ stream' \in [Directions -> StreamStates]
         /\ format' \in [Directions -> Formats \cup {"none"}]
         /\ open' = FALSE
         /\ \A d \in Directions : stream'[d] = "closed"
BY DEF Close, StreamStates

(* So is a stream that is started again.                                   *)
LEMMA RestartKeeps ==
  ASSUME TypeOK, NEW d \in Directions,
         Triggered(d) \/ Restarted(d) \/ (PrepareFails(d) /\ UNCHANGED ticking)
  PROVE  stream' \in [Directions -> StreamStates] /\ ticking' \in BOOLEAN
<1>1. CASE Triggered(d)
  BY <1>1 DEF TypeOK, Triggered, StreamStates
<1>2. CASE Restarted(d) /\ ~Triggered(d)
  <2> PICK state \in Refused(d) : stream' = [stream EXCEPT ![d] = state]
    BY <1>2 DEF Restarted
  <2>1. state \in StreamStates
    BY DEF Refused, StreamStates
  <2> QED
    BY <1>2, <2>1 DEF TypeOK, Restarted
<1>3. CASE PrepareFails(d) /\ UNCHANGED ticking
  BY <1>3 DEF TypeOK, PrepareFails, StreamStates
<1> QED
  BY <1>1, <1>2, <1>3

(* Opening, by whichever thread.                                           *)
LEMMA OpenKeeps ==
  ASSUME PathInv, OpenStep, UNCHANGED lifeVars PROVE PathInv'
<1> USE DEF lifeVars, driverVars
<1>1. TypeOK /\ Placed /\ Opened /\ OneFormat
  BY DEF PathInv
<1>2. Placed'
  BY <1>1 DEF Placed
<1>3. CASE OpenCapture
  <2>1. TypeOK'
    BY <1>1, <1>3 DEF OpenCapture, Triggered, TypeOK, Directions, StreamStates, Opened
  <2>2. Opened' /\ OneFormat'
    BY <1>1, <1>3 DEF OpenCapture, Opened, OneFormat, TypeOK, Directions
  <2> QED
    BY <1>2, <2>1, <2>2 DEF PathInv
<1>4. CASE OpenPlayback
  <2>1. TypeOK'
    BY <1>1, <1>4 DEF OpenPlayback, Triggered, TypeOK, Directions, StreamStates
  <2>2. Opened' /\ OneFormat'
    BY <1>1, <1>4 DEF OpenPlayback, Opened, OneFormat, TypeOK, Directions
  <2> QED
    BY <1>2, <2>1, <2>2 DEF PathInv
<1>5. CASE OpenFallsBack
  <2>1. TypeOK'
    BY <1>1, <1>5, CloseKeeps DEF OpenFallsBack, TypeOK, Formats, Directions
  <2>2. Opened' /\ OneFormat'
    BY <1>1, <1>5 DEF OpenFallsBack, Close, Opened, OneFormat
  <2> QED
    BY <1>2, <2>1, <2>2 DEF PathInv
<1>6. CASE OpenFails
  <2>1. TypeOK'
    BY <1>1, <1>6, CloseKeeps DEF OpenFails, TypeOK
  <2>2. Opened' /\ OneFormat'
    BY <1>6 DEF OpenFails, Close, Opened, OneFormat
  <2> QED
    BY <1>2, <2>1, <2>2 DEF PathInv
<1> QED
  BY <1>3, <1>4, <1>5, <1>6 DEF OpenStep

LEMMA MainKeeps ==
  ASSUME DisruptionsAssumption, PathInv, MainStep \/ ApiFails \/ EngineNotStarted \/ Shutdown
  PROVE  PathInv'
<1> USE DEF To, MainPlaces, deviceVars, driverVars, backendVars
<1>1. TypeOK /\ Placed /\ Opened /\ OneFormat
  BY DEF PathInv
<1>2. CASE ApiStarts \/ RouterNotStarted \/ Detail \/ StartEngine \/ StartLines \/ Retry
  <2>1. TypeOK'
    <3>1. CASE ApiStarts
      BY <1>1, <3>1 DEF ApiStarts, TypeOK
    <3>2. CASE RouterNotStarted
      BY <1>1, <3>2 DEF RouterNotStarted, TypeOK
    <3>3. CASE StartEngine
      BY <1>1, <3>3 DEF StartEngine, TypeOK
    <3>4. CASE StartLines
      BY <1>1, <3>4 DEF StartLines, TypeOK
    <3>5. CASE Retry
      BY <1>1, <3>5 DEF Retry, TypeOK
    <3>6. CASE Detail
      BY <1>1, <3>6 DEF Detail, TypeOK
    <3> QED
      BY <1>2, <3>1, <3>2, <3>3, <3>4, <3>5, <3>6
  <2>2. Placed' /\ Opened' /\ OneFormat'
    BY <1>1, <1>2 DEF ApiStarts, RouterNotStarted, Detail, StartEngine, StartLines, Retry,
                      Placed, Opened, OneFormat
  <2> QED
    BY <2>1, <2>2 DEF PathInv
<1>3. CASE StartRouter
  BY <1>1, <1>3 DEF StartRouter, PathInv, TypeOK, Placed, Opened, OneFormat, Directions
<1>4. CASE MainOpens
  BY <1>4, OpenKeeps DEF MainOpens
<1>5. CASE RouterStarted
  BY <1>1, <1>5 DEF RouterStarted, PathInv, TypeOK, Placed, Opened, OneFormat
<1>6. CASE StopLines \/ StopEngine \/ StopRouter \/ Join
  <2>1. TypeOK'
    <3>1. CASE StopLines
      BY <1>1, <3>1, TypesFollow DEF StopLines, TypeOK
    <3>2. CASE StopEngine
      BY <1>1, <3>2, TypesFollow DEF StopEngine, TypeOK
    <3>3. CASE StopRouter
      <4>1. main' \in MainPlaces /\ stopping' \in BOOLEAN
        BY <1>1, <3>3 DEF StopRouter, TypeOK
      <4> QED
        BY <1>1, <3>3, <4>1, TypesFollow DEF StopRouter, TypeOK
    <3>4. CASE Join
      BY <1>1, <3>4, TypesFollow DEF Join, TypeOK
    <3> QED
      BY <1>6, <3>1, <3>2, <3>3, <3>4
  <2>2. Placed' /\ Opened' /\ OneFormat'
    BY <1>1, <1>6 DEF StopLines, StopEngine, StopRouter, Join, Placed, Opened, OneFormat
  <2> QED
    BY <2>1, <2>2 DEF PathInv
<1>7. CASE CloseDevice
  <2>1. TypeOK'
    BY <1>1, <1>7, CloseKeeps DEF CloseDevice, TypeOK
  <2>2. Placed' /\ Opened' /\ OneFormat'
    BY <1>1, <1>7 DEF CloseDevice, Close, Placed, Opened, OneFormat
  <2> QED
    BY <2>1, <2>2 DEF PathInv
<1>8. CASE Boot
  <2>1. TypeOK'
    BY <1>1, <1>8, CloseKeeps DEF Boot, TypeOK
  <2>2. Placed' /\ Opened' /\ OneFormat'
    BY <1>8 DEF Boot, Close, Placed, Opened, OneFormat
  <2> QED
    BY <2>1, <2>2 DEF PathInv
<1>9. CASE ApiFails \/ EngineNotStarted \/ Shutdown
  <2>1. TypeOK'
    BY <1>1, <1>9 DEF ApiFails, EngineNotStarted, Shutdown, Disrupts, DisruptionsAssumption, TypeOK
  <2>2. Placed' /\ Opened' /\ OneFormat'
    BY <1>1, <1>9 DEF ApiFails, EngineNotStarted, Shutdown, Placed, Opened, OneFormat
  <2> QED
    BY <2>1, <2>2 DEF PathInv
<1> QED
  BY <1>2, <1>3, <1>4, <1>5, <1>6, <1>7, <1>8, <1>9 DEF MainStep

LEMMA ThreadKeeps ==
  ASSUME PathInv, ThreadStep PROVE PathInv'
<1> USE DEF ThreadTo, deviceVars, driverVars, backendVars, lifeVars
<1>1. TypeOK /\ Placed /\ Opened /\ OneFormat
  BY DEF PathInv
<1>2. CASE ThreadEnds \/ ThreadOpened
  BY <1>1, <1>2 DEF ThreadEnds, ThreadOpened, PathInv, TypeOK, Placed, Opened, OneFormat
<1>3. CASE Read
  <2>1. TypeOK'
    <3>1. CASE ReadFrames
      BY <1>1, <1>3, <3>1 DEF Read, ReadFrames, TypeOK
    <3>2. CASE Restarted("capture")
      <4>1. "capture" \in Directions
        BY DEF Directions
      <4>2. stream' \in [Directions -> StreamStates] /\ ticking' \in BOOLEAN
        BY <1>1, <3>2, <4>1, RestartKeeps
      <4> QED
        BY <1>1, <1>3, <3>2, <4>2 DEF Read, Restarted, TypeOK
    <3> QED
      BY <1>3, <3>1, <3>2 DEF Read
  <2>2. Placed' /\ Opened' /\ OneFormat'
    BY <1>1, <1>3 DEF Read, ReadFrames, Restarted, Placed, Opened, OneFormat
  <2> QED
    BY <2>1, <2>2 DEF PathInv
<1>4. CASE ReadAgain
  <2>1. CASE ReadFails
    BY <1>1, <1>4, <2>1 DEF ReadAgain, ReadFails, PathInv, TypeOK, Placed, Opened, OneFormat
  <2>2. CASE PrepareFails("capture")
    <3>1. stream' \in [Directions -> StreamStates]
      BY <1>1, <2>2, RestartKeeps DEF Directions, PrepareFails
    <3>2. TypeOK'
      BY <1>1, <1>4, <2>2, <3>1 DEF ReadAgain, PrepareFails, TypeOK
    <3>3. Placed' /\ Opened' /\ OneFormat'
      BY <1>1, <1>4, <2>2 DEF ReadAgain, PrepareFails, Placed, Opened, OneFormat
    <3> QED
      BY <3>2, <3>3 DEF PathInv
  <2> QED
    BY <1>4, <2>1, <2>2 DEF ReadAgain
<1>5. CASE ReadRecovers
  <2>1. TypeOK'
    BY <1>1, <1>5, CloseKeeps DEF ReadRecovers, Recover, TypeOK, Directions
  <2>2. Placed' /\ Opened' /\ OneFormat'
    BY <1>1, <1>5 DEF ReadRecovers, Recover, Close, Placed, Opened, OneFormat
  <2> QED
    BY <2>1, <2>2 DEF PathInv
<1>6. CASE ThreadOpens
  BY <1>6, OpenKeeps DEF ThreadOpens
<1>7. CASE Write
  <2>1. TypeOK'
    <3>1. "playback" \in Directions
      BY DEF Directions
    <3>2. CASE WriteFrames
      <4>1. stream' \in [Directions -> StreamStates] /\ ticking' \in BOOLEAN
        <5>1. CASE Triggered("playback")
          BY <1>1, <3>1, <5>1, RestartKeeps
        <5>2. CASE ~Triggered("playback")
          BY <1>1, <3>2, <5>2 DEF WriteFrames, TypeOK, StreamStates
        <5> QED
          BY <5>1, <5>2
      <4> QED
        BY <1>1, <1>7, <3>2, <4>1 DEF Write, WriteFrames, TypeOK
    <3>3. CASE Restarted("playback")
      <4>1. stream' \in [Directions -> StreamStates] /\ ticking' \in BOOLEAN
        BY <1>1, <3>1, <3>3, RestartKeeps
      <4> QED
        BY <1>1, <1>7, <3>3, <4>1 DEF Write, Restarted, TypeOK
    <3>4. CASE WriteFails
      BY <1>1, <1>7, <3>4 DEF Write, WriteFails, TypeOK
    <3>5. CASE PrepareFails("playback")
      <4>1. stream' \in [Directions -> StreamStates]
        BY <1>1, <3>1, <3>5, RestartKeeps DEF PrepareFails
      <4> QED
        BY <1>1, <1>7, <3>5, <4>1 DEF Write, PrepareFails, TypeOK
    <3> QED
      BY <1>7, <3>2, <3>3, <3>4, <3>5 DEF Write
  <2>2. Placed' /\ Opened' /\ OneFormat'
    BY <1>1, <1>7 DEF Write, WriteFrames, WriteFails, Restarted, PrepareFails, Placed, Opened, OneFormat
  <2> QED
    BY <2>1, <2>2 DEF PathInv
<1> QED
  BY <1>2, <1>3, <1>4, <1>5, <1>6, <1>7 DEF ThreadStep

LEMMA DriverKeeps ==
  ASSUME DisruptionsAssumption, PathInv, DriverStep PROVE PathInv'
<1> USE DEF driverVars, backendVars, lifeVars, DriverStep
<1>1. TypeOK /\ Placed /\ Opened /\ OneFormat
  BY DEF PathInv
<1>2. CASE Appears \/ Vanishes \/ Locks \/ Unlocks \/ DaemonRestarts
  <2>1. TypeOK'
    <3>1. left' \in 0..Disruptions
      BY <1>1, <1>2 DEF Appears, Vanishes, Locks, Unlocks, DaemonRestarts, Disrupts,
                        DisruptionsAssumption, TypeOK
    <3>2. free' \in BOOLEAN /\ locked' \in BOOLEAN /\ ticking' \in BOOLEAN
      BY <1>1, <1>2 DEF Appears, Vanishes, Locks, Unlocks, DaemonRestarts, TypeOK
    <3> QED
      BY <1>1, <1>2, <3>1, <3>2 DEF Appears, Vanishes, Locks, Unlocks, DaemonRestarts, TypeOK
  <2>2. Placed' /\ Opened' /\ OneFormat'
    BY <1>1, <1>2 DEF Appears, Vanishes, Locks, Unlocks, DaemonRestarts, Placed, Opened, OneFormat
  <2> QED
    BY <2>1, <2>2 DEF PathInv
<1>3. CASE \E d \in Directions : Disturbs(d)
  <2> PICK d \in Directions : Disturbs(d)
    BY <1>3
  <2>1. TypeOK'
    <3>1. PICK state \in {"xrun", "prepared", "faulted"} : stream' = [stream EXCEPT ![d] = state]
      BY DEF Disturbs
    <3>2. stream' \in [Directions -> StreamStates]
      BY <1>1, <3>1 DEF TypeOK, StreamStates
    <3>3. left' \in 0..Disruptions
      BY <1>1 DEF Disturbs, Disrupts, TypeOK, DisruptionsAssumption
    <3>4. open \/ opening # "no"
      BY <1>1 DEF Disturbs, Flows, TypeOK
    <3> QED
      BY <1>1, <1>3, <3>2, <3>3, <3>4 DEF Disturbs, TypeOK
  <2>2. Placed' /\ Opened' /\ OneFormat'
    BY <1>1, <1>3 DEF Disturbs, Placed, Opened, OneFormat
  <2> QED
    BY <2>1, <2>2 DEF PathInv
<1>4. CASE TwoSeconds \/ FifteenSeconds
  <2>1. TypeOK'
    <3>1. CASE TwoSeconds
      BY <1>1, <3>1 DEF TwoSeconds, TypeOK
    <3>2. CASE FifteenSeconds
      BY <1>1, <3>2, TypesFollow DEF FifteenSeconds, TypeOK
    <3> QED
      BY <1>4, <3>1, <3>2
  <2>2. Placed' /\ Opened' /\ OneFormat'
    BY <1>1, <1>4 DEF TwoSeconds, FifteenSeconds, Placed, Opened, OneFormat
  <2> QED
    BY <2>1, <2>2 DEF PathInv
<1> QED
  BY <1>2, <1>3, <1>4

(* However much goes wrong outside, the main thread opens and closes the   *)
(* device only without an audio thread (router.cpp), it is open in one     *)
(* format (ravenna_backend.cpp), and lines run only between an engine and  *)
(* an audio path that do (App::run, App::shutdown).                        *)
THEOREM PathSafe == Spec => [](TypeOK /\ OpensAlone /\ OneFormat /\ LinesBetweenThem)
<1>1. Init => PathInv
  BY PathInit, DisruptionsAssumption
<1>2. PathInv /\ [Next]_vars => PathInv'
  <2>1. ASSUME PathInv, UNCHANGED vars PROVE PathInv'
    BY <2>1 DEF vars, deviceVars, driverVars, backendVars, lifeVars, PathInv, TypeOK,
                Placed, Opened, OneFormat
  <2>2. ASSUME PathInv, Next PROVE PathInv'
    BY <2>2, MainKeeps, ThreadKeeps, DriverKeeps, DisruptionsAssumption DEF Next
  <2> QED
    BY <2>1, <2>2
<1>3. PathInv => TypeOK /\ OpensAlone /\ OneFormat /\ LinesBetweenThem
  BY DEF PathInv, Placed, OpensAlone, LinesBetweenThem
<1> QED
  BY <1>1, <1>2, <1>3, PTL DEF Spec

(* The variables keep their types.                                         *)
THEOREM PathTypes == Spec => []TypeOK
BY PathSafe, PTL

(* Both streams, the conversions and their buffers agree on the format at  *)
(* every moment the device is open (RavennaBackend::open, recover).        *)
THEOREM FormatsAgree == Spec => []OneFormat
BY PathSafe, PTL

(* The lines run only between an engine and an audio path that do, from    *)
(* the first start to the end of a shutdown (App::run, App::shutdown).     *)
THEOREM LinesSafe == Spec => []LinesBetweenThem
BY PathSafe, PTL
=============================================================================
