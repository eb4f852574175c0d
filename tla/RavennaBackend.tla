---------------------------- MODULE RavennaBackend ----------------------------
(***************************************************************************)
(* RavennaAudioBackend: opening the RAVENNA device in both directions, the *)
(* fallback to 16 bit, and what reading and writing do about overruns,      *)
(* underruns and a driver whose engine has stopped. Which thread calls it  *)
(* is AudioPath's matter.                                                  *)
(***************************************************************************)
EXTENDS Naturals, FiniteSets

CONSTANTS
  Disruptions   \* bound: what may go wrong outside, in one behaviour

ASSUME DisruptionsAssumption == Disruptions \in Nat

VARIABLES
  (* the driver *)
  free,      \* whether the device can be opened, and its streams started
  takes,     \* the sample formats it takes
  locked,    \* whether the PTP clock is
  ticking,   \* whether its engine moves frames
  left,      \* disruptions yet to come
  (* the backend *)
  stream,    \* the state of capture_ and playback_
  format,    \* the sample format each was opened with
  open,      \* open_
  sample,    \* pcm_format_
  raw,       \* the format capture_raw_ and playback_raw_ are sized for
  opening,   \* the stream open_both is at, "no" if not under way
  quiet,     \* no frames for kStallSeconds (last_frames_at_)
  recent     \* a recovery in the last kRecoverIntervalSeconds (last_recover_at_)

driverVars == <<free, takes, locked, ticking, left>>
backendVars == <<stream, format, open, sample, raw, opening, quiet, recent>>
deviceVars == <<driverVars, backendVars>>

Directions == {"capture", "playback"}
Formats == {"configured", "s16"}

(* A stream that is prepared is empty; playback that is primed has a ring   *)
(* full of silence and was not triggered. A stream in overrun, underrun or *)
(* suspended tells the next transfer of it ("xrun") or, as snd_pcm_wait    *)
(* does, the wait before the next ("faulted").                             *)
StreamStates == {"closed", "prepared", "primed", "running", "xrun", "faulted"}

Flows(d) == stream[d] = "running" /\ ticking /\ locked

DriverInit ==
  /\ free \in BOOLEAN /\ locked \in BOOLEAN /\ ticking = TRUE
  /\ takes \in {Formats, {"s16"}}
  /\ left = Disruptions

BackendInit ==
  /\ stream = [d \in Directions |-> "closed"]
  /\ format = [d \in Directions |-> "none"]
  /\ open = FALSE
  /\ sample \in Formats
  /\ raw = "none"
  /\ opening = "no"
  /\ quiet = FALSE
  /\ recent = FALSE

-----------------------------------------------------------------------------
(* The driver.                                                             *)

Disrupts == left > 0 /\ left' = left - 1

Appears == ~free /\ free' = TRUE /\ UNCHANGED <<takes, locked, ticking, left, backendVars>>

(* Another program has the device, or the driver refuses it.               *)
Vanishes ==
  /\ free /\ free' = FALSE /\ Disrupts
  /\ UNCHANGED <<takes, locked, ticking, backendVars>>

Locks == ~locked /\ locked' = TRUE /\ UNCHANGED <<free, takes, ticking, left, backendVars>>

Unlocks ==
  /\ locked /\ locked' = FALSE /\ Disrupts
  /\ UNCHANGED <<free, takes, ticking, backendVars>>

(* A restart of the daemon stops the engine; the streams report RUNNING.   *)
DaemonRestarts ==
  /\ ticking /\ ticking' = FALSE /\ Disrupts
  /\ UNCHANGED <<free, takes, locked, backendVars>>

(* The audio thread was late or the stream was suspended, between a wait   *)
(* and its transfer or elsewhere. A suspended one that the transfer meets  *)
(* is prepared by snd_pcm_recover, which does not trigger it.              *)
Disturbs(d) ==
  /\ Flows(d) /\ Disrupts
  /\ \E state \in {"xrun", "prepared", "faulted"} : stream' = [stream EXCEPT ![d] = state]
  /\ UNCHANGED <<free, takes, locked, ticking, format, open, sample, raw, opening, quiet, recent>>

(* Two seconds without a frame; fifteen since the last recovery.           *)
TwoSeconds ==
  /\ open /\ ~quiet /\ ~Flows("capture") /\ quiet' = TRUE
  /\ UNCHANGED <<driverVars, stream, format, open, sample, raw, opening, recent>>

FifteenSeconds ==
  /\ recent /\ recent' = FALSE
  /\ UNCHANGED <<driverVars, stream, format, open, sample, raw, opening, quiet>>

-----------------------------------------------------------------------------
(* open, close.                                                            *)

(* A mistake: the playback stream is not closed.                           *)
CloseCaptureOnly ==
  /\ stream' = [stream EXCEPT !["capture"] = "closed"]
  /\ format' = [format EXCEPT !["capture"] = "none"]
  /\ open' = FALSE

Close ==
  /\ stream' = [d \in Directions |-> "closed"]
  /\ format' = [d \in Directions |-> "none"]
  /\ open' = FALSE

Openable == free /\ sample \in takes

(* A mistake: the stream is prepared, and not triggered.                   *)
TriggeredNot(d) ==
  /\ stream' = [stream EXCEPT ![d] = "prepared"]
  /\ UNCHANGED ticking

(* start_stream: triggering either direction makes the engine run.         *)
Triggered(d) ==
  /\ stream' = [stream EXCEPT ![d] = "running"]
  /\ ticking' = TRUE

OpenCapture ==
  /\ opening = "capture" /\ Openable
  /\ Triggered("capture")
  /\ format' = [format EXCEPT !["capture"] = sample]
  /\ opening' = "playback"
  /\ UNCHANGED <<free, takes, locked, left, open, sample, raw, quiet, recent>>

(* The second stream is open: buffers are sized, both clocks begin anew.   *)
OpenPlayback ==
  /\ opening = "playback" /\ Openable
  /\ Triggered("playback")
  /\ format' = [format EXCEPT !["playback"] = sample]
  /\ opening' = "no"
  /\ open' = TRUE
  /\ raw' = sample
  /\ quiet' = FALSE /\ recent' = FALSE
  /\ UNCHANGED <<free, takes, locked, left, sample>>

(* A mistake: what has been opened stays open when 16 bit is tried.        *)
OpenFallsBackKeeping ==
  /\ opening # "no" /\ ~Openable
  /\ sample = "configured"
  /\ sample' = "s16"
  /\ open' = FALSE
  /\ UNCHANGED <<driverVars, stream, format, raw, opening, quiet, recent>>

(* Whatever the reason was, 16 bit is tried next, and stays.               *)
OpenFallsBack ==
  /\ opening # "no" /\ ~Openable
  /\ sample = "configured"
  /\ Close
  /\ sample' = "s16"
  /\ opening' = "capture"
  /\ UNCHANGED <<driverVars, raw, quiet, recent>>

OpenFails ==
  /\ opening # "no" /\ ~Openable
  /\ sample = "s16"
  /\ Close
  /\ opening' = "no"
  /\ UNCHANGED <<driverVars, sample, raw, quiet, recent>>

OpenStep == OpenCapture \/ OpenPlayback \/ OpenFallsBack \/ OpenFails

-----------------------------------------------------------------------------
(* read, write.                                                            *)

ReadFrames ==
  /\ open /\ Flows("capture")
  /\ quiet' = FALSE
  /\ UNCHANGED <<driverVars, stream, format, open, sample, raw, opening, recent>>

(* The wait times out or fails, or the device is not open: silence, and    *)
(* the caller tries again. A wait that fails prepares nothing, and does    *)
(* not get to recover_if_stalled.                                          *)
ReadFails ==
  /\ ~open \/ ~Flows("capture")
  /\ UNCHANGED deviceVars

(* Where a stream is left whose start is refused: the ring of playback is  *)
(* full by then, unless the silence was refused as well.                   *)
Refused(d) == IF d = "playback" THEN {"prepared", "primed"} ELSE {"prepared"}

(* Prepared again and, unless the driver refuses, triggered.               *)
Restarted(d) ==
  /\ open /\ stream[d] = "xrun"
  /\ \/ Triggered(d)
     \/ /\ \E state \in Refused(d) : stream' = [stream EXCEPT ![d] = state]
        /\ UNCHANGED ticking
  /\ UNCHANGED <<free, takes, locked, left, format, open, sample, raw, opening, quiet, recent>>

(* It cannot be prepared: from now on it is the wait that fails.           *)
PrepareFails(d) ==
  /\ open /\ stream[d] = "xrun"
  /\ stream' = [stream EXCEPT ![d] = "faulted"]
  /\ UNCHANGED <<driverVars, format, open, sample, raw, opening, quiet, recent>>

(* recover_if_stalled, in a wait that has timed out.                       *)
Recover ==
  /\ open /\ stream["capture"] \notin {"xrun", "faulted"} /\ ~Flows("capture")
  /\ quiet /\ ~recent
  /\ recent' = TRUE
  /\ Close
  /\ opening' = "capture"
  /\ UNCHANGED <<driverVars, sample, raw, quiet>>

(* Writing to an empty stream that is prepared triggers it, or fills its   *)
(* ring if the driver refuses.                                             *)
WriteFrames ==
  /\ open
  /\ \/ stream["playback"] = "running" /\ Flows("playback") /\ UNCHANGED <<stream, ticking>>
     \/ stream["playback"] = "prepared" /\ Triggered("playback")
     \/ /\ stream["playback"] = "prepared"
        /\ stream' = [stream EXCEPT !["playback"] = "primed"]
        /\ UNCHANGED ticking
  /\ UNCHANGED <<free, takes, locked, left, format, open, sample, raw, opening, quiet, recent>>

(* The wait fails or finds no room, or the device is not open: this block  *)
(* is lost.                                                                *)
WriteFails ==
  /\ \/ ~open
     \/ stream["playback"] \in {"primed", "faulted"}
     \/ stream["playback"] = "running" /\ ~Flows("playback")
  /\ UNCHANGED deviceVars
=============================================================================
