---------------------------- MODULE LineCallbacks ----------------------------
(***************************************************************************)
(* The side of LineManager the SIP engine calls: what a media or a state   *)
(* notification does to the line's reported state and to the router's call *)
(* gate (AudioRouter::LineParams::call_active), which alone decides whether *)
(* audio passes between the line's channels and its call.                  *)
(*                                                                         *)
(* Every handler runs whole: it holds LineManager::mutex_ for the state and *)
(* the router's mutex for the gate, and nothing reads the two together.    *)
(***************************************************************************)

CONSTANTS
  Lines      \* the enabled lines, the conference leg among them

VARIABLES
  lineState, \* LineRuntime::state, as the operator and the supervisor see it
  gate       \* LineParams::call_active of the line in the router

(* What PJSIP reports. "Disabled" is configuration's and "Error" is only    *)
(* ever reported by the stub engine.                                       *)
LineStates == {"Idle", "Dialing", "Ringing", "InCall"}

(* The states in which an operator's hang up has a call to end.            *)
CallUp == {"Dialing", "Ringing", "InCall"}

CallbacksTypeOK ==
  /\ lineState \in [Lines -> LineStates]
  /\ gate \in [Lines -> BOOLEAN]

CallbacksInit ==
  /\ lineState = [l \in Lines |-> "Idle"]
  /\ gate = [l \in Lines |-> FALSE]

(* on_line_state: anything but a connected call closes the gate, and a     *)
(* connected call leaves it as the media callbacks put it.                 *)
OnLineState(l, s) ==
  /\ lineState' = [lineState EXCEPT ![l] = s]
  /\ gate' = [gate EXCEPT ![l] = @ /\ s = "InCall"]

(* on_media_start and on_media_stop: the gate alone.                       *)
OnMediaStart(l) == gate' = [gate EXCEPT ![l] = TRUE]
OnMediaStop(l) == gate' = [gate EXCEPT ![l] = FALSE]
=============================================================================
