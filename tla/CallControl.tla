----------------------------- MODULE CallControl -----------------------------
(***************************************************************************)
(* LineManager over the PJSIP engine: who asks for calls, and when.        *)
(*                                                                         *)
(* The supervisor thread goes over the lines once a round. It reads what   *)
(* it needs under the locks, lets go of them, and only then asks the       *)
(* engine; the HTTP workers (Operators) ask for calls at any time. Every   *)
(* enabled line has its account and its dial target. Configuration does    *)
(* not change here.                                                        *)
(***************************************************************************)
EXTENDS PjsipEngine

CONSTANTS
  Supervisor,  \* the line supervision thread
  Operators,   \* HTTP worker threads
  Conference,  \* kConferenceLineId, or Nobody when there is no leg
  DialOut,     \* the lines the supervisor keeps up (dial_out and permanent)
  PushToTalk   \* the lines it raises while the endpoint talks (ptt)

ASSUME ControlAssumption ==
  /\ Callers = Operators \cup {Supervisor}
  /\ Supervisor \notin Operators
  /\ Conference \in Lines \cup {Nobody}
  /\ DialOut \subseteq Lines
  /\ PushToTalk \subseteq AutoAnswer \ DialOut
  /\ Conference # Nobody => Conference \in DialOut \ AutoAnswer

VARIABLES
  held,  \* conference_held_: the operator hung the leg up by hand
  due,   \* more than five seconds since the line's last_dial_ms
  armed, \* ptt_hangup_at_ms is set: the line has spoken and not been hung up
  sup,   \* the supervisor: what it is at, and what it has read
  op     \* each HTTP worker: the request it is about to pass to the engine

controlVars == <<held, due, armed, sup, op>>
vars == <<engineVars, controlVars>>

Free == [at |-> "free", do |-> "dial", line |-> Nobody]
Asleep == [at |-> "sleep", todo |-> {}, line |-> Nobody, state |-> "Idle",
           due |-> FALSE, held |-> FALSE]

SupTypeOK ==
  /\ sup \in [at : {"sleep", "scan", "hold", "act", "wait"}, todo : SUBSET Lines,
              line : Lines \cup {Nobody}, state : LineStates,
              due : BOOLEAN, held : BOOLEAN]
  /\ sup.at \in {"hold", "act", "wait"} => sup.line \in Lines

OpTypeOK ==
  /\ op \in [Operators -> [at : {"free", "ask", "wait"}, do : Requests,
                           line : Lines \cup {Nobody}]]
  /\ \A o \in Operators : op[o].at # "free" => op[o].line \in Lines

TypeOK ==
  /\ EngineTypeOK
  /\ held \in BOOLEAN
  /\ due \in [Lines -> BOOLEAN]
  /\ armed \in [Lines -> BOOLEAN]
  /\ SupTypeOK
  /\ OpTypeOK

Init ==
  /\ EngineInit
  /\ held = FALSE
  /\ due = [l \in Lines |-> TRUE]
  /\ armed = [l \in Lines |-> FALSE]
  /\ sup = Asleep
  /\ op = [o \in Operators |-> Free]

-----------------------------------------------------------------------------
(* The supervisor                                                          *)

(* A round starts: the lines are copied under mutex_ and visited after it. *)
SupWake ==
  /\ sup.at = "sleep"
  /\ sup' = [Asleep EXCEPT !.at = "scan", !.todo = Lines]
  /\ UNCHANGED <<engineVars, held, due, armed, op>>

SupSleep ==
  /\ sup.at = "scan"
  /\ sup.todo = {}
  /\ sup' = Asleep
  /\ UNCHANGED <<engineVars, held, due, armed, op>>

(* One line's state and last dial are read; the hold is read afterwards,   *)
(* for the conference leg alone.                                           *)
SupRead(l) ==
  /\ sup.at = "scan"
  /\ l \in sup.todo
  /\ sup' = [at |-> IF l = Conference THEN "hold" ELSE "act",
             todo |-> sup.todo \ {l}, line |-> l,
             state |-> lineState[l], due |-> due[l], held |-> FALSE]
  /\ UNCHANGED <<engineVars, held, due, armed, op>>

SupReadHold ==
  /\ sup.at = "hold"
  /\ sup' = [sup EXCEPT !.at = "act", !.held = held]
  /\ UNCHANGED <<engineVars, held, due, armed, op>>

(* The line, as read, is to be dialled.                                    *)
WantsDial == sup.line \in DialOut /\ ~sup.held /\ sup.state = "Idle" /\ sup.due

SupDial ==
  /\ sup.at = "act"
  /\ WantsDial
  /\ due' = [due EXCEPT ![sup.line] = FALSE]
  /\ Submit(Supervisor, "dial", sup.line)
  /\ sup' = [sup EXCEPT !.at = "wait"]
  /\ UNCHANGED <<held, armed, op>>

SupPass ==
  /\ sup.at = "act"
  /\ sup.line \notin PushToTalk
  /\ ~WantsDial
  /\ sup' = [sup EXCEPT !.at = "scan"]
  /\ UNCHANGED <<engineVars, held, due, armed, op>>

(* A push-to-talk line whose endpoint talks: raised from idle, answered    *)
(* when it rings.                                                          *)
SupTalking ==
  /\ sup.at = "act"
  /\ sup.line \in PushToTalk
  /\ armed' = [armed EXCEPT ![sup.line] = TRUE]
  /\ CASE sup.state = "Idle" ->
            /\ Submit(Supervisor, "dial", sup.line)
            /\ sup' = [sup EXCEPT !.at = "wait"]
       [] sup.state = "Ringing" ->
            /\ Submit(Supervisor, "answer", sup.line)
            /\ sup' = [sup EXCEPT !.at = "wait"]
       [] OTHER ->
            /\ sup' = [sup EXCEPT !.at = "scan"]
            /\ UNCHANGED engineVars
  /\ UNCHANGED <<held, due, op>>

(* The endpoint is silent, and was for longer than ptt_hangup_ms.          *)
SupSilent ==
  /\ sup.at = "act"
  /\ sup.line \in PushToTalk
  /\ sup.state = "InCall"
  /\ armed[sup.line]
  /\ Submit(Supervisor, "hangup", sup.line)
  /\ armed' = [armed EXCEPT ![sup.line] = FALSE]
  /\ sup' = [sup EXCEPT !.at = "wait"]
  /\ UNCHANGED <<held, due, op>>

(* The endpoint is silent, and nothing is due yet.                         *)
SupQuiet ==
  /\ sup.at = "act"
  /\ sup.line \in PushToTalk
  /\ sup' = [sup EXCEPT !.at = "scan"]
  /\ UNCHANGED <<engineVars, held, due, armed, op>>

SupReturn ==
  /\ sup.at = "wait"
  /\ Collect(Supervisor) \/ GiveUp(Supervisor)
  /\ sup' = [sup EXCEPT !.at = "scan"]
  /\ UNCHANGED <<held, due, armed, op>>

(* Five seconds after the last dial.                                       *)
RetryElapses(l) ==
  /\ ~due[l]
  /\ due' = [due EXCEPT ![l] = TRUE]
  /\ UNCHANGED <<engineVars, held, armed, sup, op>>

-----------------------------------------------------------------------------
(* The operator, through the HTTP workers                                  *)

Ask(o, do, l) == op' = [op EXCEPT ![o] = [at |-> "ask", do |-> do, line |-> l]]

(* call_action: a request for any line but the conference leg.             *)
CallAction(o, do, l) ==
  /\ op[o].at = "free"
  /\ l # Conference
  /\ Ask(o, do, l)
  /\ UNCHANGED <<engineVars, held, due, armed, sup>>

(* conference_action("dial"): the hold is lifted, and the supervisor's     *)
(* next retry counts from here.                                            *)
ConferenceDial(o) ==
  /\ op[o].at = "free"
  /\ Conference # Nobody
  /\ held' = FALSE
  /\ due' = [due EXCEPT ![Conference] = FALSE]
  /\ Ask(o, "dial", Conference)
  /\ UNCHANGED <<engineVars, armed, sup>>

(* conference_action("hangup"): held down first, and nothing asked of the  *)
(* engine when the leg is not up.                                          *)
ConferenceHangup(o) ==
  /\ op[o].at = "free"
  /\ Conference # Nobody
  /\ held' = TRUE
  /\ IF lineState[Conference] \in CallUp
     THEN Ask(o, "hangup", Conference)
     ELSE UNCHANGED op
  /\ UNCHANGED <<engineVars, due, armed, sup>>

OpSubmit(o) ==
  /\ op[o].at = "ask"
  /\ Submit(o, op[o].do, op[o].line)
  /\ op' = [op EXCEPT ![o].at = "wait"]
  /\ UNCHANGED <<held, due, armed, sup>>

OpReturn(o) ==
  /\ op[o].at = "wait"
  /\ Collect(o) \/ GiveUp(o)
  /\ op' = [op EXCEPT ![o] = Free]
  /\ UNCHANGED <<held, due, armed, sup>>

-----------------------------------------------------------------------------
SupStep ==
  \/ SupWake
  \/ SupSleep
  \/ \E l \in Lines : SupRead(l)
  \/ SupReadHold
  \/ SupDial
  \/ SupPass
  \/ SupTalking
  \/ SupSilent
  \/ SupQuiet
  \/ SupReturn

OpStep(o) ==
  \/ \E do \in Requests, l \in Lines : CallAction(o, do, l)
  \/ ConferenceDial(o)
  \/ ConferenceHangup(o)
  \/ OpSubmit(o)
  \/ OpReturn(o)

Next ==
  \/ SupStep
  \/ \E l \in Lines : RetryElapses(l)
  \/ \E o \in Operators : OpStep(o)
  \/ RunnerStep /\ UNCHANGED controlVars
  \/ LibraryStep /\ UNCHANGED controlVars

Spec == Init /\ [][Next]_vars

(* The threads run: the supervisor and the runner loop for as long as the  *)
(* gateway does, and five seconds always pass. Nothing is assumed of the   *)
(* operator or of the network, except that a call that was hung up ends.   *)
Fairness ==
  /\ WF_vars(SupStep)
  /\ WF_vars(RunnerStep /\ UNCHANGED controlVars)
  /\ \A l \in Lines : WF_vars(RetryElapses(l))
  /\ \A c \in Calls : WF_vars(call[c].phase = "closing" /\ Disconnected(c)
                              /\ UNCHANGED controlVars)

FairSpec == Spec /\ Fairness

-----------------------------------------------------------------------------
(* Properties                                                              *)

(* Audio passes between a line and the PBX only while the line holds a     *)
(* call, however late the media job of an earlier call ran (setup_line_    *)
(* media, teardown_line_media, on_line_state).                             *)
GateNeedsCall == \A l \in Lines : gate[l] => slot[l] # Nobody

(* A line has one call: a second live one is at most an invitation nobody  *)
(* has answered (dial's "already has a call" against onIncomingCall).      *)
OneCallPerLine ==
  \A c, d \in Calls :
    /\ c # d
    /\ Live(c) /\ Live(d)
    /\ call[c].line = call[d].line
    => "incoming" \in {call[c].phase, call[d].phase}

(* What the operator and the supervisor see of a line is the state of the  *)
(* line's one live call, and idle when it has none.                        *)
StateOf(phase) == CASE phase = "calling" -> {"Dialing"}
                    [] phase = "early" -> {"Ringing"}
                    [] phase = "confirmed" -> {"InCall"}
                    [] phase = "closing" -> CallUp
                    [] OTHER -> {"Idle", "Ringing"}
StateIsOfItsCall ==
  \A l \in Lines :
    \/ \E c \in Calls : /\ Live(c)
                        /\ call[c].line = l
                        /\ lineState[l] \in StateOf(call[c].phase)
    \/ /\ lineState[l] = "Idle"
       /\ \A c \in Calls : Live(c) => call[c].line # l

(* "The call comes up and stays up": a connected call leaves the appliance *)
(* only when its line is hung up or the network has ended it, never        *)
(* because its last reference was dropped (calls_ is emptied and           *)
(* overwritten by line id).                                                *)
NoCallDropped ==
  [][\A c \in Calls :
       call[c].phase = "confirmed" /\ call'[c].phase = "null"
         => \E l \in Lines : RunHangupAtOnce(l) /\ slot[l] = c]_vars

(* While the operator's hang up of the conference leg stands, no call is   *)
(* placed on it (conference_held_, read by supervise before it dials).     *)
HoldKeepsLegDown ==
  [][\A c \in Calls :
       call[c].phase = "null" /\ call'[c].phase = "calling"
         => ~(held /\ call'[c].line = Conference)]_vars

(* A line to be kept up has a call again and again, unless its operator    *)
(* holds it down or the library refuses, for a free line, to place one     *)
(* ("retrying every 5 s after a failure").                                 *)
HasCall(l) == \E c \in Calls : Live(c) /\ call[c].line = l
KeepsTrying ==
  \A l \in DialOut :
    \/ []<>(HasCall(l) \/ (l = Conference /\ held))
    \/ []<><<slot[l] = Nobody /\ RunDialRefused(l)>>_vars
=============================================================================
