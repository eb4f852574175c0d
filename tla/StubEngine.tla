------------------------------ MODULE StubEngine ------------------------------
(***************************************************************************)
(* StubSipEngine, the engine that simulates calls where there is no PJSIP  *)
(* or SIP is disabled, with the callbacks it delivers and the two mutexes  *)
(* they and the status requests take: its own and LineManager::mutex_.     *)
(*                                                                         *)
(* An operation takes the engine's mutex, changes the line, and tells the  *)
(* manager of the new state before it lets go (notify_state); starting and *)
(* stopping media takes the router's mutex alone and is part of the step.  *)
(* tick() does so for each line that is due: holding the mutex from one    *)
(* line to the next adds nothing, since only due lines are touched. The    *)
(* media thread loops audio back under the engine's mutex, changes nothing *)
(* that is here and waits for nobody, and so do reload_accounts,           *)
(* account_status and send_dtmf. Five hundred milliseconds may always have *)
(* passed, every line is known to the manager and has a target.            *)
(***************************************************************************)
EXTENDS LineCallbacks

CONSTANTS
  AutoAnswer, \* lines whose call_mode answers incoming calls
  Callers,    \* threads that call the engine: HTTP workers, the supervisor
  Readers,    \* threads that ask for a line's status
  Nobody

VARIABLES
  running,    \* worker and media_worker are there
  line,       \* Impl::lines
  engineMutex, managerMutex,  \* who holds them
  at          \* what each thread is at, of which line, with what to tell

vars == <<lineState, gate, running, line, engineMutex, managerMutex, at>>

Worker == "sip-stub"
Threads == Callers \cup Readers \cup {Worker}

States == LineStates \cup {"Absent", "Disabled", "Error"}

(* A line without a call; one that is not in Impl::lines is "Absent".      *)
NoCall(state, enabled) ==
  [state |-> state, enabled |-> enabled, active |-> FALSE, shows |-> "",
   hold |-> FALSE, inbound |-> FALSE]
Absent == NoCall("Absent", FALSE)

Idle == [step |-> "idle", line |-> Nobody, state |-> "Absent"]

TypeOK ==
  /\ gate \in [Lines -> BOOLEAN] /\ running \in BOOLEAN
  /\ lineState \in [Lines -> States \ {"Absent"}]
  /\ line \in [Lines -> [state : States, enabled : BOOLEAN, active : BOOLEAN,
                         hold : BOOLEAN, inbound : BOOLEAN,
                         shows : {"", "calling", "ringing", "in_call", "held", "failed"}]]
  /\ engineMutex \in Threads \cup {Nobody} /\ managerMutex \in Threads \cup {Nobody}
  /\ at \in [Threads -> [step : {"idle", "tell", "ring", "answer", "ask"},
                         line : Lines \cup {Nobody}, state : States]]

Init ==
  /\ CallbacksInit
  /\ running = FALSE
  /\ line = [l \in Lines |-> Absent]
  /\ engineMutex = Nobody /\ managerMutex = Nobody
  /\ at = [t \in Threads |-> Idle]

-----------------------------------------------------------------------------
(* Pieces of an operation                                                  *)

(* notify_state: the line has its new state; the manager has yet to be     *)
(* told, and the engine's mutex is held until then.                        *)
Notify(t, l, entry, step) ==
  /\ engineMutex = Nobody
  /\ line' = [line EXCEPT ![l] = entry]
  /\ engineMutex' = t
  /\ at' = [at EXCEPT ![t] = [step |-> step, line |-> l, state |-> entry.state]]
  /\ UNCHANGED <<lineState, running, managerMutex>>

(* A change of the line that nobody is told of.                            *)
Silently(l, entry) ==
  /\ engineMutex = Nobody
  /\ line' = [line EXCEPT ![l] = entry]
  /\ UNCHANGED <<lineState, gate, running, engineMutex, managerMutex, at>>

MediaStops(l) == IF line[l].state = "InCall" THEN OnMediaStop(l) ELSE UNCHANGED gate

-----------------------------------------------------------------------------
(* Operations                                                              *)

Start == ~running /\ running' = TRUE
         /\ UNCHANGED <<lineState, gate, line, engineMutex, managerMutex, at>>

(* The threads are joined: stop() waits for a tick that is under way.      *)
Stop == running /\ at[Worker].step = "idle" /\ running' = FALSE
        /\ UNCHANGED <<lineState, gate, line, engineMutex, managerMutex, at>>

(* A call that is up stays, unless the line is switched off: then it goes  *)
(* without a word to anybody.                                              *)
AddLine(t, l, enabled) ==
  /\ at[t].step = "idle"
  /\ Silently(l, IF ~enabled THEN NoCall("Disabled", FALSE)
                 ELSE IF line[l].state = "Absent" THEN NoCall("Idle", TRUE)
                 ELSE [line[l] EXCEPT !.enabled = TRUE,
                                      !.state = IF @ = "Disabled" THEN "Idle" ELSE @])

RemoveLine(t, l) == at[t].step = "idle" /\ Silently(l, Absent)

(* A line whose call rings or is up is refused; one that is being dialled, *)
(* switched off or in error is not. hold is left as it was.                *)
Dial(t, l) ==
  /\ at[t].step = "idle"
  /\ line[l].state \notin {"Absent", "InCall", "Ringing"}
  /\ Notify(t, l, [line[l] EXCEPT !.state = "Dialing", !.active = TRUE,
                                  !.shows = "calling", !.inbound = FALSE], "tell")
  /\ UNCHANGED gate

(* Any call will do, an outgoing one included.                             *)
AnswerCall(t, l) ==
  /\ line[l].active
  /\ Notify(t, l, [line[l] EXCEPT !.state = "InCall", !.shows = "in_call"], "tell")
  /\ OnMediaStart(l)

Answer(t, l) == at[t].step = "idle" /\ AnswerCall(t, l)

Hangup(t, l) ==
  /\ at[t].step = "idle"
  /\ line[l].state # "Absent"
  /\ Notify(t, l, NoCall(IF line[l].enabled THEN "Idle" ELSE "Disabled", line[l].enabled),
            "tell")
  /\ MediaStops(l)

(* Of a line without a call as well.                                       *)
SetHold(t, l, hold) ==
  /\ at[t].step = "idle"
  /\ line[l].state # "Absent"
  /\ Silently(l, [line[l] EXCEPT !.hold = hold,
                                 !.shows = IF hold THEN "held" ELSE "in_call"])

SimulateCallFailure(t, l) ==
  /\ at[t].step = "idle"
  /\ line[l].state # "Absent"
  /\ Notify(t, l, [NoCall("Error", line[l].enabled) EXCEPT !.shows = "failed"], "tell")
  /\ MediaStops(l)

(* The new call takes the place of any other, and its hold.                *)
SimulateIncomingCall(t, l) ==
  /\ at[t].step = "idle"
  /\ line[l].state # "Absent"
  /\ Notify(t, l, [line[l] EXCEPT !.state = "Ringing", !.active = TRUE,
                                  !.shows = "ringing", !.inbound = TRUE], "ring")
  /\ UNCHANGED gate

(* tick(), of a line that is due.                                          *)
TickRings(l) ==
  /\ running /\ at[Worker].step = "idle"
  /\ line[l].state = "Dialing"
  /\ Notify(Worker, l, [line[l] EXCEPT !.state = "Ringing", !.shows = "ringing"], "tell")
  /\ UNCHANGED gate

TickAnswers(l) ==
  /\ running /\ at[Worker].step = "idle"
  /\ line[l].state = "Ringing" /\ ~line[l].inbound
  /\ Notify(Worker, l, [line[l] EXCEPT !.state = "InCall", !.active = TRUE,
                                       !.shows = "in_call"], "tell")
  /\ OnMediaStart(l)

-----------------------------------------------------------------------------
(* The manager                                                             *)

(* on_line_state, and the engine's mutex is let go.                        *)
Tell(t) ==
  /\ at[t].step \in {"tell", "ring"} /\ engineMutex = t
  /\ managerMutex = Nobody
  /\ OnLineState(at[t].line, at[t].state)
  /\ engineMutex' = Nobody
  /\ at' = [at EXCEPT ![t] = IF @.step = "ring" THEN @ ELSE Idle]
  /\ UNCHANGED <<running, line, managerMutex>>

(* on_incoming_call, with no lock of the engine's held: a line that        *)
(* answers by itself calls back into it.                                   *)
OnIncomingCall(t) ==
  /\ at[t].step = "ring" /\ engineMutex # t
  /\ managerMutex = Nobody
  /\ at' = [at EXCEPT ![t] = IF @.line \in AutoAnswer THEN [@ EXCEPT !.step = "answer"]
                             ELSE Idle]
  /\ UNCHANGED <<lineState, gate, running, line, engineMutex, managerMutex>>

AutoAnswers(t) ==
  /\ at[t].step = "answer"
  /\ AnswerCall(t, at[t].line)

AnswerRefused(t) ==
  /\ at[t].step = "answer" /\ engineMutex = Nobody
  /\ ~line[at[t].line].active
  /\ at' = [at EXCEPT ![t] = Idle]
  /\ UNCHANGED <<lineState, gate, running, line, engineMutex, managerMutex>>

(* line_status: mutex_ is held while the engine is asked for the call.     *)
LineStatus(r, l) ==
  /\ at[r].step = "idle"
  /\ managerMutex = Nobody
  /\ managerMutex' = r
  /\ at' = [at EXCEPT ![r] = [step |-> "ask", line |-> l, state |-> "Absent"]]
  /\ UNCHANGED <<lineState, gate, running, line, engineMutex>>

(* call_status, for which the engine's mutex is needed.                    *)
CallStatus(r) ==
  /\ at[r].step = "ask"
  /\ engineMutex = Nobody
  /\ managerMutex' = Nobody
  /\ at' = [at EXCEPT ![r] = Idle]
  /\ UNCHANGED <<lineState, gate, running, line, engineMutex>>

Next ==
  \/ Start \/ Stop
  \/ \E t \in Callers, l \in Lines :
       \/ \E on \in BOOLEAN : AddLine(t, l, on) \/ SetHold(t, l, on)
       \/ RemoveLine(t, l) \/ Hangup(t, l)
       \/ Dial(t, l) \/ Answer(t, l)
       \/ SimulateCallFailure(t, l) \/ SimulateIncomingCall(t, l)
  \/ \E l \in Lines : TickRings(l) \/ TickAnswers(l)
  \/ \E t \in Threads :
       Tell(t) \/ OnIncomingCall(t) \/ AutoAnswers(t) \/ AnswerRefused(t)
  \/ \E r \in Readers : CallStatus(r) \/ \E l \in Lines : LineStatus(r, l)

Spec == Init /\ [][Next]_vars

-----------------------------------------------------------------------------
(* Who waits for whom: the engine's mutex is held by a thread that has     *)
(* something to tell, the manager's by one that asks.                      *)
WaitsFor(t, u) ==
  \/ at[t].step \in {"tell", "ring"} /\ engineMutex = t /\ managerMutex = u
  \/ at[t].step = "ask" /\ engineMutex = u

(* No threads wait for each other in a circle: mutex_ is never held while  *)
(* calling into the engine, as the comment in LineManager::supervise says. *)
NoCircularWait ==
  ~ \E stuck \in (SUBSET Threads) \ {{}} :
      \A t \in stuck : \E u \in stuck : WaitsFor(t, u)
=============================================================================
