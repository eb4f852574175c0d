----------------------------- MODULE PjsipEngine -----------------------------
(***************************************************************************)
(* PjsipSipEngine: one call per line, kept between three kinds of thread.  *)
(*                                                                         *)
(*  - callers (the supervisor, the HTTP workers) queue a job and block for *)
(*    its result, for at most five seconds (run_on_pjsip);                 *)
(*  - the runner, the one thread allowed to drive the library, takes jobs  *)
(*    in order;                                                            *)
(*  - the library's own thread reports what the network did, and leaves    *)
(*    behind jobs for whatever it may not do itself (post).                *)
(*                                                                         *)
(* calls_ holds the one reference to a line's SipCall, by line id. When the *)
(* last reference goes, pjsua2 ends a call that is still live and forgets  *)
(* whom to tell: no callback follows (external, pj::Call).                 *)
(***************************************************************************)
EXTENDS LineCallbacks, Naturals, Sequences

CONSTANTS
  Calls,      \* library call slots (uaConfig.maxCalls)
  Callers,    \* threads that call the engine and wait
  Nobody,     \* no call, no line, no caller
  AutoAnswer, \* the lines whose call_mode answers by itself
  Inbound,    \* the lines the PBX may call
  QueueBound  \* bound: jobs queued when a new one is still modelled

ASSUME EngineAssumption ==
  /\ Nobody \notin Calls \cup Lines \cup Callers
  /\ AutoAnswer \subseteq Lines
  /\ Inbound \subseteq Lines
  /\ QueueBound \in Nat

VARIABLES
  call,   \* the library's view of each call, and the line its SipCall names
  slot,   \* calls_: the SipCall a line holds
  port,   \* ports_: the call whose media a line's AES67 port was connected to
  queue,  \* queue_: jobs for the runner
  runner, \* the job the runner is in the middle of, when it takes two steps
  reply   \* what a caller's future holds: "none" (not waiting), "pending", "done"

engineVars == <<lineState, gate, call, slot, port, queue, runner, reply>>

Phases ==
  {"null", "calling", "early", "incoming", "confirmed", "closing", "ended"}

Requests == {"dial", "answer", "hangup"}
Jobs == [do : Requests \cup {"incoming", "media up", "media down", "ended"},
         line : Lines, by : Callers \cup {Nobody}]

NoCall == [phase |-> "null", line |-> Nobody, media |-> FALSE]
Resting == [at |-> "rest", line |-> Nobody, call |-> Nobody, by |-> Nobody]

CallsTypeOK ==
  /\ call \in [Calls -> [phase : Phases, line : Lines \cup {Nobody},
                         media : BOOLEAN]]
  /\ \A c \in Calls : call[c].phase # "null" => call[c].line \in Lines

RunnerTypeOK ==
  runner \in [at : {"rest", "store", "connect"}, line : Lines \cup {Nobody},
              call : Calls \cup {Nobody}, by : Callers \cup {Nobody}]

EngineTypeOK ==
  /\ CallbacksTypeOK
  /\ CallsTypeOK
  /\ slot \in [Lines -> Calls \cup {Nobody}]
  /\ port \in [Lines -> Calls \cup {Nobody}]
  /\ queue \in Seq(Jobs)
  /\ RunnerTypeOK
  /\ reply \in [Callers -> {"none", "pending", "done"}]

EngineInit ==
  /\ CallbacksInit
  /\ call = [c \in Calls |-> NoCall]
  /\ slot = [l \in Lines |-> Nobody]
  /\ port = [l \in Lines |-> Nobody]
  /\ queue = << >>
  /\ runner = Resting
  /\ reply = [t \in Callers |-> "none"]

(* A call the far end still has.                                           *)
Live(c) == call[c].phase \notin {"null", "ended"}

(* A mistake: the reference goes and the call stays.                       *)
ReleasedNever(calls, c) == calls

(* The calls after a line lets go of reference c: the object dies, and a   *)
(* live call with it, unless the runner is still using it.                 *)
Released(calls, c) ==
  IF c = Nobody \/ c = runner.call THEN calls
                                   ELSE [calls EXCEPT ![c] = NoCall]

-----------------------------------------------------------------------------
(* The job queue                                                           *)

Job(do, l, t) == [do |-> do, line |-> l, by |-> t]
Post(do, l) == queue' = Append(queue, Job(do, l, Nobody))

(* A caller queues a request and waits for its result.                     *)
Submit(t, do, l) ==
  /\ reply[t] = "none"
  /\ Len(queue) < QueueBound
  /\ queue' = Append(queue, Job(do, l, t))
  /\ reply' = [reply EXCEPT ![t] = "pending"]
  /\ UNCHANGED <<lineState, gate, call, slot, port, runner>>

(* The caller has its result.                                              *)
Collect(t) ==
  /\ reply[t] = "done"
  /\ reply' = [reply EXCEPT ![t] = "none"]
  /\ UNCHANGED <<lineState, gate, call, slot, port, queue, runner>>

(* Five seconds passed: the caller reports failure and goes on. The job    *)
(* stays where it is, with nobody waiting for it.                          *)
GiveUp(t) ==
  /\ reply[t] = "pending"
  /\ reply' = [reply EXCEPT ![t] = "none"]
  /\ queue' = [i \in DOMAIN queue |->
                 IF queue[i].by = t THEN [queue[i] EXCEPT !.by = Nobody]
                                    ELSE queue[i]]
  /\ runner' = [runner EXCEPT !.by = IF @ = t THEN Nobody ELSE @]
  /\ UNCHANGED <<lineState, gate, call, slot, port>>

Answered(t) == reply' = IF t = Nobody THEN reply
                                      ELSE [reply EXCEPT ![t] = "done"]

(* The runner takes the oldest job, which is of kind `do` and for line l.  *)
Take(do, l) ==
  /\ runner.at = "rest"
  /\ queue # << >>
  /\ Head(queue).do = do
  /\ Head(queue).line = l
  /\ queue' = Tail(queue)

-----------------------------------------------------------------------------
(* The runner                                                              *)

(* dial: refused while the line holds a call, whatever state it is in, and *)
(* nothing is left behind when the library refuses to place it.            *)
RunDialRefused(l) ==
  /\ Take("dial", l)
  /\ Answered(Head(queue).by)
  /\ UNCHANGED <<lineState, gate, call, slot, port, runner>>

(* A mistake the checks must catch: dial does not look for a call first.   *)
RunDialPlaceUnchecked(l, c) ==
  /\ Take("dial", l)
  /\ call[c].phase = "null"
  /\ call' = [call EXCEPT ![c] = [phase |-> "calling", line |-> l, media |-> FALSE]]
  /\ OnLineState(l, "Dialing")
  /\ runner' = [at |-> "store", line |-> l, call |-> c, by |-> Head(queue).by]
  /\ UNCHANGED <<slot, port, reply>>

(* dial, placed: the library reports CALLING before makeCall returns, and  *)
(* the line does not hold the call yet.                                    *)
RunDialPlace(l, c) ==
  /\ Take("dial", l)
  /\ slot[l] = Nobody
  /\ call[c].phase = "null"
  /\ call' = [call EXCEPT ![c] = [phase |-> "calling", line |-> l, media |-> FALSE]]
  /\ OnLineState(l, "Dialing")
  /\ runner' = [at |-> "store", line |-> l, call |-> c, by |-> Head(queue).by]
  /\ UNCHANGED <<slot, port, reply>>

(* Mistakes: dial reports the call only once it is stored; it stores the   *)
(* line where the call belongs.                                            *)
RunDialStoreReports ==
  /\ runner.at = "store"
  /\ slot' = [slot EXCEPT ![runner.line] = runner.call]
  /\ call' = Released(call, slot[runner.line])
  /\ OnLineState(runner.line, "Dialing")
  /\ Answered(runner.by)
  /\ runner' = Resting
  /\ UNCHANGED <<port, queue>>
RunDialStoreSwapped ==
  /\ runner.at = "store"
  /\ slot' = [slot EXCEPT ![runner.line] = runner.line]
  /\ call' = Released(call, slot[runner.line])
  /\ Answered(runner.by)
  /\ runner' = Resting
  /\ UNCHANGED <<lineState, gate, port, queue>>

(* dial, finished: store_call puts the call in the line's slot, over       *)
(* whatever has been put there meanwhile.                                  *)
RunDialStore ==
  /\ runner.at = "store"
  /\ slot' = [slot EXCEPT ![runner.line] = runner.call]
  /\ call' = Released(call, slot[runner.line])
  /\ Answered(runner.by)
  /\ runner' = Resting
  /\ UNCHANGED <<lineState, gate, port, queue>>

(* An incoming call taken on the runner: the library settles the media and *)
(* the state before it returns, so its callbacks run here and their job -  *)
(* connecting the line's port - runs inline.                               *)
Accept(l) ==
  /\ slot[l] # Nobody
  /\ call[slot[l]].phase = "incoming"
  /\ call' = [call EXCEPT ![slot[l]].phase = "confirmed", ![slot[l]].media = TRUE]
  /\ port' = [port EXCEPT ![l] = slot[l]]
  /\ lineState' = [lineState EXCEPT ![l] = "InCall"]
  /\ OnMediaStart(l)

(* answer: accepted, or refused because there is no call to answer or the  *)
(* library says no.                                                        *)
RunAnswer(l) ==
  /\ Take("answer", l)
  /\ Answered(Head(queue).by)
  /\ Accept(l) \/ UNCHANGED <<lineState, gate, call, port>>
  /\ UNCHANGED <<slot, runner>>

(* on_incoming_call: a line that answers by itself does so here.           *)
RunIncoming(l) ==
  /\ Take("incoming", l)
  /\ \/ l \in AutoAnswer /\ Accept(l)
     \/ UNCHANGED <<lineState, gate, call, port>>
  /\ UNCHANGED <<slot, runner, reply>>

(* hangup: nothing to do without a call, and otherwise the far end is told *)
(* and the end of the call is reported later.                              *)
RunHangup(l) ==
  /\ Take("hangup", l)
  /\ Answered(Head(queue).by)
  /\ IF slot[l] # Nobody /\ Live(slot[l])
     THEN call' = [call EXCEPT ![slot[l]].phase = "closing"]
     ELSE UNCHANGED call
  /\ UNCHANGED <<lineState, gate, slot, port, runner>>

(* hangup of a call the library can end at once: the end is reported on    *)
(* this thread, so the job that forgets the call runs inline too.          *)
RunHangupAtOnce(l) ==
  /\ Take("hangup", l)
  /\ slot[l] # Nobody
  /\ Live(slot[l])
  /\ Answered(Head(queue).by)
  /\ call' = [call EXCEPT ![slot[l]] = NoCall]
  /\ slot' = [slot EXCEPT ![l] = Nobody]
  /\ port' = [port EXCEPT ![l] = Nobody]
  /\ OnLineState(l, "Idle")
  /\ UNCHANGED runner

(* A mistake: the port goes and the router is not told.                    *)
TeardownSilently(l) == port' = [port EXCEPT ![l] = Nobody] /\ UNCHANGED gate

(* teardown_line_media: a line without a port is left alone.               *)
Teardown(l) ==
  IF port[l] = Nobody
  THEN UNCHANGED <<port, gate>>
  ELSE port' = [port EXCEPT ![l] = Nobody] /\ OnMediaStop(l)

(* The media job of a call without active media.                           *)
RunMediaDown(l) ==
  /\ Take("media down", l)
  /\ Teardown(l)
  /\ UNCHANGED <<lineState, call, slot, runner, reply>>

(* setup_line_media with no call left: nothing to connect.                 *)
RunMediaNoCall(l) ==
  /\ Take("media up", l)
  /\ slot[l] = Nobody
  /\ UNCHANGED <<lineState, gate, call, slot, port, runner, reply>>

(* setup_line_media, first half: the old port goes, and the call's media   *)
(* is looked up; an ended or media-less call stops here.                   *)
RunMediaFind(l) ==
  /\ Take("media up", l)
  /\ slot[l] # Nobody
  /\ Teardown(l)
  /\ runner' = IF Live(slot[l]) /\ call[slot[l]].media
               THEN [at |-> "connect", line |-> l, call |-> slot[l], by |-> Nobody]
               ELSE Resting
  /\ UNCHANGED <<lineState, call, slot, reply>>

(* setup_line_media, second half: the port is stored and the gate raised,  *)
(* whatever became of the call since it was looked up - or the library     *)
(* refuses to connect the port.                                            *)
RunMediaConnect ==
  /\ runner.at = "connect"
  /\ \/ /\ port' = [port EXCEPT ![runner.line] = runner.call]
        /\ OnMediaStart(runner.line)
     \/ UNCHANGED <<port, gate>>
  /\ call' = IF slot[runner.line] = runner.call
             THEN call ELSE [call EXCEPT ![runner.call] = NoCall]
  /\ runner' = Resting
  /\ UNCHANGED <<lineState, slot, queue, reply>>

(* A mistake: the media is torn down and the call never forgotten.         *)
RunEndedKeepsCall(l) ==
  /\ Take("ended", l)
  /\ Teardown(l)
  /\ UNCHANGED <<lineState, call, slot, runner, reply>>

(* The job an ended call leaves: media down, and the line's slot emptied - *)
(* of whichever call is in it by now.                                      *)
RunEnded(l) ==
  /\ Take("ended", l)
  /\ Teardown(l)
  /\ slot' = [slot EXCEPT ![l] = Nobody]
  /\ call' = Released(call, slot[l])
  /\ UNCHANGED <<lineState, runner, reply>>

-----------------------------------------------------------------------------
(* The library's thread                                                    *)

(* The SipCall is alive, so its callbacks are delivered.                   *)
Ringing(c) ==
  /\ call[c].phase \in {"calling", "early", "incoming"}
  /\ call' = [call EXCEPT ![c].phase = IF @ = "calling" THEN "early" ELSE @]
  /\ OnLineState(call[c].line, "Ringing")
  /\ UNCHANGED <<slot, port, queue, runner, reply>>

(* The far end took an outgoing call.                                      *)
Connected(c) ==
  /\ call[c].phase \in {"calling", "early"}
  /\ call' = [call EXCEPT ![c].phase = "confirmed"]
  /\ OnLineState(call[c].line, "InCall")
  /\ UNCHANGED <<slot, port, queue, runner, reply>>

(* The call is over: the state and the gate follow at once, the rest is    *)
(* left to the runner.                                                     *)
Disconnected(c) ==
  /\ Live(c)
  /\ call' = [call EXCEPT ![c].phase = "ended", ![c].media = FALSE]
  /\ OnLineState(call[c].line, "Idle")
  /\ Post("ended", call[c].line)
  /\ UNCHANGED <<slot, port, runner, reply>>

(* The call's media starts, or stops (the far end holds the call).         *)
MediaChanged(c) ==
  /\ call[c].phase \in {"calling", "early", "confirmed"}
  /\ Len(queue) < QueueBound
  /\ call' = [call EXCEPT ![c].media = ~@]
  /\ Post(IF call[c].media THEN "media down" ELSE "media up", call[c].line)
  /\ UNCHANGED <<lineState, gate, slot, port, runner, reply>>

(* An INVITE arrives: onIncomingCall stores the new call over whatever the *)
(* line holds and leaves the application's reaction to the runner.         *)
IncomingCall(l, c) ==
  /\ l \in Inbound
  /\ call[c].phase = "null"
  /\ Len(queue) < QueueBound
  /\ slot' = [slot EXCEPT ![l] = c]
  /\ call' = [Released(call, slot[l]) EXCEPT
                ![c] = [phase |-> "incoming", line |-> l, media |-> FALSE]]
  /\ Post("incoming", l)
  /\ UNCHANGED <<lineState, gate, port, runner, reply>>

-----------------------------------------------------------------------------
RunnerStep ==
  \/ \E l \in Lines :
       \/ RunDialRefused(l)
       \/ \E c \in Calls : RunDialPlace(l, c)
       \/ RunAnswer(l)
       \/ RunIncoming(l)
       \/ RunHangup(l)
       \/ RunHangupAtOnce(l)
       \/ RunMediaDown(l)
       \/ RunMediaNoCall(l)
       \/ RunMediaFind(l)
       \/ RunEnded(l)
  \/ RunDialStore
  \/ RunMediaConnect

LibraryStep ==
  \/ \E c \in Calls : Ringing(c)
  \/ \E c \in Calls : Connected(c)
  \/ \E c \in Calls : Disconnected(c)
  \/ \E c \in Calls : MediaChanged(c)
  \/ \E l \in Lines, c \in Calls : IncomingCall(l, c)
=============================================================================
