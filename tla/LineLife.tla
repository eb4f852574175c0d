------------------------------- MODULE LineLife -------------------------------
(***************************************************************************)
(* The life of a line between configuration and registrar: how an apply or *)
(* an edit reaches the SIP engine, what the engine keeps of a line, and    *)
(* what the library's thread may meet of it meanwhile.                     *)
(*                                                                         *)
(*  - HTTP workers change config_, then hand each line to the engine and   *)
(*    wait for it, for at most five seconds; the job stays if they give up;*)
(*    the main thread does the same once, at the start, when the API is    *)
(*    open already;                                                        *)
(*  - the runner takes the jobs in order and owns the SipAccount objects;  *)
(*  - the library's thread reports registrations with the library's lock   *)
(*    held, which creating and shutting down an account take as well.      *)
(*                                                                         *)
(* Sections under LineManager::mutex_ or state_mutex_ are single steps:    *)
(* who keeps mutex_ for longer (a status request, the removal of streams)  *)
(* only delays the others. The engine, once started, is not stopped. Calls *)
(* and the states lines show are in PjsipEngine and LineCallbacks.         *)
(***************************************************************************)
EXTENDS Naturals, Sequences, FiniteSets

CONSTANTS
  Lines,     \* ids that lines have, or had, in some configuration
  Leg,       \* kConferenceLineId
  Documents, \* what config_ may say
  Registering, \* lines whose account has a registrar, which answers
  Objects,   \* addresses a SipAccount may be at
  Workers,   \* HTTP worker threads
  Main,      \* the main thread
  Nothing,   \* no account, no line, no thread
  QueueBound \* bound: jobs queued when a request still adds one

Threads == Workers \cup {Main}

(* What is said of a line: there is none, it is switched off, or on. The   *)
(* leg is there or is not.                                                 *)
Wishes == {"absent", "off", "on"}

ASSUME LifeAssumption ==
  /\ Leg \in Lines
  /\ Nothing \notin Lines \cup Objects \cup Threads
  /\ Main \notin Workers
  /\ Documents \subseteq {doc \in [Lines -> Wishes] : doc[Leg] \in {"absent", "on"}}
  /\ Registering \subseteq Lines
  /\ QueueBound \in Nat

VARIABLES
  config,  \* config_: what it says of each line
  leg,     \* whether lines_ has an entry for the leg
  request, \* each thread: where it is, and what it still has to ask
  owed,    \* history: lines switched off, and not handed over since
  crossed, \* history: requests under way that met another under way
  muddled, \* history: lines handed over last by a request that was crossed
  queue,   \* queue_
  runner,  \* the job the runner is at, and how far it is
  live,    \* the line each registered SipAccount is for
  context, \* PjsipSipEngine::lines_: the account a line has
  index,   \* account_index_: the same, for the library's thread
  status,  \* reg_status_
  heard,   \* history: what the library reported last of a line, if that stands
  library  \* the library's thread, inside a callback with its lock held

told == <<config, leg, owed, muddled>>
manager == <<told, crossed>>
registry == <<live, context, index>>
vars == <<manager, request, queue, runner, registry, status, heard, library>>

Jobs == [do : {"add", "leg", "remove"}, line : Lines, as : Wishes,
         by : Threads \cup {Nothing}]

(* Where a request is: about to take the lines, at its jobs, or at the leg; *)
(* what it still has to ask for, and the job it waits for.                 *)
Places == {"free", "apply", "ask", "wait", "found", "missing", "raise", "erase"}
Requests == [at : Places, todo : SUBSET Jobs,
             job : {"none", "add", "remove"}]

Outcomes == {"ok", "failed", "lapsed"}

Idle == [at |-> "idle", line |-> Nothing, found |-> Nothing]
Resting == [at |-> "rest", line |-> Nothing, add |-> FALSE, keep |-> FALSE,
            object |-> Nothing, by |-> Nothing]
At(place) == [at |-> place, todo |-> {}, job |-> "none"]
Free == At("free")

TypeOK ==
  /\ config \in Documents /\ leg \in BOOLEAN
  /\ request \in [Threads -> Requests]
  /\ owed \subseteq Lines /\ crossed \subseteq Threads /\ muddled \subseteq Lines
  /\ queue \in Seq(Jobs)
  /\ runner \in [at : {"rest", "release", "forget", "create", "enter"},
                 line : Lines \cup {Nothing}, add : BOOLEAN, keep : BOOLEAN,
                 object : Objects \cup {Nothing}, by : Threads \cup {Nothing}]
  /\ runner.at # "rest" => runner.line \in Lines
  /\ runner.at = "enter" => runner.object \in Objects
  /\ live \in [Objects -> Lines \cup {Nothing}]
  /\ context \in [Lines -> Objects \cup {Nothing}]
  /\ index \in [Lines -> Objects \cup {Nothing}]
  /\ status \in [Lines -> {"none", "unregistered", "registered", "error"}]
  /\ heard \in [Lines -> {"none", "ok", "failed"}]
  /\ library \in [at : {"idle", "use"},
                  line : Lines \cup {Nothing}, found : Objects \cup {Nothing}]
  /\ library.at = "use" => library.line \in Lines

(* The file has been read; the main thread is still to apply it.           *)
Init ==
  /\ config \in Documents /\ leg = FALSE
  /\ request = [t \in Threads |-> IF t = Main THEN At("apply") ELSE Free]
  /\ owed = {} /\ crossed = {} /\ muddled = {}
  /\ queue = << >> /\ runner = Resting
  /\ live = [o \in Objects |-> Nothing]
  /\ context = [l \in Lines |-> Nothing]
  /\ index = [l \in Lines |-> Nothing]
  /\ status = [l \in Lines |-> "none"]
  /\ heard = [l \in Lines |-> "none"]
  /\ library = Idle

-----------------------------------------------------------------------------
(* The manager: requests                                                   *)

engine == <<queue, runner, registry, status, heard, library>>

Ask(do, l, c) == [do |-> do, line |-> l, as |-> c, by |-> Nothing]
Asking(todo) == [at |-> "ask", todo |-> todo, job |-> "none"]

(* What an apply asks of the engine: every line there is, and then what is *)
(* to become of the leg. A line that is gone is not among it.              *)
TheLeg == Ask("leg", Leg, "absent")
Plan(doc) ==
  {TheLeg} \cup {Ask("add", l, doc[l]) : l \in {k \in Lines \ {Leg} : doc[k] # "absent"}}

Off(doc, l) == doc[l] = "off" \/ (l = Leg /\ doc[l] = "absent")

(* What a request acts on it reads when it begins; who begins or changes   *)
(* config_ while another is at that gets in the other's way.               *)
Busy(t) == request[t].at \notin {"free", "apply"}
Others(t) == {u \in Threads \ {t} : Busy(u)}
Begins(t) == crossed' = IF Others(t) = {} THEN crossed ELSE crossed \cup Others(t) \cup {t}

(* POST /api/config and POST /api/system/restart: config_ is replaced.     *)
Post(w, doc) ==
  /\ request[w].at = "free"
  /\ config' = doc
  /\ owed' = {l \in Lines : Off(doc, l) /\ (l \in owed \/ ~Off(config, l))}
  /\ crossed' = crossed \cup Others(w)
  /\ request' = [request EXCEPT ![w] = At("apply")]
  /\ UNCHANGED <<leg, muddled, engine>>

(* apply_configuration takes the lines of config_, whoever wrote it last.  *)
TakeLines(t) ==
  /\ request[t].at = "apply"
  /\ Begins(t)
  /\ request' = [request EXCEPT ![t] = Asking(Plan(config))]
  /\ UNCHANGED <<told, engine>>

(* Or what config_ says (restart's file was not looked at) does not        *)
(* validate, or the engine has not taken the accounts in time: the apply   *)
(* ends, with nothing handed over.                                         *)
ApplyFails(t) ==
  /\ request[t].at = "apply"
  /\ request' = [request EXCEPT ![t] = Free]
  /\ UNCHANGED <<manager, engine>>

(* PUT /api/lines/<id>: one line, and nothing is asked about the accounts. *)
UpdateLine(w, l, c) ==
  /\ request[w].at = "free"
  /\ l # Leg /\ config[l] # "absent" /\ c # "absent"
  /\ config' = [config EXCEPT ![l] = c]
  /\ config' \in Documents
  /\ owed' = IF c = "off" THEN owed \cup {l} ELSE owed \ {l}
  /\ Begins(w)
  /\ request' = [request EXCEPT ![w] = Asking({Ask("add", l, c)})]
  /\ UNCHANGED <<leg, muddled, engine>>

(* POST /api/conference/config: nothing but the leg.                       *)
UpdateConference(w, c) ==
  /\ request[w].at = "free"
  /\ config' = [config EXCEPT ![Leg] = c]
  /\ config' \in Documents
  /\ owed' = IF c = "absent" THEN owed \cup {Leg} ELSE owed \ {Leg}
  /\ Begins(w)
  /\ request' = [request EXCEPT ![w] = Asking({TheLeg})]
  /\ UNCHANGED <<leg, muddled, engine>>

(* A request ends, or goes on with what it still has to ask; a leg that was *)
(* removed is erased next, whatever the engine said.                       *)
Ends(t) ==
  /\ request' = [request EXCEPT ![t] = Free]
  /\ crossed' = crossed \ {t}

GoesOn(t, job, todo) ==
  IF job = "remove" THEN request' = [request EXCEPT ![t] = At("erase")] /\ UNCHANGED crossed
  ELSE IF todo = {} THEN Ends(t)
  ELSE request' = [request EXCEPT ![t] = Asking(todo)] /\ UNCHANGED crossed

(* apply_conference looks the leg up,                                      *)
LookUpLeg(t) ==
  /\ request[t].at = "ask"
  /\ request[t].todo = {TheLeg}
  /\ request' = [request EXCEPT ![t] = At(IF leg THEN "found" ELSE "missing")]
  /\ UNCHANGED <<manager, engine>>

(* reads config_ without the mutex: a leg that is not wanted any more is   *)
(* removed (and hung up first, which delays this);                         *)
DropLeg(t) ==
  /\ request[t].at = "found" /\ config[Leg] = "absent"
  /\ request' = [request EXCEPT ![t] =
                  Asking({Ask("remove", Leg, "absent")})]
  /\ UNCHANGED <<manager, engine>>

NoLeg(t) ==
  /\ request[t].at = "missing" /\ config[Leg] = "absent"
  /\ owed' = IF t \in crossed THEN owed ELSE owed \ {Leg}
  /\ Ends(t)
  /\ UNCHANGED <<config, leg, muddled, engine>>

KeepLeg(t) ==
  /\ request[t].at = "found" /\ config[Leg] # "absent"
  /\ request' = [request EXCEPT ![t] = Asking({Ask("add", Leg, "on")})]
  /\ UNCHANGED <<manager, engine>>

WantLeg(t) ==
  /\ request[t].at = "missing" /\ config[Leg] # "absent"
  /\ request' = [request EXCEPT ![t] = At("raise")]
  /\ UNCHANGED <<manager, engine>>

(* one that is wanted is known to the manager before it is to the engine.  *)
RaiseLeg(t) ==
  /\ request[t].at = "raise"
  /\ leg' = TRUE
  /\ request' = [request EXCEPT ![t] = Asking({Ask("add", Leg, "on")})]
  /\ UNCHANGED <<config, owed, crossed, muddled, engine>>

(* The engine is started right before the main thread takes the lines: the *)
(* two are one step here. Until then it returns at once and does nothing.  *)
Running == request[Main].at # "apply"

NextJob(t, job) ==
  /\ request[t].at = "ask"
  /\ job \in request[t].todo /\ job.do # "leg"

AskInVain(t, job) ==
  /\ NextJob(t, job)
  /\ ~Running
  /\ GoesOn(t, job.do, request[t].todo \ {job})
  /\ UNCHANGED <<told, engine>>

(* The next job goes to the engine.                                        *)
AskEngine(t, job) ==
  /\ NextJob(t, job)
  /\ Running
  /\ Len(queue) < QueueBound
  /\ queue' = Append(queue, [job EXCEPT !.by = t])
  /\ owed' = owed \ {job.line}
  /\ muddled' = IF t \in crossed THEN muddled \cup {job.line} ELSE muddled \ {job.line}
  /\ request' = [request EXCEPT ![t] = [at |-> "wait", todo |-> @.todo \ {job},
                                       job |-> job.do]]
  /\ UNCHANGED <<config, leg, crossed, runner, registry, status, heard, library>>

(* Five seconds are over: the job stays.                                   *)
GiveUp(t) ==
  /\ request[t].at = "wait"
  /\ queue' = [i \in DOMAIN queue |->
                 IF queue[i].by = t THEN [queue[i] EXCEPT !.by = Nothing] ELSE queue[i]]
  /\ runner' = [runner EXCEPT !.by = IF @ = t THEN Nothing ELSE @]
  /\ GoesOn(t, request[t].job, request[t].todo)
  /\ UNCHANGED <<told, registry, status, heard, library>>

EraseLeg(t) ==
  /\ request[t].at = "erase"
  /\ leg' = FALSE
  /\ Ends(t)
  /\ UNCHANGED <<config, owed, muddled, engine>>

-----------------------------------------------------------------------------
(* The runner                                                              *)

Answer(t) == IF t = Nothing THEN UNCHANGED <<request, crossed>>
             ELSE GoesOn(t, request[t].job, request[t].todo)

(* A line whose account is not among the accounts is refused, and keeps the *)
(* registration it has. Which accounts there are by then is left open.     *)
RefuseLine ==
  /\ runner.at = "rest" /\ queue # << >>
  /\ Head(queue).as = "on"
  /\ Answer(Head(queue).by)
  /\ queue' = Tail(queue)
  /\ UNCHANGED <<told, runner, registry, status, heard, library>>

(* A mistake: what a line reports outlives its being switched off.         *)
RunLineKeeping ==
  /\ runner.at = "rest" /\ queue # << >>
  /\ LET job == Head(queue) IN
       runner' = [at |-> "release", line |-> job.line, by |-> job.by,
                  add |-> job.as = "on", keep |-> job.do = "add", object |-> Nothing]
  /\ queue' = Tail(queue)
  /\ UNCHANGED <<manager, request, registry, status, heard, library>>

(* add_line and remove_line begin with the account the line has, if any.   *)
RunLine ==
  /\ runner.at = "rest" /\ queue # << >>
  /\ LET job == Head(queue) IN
       runner' = [at |-> "release", line |-> job.line, by |-> job.by,
                  add |-> job.as = "on", keep |-> job.as = "on", object |-> Nothing]
  /\ queue' = Tail(queue)
  /\ UNCHANGED <<manager, request, registry, status, heard, library>>

LibraryFree == library.at = "idle"

(* Mistakes: the account is destroyed while a callback is at work; the     *)
(* line's account stays registered beside the new one.                     *)
ReleaseAtOnce ==
  /\ runner.at = "release"
  /\ live' = IF context[runner.line] = Nothing
             THEN live ELSE [live EXCEPT ![context[runner.line]] = Nothing]
  /\ context' = [context EXCEPT ![runner.line] = Nothing]
  /\ runner' = [runner EXCEPT !.at = "forget"]
  /\ UNCHANGED <<manager, request, queue, index, status, heard, library>>
ReleaseOnlySwitchedOff ==
  /\ runner.at = "release"
  /\ LibraryFree
  /\ live' = IF context[runner.line] = Nothing \/ runner.add
             THEN live ELSE [live EXCEPT ![context[runner.line]] = Nothing]
  /\ context' = [context EXCEPT ![runner.line] = Nothing]
  /\ runner' = [runner EXCEPT !.at = "forget"]
  /\ UNCHANGED <<manager, request, queue, index, status, heard, library>>

(* The account is shut down, for which the library's lock is needed, and   *)
(* destroyed; account_index_ still has its address.                        *)
Release ==
  /\ runner.at = "release"
  /\ context[runner.line] # Nothing => LibraryFree
  /\ live' = IF context[runner.line] = Nothing
             THEN live ELSE [live EXCEPT ![context[runner.line]] = Nothing]
  /\ context' = [context EXCEPT ![runner.line] = Nothing]
  /\ runner' = [runner EXCEPT !.at = "forget"]
  /\ UNCHANGED <<manager, request, queue, index, status, heard, library>>

(* Index and, unless the line is only registered again, what was reported  *)
(* of it, in one section.                                                  *)
Forget ==
  /\ runner.at = "forget"
  /\ index' = [index EXCEPT ![runner.line] = Nothing]
  /\ status' = IF runner.keep THEN status ELSE [status EXCEPT ![runner.line] = "none"]
  /\ heard' = IF runner.keep THEN heard ELSE [heard EXCEPT ![runner.line] = "none"]
  /\ IF runner.add THEN runner' = [runner EXCEPT !.at = "create"] /\ UNCHANGED <<request, crossed>>
                   ELSE runner' = Resting /\ Answer(runner.by)
  /\ UNCHANGED <<told, queue, live, context, library>>

(* A mistake: the account is left to the library, and nobody keeps it.     *)
CreateUnkept(o) ==
  /\ runner.at = "create"
  /\ LibraryFree
  /\ live[o] = Nothing
  /\ live' = [live EXCEPT ![o] = runner.line]
  /\ runner' = [runner EXCEPT !.at = "enter"]
  /\ UNCHANGED <<manager, request, queue, context, index, status, heard, library>>

(* The library takes the new account, and may report on it from now on.    *)
Create(o) ==
  /\ runner.at = "create"
  /\ LibraryFree
  /\ live[o] = Nothing
  /\ live' = [live EXCEPT ![o] = runner.line]
  /\ runner' = [runner EXCEPT !.at = "enter", !.object = o]
  /\ UNCHANGED <<manager, request, queue, context, index, status, heard, library>>

(* It does not take it: the line is left without an account.               *)
CreateFails ==
  /\ runner.at = "create"
  /\ LibraryFree
  /\ runner' = Resting
  /\ Answer(runner.by)
  /\ UNCHANGED <<told, queue, registry, status, heard, library>>

(* A mistake: a new account starts from "unregistered".                    *)
EnterAfresh ==
  /\ runner.at = "enter"
  /\ index' = [index EXCEPT ![runner.line] = runner.object]
  /\ status' = [status EXCEPT ![runner.line] = "unregistered"]
  /\ context' = [context EXCEPT ![runner.line] = runner.object]
  /\ runner' = Resting
  /\ Answer(runner.by)
  /\ UNCHANGED <<told, queue, live, heard, library>>

(* The account is entered where callbacks find it. What they have already  *)
(* reported, of this account or the last, stays.                           *)
Enter ==
  /\ runner.at = "enter"
  /\ index' = [index EXCEPT ![runner.line] = runner.object]
  /\ status' = [status EXCEPT ![runner.line] = IF @ = "none" THEN "unregistered" ELSE @]
  /\ context' = [context EXCEPT ![runner.line] = runner.object]
  /\ runner' = Resting
  /\ Answer(runner.by)
  /\ UNCHANGED <<told, queue, live, heard, library>>

-----------------------------------------------------------------------------
(* The library's thread                                                    *)

(* onRegState of an account that has a registrar. notify_reg_state looks   *)
(* it up by line.                                                          *)
RegState(o) ==
  /\ LibraryFree
  /\ live[o] \in Registering
  /\ library' = [at |-> "use", line |-> live[o], found |-> index[live[o]]]
  /\ UNCHANGED <<manager, request, queue, runner, registry, status, heard>>

(* And then the account that was found is asked, and the line's status     *)
(* follows: the registrar has taken or refused it, or let it lapse.        *)
(* Without an account a success cannot be told, and counts as an error.    *)
Report(outcome) ==
  /\ library.at = "use"
  /\ status' = [status EXCEPT ![library.line] =
       IF outcome = "ok" /\ library.found # Nothing THEN "registered"
       ELSE IF outcome = "lapsed" THEN "unregistered" ELSE "error"]
  /\ heard' = [heard EXCEPT ![library.line] = IF outcome = "lapsed" THEN "none" ELSE outcome]
  /\ library' = Idle
  /\ UNCHANGED <<manager, request, queue, runner, registry>>

-----------------------------------------------------------------------------
RequestStep(t) ==
  \/ TakeLines(t) \/ ApplyFails(t)
  \/ LookUpLeg(t) \/ DropLeg(t) \/ NoLeg(t) \/ KeepLeg(t) \/ WantLeg(t) \/ RaiseLeg(t)
  \/ \E job \in request[t].todo : AskInVain(t, job) \/ AskEngine(t, job)
  \/ GiveUp(t) \/ EraseLeg(t)

RunnerStep ==
  \/ RefuseLine \/ RunLine \/ Release \/ Forget
  \/ \E o \in Objects : Create(o)
  \/ CreateFails
  \/ Enter

LibraryStep ==
  \/ \E o \in Objects : RegState(o)
  \/ \E outcome \in Outcomes : Report(outcome)

Next ==
  \/ \E w \in Workers, doc \in Documents : Post(w, doc)
  \/ \E w \in Workers, l \in Lines, c \in Wishes : UpdateLine(w, l, c)
  \/ \E w \in Workers, c \in {"absent", "on"} : UpdateConference(w, c)
  \/ \E t \in Threads : RequestStep(t)
  \/ RunnerStep
  \/ LibraryStep

Spec == Init /\ [][Next]_vars

-----------------------------------------------------------------------------
(* Properties                                                              *)

(* An account the library's thread has looked up is there when it asks it: *)
(* the address outlives the lookup, not the lock it was read under.        *)
AccountThereWhenAsked ==
  library.at = "use" /\ library.found # Nothing => live[library.found] = library.line

(* No line is registered twice, by an edit or by anything else.            *)
RegisteredOnce ==
  \A o, p \in Objects : live[o] # Nothing /\ live[o] = live[p] => o = p

(* Nothing is asked, or about to be, of the engine about the line.         *)
Settled(l) ==
  /\ l \notin owed
  /\ runner.line # l
  /\ \A i \in DOMAIN queue : queue[i].line # l

(* A line that is switched off, or a leg that is not wanted, has no        *)
(* registration and reports none, once it was handed over and its jobs are *)
(* done: also if the request gave up waiting for them, and whatever earlier*)
(* requests left in the queue. Not claimed, because it is not so:          *)
(*  - of a line that was not handed over after config_ switched it off,    *)
(*    which stays owed: the apply gave up at the accounts, or was refused  *)
(*    (line_manager.cpp:530), and returned without a job for any line;     *)
(*  - of a line handed over last by a request that overlapped another, so  *)
(*    that jobs may not come in the order of config_, until a request with *)
(*    nobody beside it hands it over.                                      *)
SwitchedOffIsOff ==
  \A l \in Lines \ muddled :
    Settled(l) /\ Off(config, l)
      => status[l] = "none" /\ index[l] = Nothing /\ \A o \in Objects : live[o] # l

(* What is shown of a registration is what was last heard of it: success   *)
(* is not shown without a success, nor after it lapsed, nor is a failure   *)
(* hidden by a new account that has reported already when it is entered.   *)
StatusIsHeard ==
  \A l \in Lines :
    /\ status[l] = "registered" => heard[l] = "ok"
    /\ heard[l] = "failed" => status[l] = "error"
    /\ heard[l] = "none" => status[l] \in {"none", "unregistered"}
=============================================================================
