-------------------------- MODULE CallControlProofs --------------------------
(***************************************************************************)
(* For every set of lines, calls and callers: the variables keep their     *)
(* types; a line passes audio only while it holds a call, and has one call *)
(* besides unanswered invitations; and when nobody calls in, a line shows  *)
(* the state of its one live call and loses no connected call.             *)
(*                                                                         *)
(* EngineInv is the induction: what a slot and the runner refer to is a    *)
(* call of their line, and only an invitation takes the slot of a line the *)
(* runner is between two steps on. OutboundInv is that of the lines nobody *)
(* calls: every call is its line's, and the job an ended call leaves finds *)
(* that call when it runs.                                                 *)
(***************************************************************************)
EXTENDS CallInvariants, SequenceTheorems, TLAPS

-----------------------------------------------------------------------------
(* The types of what several steps do                                      *)

LEMMA TakeType ==
  ASSUME EngineTypeOK, NEW do, NEW l \in Lines, Take(do, l)
  PROVE  /\ queue' \in Seq(Jobs)
         /\ Head(queue).by \in Callers \cup {Nobody}
<1>1. queue \in Seq(Jobs) /\ queue # << >>
  BY DEF EngineTypeOK, Take
<1>2. Head(queue) \in Jobs /\ Tail(queue) \in Seq(Jobs)
  BY <1>1
<1> QED
  BY <1>2 DEF Take, Jobs

LEMMA PostType ==
  ASSUME EngineTypeOK, NEW do \in {"incoming", "media up", "media down", "ended"},
         NEW l \in Lines, Post(do, l)
  PROVE  queue' \in Seq(Jobs)
<1>1. Job(do, l, Nobody) \in Jobs
  BY DEF Job, Jobs, Requests
<1>2. queue \in Seq(Jobs) /\ queue' = Append(queue, Job(do, l, Nobody))
  BY DEF Post, EngineTypeOK
<1>3. Append(queue, Job(do, l, Nobody)) \in Seq(Jobs)
  BY <1>1, <1>2, AppendProperties
<1> QED
  BY <1>2, <1>3

LEMMA OnLineStateType ==
  ASSUME CallbacksTypeOK, NEW l, NEW s \in LineStates, OnLineState(l, s)
  PROVE  CallbacksTypeOK'
BY DEF CallbacksTypeOK, OnLineState

LEMMA TeardownType ==
  ASSUME EngineTypeOK, NEW l \in Lines, Teardown(l)
  PROVE  /\ port' \in [Lines -> Calls \cup {Nobody}]
         /\ gate' \in [Lines -> BOOLEAN]
BY DEF EngineTypeOK, CallbacksTypeOK, Teardown, OnMediaStop

LEMMA AnsweredType ==
  ASSUME EngineTypeOK, NEW t \in Callers \cup {Nobody}, Answered(t)
  PROVE  reply' \in [Callers -> {"none", "pending", "done"}]
BY DEF EngineTypeOK, Answered

LEMMA ReleasedType ==
  ASSUME CallsTypeOK, NEW c, call' = Released(call, c)
  PROVE  CallsTypeOK'
BY DEF CallsTypeOK, Released, NoCall, Phases

LEMMA AcceptType ==
  ASSUME EngineTypeOK, NEW l \in Lines, Accept(l)
  PROVE  /\ CallbacksTypeOK'
         /\ CallsTypeOK'
         /\ port' \in [Lines -> Calls \cup {Nobody}]
<1>1. slot[l] \in Calls
  BY DEF Accept, EngineTypeOK
<1>2. CallsTypeOK'
  BY <1>1, ZenonT(60) DEF Accept, EngineTypeOK, CallsTypeOK, Phases
<1> QED
  BY <1>1, <1>2 DEF Accept, OnMediaStart, EngineTypeOK, CallbacksTypeOK, LineStates

-----------------------------------------------------------------------------
(* The engine's steps                                                      *)

LEMMA RunnerTypes ==
  ASSUME EngineTypeOK, RunnerStep
  PROVE  EngineTypeOK'
<1>1. ASSUME NEW l \in Lines, RunDialRefused(l) PROVE EngineTypeOK'
  BY <1>1, TakeType, AnsweredType
     DEF RunDialRefused, EngineTypeOK, CallbacksTypeOK, CallsTypeOK, RunnerTypeOK
<1>2. ASSUME NEW l \in Lines, NEW c \in Calls, RunDialPlace(l, c) PROVE EngineTypeOK'
  <2>1. Take("dial", l) /\ OnLineState(l, "Dialing") /\ "Dialing" \in LineStates
    BY <1>2 DEF RunDialPlace, LineStates
  <2>2. CallsTypeOK'
    BY <1>2 DEF RunDialPlace, EngineTypeOK, CallsTypeOK, Phases
  <2>3. RunnerTypeOK'
    BY <1>2, <2>1, TakeType DEF RunDialPlace, RunnerTypeOK
  <2>4. CallbacksTypeOK'
    BY <2>1, OnLineStateType DEF EngineTypeOK
  <2>5. queue' \in Seq(Jobs)
    BY <2>1, TakeType
  <2> QED
    BY <1>2, <2>2, <2>3, <2>4, <2>5 DEF RunDialPlace, EngineTypeOK
<1>3. ASSUME NEW l \in Lines, RunAnswer(l) PROVE EngineTypeOK'
  BY <1>3, TakeType, AnsweredType, AcceptType
     DEF RunAnswer, EngineTypeOK, CallbacksTypeOK, CallsTypeOK, RunnerTypeOK
<1>4. ASSUME NEW l \in Lines, RunIncoming(l) PROVE EngineTypeOK'
  BY <1>4, TakeType, AcceptType
     DEF RunIncoming, EngineTypeOK, CallbacksTypeOK, CallsTypeOK, RunnerTypeOK
<1>5. ASSUME NEW l \in Lines, RunHangup(l) PROVE EngineTypeOK'
  <2>1. CallsTypeOK'
    <3>1. CASE slot[l] # Nobody /\ Live(slot[l])
      <4>1. slot[l] \in Calls /\ call' = [call EXCEPT ![slot[l]].phase = "closing"]
        BY <1>5, <3>1 DEF RunHangup, EngineTypeOK
      <4> QED
        BY <3>1, <4>1 DEF Live, EngineTypeOK, CallsTypeOK, Phases
    <3>2. CASE ~(slot[l] # Nobody /\ Live(slot[l]))
      BY <1>5, <3>2 DEF RunHangup, EngineTypeOK, CallsTypeOK
    <3> QED
      BY <3>1, <3>2
  <2> QED
    BY <1>5, <2>1, TakeType, AnsweredType
       DEF RunHangup, EngineTypeOK, CallbacksTypeOK, RunnerTypeOK
<1>6. ASSUME NEW l \in Lines, RunHangupAtOnce(l) PROVE EngineTypeOK'
  <2>1. Take("hangup", l) /\ OnLineState(l, "Idle") /\ "Idle" \in LineStates
    BY <1>6 DEF RunHangupAtOnce, LineStates
  <2>2. CallsTypeOK'
    BY <1>6 DEF RunHangupAtOnce, EngineTypeOK, CallsTypeOK, NoCall, Phases
  <2> QED
    BY <1>6, <2>1, <2>2, TakeType, OnLineStateType, AnsweredType
       DEF RunHangupAtOnce, EngineTypeOK, RunnerTypeOK
<1>7. ASSUME NEW l \in Lines, RunMediaDown(l) PROVE EngineTypeOK'
  BY <1>7, TakeType, TeardownType
     DEF RunMediaDown, EngineTypeOK, CallbacksTypeOK, CallsTypeOK, RunnerTypeOK
<1>8. ASSUME NEW l \in Lines, RunMediaNoCall(l) PROVE EngineTypeOK'
  BY <1>8, TakeType
     DEF RunMediaNoCall, EngineTypeOK, CallbacksTypeOK, CallsTypeOK, RunnerTypeOK
<1>9. ASSUME NEW l \in Lines, RunMediaFind(l) PROVE EngineTypeOK'
  <2>1. RunnerTypeOK'
    BY <1>9 DEF RunMediaFind, EngineTypeOK, RunnerTypeOK, Resting
  <2> QED
    BY <1>9, <2>1, TakeType, TeardownType
       DEF RunMediaFind, EngineTypeOK, CallbacksTypeOK, CallsTypeOK
<1>10. ASSUME NEW l \in Lines, RunEnded(l) PROVE EngineTypeOK'
  <2>1. CallsTypeOK'
    BY <1>10, ReleasedType DEF RunEnded, EngineTypeOK
  <2> QED
    BY <1>10, <2>1, TakeType, TeardownType
       DEF RunEnded, EngineTypeOK, CallbacksTypeOK, RunnerTypeOK
<1>11. ASSUME RunDialStore PROVE EngineTypeOK'
  <2>1. CallsTypeOK'
    BY <1>11, ReleasedType DEF RunDialStore, EngineTypeOK
  <2>2. RunnerTypeOK' /\ reply' \in [Callers -> {"none", "pending", "done"}]
    BY <1>11, AnsweredType DEF RunDialStore, EngineTypeOK, RunnerTypeOK, Resting
  <2> QED
    BY <1>11, <2>1, <2>2 DEF RunDialStore, EngineTypeOK, CallbacksTypeOK, RunnerTypeOK
<1>12. ASSUME RunMediaConnect PROVE EngineTypeOK'
  <2>1. CallsTypeOK'
    BY <1>12 DEF RunMediaConnect, EngineTypeOK, CallsTypeOK, NoCall, Phases
  <2>2. RunnerTypeOK'
    BY <1>12 DEF RunMediaConnect, RunnerTypeOK, Resting
  <2> QED
    BY <1>12, <2>1, <2>2
       DEF RunMediaConnect, OnMediaStart, EngineTypeOK, CallbacksTypeOK, RunnerTypeOK
<1> QED
  BY <1>1, <1>2, <1>3, <1>4, <1>5, <1>6, <1>7, <1>8, <1>9, <1>10, <1>11, <1>12
     DEF RunnerStep

LEMMA LibraryTypes ==
  ASSUME EngineTypeOK, LibraryStep
  PROVE  EngineTypeOK'
<1>1. ASSUME NEW c \in Calls, Ringing(c) PROVE EngineTypeOK'
  <2>1. CallsTypeOK'
    BY <1>1 DEF Ringing, EngineTypeOK, CallsTypeOK, Phases
  <2> QED
    BY <1>1, <2>1, OnLineStateType DEF Ringing, LineStates, EngineTypeOK, RunnerTypeOK
<1>2. ASSUME NEW c \in Calls, Connected(c) PROVE EngineTypeOK'
  <2>1. CallsTypeOK'
    BY <1>2 DEF Connected, EngineTypeOK, CallsTypeOK, Phases
  <2> QED
    BY <1>2, <2>1, OnLineStateType DEF Connected, LineStates, EngineTypeOK, RunnerTypeOK
<1>3. ASSUME NEW c \in Calls, Disconnected(c) PROVE EngineTypeOK'
  <2>1. CallsTypeOK'
    BY <1>3, ZenonT(60) DEF Disconnected, Live, EngineTypeOK, CallsTypeOK, Phases
  <2>2. call[c].line \in Lines /\ Post("ended", call[c].line)
    BY <1>3 DEF Disconnected, Live, EngineTypeOK, CallsTypeOK
  <2>3. queue' \in Seq(Jobs)
    BY <2>2, PostType
  <2> QED
    BY <1>3, <2>1, <2>3, OnLineStateType
       DEF Disconnected, LineStates, EngineTypeOK, RunnerTypeOK
<1>4. ASSUME NEW c \in Calls, MediaChanged(c) PROVE EngineTypeOK'
  <2>1. CallsTypeOK'
    BY <1>4, ZenonT(60) DEF MediaChanged, EngineTypeOK, CallsTypeOK, Phases
  <2>2. call[c].line \in Lines
    BY <1>4 DEF MediaChanged, EngineTypeOK, CallsTypeOK
  <2>3. queue' \in Seq(Jobs)
    BY <1>4, <2>2, PostType DEF MediaChanged
  <2> QED
    BY <1>4, <2>1, <2>3
       DEF MediaChanged, EngineTypeOK, CallbacksTypeOK, RunnerTypeOK
<1>5. ASSUME NEW l \in Lines, NEW c \in Calls, IncomingCall(l, c) PROVE EngineTypeOK'
  <2>1. CallsTypeOK'
    BY <1>5 DEF IncomingCall, Released, NoCall, EngineTypeOK, CallsTypeOK, Phases
  <2>2. queue' \in Seq(Jobs)
    BY <1>5, PostType DEF IncomingCall
  <2> QED
    BY <1>5, <2>1, <2>2
       DEF IncomingCall, EngineTypeOK, CallbacksTypeOK, RunnerTypeOK
<1> QED
  BY <1>1, <1>2, <1>3, <1>4, <1>5 DEF LibraryStep

(* A caller's dealings with the queue keep them too.                       *)
LEMMA SubmitTypes ==
  ASSUME EngineTypeOK, NEW t \in Callers, NEW do \in Requests, NEW l \in Lines,
         Submit(t, do, l)
  PROVE  EngineTypeOK'
<1>1. Job(do, l, t) \in Jobs
  BY DEF Job, Jobs
<1>2. queue \in Seq(Jobs) /\ queue' = Append(queue, Job(do, l, t))
  BY DEF Submit, EngineTypeOK
<1>3. Append(queue, Job(do, l, t)) \in Seq(Jobs)
  BY <1>1, <1>2, AppendProperties
<1> QED
  BY <1>2, <1>3 DEF Submit, EngineTypeOK, CallbacksTypeOK, CallsTypeOK, RunnerTypeOK

LEMMA ReturnTypes ==
  ASSUME EngineTypeOK, NEW t \in Callers, Collect(t) \/ GiveUp(t)
  PROVE  EngineTypeOK'
<1>1. ASSUME Collect(t) PROVE EngineTypeOK'
  BY <1>1 DEF Collect, EngineTypeOK, CallbacksTypeOK, CallsTypeOK, RunnerTypeOK
<1>2. ASSUME GiveUp(t) PROVE EngineTypeOK'
  <2>1. queue' \in Seq(Jobs)
    <3>1. queue \in Seq(Jobs)
      BY DEF EngineTypeOK
    <3>2. PICK n \in Nat : queue \in [1..n -> Jobs]
      BY <3>1, SeqDef
    <3>3. queue' = [i \in DOMAIN queue |->
                      IF queue[i].by = t THEN [queue[i] EXCEPT !.by = Nobody]
                                         ELSE queue[i]]
      BY <1>2 DEF GiveUp
    <3>4. \A i \in 1..n : queue[i] \in Jobs /\ [queue[i] EXCEPT !.by = Nobody] \in Jobs
      BY <3>2 DEF Jobs
    <3>5. queue' \in [1..n -> Jobs]
      BY <3>2, <3>3, <3>4
    <3> QED
      BY <3>5, SeqDef
  <2>2. RunnerTypeOK'
    BY <1>2 DEF GiveUp, EngineTypeOK, RunnerTypeOK
  <2> QED
    BY <1>2, <2>1, <2>2 DEF GiveUp, EngineTypeOK, CallbacksTypeOK, CallsTypeOK
<1> QED
  BY <1>1, <1>2

-----------------------------------------------------------------------------
(* The supervisor's and the operators' steps                               *)

LEMMA ControlTypes ==
  ASSUME TypeOK, SupStep \/ (\E o \in Operators : OpStep(o))
                         \/ (\E l \in Lines : RetryElapses(l))
  PROVE  TypeOK'
<1>1. ASSUME UNCHANGED engineVars PROVE EngineTypeOK'
  BY <1>1 DEF engineVars, TypeOK, EngineTypeOK, CallbacksTypeOK, CallsTypeOK, RunnerTypeOK
<1>2. Supervisor \in Callers /\ Operators \subseteq Callers
  BY ControlAssumption
<1>3. CASE SupStep
  <2>1. CASE SupWake
    BY <1>1, <2>1 DEF SupWake, Asleep, LineStates, TypeOK, SupTypeOK, OpTypeOK
  <2>2. CASE SupSleep
    BY <1>1, <2>2 DEF SupSleep, Asleep, LineStates, TypeOK, SupTypeOK, OpTypeOK
  <2>3. ASSUME NEW l \in Lines, SupRead(l) PROVE TypeOK'
    <3>1. lineState[l] \in LineStates /\ due[l] \in BOOLEAN /\ sup.todo \ {l} \in SUBSET Lines
      BY DEF TypeOK, SupTypeOK, EngineTypeOK, CallbacksTypeOK
    <3>2. SupTypeOK'
      BY <2>3, <3>1 DEF SupRead, SupTypeOK
    <3> QED
      BY <1>1, <2>3, <3>2 DEF SupRead, TypeOK, OpTypeOK
  <2>4. CASE SupReadHold
    <3>1. SupTypeOK'
      BY <2>4 DEF SupReadHold, TypeOK, SupTypeOK
    <3> QED
      BY <1>1, <2>4, <3>1 DEF SupReadHold, TypeOK, OpTypeOK
  <2>5. CASE SupDial
    <3>1. EngineTypeOK'
      BY <1>2, <2>5, SubmitTypes DEF SupDial, TypeOK, SupTypeOK, Requests
    <3>2. SupTypeOK'
      BY <2>5 DEF SupDial, TypeOK, SupTypeOK
    <3> QED
      BY <2>5, <3>1, <3>2 DEF SupDial, TypeOK, OpTypeOK
  <2>6. CASE SupPass
    <3>1. SupTypeOK'
      BY <2>6 DEF SupPass, TypeOK, SupTypeOK
    <3> QED
      BY <1>1, <2>6, <3>1 DEF SupPass, TypeOK, OpTypeOK
  <2>7. CASE SupTalking
    <3>1. EngineTypeOK'
      BY <1>1, <1>2, <2>7, SubmitTypes DEF SupTalking, TypeOK, SupTypeOK, Requests
    <3>2. SupTypeOK'
      BY <2>7 DEF SupTalking, TypeOK, SupTypeOK
    <3> QED
      BY <2>7, <3>1, <3>2 DEF SupTalking, TypeOK, OpTypeOK
  <2>8. CASE SupSilent
    <3>1. EngineTypeOK'
      BY <1>2, <2>8, SubmitTypes DEF SupSilent, TypeOK, SupTypeOK, Requests
    <3>2. SupTypeOK'
      BY <2>8 DEF SupSilent, TypeOK, SupTypeOK
    <3> QED
      BY <2>8, <3>1, <3>2 DEF SupSilent, TypeOK, OpTypeOK
  <2>9. CASE SupQuiet
    <3>1. SupTypeOK'
      BY <2>9 DEF SupQuiet, TypeOK, SupTypeOK
    <3> QED
      BY <1>1, <2>9, <3>1 DEF SupQuiet, TypeOK, OpTypeOK
  <2>10. CASE SupReturn
    <3>1. EngineTypeOK'
      BY <1>2, <2>10, ReturnTypes DEF SupReturn, TypeOK
    <3>2. SupTypeOK'
      BY <2>10 DEF SupReturn, TypeOK, SupTypeOK
    <3> QED
      BY <2>10, <3>1, <3>2 DEF SupReturn, TypeOK, OpTypeOK
  <2> QED
    BY <1>3, <2>1, <2>2, <2>3, <2>4, <2>5, <2>6, <2>7, <2>8, <2>9, <2>10 DEF SupStep
<1>4. ASSUME NEW o \in Operators, OpStep(o) PROVE TypeOK'
  <2>1. ASSUME NEW do \in Requests, NEW l \in Lines, CallAction(o, do, l) PROVE TypeOK'
    <3>1. OpTypeOK'
      BY <2>1 DEF CallAction, Ask, TypeOK, OpTypeOK
    <3> QED
      BY <1>1, <2>1, <3>1 DEF CallAction, TypeOK, SupTypeOK
  <2>2. CASE ConferenceDial(o)
    <3>1. Conference \in Lines
      BY <2>2, ControlAssumption DEF ConferenceDial
    <3>2. OpTypeOK'
      BY <2>2, <3>1 DEF ConferenceDial, Ask, Requests, TypeOK, OpTypeOK
    <3> QED
      BY <1>1, <2>2, <3>2 DEF ConferenceDial, TypeOK, SupTypeOK
  <2>3. CASE ConferenceHangup(o)
    <3>1. Conference \in Lines
      BY <2>3, ControlAssumption DEF ConferenceHangup
    <3>2. OpTypeOK'
      BY <2>3, <3>1 DEF ConferenceHangup, Ask, Requests, TypeOK, OpTypeOK
    <3> QED
      BY <1>1, <2>3, <3>2 DEF ConferenceHangup, TypeOK, SupTypeOK
  <2>4. CASE OpSubmit(o)
    <3>1. EngineTypeOK'
      BY <1>2, <2>4, SubmitTypes DEF OpSubmit, TypeOK, OpTypeOK
    <3>2. OpTypeOK'
      BY <2>4 DEF OpSubmit, TypeOK, OpTypeOK
    <3> QED
      BY <2>4, <3>1, <3>2 DEF OpSubmit, TypeOK, SupTypeOK
  <2>5. CASE OpReturn(o)
    <3>1. EngineTypeOK'
      BY <1>2, <2>5, ReturnTypes DEF OpReturn, TypeOK
    <3>2. OpTypeOK'
      BY <2>5 DEF OpReturn, Free, Requests, TypeOK, OpTypeOK
    <3> QED
      BY <2>5, <3>1, <3>2 DEF OpReturn, TypeOK, SupTypeOK
  <2> QED
    BY <1>4, <2>1, <2>2, <2>3, <2>4, <2>5 DEF OpStep
<1>5. ASSUME NEW l \in Lines, RetryElapses(l) PROVE TypeOK'
  BY <1>1, <1>5 DEF RetryElapses, TypeOK, SupTypeOK, OpTypeOK
<1> QED
  BY <1>3, <1>4, <1>5

(* The variables keep their types, whoever acts and whatever happens.      *)
THEOREM TypeCorrect == Spec => []TypeOK
<1>1. Init => TypeOK
  <2> SUFFICES ASSUME Init PROVE TypeOK
    OBVIOUS
  <2>1. CallbacksTypeOK /\ CallsTypeOK
    BY DEF Init, EngineInit, CallbacksInit, CallbacksTypeOK, LineStates, CallsTypeOK,
           NoCall, Phases
  <2>2. queue \in Seq(Jobs) /\ RunnerTypeOK
    BY DEF Init, EngineInit, Resting, RunnerTypeOK
  <2>3. EngineTypeOK
    BY <2>1, <2>2 DEF Init, EngineInit, EngineTypeOK
  <2>4. SupTypeOK /\ OpTypeOK
    BY DEF Init, Asleep, Free, SupTypeOK, OpTypeOK, LineStates, Requests
  <2> QED
    BY <2>3, <2>4 DEF Init, TypeOK
<1>2. TypeOK /\ [Next]_vars => TypeOK'
  <2> SUFFICES ASSUME TypeOK, [Next]_vars PROVE TypeOK'
    OBVIOUS
  <2>1. CASE SupStep \/ (\E o \in Operators : OpStep(o))
                     \/ (\E l \in Lines : RetryElapses(l))
    BY <2>1, ControlTypes
  <2>2. CASE (RunnerStep \/ LibraryStep) /\ UNCHANGED controlVars
    BY <2>2, RunnerTypes, LibraryTypes DEF controlVars, TypeOK, SupTypeOK, OpTypeOK
  <2>3. CASE UNCHANGED vars
    BY <2>3 DEF vars, engineVars, controlVars, TypeOK, EngineTypeOK, CallbacksTypeOK,
                CallsTypeOK, RunnerTypeOK, SupTypeOK, OpTypeOK
  <2> QED
    BY <2>1, <2>2, <2>3 DEF Next
<1> QED
  BY <1>1, <1>2, PTL DEF Spec

-----------------------------------------------------------------------------
(* A line and its call                                                     *)

(* Steps that leave calls, slots, ports, gates and the runner's place.     *)
LEMMA Undisturbed ==
  ASSUME EngineInv, UNCHANGED <<gate, call, slot, port>>,
         runner'.at = runner.at, runner'.line = runner.line,
         runner'.call = runner.call
  PROVE  EngineInv'
BY DEF EngineInv, SlotsHoldCalls, RunnerHoldsCall, NoOrphanCall, OnlyInvitesIntrude,
       GateNeedsPort, PortNeedsCall, ConnectNeedsCall, Live

(* Call c moves from one phase to another, still of its line.              *)
LEMMA PhaseChange ==
  ASSUME TypeOK, EngineInv, NEW c \in Calls, NEW r,
         call' = [call EXCEPT ![c] = r],
         r.line = call[c].line, r.phase # "null", call[c].phase # "null",
         r.phase # "ended" => Live(c),
         call[c].phase \in {"incoming", "ended"} /\ runner.at # "rest"
           => r.phase \in {"incoming", "ended"},
         UNCHANGED <<slot, runner>>
  PROVE  /\ SlotsHoldCalls' /\ RunnerHoldsCall' /\ NoOrphanCall'
         /\ OnlyInvitesIntrude' /\ ConnectNeedsCall'
<1>1. \A d \in Calls : /\ call'[d].line = call[d].line
                       /\ (call'[d].phase # "null") = (call[d].phase # "null")
                       /\ Live(d)' => Live(d)
  BY DEF Live, TypeOK, EngineTypeOK, CallsTypeOK
<1>2. \A d \in Calls : call[d].phase \in {"incoming", "ended"} /\ runner.at # "rest"
                         => call'[d].phase \in {"incoming", "ended"}
  BY DEF TypeOK, EngineTypeOK, CallsTypeOK
<1>3. \A l \in Lines : slot[l] \in Calls \cup {Nobody}
  BY DEF TypeOK, EngineTypeOK
<1>4. SlotsHoldCalls'
  BY <1>1, <1>3 DEF EngineInv, SlotsHoldCalls
<1>5. RunnerHoldsCall'
  BY <1>1 DEF EngineInv, RunnerHoldsCall
<1>6. NoOrphanCall'
  BY <1>1 DEF EngineInv, NoOrphanCall
<1>7. OnlyInvitesIntrude'
  BY <1>1, <1>2, <1>3 DEF EngineInv, OnlyInvitesIntrude, RunnerHoldsCall
<1>8. ConnectNeedsCall'
  BY DEF EngineInv, ConnectNeedsCall
<1> QED
  BY <1>4, <1>5, <1>6, <1>7, <1>8

(* A notification closes the gate or leaves it.                            *)
LEMMA Notification ==
  ASSUME EngineInv, TypeOK, NEW l, NEW s, OnLineState(l, s), UNCHANGED <<slot, port>>
  PROVE  GateNeedsPort' /\ PortNeedsCall'
BY DEF EngineInv, GateNeedsPort, PortNeedsCall, OnLineState, TypeOK, EngineTypeOK,
       CallbacksTypeOK

(* Two lines never hold the same call.                                     *)
LEMMA SlotsDistinct ==
  ASSUME EngineInv, NEW k \in Lines, NEW l \in Lines, k # l, slot[k] # Nobody
  PROVE  slot[k] # slot[l]
BY DEF EngineInv, SlotsHoldCalls

(* Which calls survive a line letting go of its own.                       *)
LEMMA ReleasedCalls ==
  ASSUME TypeOK, NEW c
  PROVE  \A d \in Calls :
           Released(call, c)[d] = IF d = c /\ d # runner.call THEN NoCall ELSE call[d]
BY EngineAssumption DEF Released, TypeOK, EngineTypeOK, CallsTypeOK

(* The library's thread.                                                   *)
LEMMA LibraryInv ==
  ASSUME TypeOK, EngineInv, LibraryStep
  PROVE  EngineInv'
<1> USE DEF Live
<1>1. ASSUME NEW c \in Calls, Ringing(c) PROVE EngineInv'
  <2> DEFINE r == [call[c] EXCEPT !.phase = IF @ = "calling" THEN "early" ELSE @]
  <2>1. call' = [call EXCEPT ![c] = r] /\ UNCHANGED <<slot, port, runner>>
    BY <1>1 DEF Ringing
  <2>2. r.line = call[c].line /\ r.phase = (IF call[c].phase = "calling" THEN "early"
                                                                       ELSE call[c].phase)
    BY DEF TypeOK, EngineTypeOK, CallsTypeOK
  <2>3. GateNeedsPort' /\ PortNeedsCall'
    BY <1>1, Notification DEF Ringing
  <2> HIDE DEF r
  <2> QED
    BY <1>1, <2>1, <2>2, <2>3, PhaseChange DEF Ringing, EngineInv
<1>2. ASSUME NEW c \in Calls, Connected(c) PROVE EngineInv'
  <2> DEFINE r == [call[c] EXCEPT !.phase = "confirmed"]
  <2>1. call' = [call EXCEPT ![c] = r] /\ UNCHANGED <<slot, port, runner>>
    BY <1>2 DEF Connected
  <2>2. r.line = call[c].line /\ r.phase = "confirmed"
    BY DEF TypeOK, EngineTypeOK, CallsTypeOK
  <2>3. GateNeedsPort' /\ PortNeedsCall'
    BY <1>2, Notification DEF Connected
  <2> HIDE DEF r
  <2> QED
    BY <1>2, <2>1, <2>2, <2>3, PhaseChange DEF Connected, EngineInv
<1>3. ASSUME NEW c \in Calls, Disconnected(c) PROVE EngineInv'
  <2> DEFINE r == [call[c] EXCEPT !.phase = "ended", !.media = FALSE]
  <2>1. call' = [call EXCEPT ![c] = r] /\ UNCHANGED <<slot, port, runner>>
    BY <1>3 DEF Disconnected
  <2>2. r.line = call[c].line /\ r.phase = "ended"
    BY DEF TypeOK, EngineTypeOK, CallsTypeOK
  <2>3. GateNeedsPort' /\ PortNeedsCall'
    BY <1>3, Notification DEF Disconnected
  <2> HIDE DEF r
  <2> QED
    BY <1>3, <2>1, <2>2, <2>3, PhaseChange DEF Disconnected, EngineInv
<1>4. ASSUME NEW c \in Calls, MediaChanged(c) PROVE EngineInv'
  <2> DEFINE r == [call[c] EXCEPT !.media = ~@]
  <2>1. call' = [call EXCEPT ![c] = r] /\ UNCHANGED <<gate, slot, port, runner>>
    BY <1>4 DEF MediaChanged
  <2>2. r.line = call[c].line /\ r.phase = call[c].phase
    BY DEF TypeOK, EngineTypeOK, CallsTypeOK
  <2>3. GateNeedsPort' /\ PortNeedsCall'
    BY <2>1 DEF EngineInv, GateNeedsPort, PortNeedsCall
  <2> HIDE DEF r
  <2> QED
    BY <1>4, <2>1, <2>2, <2>3, PhaseChange DEF MediaChanged, EngineInv
<1>5. ASSUME NEW l \in Lines, NEW c \in Calls, IncomingCall(l, c) PROVE EngineInv'
  <2>1. slot' = [slot EXCEPT ![l] = c] /\ call[c].phase = "null" /\ c # Nobody
    BY <1>5, EngineAssumption DEF IncomingCall
  <2>2. \A k \in Lines : /\ slot[k] \in Calls \cup {Nobody}
                         /\ slot'[k] = IF k = l THEN c ELSE slot[k]
                         /\ slot[k] # c
    BY <2>1, EngineAssumption DEF TypeOK, EngineTypeOK, EngineInv, SlotsHoldCalls
  <2>3. \A d \in Calls :
          call'[d] = IF d = c THEN [phase |-> "incoming", line |-> l, media |-> FALSE]
                     ELSE IF d = slot[l] /\ d # runner.call THEN NoCall
                     ELSE call[d]
    <3>1. /\ Released(call, slot[l]) \in [Calls -> [phase : Phases, line : Lines \cup {Nobody},
                                                   media : BOOLEAN]]
          /\ call' = [Released(call, slot[l]) EXCEPT
                        ![c] = [phase |-> "incoming", line |-> l, media |-> FALSE]]
      BY <1>5 DEF IncomingCall, Released, NoCall, Phases, TypeOK, EngineTypeOK, CallsTypeOK
    <3> QED
      BY <3>1, ReleasedCalls
  <2>4. UNCHANGED <<gate, port, runner>> /\ runner.call # c
    BY <1>5, <2>1 DEF IncomingCall, EngineInv, RunnerHoldsCall
  <2>10. call'[c].phase = "incoming" /\ call'[c].line = l
    BY <2>3
  <2>5. \A k \in Lines : k # l /\ slot[k] # Nobody => call'[slot[k]] = call[slot[k]]
    <3> SUFFICES ASSUME NEW k \in Lines, k # l, slot[k] # Nobody
                 PROVE  call'[slot[k]] = call[slot[k]]
      OBVIOUS
    <3>1. slot[k] \in Calls /\ slot[k] # c /\ slot[k] # slot[l]
      BY <2>2, SlotsDistinct
    <3> QED
      BY <2>3, <3>1
  <2>11. SlotsHoldCalls'
    BY <2>2, <2>5, <2>10 DEF EngineInv, SlotsHoldCalls
  <2>6. RunnerHoldsCall'
    BY <2>3, <2>4 DEF EngineInv, RunnerHoldsCall
  <2>7. NoOrphanCall'
    <3> SUFFICES ASSUME NEW d \in Calls, d # c, Live(d)'
                 PROVE  d = runner.call \/ d = slot'[call'[d].line]
      BY <2>2, <2>4, <2>10 DEF NoOrphanCall
    <3>1. call'[d] = call[d] /\ Live(d) /\ (d = slot[l] => d = runner.call)
      BY <2>3 DEF NoCall
    <3>2. d = runner.call \/ d = slot[call[d].line]
      BY <3>1 DEF EngineInv, NoOrphanCall
    <3>3. call[d].line \in Lines
      BY <3>1 DEF TypeOK, EngineTypeOK, CallsTypeOK
    <3> QED
      BY <2>2, <3>1, <3>2, <3>3
  <2>8. OnlyInvitesIntrude'
    BY <2>2, <2>4, <2>5, <2>10 DEF EngineInv, OnlyInvitesIntrude, RunnerHoldsCall
  <2>9. GateNeedsPort' /\ PortNeedsCall' /\ ConnectNeedsCall'
    BY <2>1, <2>2, <2>4
       DEF EngineInv, GateNeedsPort, PortNeedsCall, ConnectNeedsCall, RunnerHoldsCall
  <2> QED
    BY <2>6, <2>7, <2>8, <2>9, <2>11 DEF EngineInv
<1> QED
  BY <1>1, <1>2, <1>3, <1>4, <1>5 DEF LibraryStep

(* A step that takes a job leaves the runner at rest with no reference.    *)
LEMMA RestingTake ==
  ASSUME EngineInv, NEW do, NEW l, Take(do, l)
  PROVE  runner.at = "rest" /\ runner.call = Nobody
BY DEF Take, EngineInv, RunnerHoldsCall

(* A line whose port goes closes its gate too.                             *)
LEMMA TeardownInv ==
  ASSUME TypeOK, EngineInv, NEW l \in Lines, Teardown(l)
  PROVE  /\ \A k \in Lines \ {l} : port'[k] = port[k] /\ gate'[k] = gate[k]
         /\ port'[l] = Nobody
         /\ ~gate'[l]
         /\ GateNeedsPort'
BY DEF Teardown, OnMediaStop, TypeOK, EngineTypeOK, CallbacksTypeOK, EngineInv, GateNeedsPort

(* The runner's thread.                                                    *)
LEMMA AcceptInv ==
  ASSUME TypeOK, EngineInv, NEW l \in Lines, Accept(l), runner.at = "rest",
         UNCHANGED <<slot, runner>>
  PROVE  EngineInv'
<1> DEFINE c == slot[l]
           r == [call[c] EXCEPT !.phase = "confirmed", !.media = TRUE]
<1>1. c \in Calls /\ call[c].phase = "incoming" /\ c # Nobody
  BY DEF Accept, TypeOK, EngineTypeOK
<1>2. call' = [call EXCEPT ![c] = r]
  BY <1>1 DEF Accept, TypeOK, EngineTypeOK, CallsTypeOK
<1>3. r.line = call[c].line /\ r.phase = "confirmed" /\ Live(c)
  BY <1>1 DEF Live, TypeOK, EngineTypeOK, CallsTypeOK
<1>4. GateNeedsPort' /\ PortNeedsCall'
  BY <1>1 DEF Accept, OnMediaStart, TypeOK, EngineTypeOK, CallbacksTypeOK, EngineInv,
              GateNeedsPort, PortNeedsCall
<1> HIDE DEF c, r
<1> QED
  BY <1>1, <1>2, <1>3, <1>4, PhaseChange DEF EngineInv

LEMMA RunnerInv ==
  ASSUME TypeOK, EngineInv, RunnerStep
  PROVE  EngineInv'
<1>1. ASSUME NEW l \in Lines, RunDialRefused(l) PROVE EngineInv'
  BY <1>1, Undisturbed DEF RunDialRefused
<1>2. ASSUME NEW l \in Lines, NEW c \in Calls, RunDialPlace(l, c) PROVE EngineInv'
  <2>1. runner.call = Nobody /\ slot[l] = Nobody /\ call[c].phase = "null"
    BY <1>2, RestingTake DEF RunDialPlace
  <2>2. \A d \in Calls : call'[d] = IF d = c
                                    THEN [phase |-> "calling", line |-> l, media |-> FALSE]
                                    ELSE call[d]
    BY <1>2 DEF RunDialPlace, TypeOK, EngineTypeOK, CallsTypeOK
  <2>3. \A k \in Lines : slot'[k] = slot[k] /\ slot[k] # c /\ slot[k] \in Calls \cup {Nobody}
    BY <1>2, <2>1, EngineAssumption
       DEF RunDialPlace, TypeOK, EngineTypeOK, EngineInv, SlotsHoldCalls
  <2>4. runner'.at = "store" /\ runner'.line = l /\ runner'.call = c
    BY <1>2 DEF RunDialPlace
  <2>5. SlotsHoldCalls'
    BY <2>2, <2>3 DEF EngineInv, SlotsHoldCalls
  <2>6. RunnerHoldsCall' /\ OnlyInvitesIntrude' /\ ConnectNeedsCall'
    BY <2>1, <2>2, <2>3, <2>4 DEF RunnerHoldsCall, OnlyInvitesIntrude, ConnectNeedsCall
  <2>7. NoOrphanCall'
    <3> SUFFICES ASSUME NEW d \in Calls, Live(d)'
                 PROVE  d = c \/ d = slot'[call'[d].line]
      BY <2>4 DEF NoOrphanCall
    <3>1. CASE d # c
      <4>1. call'[d] = call[d] /\ Live(d)
        BY <2>2, <3>1 DEF Live
      <4>2. d = slot[call[d].line]
        BY <4>1, <2>1, EngineAssumption DEF EngineInv, NoOrphanCall
      <4> QED
        BY <1>2, <4>1, <4>2 DEF RunDialPlace
    <3> QED
      BY <3>1
  <2>8. GateNeedsPort' /\ PortNeedsCall'
    BY <1>2, Notification DEF RunDialPlace
  <2> QED
    BY <2>5, <2>6, <2>7, <2>8 DEF EngineInv
<1>3. ASSUME NEW l \in Lines, RunAnswer(l) PROVE EngineInv'
  BY <1>3, RestingTake, AcceptInv, Undisturbed DEF RunAnswer
<1>4. ASSUME NEW l \in Lines, RunIncoming(l) PROVE EngineInv'
  BY <1>4, RestingTake, AcceptInv, Undisturbed DEF RunIncoming
<1>5. ASSUME NEW l \in Lines, RunHangup(l) PROVE EngineInv'
  <2>1. CASE slot[l] # Nobody /\ Live(slot[l])
    <3> DEFINE c == slot[l]
               r == [call[c] EXCEPT !.phase = "closing"]
    <3>1. c \in Calls
      BY <2>1 DEF TypeOK, EngineTypeOK
    <3>2. call' = [call EXCEPT ![c] = r] /\ UNCHANGED <<gate, slot, port, runner>>
      BY <1>5, <2>1 DEF RunHangup
    <3>3. r.line = call[c].line /\ r.phase = "closing" /\ call[c].phase # "null"
      BY <2>1, <3>1 DEF Live, TypeOK, EngineTypeOK, CallsTypeOK
    <3>4. GateNeedsPort' /\ PortNeedsCall' /\ runner.at = "rest" /\ Live(c)
      BY <1>5, <2>1, <3>2, RestingTake DEF RunHangup, EngineInv, GateNeedsPort, PortNeedsCall
    <3> HIDE DEF c, r
    <3> QED
      BY <3>1, <3>2, <3>3, <3>4, PhaseChange DEF EngineInv
  <2>2. CASE ~(slot[l] # Nobody /\ Live(slot[l]))
    BY <1>5, <2>2, Undisturbed DEF RunHangup
  <2> QED
    BY <2>1, <2>2
<1>6. ASSUME NEW l \in Lines, RunHangupAtOnce(l) PROVE EngineInv'
  <2>1. /\ runner.at = "rest" /\ runner.call = Nobody
        /\ slot[l] \in Calls
        /\ runner' = runner
    BY <1>6, RestingTake DEF RunHangupAtOnce, TypeOK, EngineTypeOK
  <2>2. \A k \in Lines : /\ slot[k] \in Calls \cup {Nobody}
                         /\ slot'[k] = IF k = l THEN Nobody ELSE slot[k]
                         /\ port'[k] = IF k = l THEN Nobody ELSE port[k]
                         /\ gate'[k] = (IF k = l THEN FALSE ELSE gate[k])
    BY <1>6 DEF RunHangupAtOnce, OnLineState, TypeOK, EngineTypeOK, CallbacksTypeOK
  <2>3. \A d \in Calls : call'[d] = IF d = slot[l] THEN NoCall ELSE call[d]
    BY <1>6, <2>1 DEF RunHangupAtOnce, TypeOK, EngineTypeOK, CallsTypeOK
  <2>4. SlotsHoldCalls'
    <3>1. \A k \in Lines : /\ slot[k] \in Calls \cup {Nobody}
                           /\ slot'[k] = IF k = l THEN Nobody ELSE slot[k]
      BY <2>2
    <3> QED
      BY <2>1, <2>3, <3>1, SlotsDistinct DEF EngineInv, SlotsHoldCalls
  <2>5. RunnerHoldsCall' /\ OnlyInvitesIntrude' /\ ConnectNeedsCall'
    BY <2>1 DEF RunnerHoldsCall, OnlyInvitesIntrude, ConnectNeedsCall
  <2>6. NoOrphanCall'
    <3> SUFFICES ASSUME NEW d \in Calls, Live(d)'
                 PROVE  d = slot'[call'[d].line]
      BY DEF NoOrphanCall
    <3>1. call'[d] = call[d] /\ Live(d) /\ d # slot[l]
      BY <2>3 DEF Live, NoCall
    <3>2. d = slot[call[d].line]
      BY <2>1, <3>1, EngineAssumption DEF EngineInv, NoOrphanCall
    <3>3. call[d].line \in Lines
      BY <3>1 DEF Live, TypeOK, EngineTypeOK, CallsTypeOK
    <3> QED
      BY <2>2, <3>1, <3>2, <3>3
  <2>7. GateNeedsPort' /\ PortNeedsCall'
    BY <2>2 DEF EngineInv, GateNeedsPort, PortNeedsCall
  <2> QED
    BY <2>4, <2>5, <2>6, <2>7 DEF EngineInv
<1>7. ASSUME NEW l \in Lines, RunMediaDown(l) PROVE EngineInv'
  <2>1. GateNeedsPort' /\ PortNeedsCall'
    BY <1>7, TeardownInv DEF RunMediaDown, EngineInv, PortNeedsCall
  <2> QED
    BY <1>7, <2>1 DEF RunMediaDown, EngineInv, SlotsHoldCalls, RunnerHoldsCall, NoOrphanCall,
                      OnlyInvitesIntrude, ConnectNeedsCall, Live
<1>8. ASSUME NEW l \in Lines, RunMediaNoCall(l) PROVE EngineInv'
  BY <1>8, Undisturbed DEF RunMediaNoCall
<1>9. ASSUME NEW l \in Lines, RunMediaFind(l) PROVE EngineInv'
  <2>1. GateNeedsPort' /\ PortNeedsCall'
    BY <1>9, TeardownInv DEF RunMediaFind, EngineInv, PortNeedsCall
  <2>2. runner.call = Nobody /\ UNCHANGED <<call, slot>> /\ slot[l] \in Calls
    BY <1>9, RestingTake DEF RunMediaFind, TypeOK, EngineTypeOK
  <2>3. \/ runner' = Resting
        \/ runner'.at = "connect" /\ runner'.line = l /\ runner'.call = slot[l]
    BY <1>9 DEF RunMediaFind
  <2>4. RunnerHoldsCall' /\ OnlyInvitesIntrude' /\ ConnectNeedsCall'
    BY <1>9, <2>2, <2>3, EngineAssumption, ZenonT(60)
       DEF RunMediaFind, EngineInv, SlotsHoldCalls, RunnerHoldsCall, OnlyInvitesIntrude,
           ConnectNeedsCall, Resting
  <2>5. NoOrphanCall'
    BY <2>2, EngineAssumption DEF EngineInv, NoOrphanCall, Live
  <2>6. SlotsHoldCalls'
    BY <2>2 DEF EngineInv, SlotsHoldCalls
  <2> QED
    BY <2>1, <2>4, <2>5, <2>6 DEF EngineInv
<1>10. ASSUME NEW l \in Lines, RunEnded(l) PROVE EngineInv'
  <2>1. /\ runner.at = "rest" /\ runner.call = Nobody /\ runner' = runner
        /\ slot' = [slot EXCEPT ![l] = Nobody]
    BY <1>10, RestingTake DEF RunEnded
  <2>2. \A k \in Lines : /\ slot[k] \in Calls \cup {Nobody}
                         /\ slot'[k] = IF k = l THEN Nobody ELSE slot[k]
    BY <2>1 DEF TypeOK, EngineTypeOK
  <2>3. \A d \in Calls : call'[d] = IF d = slot[l] THEN NoCall ELSE call[d]
    BY <1>10, <2>1, ReleasedCalls, EngineAssumption DEF RunEnded
  <2>4. SlotsHoldCalls'
    BY <2>1, <2>2, <2>3, SlotsDistinct DEF EngineInv, SlotsHoldCalls
  <2>5. RunnerHoldsCall' /\ OnlyInvitesIntrude' /\ ConnectNeedsCall'
    BY <2>1 DEF RunnerHoldsCall, OnlyInvitesIntrude, ConnectNeedsCall
  <2>6. NoOrphanCall'
    <3> SUFFICES ASSUME NEW d \in Calls, Live(d)'
                 PROVE  d = slot'[call'[d].line]
      BY DEF NoOrphanCall
    <3>1. call'[d] = call[d] /\ Live(d) /\ d # slot[l]
      BY <2>3 DEF Live, NoCall
    <3>2. d = slot[call[d].line]
      BY <2>1, <3>1, EngineAssumption DEF EngineInv, NoOrphanCall
    <3>3. call[d].line \in Lines
      BY <3>1 DEF Live, TypeOK, EngineTypeOK, CallsTypeOK
    <3> QED
      BY <2>2, <3>1, <3>2, <3>3
  <2>7. GateNeedsPort' /\ PortNeedsCall'
    BY <1>10, <2>2, TeardownInv DEF RunEnded, EngineInv, PortNeedsCall
  <2> QED
    BY <2>4, <2>5, <2>6, <2>7 DEF EngineInv
<1>11. ASSUME RunDialStore PROVE EngineInv'
  <2> DEFINE l == runner.line
             c == runner.call
  <2>1. /\ l \in Lines /\ c \in Calls /\ c # Nobody
        /\ call[c].phase # "null" /\ call[c].line = l
        /\ runner' = Resting /\ slot' = [slot EXCEPT ![l] = c]
        /\ UNCHANGED <<gate, port>>
    BY <1>11, EngineAssumption DEF RunDialStore, EngineInv, RunnerHoldsCall
  <2>2. \A k \in Lines : /\ slot[k] \in Calls \cup {Nobody}
                         /\ slot'[k] = IF k = l THEN c ELSE slot[k]
    BY <2>1 DEF TypeOK, EngineTypeOK
  <2>3. \A d \in Calls : call'[d] = IF d = slot[l] /\ d # c THEN NoCall ELSE call[d]
    BY <1>11, ReleasedCalls DEF RunDialStore
  <2>4. SlotsHoldCalls'
    BY <2>1, <2>2, <2>3, SlotsDistinct DEF EngineInv, SlotsHoldCalls
  <2>5. RunnerHoldsCall' /\ OnlyInvitesIntrude' /\ ConnectNeedsCall'
    BY <2>1 DEF Resting, RunnerHoldsCall, OnlyInvitesIntrude, ConnectNeedsCall
  <2>6. NoOrphanCall'
    <3> SUFFICES ASSUME NEW d \in Calls, Live(d)'
                 PROVE  d = slot'[call'[d].line]
      BY DEF NoOrphanCall
    <3>1. call'[d] = call[d] /\ Live(d) /\ (d = slot[l] => d = c)
      BY <2>3 DEF Live, NoCall
    <3>2. d = c \/ d = slot[call[d].line]
      BY <3>1 DEF EngineInv, NoOrphanCall
    <3>3. call[d].line \in Lines
      BY <3>1 DEF Live, TypeOK, EngineTypeOK, CallsTypeOK
    <3> QED
      BY <2>1, <2>2, <3>1, <3>2, <3>3
  <2>7. GateNeedsPort' /\ PortNeedsCall'
    BY <2>1, <2>2 DEF EngineInv, GateNeedsPort, PortNeedsCall
  <2> QED
    BY <2>4, <2>5, <2>6, <2>7 DEF EngineInv
<1>12. ASSUME RunMediaConnect PROVE EngineInv'
  <2> DEFINE l == runner.line
             c == runner.call
  <2>1. /\ l \in Lines /\ c \in Calls /\ slot[l] # Nobody
        /\ runner' = Resting /\ UNCHANGED slot
    BY <1>12 DEF RunMediaConnect, EngineInv, RunnerHoldsCall, ConnectNeedsCall
  <2>2. call[c].phase # "null" /\ call[c].line = l
    BY <1>12 DEF RunMediaConnect, EngineInv, RunnerHoldsCall
  <2>3. \A d \in Calls : call'[d] = IF d = c /\ slot[l] # c THEN NoCall ELSE call[d]
    BY <1>12 DEF RunMediaConnect, TypeOK, EngineTypeOK, CallsTypeOK
  <2>4. SlotsHoldCalls'
    <3> SUFFICES ASSUME NEW k \in Lines, slot[k] # Nobody
                 PROVE  call'[slot[k]] = call[slot[k]]
      BY <2>1 DEF EngineInv, SlotsHoldCalls
    <3>1. slot[k] \in Calls /\ (k # l => slot[k] # c)
      BY <2>2 DEF TypeOK, EngineTypeOK, EngineInv, SlotsHoldCalls
    <3> QED
      BY <2>3, <3>1
  <2>5. RunnerHoldsCall' /\ OnlyInvitesIntrude' /\ ConnectNeedsCall'
    BY <2>1 DEF Resting, RunnerHoldsCall, OnlyInvitesIntrude, ConnectNeedsCall
  <2>6. NoOrphanCall'
    <3> SUFFICES ASSUME NEW d \in Calls, Live(d)'
                 PROVE  d = slot[call[d].line] /\ call'[d] = call[d]
      BY <2>1 DEF NoOrphanCall
    <3>1. call'[d] = call[d] /\ Live(d) /\ (d = c => slot[l] = c)
      BY <2>3 DEF Live, NoCall
    <3> QED
      BY <2>2, <3>1 DEF EngineInv, NoOrphanCall
  <2>7. GateNeedsPort' /\ PortNeedsCall'
    BY <1>12, <2>1, EngineAssumption
       DEF RunMediaConnect, OnMediaStart, EngineInv, GateNeedsPort, PortNeedsCall, TypeOK,
           EngineTypeOK, CallbacksTypeOK
  <2> QED
    BY <2>4, <2>5, <2>6, <2>7 DEF EngineInv
<1> QED
  BY <1>1, <1>2, <1>3, <1>4, <1>5, <1>6, <1>7, <1>8, <1>9, <1>10, <1>11, <1>12
     DEF RunnerStep

-----------------------------------------------------------------------------
(* The supervisor and the operators move no call themselves.               *)
LEMMA CallerInv ==
  ASSUME TypeOK, EngineInv, NEW t,
         (\E do, l : Submit(t, do, l)) \/ Collect(t) \/ GiveUp(t) \/ UNCHANGED engineVars
  PROVE  EngineInv'
<1>1. UNCHANGED <<gate, call, slot, port>>
  BY DEF Submit, Collect, GiveUp, engineVars
<1>2. runner'.at = runner.at /\ runner'.line = runner.line /\ runner'.call = runner.call
  BY DEF Submit, Collect, GiveUp, engineVars, TypeOK, EngineTypeOK, RunnerTypeOK
<1> QED
  BY <1>1, <1>2, Undisturbed

LEMMA CallerStep ==
  ASSUME TypeOK, SupStep \/ (\E o \in Operators : OpStep(o))
                         \/ (\E l \in Lines : RetryElapses(l))
  PROVE  \E t \in Callers : \/ \E do \in Requests, l \in Lines : Submit(t, do, l)
                            \/ Collect(t) \/ GiveUp(t) \/ UNCHANGED engineVars
<1>1. Supervisor \in Callers /\ Operators \subseteq Callers
  BY ControlAssumption
<1>2. CASE SupStep
  <2>1. sup.at \in {"hold", "act", "wait"} => sup.line \in Lines
    BY DEF TypeOK, SupTypeOK
  <2>2. CASE SupDial \/ SupSilent \/ SupReturn
    BY <1>1, <2>1, <2>2 DEF SupDial, SupSilent, SupReturn, Requests
  <2>3. CASE SupTalking
    BY <1>1, <2>1, <2>3 DEF SupTalking, Requests
  <2>4. CASE SupWake \/ SupSleep \/ SupReadHold \/ SupPass \/ SupQuiet
    BY <1>1, <2>4 DEF SupWake, SupSleep, SupReadHold, SupPass, SupQuiet
  <2>5. ASSUME NEW l \in Lines, SupRead(l) PROVE UNCHANGED engineVars
    BY <2>5 DEF SupRead
  <2> QED
    BY <1>1, <1>2, <2>2, <2>3, <2>4, <2>5 DEF SupStep
<1>3. ASSUME NEW o \in Operators, OpStep(o)
      PROVE  \/ \E do \in Requests, l \in Lines : Submit(o, do, l)
             \/ Collect(o) \/ GiveUp(o) \/ UNCHANGED engineVars
  <2>1. op[o].do \in Requests /\ (op[o].at # "free" => op[o].line \in Lines)
    BY DEF TypeOK, OpTypeOK
  <2> QED
    BY <1>3, <2>1 DEF OpStep, CallAction, ConferenceDial, ConferenceHangup, OpSubmit, OpReturn
<1>4. ASSUME NEW l \in Lines, RetryElapses(l) PROVE UNCHANGED engineVars
  BY <1>4 DEF RetryElapses
<1> QED
  BY <1>1, <1>2, <1>3, <1>4

(* The engine's maps, the runner and the library agree, always.            *)
THEOREM EngineConsistent == Spec => []EngineInv
<1>1. Init => EngineInv
  <2> SUFFICES ASSUME Init PROVE EngineInv
    OBVIOUS
  <2>1. /\ runner.at = "rest" /\ runner.call = Nobody
        /\ \A c \in Calls : call[c].phase = "null"
        /\ \A l \in Lines : slot[l] = Nobody /\ port[l] = Nobody /\ gate[l] = FALSE
    BY DEF Init, EngineInit, CallbacksInit, NoCall, Resting
  <2>2. SlotsHoldCalls /\ RunnerHoldsCall /\ NoOrphanCall
    BY <2>1 DEF SlotsHoldCalls, RunnerHoldsCall, NoOrphanCall, Live
  <2>3. OnlyInvitesIntrude /\ GateNeedsPort /\ PortNeedsCall /\ ConnectNeedsCall
    BY <2>1 DEF OnlyInvitesIntrude, GateNeedsPort, PortNeedsCall, ConnectNeedsCall
  <2> QED
    BY <2>2, <2>3 DEF EngineInv
<1>2. TypeOK /\ EngineInv /\ [Next]_vars => EngineInv'
  <2> SUFFICES ASSUME TypeOK, EngineInv, [Next]_vars PROVE EngineInv'
    OBVIOUS
  <2>1. CASE SupStep \/ (\E o \in Operators : OpStep(o))
                     \/ (\E l \in Lines : RetryElapses(l))
    BY <2>1, CallerStep, CallerInv
  <2>2. CASE (RunnerStep \/ LibraryStep) /\ UNCHANGED controlVars
    BY <2>2, RunnerInv, LibraryInv
  <2>3. CASE UNCHANGED vars
    BY <2>3, CallerInv DEF vars
  <2> QED
    BY <2>1, <2>2, <2>3 DEF Next
<1> QED
  BY <1>1, <1>2, TypeCorrect, PTL DEF Spec

(* A line whose gate is open holds a call (on_media_start, on_line_state). *)
THEOREM GateSafe == Spec => []GateNeedsCall
<1>1. EngineInv => GateNeedsCall
  BY DEF EngineInv, GateNeedsPort, PortNeedsCall, GateNeedsCall
<1> QED
  BY <1>1, EngineConsistent, PTL

(* No two calls of a line are live unless one is an invitation nobody has  *)
(* answered (dial, store_call, onIncomingCall).                            *)
THEOREM CallsSafe == Spec => []OneCallPerLine
<1>1. TypeOK /\ EngineInv => OneCallPerLine
  <2> SUFFICES ASSUME TypeOK, EngineInv, NEW c \in Calls, NEW d \in Calls, c # d,
                      Live(c), Live(d), call[c].line = call[d].line
               PROVE  "incoming" \in {call[c].phase, call[d].phase}
    BY DEF OneCallPerLine
  <2> USE EngineAssumption DEF EngineInv, NoOrphanCall, OnlyInvitesIntrude, RunnerHoldsCall
  <2>1. CASE c = runner.call /\ d = slot[call[d].line]
    BY <2>1 DEF Live
  <2>2. CASE d = runner.call /\ c = slot[call[c].line]
    BY <2>2 DEF Live
  <2> QED
    BY <2>1, <2>2
<1> QED
  BY <1>1, TypeCorrect, EngineConsistent, PTL

(* Every live call can still be found to be hung up (calls_).              *)
THEOREM NoneOrphaned == Spec => []NoOrphanCall
<1>1. EngineInv => NoOrphanCall
  BY DEF EngineInv
<1> QED BY <1>1, EngineConsistent, PTL

-----------------------------------------------------------------------------
(* Lines nobody calls                                                      *)

(* No connected call goes in this step, except by its own hang up.         *)
Kept ==
  \A c \in Calls :
    call[c].phase = "confirmed" /\ call'[c].phase = "null"
      => \E l \in Lines : RunHangupAtOnce(l) /\ slot[l] = c

(* OneEndEach of a queue and a state of the calls.                         *)
OneEndIn(jobs, calls) ==
  \A i \in DOMAIN jobs :
    jobs[i].do = "ended" =>
      /\ \E c \in Calls : calls[c].phase = "ended" /\ calls[c].line = jobs[i].line
      /\ \A j \in DOMAIN jobs : jobs[j].do = "ended" /\ jobs[j].line = jobs[i].line => i = j

NoEndOf(jobs, l) == \A i \in DOMAIN jobs : jobs[i].do = "ended" => jobs[i].line # l

LEMMA EndsTail ==
  ASSUME NEW jobs \in Seq(Jobs), jobs # << >>, NEW calls, OneEndIn(jobs, calls)
  PROVE  /\ OneEndIn(Tail(jobs), calls)
         /\ Head(jobs).do = "ended" => NoEndOf(Tail(jobs), Head(jobs).line)
<1>1. /\ Len(Tail(jobs)) = Len(jobs) - 1 /\ Tail(jobs) \in Seq(Jobs)
      /\ \A i \in 1 .. Len(Tail(jobs)) : Tail(jobs)[i] = jobs[i + 1]
  BY HeadTailProperties
<1>2. /\ DOMAIN jobs = 1 .. Len(jobs) /\ DOMAIN Tail(jobs) = 1 .. Len(Tail(jobs))
      /\ Len(jobs) \in Nat /\ Len(jobs) # 0
  BY <1>1, LenProperties, EmptySeq
<1>3. \A i \in DOMAIN Tail(jobs) : i + 1 \in DOMAIN jobs /\ Tail(jobs)[i] = jobs[i + 1] /\ i \in Nat
  BY <1>1, <1>2
<1>4. 1 \in DOMAIN jobs /\ Head(jobs) = jobs[1] /\ \A i \in DOMAIN Tail(jobs) : i + 1 # 1
  BY <1>1, <1>2
<1>5. \A i, j \in DOMAIN Tail(jobs) : i + 1 = j + 1 => i = j
  BY <1>3
<1>6. OneEndIn(Tail(jobs), calls)
  BY <1>3, <1>5 DEF OneEndIn
<1>7. Head(jobs).do = "ended" => NoEndOf(Tail(jobs), Head(jobs).line)
  BY <1>3, <1>4 DEF OneEndIn, NoEndOf
<1> QED
  BY <1>6, <1>7

LEMMA EndsAppend ==
  ASSUME NEW jobs \in Seq(Jobs), NEW job \in Jobs, NEW calls, OneEndIn(jobs, calls),
         job.do = "ended" =>
           /\ NoEndOf(jobs, job.line)
           /\ \E c \in Calls : calls[c].phase = "ended" /\ calls[c].line = job.line
  PROVE  OneEndIn(Append(jobs, job), calls)
<1>1. /\ Append(jobs, job) \in Seq(Jobs) /\ Len(Append(jobs, job)) = Len(jobs) + 1
      /\ \A i \in 1 .. Len(jobs) : Append(jobs, job)[i] = jobs[i]
      /\ Append(jobs, job)[Len(jobs) + 1] = job
  BY AppendProperties
<1>2. /\ DOMAIN jobs = 1 .. Len(jobs) /\ Len(jobs) \in Nat
      /\ DOMAIN Append(jobs, job) = 1 .. (Len(jobs) + 1)
  BY <1>1, LenProperties
<1>3. \A i \in DOMAIN Append(jobs, job) :
        \/ i \in DOMAIN jobs /\ Append(jobs, job)[i] = jobs[i]
        \/ i = Len(jobs) + 1 /\ Append(jobs, job)[i] = job
  BY <1>1, <1>2
<1> QED
  BY <1>3 DEF OneEndIn, NoEndOf

(* Ended calls whose job is queued stay as they are.                       *)
LEMMA EndsStay ==
  ASSUME NEW jobs, NEW calls, NEW after, OneEndIn(jobs, calls),
         \A c \in Calls : calls[c].phase = "ended" /\ ~NoEndOf(jobs, calls[c].line)
                            => after[c].phase = "ended" /\ after[c].line = calls[c].line
  PROVE  OneEndIn(jobs, after)
BY DEF OneEndIn, NoEndOf

(* A line nobody calls has one call at most.                               *)
LEMMA Sole ==
  ASSUME TypeOK, EngineInv, OutboundInv, NEW c \in Calls, NEW d \in Calls,
         Known(c), Known(d), call[c].line = call[d].line
  PROVE  c = d
<1>1. runner.at = "store" => call[runner.call].line = runner.line /\ runner.call # Nobody
  BY EngineAssumption DEF EngineInv, RunnerHoldsCall
<1>2. c # Nobody /\ d # Nobody
  BY EngineAssumption
<1> QED
  BY <1>1, <1>2 DEF OutboundInv, AllHeld, NobodyIntrudes

(* Steps that move no call.                                                *)
LEMMA NoMove ==
  ASSUME OutboundInv, StateIsOfItsCall, UNCHANGED <<slot, lineState>>,
         \A c \in Calls : call'[c].phase = call[c].phase /\ call'[c].line = call[c].line,
         \/ runner'.at = runner.at /\ runner'.line = runner.line /\ runner'.call = runner.call
         \/ runner.at # "store" /\ runner'.at = "rest"
         \/ /\ runner.at # "store" /\ runner'.at = "connect"
            /\ slot[runner'.line] = runner'.call,
         OneEndIn(queue', call)
  PROVE  OutboundInv' /\ StateIsOfItsCall' /\ Kept
<1>1. AllHeld' /\ NobodyIntrudes'
  BY DEF OutboundInv, AllHeld, NobodyIntrudes, Known
<1>2. OneEndEach'
  BY DEF OneEndIn, OneEndEach
<1>3. StateIsOfItsCall'
  BY DEF StateIsOfItsCall, Live
<1>4. Kept
  BY DEF Kept
<1> QED
  BY <1>1, <1>2, <1>3, <1>4 DEF OutboundInv

(* A call moves on, and its line shows it.                                 *)
LEMMA CallMoves ==
  ASSUME TypeOK, EngineInv, OutboundInv, StateIsOfItsCall,
         NEW c \in Calls, NEW r, Live(c), call' = [call EXCEPT ![c] = r],
         r.line = call[c].line, r.phase \notin {"null", "incoming"},
         UNCHANGED <<slot, runner>>,
         \A k \in Lines \ {call[c].line} : lineState'[k] = lineState[k],
         IF r.phase = "ended" THEN lineState'[call[c].line] = "Idle"
                              ELSE lineState'[call[c].line] \in StateOf(r.phase),
         OneEndIn(queue', call')
  PROVE  OutboundInv' /\ StateIsOfItsCall' /\ Kept
<1> DEFINE l == call[c].line
<1>1. \A d \in Calls : call'[d] = IF d = c THEN r ELSE call[d]
  BY DEF TypeOK, EngineTypeOK, CallsTypeOK
<1>2. \A d \in Calls : call'[d].line = call[d].line /\ (Known(d) <=> Known(d)')
                       /\ (d # c => (Live(d) <=> Live(d)') /\ call'[d].phase = call[d].phase)
  BY <1>1 DEF Known, Live
<1>3. AllHeld' /\ NobodyIntrudes'
  BY <1>1, <1>2 DEF OutboundInv, AllHeld, NobodyIntrudes
<1>4. OneEndEach'
  BY DEF OneEndIn, OneEndEach
<1>5. Kept
  BY <1>1, <1>2 DEF Kept, Known
<1>6. \A d \in Calls : Live(d) /\ call[d].line = l => d = c
  BY Sole DEF Known, Live
<1>7. StateIsOfItsCall'
  <2> SUFFICES ASSUME NEW k \in Lines
               PROVE  \/ \E d \in Calls : /\ Live(d)' /\ call'[d].line = k
                                          /\ lineState'[k] \in StateOf(call'[d].phase)
                      \/ /\ lineState'[k] = "Idle"
                         /\ \A d \in Calls : Live(d)' => call'[d].line # k
    BY DEF StateIsOfItsCall
  <2>1. CASE k # l
    <3>1. lineState'[k] = lineState[k]
      BY <2>1
    <3>2. \A d \in Calls : call[d].line = k => d # c
      BY <2>1
    <3>3. CASE \E d \in Calls : Live(d) /\ call[d].line = k /\ lineState[k] \in StateOf(call[d].phase)
      BY <1>2, <3>1, <3>2, <3>3
    <3>4. CASE lineState[k] = "Idle" /\ \A d \in Calls : Live(d) => call[d].line # k
      BY <1>2, <3>1, <3>2, <3>4
    <3> QED
      BY <3>3, <3>4 DEF StateIsOfItsCall
  <2>2. CASE k = l /\ r.phase = "ended"
    <3>1. ~Live(c)'
      BY <1>1, <2>2 DEF Live
    <3>2. \A d \in Calls : Live(d)' => call'[d].line # k
      BY <1>2, <1>6, <2>2, <3>1
    <3> QED
      BY <2>2, <3>2
  <2>3. CASE k = l /\ r.phase # "ended"
    BY <1>1, <2>3 DEF Live
  <2> QED
    BY <2>1, <2>2, <2>3
<1> QED
  BY <1>3, <1>4, <1>5, <1>7 DEF OutboundInv

(* A line lets go of its call.                                             *)
LEMMA CallGoes ==
  ASSUME TypeOK, EngineInv, OutboundInv, StateIsOfItsCall,
         NEW l \in Lines, slot[l] # Nobody, runner.at = "rest", runner' = runner,
         call' = [call EXCEPT ![slot[l]] = NoCall], slot' = [slot EXCEPT ![l] = Nobody],
         \A k \in Lines \ {l} : lineState'[k] = lineState[k], lineState'[l] = "Idle",
         OneEndIn(queue', call), NoEndOf(queue', l)
  PROVE  OutboundInv' /\ StateIsOfItsCall'
<1> DEFINE c == slot[l]
<1>1. c \in Calls /\ call[c].line = l /\ Known(c)
  BY DEF TypeOK, EngineTypeOK, EngineInv, SlotsHoldCalls, Known
<1>2. \A d \in Calls : call'[d] = IF d = c THEN NoCall ELSE call[d]
  BY <1>1 DEF TypeOK, EngineTypeOK, CallsTypeOK
<1>3. \A k \in Lines : slot'[k] = IF k = l THEN Nobody ELSE slot[k]
  BY DEF TypeOK, EngineTypeOK
<1> HIDE DEF c
<1>4. \A d \in Calls : (Known(d)' <=> Known(d) /\ d # c) /\ (Live(d)' <=> Live(d) /\ d # c)
  BY <1>2 DEF Known, Live, NoCall
<1>5. \A d \in Calls : Known(d) /\ d # c => call[d].line # l /\ call[d].line \in Lines
  BY <1>1, Sole DEF Known, TypeOK, EngineTypeOK, CallsTypeOK
<1>6. AllHeld' /\ NobodyIntrudes'
  BY <1>2, <1>3, <1>4, <1>5 DEF OutboundInv, AllHeld, NobodyIntrudes
<1>7. OneEndIn(queue', call')
  <2> DEFINE jobs == queue'
             after == call'
  <2>1. \A d \in Calls : call[d].phase = "ended" /\ ~NoEndOf(jobs, call[d].line)
                           => after[d].phase = "ended" /\ after[d].line = call[d].line
    <3> SUFFICES ASSUME NEW d \in Calls, ~NoEndOf(jobs, call[d].line)
                 PROVE  after[d] = call[d]
      OBVIOUS
    <3>1. call[d].line # call[c].line
      BY <1>1
    <3>2. d # c
      BY <3>1
    <3> QED
      BY <1>2, <3>2
  <2>2. OneEndIn(jobs, call)
    OBVIOUS
  <2> HIDE DEF jobs, after
  <2>3. OneEndIn(jobs, after)
    BY <2>1, <2>2 DEF OneEndIn, NoEndOf
  <2> QED
    BY <2>3 DEF jobs, after, OneEndIn
<1>8. OneEndEach'
  BY <1>7 DEF OneEndIn, OneEndEach
<1>9. StateIsOfItsCall'
  <2> SUFFICES ASSUME NEW k \in Lines
               PROVE  \/ \E d \in Calls : /\ Live(d)' /\ call'[d].line = k
                                          /\ lineState'[k] \in StateOf(call'[d].phase)
                      \/ /\ lineState'[k] = "Idle"
                         /\ \A d \in Calls : Live(d)' => call'[d].line # k
    BY DEF StateIsOfItsCall
  <2>1. \A d \in Calls : Live(d) => Known(d)
    BY DEF Live, Known
  <2>2. CASE k = l
    BY <1>2, <1>4, <1>5, <2>1, <2>2
  <2>3. CASE k # l
    <3>1. lineState'[k] = lineState[k]
      BY <2>3
    <3>2. \A d \in Calls : call[d].line = k => d # c
      BY <1>1, <2>3
    <3>3. CASE \E d \in Calls : Live(d) /\ call[d].line = k /\ lineState[k] \in StateOf(call[d].phase)
      BY <1>2, <1>4, <3>1, <3>2, <3>3
    <3>4. CASE lineState[k] = "Idle" /\ \A d \in Calls : Live(d) => call[d].line # k
      BY <1>2, <1>4, <3>1, <3>4
    <3> QED
      BY <3>3, <3>4 DEF StateIsOfItsCall
  <2> QED
    BY <2>2, <2>3
<1> QED
  BY <1>6, <1>8, <1>9 DEF OutboundInv

(* What the runner does.                                                   *)
LEMMA TakeEnds ==
  ASSUME TypeOK, OutboundInv, NEW do, NEW l, Take(do, l)
  PROVE  /\ OneEndIn(queue', call)
         /\ do = "ended" => NoEndOf(queue', l)
         /\ runner.at = "rest"
<1>1. queue \in Seq(Jobs) /\ queue # << >> /\ queue' = Tail(queue)
      /\ Head(queue).do = do /\ Head(queue).line = l /\ runner.at = "rest"
  BY DEF Take, TypeOK, EngineTypeOK
<1>2. OneEndIn(queue, call)
  BY DEF OutboundInv, OneEndEach, OneEndIn
<1> QED
  BY <1>1, <1>2, EndsTail

LEMMA PlaceOut ==
  ASSUME TypeOK, EngineInv, OutboundInv, StateIsOfItsCall, NEW l \in Lines, NEW c \in Calls,
         RunDialPlace(l, c)
  PROVE  OutboundInv' /\ StateIsOfItsCall' /\ Kept
<1>1. /\ OneEndIn(queue', call) /\ runner.at = "rest" /\ slot[l] = Nobody
      /\ call[c].phase = "null" /\ slot' = slot
      /\ runner'.at = "store" /\ runner'.line = l /\ runner'.call = c
  BY TakeEnds DEF RunDialPlace
<1>2. \A d \in Calls : call'[d] = IF d = c
                                  THEN [phase |-> "calling", line |-> l, media |-> FALSE]
                                  ELSE call[d]
  BY DEF RunDialPlace, TypeOK, EngineTypeOK, CallsTypeOK
<1>3. \A d \in Calls : Known(d) => call[d].line # l /\ d = slot[call[d].line] /\ d # c
  BY <1>1, EngineAssumption DEF OutboundInv, AllHeld, Known
<1>4. AllHeld' /\ NobodyIntrudes'
  BY <1>1, <1>2, <1>3 DEF OutboundInv, AllHeld, NobodyIntrudes, Known
<1>5. OneEndEach'
  BY <1>1, <1>2 DEF OneEndIn, OneEndEach
<1>6. \A k \in Lines : lineState'[k] = IF k = l THEN "Dialing" ELSE lineState[k]
  BY DEF RunDialPlace, OnLineState, TypeOK, EngineTypeOK, CallbacksTypeOK
<1>7. StateIsOfItsCall'
  <2> SUFFICES ASSUME NEW k \in Lines
               PROVE  \/ \E d \in Calls : /\ Live(d)' /\ call'[d].line = k
                                          /\ lineState'[k] \in StateOf(call'[d].phase)
                      \/ /\ lineState'[k] = "Idle"
                         /\ \A d \in Calls : Live(d)' => call'[d].line # k
    BY DEF StateIsOfItsCall
  <2>1. CASE k = l
    BY <1>2, <1>6, <2>1 DEF Live, StateOf
  <2>2. CASE k # l
    <3>1. lineState'[k] = lineState[k]
      BY <1>6, <2>2
    <3>2. /\ call'[c].line = l
          /\ \A d \in Calls : d # c => call'[d] = call[d] /\ (Live(d)' <=> Live(d))
          /\ ~Live(c)
      BY <1>1, <1>2 DEF Live
    <3>3. CASE \E d \in Calls : Live(d) /\ call[d].line = k /\ lineState[k] \in StateOf(call[d].phase)
      BY <3>1, <3>2, <3>3
    <3>4. CASE lineState[k] = "Idle" /\ \A d \in Calls : Live(d) => call[d].line # k
      BY <2>2, <3>1, <3>2, <3>4
    <3> QED
      BY <3>3, <3>4 DEF StateIsOfItsCall
  <2> QED
    BY <2>1, <2>2
<1>8. Kept
  BY <1>1, <1>2 DEF Kept
<1> QED
  BY <1>4, <1>5, <1>7, <1>8 DEF OutboundInv

LEMMA StoreOut ==
  ASSUME TypeOK, EngineInv, OutboundInv, StateIsOfItsCall, RunDialStore
  PROVE  OutboundInv' /\ StateIsOfItsCall' /\ Kept
<1>1. /\ runner.at = "store" /\ runner.line \in Lines /\ runner.call \in Calls
      /\ call[runner.call].line = runner.line /\ slot[runner.line] = Nobody
      /\ runner'.at = "rest" /\ slot' = [slot EXCEPT ![runner.line] = runner.call]
      /\ UNCHANGED <<lineState, queue>>
  BY DEF RunDialStore, EngineInv, RunnerHoldsCall, OutboundInv, NobodyIntrudes, Resting
<1>2. call' = call
  BY <1>1 DEF RunDialStore, Released
<1>3. \A k \in Lines : slot'[k] = IF k = runner.line THEN runner.call ELSE slot[k]
  BY <1>1 DEF TypeOK, EngineTypeOK
<1>4. \A d \in Calls : Known(d) => call[d].line \in Lines /\ d # Nobody
  BY EngineAssumption DEF Known, TypeOK, EngineTypeOK, CallsTypeOK
<1>5. AllHeld' /\ NobodyIntrudes'
  BY <1>1, <1>2, <1>3, <1>4 DEF OutboundInv, AllHeld, NobodyIntrudes, Known
<1>6. OneEndEach' /\ StateIsOfItsCall' /\ Kept
  BY <1>1, <1>2 DEF OutboundInv, OneEndEach, StateIsOfItsCall, Live, Kept
<1> QED
  BY <1>5, <1>6 DEF OutboundInv

(* What the line of a live call shows.                                     *)
LEMMA LiveShown ==
  ASSUME TypeOK, EngineInv, OutboundInv, StateIsOfItsCall, NEW c \in Calls, Known(c)
  PROVE  /\ call[c].line \in Lines
         /\ Live(c) => lineState[call[c].line] \in CallUp
         /\ ~Live(c) => lineState[call[c].line] = "Idle"
<1>1. call[c].line \in Lines
  BY DEF Known, TypeOK, EngineTypeOK, CallsTypeOK
<1>2. \A d \in Calls : Live(d) /\ call[d].line = call[c].line => d = c
  BY Sole DEF Live, Known
<1>3. CASE Live(c)
  <2>1. lineState[call[c].line] \in StateOf(call[c].phase)
    BY <1>1, <1>2, <1>3 DEF StateIsOfItsCall
  <2>2. call[c].phase \in {"calling", "early", "confirmed", "closing"}
    BY <1>3 DEF Live, OutboundInv, AllHeld, Known, TypeOK, EngineTypeOK, CallsTypeOK, Phases
  <2> QED
    BY <1>1, <1>3, <2>1, <2>2 DEF StateOf, CallUp
<1>4. CASE ~Live(c)
  BY <1>1, <1>2, <1>4 DEF StateIsOfItsCall
<1> QED
  BY <1>1, <1>3, <1>4

LEMMA HangupOut ==
  ASSUME TypeOK, EngineInv, OutboundInv, StateIsOfItsCall, NEW l \in Lines, RunHangup(l)
  PROVE  OutboundInv' /\ StateIsOfItsCall' /\ Kept
<1>1. OneEndIn(queue', call) /\ UNCHANGED <<lineState, slot, runner>>
  BY TakeEnds DEF RunHangup
<1>2. CASE slot[l] # Nobody /\ Live(slot[l])
  <2> DEFINE c == slot[l]
             r == [call[c] EXCEPT !.phase = "closing"]
  <2>1. c \in Calls /\ call' = [call EXCEPT ![c] = r] /\ Live(c)
    BY <1>2 DEF RunHangup, TypeOK, EngineTypeOK
  <2>2. r.line = call[c].line /\ r.phase = "closing"
    BY <2>1 DEF TypeOK, EngineTypeOK, CallsTypeOK
  <2> HIDE DEF c, r
  <2>3. lineState'[call[c].line] \in StateOf(r.phase)
    BY <1>1, <2>1, <2>2, LiveShown DEF StateOf, Live, Known
  <2>4. OneEndIn(queue', call')
    BY <1>1, <2>1, <2>2 DEF OneEndIn, Live, TypeOK, EngineTypeOK, CallsTypeOK
  <2> QED
    BY <1>1, <2>1, <2>2, <2>3, <2>4, CallMoves
<1>3. CASE ~(slot[l] # Nobody /\ Live(slot[l]))
  <2>1. call' = call
    BY <1>3 DEF RunHangup
  <2> QED
    BY <1>1, <2>1, NoMove
<1> QED
  BY <1>2, <1>3

LEMMA HangupAtOnceOut ==
  ASSUME TypeOK, EngineInv, OutboundInv, StateIsOfItsCall, NEW l \in Lines,
         RunHangupAtOnce(l)
  PROVE  OutboundInv' /\ StateIsOfItsCall' /\ Kept
<1>1. /\ OneEndIn(queue', call) /\ runner.at = "rest" /\ runner' = runner
      /\ slot[l] # Nobody /\ Live(slot[l])
      /\ call' = [call EXCEPT ![slot[l]] = NoCall] /\ slot' = [slot EXCEPT ![l] = Nobody]
  BY TakeEnds DEF RunHangupAtOnce
<1>2. lineState'[l] = "Idle" /\ \A k \in Lines \ {l} : lineState'[k] = lineState[k]
  BY DEF RunHangupAtOnce, OnLineState, TypeOK, EngineTypeOK, CallbacksTypeOK
<1>3. slot[l] \in Calls /\ call[slot[l]].line = l
  BY <1>1 DEF TypeOK, EngineTypeOK, EngineInv, SlotsHoldCalls
<1>4. \A d \in Calls : call[d].phase = "ended" => call[d].line # l
  BY <1>1, <1>3, Sole DEF Live, Known
<1>5. NoEndOf(queue', l)
  BY <1>1, <1>4 DEF OneEndIn, NoEndOf
<1>6. \A d \in Calls : d # slot[l] => call'[d] = call[d]
  BY <1>1, <1>3 DEF TypeOK, EngineTypeOK, CallsTypeOK
<1>7. Kept
  BY <1>6 DEF Kept
<1> QED
  BY <1>1, <1>2, <1>5, <1>7, CallGoes

LEMMA EndedOut ==
  ASSUME TypeOK, EngineInv, OutboundInv, StateIsOfItsCall, NEW l \in Lines, RunEnded(l)
  PROVE  OutboundInv' /\ StateIsOfItsCall' /\ Kept
<1>1. /\ OneEndIn(queue', call) /\ NoEndOf(queue', l) /\ runner.at = "rest"
      /\ UNCHANGED <<runner, lineState>> /\ slot' = [slot EXCEPT ![l] = Nobody]
  BY TakeEnds DEF RunEnded
<1>2. \E c \in Calls : call[c].phase = "ended" /\ call[c].line = l
  <2>1. queue \in Seq(Jobs) /\ queue # << >> /\ Head(queue).do = "ended" /\ Head(queue).line = l
    BY DEF RunEnded, Take, TypeOK, EngineTypeOK
  <2>2. 1 \in DOMAIN queue /\ Head(queue) = queue[1]
    BY <2>1
  <2> QED
    BY <2>1, <2>2 DEF OutboundInv, OneEndEach
<1>3. PICK c \in Calls : call[c].phase = "ended" /\ call[c].line = l
  BY <1>2
<1>4. slot[l] = c /\ c # Nobody
  BY <1>1, <1>3, EngineAssumption DEF OutboundInv, AllHeld, Known
<1>5. runner.call = Nobody
  BY <1>1 DEF EngineInv, RunnerHoldsCall
<1>6. call' = [call EXCEPT ![slot[l]] = NoCall]
  BY <1>4, <1>5 DEF RunEnded, Released
<1>7. lineState'[l] = "Idle" /\ \A k \in Lines \ {l} : lineState'[k] = lineState[k]
  BY <1>1, <1>3, LiveShown DEF Live, Known
<1>8. Kept
  BY <1>3, <1>4, <1>6 DEF Kept, TypeOK, EngineTypeOK, CallsTypeOK
<1> QED
  BY <1>1, <1>4, <1>6, <1>7, <1>8, CallGoes

(* Accepting a call is not among what the runner does for such lines.      *)
LEMMA RunnerOut ==
  ASSUME TypeOK, EngineInv, OutboundInv, StateIsOfItsCall, RunnerStep
  PROVE  OutboundInv' /\ StateIsOfItsCall' /\ Kept
<1>1. ASSUME NEW l \in Lines, RunDialRefused(l)
      PROVE  OutboundInv' /\ StateIsOfItsCall' /\ Kept
  BY <1>1, TakeEnds, NoMove DEF RunDialRefused
<1>2. ASSUME NEW l \in Lines, NEW c \in Calls, RunDialPlace(l, c)
      PROVE  OutboundInv' /\ StateIsOfItsCall' /\ Kept
  BY <1>2, PlaceOut
<1>3. ASSUME NEW l \in Lines, RunAnswer(l) \/ RunIncoming(l)
      PROVE  OutboundInv' /\ StateIsOfItsCall' /\ Kept
  <2>1. ~Accept(l)
    BY DEF Accept, TypeOK, EngineTypeOK, OutboundInv, AllHeld, Known
  <2>2. UNCHANGED <<lineState, call, slot, runner>> /\ OneEndIn(queue', call)
    BY <1>3, <2>1, TakeEnds DEF RunAnswer, RunIncoming
  <2> QED
    BY <2>2, NoMove
<1>4. ASSUME NEW l \in Lines, RunHangup(l) \/ RunHangupAtOnce(l) \/ RunEnded(l)
      PROVE  OutboundInv' /\ StateIsOfItsCall' /\ Kept
  BY <1>4, HangupOut, HangupAtOnceOut, EndedOut
<1>5. ASSUME NEW l \in Lines, RunMediaDown(l) \/ RunMediaNoCall(l)
      PROVE  OutboundInv' /\ StateIsOfItsCall' /\ Kept
  BY <1>5, TakeEnds, NoMove DEF RunMediaDown, RunMediaNoCall
<1>6. ASSUME NEW l \in Lines, RunMediaFind(l)
      PROVE  OutboundInv' /\ StateIsOfItsCall' /\ Kept
  <2>1. UNCHANGED <<lineState, call, slot>> /\ OneEndIn(queue', call) /\ runner.at = "rest"
    BY <1>6, TakeEnds DEF RunMediaFind
  <2>2. \/ runner'.at = "rest"
        \/ runner'.at = "connect" /\ slot[runner'.line] = runner'.call
    BY <1>6 DEF RunMediaFind, Resting
  <2> QED
    BY <2>1, <2>2, NoMove
<1>7. ASSUME RunDialStore PROVE OutboundInv' /\ StateIsOfItsCall' /\ Kept
  BY <1>7, StoreOut
<1>8. ASSUME RunMediaConnect PROVE OutboundInv' /\ StateIsOfItsCall' /\ Kept
  <2>1. /\ UNCHANGED <<lineState, slot, queue>> /\ runner.at = "connect" /\ runner'.at = "rest"
        /\ call' = call
    BY <1>8 DEF RunMediaConnect, Resting, OutboundInv, NobodyIntrudes
  <2>2. OneEndIn(queue', call)
    BY <2>1 DEF OutboundInv, OneEndEach, OneEndIn
  <2> QED
    BY <2>1, <2>2, NoMove
<1> QED
  BY <1>1, <1>2, <1>3, <1>4, <1>5, <1>6, <1>7, <1>8 DEF RunnerStep

(* What the network does to a call.                                        *)
LEMMA NetworkOut ==
  ASSUME TypeOK, EngineInv, OutboundInv, StateIsOfItsCall, NEW c \in Calls,
         Ringing(c) \/ Connected(c)
  PROVE  OutboundInv' /\ StateIsOfItsCall' /\ Kept
<1> DEFINE p == IF Connected(c) THEN "confirmed" ELSE "early"
           s == IF Connected(c) THEN "InCall" ELSE "Ringing"
           r == [call[c] EXCEPT !.phase = p]
<1>1. call[c].phase \in {"calling", "early"}
  BY DEF Ringing, Connected, OutboundInv, AllHeld, Known
<1>2. call' = [call EXCEPT ![c] = r]
  BY <1>1 DEF Ringing, Connected
<1>3. r.line = call[c].line /\ r.phase = p /\ Live(c) /\ call[c].line \in Lines
  BY <1>1 DEF Live, TypeOK, EngineTypeOK, CallsTypeOK
<1>4. OnLineState(call[c].line, s) /\ UNCHANGED <<slot, runner, queue>>
  BY DEF Ringing, Connected
<1>5. /\ lineState'[call[c].line] = s
      /\ \A k \in Lines \ {call[c].line} : lineState'[k] = lineState[k]
  BY <1>3, <1>4 DEF OnLineState, TypeOK, EngineTypeOK, CallbacksTypeOK
<1>6. s \in StateOf(p) /\ p \in {"early", "confirmed"}
  BY DEF StateOf
<1> HIDE DEF p, s, r
<1>7. OneEndIn(queue, call)
  BY DEF OutboundInv, OneEndEach, OneEndIn
<1>8. OneEndIn(queue', call')
  BY <1>1, <1>2, <1>4, <1>7 DEF OneEndIn, TypeOK, EngineTypeOK, CallsTypeOK
<1> QED
  BY <1>2, <1>3, <1>4, <1>5, <1>6, <1>8, CallMoves

LEMMA DisconnectedOut ==
  ASSUME TypeOK, EngineInv, OutboundInv, StateIsOfItsCall, NEW c \in Calls,
         Disconnected(c)
  PROVE  OutboundInv' /\ StateIsOfItsCall' /\ Kept
<1> DEFINE r == [call[c] EXCEPT !.phase = "ended", !.media = FALSE]
           job == Job("ended", call[c].line, Nobody)
<1>1. /\ call' = [call EXCEPT ![c] = r] /\ Live(c) /\ OnLineState(call[c].line, "Idle")
      /\ queue' = Append(queue, job) /\ UNCHANGED <<slot, runner>>
  BY DEF Disconnected, Post
<1>2. r.line = call[c].line /\ r.phase = "ended" /\ call[c].line \in Lines
  BY <1>1 DEF Live, TypeOK, EngineTypeOK, CallsTypeOK
<1>3. /\ lineState'[call[c].line] = "Idle"
      /\ \A k \in Lines \ {call[c].line} : lineState'[k] = lineState[k]
  BY <1>1, <1>2 DEF OnLineState, TypeOK, EngineTypeOK, CallbacksTypeOK
<1>4. job \in Jobs /\ job.line = call[c].line /\ queue \in Seq(Jobs)
  BY <1>2 DEF Job, Jobs, TypeOK, EngineTypeOK
<1> HIDE DEF r, job
<1>5. OneEndIn(queue, call)
  BY DEF OutboundInv, OneEndEach, OneEndIn
<1>6. NoEndOf(queue, call[c].line)
  <2>1. \A d \in Calls : call[d].phase = "ended" => call[d].line # call[c].line
    BY <1>1, Sole DEF Live, Known
  <2> QED
    BY <1>5, <2>1 DEF OneEndIn, NoEndOf
<1>7. \A d \in Calls : call'[d] = IF d = c THEN r ELSE call[d]
  BY <1>1 DEF TypeOK, EngineTypeOK, CallsTypeOK
<1>8. OneEndIn(queue, call')
  BY <1>1, <1>5, <1>7 DEF OneEndIn, Live
<1>9. \E d \in Calls : call'[d].phase = "ended" /\ call'[d].line = job.line
  BY <1>2, <1>4, <1>7
<1>10. OneEndIn(queue', call')
  <2> DEFINE after == call'
  <2>1. OneEndIn(queue, after) /\ NoEndOf(queue, job.line)
        /\ \E d \in Calls : after[d].phase = "ended" /\ after[d].line = job.line
    BY <1>4, <1>6, <1>8, <1>9
  <2> HIDE DEF after
  <2>2. OneEndIn(Append(queue, job), after)
    BY <1>4, <2>1, EndsAppend
  <2> QED
    BY <1>1, <2>2 DEF after
<1> QED
  BY <1>1, <1>2, <1>3, <1>10, CallMoves

LEMMA LibraryOut ==
  ASSUME Inbound = {}, TypeOK, EngineInv, OutboundInv, StateIsOfItsCall, LibraryStep
  PROVE  OutboundInv' /\ StateIsOfItsCall' /\ Kept
<1>1. ASSUME NEW c \in Calls, MediaChanged(c)
      PROVE  OutboundInv' /\ StateIsOfItsCall' /\ Kept
  <2> DEFINE do == IF call[c].media THEN "media down" ELSE "media up"
             job == Job(do, call[c].line, Nobody)
  <2>1. queue' = Append(queue, job) /\ UNCHANGED <<lineState, slot, runner>>
        /\ call[c].line \in Lines
    BY <1>1 DEF MediaChanged, Post, TypeOK, EngineTypeOK, CallsTypeOK
  <2>2. \A d \in Calls : call'[d].phase = call[d].phase /\ call'[d].line = call[d].line
    BY <1>1 DEF MediaChanged, TypeOK, EngineTypeOK, CallsTypeOK
  <2>3. job \in Jobs /\ job.do # "ended" /\ queue \in Seq(Jobs)
    BY <2>1 DEF Job, Jobs, TypeOK, EngineTypeOK
  <2>4. OneEndIn(queue, call)
    BY DEF OutboundInv, OneEndEach, OneEndIn
  <2> HIDE DEF job
  <2>5. OneEndIn(queue', call)
    BY <2>1, <2>3, <2>4, EndsAppend
  <2> QED
    BY <2>1, <2>2, <2>5, NoMove
<1>2. ~\E l \in Lines, c \in Calls : IncomingCall(l, c)
  BY DEF IncomingCall
<1> QED
  BY <1>1, <1>2, NetworkOut, DisconnectedOut DEF LibraryStep

LEMMA CallerOut ==
  ASSUME TypeOK, OutboundInv, StateIsOfItsCall, NEW t \in Callers,
         \/ \E do \in Requests, l \in Lines : Submit(t, do, l)
         \/ Collect(t) \/ GiveUp(t) \/ UNCHANGED engineVars
  PROVE  OutboundInv' /\ StateIsOfItsCall' /\ Kept
<1>1. OneEndIn(queue, call) /\ queue \in Seq(Jobs)
  BY DEF OutboundInv, OneEndEach, OneEndIn, TypeOK, EngineTypeOK
<1>2. ASSUME NEW do \in Requests, NEW l \in Lines, Submit(t, do, l)
      PROVE  OneEndIn(queue', call)
  <2>1. Job(do, l, t) \in Jobs /\ Job(do, l, t).do # "ended"
        /\ queue' = Append(queue, Job(do, l, t))
    BY <1>2 DEF Job, Jobs, Requests, Submit
  <2> QED
    BY <1>1, <2>1, EndsAppend
<1>3. ASSUME GiveUp(t) PROVE OneEndIn(queue', call)
  <2>1. \A i \in DOMAIN queue : queue[i] \in Jobs
    BY <1>1
  <2>2. /\ DOMAIN queue' = DOMAIN queue
        /\ \A i \in DOMAIN queue : queue'[i].do = queue[i].do /\ queue'[i].line = queue[i].line
    BY <1>3, <2>1 DEF GiveUp, Jobs
  <2> QED
    BY <1>1, <2>2 DEF OneEndIn
<1>4. OneEndIn(queue', call)
  BY <1>1, <1>2, <1>3 DEF Collect, engineVars
<1>5. /\ UNCHANGED <<slot, lineState, call>>
      /\ runner'.at = runner.at /\ runner'.line = runner.line /\ runner'.call = runner.call
  BY DEF Submit, Collect, GiveUp, engineVars, TypeOK, EngineTypeOK, RunnerTypeOK
<1> QED
  BY <1>4, <1>5, NoMove

LEMMA OutboundStart == Init => OutboundInv /\ StateIsOfItsCall
<1> SUFFICES ASSUME Init PROVE OutboundInv /\ StateIsOfItsCall
  OBVIOUS
<1>1. /\ queue = << >> /\ runner.at = "rest"
      /\ \A c \in Calls : call[c].phase = "null"
      /\ \A l \in Lines : lineState[l] = "Idle"
  BY DEF Init, EngineInit, CallbacksInit, NoCall, Resting
<1>2. DOMAIN queue = {}
  BY <1>1
<1> QED
  BY <1>1, <1>2 DEF OutboundInv, AllHeld, NobodyIntrudes, OneEndEach, StateIsOfItsCall, Known, Live

LEMMA OutboundStep ==
  ASSUME Inbound = {}, TypeOK, EngineInv, OutboundInv, StateIsOfItsCall, [Next]_vars
  PROVE  OutboundInv' /\ StateIsOfItsCall' /\ Kept
<1>1. CASE SupStep \/ (\E o \in Operators : OpStep(o))
                   \/ (\E l \in Lines : RetryElapses(l))
  BY <1>1, CallerStep, CallerOut
<1>2. CASE (RunnerStep \/ LibraryStep) /\ UNCHANGED controlVars
  BY <1>2, RunnerOut, LibraryOut
<1>3. CASE UNCHANGED vars
  BY <1>3, ControlAssumption, CallerOut DEF vars
<1> QED
  BY <1>1, <1>2, <1>3 DEF Next

(* On lines nobody calls, what is seen of a line is the state of its one   *)
(* live call, however long the jobs wait (on_line_state, hangup, dial).    *)
THEOREM StateFollowsCall ==
  ASSUME Inbound = {}
  PROVE  Spec => []StateIsOfItsCall
<1>1. TypeOK /\ EngineInv /\ OutboundInv /\ StateIsOfItsCall /\ [Next]_vars
        => OutboundInv' /\ StateIsOfItsCall'
  BY OutboundStep
<1> QED
  BY <1>1, OutboundStart, TypeCorrect, EngineConsistent, PTL DEF Spec

(* On lines nobody calls, no connected call goes except by its own hang    *)
(* up: the job an ended call leaves finds that call (posted from           *)
(* onCallState, run later by the runner).                                  *)
THEOREM NoneDropped ==
  ASSUME Inbound = {}
  PROVE  Spec => NoCallDropped
<1>1. TypeOK /\ EngineInv /\ OutboundInv /\ StateIsOfItsCall /\ [Next]_vars
        => OutboundInv' /\ StateIsOfItsCall' /\ Kept
  BY OutboundStep
<1>2. Kept => [\A c \in Calls :
                 call[c].phase = "confirmed" /\ call'[c].phase = "null"
                   => \E l \in Lines : RunHangupAtOnce(l) /\ slot[l] = c]_vars
  BY DEF Kept
<1> QED
  BY <1>1, <1>2, OutboundStart, TypeCorrect, EngineConsistent, PTL DEF Spec, NoCallDropped
=============================================================================
