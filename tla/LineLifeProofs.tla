---------------------------- MODULE LineLifeProofs ----------------------------
(***************************************************************************)
(* A line has at most one account with the registrar, what the library's   *)
(* thread has looked up is there when it asks it, what is shown of a line  *)
(* is what was heard of it, and a line that is switched off and was handed *)
(* over by a request with nobody beside it is off when its jobs are done:  *)
(* with any lines, threads and queue.                                      *)
(***************************************************************************)
EXTENDS LineLife, SequenceTheorems, TLAPS

(* Each registered account is its line's, or the one being entered; each   *)
(* line's account is registered.                                           *)
Held ==
  \A o \in Objects : live[o] # Nothing =>
    \/ context[live[o]] = o
    \/ runner.at = "enter" /\ runner.object = o /\ runner.line = live[o]
ContextLives ==
  \A l \in Lines : context[l] # Nothing => live[context[l]] = l

(* account_index_ says what lines_ does, but for the line whose account    *)
(* has just been destroyed.                                                *)
IndexFollows ==
  \A l \in Lines : index[l] # Nothing =>
    context[l] = index[l] \/ (runner.at = "forget" /\ runner.line = l)

(* The line the runner is at has no account from the release of the old    *)
(* one to the entry of the new.                                            *)
Between ==
  /\ runner.at \in {"forget", "create", "enter"} => context[runner.line] = Nothing
  /\ runner.at \in {"create", "enter"} => index[runner.line] = Nothing
  /\ runner.at = "enter" => live[runner.object] = runner.line

LifeInv ==
  /\ TypeOK /\ Held /\ ContextLives /\ IndexFollows /\ Between
  /\ AccountThereWhenAsked

LEMMA LifeInit == ASSUME LifeAssumption, Init PROVE LifeInv /\ StatusIsHeard
<1> USE DEF Init, Resting, Idle
<1>1. TypeOK
  <2>1. request \in [Threads -> Requests]
    BY DEF At, Free, Requests, Places
  <2>2. /\ runner \in [at : {"rest", "release", "forget", "create", "enter"},
                      line : Lines \cup {Nothing}, add : BOOLEAN, keep : BOOLEAN,
                      object : Objects \cup {Nothing}, by : Threads \cup {Nothing}]
        /\ runner.at = "rest" /\ library.at = "idle"
        /\ library \in [at : {"idle", "use"},
                       line : Lines \cup {Nothing}, found : Objects \cup {Nothing}]
    OBVIOUS
  <2>3. /\ live \in [Objects -> Lines \cup {Nothing}]
        /\ context \in [Lines -> Objects \cup {Nothing}]
        /\ index \in [Lines -> Objects \cup {Nothing}]
        /\ status \in [Lines -> {"none", "unregistered", "registered", "error"}]
        /\ heard \in [Lines -> {"none", "ok", "failed"}]
    OBVIOUS
  <2>4. /\ queue \in Seq(Jobs) /\ config \in Documents
        /\ owed \subseteq Lines /\ crossed \subseteq Threads /\ muddled \subseteq Lines
    OBVIOUS
  <2>5. leg \in BOOLEAN
    OBVIOUS
  <2> QED
    BY <2>1, <2>2, <2>3, <2>4, <2>5 DEF TypeOK
<1>2. Held /\ ContextLives /\ IndexFollows /\ Between /\ AccountThereWhenAsked
  BY DEF Held, ContextLives, IndexFollows, Between, AccountThereWhenAsked
<1>3. StatusIsHeard
  BY DEF StatusIsHeard
<1> QED
  BY <1>1, <1>2, <1>3 DEF LifeInv

(* What does not touch accounts, index, runner and library keeps the rest. *)
LEMMA NothingMoved ==
  ASSUME LifeInv, TypeOK', UNCHANGED <<registry, status, heard, library>>,
         \/ runner' = runner
         \/ runner'.at = runner.at /\ runner'.line = runner.line
            /\ runner'.object = runner.object
  PROVE  LifeInv'
BY DEF LifeInv, registry, Held, ContextLives, IndexFollows, Between, AccountThereWhenAsked

(* The requests.                                                           *)
LEMMA JobFor ==
  ASSUME NEW job \in Jobs, NEW t \in Threads \cup {Nothing}
  PROVE  [job EXCEPT !.by = t] \in Jobs
BY DEF Jobs

LEMMA AskTyped ==
  ASSUME NEW do \in {"add", "leg", "remove"}, NEW l \in Lines, NEW c \in Wishes
  PROVE  Ask(do, l, c) \in Jobs
BY DEF Ask, Jobs

LEMMA PlanTyped ==
  ASSUME LifeAssumption, NEW doc \in Documents PROVE Plan(doc) \in SUBSET Jobs
<1>1. doc \in [Lines -> Wishes]
  BY DEF LifeAssumption
<1> QED
  BY <1>1 DEF Plan, TheLeg, Ask, Jobs, LifeAssumption, Wishes

LEMMA RequestsTyped ==
  /\ \A place \in Places : At(place) \in Requests
  /\ \A todo \in SUBSET Jobs : Asking(todo) \in Requests
  /\ Free \in Requests
BY DEF At, Asking, Free, Requests, Places

LEMMA GoesOnTyped ==
  ASSUME TypeOK, NEW t \in Threads, NEW job, NEW todo \in SUBSET Jobs, GoesOn(t, job, todo)
  PROVE  request' \in [Threads -> Requests] /\ crossed' \subseteq Threads
<1>1. PICK r \in Requests : request' = [request EXCEPT ![t] = r]
  BY RequestsTyped DEF GoesOn, Ends, Places
<1> QED
  BY <1>1 DEF GoesOn, Ends, TypeOK

LEMMA AnswerTyped ==
  ASSUME TypeOK, NEW t \in Threads \cup {Nothing}, Answer(t)
  PROVE  request' \in [Threads -> Requests] /\ crossed' \subseteq Threads
<1>1. CASE t = Nothing
  BY <1>1 DEF Answer, TypeOK
<1>2. CASE t # Nothing
  <2>1. t \in Threads /\ request[t].todo \in SUBSET Jobs
    BY <1>2 DEF TypeOK, Requests
  <2> QED
    BY <1>2, <2>1, GoesOnTyped DEF Answer
<1> QED
  BY <1>1, <1>2

ManagerStep ==
  \/ \E w \in Workers, doc \in Documents : Post(w, doc)
  \/ \E w \in Workers, l \in Lines, c \in Wishes : UpdateLine(w, l, c)
  \/ \E w \in Workers, c \in {"absent", "on"} : UpdateConference(w, c)
  \/ \E t \in Threads : RequestStep(t)

LEMMA ManagerKeeps ==
  ASSUME LifeAssumption, LifeInv, ManagerStep
  PROVE  LifeInv' /\ UNCHANGED <<status, heard>>
<1> USE DEF engine, registry, manager, told
<1>t. TypeOK /\ Workers \subseteq Threads
  BY DEF LifeInv, Threads
<1>a. ASSUME NEW t \in Threads, NEW r \in Requests, request' = [request EXCEPT ![t] = r]
      PROVE  request' \in [Threads -> Requests]
  BY <1>t, <1>a DEF TypeOK
<1>b. ASSUME NEW t \in Threads, Begins(t) PROVE crossed' \subseteq Threads
  BY <1>t, <1>b DEF Begins, Others, TypeOK
<1>c. ASSUME NEW t \in Threads, Ends(t)
      PROVE  request' \in [Threads -> Requests] /\ crossed' \subseteq Threads
  BY <1>t, <1>a, <1>c, RequestsTyped DEF Ends, TypeOK
<1>1. ASSUME NEW w \in Workers, NEW doc \in Documents, Post(w, doc) PROVE TypeOK'
  <2>1. request' \in [Threads -> Requests]
    BY <1>t, <1>1, <1>a, RequestsTyped DEF Post, Places
  <2> QED
    BY <1>t, <1>1, <2>1 DEF Post, Others, TypeOK
<1>2. ASSUME NEW w \in Workers, NEW l \in Lines, NEW c \in Wishes, UpdateLine(w, l, c)
      PROVE  TypeOK'
  <2>1. request' \in [Threads -> Requests]
    <3>1. {Ask("add", l, c)} \in SUBSET Jobs
      BY AskTyped
    <3> QED
      BY <1>t, <1>2, <1>a, <3>1, RequestsTyped DEF UpdateLine
  <2> QED
    BY <1>t, <1>2, <1>b, <2>1 DEF UpdateLine, TypeOK
<1>3. ASSUME NEW w \in Workers, NEW c \in {"absent", "on"}, UpdateConference(w, c)
      PROVE  TypeOK'
  <2>1. request' \in [Threads -> Requests]
    <3>1. {TheLeg} \in SUBSET Jobs
      BY AskTyped, LifeAssumption DEF TheLeg, LifeAssumption, Wishes
    <3> QED
      BY <1>t, <1>3, <1>a, <3>1, RequestsTyped DEF UpdateConference
  <2> QED
    BY <1>t, <1>3, <1>b, <2>1 DEF UpdateConference, TypeOK, LifeAssumption
<1>4. ASSUME NEW t \in Threads, TakeLines(t) PROVE TypeOK'
  <2>1. request' \in [Threads -> Requests]
    <3>1. Plan(config) \in SUBSET Jobs
      BY <1>t, PlanTyped DEF TypeOK
    <3> QED
      BY <1>4, <1>a, <3>1, RequestsTyped DEF TakeLines
  <2> QED
    BY <1>t, <1>4, <1>b, <2>1 DEF TakeLines, TypeOK
<1>5. ASSUME NEW t \in Threads, ApplyFails(t) \/ LookUpLeg(t) \/ WantLeg(t) PROVE TypeOK'
  <2>1. request' \in [Threads -> Requests]
    BY <1>5, <1>a, RequestsTyped DEF ApplyFails, LookUpLeg, WantLeg, Places
  <2> QED
    BY <1>t, <1>5, <2>1 DEF ApplyFails, LookUpLeg, WantLeg, TypeOK
<1>6. ASSUME NEW t \in Threads, DropLeg(t) \/ KeepLeg(t) \/ RaiseLeg(t) PROVE TypeOK'
  <2>1. request' \in [Threads -> Requests]
    <3>1. {Ask("add", Leg, "on")} \in SUBSET Jobs /\ {Ask("remove", Leg, "absent")} \in SUBSET Jobs
      BY AskTyped, LifeAssumption DEF LifeAssumption, Wishes
    <3>2. /\ Asking({Ask("add", Leg, "on")}) \in Requests
          /\ Asking({Ask("remove", Leg, "absent")}) \in Requests
      BY <3>1, RequestsTyped
    <3> QED
      BY <1>6, <1>a, <3>2 DEF DropLeg, KeepLeg, RaiseLeg
  <2>2. /\ UNCHANGED <<config, owed, crossed, muddled, queue, runner, live, context, index,
                       status, heard, library>>
    BY <1>6 DEF DropLeg, KeepLeg, RaiseLeg
  <2>3. leg' \in BOOLEAN
    BY <1>t, <1>6 DEF DropLeg, KeepLeg, RaiseLeg, TypeOK
  <2> QED
    BY <1>t, <2>1, <2>2, <2>3 DEF TypeOK
<1>7. ASSUME NEW t \in Threads, NoLeg(t) \/ EraseLeg(t) PROVE TypeOK'
  <2>1. request' \in [Threads -> Requests] /\ crossed' \subseteq Threads
    BY <1>7, <1>c DEF NoLeg, EraseLeg
  <2>2. leg' \in BOOLEAN
    BY <1>t, <1>7 DEF NoLeg, EraseLeg, TypeOK
  <2>3. /\ UNCHANGED <<config, muddled, queue, runner, live, context, index, status, heard,
                       library>>
        /\ owed' \subseteq Lines
    BY <1>t, <1>7 DEF NoLeg, EraseLeg, TypeOK
  <2> QED
    BY <1>t, <2>1, <2>2, <2>3 DEF TypeOK
<1>8. ASSUME NEW t \in Threads, NEW job \in request[t].todo, AskInVain(t, job) PROVE TypeOK'
  <2>1. request[t].todo \ {job} \in SUBSET Jobs
    BY <1>t DEF TypeOK, Requests
  <2> QED
    BY <1>t, <1>8, <2>1, GoesOnTyped DEF AskInVain, TypeOK
<1>9. ASSUME NEW t \in Threads, NEW job \in request[t].todo, AskEngine(t, job) PROVE TypeOK'
  <2>1. job \in Jobs
    BY <1>t DEF TypeOK, Requests
  <2>2. queue' \in Seq(Jobs)
    <3>1. [job EXCEPT !.by = t] \in Jobs
      BY <2>1, JobFor
    <3> QED
      BY <1>t, <1>9, <3>1 DEF AskEngine, TypeOK
  <2>3. job.line \in Lines
    BY <2>1 DEF Jobs
  <2>4. request[t].todo \ {job} \in SUBSET Jobs
    BY <1>t DEF TypeOK, Requests
  <2>5. job.do \in {"add", "remove"}
    BY <1>9, <2>1 DEF AskEngine, NextJob, Jobs
  <2>6. request' \in [Threads -> Requests]
    BY <1>t, <1>9, <1>a, <2>4, <2>5 DEF AskEngine, Requests, Places
  <2> QED
    BY <1>t, <1>9, <2>2, <2>3, <2>6 DEF AskEngine, TypeOK
<1>10. ASSUME NEW t \in Threads, GiveUp(t) PROVE TypeOK' /\ runner'.at = runner.at
             /\ runner'.line = runner.line /\ runner'.object = runner.object
  <2>1. request[t].todo \in SUBSET Jobs
    BY <1>t DEF TypeOK, Requests
  <2>2. request' \in [Threads -> Requests] /\ crossed' \subseteq Threads
    BY <1>t, <1>10, <2>1, GoesOnTyped DEF GiveUp
  <2>3. queue' \in Seq(Jobs)
    <3>2. queue' = [i \in 1 .. Len(queue) |->
                      IF queue[i].by = t THEN [queue[i] EXCEPT !.by = Nothing] ELSE queue[i]]
      BY <1>t, <1>10 DEF GiveUp, TypeOK
    <3>3. ASSUME NEW i \in 1 .. Len(queue) PROVE queue'[i] \in Jobs
      <4>1. queue[i] \in Jobs
        BY <1>t, ElementOfSeq DEF TypeOK
      <4>2. [queue[i] EXCEPT !.by = Nothing] \in Jobs
        BY <4>1, JobFor
      <4>3. queue'[i] = IF queue[i].by = t THEN [queue[i] EXCEPT !.by = Nothing] ELSE queue[i]
        BY <3>2, Zenon
      <4> QED
        BY <4>1, <4>2, <4>3
    <3>4. Len(queue) \in Nat
      BY <1>t DEF TypeOK
    <3>5. queue' = [i \in 1 .. Len(queue) |-> queue'[i]]
      BY <3>2, Zenon
    <3>6. [i \in 1 .. Len(queue) |-> queue'[i]] \in Seq(Jobs)
      BY <3>3, <3>4
    <3> QED
      BY <3>5, <3>6, Zenon
  <2> QED
    BY <1>t, <1>10, <2>2, <2>3 DEF GiveUp, TypeOK
<1>11. TypeOK'
  BY <1>1, <1>2, <1>3, <1>4, <1>5, <1>6, <1>7, <1>8, <1>9, <1>10 DEF ManagerStep, RequestStep
<1>12. UNCHANGED <<registry, status, heard, library>>
  BY DEF ManagerStep, Post, UpdateLine, UpdateConference, RequestStep, TakeLines, ApplyFails,
         LookUpLeg, DropLeg, NoLeg, KeepLeg, WantLeg, RaiseLeg, AskInVain, AskEngine, GiveUp,
         EraseLeg
<1>13. \/ runner' = runner
       \/ runner'.at = runner.at /\ runner'.line = runner.line
          /\ runner'.object = runner.object
  <2>1. CASE \E t \in Threads : GiveUp(t)
    BY <1>10, <2>1
  <2>2. CASE ~\E t \in Threads : GiveUp(t)
    BY <2>2 DEF ManagerStep, Post, UpdateLine, UpdateConference, RequestStep, TakeLines,
           ApplyFails, LookUpLeg, DropLeg, NoLeg, KeepLeg, WantLeg, RaiseLeg, AskInVain,
           AskEngine, EraseLeg
  <2> QED
    BY <2>1, <2>2
<1> QED
  BY <1>11, <1>12, <1>13, NothingMoved

-----------------------------------------------------------------------------
(* The runner.                                                             *)
LEMMA RunnerKeeps ==
  ASSUME LifeAssumption, LifeInv, RunnerStep PROVE LifeInv'
<1> USE DEF registry, LibraryFree, manager, told
<1>t. TypeOK /\ Held /\ ContextLives /\ IndexFollows /\ Between /\ AccountThereWhenAsked
  BY DEF LifeInv
<1>a. ASSUME NEW t \in Threads \cup {Nothing}, Answer(t)
      PROVE  request' \in [Threads -> Requests] /\ crossed' \subseteq Threads
  BY <1>t, <1>a, AnswerTyped
<1>b. ASSUME queue # << >>
      PROVE  /\ Head(queue) \in Jobs /\ Tail(queue) \in Seq(Jobs)
             /\ Head(queue).by \in Threads \cup {Nothing} /\ Head(queue).line \in Lines
  <2>1. Head(queue) \in Jobs /\ Tail(queue) \in Seq(Jobs)
    BY <1>t, <1>b, HeadTailProperties DEF TypeOK
  <2> QED
    BY <2>1 DEF Jobs
<1>1. CASE RefuseLine
  <2>1. TypeOK'
    BY <1>t, <1>1, <1>a, <1>b DEF RefuseLine, TypeOK
  <2> QED
    BY <1>1, <2>1, NothingMoved DEF RefuseLine
<1>2. CASE RunLine
  <2>1. TypeOK'
    BY <1>t, <1>2, <1>b DEF RunLine, TypeOK
  <2>2. Held' /\ ContextLives' /\ IndexFollows' /\ Between' /\ AccountThereWhenAsked'
    BY <1>t, <1>2 DEF RunLine, Held, ContextLives, IndexFollows, Between,
                      AccountThereWhenAsked
  <2> QED
    BY <2>1, <2>2 DEF LifeInv
<1>3. CASE Release
  <2>0. runner.line \in Lines /\ context[runner.line] \in Objects \cup {Nothing}
    BY <1>t, <1>3 DEF Release, TypeOK
  <2>1. TypeOK'
    BY <1>t, <1>3, <2>0 DEF Release, TypeOK
  <2>2. Held' /\ ContextLives'
    BY <1>t, <1>3, <2>0, LifeAssumption DEF Release, TypeOK, Held, ContextLives, LifeAssumption
  <2>3. IndexFollows' /\ Between'
    BY <1>t, <1>3, <2>0 DEF Release, TypeOK, IndexFollows, Between
  <2>4. AccountThereWhenAsked'
    BY <1>t, <1>3 DEF Release, AccountThereWhenAsked
  <2> QED
    BY <2>1, <2>2, <2>3, <2>4 DEF LifeInv
<1>4. CASE Forget
  <2>0. runner.line \in Lines /\ runner.by \in Threads \cup {Nothing}
    BY <1>t, <1>4 DEF Forget, TypeOK
  <2>1. TypeOK'
    <3>1. /\ index' \in [Lines -> Objects \cup {Nothing}]
          /\ status' \in [Lines -> {"none", "unregistered", "registered", "error"}]
          /\ heard' \in [Lines -> {"none", "ok", "failed"}]
      BY <1>t, <1>4, <2>0 DEF Forget, TypeOK
    <3>2. \/ runner' = [runner EXCEPT !.at = "create"] /\ UNCHANGED <<request, crossed>>
          \/ runner' = Resting /\ Answer(runner.by)
      BY <1>4 DEF Forget
    <3>3. request' \in [Threads -> Requests] /\ crossed' \subseteq Threads
      BY <1>t, <2>0, <3>2, <1>a DEF TypeOK
    <3>4. UNCHANGED <<told, queue, live, context, library>>
      BY <1>4 DEF Forget
    <3>5. /\ runner' \in [at : {"rest", "release", "forget", "create", "enter"},
                         line : Lines \cup {Nothing}, add : BOOLEAN, keep : BOOLEAN,
                         object : Objects \cup {Nothing}, by : Threads \cup {Nothing}]
          /\ runner'.at # "rest" => runner'.line \in Lines
          /\ runner'.at # "enter"
      <4>1. CASE runner' = [runner EXCEPT !.at = "create"]
        BY <1>t, <2>0, <4>1 DEF TypeOK
      <4>2. CASE runner' = Resting
        BY <4>2 DEF Resting
      <4> QED
        BY <3>2, <4>1, <4>2
    <3> QED
      BY <1>t, <3>1, <3>3, <3>4, <3>5 DEF TypeOK
  <2>2. Held' /\ ContextLives' /\ AccountThereWhenAsked'
    BY <1>t, <1>4 DEF Forget, Held, ContextLives, AccountThereWhenAsked, Resting, TypeOK
  <2>3. IndexFollows' /\ Between'
    BY <1>t, <1>4, <2>0 DEF Forget, TypeOK, IndexFollows, Between, Resting
  <2> QED
    BY <2>1, <2>2, <2>3 DEF LifeInv
<1>5. ASSUME NEW o \in Objects, Create(o) PROVE LifeInv'
  <2>0. runner.line \in Lines /\ runner.line # Nothing /\ o # Nothing
    BY <1>t, <1>5 DEF Create, TypeOK, LifeAssumption
  <2>1. TypeOK'
    BY <1>t, <1>5, <2>0 DEF Create, TypeOK
  <2>2. Held' /\ ContextLives'
    BY <1>t, <1>5, <2>0 DEF Create, TypeOK, Held, ContextLives
  <2>3. IndexFollows' /\ Between' /\ AccountThereWhenAsked'
    BY <1>t, <1>5, <2>0 DEF Create, TypeOK, IndexFollows, Between, AccountThereWhenAsked
  <2> QED
    BY <2>1, <2>2, <2>3 DEF LifeInv
<1>6. CASE CreateFails
  <2>1. TypeOK'
    BY <1>t, <1>6, <1>a DEF CreateFails, TypeOK, Resting
  <2>2. Held' /\ ContextLives' /\ IndexFollows' /\ Between' /\ AccountThereWhenAsked'
    BY <1>t, <1>6 DEF CreateFails, Held, ContextLives, IndexFollows, Between,
                      AccountThereWhenAsked, Resting
  <2> QED
    BY <2>1, <2>2 DEF LifeInv
<1>7. CASE Enter
  <2>0. runner.line \in Lines /\ runner.object \in Objects
        /\ runner.by \in Threads \cup {Nothing}
    BY <1>t, <1>7 DEF Enter, TypeOK
  <2>1. TypeOK'
    BY <1>t, <1>7, <2>0, <1>a DEF Enter, TypeOK, Resting
  <2>2. Held' /\ ContextLives'
    BY <1>t, <1>7, <2>0 DEF Enter, TypeOK, Held, ContextLives, Between, Resting
  <2>3. IndexFollows' /\ Between' /\ AccountThereWhenAsked'
    BY <1>t, <1>7, <2>0 DEF Enter, TypeOK, IndexFollows, Between, AccountThereWhenAsked,
                            Resting
  <2> QED
    BY <2>1, <2>2, <2>3 DEF LifeInv
<1> QED
  BY <1>1, <1>2, <1>3, <1>4, <1>5, <1>6, <1>7 DEF RunnerStep

(* The library's thread. An account with a report to make is one a line    *)
(* has: the index has its address, or none.                                *)
LEMMA LibraryKeeps ==
  ASSUME LifeAssumption, LifeInv, LibraryStep PROVE LifeInv'
<1> USE DEF registry, LibraryFree, manager, told
<1>t. TypeOK /\ Held /\ ContextLives /\ IndexFollows /\ Between /\ AccountThereWhenAsked
  BY DEF LifeInv
<1>1. ASSUME NEW o \in Objects, RegState(o)
      PROVE  TypeOK' /\ AccountThereWhenAsked'
  <2>1. live[o] \in Lines /\ index[live[o]] \in Objects \cup {Nothing}
    BY <1>t, <1>1, LifeAssumption DEF RegState, TypeOK, LifeAssumption
  <2>2. TypeOK'
    BY <1>t, <1>1, <2>1 DEF RegState, TypeOK
  <2>3. index[live[o]] # Nothing => live[index[live[o]]] = live[o]
    BY <1>t, <1>1, <2>1, LifeAssumption
       DEF RegState, Held, ContextLives, IndexFollows, Between, LifeAssumption
  <2> QED
    BY <1>1, <2>2, <2>3 DEF RegState, AccountThereWhenAsked
<1>2. ASSUME NEW outcome \in Outcomes, Report(outcome)
      PROVE  TypeOK' /\ AccountThereWhenAsked'
  <2>1. library.line \in Lines
    BY <1>t, <1>2 DEF Report, TypeOK
  <2> QED
    BY <1>t, <1>2, <2>1 DEF Report, TypeOK, AccountThereWhenAsked, Idle, Outcomes
<1>3. TypeOK' /\ AccountThereWhenAsked'
  BY <1>1, <1>2 DEF LibraryStep
<1>4. UNCHANGED <<runner, live, context, index>>
  BY DEF RegState, LibraryStep, Report
<1> QED
  BY <1>t, <1>3, <1>4 DEF LifeInv, Held, ContextLives, IndexFollows, Between

(* Every step of every thread.                                             *)
LEMMA LifeStep ==
  ASSUME LifeAssumption, LifeInv, [Next]_vars PROVE LifeInv'
<1>1. CASE Next
  BY <1>1, ManagerKeeps, RunnerKeeps, LibraryKeeps DEF Next, ManagerStep
<1>2. CASE UNCHANGED vars
  BY <1>2, NothingMoved DEF vars, manager, told, LifeInv, TypeOK, registry
<1> QED
  BY <1>1, <1>2

-----------------------------------------------------------------------------
(* Types, and an account that is looked up is there when it is asked       *)
(* (notify_reg_state): the runner destroys accounts only while no callback *)
(* is at work, and until it has dropped the index entry of one no account  *)
(* of the line can report.                                                 *)
THEOREM AskedSafely == Spec => [](TypeOK /\ AccountThereWhenAsked)
<1>1. Init => LifeInv
  BY LifeAssumption, LifeInit
<1>2. LifeInv /\ [Next]_vars => LifeInv'
  BY LifeAssumption, LifeStep
<1>3. LifeInv => TypeOK /\ AccountThereWhenAsked
  BY DEF LifeInv
<1> QED
  BY <1>1, <1>2, <1>3, PTL DEF Spec

(* The variables keep their types.                                         *)
THEOREM LifeTypes == Spec => []TypeOK
BY AskedSafely, PTL

(* A line never has two accounts with the registrar (release_line_account  *)
(* before create): both would be the line's in lines_, or one is entered   *)
(* while the line has none.                                                *)
THEOREM NeverRegisteredTwice == Spec => []RegisteredOnce
<1>1. Init => LifeInv
  BY LifeAssumption, LifeInit
<1>2. LifeInv /\ [Next]_vars => LifeInv'
  BY LifeAssumption, LifeStep
<1>3. LifeInv => RegisteredOnce
  BY LifeAssumption DEF LifeInv, Held, Between, RegisteredOnce, LifeAssumption
<1> QED
  BY <1>1, <1>2, <1>3, PTL DEF Spec

(* The status shown of a registration is the last one heard of it: the     *)
(* entry of a new account clears nothing that has been reported already.   *)
THEOREM ShownAsHeard == Spec => []StatusIsHeard
<1>1. Init => LifeInv /\ StatusIsHeard
  BY LifeAssumption, LifeInit
<1>2. LifeInv /\ StatusIsHeard /\ [Next]_vars => LifeInv' /\ StatusIsHeard'
  <2> SUFFICES ASSUME LifeInv, StatusIsHeard, [Next]_vars PROVE LifeInv' /\ StatusIsHeard'
    OBVIOUS
  <2>1. TypeOK
    BY DEF LifeInv
  <2>2. ASSUME Forget PROVE StatusIsHeard'
    BY <2>1, <2>2 DEF Forget, StatusIsHeard, TypeOK
  <2>3. ASSUME Enter PROVE StatusIsHeard'
    BY <2>1, <2>3 DEF Enter, StatusIsHeard, TypeOK
  <2>4. ASSUME NEW outcome \in Outcomes, Report(outcome) PROVE StatusIsHeard'
    BY <2>1, <2>4 DEF Report, StatusIsHeard, TypeOK, Outcomes
  <2>5. ASSUME UNCHANGED <<status, heard>> PROVE StatusIsHeard'
    BY <2>5 DEF StatusIsHeard
  <2>6. Forget \/ Enter \/ (\E outcome \in Outcomes : Report(outcome))
        \/ UNCHANGED <<status, heard>>
    <3>1. CASE RunnerStep
      BY <3>1 DEF RunnerStep, RefuseLine, RunLine, Release, Create, CreateFails
    <3>2. CASE LibraryStep
      BY <3>2 DEF LibraryStep, RegState
    <3>3. CASE UNCHANGED vars
      BY <3>3 DEF vars
    <3> QED
      BY <3>1, <3>2, <3>3, ManagerKeeps, LifeAssumption DEF Next, ManagerStep
  <2>7. StatusIsHeard'
    BY <2>2, <2>3, <2>4, <2>5, <2>6
  <2> QED
    BY <2>7, LifeStep, LifeAssumption
<1> QED
  BY <1>1, <1>2, PTL DEF Spec

-----------------------------------------------------------------------------
(* Switching off                                                           *)

(* The jobs that decide what becomes of a line, and those that end it.     *)
Decides(job, l) == job.line = l
SwitchesOff(job) == job.as # "on"
NoneQueued(l) == \A i \in 1 .. Len(queue) : ~Decides(queue[i], l)
Gone(l) == status[l] = "none" /\ index[l] = Nothing /\ \A o \in Objects : live[o] # l

(* The last of the jobs about the line, queued, at work or done, is one    *)
(* that ends it.                                                           *)
LastWordOff(l) ==
  /\ \A i \in 1 .. Len(queue) :
       Decides(queue[i], l) /\ (\A j \in i + 1 .. Len(queue) : ~Decides(queue[j], l))
         => SwitchesOff(queue[i])
  /\ NoneQueued(l) /\ runner.line = l => ~runner.add
  /\ NoneQueued(l) /\ runner.line # l => Gone(l)

(* A line before the engine runs; and then, unless it is muddled, a line    *)
(* that is off and was handed over, or a leg that lines_ has not, or will  *)
(* not have in a moment.                                                   *)
Forgetting ==
  \E t \in Threads : \/ request[t].at = "erase"
                     \/ request[t].at = "wait" /\ request[t].job = "remove"
ToBeOff(l) ==
  \/ ~Running
  \/ /\ l \notin muddled
     /\ (l \notin owed /\ Off(config, l)) \/ (l = Leg /\ (~leg \/ Forgetting))

(* Whoever is at work beside another is crossed.                           *)
Crossed == \A t \in Threads : Busy(t) /\ Others(t) # {} => t \in crossed

(* What a request that nobody crossed still wants on is on, and what it     *)
(* has found out about the leg is so.                                      *)
AsksWhatIsWanted(t) ==
  /\ \A job \in request[t].todo :
       job.as = "on" => config[job.line] = "on" /\ (job.line = Leg => leg)
  /\ request[t].at = "found" => leg
  /\ request[t].at = "missing" => ~leg
  /\ request[t].at = "raise" => config[Leg] = "on"
AskedRightly == \A t \in Threads : Busy(t) /\ t \notin crossed => AsksWhatIsWanted(t)

(* Nothing but the leg is removed; who is not at work has nothing to ask.  *)
InOrder(r) ==
  /\ \A job \in r.todo : job.do = "remove" => job.line = Leg /\ job.as = "absent"
  /\ r.at \in {"free", "apply"} => r.todo = {}
  /\ r.job = "remove" => r.at = "wait"
Orderly == \A t \in Threads : InOrder(request[t])

(* A callback is at work for a line that has an account, and what an       *)
(* account is made for is to keep what was reported.                       *)
AtWork ==
  /\ library.at = "use" => \E o \in Objects : live[o] = library.line
  /\ runner.keep = runner.add
  /\ runner.at \in {"create", "enter"} => runner.add
  /\ runner.at = "rest" => runner.line = Nothing

OffInv ==
  /\ LifeInv /\ AtWork /\ Crossed /\ AskedRightly /\ Orderly
  /\ \A l \in Lines : ToBeOff(l) => LastWordOff(l)

LEMMA OffInit == ASSUME LifeAssumption, Init PROVE OffInv
<1> USE DEF Init, Resting, Idle
<1>1. LifeInv
  BY LifeInit
<1>2. AtWork
  BY DEF AtWork
<1>3. ASSUME NEW t \in Threads PROVE ~Busy(t) /\ InOrder(request[t])
  BY DEF Busy, InOrder, At, Free
<1>4. Crossed /\ AskedRightly /\ Orderly
  BY <1>3 DEF Crossed, AskedRightly, Orderly
<1>5. \A l \in Lines : LastWordOff(l)
  BY DEF LastWordOff, NoneQueued, Gone, LifeAssumption
<1> QED
  BY <1>1, <1>2, <1>4, <1>5 DEF OffInv

(* The library's steps disturb no line without an account.                 *)
LEMMA AtWorkKept ==
  ASSUME LifeAssumption, LifeInv, AtWork, [Next]_vars PROVE AtWork'
<1> USE DEF LibraryFree, registry, manager, told, engine
<1>t. TypeOK
  BY DEF LifeInv
<1>1. ASSUME UNCHANGED <<library, live>>,
             \/ runner' = runner
             \/ runner'.at = runner.at /\ runner'.line = runner.line
                /\ runner'.add = runner.add /\ runner'.keep = runner.keep
             \/ runner' = Resting
      PROVE  AtWork'
  <2>1. library' = library /\ live' = live
    BY <1>1
  <2>2. library'.at = "use" => \E o \in Objects : live'[o] = library'.line
    BY <2>1, Zenon DEF AtWork
  <2>3. CASE runner' = Resting
    BY <2>2, <2>3 DEF AtWork, Resting
  <2>4. CASE runner'.at = runner.at /\ runner'.line = runner.line
             /\ runner'.add = runner.add /\ runner'.keep = runner.keep
    BY <2>2, <2>4 DEF AtWork
  <2> QED
    BY <1>1, <2>3, <2>4
<1>2. ASSUME NEW w \in Threads, GiveUp(w) PROVE AtWork'
  <2>1. /\ runner'.at = runner.at /\ runner'.line = runner.line
        /\ runner'.add = runner.add /\ runner'.keep = runner.keep
    BY <1>t, <1>2 DEF GiveUp, TypeOK
  <2> QED
    BY <1>1, <1>2, <2>1 DEF GiveUp
<1>3. ASSUME RunnerStep PROVE AtWork'
  <2>1. ASSUME Release PROVE AtWork'
    <3>1. library' = library /\ runner' = [runner EXCEPT !.at = "forget"]
      BY <2>1 DEF Release
    <3>2. ASSUME library.at = "use" PROVE live' = live
      BY <2>1, <3>2 DEF Release
    <3> QED
      BY <1>t, <3>1, <3>2 DEF AtWork, TypeOK
  <2>2. ASSUME RunLine PROVE AtWork'
    BY <1>t, <2>2 DEF RunLine, AtWork
  <2>3. ASSUME Forget PROVE AtWork'
    <3>1. UNCHANGED <<library, live>>
      BY <2>3 DEF Forget
    <3>2. CASE runner.add
      <4>1. /\ runner'.at = "create" /\ runner'.add = runner.add
            /\ runner'.keep = runner.keep
        BY <1>t, <2>3, <3>2, ZenonT(60) DEF Forget, TypeOK
      <4> QED
        BY <3>1, <3>2, <4>1 DEF AtWork
    <3>3. CASE ~runner.add
      BY <2>3, <3>1, <3>3, <1>1 DEF Forget
    <3> QED
      BY <3>2, <3>3
  <2>4. ASSUME NEW o \in Objects, Create(o) PROVE AtWork'
    <3>1. library'.at = "idle" /\ runner' = [runner EXCEPT !.at = "enter", !.object = o]
          /\ runner.at = "create"
      BY <2>4 DEF Create
    <3> QED
      BY <1>t, <3>1 DEF AtWork, TypeOK
  <2>5. ASSUME CreateFails \/ Enter \/ RefuseLine PROVE AtWork'
    BY <2>5, <1>1 DEF CreateFails, Enter, RefuseLine
  <2> QED
    BY <1>3, <2>1, <2>2, <2>3, <2>4, <2>5 DEF RunnerStep
<1>4. ASSUME LibraryStep PROVE AtWork'
  <2>1. UNCHANGED <<runner, live>>
    BY <1>4 DEF LibraryStep, RegState, Report
  <2>2. library'.at = "use" => \E o \in Objects : live[o] = library'.line
    BY <1>4 DEF LibraryStep, RegState, Report, Idle
  <2> QED
    BY <2>1, <2>2 DEF AtWork
<1>5. ASSUME ManagerStep, ~\E t \in Threads : GiveUp(t) PROVE AtWork'
  BY <1>1, <1>5 DEF ManagerStep, Post, UpdateLine, UpdateConference, RequestStep, TakeLines,
     ApplyFails, LookUpLeg, DropLeg, NoLeg, KeepLeg, WantLeg, RaiseLeg, AskInVain, AskEngine,
     EraseLeg
<1>6. ASSUME UNCHANGED vars PROVE AtWork'
  BY <1>1, <1>6 DEF vars
<1> QED
  BY <1>2, <1>3, <1>4, <1>5, <1>6 DEF Next, ManagerStep

-----------------------------------------------------------------------------
(* Who gets in whose way. One thread moves: it begins, and crosses those at *)
(* work; or changes config_ before it does; or goes on or ends.            *)
Moves(u) ==
  \/ ~Busy(u) /\ Begins(u)
  \/ ~Busy(u) /\ ~Busy(u)' /\ crossed' = crossed \cup Others(u)
  \/ /\ Busy(u)' => Busy(u)
     /\ crossed' = crossed \/ (crossed' = crossed \ {u} /\ ~Busy(u)')
     /\ Busy(u) \/ (config' = config /\ (leg' <=> leg))

LEMMA OneMoves ==
  ASSUME TypeOK, Crossed, AskedRightly, Orderly,
         NEW u \in Threads, NEW r \in Requests, request' = [request EXCEPT ![u] = r],
         InOrder(r), Moves(u), Busy(u)' /\ u \notin crossed' => AsksWhatIsWanted(u)'
  PROVE  Crossed' /\ AskedRightly' /\ Orderly'
<1>1. request'[u] = r /\ \A v \in Threads \ {u} : request'[v] = request[v]
  BY DEF TypeOK
<1>2. \A v \in Threads \ {u} : Busy(v)' <=> Busy(v)
  BY <1>1 DEF Busy
<1>3. ASSUME NEW t \in Threads, Busy(t)', Others(t)' # {} PROVE t \in crossed'
  <2>1. CASE ~Busy(u) /\ Begins(u)
    BY <1>2, <1>3, <2>1 DEF Begins, Others
  <2>2. CASE ~Busy(u) /\ ~Busy(u)' /\ crossed' = crossed \cup Others(u)
    BY <1>2, <1>3, <2>2 DEF Others
  <2>3. CASE /\ Busy(u)' => Busy(u)
             /\ crossed' = crossed \/ (crossed' = crossed \ {u} /\ ~Busy(u)')
    <3>1. Busy(t) /\ Others(t) # {}
      BY <1>2, <1>3, <2>3 DEF Others
    <3> QED
      BY <1>3, <2>3, <3>1 DEF Crossed
  <2> QED
    BY <2>1, <2>2, <2>3 DEF Moves
<1>4. ASSUME NEW t \in Threads \ {u}, Busy(t)', t \notin crossed' PROVE AsksWhatIsWanted(t)'
  <2>1. Busy(t) /\ t \in Others(u)
    BY <1>2, <1>4 DEF Others
  <2>2. ~(~Busy(u) /\ Begins(u))
    BY <1>4, <2>1 DEF Begins
  <2>3. t \notin crossed
    BY <1>4, <2>1, <2>2 DEF Moves
  <2>4. ~Busy(u)
    BY <2>1, <2>3 DEF Crossed, Others
  <2>5. config' = config /\ (leg' <=> leg)
    BY <1>4, <2>1, <2>2, <2>4 DEF Moves
  <2>6. AsksWhatIsWanted(t)
    BY <2>1, <2>3 DEF AskedRightly
  <2> QED
    BY <1>1, <2>5, <2>6 DEF AsksWhatIsWanted
<1>5. Orderly'
  BY <1>1 DEF Orderly
<1> QED
  BY <1>3, <1>4, <1>5 DEF Crossed, AskedRightly

(* Going on: what is left was asked for before.                            *)
LEMMA GoingOn ==
  ASSUME TypeOK, Crossed, AskedRightly, Orderly,
         NEW u \in Threads, NEW job, NEW todo \in SUBSET request[u].todo,
         GoesOn(u, job, todo), job = "remove" => Busy(u),
         config' = config, leg' <=> leg
  PROVE  Crossed' /\ AskedRightly' /\ Orderly'
<1>1. InOrder(request[u]) /\ todo \in SUBSET Jobs
  BY DEF Orderly, TypeOK, Requests
<1>2. ASSUME NEW r \in Requests, request' = [request EXCEPT ![u] = r], r.job = "none",
             \/ r.todo = {} /\ r.at = "erase" /\ Busy(u) /\ crossed' = crossed
             \/ r.todo = {} /\ r.at = "free" /\ crossed' = crossed \ {u}
             \/ r.todo = todo /\ todo # {} /\ r.at = "ask" /\ crossed' = crossed
      PROVE  Crossed' /\ AskedRightly' /\ Orderly'
  <2>1. request'[u] = r
    BY <1>2 DEF TypeOK
  <2>2. InOrder(r)
    BY <1>1, <1>2 DEF InOrder
  <2>3. todo # {} => Busy(u)
    BY <1>1 DEF InOrder, Busy
  <2>4. Moves(u)
    BY <1>2, <2>1, <2>3 DEF Moves, Busy
  <2>5. ASSUME Busy(u)', u \notin crossed' PROVE AsksWhatIsWanted(u)'
    <3>1. Busy(u) /\ u \notin crossed
      BY <1>2, <2>1, <2>3, <2>5 DEF Busy
    <3>2. AsksWhatIsWanted(u)
      BY <3>1 DEF AskedRightly
    <3> QED
      BY <1>2, <2>1, <3>2 DEF AsksWhatIsWanted
  <2> QED
    BY <1>2, <2>2, <2>4, <2>5, OneMoves
<1>3. CASE job = "remove"
  <2>1. At("erase") \in Requests /\ At("erase").todo = {} /\ At("erase").at = "erase"
        /\ At("erase").job = "none"
    BY RequestsTyped DEF At, Places
  <2> QED
    BY <1>2, <1>3, <2>1 DEF GoesOn
<1>4. CASE job # "remove" /\ todo = {}
  <2>1. Free \in Requests /\ Free.todo = {} /\ Free.at = "free" /\ Free.job = "none"
    BY RequestsTyped DEF Free, At
  <2> QED
    BY <1>2, <1>4, <2>1 DEF GoesOn, Ends
<1>5. CASE job # "remove" /\ todo # {}
  <2>1. Asking(todo) \in Requests /\ Asking(todo).todo = todo /\ Asking(todo).at = "ask"
        /\ Asking(todo).job = "none"
    BY <1>1, RequestsTyped DEF Asking
  <2> QED
    BY <1>2, <1>5, <2>1 DEF GoesOn
<1> QED
  BY <1>3, <1>4, <1>5

(* What a request asks next, alone, is what config_ says.                  *)
LEMMA ManagerAsks ==
  ASSUME LifeAssumption, TypeOK, Crossed, AskedRightly, Orderly, ManagerStep
  PROVE  Crossed' /\ AskedRightly' /\ Orderly'
<1> USE DEF manager, told
<1>w. Workers \subseteq Threads
  BY DEF Threads
<1>c. config \in [Lines -> Wishes] /\ config[Leg] \in {"absent", "on"} /\ Leg \in Lines
  BY DEF TypeOK, LifeAssumption
<1>m. ASSUME NEW t \in Threads, NEW r \in Requests, request' = [request EXCEPT ![t] = r],
             InOrder(r), Moves(t),
             /\ \A job \in r.todo :
                  job.as = "on" => config'[job.line] = "on" /\ (job.line = Leg => leg')
             /\ t \notin crossed' =>
                  /\ r.at = "found" => leg'
                  /\ r.at = "missing" => ~leg'
                  /\ r.at = "raise" => config'[Leg] = "on"
      PROVE  Crossed' /\ AskedRightly' /\ Orderly'
  <2>1. request'[t] = r
    BY <1>m DEF TypeOK
  <2>2. Busy(t)' /\ t \notin crossed' => AsksWhatIsWanted(t)'
    BY <1>m, <2>1 DEF AsksWhatIsWanted
  <2> QED
    BY <1>m, <2>2, OneMoves
<1>a. ASSUME NEW l \in Lines, NEW c \in Wishes, NEW do \in {"add", "remove"},
             do = "remove" => l = Leg /\ c = "absent"
      PROVE  LET r == Asking({Ask(do, l, c)}) IN
               /\ r \in Requests /\ InOrder(r) /\ r.at = "ask"
               /\ \A job \in r.todo : job.line = l /\ job.as = c
  <2>1. {Ask(do, l, c)} \in SUBSET Jobs
    BY AskTyped
  <2>2. Asking({Ask(do, l, c)}) \in Requests
    BY <2>1, RequestsTyped
  <2> QED
    BY <1>a, <2>2 DEF Asking, InOrder, Ask
<1>l. LET r == Asking({TheLeg}) IN
        r \in Requests /\ InOrder(r) /\ r.at = "ask" /\ \A job \in r.todo : job.as = "absent"
  <2>1. {TheLeg} \in SUBSET Jobs
    BY <1>c, AskTyped DEF TheLeg, Wishes
  <2>2. Asking({TheLeg}) \in Requests
    BY <2>1, RequestsTyped
  <2> QED
    BY <2>2 DEF Asking, InOrder, Ask, TheLeg
<1>p. ASSUME NEW place \in Places
      PROVE  /\ At(place) \in Requests /\ InOrder(At(place))
             /\ At(place).at = place /\ At(place).todo = {}
  BY RequestsTyped DEF At, InOrder
<1>1. ASSUME NEW w \in Workers, NEW doc \in Documents, Post(w, doc)
      PROVE  Crossed' /\ AskedRightly' /\ Orderly'
  <2>1. /\ request' = [request EXCEPT ![w] = At("apply")] /\ request[w].at = "free"
        /\ crossed' = crossed \cup Others(w)
    BY <1>1 DEF Post
  <2>2. "apply" \in Places
    BY DEF Places
  <2>3. Moves(w)
    BY <1>w, <2>1, <2>2, <1>p DEF Moves, Busy, TypeOK
  <2> QED
    BY <1>w, <1>m, <1>p, <2>1, <2>2, <2>3
<1>2. ASSUME NEW t \in Threads, TakeLines(t) PROVE Crossed' /\ AskedRightly' /\ Orderly'
  <2> DEFINE r == Asking(Plan(config))
  <2>1. r \in Requests
    <3>1. Plan(config) \in SUBSET Jobs
      BY PlanTyped DEF TypeOK
    <3> QED
      BY <3>1, RequestsTyped
  <2>2. r.at = "ask" /\ r.todo = Plan(config) /\ r.job = "none"
    BY DEF Asking
  <2>3. \A job \in Plan(config) :
          job.do # "remove" /\ (job.as = "on" => job.line # Leg /\ config[job.line] = "on")
    BY DEF Plan, TheLeg, Ask
  <2>4. /\ request' = [request EXCEPT ![t] = r] /\ request[t].at = "apply"
        /\ Begins(t) /\ config' = config
    BY <1>2 DEF TakeLines
  <2>5. InOrder(r) /\ Moves(t)
    BY <2>2, <2>3, <2>4 DEF InOrder, Moves, Busy
  <2> HIDE DEF r
  <2> QED
    BY <1>m, <2>1, <2>2, <2>3, <2>4, <2>5
<1>3. ASSUME NEW t \in Threads, ApplyFails(t) PROVE Crossed' /\ AskedRightly' /\ Orderly'
  <2>1. /\ request' = [request EXCEPT ![t] = Free] /\ request[t].at = "apply"
        /\ UNCHANGED <<config, leg, crossed>>
    BY <1>3 DEF ApplyFails
  <2>2. Free = At("free") /\ "free" \in Places
    BY DEF Free, Places
  <2>3. Moves(t)
    BY <2>1, <2>2, <1>p DEF Moves, Busy, TypeOK
  <2> QED
    BY <1>m, <1>p, <2>1, <2>2, <2>3
<1>4. ASSUME NEW w \in Workers, NEW l \in Lines, NEW c \in Wishes, UpdateLine(w, l, c)
      PROVE  Crossed' /\ AskedRightly' /\ Orderly'
  <2> DEFINE r == Asking({Ask("add", l, c)})
  <2>1. /\ request' = [request EXCEPT ![w] = r] /\ request[w].at = "free"
        /\ config'[l] = c /\ l # Leg /\ Begins(w)
    BY <1>4, <1>c DEF UpdateLine
  <2>2. Moves(w)
    BY <2>1 DEF Moves, Busy
  <2>3. /\ r \in Requests /\ InOrder(r) /\ r.at = "ask"
        /\ \A job \in r.todo : job.line = l /\ job.as = c
    BY <1>a
  <2> HIDE DEF r
  <2> QED
    BY <1>w, <1>m, <2>1, <2>2, <2>3
<1>5. ASSUME NEW w \in Workers, NEW c \in {"absent", "on"}, UpdateConference(w, c)
      PROVE  Crossed' /\ AskedRightly' /\ Orderly'
  <2> DEFINE r == Asking({TheLeg})
  <2>1. /\ request' = [request EXCEPT ![w] = r] /\ request[w].at = "free" /\ Begins(w)
    BY <1>5 DEF UpdateConference
  <2>2. Moves(w)
    BY <2>1 DEF Moves, Busy
  <2>3. r \in Requests /\ InOrder(r) /\ r.at = "ask" /\ \A job \in r.todo : job.as = "absent"
    BY <1>l
  <2> HIDE DEF r
  <2> QED
    BY <1>w, <1>m, <2>1, <2>2, <2>3
<1>6. ASSUME NEW t \in Threads, LookUpLeg(t) PROVE Crossed' /\ AskedRightly' /\ Orderly'
  <2> DEFINE place == IF leg THEN "found" ELSE "missing"
  <2>1. /\ request' = [request EXCEPT ![t] = At(place)] /\ request[t].at = "ask"
        /\ crossed' = crossed /\ config' = config /\ (leg' <=> leg)
    BY <1>6 DEF LookUpLeg
  <2>2. place \in Places /\ (place = "found" => leg) /\ (place = "missing" => ~leg)
        /\ place # "raise"
    BY DEF Places
  <2>3. Moves(t)
    BY <2>1 DEF Moves, Busy
  <2> HIDE DEF place
  <2> QED
    BY <1>m, <1>p, <2>1, <2>2, <2>3
<1>7. ASSUME NEW t \in Threads, DropLeg(t) PROVE Crossed' /\ AskedRightly' /\ Orderly'
  <2> DEFINE r == Asking({Ask("remove", Leg, "absent")})
  <2>1. /\ request' = [request EXCEPT ![t] = r] /\ request[t].at = "found"
        /\ crossed' = crossed /\ config' = config /\ (leg' <=> leg)
    BY <1>7 DEF DropLeg
  <2>2. Moves(t)
    BY <2>1 DEF Moves, Busy
  <2>3. /\ r \in Requests /\ InOrder(r) /\ r.at = "ask"
        /\ \A job \in r.todo : job.line = Leg /\ job.as = "absent"
    BY <1>a, <1>c DEF Wishes
  <2> HIDE DEF r
  <2> QED
    BY <1>m, <2>1, <2>2, <2>3
<1>8. ASSUME NEW t \in Threads, KeepLeg(t) \/ RaiseLeg(t), t \notin crossed
      PROVE  Crossed' /\ AskedRightly' /\ Orderly'
  <2> DEFINE r == Asking({Ask("add", Leg, "on")})
  <2>1. /\ request' = [request EXCEPT ![t] = r] /\ request[t].at \in {"found", "raise"}
        /\ crossed' = crossed /\ config' = config
    BY <1>8 DEF KeepLeg, RaiseLeg
  <2>2. Busy(t) /\ Moves(t)
    BY <2>1 DEF Moves, Busy
  <2>3. /\ r \in Requests /\ InOrder(r) /\ r.at = "ask"
        /\ \A job \in r.todo : job.line = Leg /\ job.as = "on"
    BY <1>a, <1>c DEF Wishes
  <2>4. AsksWhatIsWanted(t)
    BY <1>8, <2>2 DEF AskedRightly
  <2>5. config[Leg] = "on" /\ leg'
    BY <1>8, <1>c, <2>4 DEF KeepLeg, RaiseLeg, AsksWhatIsWanted
  <2> HIDE DEF r
  <2> QED
    BY <1>m, <2>1, <2>2, <2>3, <2>5
<1>9. ASSUME NEW t \in Threads, KeepLeg(t) \/ RaiseLeg(t), t \in crossed
      PROVE  Crossed' /\ AskedRightly' /\ Orderly'
  <2> DEFINE r == Asking({Ask("add", Leg, "on")})
  <2>1. /\ request' = [request EXCEPT ![t] = r] /\ request[t].at \in {"found", "raise"}
        /\ crossed' = crossed
    BY <1>9 DEF KeepLeg, RaiseLeg
  <2>2. Busy(t) /\ Moves(t)
    BY <2>1 DEF Moves, Busy
  <2>3. r \in Requests /\ InOrder(r)
    BY <1>a, <1>c DEF Wishes
  <2> HIDE DEF r
  <2> QED
    BY <1>9, <2>1, <2>2, <2>3, OneMoves
<1>10. ASSUME NEW t \in Threads, WantLeg(t) PROVE Crossed' /\ AskedRightly' /\ Orderly'
  <2>1. /\ request' = [request EXCEPT ![t] = At("raise")] /\ request[t].at = "missing"
        /\ crossed' = crossed /\ config' = config /\ (leg' <=> leg) /\ config[Leg] = "on"
    BY <1>c, <1>10 DEF WantLeg
  <2>2. "raise" \in Places
    BY DEF Places
  <2>3. Moves(t)
    BY <2>1 DEF Moves, Busy
  <2> QED
    BY <1>m, <1>p, <2>1, <2>2, <2>3
<1>11. ASSUME NEW t \in Threads, NoLeg(t) \/ EraseLeg(t)
       PROVE  Crossed' /\ AskedRightly' /\ Orderly'
  <2>1. /\ request' = [request EXCEPT ![t] = Free] /\ request[t].at \in {"missing", "erase"}
        /\ crossed' = crossed \ {t}
    BY <1>11 DEF NoLeg, EraseLeg, Ends
  <2>2. Free = At("free") /\ "free" \in Places
    BY DEF Free, Places
  <2>3. Moves(t) /\ request'[t].at = "free"
    BY <2>1, <2>2, <1>p DEF Moves, Busy, TypeOK
  <2>4. ~Busy(t)'
    BY <2>3 DEF Busy
  <2> QED
    BY <1>p, <2>1, <2>2, <2>3, <2>4, OneMoves
<1>12. ASSUME NEW t \in Threads, NEW job \in request[t].todo, AskInVain(t, job)
       PROVE  Crossed' /\ AskedRightly' /\ Orderly'
  <2>1. /\ GoesOn(t, job.do, request[t].todo \ {job}) /\ request[t].at = "ask"
        /\ config' = config /\ (leg' <=> leg)
    BY <1>12 DEF AskInVain, NextJob
  <2>2. Busy(t) /\ request[t].todo \ {job} \in SUBSET request[t].todo
    BY <2>1 DEF Busy
  <2> QED
    BY <2>1, <2>2, GoingOn
<1>13. ASSUME NEW t \in Threads, NEW job \in request[t].todo, AskEngine(t, job)
       PROVE  Crossed' /\ AskedRightly' /\ Orderly'
  <2>1. job \in Jobs /\ request[t].todo \in SUBSET Jobs
    BY DEF TypeOK, Requests
  <2>2. PICK r : /\ r = [at |-> "wait", todo |-> request[t].todo \ {job}, job |-> job.do]
                 /\ request' = [request EXCEPT ![t] = r]
    BY <1>13 DEF AskEngine
  <2>3. /\ request[t].at = "ask" /\ job.do # "leg"
        /\ crossed' = crossed /\ config' = config /\ (leg' <=> leg)
    BY <1>13 DEF AskEngine, NextJob
  <2>4. r \in Requests
    BY <2>1, <2>2, <2>3 DEF Requests, Places, Jobs
  <2>5. Busy(t) /\ Moves(t)
    BY <2>3 DEF Busy, Moves
  <2>6. InOrder(r)
    BY <2>2 DEF Orderly, InOrder
  <2>7. ASSUME t \notin crossed' PROVE AsksWhatIsWanted(t)'
    <3>1. AsksWhatIsWanted(t) /\ request'[t] = r
      BY <2>2, <2>3, <2>5, <2>7 DEF AskedRightly, TypeOK
    <3> QED
      BY <2>2, <2>3, <3>1 DEF AsksWhatIsWanted
  <2> QED
    BY <2>2, <2>4, <2>5, <2>6, <2>7, OneMoves
<1>14. ASSUME NEW t \in Threads, GiveUp(t) PROVE Crossed' /\ AskedRightly' /\ Orderly'
  <2>1. /\ GoesOn(t, request[t].job, request[t].todo) /\ request[t].at = "wait"
        /\ config' = config /\ (leg' <=> leg)
    BY <1>14 DEF GiveUp
  <2>2. Busy(t) /\ request[t].todo \in SUBSET request[t].todo
    BY <2>1 DEF Busy
  <2> QED
    BY <2>1, <2>2, GoingOn
<1> QED
  BY <1>1, <1>2, <1>3, <1>4, <1>5, <1>6, <1>7, <1>8, <1>9, <1>10, <1>11, <1>12, <1>13, <1>14
     DEF ManagerStep, RequestStep

(* The runner lets a request go on; the library's thread lets none.        *)
LEMMA OthersAsk ==
  ASSUME LifeAssumption, TypeOK, Crossed, AskedRightly, Orderly,
         RunnerStep \/ LibraryStep \/ UNCHANGED vars
  PROVE  Crossed' /\ AskedRightly' /\ Orderly'
<1> USE DEF manager, told
<1>0. config' = config /\ (leg' <=> leg)
  <2>1. UNCHANGED told
    BY DEF RunnerStep, LibraryStep, RefuseLine, RunLine, Release, Forget, Create, CreateFails,
           Enter, RegState, Report, vars
  <2> QED
    BY <2>1
<1>1. ASSUME UNCHANGED <<request, crossed>> PROVE Crossed' /\ AskedRightly' /\ Orderly'
  BY <1>0, <1>1 DEF Crossed, AskedRightly, AsksWhatIsWanted, Orderly, Busy, Others
<1>2. ASSUME NEW t, Answer(t), t \in Threads \cup {Nothing}
      PROVE  Crossed' /\ AskedRightly' /\ Orderly'
  <2>1. CASE t = Nothing
    BY <1>1, <1>2, <2>1 DEF Answer
  <2>2. CASE t # Nothing
    <3>1. GoesOn(t, request[t].job, request[t].todo) /\ t \in Threads
      BY <1>2, <2>2 DEF Answer
    <3>2. request[t].job = "remove" => Busy(t)
      BY <3>1 DEF Orderly, InOrder, Busy
    <3>3. request[t].todo \in SUBSET request[t].todo
      OBVIOUS
    <3> QED
      BY <1>0, <3>1, <3>2, <3>3, GoingOn
  <2> QED
    BY <2>1, <2>2
<1>3. \/ UNCHANGED <<request, crossed>>
      \/ Answer(runner.by)
      \/ queue # << >> /\ Answer(Head(queue).by)
  BY DEF RunnerStep, LibraryStep, RefuseLine, RunLine, Release, Forget, Create, CreateFails,
         Enter, RegState, Report, vars
<1>4. runner.by \in Threads \cup {Nothing}
  BY DEF TypeOK
<1>5. queue # << >> => Head(queue).by \in Threads \cup {Nothing}
  <2>1. queue # << >> => Head(queue) \in Jobs
    BY HeadTailProperties DEF TypeOK
  <2> QED
    BY <2>1 DEF Jobs
<1> QED
  BY <1>1, <1>2, <1>3, <1>4, <1>5

-----------------------------------------------------------------------------
(* A step that takes nothing from the queue and leaves a line that is gone *)
(* alone leaves the last word with the same job.                           *)
LEMMA Undisturbed ==
  ASSUME NEW l \in Lines, LastWordOff(l),
         Len(queue') = Len(queue),
         \A i \in 1 .. Len(queue) : queue'[i].line = queue[i].line /\ queue'[i].as = queue[i].as,
         runner'.line = runner.line, runner'.add = runner.add,
         Gone(l) /\ runner.line # l => Gone(l)'
  PROVE  LastWordOff(l)'
<1>1. \A i \in 1 .. Len(queue) : /\ Decides(queue'[i], l) <=> Decides(queue[i], l)
                                 /\ SwitchesOff(queue'[i]) <=> SwitchesOff(queue[i])
  BY DEF Decides, SwitchesOff
<1>2. NoneQueued(l)' <=> NoneQueued(l)
  BY <1>1 DEF NoneQueued, Decides
<1> QED
  BY <1>1, <1>2 DEF LastWordOff, Decides, SwitchesOff

(* A job that is taken: if it was the last about the line, it ends it.     *)
LEMMA Taken ==
  ASSUME NEW l \in Lines, LastWordOff(l), queue \in Seq(Jobs), queue # << >>,
         queue' = Tail(queue)
  PROVE  /\ \A i \in 1 .. Len(queue') :
              Decides(queue'[i], l) /\ (\A j \in i + 1 .. Len(queue') : ~Decides(queue'[j], l))
                => SwitchesOff(queue'[i])
         /\ NoneQueued(l)' /\ Decides(Head(queue), l) => SwitchesOff(Head(queue))
         /\ NoneQueued(l)' /\ ~Decides(Head(queue), l) => NoneQueued(l)
<1>1. /\ Len(queue) \in Nat /\ Len(queue) >= 1
      /\ Len(queue') = Len(queue) - 1 /\ Head(queue) = queue[1]
      /\ \A i \in 1 .. Len(queue') : queue'[i] = queue[i + 1]
  BY HeadTailProperties, LenProperties, EmptySeq
<1>2. \A i \in 2 .. Len(queue) : i - 1 \in 1 .. Len(queue') /\ queue[i] = queue'[i - 1]
  BY <1>1
<1>3. ASSUME NEW i \in 1 .. Len(queue'), Decides(queue'[i], l),
             \A j \in i + 1 .. Len(queue') : ~Decides(queue'[j], l)
      PROVE  SwitchesOff(queue'[i])
  <2>1. i + 1 \in 1 .. Len(queue) /\ queue'[i] = queue[i + 1]
    BY <1>1
  <2>2. ASSUME NEW j \in i + 2 .. Len(queue) PROVE ~Decides(queue[j], l)
    <3>1. j - 1 \in i + 1 .. Len(queue') /\ queue[j] = queue'[j - 1]
      BY <1>1, <1>2
    <3> QED
      BY <1>3, <3>1
  <2>3. \A j \in (i + 1) + 1 .. Len(queue) : ~Decides(queue[j], l)
    BY <2>2
  <2> QED
    BY <1>3, <2>1, <2>3 DEF LastWordOff
<1>n. NoneQueued(l)' <=> \A i \in 1 .. Len(queue') : ~Decides(queue'[i], l)
  BY DEF NoneQueued, Decides
<1>4. ASSUME NoneQueued(l)', Decides(Head(queue), l) PROVE SwitchesOff(Head(queue))
  <2>1. ASSUME NEW j \in 1 + 1 .. Len(queue) PROVE ~Decides(queue[j], l)
    <3>1. j - 1 \in 1 .. Len(queue') /\ queue[j] = queue'[j - 1]
      BY <1>1, <1>2
    <3> QED
      BY <1>4, <1>n, <3>1
  <2> QED
    BY <1>1, <1>4, <2>1 DEF LastWordOff
<1>5. ASSUME NoneQueued(l)', ~Decides(Head(queue), l) PROVE NoneQueued(l)
  <2>1. ASSUME NEW i \in 1 .. Len(queue) PROVE ~Decides(queue[i], l)
    <3>1. CASE i = 1
      BY <1>1, <1>5, <3>1
    <3>2. CASE i # 1
      <4>1. i - 1 \in 1 .. Len(queue') /\ queue[i] = queue'[i - 1]
        BY <1>1, <1>2, <3>2
      <4> QED
        BY <1>5, <1>n, <4>1
    <3> QED
      BY <3>1, <3>2
  <2> QED
    BY <2>1 DEF NoneQueued
<1> QED
  BY <1>3, <1>4, <1>5

(* A job that is added: about the line, it is what config_ wants of it, or  *)
(* the line is muddled.                                                    *)
LEMMA Added ==
  ASSUME LifeAssumption, OffInv, NEW t \in Threads,
         NEW job \in request[t].todo, AskEngine(t, job),
         NEW l \in Lines, ToBeOff(l)'
  PROVE  LastWordOff(l)'
<1> DEFINE last == [job EXCEPT !.by = t]
<1>t. TypeOK /\ Crossed /\ AskedRightly /\ Orderly /\ (ToBeOff(l) => LastWordOff(l))
  BY DEF OffInv, LifeInv
<1>j. job \in Jobs /\ t # Nothing
  BY <1>t, LifeAssumption DEF TypeOK, Requests, LifeAssumption
<1>1. /\ Len(queue) \in Nat /\ Len(queue') = Len(queue) + 1
      /\ \A i \in 1 .. Len(queue) : queue'[i] = queue[i]
      /\ queue'[Len(queue) + 1] = last
  BY <1>t, <1>j, AppendProperties, LenProperties, JobFor DEF AskEngine, TypeOK
<1>2. last.line = job.line /\ last.as = job.as
  BY <1>j DEF Jobs
<1>3. UNCHANGED <<config, leg, runner, live, index, status>>
  BY DEF AskEngine, registry
<1>4. Gone(l)' <=> Gone(l)
  BY <1>3 DEF Gone
<1>n. NoneQueued(l)' <=> \A i \in 1 .. Len(queue') : ~Decides(queue'[i], l)
  BY DEF NoneQueued, Decides
<1>r. /\ request'[t].at = "wait" /\ request'[t].job = job.do
      /\ \A u \in Threads \ {t} : request'[u] = request[u]
  BY <1>t DEF AskEngine, TypeOK
<1>w. request[t].at = "ask" /\ Running
  BY DEF AskEngine, NextJob
<1>o. /\ l \notin muddled'
      /\ (l \notin owed' /\ Off(config, l)) \/ (l = Leg /\ (~leg \/ Forgetting'))
  <2>1. Running'
    <3>1. request[Main].at # "apply" /\ Main \in Threads
      BY <1>w DEF Running, Threads
    <3> QED
      BY <1>r, <3>1 DEF Running
  <2> QED
    BY <1>3, <2>1 DEF ToBeOff, Off
<1>5. CASE Decides(job, l)
  <2>1. t \notin crossed
    BY <1>o, <1>5 DEF AskEngine, Decides
  <2>2. Busy(t)
    BY <1>w DEF Busy
  <2>3. AsksWhatIsWanted(t) /\ Others(t) = {}
    BY <1>t, <2>1, <2>2 DEF AskedRightly, Crossed
  <2>4. SwitchesOff(job)
    <3> SUFFICES ASSUME job.as = "on" PROVE FALSE
      BY DEF SwitchesOff
    <3>1. config[l] = "on" /\ (l = Leg => leg)
      BY <1>5, <2>3 DEF AsksWhatIsWanted, Decides
    <3>2. Forgetting'
      BY <1>o, <3>1 DEF Off
    <3>3. PICK u \in Threads : \/ request'[u].at = "erase"
                               \/ request'[u].at = "wait" /\ request'[u].job = "remove"
      BY <3>2 DEF Forgetting
    <3>4. CASE u = t
      <4>1. job.do = "remove"
        BY <1>r, <3>3, <3>4
      <4> QED
        BY <1>t, <4>1 DEF Orderly, InOrder
    <3>5. CASE u # t
      <4>1. Busy(u)
        BY <1>r, <3>3, <3>5 DEF Busy
      <4> QED
        BY <2>3, <3>5, <4>1 DEF Others
    <3> QED
      BY <3>4, <3>5
  <2>5. SwitchesOff(last) /\ Decides(last, l)
    BY <1>2, <1>5, <2>4 DEF SwitchesOff, Decides
  <2>6. ~NoneQueued(l)'
    BY <1>1, <1>n, <2>5
  <2>7. ASSUME NEW i \in 1 .. Len(queue'),
               \A j \in i + 1 .. Len(queue') : ~Decides(queue'[j], l)
        PROVE  i = Len(queue) + 1
    BY <1>1, <2>5, <2>7
  <2>8. \A i \in 1 .. Len(queue') :
          Decides(queue'[i], l) /\ (\A j \in i + 1 .. Len(queue') : ~Decides(queue'[j], l))
            => SwitchesOff(queue'[i])
    BY <1>1, <2>5, <2>7
  <2> QED
    BY <2>6, <2>8 DEF LastWordOff, Decides, SwitchesOff
<1>6. CASE ~Decides(job, l)
  <2>0. l \notin muddled /\ (l \notin owed' => l \notin owed)
    BY <1>o, <1>6 DEF AskEngine, Decides
  <2>1. l = Leg /\ Forgetting' => Forgetting
    <3> SUFFICES ASSUME l = Leg, Forgetting' PROVE Forgetting
      OBVIOUS
    <3>1. PICK u \in Threads : \/ request'[u].at = "erase"
                               \/ request'[u].at = "wait" /\ request'[u].job = "remove"
      BY DEF Forgetting
    <3>2. u # t
      <4>1. job.do # "remove"
        BY <1>t, <1>6 DEF Orderly, InOrder, Decides
      <4> QED
        BY <1>r, <3>1, <4>1
    <3> QED
      BY <1>r, <3>1, <3>2 DEF Forgetting
  <2>2. LastWordOff(l)
    BY <1>t, <1>o, <2>0, <2>1 DEF ToBeOff
  <2>3. ~Decides(last, l)
    BY <1>2, <1>6 DEF Decides
  <2>4. NoneQueued(l)' <=> NoneQueued(l)
    BY <1>1, <1>n, <2>3 DEF NoneQueued
  <2>5. ASSUME NEW i \in 1 .. Len(queue'), Decides(queue'[i], l),
               \A j \in i + 1 .. Len(queue') : ~Decides(queue'[j], l)
        PROVE  SwitchesOff(queue'[i])
    <3>1. i \in 1 .. Len(queue) /\ queue'[i] = queue[i]
      BY <1>1, <2>3, <2>5
    <3>2. \A j \in i + 1 .. Len(queue) : ~Decides(queue[j], l)
      BY <1>1, <2>5
    <3> QED
      BY <2>2, <2>5, <3>1, <3>2 DEF LastWordOff
  <2> QED
    BY <1>3, <1>4, <2>2, <2>4, <2>5 DEF LastWordOff, Decides, SwitchesOff
<1> QED
  BY <1>5, <1>6

(* A thread moves that asks the engine nothing: unless it forgets the leg  *)
(* already, it is not about to.                                            *)
LEMMA WasToBeOff ==
  ASSUME LifeAssumption, TypeOK, NEW l \in Lines, ToBeOff(l)',
         NEW t \in Threads, NEW r, request' = [request EXCEPT ![t] = r],
         r.at # "apply" \/ t # Main, r.at # "wait",
         Running /\ r.at = "erase" => request[t].at = "wait" /\ request[t].job = "remove",
         muddled' = muddled,
         l \notin owed' /\ Off(config', l) => (l \notin owed /\ Off(config, l)) \/ (l = Leg /\ ~leg),
         ~leg' => ~leg \/ Forgetting
  PROVE  ToBeOff(l)
<1>1. request'[t] = r /\ \A u \in Threads \ {t} : request'[u] = request[u]
  BY DEF TypeOK
<1> SUFFICES ASSUME Running PROVE ToBeOff(l)
  BY DEF ToBeOff
<1>2. Running'
  <2>1. Main \in Threads /\ request[Main].at # "apply"
    BY DEF Running, Threads
  <2> QED
    BY <1>1, <2>1 DEF Running
<1>3. ASSUME Forgetting' PROVE Forgetting
  <2>1. PICK u \in Threads : \/ request'[u].at = "erase"
                             \/ request'[u].at = "wait" /\ request'[u].job = "remove"
    BY <1>3 DEF Forgetting
  <2> QED
    BY <1>1, <2>1 DEF Forgetting
<1>4. /\ l \notin muddled
      /\ (l \notin owed' /\ Off(config', l)) \/ (l = Leg /\ (~leg' \/ Forgetting'))
  BY <1>2 DEF ToBeOff, Off
<1> QED
  BY <1>3, <1>4 DEF ToBeOff

LEMMA WasToBeOffGoing ==
  ASSUME LifeAssumption, TypeOK, NEW l \in Lines, ToBeOff(l)',
         NEW t \in Threads, NEW job, NEW todo, GoesOn(t, job, todo),
         Running /\ job = "remove" => request[t].at = "wait" /\ request[t].job = "remove",
         UNCHANGED told
  PROVE  ToBeOff(l)
<1>1. /\ muddled' = muddled /\ owed' = owed /\ config' = config /\ (leg' <=> leg)
  BY DEF told
<1>2. ASSUME NEW r, request' = [request EXCEPT ![t] = r],
             r.at # "apply" /\ r.at # "wait" /\ (r.at = "erase" => job = "remove")
      PROVE  ToBeOff(l)
  BY <1>1, <1>2, WasToBeOff
<1>3. CASE job = "remove"
  <2>1. request' = [request EXCEPT ![t] = At("erase")] /\ At("erase").at = "erase"
    BY <1>3 DEF GoesOn, At
  <2> QED
    BY <1>2, <1>3, <2>1
<1>4. CASE job # "remove" /\ todo = {}
  <2>1. request' = [request EXCEPT ![t] = Free] /\ Free.at = "free"
    BY <1>4 DEF GoesOn, Ends, Free, At
  <2> QED
    BY <1>2, <2>1
<1>5. CASE job # "remove" /\ todo # {}
  <2>1. request' = [request EXCEPT ![t] = Asking(todo)] /\ Asking(todo).at = "ask"
    BY <1>5 DEF GoesOn, Asking
  <2> QED
    BY <1>2, <2>1
<1> QED
  BY <1>3, <1>4, <1>5

(* What the manager does beside asking the engine: a line that is to be    *)
(* off was to be off before, and nothing of it is touched.                 *)
LEMMA OffManager ==
  ASSUME LifeAssumption, OffInv, ManagerStep,
         ~\E t \in Threads : \E job \in request[t].todo : AskEngine(t, job),
         NEW l \in Lines, ToBeOff(l)'
  PROVE  LastWordOff(l)'
<1> USE DEF registry, engine, manager
<1>t. TypeOK /\ AskedRightly /\ (ToBeOff(l) => LastWordOff(l))
  BY DEF OffInv, LifeInv
<1>q. queue \in Seq(Jobs)
  BY <1>t DEF TypeOK
<1>w. Workers \subseteq Threads /\ \A w \in Workers : w # Main
  BY LifeAssumption DEF Threads, LifeAssumption
<1>c. config \in [Lines -> Wishes] /\ config[Leg] \in {"absent", "on"} /\ Leg \in Lines
  BY <1>t, LifeAssumption DEF TypeOK, LifeAssumption
<1>a. /\ \A place \in Places : At(place).at = place
      /\ \A todo : Asking(todo).at = "ask"
      /\ Free.at = "free"
  BY DEF At, Asking, Free
<1>1. ToBeOff(l)
  <2>1. ASSUME NEW w \in Workers, NEW doc \in Documents, Post(w, doc) PROVE ToBeOff(l)
    <3>1. /\ request' = [request EXCEPT ![w] = At("apply")]
          /\ muddled' = muddled /\ leg' = leg /\ config' = doc
          /\ owed' = {k \in Lines : Off(doc, k) /\ (k \in owed \/ ~Off(config, k))}
      BY <2>1 DEF Post
    <3>2. l \notin owed' /\ Off(config', l) => l \notin owed /\ Off(config, l)
      BY <3>1
    <3>3. At("apply").at = "apply"
      BY DEF At
    <3> QED
      BY <1>t, <1>w, <3>1, <3>2, <3>3, WasToBeOff
  <2>2. ASSUME NEW w \in Workers, NEW k \in Lines, NEW c \in Wishes, UpdateLine(w, k, c)
        PROVE  ToBeOff(l)
    <3>1. /\ request' = [request EXCEPT ![w] = Asking({Ask("add", k, c)})]
          /\ muddled' = muddled /\ leg' = leg
      BY <2>2 DEF UpdateLine
    <3>2. ASSUME l \notin owed', Off(config', l) PROVE l \notin owed /\ Off(config, l)
      <4>1. CASE l = k
        BY <1>c, <2>2, <3>2, <4>1 DEF UpdateLine, Off, Wishes
      <4>2. CASE l # k
        BY <1>c, <2>2, <3>2, <4>2 DEF UpdateLine, Off
      <4> QED
        BY <4>1, <4>2
    <3> QED
      BY <1>t, <1>w, <1>a, <3>1, <3>2, WasToBeOff
  <2>3. ASSUME NEW w \in Workers, NEW c \in {"absent", "on"}, UpdateConference(w, c)
        PROVE  ToBeOff(l)
    <3>1. /\ request' = [request EXCEPT ![w] = Asking({TheLeg})]
          /\ muddled' = muddled /\ leg' = leg
      BY <2>3 DEF UpdateConference
    <3>2. ASSUME l \notin owed', Off(config', l) PROVE l \notin owed /\ Off(config, l)
      <4>1. CASE l = Leg
        BY <1>c, <2>3, <3>2, <4>1 DEF UpdateConference, Off
      <4>2. CASE l # Leg
        BY <1>c, <2>3, <3>2, <4>2 DEF UpdateConference, Off
      <4> QED
        BY <4>1, <4>2
    <3> QED
      BY <1>t, <1>w, <1>a, <3>1, <3>2, WasToBeOff
  <2>4. ASSUME NEW t \in Threads,
               \/ TakeLines(t) \/ ApplyFails(t) \/ LookUpLeg(t) \/ DropLeg(t) \/ KeepLeg(t)
               \/ WantLeg(t) \/ RaiseLeg(t)
        PROVE  ToBeOff(l)
    <3>1. PICK r : /\ request' = [request EXCEPT ![t] = r]
                   /\ r.at \in {"free", "ask", "found", "missing", "raise"}
      BY <1>a, <2>4 DEF TakeLines, ApplyFails, LookUpLeg, DropLeg, KeepLeg, WantLeg, RaiseLeg, Places
    <3>2. muddled' = muddled /\ owed' = owed /\ config' = config /\ (~leg' => ~leg)
      BY <2>4 DEF TakeLines, ApplyFails, LookUpLeg, DropLeg, KeepLeg, WantLeg, RaiseLeg, told
    <3> QED
      BY <1>t, <3>1, <3>2, WasToBeOff
  <2>5. ASSUME NEW t \in Threads, NoLeg(t) PROVE ToBeOff(l)
    <3>1. /\ request' = [request EXCEPT ![t] = Free] /\ request[t].at = "missing"
          /\ muddled' = muddled /\ leg' = leg /\ config' = config
          /\ owed' = IF t \in crossed THEN owed ELSE owed \ {Leg}
      BY <2>5 DEF NoLeg, Ends
    <3>2. t \notin crossed => ~leg
      BY <1>t, <3>1 DEF AskedRightly, Busy, AsksWhatIsWanted
    <3>3. l \notin owed' /\ Off(config', l)
            => (l \notin owed /\ Off(config, l)) \/ (l = Leg /\ ~leg)
      BY <3>1, <3>2
    <3> QED
      BY <1>t, <1>a, <3>1, <3>3, WasToBeOff
  <2>6. ASSUME NEW t \in Threads, EraseLeg(t) PROVE ToBeOff(l)
    <3>1. /\ request' = [request EXCEPT ![t] = Free] /\ request[t].at = "erase"
          /\ muddled' = muddled /\ config' = config /\ owed' = owed
      BY <2>6 DEF EraseLeg, Ends
    <3>2. Forgetting
      BY <3>1 DEF Forgetting
    <3> QED
      BY <1>t, <1>a, <3>1, <3>2, WasToBeOff
  <2>7. ASSUME NEW t \in Threads, NEW job \in request[t].todo, AskInVain(t, job)
        PROVE  ToBeOff(l)
    BY <2>7 DEF AskInVain, ToBeOff
  <2>8. ASSUME NEW t \in Threads, GiveUp(t) PROVE ToBeOff(l)
    <3>1. /\ GoesOn(t, request[t].job, request[t].todo) /\ request[t].at = "wait"
          /\ UNCHANGED told
      BY <2>8 DEF GiveUp
    <3> QED
      BY <1>t, <3>1, WasToBeOffGoing
  <2> QED
    BY <2>1, <2>2, <2>3, <2>4, <2>5, <2>6, <2>7, <2>8 DEF ManagerStep, RequestStep
<1>2. UNCHANGED <<live, index, status>>
  BY ManagerKeeps, Zenon DEF ManagerStep, Post, UpdateLine, UpdateConference, RequestStep,
     TakeLines, ApplyFails, LookUpLeg, DropLeg, NoLeg, KeepLeg, WantLeg, RaiseLeg, AskInVain,
     GiveUp, EraseLeg
<1>3. Gone(l) => Gone(l)'
  BY <1>2 DEF Gone
<1>4. ASSUME NEW t \in Threads, GiveUp(t) PROVE LastWordOff(l)'
  <2>1. /\ Len(queue') = Len(queue)
        /\ \A i \in 1 .. Len(queue) :
              queue'[i] = IF queue[i].by = t THEN [queue[i] EXCEPT !.by = Nothing] ELSE queue[i]
    <3>1. queue' = [i \in 1 .. Len(queue) |->
                      IF queue[i].by = t THEN [queue[i] EXCEPT !.by = Nothing] ELSE queue[i]]
      BY <1>q, <1>4 DEF GiveUp
    <3>2. Len(queue) \in Nat
      BY <1>q
    <3>3. DOMAIN queue' = 1 .. Len(queue)
      BY <3>1
    <3>4. Len(queue') = Len(queue)
      BY <3>1, <3>2, <3>3, LenProperties
    <3> QED
      BY <3>1, <3>4
  <2>2. \A job \in Jobs : LET now == [job EXCEPT !.by = Nothing]
                          IN now.line = job.line /\ now.as = job.as
    BY DEF Jobs
  <2>3. \A i \in 1 .. Len(queue) :
          queue'[i].line = queue[i].line /\ queue'[i].as = queue[i].as
    <3>1. \A i \in 1 .. Len(queue) : queue[i] \in Jobs
      BY <1>q, ElementOfSeq
    <3> QED
      BY <2>1, <2>2, <3>1
  <2>4. runner'.line = runner.line /\ runner'.add = runner.add
    BY <1>t, <1>4 DEF GiveUp, TypeOK
  <2> QED
    BY <1>t, <1>1, <1>3, <2>1, <2>3, <2>4, Undisturbed
<1>5. CASE ~\E t \in Threads : GiveUp(t)
  <2>1. UNCHANGED <<queue, runner>>
    BY <1>5 DEF ManagerStep, Post, UpdateLine, UpdateConference, RequestStep, TakeLines,
           ApplyFails, LookUpLeg, DropLeg, NoLeg, KeepLeg, WantLeg, RaiseLeg, AskInVain, EraseLeg
  <2> QED
    BY <1>t, <1>1, <1>3, <2>1, Undisturbed
<1> QED
  BY <1>4, <1>5

(* The runner takes up the last job about a line and ends it there; a line *)
(* it is not at keeps what it has.                                         *)
LEMMA OffRunner ==
  ASSUME LifeAssumption, LifeInv, AtWork, RunnerStep,
         NEW l \in Lines, LastWordOff(l)
  PROVE  LastWordOff(l)'
<1> USE DEF registry, manager, told
<1>t. TypeOK /\ Held /\ Between /\ l # Nothing
  BY DEF LifeInv, LifeAssumption
<1>q. queue \in Seq(Jobs)
  BY <1>t DEF TypeOK
<1>1. ASSUME RefuseLine PROVE LastWordOff(l)'
  <2>1. UNCHANGED <<runner, live, index, status>> /\ queue # << >> /\ queue' = Tail(queue)
        /\ Head(queue).as = "on"
    BY <1>1 DEF RefuseLine
  <2>2. NoneQueued(l)' => NoneQueued(l)
    BY <1>q, <2>1, Taken DEF SwitchesOff
  <2>3. Gone(l)' <=> Gone(l)
    BY <2>1 DEF Gone
  <2> QED
    BY <1>q, <2>1, <2>2, <2>3, Taken DEF LastWordOff, Decides, SwitchesOff
<1>2. ASSUME RunLine PROVE LastWordOff(l)'
  <2>1. /\ UNCHANGED <<live, index, status>> /\ queue # << >> /\ queue' = Tail(queue)
        /\ runner'.line = Head(queue).line
        /\ (runner'.add <=> Head(queue).as = "on")
        /\ runner.line = Nothing
    BY <1>2 DEF RunLine, AtWork
  <2>2. Gone(l)' <=> Gone(l)
    BY <2>1 DEF Gone
  <2>3. ASSUME NoneQueued(l)', runner'.line = l PROVE ~runner'.add
    BY <1>q, <2>1, <2>3, Taken DEF Decides, SwitchesOff
  <2>4. ASSUME NoneQueued(l)', runner'.line # l PROVE Gone(l)
    <3>1. NoneQueued(l)
      BY <1>q, <2>1, <2>4, Taken DEF Decides
    <3> QED
      BY <1>t, <2>1, <3>1 DEF LastWordOff
  <2> QED
    BY <1>q, <2>1, <2>2, <2>3, <2>4, Taken DEF LastWordOff, Decides, SwitchesOff
<1>3. ASSUME Release PROVE LastWordOff(l)'
  <2>1. UNCHANGED <<queue, index, status>> /\ runner' = [runner EXCEPT !.at = "forget"]
        /\ \A o \in Objects : live'[o] \in {live[o], Nothing}
    BY <1>t, <1>3 DEF Release, TypeOK
  <2>2. Gone(l) => Gone(l)'
    BY <1>t, <2>1 DEF Gone
  <2>3. runner'.line = runner.line /\ runner'.add = runner.add
    BY <1>t, <2>1 DEF TypeOK
  <2> QED
    BY <2>1, <2>2, <2>3, Undisturbed
<1>4. ASSUME Forget PROVE LastWordOff(l)'
  <2>0. queue' = queue /\ live' = live /\ runner.line \in Lines /\ runner.at = "forget"
    BY <1>t, <1>4 DEF Forget, TypeOK
  <2>1. ASSUME runner.line # l, Gone(l) PROVE Gone(l)'
    BY <1>t, <1>4, <2>0, <2>1 DEF Forget, Gone, TypeOK
  <2>2. CASE runner.add
    <3>1. runner' = [runner EXCEPT !.at = "create"]
      BY <1>4, <2>2, Zenon DEF Forget
    <3>2. runner'.line = runner.line /\ runner'.add = runner.add
      BY <1>t, <3>1 DEF TypeOK
    <3> QED
      BY <2>0, <2>1, <3>2, Undisturbed
  <2>3. CASE ~runner.add
    <3>1. runner'.line = Nothing /\ runner.keep = FALSE
      BY <1>4, <2>3 DEF Forget, Resting, AtWork
    <3>2. ASSUME runner.line = l PROVE Gone(l)'
      <4>1. index'[l] = Nothing /\ status'[l] = "none"
        BY <1>t, <1>4, <3>1, <3>2 DEF Forget, TypeOK
      <4>2. \A o \in Objects : live[o] # l
        BY <1>t, <2>0, <3>2, LifeAssumption DEF Held, Between, LifeAssumption
      <4> QED
        BY <2>0, <4>1, <4>2 DEF Gone
    <3>3. NoneQueued(l)' => Gone(l)'
      BY <2>0, <2>1, <3>2 DEF LastWordOff, NoneQueued, Decides
    <3> QED
      BY <1>t, <2>0, <3>1, <3>3 DEF LastWordOff, NoneQueued, Decides, SwitchesOff
  <2> QED
    BY <2>2, <2>3
<1>5. ASSUME NEW o \in Objects, Create(o) PROVE LastWordOff(l)'
  <2>1. UNCHANGED <<queue, index, status>> /\ runner.line \in Lines
        /\ live' = [live EXCEPT ![o] = runner.line]
        /\ runner' = [runner EXCEPT !.at = "enter", !.object = o]
    BY <1>t, <1>5 DEF Create, TypeOK
  <2>2. ASSUME runner.line # l, Gone(l) PROVE Gone(l)'
    BY <1>t, <2>1, <2>2 DEF Gone, TypeOK
  <2>3. runner'.line = runner.line /\ runner'.add = runner.add
    BY <1>t, <2>1 DEF TypeOK
  <2> QED
    BY <2>1, <2>2, <2>3, Undisturbed
<1>6. ASSUME CreateFails \/ Enter PROVE LastWordOff(l)'
  <2>0. /\ queue' = queue /\ live' = live /\ runner' = Resting
        /\ runner.line \in Lines /\ runner.add
    BY <1>t, <1>6 DEF CreateFails, Enter, TypeOK, AtWork
  <2>1. ASSUME runner.line # l, Gone(l) PROVE Gone(l)'
    BY <1>t, <1>6, <2>0, <2>1 DEF CreateFails, Enter, Gone, TypeOK
  <2>2. NoneQueued(l)' => Gone(l)'
    BY <2>0, <2>1 DEF LastWordOff, NoneQueued, Decides
  <2>3. runner'.line = Nothing
    BY <2>0 DEF Resting
  <2> QED
    BY <1>t, <2>0, <2>2, <2>3 DEF LastWordOff, NoneQueued, Decides, SwitchesOff
<1> QED
  BY <1>1, <1>2, <1>3, <1>4, <1>5, <1>6 DEF RunnerStep

(* A report is of a line that has an account, which is not gone.           *)
LEMMA OffLibrary ==
  ASSUME LifeInv, AtWork, LibraryStep, NEW l \in Lines, LastWordOff(l)
  PROVE  LastWordOff(l)'
<1> USE DEF registry
<1>t. TypeOK
  BY DEF LifeInv
<1>1. UNCHANGED <<queue, runner, live, index>>
  BY DEF LibraryStep, RegState, Report
<1>2. Gone(l) => status'[l] = status[l]
  <2>1. ASSUME NEW outcome \in Outcomes, Report(outcome)
        PROVE  Gone(l) => status'[l] = status[l]
    <3>1. Gone(l) => library.line # l
      BY <2>1 DEF Report, AtWork, Gone
    <3> QED
      BY <1>t, <2>1, <3>1 DEF Report, TypeOK
  <2>2. CASE ~\E outcome \in Outcomes : Report(outcome)
    BY <2>2 DEF LibraryStep, RegState
  <2> QED
    BY <2>1, <2>2
<1>3. Gone(l) => Gone(l)'
  BY <1>1, <1>2 DEF Gone
<1> QED
  BY <1>1, <1>3, Undisturbed

LEMMA OffStep == ASSUME LifeAssumption, OffInv, [Next]_vars PROVE OffInv'
<1>i. /\ LifeInv /\ AtWork /\ Crossed /\ AskedRightly /\ Orderly /\ TypeOK
      /\ \A l \in Lines : ToBeOff(l) => LastWordOff(l)
  BY DEF OffInv, LifeInv
<1>n. ManagerStep \/ RunnerStep \/ LibraryStep \/ UNCHANGED vars
  BY DEF Next, ManagerStep
<1>1. LifeInv' /\ AtWork'
  BY <1>i, LifeStep, AtWorkKept
<1>2. Crossed' /\ AskedRightly' /\ Orderly'
  BY <1>i, <1>n, ManagerAsks, OthersAsk
<1>3. ASSUME NEW l \in Lines, ToBeOff(l)' PROVE LastWordOff(l)'
  <2>1. CASE ManagerStep
    <3>1. ASSUME NEW t \in Threads, NEW job \in request[t].todo, AskEngine(t, job)
          PROVE  LastWordOff(l)'
      BY <1>3, <3>1, Added
    <3> QED
      BY <1>3, <2>1, <3>1, OffManager
  <2>2. CASE RunnerStep
    <3>1. UNCHANGED told
      BY <2>2 DEF RunnerStep, RefuseLine, RunLine, Release, Forget, Create, CreateFails, Enter,
                  manager
    <3>2. ASSUME UNCHANGED request PROVE ToBeOff(l)
      BY <1>3, <3>1, <3>2 DEF told, ToBeOff, Forgetting, Running, Off
    <3>3. ASSUME NEW t, t \in Threads \cup {Nothing}, Answer(t) PROVE ToBeOff(l)
      <4>1. CASE t = Nothing
        BY <3>2, <3>3, <4>1 DEF Answer
      <4>2. CASE t # Nothing
        <5>1. t \in Threads /\ GoesOn(t, request[t].job, request[t].todo)
          BY <3>3, <4>2 DEF Answer
        <5>2. request[t].job = "remove" => request[t].at = "wait"
          BY <1>i, <5>1 DEF Orderly, InOrder
        <5> QED
          BY <1>i, <1>3, <3>1, <5>1, <5>2, WasToBeOffGoing
      <4> QED
        BY <4>1, <4>2
    <3>4. \/ UNCHANGED request
          \/ Answer(runner.by)
          \/ queue # << >> /\ Answer(Head(queue).by)
      BY <2>2 DEF RunnerStep, RefuseLine, RunLine, Release, Forget, Create, CreateFails, Enter
    <3>5. /\ runner.by \in Threads \cup {Nothing}
          /\ queue # << >> => Head(queue).by \in Threads \cup {Nothing}
      <4>1. queue # << >> => Head(queue) \in Jobs
        BY <1>i, HeadTailProperties DEF TypeOK
      <4> QED
        BY <1>i, <4>1 DEF TypeOK, Jobs
    <3>6. ToBeOff(l)
      BY <3>2, <3>3, <3>4, <3>5
    <3> QED
      BY <1>i, <2>2, <3>6, OffRunner
  <2>3. CASE LibraryStep
    <3>1. UNCHANGED <<told, request>>
      BY <2>3 DEF LibraryStep, RegState, Report, manager
    <3>2. ToBeOff(l)
      BY <1>3, <3>1 DEF told, ToBeOff, Forgetting, Running, Off
    <3> QED
      BY <1>i, <2>3, <3>2, OffLibrary
  <2>4. CASE UNCHANGED vars
    <3>1. ToBeOff(l) /\ (Gone(l) => Gone(l)') /\ UNCHANGED <<queue, runner>>
      BY <1>3, <2>4 DEF vars, manager, told, registry, ToBeOff, Forgetting, Running, Off, Gone
    <3> QED
      BY <1>i, <3>1, Undisturbed
  <2> QED
    BY <1>n, <2>1, <2>2, <2>3, <2>4
<1> QED
  BY <1>1, <1>2, <1>3 DEF OffInv

(* A line that config_ switches off is off once nothing is queued or at    *)
(* work for it (add_line with enabled false, remove_line), whoever gave up *)
(* waiting: the last of its jobs is one that ends it. Whatever the number  *)
(* of threads, and but for the two kinds of lines SwitchedOffIsOff names:  *)
(* those no request has handed over since they were switched off, and      *)
(* those handed over last by a request that was not alone.                 *)
THEOREM SwitchedOff == Spec => []SwitchedOffIsOff
<1>1. Init => OffInv
  BY LifeAssumption, OffInit
<1>2. OffInv /\ [Next]_vars => OffInv'
  BY LifeAssumption, OffStep
<1>3. OffInv => SwitchedOffIsOff
  <2> SUFFICES ASSUME OffInv, NEW l \in Lines \ muddled, Settled(l), Off(config, l)
               PROVE  Gone(l)
    BY DEF SwitchedOffIsOff, Gone
  <2>1. ToBeOff(l) /\ runner.line # l
    BY DEF Settled, ToBeOff
  <2>2. NoneQueued(l)
    BY DEF Settled, NoneQueued, Decides, OffInv, LifeInv, TypeOK
  <2> QED
    BY <2>1, <2>2 DEF OffInv, LastWordOff
<1> QED
  BY <1>1, <1>2, <1>3, PTL DEF Spec
=============================================================================
