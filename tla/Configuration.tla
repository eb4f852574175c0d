---------------------------- MODULE Configuration ----------------------------
(***************************************************************************)
(* How a configuration gets from a request into the file, the running      *)
(* gateway and the daemon: POST /api/config, the line and conference       *)
(* updates, restart, start up after a crash. HTTP workers and the main     *)
(* thread share the configuration object without a lock.                   *)
(***************************************************************************)
EXTENDS ConfigStore, SequencesExt

VARIABLES
  up,        \* whether the gateway runs
  config,    \* config_, the configuration object
  table,     \* the daemon: whose stream is under each id, by direction
  allocated, \* endpoint_stream_ids_
  leg,       \* whether lines_ has the conference leg
  registered, \* whether the engine has it, once its jobs are done
  settled,   \* whether the last apply had the leg to itself
  clashed,   \* threads in apply_conference that had another beside them
  applied    \* the document of the last apply, if that went through with
             \* nobody in its way, and whether it removed an endpoint

legVars == <<leg, registered, settled, clashed>>

vars == <<storeVars, work, up, config, table, allocated, legVars, applied>>

(* The daemon takes all that is put to it, and so does the engine.         *)
answers == "answers" \in around

Nothing == [e \in {} |-> 0]

Init ==
  /\ StoreInit
  /\ work = [t \in Threads |-> Resting]
  /\ up = FALSE
  /\ config = None
  /\ table = [way \in Directions |-> [i \in Ids |-> None]]
  /\ allocated = Nothing
  /\ leg = FALSE /\ registered = FALSE
  /\ settled = TRUE /\ clashed = {}
  /\ applied = None

-----------------------------------------------------------------------------
(* Requests. What a request asks for is a document: the configuration as   *)
(* the thread sees it, with the patch merged in.                           *)

Free(t) == up /\ t \in Workers /\ At(t, "idle")

Requested(t, request, document) ==
  [work EXCEPT ![t].at = "open", ![t].request = request, ![t].document = document]

(* work after t has no further use for its document.                       *)
Done(t, place) == [work EXCEPT ![t] = [Resting EXCEPT !.at = place]]

Applying(t) == work[t].at \in {"lines", "endpoints"}

(* work after t changed what an apply of another thread builds on.         *)
Disturbing(t, changed) ==
  [o \in Threads |->
     IF o = t \/ ~Applying(o) THEN changed[o] ELSE [changed[o] EXCEPT !.alone = FALSE]]

(* Others in apply_conference. They and t act on what the other changes.   *)
OthersAtLeg(t) == {o \in Threads \ {t} : work[o].at \in LegPlaces}

ComesToLeg(t) ==
  /\ clashed' = IF OthersAtLeg(t) = {} THEN clashed ELSE clashed \cup OthersAtLeg(t) \cup {t}
  /\ UNCHANGED <<leg, registered, settled>>

(* A mistake: the candidate is not validated.                              *)
PostConfigUnchecked(t, document) ==
  /\ Free(t)
  /\ work' = Requested(t, "config", document)
  /\ UNCHANGED <<storeVars, up, config, table, allocated, legVars, applied>>

PostConfig(t, document) ==
  /\ Free(t)
  /\ Accepted(document)
  /\ work' = Requested(t, "config", document)
  /\ UNCHANGED <<storeVars, up, config, table, allocated, legVars, applied>>

UpdateConference(t, wanted) ==
  LET document == [config EXCEPT !.leg = wanted]
  IN /\ Free(t)
     /\ document \in Documents
     /\ Accepted(document)
     /\ work' = Requested(t, "conference", document)
     /\ UNCHANGED <<storeVars, up, config, table, allocated, legVars, applied>>

(* A line's update is in force before it is saved.                         *)
UpdateLine(t, line, streams) ==
  LET document == [config EXCEPT !.lines[line] = streams]
  IN /\ Free(t)
     /\ line \in DOMAIN config.lines
     /\ document \in Documents
     /\ config' = document
     /\ work' = Disturbing(t, [Requested(t, "line", document) EXCEPT ![t].left = <<line>>])
     /\ UNCHANGED <<storeVars, up, table, allocated, legVars, applied>>

Restart(t) ==
  /\ Free(t)
  /\ work' = Went(t, "load")
  /\ UNCHANGED <<storeVars, up, config, table, allocated, legVars, applied>>

SaveStep(t) ==
  /\ up
  /\ Save(t)
  /\ UNCHANGED <<up, config, table, allocated, legVars, applied>>

AfterSave(t) == IF work[t].request = "config" THEN "load" ELSE "leg"

(* A mistake: the conference update is saved and applied, and not assigned. *)
AssignConfigOnly(t) ==
  /\ At(t, "saved")
  /\ work[t].request # "line"
  /\ config' = IF work[t].request = "config" THEN work[t].document ELSE config
  /\ work' = Disturbing(t, Done(t, AfterSave(t)))
  /\ IF AfterSave(t) = "leg" THEN ComesToLeg(t) ELSE UNCHANGED legVars
  /\ UNCHANGED <<storeVars, up, table, allocated, applied>>

(* A candidate that was saved becomes the configuration; the line's is.    *)
Assign(t) ==
  /\ At(t, "saved")
  /\ work[t].request # "line"
  /\ config' = work[t].document
  /\ work' = Disturbing(t, Done(t, AfterSave(t)))
  /\ IF AfterSave(t) = "leg" THEN ComesToLeg(t) ELSE UNCHANGED legVars
  /\ UNCHANGED <<storeVars, up, table, allocated, applied>>

(* Not saved is an error to all but the update of a line, which goes on.   *)
Refuse(t) ==
  /\ At(t, "unsaved")
  /\ work[t].request # "line"
  /\ work' = Went(t, "idle")
  /\ UNCHANGED <<storeVars, up, config, table, allocated, legVars, applied>>

ToTheLine(t) ==
  /\ work[t].at \in {"saved", "unsaved"}
  /\ work[t].request = "line"
  /\ work' = Went(t, "line")
  /\ UNCHANGED <<storeVars, up, config, table, allocated, legVars, applied>>

-----------------------------------------------------------------------------
(* apply_configuration.                                                    *)

(* App::restart: a file that cannot be read leaves the configuration.      *)
Load(t) ==
  /\ At(t, "load")
  /\ config' = IF content[path] = Partial THEN config ELSE content[path]
  /\ work' = Disturbing(t, Went(t, "apply"))
  /\ UNCHANGED <<storeVars, up, table, allocated, legVars, applied>>

Apply(t) ==
  /\ At(t, "apply")
  /\ Accepted(config)
  /\ work' = [Went(t, "lines") EXCEPT
                ![t].document = config, ![t].alone = TRUE,
                ![t].left = SetToSeq(DOMAIN config.lines)]
  /\ UNCHANGED <<storeVars, up, config, table, allocated, legVars, applied>>

(* Not accepted, or the engine does not take the accounts: nothing else is *)
(* done, neither now nor later. Who is at the leg may have read config_     *)
(* before it became what is given up here.                                 *)
ApplyFails(t) ==
  /\ At(t, "apply")
  /\ ~(answers /\ Accepted(config))
  /\ work' = Went(t, "idle")
  /\ applied' = None
  /\ settled' = FALSE
  /\ clashed' = clashed \cup OthersAtLeg(t)
  /\ UNCHANGED <<storeVars, up, config, table, allocated, leg, registered>>

(* The streams of owner are put under its ids; the daemon, or a missing    *)
(* SDP, may refuse either, which is logged and passed over.                *)
Put(owner, id) ==
  \E put \in SUBSET Directions :
    /\ answers => put = Directions
    /\ table' = [way \in Directions |->
                   IF way \in put THEN [table[way] EXCEPT ![id[way]] = owner]
                   ELSE table[way]]

PutLine(t) ==
  /\ work[t].at \in {"lines", "line"}
  /\ work[t].left # << >>
  /\ LET line == Head(work[t].left) IN Put(line, work[t].document.lines[line])
  /\ applied' = None
  /\ work' = Disturbing(t, [work EXCEPT ![t].left = Tail(@)])
  /\ UNCHANGED <<storeVars, up, config, allocated, legVars>>

LineDone(t) ==
  /\ At(t, "line")
  /\ work[t].left = << >>
  /\ work' = Went(t, "idle")
  /\ UNCHANGED <<storeVars, up, config, table, allocated, legVars, applied>>

(* The endpoints are those config_ has now.                                *)
LinesDone(t) ==
  /\ At(t, "lines")
  /\ work[t].left = << >>
  /\ work' = [Went(t, "endpoints") EXCEPT
                ![t].document = config, ![t].left = config.endpoints]
  /\ UNCHANGED <<storeVars, up, config, table, allocated, legVars, applied>>

(* What is wired by hand is left as it is.                                 *)
PassOver(t) ==
  /\ At(t, "endpoints")
  /\ work[t].left # << >> /\ Head(work[t].left) \in work[t].document.wired
  /\ work' = [work EXCEPT ![t].left = Tail(@)]
  /\ UNCHANGED <<storeVars, up, config, table, allocated, legVars, applied>>

PutEndpoint(t) ==
  /\ At(t, "endpoints")
  /\ work[t].left # << >> /\ Head(work[t].left) \notin work[t].document.wired
  /\ LET e == Head(work[t].left)
     IN Put(e, [way \in Directions |-> Allocated(work[t].document)[e]])
  /\ applied' = None
  /\ work' = Disturbing(t, [work EXCEPT ![t].left = Tail(@)])
  /\ UNCHANGED <<storeVars, up, config, allocated, legVars>>

Gone(t) == DOMAIN allocated \ Provisioned(work[t].document)

(* remove_endpoint_streams: whoever has the id by now loses it.            *)
RemoveStreams(t) ==
  /\ At(t, "endpoints")
  /\ work[t].left = << >>
  /\ LET ids == {allocated[e] : e \in Gone(t)}
     IN \E deleted \in SUBSET (Directions \X ids) :
          /\ answers => deleted = Directions \X ids
          /\ table' = [way \in Directions |-> [i \in Ids |->
                         IF <<way, i>> \in deleted THEN None ELSE table[way][i]]]
  /\ allocated' = Allocated(work[t].document)
  /\ applied' = IF work[t].alone
                THEN [document |-> work[t].document, removed |-> Gone(t) # {}]
                ELSE None
  /\ work' = Disturbing(t, Done(t, "leg"))
  /\ ComesToLeg(t)
  /\ UNCHANGED <<storeVars, up, config>>

-----------------------------------------------------------------------------
(* apply_conference: mutex_ is held to look the leg up, again to erase it   *)
(* or to put it in, and not in between; the engine is asked without it.    *)

Enabled == config.leg # "off"

(* The apply is over. One that had the leg to itself and dropped or raised  *)
(* it makes good what two beside each other, or one that failed, have left. *)
LegDone(t, renewed) ==
  /\ work' = Went(t, "idle")
  /\ settled' = (t \notin clashed /\ (renewed \/ settled))
  /\ clashed' = clashed \ {t}

LegGoesOn(t, place) ==
  /\ work' = Went(t, place)
  /\ UNCHANGED <<settled, clashed>>

rest == <<storeVars, up, config, table, allocated, applied>>

LookUpLeg(t) ==
  /\ At(t, "leg")
  /\ LegGoesOn(t, IF leg THEN "found" ELSE "missing")
  /\ UNCHANGED <<leg, registered, rest>>

(* A mistake: a leg that is switched off stays if it is up.                *)
ReadConferenceOff(t) ==
  /\ \/ At(t, "found") /\ Enabled /\ LegGoesOn(t, "register")
     \/ At(t, "missing") /\ Enabled /\ LegGoesOn(t, "raise")
     \/ work[t].at \in {"found", "missing"} /\ ~Enabled /\ LegDone(t, FALSE)
  /\ UNCHANGED <<leg, registered, rest>>

(* A leg that was found gets its configuration in place: if it was erased   *)
(* meanwhile, it is not put in again.                                      *)
ReadConference(t) ==
  /\ \/ At(t, "found") /\ Enabled /\ LegGoesOn(t, "register")
     \/ At(t, "found") /\ ~Enabled /\ LegGoesOn(t, "drop")
     \/ At(t, "missing") /\ Enabled /\ LegGoesOn(t, "raise")
     \/ At(t, "missing") /\ ~Enabled /\ LegDone(t, FALSE)
  /\ UNCHANGED <<leg, registered, rest>>

DropLeg(t) ==
  /\ At(t, "drop")
  /\ registered' = FALSE
  /\ LegGoesOn(t, "erase")
  /\ UNCHANGED <<leg, rest>>

EraseLeg(t) ==
  /\ At(t, "erase")
  /\ leg' = FALSE
  /\ LegDone(t, TRUE)
  /\ UNCHANGED <<registered, rest>>

RaiseLeg(t) ==
  /\ At(t, "raise")
  /\ leg' = TRUE
  /\ LegGoesOn(t, "register")
  /\ UNCHANGED <<registered, rest>>

(* add_line may fail, which is logged; what there was is gone then as well. *)
RegisterLeg(t) ==
  /\ At(t, "register")
  /\ registered' \in BOOLEAN /\ (answers => registered')
  /\ LegDone(t, TRUE)
  /\ UNCHANGED <<leg, rest>>

ApplyConference(t) ==
  \/ LookUpLeg(t) \/ ReadConference(t)
  \/ DropLeg(t) \/ EraseLeg(t) \/ RaiseLeg(t) \/ RegisterLeg(t)

-----------------------------------------------------------------------------
(* The process. It can end at any step; file and daemon stay as they are.  *)

Crash ==
  /\ up
  /\ up' = FALSE
  /\ config' = None
  /\ work' = [t \in Threads |-> Resting]
  /\ allocated' = Nothing
  /\ leg' = FALSE /\ registered' = FALSE
  /\ settled' = TRUE /\ clashed' = {}
  /\ applied' = None
  /\ StoreCrash
  /\ UNCHANGED table

(* A mistake: that the file could not be read is not noticed.              *)
BootUnread ==
  /\ ~up
  /\ up' = TRUE
  /\ config' = content[path]
  /\ work' = [work EXCEPT ![Main].at = "apply"]
  /\ UNCHANGED <<storeVars, table, allocated, legVars, applied>>

(* A mistake: what would be refused when it is applied ends the gateway.   *)
BootAccepted ==
  /\ ~up
  /\ content[path] # Partial /\ Accepted(content[path])
  /\ up' = TRUE
  /\ config' = content[path]
  /\ work' = [work EXCEPT ![Main].at = "apply"]
  /\ UNCHANGED <<storeVars, table, allocated, legVars, applied>>

(* The service manager starts it again; without a file that can be read it *)
(* ends at once. The API is open before the main thread has applied.       *)
Boot ==
  /\ ~up
  /\ content[path] # Partial
  /\ up' = TRUE
  /\ config' = content[path]
  /\ work' = [work EXCEPT ![Main].at = "apply"]
  /\ UNCHANGED <<storeVars, table, allocated, legVars, applied>>

EditByHand(document) ==
  /\ ~up
  /\ HandWrite(document)
  /\ UNCHANGED <<work, up, config, table, allocated, legVars, applied>>

Next ==
  \/ \E t \in Threads :
       \/ \E document \in Documents : PostConfig(t, document)
       \/ \E wanted \in {"off", "on", "undiallable"} : UpdateConference(t, wanted)
       \/ \E line \in Lines, streams \in [Directions -> Ids] :
            UpdateLine(t, line, streams)
       \/ Restart(t)
       \/ SaveStep(t) \/ Assign(t) \/ Refuse(t) \/ ToTheLine(t)
       \/ Load(t) \/ Apply(t) \/ ApplyFails(t)
       \/ PutLine(t) \/ LineDone(t) \/ LinesDone(t)
       \/ PassOver(t) \/ PutEndpoint(t)
       \/ RemoveStreams(t) \/ ApplyConference(t)
  \/ Crash \/ Boot
  \/ \E document \in Documents : EditByHand(document)

(* Restart=always: after an end there is a start.                          *)
Spec == Init /\ [][Next]_vars /\ WF_vars(Boot)

-----------------------------------------------------------------------------
(* Properties.                                                             *)

WorkTypeOK ==
  work \in [Threads ->
    [at : Places, request : Requests, document : Documents \cup {None},
     inode : Inodes \cup {None}, left : Seq(Lines \cup Endpoints), alone : BOOLEAN]]

(* The types of the variables.                                             *)
TypeOK ==
  /\ StoreTypeOK
  /\ WorkTypeOK
  /\ up \in BOOLEAN
  /\ config \in Documents \cup {None}
  /\ up => config # None
  /\ table \in [Directions -> [Ids -> Lines \cup Endpoints \cup {None}]]
  /\ DOMAIN allocated \subseteq Endpoints /\ \A e \in DOMAIN allocated : allocated[e] \in Ids
  /\ leg \in BOOLEAN /\ registered \in BOOLEAN
  /\ settled \in BOOLEAN /\ clashed \subseteq Threads
  /\ applied \in [document : Documents, removed : BOOLEAN] \cup {None}

(* Wherever a save is interrupted, the file can be read, if the directory  *)
(* is writable, the disk healthy and one worker saves at a time: renaming   *)
(* is the only way the file changes (Config::save).                        *)
FileWhole == writable /\ healthy => content[path] # Partial

(* So a gateway that has crashed, in a save or elsewhere, starts again     *)
(* (App::initialise needs the file; what else can end it, a codec that is   *)
(* not there, a port that is taken, an engine that fails, is not modelled). *)
StartsAgain == []((writable /\ healthy /\ ~up) => <>up)

(* The running gateway never turns a file that validates into one that     *)
(* does not, or cannot be read: what it saves has been validated, or       *)
(* differs from what was by what validation does not look at (update_line).*)
ValidStays ==
  [][up /\ writable /\ healthy /\ content[path] \in Documents /\ Accepted(content[path])
       => content'[path'] \in Documents /\ Accepted(content'[path'])]_vars

(* When no request is under way, the file holds what the gateway runs, in  *)
(* whatever order objects and file were written.                           *)
FileIsTruth ==
  up /\ healthy /\ (\A t \in Threads : At(t, "idle")) => config = content[path]

(* Nor is there then a leg that config_ has switched off, or none that it   *)
(* has switched on, whoever changed config_ while the leg was applied; and  *)
(* the engine has none that lines_ has not. Not claimed: after an apply     *)
(* that failed, or two that were in apply_conference at once, until one     *)
(* drops or raises the leg with nobody beside it. Two at once can leave it  *)
(* registered for ever (line_manager.cpp:424 tests, without the mutex, what *)
(* 444-465 act on).                                                        *)
LegIsTruth ==
  up /\ settled /\ (\A t \in Threads : At(t, "idle")) =>
    /\ leg <=> Enabled
    /\ registered => leg

(* Every line and every endpoint has its streams, under its ids.           *)
Serves(document) ==
  \A way \in Directions :
    /\ \A l \in DOMAIN document.lines : table[way][document.lines[l][way]] = l
    /\ \A e \in Provisioned(document) : table[way][Allocated(document)[e]] = e

(* After an apply that the daemon answered and nobody got in the way of,   *)
(* and that removed no endpoint, the streams are those of the document,    *)
(* whatever the daemon had from before, from other ids or before a crash.  *)
ServesUnlessRemoved ==
  answers /\ applied # None => applied.removed \/ Serves(applied.document)
=============================================================================
