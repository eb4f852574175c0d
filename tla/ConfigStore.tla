----------------------------- MODULE ConfigStore -----------------------------
(***************************************************************************)
(* The configuration file, and Config::save as the threads go through it.  *)
(* A document is written to a temporary file beside the target, which is   *)
(* then renamed; where that fails the target itself is truncated and       *)
(* written. Files are inodes: an open one follows its inode, not the name. *)
(***************************************************************************)
EXTENDS EndpointStreams

CONSTANTS
  Workers,      \* HTTP worker threads
  Main,         \* the main thread, which applies the configuration at start
  Inodes,       \* bound: files of the directory
  Partial,      \* what cannot be parsed: empty, or cut short
  None,         \* no file, no document
  Surroundings \* what it may run in: sets of "writable", "healthy", "answers"

ASSUME StoreAssumption ==
  /\ Main \notin Workers
  /\ None \notin Inodes \cup Lines \cup Endpoints
  /\ Surroundings \subseteq SUBSET {"writable", "healthy", "answers"}
  /\ {None, Partial} \cap Documents = {}
  /\ Inodes # {} /\ \A i \in Inodes : Inodes \ {i} # {}
  /\ \A t \in Workers, i \in Inodes :
       \A open \in [Workers \ {t} -> Inodes \cup {None}] :
         \E fresh \in Inodes \ {i} : \A o \in Workers \ {t} : open[o] # fresh

VARIABLES
  content,   \* what each inode holds
  path,      \* the inode under the configuration file's name
  temp,      \* the inode under its name with .tmp, if there is one
  around,    \* what the gateway runs in; never changes
  work       \* what each thread is at

Threads == Workers \cup {Main}

storeVars == <<content, path, temp, around>>

(* Files can be created in the directory; the disk takes what is written.  *)
writable == "writable" \in around
healthy == "healthy" \in around

(* In apply_conference: the leg is looked up, the configuration read, the   *)
(* leg dropped and erased, or raised and registered.                       *)
LegPlaces == {"leg", "found", "missing", "drop", "erase", "raise", "register"}

Places == {"idle", "open", "write", "rename", "truncate", "fill", "saved",
           "unsaved", "load", "apply", "lines", "line", "endpoints"} \cup LegPlaces

Requests == {"config", "conference", "line", "start"}

Resting == [at |-> "idle", request |-> "start", document |-> None,
            inode |-> None, left |-> << >>, alone |-> TRUE]

(* work after a thread has gone on to another place.                       *)
Went(t, place) ==
  [work EXCEPT ![t] = IF place = "idle" THEN Resting ELSE [@ EXCEPT !.at = place]]

At(t, place) == work[t].at = place

Open(t, place, inode) ==
  work' = [Went(t, place) EXCEPT ![t].inode = inode]

Fresh == CHOOSE i \in Inodes \ {path} : \A t \in Threads : i # work[t].inode

StoreInit ==
  /\ path = CHOOSE i \in Inodes : TRUE
  /\ \E document \in Documents :
       content = [i \in Inodes |-> IF i = path THEN document ELSE Partial]
  /\ temp = None
  /\ around \in Surroundings

(* A mistake: the target is opened, not the temporary file.                *)
SaveOpenTarget(t) ==
  /\ At(t, "open")
  /\ content' = [content EXCEPT ![path] = Partial]
  /\ Open(t, "fill", path)
  /\ UNCHANGED <<path, temp, around>>

(* ofstream output(temporary, trunc): an existing file keeps its inode.    *)
SaveOpen(t) ==
  /\ At(t, "open")
  /\ IF ~writable THEN
       /\ work' = Went(t, "truncate")
       /\ UNCHANGED <<content, temp>>
     ELSE
       /\ temp' = IF temp = None THEN Fresh ELSE temp
       /\ content' = [content EXCEPT ![temp'] = Partial]
       /\ Open(t, "write", temp')
  /\ UNCHANGED <<path, around>>

(* What an open file holds once t has written to it. Each writer starts at *)
(* the beginning: what another has written stays behind a shorter text.    *)
Written(t) ==
  LET holds == content[work[t].inode]
  IN {work[t].document} \cup (IF holds \in {Partial, work[t].document} THEN {} ELSE {Partial})

SaveWrite(t) ==
  /\ At(t, "write")
  /\ \E c \in Written(t) : content' = [content EXCEPT ![work[t].inode] = c]
  /\ work' = Went(t, "rename")
  /\ UNCHANGED <<path, temp, around>>

(* The disk is full: the temporary file goes, the target is tried instead. *)
SaveWriteFails(t) ==
  /\ At(t, "write")
  /\ ~healthy
  /\ temp' = None
  /\ Open(t, "truncate", None)
  /\ UNCHANGED <<content, path, around>>

(* rename moves whatever has the temporary name now; if another save has   *)
(* moved it already, this one goes on in place. The file replaced is gone. *)
SaveRename(t) ==
  /\ At(t, "rename")
  /\ IF temp = None THEN
       /\ Open(t, "truncate", None)
       /\ UNCHANGED <<content, path, temp>>
     ELSE
       /\ path' = temp
       /\ temp' = None
       /\ content' = [content EXCEPT ![path] = Partial]
       /\ Open(t, "saved", None)
  /\ UNCHANGED around

SaveTruncate(t) ==
  /\ At(t, "truncate")
  /\ content' = [content EXCEPT ![path] = Partial]
  /\ Open(t, "fill", path)
  /\ UNCHANGED <<path, temp, around>>

(* The stream is asked whether it is good before it is flushed: on a full   *)
(* disk a document short enough for its buffer counts as saved all the same.*)
SaveFill(t) ==
  /\ At(t, "fill")
  /\ \E c \in Written(t) \cup (IF healthy THEN {} ELSE {Partial}) :
       content' = [content EXCEPT ![work[t].inode] = c]
  /\ Open(t, "saved", None)
  /\ UNCHANGED <<path, temp, around>>

(* The target cannot be opened, or not written once it was truncated.      *)
SaveFails(t) ==
  /\ work[t].at \in {"truncate", "fill"}
  /\ ~healthy
  /\ Open(t, "unsaved", None)
  /\ UNCHANGED storeVars

Save(t) ==
  \/ SaveOpen(t) \/ SaveWrite(t) \/ SaveWriteFails(t) \/ SaveRename(t)
  \/ SaveTruncate(t) \/ SaveFill(t) \/ SaveFails(t)

(* The process ends. What is in a temporary file left behind is never read: *)
(* the next save truncates it.                                             *)
StoreCrash ==
  /\ content' = [i \in Inodes |-> IF i = path THEN content[i] ELSE Partial]
  /\ UNCHANGED <<path, temp, around>>

(* The file an administrator writes while the gateway is down.             *)
HandWrite(document) ==
  /\ content' = [content EXCEPT ![path] = document]
  /\ UNCHANGED <<path, temp, around>>

StoreTypeOK ==
  /\ content \in [Inodes -> Documents \cup {Partial}]
  /\ path \in Inodes
  /\ temp \in Inodes \cup {None}
  /\ around \in Surroundings
=============================================================================
