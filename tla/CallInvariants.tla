--------------------------- MODULE CallInvariants ---------------------------
(***************************************************************************)
(* What holds between the engine's maps, the runner and the library's      *)
(* calls whatever the lines are for: the inductive invariant behind        *)
(* GateNeedsCall and OneCallPerLine.                                       *)
(***************************************************************************)
EXTENDS CallControl

(* A line's slot names a call the library knows, of that line.             *)
SlotsHoldCalls ==
  \A l \in Lines :
    slot[l] # Nobody => /\ call[slot[l]].phase # "null"
                        /\ call[slot[l]].line = l

(* Between its two steps the runner keeps a reference to a call of its     *)
(* line, and holds nothing when it rests.                                  *)
RunnerHoldsCall ==
  IF runner.at = "rest"
  THEN runner.call = Nobody
  ELSE /\ runner.line \in Lines
       /\ runner.call \in Calls
       /\ call[runner.call].phase # "null"
       /\ call[runner.call].line = runner.line

(* Every live call can still be hung up: a slot or the runner holds it.    *)
NoOrphanCall ==
  \A c \in Calls : Live(c) => c = runner.call \/ c = slot[call[c].line]

(* Only an unanswered invitation, or what is left of one, can take the     *)
(* slot of a line the runner is busy with.                                 *)
OnlyInvitesIntrude ==
  runner.at # "rest"
    => \/ slot[runner.line] \in {Nobody, runner.call}
       \/ call[slot[runner.line]].phase \in {"incoming", "ended"}

(* Audio needs a port, a port needs a call, and so does the runner on its  *)
(* way to connect one.                                                     *)
GateNeedsPort == \A l \in Lines : gate[l] => port[l] # Nobody
PortNeedsCall == \A l \in Lines : port[l] # Nobody => slot[l] # Nobody
ConnectNeedsCall == runner.at = "connect" => slot[runner.line] # Nobody

EngineInv ==
  /\ SlotsHoldCalls
  /\ RunnerHoldsCall
  /\ NoOrphanCall
  /\ OnlyInvitesIntrude
  /\ GateNeedsPort
  /\ PortNeedsCall
  /\ ConnectNeedsCall

IInv == TypeOK /\ EngineInv

-----------------------------------------------------------------------------
(* Lines nobody calls (Inbound = {}): the invariant behind                 *)
(* StateIsOfItsCall and NoCallDropped.                                     *)

Known(c) == call[c].phase # "null"

(* Every call the library knows is its line's, or about to be: so a line   *)
(* has one, and none was called.                                           *)
AllHeld ==
  \A c \in Calls :
    Known(c) => /\ call[c].phase # "incoming"
                /\ \/ c = slot[call[c].line]
                   \/ runner.at = "store" /\ c = runner.call

(* Nobody takes the slot of a line the runner is busy with.                *)
NobodyIntrudes ==
  /\ runner.at = "store" => slot[runner.line] = Nobody
  /\ runner.at = "connect" => slot[runner.line] = runner.call

(* A job that forgets an ended call finds it there, and no other follows.  *)
OneEndEach ==
  \A i \in DOMAIN queue :
    queue[i].do = "ended" =>
      /\ \E c \in Calls : call[c].phase = "ended" /\ call[c].line = queue[i].line
      /\ \A j \in DOMAIN queue :
           queue[j].do = "ended" /\ queue[j].line = queue[i].line => i = j

OutboundInv == AllHeld /\ NobodyIntrudes /\ OneEndEach
=============================================================================
