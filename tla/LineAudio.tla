------------------------------ MODULE LineAudio ------------------------------
(***************************************************************************)
(* The router's side of one line: audio between its AES67 channels and the *)
(* port of its call, while calls come and go.                              *)
(*                                                                         *)
(* Four threads meet at the line. The audio thread works block by block    *)
(* from a snapshot it takes under the router's mutex; the media thread     *)
(* pulls and pushes whenever a port is connected; the engine's threads     *)
(* connect and remove the port, set the codec rate and move the gate; a    *)
(* configuration edit puts a fresh line in place of the old one.           *)
(*                                                                         *)
(* A sample is the number of the call it belongs to. A block is one sample *)
(* long at every rate: rates matter only by whether they agree.            *)
(***************************************************************************)
EXTENDS Naturals, Sequences

CONSTANTS
  MaxCalls,     \* bound: calls the line has
  RingSize,     \* samples in tx_ring and in rx_ring
  Rates,        \* the codec rates a call may negotiate
  DefaultRate,  \* the rate a line has until a call says otherwise (8000)
  Edits,        \* whether configuration is applied while the line runs
  Renegotiates  \* whether a call's media may be set up more than once

ASSUME AudioAssumption ==
  /\ MaxCalls \in Nat
  /\ RingSize \in Nat \ {0}
  /\ DefaultRate \in Rates
  /\ Rates \subseteq Nat \ {0}
  /\ Edits \in BOOLEAN
  /\ Renegotiates \in BOOLEAN

VARIABLES
  media,   \* how far the engine is with the call's media
  callNo,  \* how many calls the line has had: the number of the latest
  codec,   \* the rate of the latest call's media
  gate,    \* LineParams::call_active
  rate,    \* Line::sip_rate, what the resamplers are built for
  pending, \* Line::pending_rate, 0 for none
  flush,   \* Line::flush_requested
  primed,  \* Line::tx_primed
  tx,      \* Line::tx_ring, AES67 -> PBX
  rx,      \* Line::rx_ring, PBX -> AES67
  block,   \* the audio thread's block: where it is and what it has seen
  heard,   \* what the last pull gave the PBX
  played   \* what the last block gave the AES67 channels

ring == <<tx, rx>>
rates == <<codec, rate, pending>>
outputs == <<heard, played>>
vars == <<media, callNo, rates, gate, flush, primed, ring, block, outputs>>

CallNumbers == 0 .. MaxCalls
Idle == [at |-> "idle", gate |-> FALSE, call |-> 0, rate |-> 0, own |-> TRUE]

CallTypeOK ==
  /\ media \in {"down", "connected", "rated", "up", "stopping"}
  /\ callNo \in CallNumbers
  /\ codec \in Rates /\ rate \in Rates /\ pending \in Rates \cup {0}

FlagsTypeOK == gate \in BOOLEAN /\ flush \in BOOLEAN /\ primed \in BOOLEAN

RingsTypeOK ==
  /\ tx \in Seq(CallNumbers) /\ Len(tx) <= RingSize
  /\ rx \in Seq(CallNumbers) /\ Len(rx) <= RingSize

BlockTypeOK ==
  /\ block \in [at : {"idle", "rate", "rebuild", "flush", "send", "play"},
                gate : BOOLEAN, call : CallNumbers, rate : Rates \cup {0},
                own : BOOLEAN]
  /\ block.at = "rebuild" => block.rate \in Rates

OutputsTypeOK == heard \subseteq CallNumbers /\ played \subseteq CallNumbers

TypeOK ==
  /\ CallTypeOK
  /\ FlagsTypeOK
  /\ RingsTypeOK
  /\ BlockTypeOK
  /\ OutputsTypeOK

(* add_line: the rate is applied at once, nothing is buffered, and the     *)
(* gate is whatever the call made it.                                      *)
FreshLine ==
  /\ rate' = DefaultRate
  /\ pending' = 0
  /\ flush' = TRUE
  /\ primed' = FALSE
  /\ tx' = << >>
  /\ rx' = << >>

Init ==
  /\ media = "down" /\ callNo = 0 /\ codec = DefaultRate
  /\ gate = FALSE /\ rate = DefaultRate /\ pending = 0
  /\ flush = TRUE /\ primed = FALSE
  /\ tx = << >> /\ rx = << >>
  /\ block = Idle
  /\ heard = {} /\ played = {}

-----------------------------------------------------------------------------
(* The engine's threads                                                    *)

(* setup_line_media connects the port: media flows from here on. It is the *)
(* media of a new call, or the line's call has negotiated again. A block   *)
(* takes a millisecond: none that saw the gate of an earlier call open is  *)
(* still at it.                                                            *)
Connect(r) ==
  /\ media = "down"
  /\ \/ callNo < MaxCalls /\ callNo' = callNo + 1
     \/ Renegotiates /\ callNo > 0 /\ UNCHANGED callNo
  /\ block.at = "idle" \/ ~block.gate
  /\ media' = "connected"
  /\ codec' = r
  /\ UNCHANGED <<rate, pending, gate, flush, primed, ring, block, outputs>>

(* on_media_start, first: set_line_sip_rate.                               *)
SetRate ==
  /\ media = "connected"
  /\ pending' = codec
  /\ media' = "rated"
  /\ UNCHANGED <<callNo, codec, rate, gate, flush, primed, ring, block, outputs>>

(* Mistakes the checks must catch: the gate opens and what the PBX was to  *)
(* hear of the last call stays; or what the channels were to play of it.   *)
OpenGateUnprimed ==
  /\ media = "rated"
  /\ IF gate THEN UNCHANGED flush ELSE flush' = TRUE
  /\ gate' = TRUE
  /\ media' = "up"
  /\ UNCHANGED <<callNo, rates, primed, ring, block, outputs>>
OpenGateUnflushed ==
  /\ media = "rated"
  /\ IF gate THEN UNCHANGED primed ELSE primed' = FALSE
  /\ gate' = TRUE
  /\ media' = "up"
  /\ UNCHANGED <<callNo, rates, flush, ring, block, outputs>>

(* on_media_start, then: set_line_call_active(true).                       *)
OpenGate ==
  /\ media = "rated"
  /\ IF gate THEN UNCHANGED <<flush, primed>> ELSE flush' = TRUE /\ primed' = FALSE
  /\ gate' = TRUE
  /\ media' = "up"
  /\ UNCHANGED <<callNo, rates, ring, block, outputs>>

(* on_line_state: the call is no longer a connected one.                   *)
CloseGate ==
  /\ media = "up"
  /\ gate
  /\ gate' = FALSE
  /\ UNCHANGED <<media, callNo, rates, flush, primed, ring, block, outputs>>

(* teardown_line_media: the port goes, and then the gate.                  *)
RemovePort ==
  /\ media = "up"
  /\ media' = "stopping"
  /\ UNCHANGED <<callNo, rates, gate, flush, primed, ring, block, outputs>>

MediaStop ==
  /\ media = "stopping"
  /\ gate' = FALSE
  /\ media' = "down"
  /\ UNCHANGED <<callNo, rates, flush, primed, ring, block, outputs>>

-----------------------------------------------------------------------------
(* The media thread, as long as a port is connected                        *)

Connected == media \in {"connected", "rated", "up"}

(* pull_to_sip: the first pull after the gate opened drops what is there.  *)
Pull ==
  /\ Connected
  /\ IF ~primed \/ tx = << >>
     THEN heard' = {} /\ tx' = << >>
     ELSE heard' = {Head(tx)} /\ tx' = Tail(tx)
  /\ primed' = TRUE
  /\ UNCHANGED <<media, callNo, rates, gate, flush, rx, block, played>>

(* A mistake: one sample too many.                                         *)
PushOverfull ==
  /\ Connected
  /\ Len(rx) <= RingSize
  /\ rx' = Append(rx, callNo)
  /\ UNCHANGED <<media, callNo, rates, gate, flush, primed, tx, block, outputs>>

(* push_from_sip: what does not fit is lost.                               *)
Push ==
  /\ Connected
  /\ Len(rx) < RingSize
  /\ rx' = Append(rx, callNo)
  /\ UNCHANGED <<media, callNo, rates, gate, flush, primed, tx, block, outputs>>

-----------------------------------------------------------------------------
(* The audio thread: process_block for the line                            *)

(* The line and a copy of its parameters are taken under the mutex.        *)
BlockStart ==
  /\ block.at = "idle"
  /\ block' = [at |-> "rate", gate |-> gate, call |-> callNo, rate |-> 0, own |-> TRUE]
  /\ UNCHANGED <<media, callNo, rates, gate, flush, primed, ring, outputs>>

(* The rest runs without the mutex, and on a line that an edit has replaced *)
(* meanwhile it concerns nobody.                                           *)
Block(from, to) == block.at = from /\ block.own /\ block' = [block EXCEPT !.at = to]

BlockKeepRate ==
  /\ Block("rate", "flush")
  /\ pending \in {0, rate}
  /\ UNCHANGED <<media, callNo, rates, gate, flush, primed, ring, outputs>>

BlockSeeRate ==
  /\ block.at = "rate" /\ block.own
  /\ pending \notin {0, rate}
  /\ block' = [block EXCEPT !.at = "rebuild", !.rate = pending]
  /\ UNCHANGED <<media, callNo, rates, gate, flush, primed, ring, outputs>>

(* set_line_rate_locked, called here without the lock.                     *)
BlockRebuild ==
  /\ Block("rebuild", "flush")
  /\ rate' = block.rate
  /\ pending' = 0
  /\ flush' = TRUE
  /\ UNCHANGED <<media, callNo, codec, gate, primed, ring, outputs>>

BlockFlush ==
  /\ Block("flush", "send")
  /\ rx' = IF flush THEN << >> ELSE rx
  /\ flush' = FALSE
  /\ UNCHANGED <<media, callNo, rates, gate, primed, tx, outputs>>

BlockSend ==
  /\ Block("send", "play")
  /\ tx' = IF block.gate /\ Len(tx) < RingSize THEN Append(tx, block.call) ELSE tx
  /\ UNCHANGED <<media, callNo, rates, gate, flush, primed, rx, outputs>>

BlockPlay ==
  /\ Block("play", "idle")
  /\ IF block.gate /\ rx # << >>
     THEN played' = {Head(rx)} /\ rx' = Tail(rx)
     ELSE played' = {} /\ rx' = << >>
  /\ UNCHANGED <<media, callNo, rates, gate, flush, primed, tx, heard>>

BlockAbandoned ==
  /\ block.at # "idle" /\ ~block.own
  /\ block' = Idle
  /\ UNCHANGED <<media, callNo, rates, gate, flush, primed, ring, outputs>>

-----------------------------------------------------------------------------
(* A configuration thread: apply_configuration adds every line again.      *)
Reapply ==
  /\ Edits
  /\ FreshLine
  /\ block' = IF block.at = "idle" THEN block ELSE [block EXCEPT !.own = FALSE]
  /\ UNCHANGED <<media, callNo, codec, gate, outputs>>

EngineStep ==
  \/ \E r \in Rates : Connect(r)
  \/ SetRate
  \/ OpenGate
  \/ CloseGate
  \/ RemovePort
  \/ MediaStop

BlockStep ==
  \/ BlockStart
  \/ BlockKeepRate
  \/ BlockSeeRate
  \/ BlockRebuild
  \/ BlockFlush
  \/ BlockSend
  \/ BlockPlay
  \/ BlockAbandoned

Next == EngineStep \/ Pull \/ Push \/ BlockStep \/ Reapply

Spec == Init /\ [][Next]_vars

-----------------------------------------------------------------------------
(* Properties                                                              *)

(* Once the call's gate is open (set_line_call_active), the PBX never      *)
(* hears in one call what was said for another: "the first pull of a call  *)
(* drops whatever was left over". Pulls before that are not covered: the   *)
(* port pulls as soon as it is connected, and may hear what was left.      *)
HearsThisCall == [][Pull /\ gate => heard' \subseteq {callNo}]_vars

(* The AES67 channels never play what an earlier call said: a block that   *)
(* saw the gate open finds nothing older in the ring, whatever the order   *)
(* in which the gate, the flush and the block meet (flush_requested).      *)
PlaysThisCall == [][BlockPlay => played' \subseteq {callNo}]_vars

(* What both rest on. The gate is open only while a call's media is; what  *)
(* waits for a pull that will hand it out is this call's; a block that saw *)
(* the gate open works for this call, and finds or leaves nothing older to *)
(* play (tx_primed, flush_requested and the order of on_media_start).      *)
Only(s, n) == \A i \in 1 .. Len(s) : s[i] = n
Working == block.at # "idle" /\ block.own /\ block.gate
GateNeedsMedia == gate => media \in {"up", "stopping"}
PullsOwn == gate /\ primed => Only(tx, callNo)
PlaysOwn == gate => flush \/ Only(rx, callNo)
SendsOwn == Working => block.call = callNo
BlockPlaysOwn ==
  Working => \/ Only(rx, callNo)
             \/ flush /\ block.at \in {"rate", "rebuild", "flush"}
AudioInv ==
  /\ GateNeedsMedia
  /\ PullsOwn
  /\ PlaysOwn
  /\ SendsOwn
  /\ BlockPlaysOwn
=============================================================================
