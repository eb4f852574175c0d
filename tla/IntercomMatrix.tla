---------------------------- MODULE IntercomMatrix ----------------------------
(***************************************************************************)
(* The intercom matrix at work: the audio thread mixes the party lines     *)
(* block by block from a snapshot of the routing, a control thread         *)
(* replaces the routing under it, and the conference leg feeds and drains  *)
(* the matrix's two rings while its call is up.                            *)
(*                                                                         *)
(* The routing is represented by the configuration it was resolved from. A *)
(* playback channel is the set of terms summed on it; a block of           *)
(* conference audio is the number of the call it belongs to, 0 for none.   *)
(***************************************************************************)
EXTENDS MatrixPlan, FiniteSets

CONSTANTS
  Configs,      \* configurations that may be applied
  NoRouting,    \* no party line is configured
  Width,        \* channels the device was opened with (AudioFormat::channels)
  LineChannels, \* playback channels the SIP-facing lines write
  RingSize,     \* blocks in conference_incoming_ and in conference_outgoing_
  MaxCalls      \* bound: calls the leg has

Shape == [id : STRING, talk : Seq(Nat), listen : Seq(Nat)]
Member == [endpoint : STRING, talk : Nat, listen : Nat, mute : BOOLEAN]

ASSUME MatrixAssumption ==
  /\ NoRouting \notin Configs
  /\ \A config \in Configs :
       /\ config.endpoints \in Seq(Shape)
       /\ DOMAIN config.lines \in SUBSET Nat
       /\ \A i \in DOMAIN config.lines : config.lines[i].members \in Seq(Member)
  /\ Width \in Nat
  /\ LineChannels \subseteq 0 .. Width - 1
  /\ RingSize \in Nat
  /\ MaxCalls \in Nat

VARIABLES
  routing,  \* runtime_
  control,  \* a control thread inside clear(): what it resets next
  block,    \* the audio thread's block: where it is and what it has seen
  playback, \* playback_: what each channel sums in the block
  incoming, \* conference_incoming_
  outgoing, \* conference_outgoing_
  callNo,   \* how many calls the leg has had
  gate,     \* LineParams::call_active of the leg
  heard     \* what the leg took for the conference in the block

control_vars == <<routing, control>>
leg == <<callNo, gate>>
vars == <<control_vars, block, playback, incoming, outgoing, leg, heard>>

Channels == 0 .. Width - 1
CallNumbers == 0 .. MaxCalls

Silence == [lines |-> FALSE, members |-> {}, conference |-> {}]
OfLines == [channel \in Channels |-> [Silence EXCEPT !.lines = channel \in LineChannels]]
Idle == [at |-> "idle", gate |-> FALSE, call |-> 0, routing |-> NoRouting, said |-> {}]

TypeOK ==
  /\ routing \in Configs \cup {NoRouting}
  /\ control \in {"free", "incoming", "outgoing"}
  /\ block \in [at : {"idle", "pull", "push", "route", "mix", "send"}, gate : BOOLEAN,
                call : CallNumbers, routing : Configs \cup {NoRouting},
                said : SUBSET CallNumbers]
  /\ DOMAIN playback = Channels
  /\ incoming \in Seq(CallNumbers) /\ Len(incoming) <= RingSize
  /\ outgoing \in Seq(CallNumbers) /\ Len(outgoing) <= RingSize
  /\ callNo \in CallNumbers /\ gate \in BOOLEAN
  /\ heard \subseteq CallNumbers

Init ==
  /\ routing = NoRouting
  /\ control = "free"
  /\ block = Idle
  /\ playback = [channel \in Channels |-> Silence]
  /\ incoming = << >> /\ outgoing = << >>
  /\ callNo = 0 /\ gate = FALSE
  /\ heard = {}

-----------------------------------------------------------------------------
(* A control thread                                                        *)

(* configure() of a configuration that was accepted as a whole; a refused  *)
(* one changes nothing.                                                    *)
Configure(config) ==
  /\ control = "free"
  /\ Accepted(config)
  /\ config.lines # << >>
  /\ routing' = config
  /\ UNCHANGED <<control, block, playback, incoming, outgoing, leg, heard>>

(* configure() without party lines is clear(): it keeps runtime_mutex_     *)
(* while it resets the rings, which the audio thread uses without it.      *)
Clear(config) ==
  /\ control = "free"
  /\ Accepted(config)
  /\ config.lines = << >>
  /\ routing' = NoRouting
  /\ control' = "incoming"
  /\ UNCHANGED <<block, playback, incoming, outgoing, leg, heard>>

ClearIncoming ==
  /\ control = "incoming"
  /\ incoming' = << >>
  /\ control' = "outgoing"
  /\ UNCHANGED <<routing, block, playback, outgoing, leg, heard>>

ClearOutgoing ==
  /\ control = "outgoing"
  /\ outgoing' = << >>
  /\ control' = "free"
  /\ UNCHANGED <<routing, block, playback, incoming, leg, heard>>

(* The leg's media callbacks. The leg is enabled and not muted.            *)
CallUp ==
  /\ ~gate /\ callNo < MaxCalls
  /\ gate' = TRUE
  /\ callNo' = callNo + 1
  /\ UNCHANGED <<control_vars, block, playback, incoming, outgoing, heard>>

CallDown ==
  /\ gate
  /\ gate' = FALSE
  /\ UNCHANGED <<control_vars, block, playback, incoming, outgoing, callNo, heard>>

-----------------------------------------------------------------------------
(* The audio thread: process_block                                         *)

(* The playback channels are zeroed and the lines' parameters taken; the   *)
(* lines have written their channels by the time the leg's turn is over.   *)
BlockStart ==
  /\ block.at = "idle"
  /\ block' = [Idle EXCEPT !.at = "pull", !.gate = gate, !.call = IF gate THEN callNo ELSE 0]
  /\ playback' = OfLines
  /\ UNCHANGED <<control_vars, incoming, outgoing, leg, heard>>

(* pull_conference_audio, while the leg's call is up.                      *)
BlockPull ==
  /\ block.at = "pull"
  /\ block' = [block EXCEPT !.at = "push"]
  /\ IF block.gate /\ outgoing # << >>
     THEN heard' = {Head(outgoing)} /\ outgoing' = Tail(outgoing)
     ELSE heard' = {} /\ UNCHANGED outgoing
  /\ UNCHANGED <<control_vars, playback, incoming, leg>>

(* A mistake the checks must catch: the ring has no limit.                 *)
BlockPushUnlimited ==
  /\ block.at = "push"
  /\ block' = [block EXCEPT !.at = "route"]
  /\ IF block.gate /\ Len(incoming) <= RingSize
     THEN incoming' = Append(incoming, block.call)
     ELSE UNCHANGED incoming
  /\ UNCHANGED <<control_vars, playback, outgoing, leg, heard>>

(* push_conference_audio: what does not fit is lost.                       *)
BlockPush ==
  /\ block.at = "push"
  /\ block' = [block EXCEPT !.at = "route"]
  /\ IF block.gate /\ Len(incoming) < RingSize
     THEN incoming' = Append(incoming, block.call)
     ELSE UNCHANGED incoming
  /\ UNCHANGED <<control_vars, playback, outgoing, leg, heard>>

(* current_runtime, under its mutex; without one the block is over.        *)
BlockRoute ==
  /\ block.at = "route"
  /\ control = "free"
  /\ block' = IF routing = NoRouting THEN Idle
              ELSE [block EXCEPT !.at = "mix", !.routing = routing]
  /\ UNCHANGED <<control_vars, playback, incoming, outgoing, leg, heard>>

(* A mistake the checks must catch: only the channels a line feeds are     *)
(* taken over.                                                             *)
MixFedOnly(config, said) ==
  [channel \in Channels |->
     IF \E i \in DOMAIN config.lines :
          \E l \in Listeners(config, config.lines[i].members) : l.channel = channel
     THEN [lines |-> FALSE, members |-> MemberTerms(config, Width, channel),
           conference |-> LegTerms(config, channel, said)]
     ELSE playback[channel]]

(* The owned channels go silent and carry their mixes; others keep what    *)
(* the lines wrote.                                                        *)
Mix(config, said) ==
  [channel \in Channels |->
     IF channel \in Owned(config)
     THEN [lines |-> FALSE, members |-> MemberTerms(config, Width, channel),
           conference |-> LegTerms(config, channel, said)]
     ELSE playback[channel]]

(* What the conference said is drained once for the whole block.           *)
BlockMix ==
  /\ block.at = "mix"
  /\ LET said == IF incoming = << >> THEN {} ELSE {Head(incoming)}
     IN /\ playback' = Mix(block.routing, said)
        /\ block' = [block EXCEPT !.at = "send", !.said = said]
  /\ incoming' = IF incoming = << >> THEN incoming ELSE Tail(incoming)
  /\ UNCHANGED <<control_vars, outgoing, leg, heard>>

(* What the conference hears is queued when a line claims it, whether or   *)
(* not the leg's call is up. What does not fit is lost.                    *)
BlockSend ==
  /\ block.at = "send"
  /\ block' = Idle
  /\ IF Claiming(block.routing) # {} /\ Len(outgoing) < RingSize
     THEN outgoing' = Append(outgoing, block.call)
     ELSE UNCHANGED outgoing
  /\ UNCHANGED <<control_vars, playback, incoming, leg, heard>>

-----------------------------------------------------------------------------
Next ==
  \/ \E config \in Configs : Configure(config)
  \/ \E config \in Configs : Clear(config)
  \/ ClearIncoming
  \/ ClearOutgoing
  \/ CallUp
  \/ CallDown
  \/ BlockStart
  \/ BlockPull
  \/ BlockPush
  \/ BlockRoute
  \/ BlockMix
  \/ BlockSend

Spec == Init /\ [][Next]_vars

-----------------------------------------------------------------------------
(* Properties                                                              *)

(* The block's routing is mixed: what the device will play is decided.     *)
Mixed == block.at = "send"

Declares(channels, channel) == \E i \in DOMAIN channels : channels[i] = channel

(* Mix-minus: no device channel that carries sound to an endpoint carries  *)
(* any microphone of that endpoint, through whatever lines, bindings and   *)
(* positions the two meet. process() compares ids; that no other id stands *)
(* for the same hardware is for the refusals to establish.                 *)
MixMinus ==
  Mixed => \A channel \in Channels :
             \A t \in playback[channel].members :
               \A n \in DOMAIN block.routing.endpoints :
                 ~ /\ Declares(block.routing.endpoints[n].listen, channel)
                   /\ Declares(block.routing.endpoints[n].talk, t.from.channel)

(* The first member to bind the microphone that member k binds.            *)
FirstOf(config, members, k) ==
  CHOOSE j \in 1 .. k : /\ SameTalk(config, members[j], members[k])
                        /\ \A h \in 1 .. j - 1 : ~SameTalk(config, members[h], members[k])

(* How often line i brings a microphone to a playback channel.             *)
Copies(i, mic, channel) ==
  Cardinality({t \in playback[channel].members : t.line = i /\ t.from.channel = mic})

(* A member that listens on a line hears every other endpoint's microphone *)
(* on it exactly once, however many bindings name the two, and a           *)
(* microphone whose first binding is muted not at all.                     *)
HeardOnce ==
  Mixed =>
    \A i \in DOMAIN block.routing.lines :
      LET members == block.routing.lines[i].members
          Mic(k) == Capture(block.routing, members[k])
          Ear(l) == Playback(block.routing, members[l])
      IN \A k, l \in DOMAIN members :
           /\ members[k].talk # Unbound /\ members[l].listen # Unbound
           /\ members[k].endpoint # members[l].endpoint
           /\ Mic(k) \in Channels /\ Ear(l) \in Channels
           => Copies(i, Mic(k), Ear(l)) =
                IF members[FirstOf(block.routing, members, k)].mute THEN 0 ELSE 1

(* A channel some endpoint listens on carries nothing of the SIP lines,    *)
(* routed to or not; every other channel is as the lines left it.          *)
OnlyOwned ==
  Mixed => \A channel \in Channels :
             IF \E n \in DOMAIN block.routing.endpoints :
                  Declares(block.routing.endpoints[n].listen, channel)
             THEN ~playback[channel].lines
             ELSE playback[channel] = OfLines[channel]

(* The conference is heard on a channel exactly if a line that claims it   *)
(* feeds the channel, and every such channel carries the same samples of   *)
(* it in a block.                                                          *)
ConferenceWhereClaimed ==
  Mixed => \A channel \in Channels :
             {t.said : t \in playback[channel].conference} =
               IF \E line \in Claiming(block.routing) :
                    LET members == block.routing.lines[line].members
                    IN \E k \in DOMAIN members :
                         /\ members[k].listen # Unbound
                         /\ Playback(block.routing, members[k]) = channel
               THEN block.said
               ELSE {}

(* While its call is up the conference hears what the lines say in that    *)
(* call, the one block that was queued last excepted: its sides of the     *)
(* matrix exist only while it has a call (router.cpp, process_block).      *)
ConferenceHearsNow ==
  [][BlockPull /\ block.gate /\ outgoing' # << >> => heard' \subseteq {block.call}]_vars
=============================================================================
