---------------------------- MODULE PlaybackClock ----------------------------
(***************************************************************************)
(* AudioRouter::process_block from the PBX towards the device: how many    *)
(* frames of the call a block takes, so that the device's clock and the    *)
(* codec's stay together, what the line's resampler makes of them, and how *)
(* much of that the block has room for. The line may send, and no tone is  *)
(* played. Its rate may change with a call, and a flush starts it afresh.  *)
(***************************************************************************)
EXTENDS Resampler

CONSTANTS
  SampleRate,   \* format_.sample_rate
  PeriodFrames, \* format_.period_frames
  CodecRates,   \* rates a call may have
  RatioOf,      \* RatioOf[rate] = <<up_, down_>> of the resampler to_aes67
  MaxBlocks     \* bound: blocks between two flushes

ASSUME ClockAssumption ==
  /\ SampleRate \in Nat \ {0} /\ PeriodFrames \in Nat \ {0}
  /\ CodecRates \subseteq Nat \ {0} /\ CodecRates # {}
  /\ RatioOf \in [CodecRates -> (Nat \ {0}) \X (Nat \ {0})]
  /\ \A r \in CodecRates : RatioOf[r][1] * r = RatioOf[r][2] * SampleRate
  /\ MaxBlocks \in Nat

VARIABLES
  sip_rate,       \* Line::sip_rate
  rx_accumulator, \* Line::rx_accumulator, in parts of a codec frame
  blocks,         \* history: blocks since the line was last flushed
  played          \* history: frames of the call put into those blocks

vars == <<resampler, sip_rate, rx_accumulator, blocks, played>>

TypeOK ==
  /\ up \in Nat \ {0} /\ down \in Nat \ {0}
  /\ base \in Nat /\ position \in Nat /\ input_frames \in Nat
  /\ history \in [taps -> {Silence} \cup (Nat \X Nat)]
  /\ taking > 0 => buffer \in [0 .. Taps + taking - 1 -> {Silence} \cup (Nat \X Nat)]
  /\ taking \in Nat /\ out \in Nat /\ produced \in Nat
  /\ stream \in Nat
  /\ sip_rate \in CodecRates /\ ratio = RatioOf[sip_rate]
  /\ rx_accumulator \in 0 .. SampleRate - 1
  /\ blocks \in Nat /\ played \in Nat

Init ==
  /\ sip_rate \in CodecRates
  /\ up = RatioOf[sip_rate][1] /\ down = RatioOf[sip_rate][2]
  /\ base = 0 /\ position = 0 /\ input_frames = 0
  /\ history = [j \in taps |-> Silence]
  /\ buffer = << >> /\ taking = 0
  /\ out = 0 /\ produced = 0 /\ heard = {}
  /\ stream = 0
  /\ rx_accumulator = 0 /\ blocks = 0 /\ played = 0

-----------------------------------------------------------------------------
(* A mistake: what is left of a codec frame is dropped with each block.    *)
OwedRounded == PeriodFrames * sip_rate
(* What the block owes the call, in parts of a frame of which SampleRate   *)
(* make one.                                                               *)
Owed == rx_accumulator + PeriodFrames * sip_rate

(* A block has room for PeriodFrames; what was converted beyond is lost.   *)
Cut(converted) == IF converted < PeriodFrames THEN converted ELSE PeriodFrames

(* A block: so many frames are read from the ring, or made up if it has    *)
(* less, and converted. A short period may owe none.                       *)
Block ==
  /\ taking = 0 /\ blocks < MaxBlocks
  /\ blocks' = blocks + 1
  /\ LET rx_needed == Owed \div SampleRate IN
       /\ rx_accumulator' = Owed - rx_needed * SampleRate
       /\ \/ Copy(rx_needed)
          \/ Process(rx_needed)
          \/ /\ rx_needed = 0
             /\ out' = 0
             /\ UNCHANGED <<ratio, place, call, produced, heard, stream>>
  /\ played' = IF taking' = 0 THEN played + Cut(out') ELSE played
  /\ UNCHANGED sip_rate

Emit ==
  /\ EmitPolyphase \/ EmitLinear
  /\ UNCHANGED <<sip_rate, rx_accumulator, blocks, played>>

(* What was converted goes into the block.                                 *)
Done ==
  /\ Finish
  /\ played' = played + Cut(out)
  /\ UNCHANGED <<sip_rate, rx_accumulator, blocks>>

(* flush_requested: a call begins.                                         *)
Flush ==
  /\ Reset
  /\ rx_accumulator' = 0 /\ blocks' = 0 /\ played' = 0
  /\ UNCHANGED sip_rate

(* A mistake: the resampler is made for the rate there was.                *)
SetLineRateLate(rate) ==
  /\ Construct(RatioOf[sip_rate])
  /\ sip_rate' = rate
  /\ rx_accumulator' = 0 /\ blocks' = 0 /\ played' = 0

(* set_line_rate_locked: the call has another codec, or the line is new.   *)
SetLineRate(rate) ==
  /\ Construct(RatioOf[rate])
  /\ sip_rate' = rate
  /\ rx_accumulator' = 0 /\ blocks' = 0 /\ played' = 0

Next ==
  \/ Block \/ Emit \/ Done
  \/ Flush
  \/ \E rate \in CodecRates : SetLineRate(rate)

Spec == Init /\ [][Next]_vars

-----------------------------------------------------------------------------
(* The call is taken as fast as the device's clock runs: what was taken    *)
(* and converted and what that clock has counted are never a codec frame   *)
(* apart, however many blocks there have been. Not claimed of what was     *)
(* played: where a period is no whole number of codec frames, a block may  *)
(* convert more than it has room for (router.cpp:430), and that is lost.   *)
KeepsPace ==
  taking = 0 =>
    /\ produced <= blocks * PeriodFrames
    /\ (blocks * PeriodFrames - produced) * sip_rate < SampleRate

(* With a period that is a whole number of codec frames every block is     *)
(* filled to the last frame, and no frame of the call was ever cut off:    *)
(* all that was converted was played, and it is all the device counted.    *)
EveryBlockFull ==
  taking = 0 /\ blocks > 0 /\ (PeriodFrames * sip_rate) % SampleRate = 0
    => out = PeriodFrames /\ played = produced /\ played = blocks * PeriodFrames
=============================================================================
