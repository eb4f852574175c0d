------------------------------ MODULE Resampler ------------------------------
(***************************************************************************)
(* Resampler: a stream of frames converted from one rate to another, block *)
(* by block. A frame is what it is the how-manieth of, and an output frame *)
(* is the set of input frames that went into it, each with the coefficient *)
(* (polyphase) or the weight in parts of `up` (linear) it went in with. So *)
(* it can be told whether an output frame is made of the right ones.       *)
(*                                                                         *)
(* Positions are exact; the linear fallback's is a double in the code. One *)
(* channel, as the router has it. The filter's coefficients are not here.  *)
(***************************************************************************)
EXTENDS Integers

CONSTANTS
  Taps,    \* taps_
  Silence, \* a sample of history_ nothing has been written to
  Streams  \* bound: how many streams, one after the other, are told apart

ASSUME TapsAssumption ==
  /\ Taps \in Nat /\ Taps >= 4 /\ Streams \in Nat \ {0}
  /\ Silence \notin Nat \X Nat

VARIABLES
  up, down,     \* up_ and down_: the ratio in lowest terms
  base,         \* base_
  position,     \* position_ of the linear fallback, in parts of `up`
  input_frames, \* input_frames_; counted for every kind of conversion
  history,      \* history_
  buffer,       \* the block at work, preceded by the history
  taking,       \* in_frames of the call at work, 0 between calls
  out,          \* frames written by this call, or by the last
  produced,     \* history: frames written since reset()
  heard,        \* history: what the last of them is made of
  stream        \* history: which stream this is

taps == 0 .. Taps - 1
ratio == <<up, down>>
place == <<base, position, input_frames, history>>
call == <<buffer, taking>>
record == <<out, produced, heard>>
resampler == <<ratio, place, call, record, stream>>

(* Which of the three ways process() goes.                                 *)
Copies == up = down
Polyphase == ~Copies /\ up <= 32 /\ down <= 32 /\ up * down <= 64
Linear == ~Copies /\ ~Polyphase

(* The m-th frame since reset(), and what precedes the first.              *)
Frame(m) == IF m < 0 THEN Silence ELSE <<stream, m>>

Ceiling(a, b) == (a + b - 1) \div b

(* A mistake: the ratio is the wrong way round.                            *)
MaxOutputFramesSwapped(in) == Ceiling(in * down, up) + Taps + 4
(* max_output_frames: what the caller has room for.                        *)
MaxOutputFrames(in) == Ceiling(in * up, down) + Taps + 4

-----------------------------------------------------------------------------
(* A new resampler, and reset(): as if nothing had been fed.               *)
Cleared ==
  /\ base' = 0 /\ position' = 0 /\ input_frames' = 0
  /\ history' = [j \in taps |-> Silence]
  /\ out' = 0 /\ produced' = 0 /\ heard' = {}
  /\ stream' = (stream + 1) % Streams

Construct(r) ==
  /\ taking = 0
  /\ up' = r[1] /\ down' = r[2]
  /\ Cleared
  /\ UNCHANGED call

(* A mistake: the delay line is kept.                                      *)
ResetKeepsHistory ==
  /\ taking = 0
  /\ base' = 0 /\ position' = 0 /\ input_frames' = 0
  /\ out' = 0 /\ produced' = 0 /\ heard' = {}
  /\ stream' = (stream + 1) % Streams
  /\ UNCHANGED <<ratio, history, call>>

Reset == taking = 0 /\ Cleared /\ UNCHANGED <<ratio, call>>

(* process() of a block: copied as it is if the rates are the same.        *)
Copy(in) ==
  /\ taking = 0 /\ in > 0 /\ Copies
  /\ out' = in /\ produced' = produced + in
  /\ input_frames' = input_frames + in
  /\ heard' = {<<0, Frame(input_frames + in - 1)>>}
  /\ UNCHANGED <<ratio, base, position, history, call, stream>>

Process(in) ==
  /\ taking = 0 /\ in > 0 /\ ~Copies
  /\ taking' = in /\ out' = 0
  /\ buffer' = [j \in 0 .. Taps + in - 1 |->
                  IF j < Taps THEN history[j] ELSE Frame(input_frames + j - Taps)]
  /\ UNCHANGED <<ratio, place, produced, heard, stream>>

(* The next frame, while there is input for it: base_ \div up_ is the      *)
(* newest frame it needs, base_ % up_ the phase of the filter.             *)
PolyphaseDue == base \div up < input_frames + taking

Window(offset) ==
  LET index(i) == base \div up - i + offset
      there == {i \in taps : index(i) \in 0 .. Taps + taking - 1}
  IN {<<(base % up) + i * up, buffer[index(i)]>> :
        i \in {i \in there : buffer[index(i)] # Silence}}

EmitPolyphase ==
  /\ taking > 0 /\ Polyphase /\ PolyphaseDue
  /\ heard' = Window(Taps - input_frames)
  /\ out' = out + 1 /\ produced' = produced + 1
  /\ base' = base + down
  /\ UNCHANGED <<ratio, position, input_frames, history, call, stream>>

(* Between a frame and the next, or itself if it is the block's last.      *)
LinearDue == position < taking * up

EmitLinear ==
  /\ taking > 0 /\ Linear /\ LinearDue
  /\ LET index == position \div up
         next == IF index + 1 < taking THEN index + 1 ELSE index
     IN heard' = {<<up - (position % up), buffer[Taps + index]>>,
                  <<position % up, buffer[Taps + next]>>}
  /\ out' = out + 1 /\ produced' = produced + 1
  /\ position' = position + down
  /\ UNCHANGED <<ratio, base, input_frames, history, call, stream>>

(* A mistake: positions restart with each call.                           *)
FinishRestarts ==
  /\ taking > 0
  /\ IF Polyphase
     THEN /\ ~PolyphaseDue
          /\ history' = [j \in taps |-> buffer[taking + j]]
          /\ UNCHANGED position
     ELSE /\ ~LinearDue
          /\ position' = position - taking * up
          /\ UNCHANGED history
  /\ input_frames' = input_frames + taking
  /\ taking' = 0
  /\ base' = 0
  /\ UNCHANGED <<ratio, buffer, record, stream>>

(* The block has given all it can. Its newest frames are kept as history   *)
(* (polyphase), or the position becomes one in the next (linear).          *)
Finish ==
  /\ taking > 0
  /\ IF Polyphase
     THEN /\ ~PolyphaseDue
          /\ history' = [j \in taps |-> buffer[taking + j]]
          /\ UNCHANGED position
     ELSE /\ ~LinearDue
          /\ position' = position - taking * up
          /\ UNCHANGED history
  /\ input_frames' = input_frames + taking
  /\ taking' = 0
  /\ UNCHANGED <<ratio, base, buffer, record, stream>>

-----------------------------------------------------------------------------
(* The conversion of the whole stream at once                              *)

(* Everything fed so far.                                                  *)
Fed == input_frames + taking

(* Output frame n: the filter moved n * down parts along, of which a frame *)
(* is up; the two frames it falls between; or the n-th itself.             *)
Whole(n) ==
  IF Copies THEN {<<0, Frame(n)>>}
  ELSE IF Polyphase
  THEN {<<n * down - m * up, Frame(m)>> :
          m \in {m \in 0 .. n * down : n * down - m * up \in 0 .. Taps * up - 1}}
  ELSE LET m == (n * down) \div up
           next == IF m + 1 < Fed THEN m + 1 ELSE m
       IN {<<up - ((n * down) % up), Frame(m)>>, <<(n * down) % up, Frame(next)>>}

(* However the stream is cut into blocks, each output frame is the one the *)
(* conversion of the whole stream has in its place, and none is made of    *)
(* anything from before the last reset(). The linear fallback alone shows  *)
(* where a block ended, in that it does not wait for the next frame.       *)
AsOneStream == out > 0 => heard = Whole(produced - 1)

(* Nothing is lost or made up over time: so many frames are out as fit in  *)
(* what came in.                                                           *)
ExactRatio == taking = 0 => produced = Ceiling(input_frames * up, down)

(* No call writes more than its caller has been told to make room for.     *)
FitsCapacity == taking > 0 => out <= MaxOutputFrames(taking)
=============================================================================
