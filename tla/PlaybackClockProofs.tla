------------------------- MODULE PlaybackClockProofs -------------------------
(***************************************************************************)
(* PlaybackClock for every device rate, period, codec rate and filter      *)
(* length: the call is taken at the device's pace, no conversion writes    *)
(* more than its caller has room for, and what comes out does not depend   *)
(* on how the stream was cut into blocks.                                  *)
(*                                                                         *)
(* The invariant says where the next output frame lies: produced * down    *)
(* parts along, of which an input frame is up; past the blocks that are    *)
(* done, and no further than a frame past what has been fed.               *)
(***************************************************************************)
EXTENDS PlaybackClock, TLAPS

-----------------------------------------------------------------------------
(* Division and products                                                   *)

LEMMA Divided ==
  ASSUME NEW a \in Int, NEW b \in Int, b > 0
  PROVE  a = b * (a \div b) + (a % b)
OBVIOUS

LEMMA DivMod ==
  ASSUME NEW a \in Nat, NEW b \in Nat \ {0}
  PROVE  a \div b \in Nat /\ a % b \in 0 .. b - 1 /\ a = b * (a \div b) + (a % b)
<1>1. a % b \in 0 .. b - 1
  OBVIOUS
<1>2. a = b * (a \div b) + (a % b)
  BY Divided
<1>3. a \div b \in Int
  OBVIOUS
<1>4. a \div b \in Nat
  <2> DEFINE q == a \div b
             r == a % b
  <2>1. a = b * q + r /\ r \in 0 .. b - 1 /\ q \in Int
    BY <1>1, <1>2, <1>3
  <2> HIDE DEF q, r
  <2>2. q >= 0
    <3> SUFFICES ASSUME q <= -1 PROVE FALSE
      BY <2>1
    <3>1. b * q <= b * (-1)
      BY <2>1
    <3> QED
      BY <2>1, <3>1
  <2> QED
    BY <2>1, <2>2 DEF q
<1> QED
  BY <1>1, <1>2, <1>4

LEMMA DivUnique ==
  ASSUME NEW a \in Nat, NEW b \in Nat \ {0}, NEW q \in Int, NEW r \in 0 .. b - 1,
         a = b * q + r
  PROVE  q = a \div b /\ r = a % b
OBVIOUS

LEMMA Cancel ==
  ASSUME NEW x \in Int, NEW y \in Int, NEW z \in Nat \ {0}
  PROVE  /\ x < y <=> x * z < y * z
         /\ x <= y <=> x * z <= y * z
OBVIOUS

(* a \div b is the number of whole b in a.                                 *)
LEMMA DivBelow ==
  ASSUME NEW a \in Nat, NEW b \in Nat \ {0}, NEW k \in Int
  PROVE  a \div b < k <=> a < k * b
<1> DEFINE q == a \div b
           r == a % b
<1>1. q \in Nat /\ r \in 0 .. b - 1 /\ a = b * q + r
  BY DivMod
<1> HIDE DEF q, r
<1>2. ASSUME q < k PROVE a < k * b
  <2>1. (q + 1) * b <= k * b
    BY <1>1, <1>2, Cancel
  <2> QED
    BY <1>1, <2>1
<1>3. ASSUME k <= q PROVE k * b <= a
  <2>1. k * b <= q * b
    BY <1>1, <1>3, Cancel
  <2> QED
    BY <1>1, <2>1
<1>4. a < k * b => ~(k * b <= a)
  OBVIOUS
<1> QED
  BY <1>1, <1>2, <1>3, <1>4 DEF q

LEMMA CeilingAbove ==
  ASSUME NEW a \in Nat, NEW b \in Nat \ {0}, NEW k \in Int, (k - 1) * b < a
  PROVE  Ceiling(a, b) \in Nat /\ k <= Ceiling(a, b)
<1>1. a + b - 1 \in Nat /\ k * b <= a + b - 1 /\ k * b \in Int
  OBVIOUS
<1>2. ~((a + b - 1) \div b < k) /\ (a + b - 1) \div b \in Nat
  BY <1>1, DivBelow, DivMod
<1> QED
  BY <1>2 DEF Ceiling

LEMMA CeilingIs ==
  ASSUME NEW a \in Nat, NEW b \in Nat \ {0}, NEW k \in Int, (k - 1) * b < a, a <= k * b
  PROVE  k = Ceiling(a, b)
<1>1. a + b - 1 \in Nat /\ a + b - 1 < (k + 1) * b
  OBVIOUS
<1>2. (a + b - 1) \div b < k + 1
  BY <1>1, DivBelow
<1> QED
  BY <1>2, CeilingAbove DEF Ceiling

-----------------------------------------------------------------------------
(* The invariant                                                           *)

(* Where the next output frame lies, however the conversion counts.        *)
Placed ==
  /\ Copies => taking = 0 /\ produced = input_frames
  /\ Polyphase => base = produced * down
  /\ Linear => position + input_frames * up = produced * down

(* Every frame up to the block at work is out, none is out too early, and  *)
(* the block's own are those past the earlier blocks.                      *)
Spaced ==
  /\ input_frames * up <= produced * down
  /\ (produced - 1) * down < Fed * up
  /\ taking > 0 => out <= produced /\ input_frames * up <= (produced - out) * down

(* The frames at hand are the stream's, those before its start silent.     *)
Remembered ==
  /\ Polyphase => \A j \in taps : history[j] = Frame(input_frames + j - Taps)
  /\ taking > 0 =>
       \A j \in 0 .. Taps + taking - 1 :
         Polyphase \/ j >= Taps => buffer[j] = Frame(input_frames + j - Taps)

(* What has been fed and what is owed make up what the device has counted. *)
Clocked == Fed * SampleRate + rx_accumulator = blocks * (PeriodFrames * sip_rate)

(* A period of whole codec frames leaves nothing owed, and a block gives   *)
(* what the blocks before it did not.                                      *)
Even == (PeriodFrames * sip_rate) % SampleRate = 0
WholePeriods ==
  Even =>
    /\ rx_accumulator = 0
    /\ blocks > 0 => out = produced - (blocks - 1) * PeriodFrames

ClockInv ==
  TypeOK /\ Placed /\ Spaced /\ Remembered /\ Clocked /\ WholePeriods /\ AsOneStream

(* What was put into the blocks that are done, where none was cut.         *)
Put ==
  /\ taking > 0 => blocks > 0
  /\ Even => played = (IF taking > 0 THEN blocks - 1 ELSE blocks) * PeriodFrames

(* What the constants and the types give.                                  *)
LEMMA Rates ==
  ASSUME TypeOK
  PROVE  /\ up \in Nat \ {0} /\ down \in Nat \ {0} /\ sip_rate \in Nat \ {0}
         /\ SampleRate \in Nat \ {0} /\ PeriodFrames \in Nat \ {0}
         /\ up * sip_rate = down * SampleRate
<1>1. sip_rate \in CodecRates /\ <<up, down>> = RatioOf[sip_rate]
  BY DEF TypeOK, ratio
<1>2. up = RatioOf[sip_rate][1] /\ down = RatioOf[sip_rate][2]
  BY <1>1
<1> QED
  BY <1>1, <1>2, ClockAssumption DEF TypeOK

(* What is out, measured in codec frames: all that came in, and less than  *)
(* one output frame more.                                                  *)
LEMMA Played ==
  ASSUME ClockInv, taking = 0
  PROVE  /\ input_frames * SampleRate <= produced * sip_rate
         /\ (produced - 1) * sip_rate < input_frames * SampleRate
<1> DEFINE u == up
           d == down
           n == produced
           f == input_frames
           c == sip_rate
           S == SampleRate
<1>1. u \in Nat \ {0} /\ d \in Nat \ {0} /\ c \in Nat \ {0} /\ S \in Nat \ {0}
      /\ u * c = d * S
  BY Rates DEF ClockInv
<1>2. n \in Nat /\ f \in Nat
  BY <1>1 DEF ClockInv, TypeOK
<1>3. f * u <= n * d /\ (n - 1) * d < f * u
  BY <1>2 DEF ClockInv, Spaced, Fed
<1> HIDE DEF u, d, n, f, c, S
<1>4. \A k \in Int : (k * d) * S = (k * c) * u
  <2> SUFFICES ASSUME NEW k \in Int PROVE (k * d) * S = (k * c) * u
    OBVIOUS
  <2>1. (k * d) * S = k * (d * S) /\ (k * c) * u = k * (u * c)
    BY <1>1
  <2> QED
    BY <1>1, <2>1
<1>5. (f * u) * S = (f * S) * u
  BY <1>1, <1>2
<1>6. (f * S) * u <= (n * c) * u
  BY <1>1, <1>2, <1>3, <1>4, <1>5, Cancel
<1>7. ((n - 1) * c) * u < (f * S) * u
  <2>1. ((n - 1) * d) * S < (f * u) * S
    BY <1>1, <1>2, <1>3, Cancel
  <2>2. ((n - 1) * d) * S = ((n - 1) * c) * u
    BY <1>2, <1>4
  <2> QED
    BY <1>5, <2>1, <2>2
<1>8. f * S <= n * c /\ (n - 1) * c < f * S
  BY <1>1, <1>2, <1>6, <1>7, Cancel
<1> QED
  BY <1>8 DEF n, c, f, S

(* The clocks.                                                             *)
LEMMA Drift ==
  ASSUME ClockInv PROVE KeepsPace
<1> SUFFICES ASSUME taking = 0
             PROVE  /\ produced <= blocks * PeriodFrames
                    /\ (blocks * PeriodFrames - produced) * sip_rate < SampleRate
  BY DEF KeepsPace
<1> DEFINE e == blocks * PeriodFrames
<1>1. /\ blocks \in Nat /\ PeriodFrames \in Nat /\ produced \in Nat /\ sip_rate \in Nat \ {0}
      /\ SampleRate \in Nat \ {0} /\ input_frames \in Nat /\ rx_accumulator \in 0 .. SampleRate - 1
  BY Rates DEF ClockInv, TypeOK
<1>2. input_frames * SampleRate + rx_accumulator = e * sip_rate /\ e \in Nat
  BY <1>1 DEF ClockInv, Clocked, Fed
<1> HIDE DEF e
<1>3. (produced - 1) * sip_rate < e * sip_rate
  BY <1>1, <1>2, Played
<1>4. produced <= e
  BY <1>1, <1>2, <1>3, Cancel
<1>5. (e - produced) * sip_rate = e * sip_rate - produced * sip_rate
  BY <1>1, <1>2
<1>6. (e - produced) * sip_rate < SampleRate
  BY <1>1, <1>2, <1>5, Played
<1> QED
  BY <1>4, <1>6 DEF e

(* The room a call needs.                                                  *)
LEMMA Fits ==
  ASSUME ClockInv PROVE FitsCapacity
<1> SUFFICES ASSUME taking > 0 PROVE out <= MaxOutputFrames(taking)
  BY DEF FitsCapacity
<1>1. /\ up \in Nat \ {0} /\ down \in Nat \ {0} /\ produced \in Nat /\ out \in Nat
      /\ input_frames \in Nat /\ taking \in Nat
  BY DEF ClockInv, TypeOK
<1>2. /\ (produced - 1) * down < (input_frames + taking) * up
      /\ input_frames * up <= (produced - out) * down
  BY DEF ClockInv, Spaced, Fed
<1>3. /\ (out - 1) * down = (produced - 1) * down - (produced - out) * down
      /\ (input_frames + taking) * up = input_frames * up + taking * up
  BY <1>1
<1>4. taking * up \in Nat /\ (out - 1) * down < taking * up
  BY <1>1, <1>2, <1>3
<1>5. Ceiling(taking * up, down) \in Nat /\ out <= Ceiling(taking * up, down)
  BY <1>1, <1>4, CeilingAbove
<1> QED
  BY <1>1, <1>5, TapsAssumption DEF MaxOutputFrames

(* What is out is all that fits in what came in.                           *)
LEMMA Exact ==
  ASSUME ClockInv PROVE ExactRatio
<1> SUFFICES ASSUME taking = 0 PROVE produced = Ceiling(input_frames * up, down)
  BY DEF ExactRatio
<1>1. up \in Nat \ {0} /\ down \in Nat \ {0} /\ produced \in Nat /\ input_frames \in Nat
  BY DEF ClockInv, TypeOK
<1>2. input_frames * up \in Nat /\ Fed = input_frames
  BY <1>1 DEF Fed
<1>3. input_frames * up <= produced * down /\ (produced - 1) * down < input_frames * up
  BY <1>2 DEF ClockInv, Spaced
<1> QED
  BY <1>1, <1>2, <1>3, CeilingIs

(* Blocks of whole codec frames.                                           *)
LEMMA OnTime ==
  ASSUME ClockInv, taking = 0, Even
  PROVE  produced = blocks * PeriodFrames
<1> DEFINE e == blocks * PeriodFrames
<1>1. /\ blocks \in Nat /\ PeriodFrames \in Nat /\ produced \in Nat /\ sip_rate \in Nat \ {0}
      /\ SampleRate \in Nat \ {0} /\ input_frames \in Nat
  BY Rates DEF ClockInv, TypeOK
<1>2. input_frames * SampleRate = e * sip_rate /\ e \in Nat
  BY <1>1 DEF ClockInv, Clocked, WholePeriods, Fed
<1>3. produced <= e
  BY Drift DEF KeepsPace
<1> HIDE DEF e
<1>4. e * sip_rate <= produced * sip_rate
  BY <1>1, <1>2, Played
<1>5. e <= produced
  BY <1>1, <1>2, <1>4, Cancel
<1>6. produced = e
  BY <1>1, <1>2, <1>3, <1>5
<1> QED
  BY <1>6 DEF e

Filled == taking = 0 /\ blocks > 0 /\ Even => out = PeriodFrames

LEMMA Full ==
  ASSUME ClockInv PROVE Filled
<1> SUFFICES ASSUME taking = 0, blocks > 0, Even
             PROVE  out = PeriodFrames
  BY DEF Filled
<1>1. blocks \in Nat /\ PeriodFrames \in Nat /\ produced \in Nat
  BY Rates DEF ClockInv, TypeOK
<1>2. out = produced - (blocks - 1) * PeriodFrames /\ produced = blocks * PeriodFrames
  BY OnTime DEF ClockInv, WholePeriods
<1> QED
  BY <1>1, <1>2

-----------------------------------------------------------------------------
(* The steps                                                               *)

LEMMA FrameType ==
  ASSUME stream \in Nat, NEW m \in Int
  PROVE  Frame(m) \in {Silence} \cup (Nat \X Nat)
BY DEF Frame

(* A new resampler and a cleared one: nothing fed, nothing out.            *)
LEMMA FreshStart ==
  ASSUME TypeOK, Cleared, taking' = 0, sip_rate' \in CodecRates, ratio' = RatioOf[sip_rate'],
         rx_accumulator' = 0, blocks' = 0, played' = 0
  PROVE  ClockInv'
<1>1. /\ base' = 0 /\ position' = 0 /\ input_frames' = 0 /\ out' = 0 /\ produced' = 0
      /\ history' = [j \in taps |-> Silence] /\ stream' \in Nat
  BY TapsAssumption DEF Cleared, TypeOK
<1>2. up' \in Nat \ {0} /\ down' \in Nat \ {0}
  <2>1. <<up', down'>> \in (Nat \ {0}) \X (Nat \ {0})
    BY ClockAssumption DEF ratio
  <2> QED
    BY <2>1
<1>3. sip_rate' \in Nat \ {0} /\ SampleRate \in Nat \ {0} /\ PeriodFrames \in Nat \ {0}
  BY ClockAssumption
<1>4. TypeOK'
  BY <1>1, <1>2, <1>3 DEF TypeOK
<1>5. Fed' = 0
  BY <1>1 DEF Fed
<1>6. /\ 0 * up' = 0 /\ 0 * down' = 0 /\ (0 - 1) * down' < 0
      /\ 0 * SampleRate = 0 /\ 0 * (PeriodFrames * sip_rate') = 0
  <2>1. \A k \in Nat \ {0} : 0 * k = 0 /\ (0 - 1) * k < 0
    OBVIOUS
  <2>2. \A j, k \in Nat \ {0} : j * k \in Nat \ {0}
    OBVIOUS
  <2>3. PeriodFrames * sip_rate' \in Nat \ {0}
    BY <1>3, <2>2
  <2>4. 0 * (PeriodFrames * sip_rate') = 0
    BY <2>1, <2>3
  <2> QED
    BY <1>2, <1>3, <2>1, <2>4
<1>7. Placed' /\ Spaced'
  BY <1>1, <1>5, <1>6 DEF Placed, Spaced
<1>8. Remembered'
  BY <1>1, TapsAssumption DEF Remembered, Frame, taps
<1>9. Clocked' /\ WholePeriods'
  BY <1>1, <1>5, <1>6 DEF Clocked, WholePeriods
<1>10. AsOneStream'
  BY <1>1 DEF AsOneStream
<1> QED
  BY <1>4, <1>7, <1>8, <1>9, <1>10 DEF ClockInv

LEMMA Starts == Init => ClockInv
<1> SUFFICES ASSUME Init PROVE ClockInv
  OBVIOUS
<1>1. /\ base = 0 /\ position = 0 /\ input_frames = 0 /\ out = 0 /\ produced = 0 /\ taking = 0
      /\ rx_accumulator = 0 /\ blocks = 0 /\ played = 0
      /\ history = [j \in taps |-> Silence] /\ stream \in Nat /\ sip_rate \in CodecRates
      /\ up = RatioOf[sip_rate][1] /\ down = RatioOf[sip_rate][2]
  BY DEF Init
<1>2. /\ up \in Nat \ {0} /\ down \in Nat \ {0} /\ ratio = RatioOf[sip_rate]
      /\ sip_rate \in Nat \ {0} /\ SampleRate \in Nat \ {0} /\ PeriodFrames \in Nat \ {0}
  BY <1>1, ClockAssumption DEF ratio
<1>3. TypeOK
  BY <1>1, <1>2 DEF TypeOK
<1>4. Placed /\ Spaced
  BY <1>1, <1>2 DEF Placed, Spaced, Fed
<1>5. Remembered
  BY <1>1, TapsAssumption DEF Remembered, Frame, taps
<1>6. Clocked /\ WholePeriods /\ AsOneStream
  BY <1>1, <1>2 DEF Clocked, WholePeriods, Fed, AsOneStream
<1> QED
  BY <1>3, <1>4, <1>5, <1>6 DEF ClockInv

(* A block: what it takes of the call, and what remains owed.              *)
LEMMA Taken ==
  ASSUME ClockInv, Block
  PROVE  \E n \in Nat :
           /\ rx_accumulator' \in 0 .. SampleRate - 1
           /\ (Fed + n) * SampleRate + rx_accumulator' = blocks' * (PeriodFrames * sip_rate)
           /\ Even => rx_accumulator' = 0
           /\ \/ Copy(n)
              \/ Process(n)
              \/ /\ n = 0 /\ out' = 0
                 /\ UNCHANGED <<ratio, place, call, produced, heard, stream>>
           /\ taking = 0 /\ blocks' = blocks + 1 /\ sip_rate' = sip_rate
<1> DEFINE w == PeriodFrames * sip_rate
           n == Owed \div SampleRate
           r == Owed % SampleRate
<1>1. /\ SampleRate \in Nat \ {0} /\ w \in Nat /\ rx_accumulator \in 0 .. SampleRate - 1
      /\ blocks \in Nat /\ Fed \in Nat
  BY Rates DEF ClockInv, TypeOK, Fed
<1>2. Owed \in Nat /\ Owed = rx_accumulator + w
  BY <1>1 DEF Owed
<1>3. n \in Nat /\ r \in 0 .. SampleRate - 1 /\ Owed = SampleRate * n + r
  BY <1>1, <1>2, DivMod
<1>4. /\ rx_accumulator' = Owed - n * SampleRate
      /\ \/ Copy(n)
         \/ Process(n)
         \/ /\ n = 0 /\ out' = 0
            /\ UNCHANGED <<ratio, place, call, produced, heard, stream>>
      /\ taking = 0 /\ blocks' = blocks + 1 /\ sip_rate' = sip_rate
  BY DEF Block
<1>5. Fed * SampleRate + rx_accumulator = blocks * w
  BY DEF ClockInv, Clocked
<1>6. ASSUME Even PROVE r = 0
  <2>1. rx_accumulator = 0
    BY <1>6 DEF ClockInv, WholePeriods
  <2>2. Owed = w
    BY <1>1, <1>2, <2>1
  <2> QED
    BY <1>6, <2>2 DEF Even
<1> HIDE DEF w, n, r
<1>7. rx_accumulator' = r
  BY <1>1, <1>2, <1>3, <1>4
<1>8. (Fed + n) * SampleRate + rx_accumulator' = blocks' * w
  <2>1. (Fed + n) * SampleRate = Fed * SampleRate + SampleRate * n
    BY <1>1, <1>3
  <2>2. blocks' * w = blocks * w + w
    BY <1>1, <1>4
  <2> QED
    BY <1>1, <1>2, <1>3, <1>5, <1>7, <2>1, <2>2
<1>9. (Fed + n) * SampleRate + rx_accumulator' = blocks' * (PeriodFrames * sip_rate)
  BY <1>8 DEF w
<1> QED
  BY <1>3, <1>4, <1>6, <1>7, <1>9

(* The conversion stays what it is while the ratio does.                   *)
LEMMA SameKind ==
  ASSUME UNCHANGED ratio
  PROVE  /\ up' = up /\ down' = down
         /\ Copies' = Copies /\ Polyphase' = Polyphase /\ Linear' = Linear
BY DEF ratio, Copies, Polyphase, Linear

LEMMA CopyKeeps ==
  ASSUME ClockInv, NEW n \in Nat, Copy(n)
  PROVE  Placed' /\ Spaced' /\ Remembered' /\ AsOneStream'
<1>1. /\ taking = 0 /\ n > 0 /\ Copies
      /\ out' = n /\ produced' = produced + n /\ input_frames' = input_frames + n
      /\ heard' = {<<0, Frame(input_frames + n - 1)>>}
      /\ taking' = 0 /\ stream' = stream /\ UNCHANGED ratio
  BY DEF Copy, call
<1>2. /\ up' = up /\ down' = up /\ Copies' /\ ~Polyphase' /\ ~Linear'
  BY <1>1, SameKind DEF Copies, Polyphase, Linear
<1>3. produced' = input_frames' /\ input_frames' \in Nat /\ up \in Nat \ {0}
  BY <1>1 DEF ClockInv, Placed, TypeOK
<1>4. Placed' /\ Remembered'
  BY <1>1, <1>2, <1>3 DEF Placed, Remembered
<1>5. Spaced'
  <2>1. \A k \in Nat : k * up <= k * up /\ (k - 1) * up < (k + 0) * up
    BY <1>3
  <2> QED
    BY <1>1, <1>2, <1>3, <2>1 DEF Spaced, Fed
<1>6. AsOneStream'
  <2>1. input_frames + n - 1 = produced' - 1
    BY <1>1, <1>3 DEF ClockInv, TypeOK
  <2> QED
    BY <1>1, <1>2, <2>1 DEF AsOneStream, Whole, Frame
<1> QED
  BY <1>4, <1>5, <1>6

LEMMA ProcessKeeps ==
  ASSUME ClockInv, NEW n \in Nat, Process(n)
  PROVE  Placed' /\ Spaced' /\ Remembered' /\ AsOneStream'
<1>1. /\ taking = 0 /\ n > 0 /\ ~Copies /\ taking' = n /\ out' = 0
      /\ buffer' = [j \in 0 .. Taps + n - 1 |->
                      IF j < Taps THEN history[j] ELSE Frame(input_frames + j - Taps)]
      /\ UNCHANGED <<base, position, input_frames, history, produced, stream>>
      /\ UNCHANGED ratio
  BY DEF Process, place
<1>2. up' = up /\ down' = down /\ Copies' = Copies /\ Polyphase' = Polyphase /\ Linear' = Linear
  BY <1>1, SameKind
<1>3. /\ up \in Nat \ {0} /\ down \in Nat \ {0} /\ produced \in Nat /\ input_frames \in Nat
      /\ base \in Nat /\ position \in Nat
  BY DEF ClockInv, TypeOK
<1>4. Placed'
  BY <1>1, <1>2 DEF ClockInv, Placed
<1>5. Spaced'
  <2>1. input_frames * up <= produced * down /\ (produced - 1) * down < input_frames * up
    BY <1>1, <1>3 DEF ClockInv, Spaced, Fed
  <2>2. input_frames * up <= (input_frames + n) * up
    BY <1>3
  <2>3. (produced - 1) * down < (input_frames + n) * up /\ produced - 0 = produced
    BY <1>3, <2>1, <2>2
  <2> QED
    BY <1>1, <1>2, <1>3, <2>1, <2>3 DEF Spaced, Fed
<1>6. Remembered'
  <2>1. \A m \in Int : Frame(m)' = Frame(m)
    BY <1>1 DEF Frame
  <2>2. \A j \in 0 .. Taps + n - 1 : Polyphase \/ j >= Taps
                                       => buffer'[j] = Frame(input_frames + j - Taps)
    BY <1>1, TapsAssumption DEF ClockInv, Remembered, taps
  <2>3. \A j \in 0 .. Taps + n - 1 : input_frames + j - Taps \in Int /\ j \in Int
    BY <1>3, TapsAssumption
  <2>4. \A j \in taps : j \in 0 .. Taps + n - 1
    BY TapsAssumption DEF taps
  <2>5. Polyphase => \A j \in taps : history[j] = Frame(input_frames + j - Taps)
    BY DEF ClockInv, Remembered
  <2> QED
    BY <1>1, <1>2, <2>1, <2>2, <2>3, <2>4, <2>5 DEF Remembered
<1>7. AsOneStream'
  BY <1>1 DEF AsOneStream
<1> QED
  BY <1>4, <1>5, <1>6, <1>7

LEMMA CutType ==
  ASSUME NEW n \in Nat
  PROVE  Cut(n) \in Nat /\ (n = PeriodFrames => Cut(n) = PeriodFrames)
BY ClockAssumption DEF Cut

LEMMA BlockKeeps ==
  ASSUME ClockInv, Block PROVE ClockInv'
<1>1. PICK n \in Nat :
           /\ rx_accumulator' \in 0 .. SampleRate - 1
           /\ (Fed + n) * SampleRate + rx_accumulator' = blocks' * (PeriodFrames * sip_rate)
           /\ Even => rx_accumulator' = 0
           /\ \/ Copy(n)
              \/ Process(n)
              \/ /\ n = 0 /\ out' = 0
                 /\ UNCHANGED <<ratio, place, call, produced, heard, stream>>
           /\ taking = 0 /\ blocks' = blocks + 1 /\ sip_rate' = sip_rate
  BY Taken
<1>2. TypeOK /\ blocks \in Nat /\ produced \in Nat /\ PeriodFrames \in Nat
      /\ input_frames \in Nat /\ taking \in Nat /\ stream \in Nat
  BY ClockAssumption DEF ClockInv, TypeOK
<1>3. TypeOK'
  <2>0. played' \in Nat
    <3>1. out' \in Nat /\ played \in Nat
      BY <1>1, <1>2 DEF Copy, Process, TypeOK
    <3>2. played' = played \/ played' = played + Cut(out')
      BY DEF Block
    <3> QED
      BY <3>1, <3>2, CutType
  <2>1. ratio' = ratio
    BY <1>1 DEF Copy, Process
  <2>2. CASE Copy(n)
    BY <1>1, <1>2, <2>0, <2>1, <2>2, SameKind DEF Copy, call, TypeOK
  <2>3. CASE Process(n)
    <3>1. buffer' \in [0 .. Taps + n - 1 -> {Silence} \cup (Nat \X Nat)]
      <4>1. \A j \in 0 .. Taps + n - 1 : j < Taps => j \in taps
        BY TapsAssumption DEF taps
      <4>2. \A j \in 0 .. Taps + n - 1 : input_frames + j - Taps \in Int
        BY <1>2, TapsAssumption
      <4>3. buffer' = [j \in 0 .. Taps + n - 1 |->
                      IF j < Taps THEN history[j] ELSE Frame(input_frames + j - Taps)]
        BY <2>3 DEF Process
      <4> QED
        BY <1>2, <4>1, <4>2, <4>3, FrameType DEF TypeOK
    <3> QED
      BY <1>1, <1>2, <2>0, <2>1, <2>3, <3>1, SameKind DEF Process, place, TypeOK
  <2>4. CASE out' = 0 /\ UNCHANGED <<ratio, place, call, produced, heard, stream>>
    BY <1>1, <1>2, <2>0, <2>4, SameKind DEF place, call, TypeOK
  <2> QED
    BY <1>1, <2>2, <2>3, <2>4
<1>4. Placed' /\ Spaced' /\ Remembered' /\ AsOneStream'
  <2>1. CASE out' = 0 /\ UNCHANGED <<ratio, place, call, produced, heard, stream>>
    <3>1. UNCHANGED <<base, position, input_frames, history, taking, buffer, produced, stream>>
      BY <2>1 DEF place, call
    <3>2. up' = up /\ down' = down /\ Copies' = Copies /\ Polyphase' = Polyphase /\ Linear' = Linear
      BY <2>1, SameKind
    <3> QED
      BY <1>1, <2>1, <3>1, <3>2 DEF ClockInv, Placed, Spaced, Fed, Remembered, Frame, AsOneStream
  <2> QED
    BY <1>1, <2>1, CopyKeeps, ProcessKeeps
<1>5. Fed' = Fed + n
  BY <1>1, <1>2 DEF Copy, Process, place, call, Fed
<1>6. Clocked'
  BY <1>1, <1>5 DEF Clocked
<1>7. WholePeriods'
  <2> SUFFICES ASSUME Even' PROVE rx_accumulator' = 0 /\ out' = produced' - (blocks' - 1) * PeriodFrames
    BY DEF WholePeriods
  <2>1. Even
    BY <1>1 DEF Even
  <2>2. produced = blocks * PeriodFrames
    BY <1>1, <2>1, OnTime
  <2>3. blocks' - 1 = blocks
    BY <1>1, <1>2
  <2>4. out' = produced' - produced
    BY <1>1, <1>2 DEF Copy, Process
  <2> QED
    BY <1>1, <2>1, <2>2, <2>3, <2>4
<1> QED
  BY <1>3, <1>4, <1>6, <1>7 DEF ClockInv

(* The taps that reach a frame of the stream, and the frames the filter    *)
(* reaches, are the same: frame m under tap i where m + i is the newest.   *)
LEMMA TapOfFrame ==
  ASSUME NEW b \in Nat, NEW u \in Nat \ {0}, NEW T \in Nat \ {0}, NEW m \in Int, NEW i \in Int,
         m + i = b \div u
  PROVE  /\ (b % u) + i * u = b - m * u
         /\ b - m * u \in 0 .. T * u - 1 <=> i \in 0 .. T - 1
         /\ i >= 0 => m <= b
<1> DEFINE q == b \div u
           r == b % u
<1>1. q \in Nat /\ r \in 0 .. u - 1 /\ b = u * q + r
  BY DivMod
<1>2. q = m + i
  OBVIOUS
<1> HIDE DEF q, r
<1>3. b - m * u = r + i * u
  BY <1>1, <1>2
<1>4. i >= 0 <=> r + i * u >= 0
  <2>1. CASE i >= 0
    BY <1>1, <2>1
  <2>2. CASE i <= -1
    <3>1. i * u <= (-1) * u
      BY <2>2, Cancel
    <3> QED
      BY <1>1, <2>2, <3>1
  <2> QED
    BY <2>1, <2>2
<1>5. i < T <=> r + i * u < T * u
  <2>1. CASE i <= T - 1
    <3>1. i * u <= (T - 1) * u
      BY <2>1, Cancel
    <3> QED
      BY <1>1, <2>1, <3>1
  <2>2. CASE T <= i
    <3>1. T * u <= i * u
      BY <2>2, Cancel
    <3> QED
      BY <1>1, <2>2, <3>1
  <2> QED
    BY <2>1, <2>2
<1>6. i >= 0 => m <= b
  <2>1. q <= u * q
    BY <1>1
  <2> QED
    BY <1>1, <1>2, <2>1
<1>7. r + i * u \in 0 .. T * u - 1 <=> i \in 0 .. T - 1
  <2>1. i * u \in Int /\ T * u \in Int /\ r \in Int
    BY <1>1
  <2> QED
    BY <1>4, <1>5, <2>1
<1> QED
  BY <1>3, <1>6, <1>7 DEF r

(* The window the filter is laid over is the one the whole stream has.     *)
LEMMA WindowIsWhole ==
  ASSUME ClockInv, Polyphase, taking > 0, PolyphaseDue
  PROVE  Window(Taps - input_frames) = Whole(produced)
<1> DEFINE q == base \div up
           r == base % up
           index(i) == q - i + (Taps - input_frames)
           near == {i \in taps : index(i) \in 0 .. Taps + taking - 1}
           heardTaps == {i \in near : buffer[index(i)] # Silence}
           reached == {m \in 0 .. base : base - m * up \in 0 .. Taps * up - 1}
<1>1. /\ up \in Nat \ {0} /\ base \in Nat /\ input_frames \in Nat /\ taking \in Nat
      /\ stream \in Nat /\ Taps \in Nat /\ Taps >= 4 /\ Silence \notin Nat \X Nat
  BY TapsAssumption DEF ClockInv, TypeOK
<1>2. base = produced * down /\ ~Copies
  BY DEF ClockInv, Placed, Polyphase
<1>3. q \in Nat /\ input_frames <= q /\ q < input_frames + taking
  <2>1. ~(base < input_frames * up) /\ input_frames * up \in Int
    <3>1. input_frames * up <= base
      BY <1>2 DEF ClockInv, Spaced
    <3>2. input_frames * up \in Int
      BY <1>1
    <3> QED
      BY <1>1, <3>1, <3>2
  <2>2. ~(q < input_frames) /\ q \in Nat
    BY <1>1, <2>1, DivBelow, DivMod
  <2> QED
    BY <1>1, <2>2 DEF PolyphaseDue
<1>4. \A m, i \in Int : m + i = q =>
        /\ r + i * up = base - m * up
        /\ base - m * up \in 0 .. Taps * up - 1 <=> i \in 0 .. Taps - 1
        /\ i >= 0 => m <= base
  <2> SUFFICES ASSUME NEW m \in Int, NEW i \in Int, m + i = q
               PROVE  /\ r + i * up = base - m * up
                      /\ base - m * up \in 0 .. Taps * up - 1 <=> i \in 0 .. Taps - 1
                      /\ i >= 0 => m <= base
    OBVIOUS
  <2>1. Taps \in Nat \ {0} /\ base \in Nat /\ up \in Nat \ {0} /\ m + i = base \div up
    BY <1>1
  <2> QED
    BY <2>1, TapOfFrame
<1>5. \A i \in Int : index(i) \in 0 .. Taps + taking - 1 => buffer[index(i)] = Frame(q - i)
  <2> SUFFICES ASSUME NEW i \in Int, index(i) \in 0 .. Taps + taking - 1
               PROVE  buffer[index(i)] = Frame(q - i)
    OBVIOUS
  <2>1. buffer[index(i)] = Frame(input_frames + index(i) - Taps)
    BY DEF ClockInv, Remembered
  <2>2. input_frames + index(i) - Taps = q - i
    BY <1>1, <1>3
  <2> QED
    BY <2>1, <2>2
<1>6. \A m \in Int : Frame(m) # Silence <=> m >= 0
  BY <1>1 DEF Frame
<1>7. Window(Taps - input_frames) = {<<r + i * up, buffer[index(i)]>> : i \in heardTaps}
  BY DEF Window
<1>8. Whole(produced) = {<<base - m * up, Frame(m)>> : m \in reached}
  BY <1>2 DEF Whole
<1> HIDE DEF q, r
<1>9. ASSUME NEW i \in heardTaps
      PROVE  /\ q - i \in reached
             /\ <<r + i * up, buffer[index(i)]>> = <<base - (q - i) * up, Frame(q - i)>>
  <2>1. i \in Int /\ i \in 0 .. Taps - 1 /\ i >= 0 /\ q - i \in Int /\ (q - i) + i = q
    BY <1>1, <1>3 DEF taps
  <2>2. index(i) \in 0 .. Taps + taking - 1 /\ buffer[index(i)] # Silence
    OBVIOUS
  <2>3. buffer[index(i)] = Frame(q - i) /\ q - i >= 0
    BY <1>5, <1>6, <2>1, <2>2
  <2>4. r + i * up = base - (q - i) * up /\ q - i <= base
        /\ base - (q - i) * up \in 0 .. Taps * up - 1
    BY <1>4, <2>1
  <2>5. q - i \in 0 .. base
    BY <1>1, <2>1, <2>3, <2>4
  <2> QED
    BY <2>3, <2>4, <2>5
<1>10. ASSUME NEW m \in reached
       PROVE  /\ q - m \in heardTaps
              /\ <<r + (q - m) * up, buffer[index(q - m)]>> = <<base - m * up, Frame(m)>>
  <2>1. m \in Int /\ m >= 0 /\ q - m \in Int /\ m + (q - m) = q /\ q - (q - m) = m
    BY <1>1, <1>3
  <2>2. r + (q - m) * up = base - m * up /\ q - m \in 0 .. Taps - 1
    <3>1. base - m * up \in 0 .. Taps * up - 1
      OBVIOUS
    <3> QED
      BY <1>4, <2>1, <3>1
  <2>3. index(q - m) \in 0 .. Taps + taking - 1
    BY <1>1, <1>3, <2>1, <2>2
  <2>4. buffer[index(q - m)] = Frame(m) /\ Frame(m) # Silence
    BY <1>5, <1>6, <2>1, <2>3
  <2>5. q - m \in heardTaps
    BY <2>2, <2>3, <2>4 DEF taps
  <2> QED
    BY <2>2, <2>4, <2>5
<1> HIDE DEF reached, heardTaps, index
<1>11. Window(Taps - input_frames) \subseteq Whole(produced)
  BY <1>7, <1>8, <1>9
<1>12. Whole(produced) \subseteq Window(Taps - input_frames)
  BY <1>7, <1>8, <1>10
<1> QED
  BY <1>11, <1>12

(* The linear fallback falls between the frames the whole stream does.     *)
LEMMA BetweenIsWhole ==
  ASSUME ClockInv, Linear, taking > 0, LinearDue,
         NEW index, NEW next, index = position \div up,
         next = IF index + 1 < taking THEN index + 1 ELSE index
  PROVE  {<<up - (position % up), buffer[Taps + index]>>,
          <<position % up, buffer[Taps + next]>>} = Whole(produced)
<1> DEFINE n == produced * down
           m == input_frames + index
           after == IF m + 1 < Fed THEN m + 1 ELSE m
           r == position % up
<1>1. /\ up \in Nat \ {0} /\ down \in Nat /\ produced \in Nat /\ position \in Nat
      /\ input_frames \in Nat /\ taking \in Nat /\ Taps \in Nat
  BY TapsAssumption DEF ClockInv, TypeOK
<1>2. position + input_frames * up = n /\ n \in Nat /\ ~Copies /\ ~Polyphase
  BY <1>1 DEF ClockInv, Placed, Linear
<1>3. index \in Nat /\ r \in 0 .. up - 1 /\ position = up * index + r
  BY <1>1, DivMod
<1>4. index < taking
  BY <1>1, DivBelow DEF LinearDue
<1> HIDE DEF n, r
<1>5. m = n \div up /\ r = n % up
  <2>1. n = up * m + r /\ m \in Int
    BY <1>1, <1>2, <1>3
  <2> HIDE DEF m
  <2> QED
    BY <1>1, <1>2, <1>3, <2>1, DivUnique
<1>6. after = input_frames + next /\ next \in Nat /\ next < taking
  BY <1>1, <1>3, <1>4 DEF Fed
<1>7. \A k \in Nat : k < taking => buffer[Taps + k] = Frame(input_frames + k)
  <2> SUFFICES ASSUME NEW k \in Nat, k < taking
               PROVE  buffer[Taps + k] = Frame(input_frames + k)
    OBVIOUS
  <2>1. Taps + k \in 0 .. Taps + taking - 1 /\ Taps + k >= Taps
        /\ input_frames + (Taps + k) - Taps = input_frames + k
    BY <1>1
  <2> QED
    BY <2>1 DEF ClockInv, Remembered
<1>8. buffer[Taps + index] = Frame(m) /\ buffer[Taps + next] = Frame(after)
  BY <1>3, <1>4, <1>6, <1>7
<1>9. Whole(produced) = {<<up - r, Frame(m)>>, <<r, Frame(after)>>}
  BY <1>2, <1>5 DEF Whole, n
<1> QED
  BY <1>8, <1>9 DEF r

(* One output frame more: it was due, and the rest is as it was.           *)
LEMMA EmitKeeps ==
  ASSUME ClockInv, Emit PROVE ClockInv'
<1>1. /\ taking > 0 /\ (Polyphase \/ Linear) /\ ~Copies
      /\ out' = out + 1 /\ produced' = produced + 1
      /\ UNCHANGED <<input_frames, history, taking, buffer, stream>>
      /\ UNCHANGED <<sip_rate, rx_accumulator, blocks, played>>
      /\ UNCHANGED ratio
  BY DEF Emit, EmitPolyphase, EmitLinear, call, Polyphase, Linear
<1>2. up' = up /\ down' = down /\ Copies' = Copies /\ Polyphase' = Polyphase /\ Linear' = Linear
  BY <1>1, SameKind
<1>3. /\ up \in Nat \ {0} /\ down \in Nat \ {0} /\ produced \in Nat /\ out \in Nat
      /\ input_frames \in Nat /\ base \in Nat /\ position \in Nat /\ taking \in Nat
  BY DEF ClockInv, TypeOK
<1>4. /\ Polyphase => base' = base + down /\ base < Fed * up /\ heard' = Window(Taps - input_frames)
                      /\ position' = position /\ PolyphaseDue
      /\ Linear => position' = position + down /\ position < taking * up /\ base' = base /\ LinearDue
  <2>1. Fed \in Nat /\ (PolyphaseDue => base < Fed * up)
    BY <1>3, DivBelow DEF PolyphaseDue, Fed
  <2> QED
    BY <2>1 DEF Emit, EmitPolyphase, EmitLinear, LinearDue, Linear
<1>5. TypeOK'
  <2>1. base' \in Nat /\ position' \in Nat
    BY <1>1, <1>3, <1>4
  <2> QED
    BY <1>1, <1>2, <1>3, <2>1 DEF ClockInv, TypeOK
<1>6. (produced + 1) * down = produced * down + down
  BY <1>3
<1>7. Placed'
  <2>1. Polyphase => base = produced * down
    BY DEF ClockInv, Placed
  <2>2. Linear => position + input_frames * up = produced * down
    BY DEF ClockInv, Placed
  <2>3. Linear => (position + down) + input_frames * up = (produced + 1) * down
    <3>1. input_frames * up \in Int /\ produced * down \in Int
      BY <1>3
    <3> QED
      BY <1>3, <1>6, <2>2, <3>1
  <2> QED
    BY <1>1, <1>2, <1>4, <1>6, <2>1, <2>3 DEF Placed
<1>8. Spaced'
  <2>1. produced * down < Fed * up
    <3>1. CASE Polyphase
      BY <1>4, <3>1 DEF ClockInv, Placed
    <3>2. CASE Linear
      <4>1. position + input_frames * up = produced * down /\ position < taking * up
        BY <1>4, <3>2 DEF ClockInv, Placed
      <4>2. (input_frames + taking) * up = input_frames * up + taking * up
        BY <1>3
      <4> QED
        BY <1>3, <4>1, <4>2 DEF Fed
    <3> QED
      BY <1>1, <3>1, <3>2
  <2>2. input_frames * up <= (produced + 1) * down
    BY <1>3, <1>6 DEF ClockInv, Spaced
  <2>3. out <= produced /\ input_frames * up <= (produced - out) * down
    BY <1>1 DEF ClockInv, Spaced
  <2>4. out + 1 <= produced + 1 /\ (produced + 1) - (out + 1) = produced - out
        /\ (produced + 1) - 1 = produced
    BY <1>3, <2>3
  <2>5. Fed' = Fed
    BY <1>1 DEF Fed
  <2> QED
    BY <1>1, <1>2, <2>1, <2>2, <2>3, <2>4, <2>5 DEF Spaced
<1>9. Remembered'
  BY <1>1, <1>2 DEF ClockInv, Remembered, Frame
<1>10. Clocked'
  BY <1>1 DEF ClockInv, Clocked, Fed
<1>11. WholePeriods'
  <2>1. Even' = Even
    BY <1>1 DEF Even
  <2>2. ASSUME Even, blocks > 0
        PROVE  out + 1 = (produced + 1) - (blocks - 1) * PeriodFrames
    <3>1. out = produced - (blocks - 1) * PeriodFrames
      BY <2>2 DEF ClockInv, WholePeriods
    <3>2. (blocks - 1) * PeriodFrames \in Int
      BY ClockAssumption DEF ClockInv, TypeOK
    <3> QED
      BY <1>3, <3>1, <3>2
  <2> QED
    BY <1>1, <2>1, <2>2 DEF ClockInv, WholePeriods
<1>12. AsOneStream'
  <2>1. heard' = Whole(produced)
    <3>1. CASE Polyphase
      BY <1>1, <1>4, <3>1, WindowIsWhole
    <3>2. CASE Linear
      <4> DEFINE index == position \div up
                 next == IF index + 1 < taking THEN index + 1 ELSE index
      <4>1. heard' = {<<up - (position % up), buffer[Taps + index]>>,
                      <<position % up, buffer[Taps + next]>>}
        BY <3>2 DEF Emit, EmitPolyphase, EmitLinear, Linear
      <4> QED
        BY <1>1, <1>4, <3>2, <4>1, BetweenIsWhole
    <3> QED
      BY <1>1, <3>1, <3>2
  <2>2. produced' - 1 = produced
    BY <1>1, <1>3
  <2>3. \A m : Frame(m)' = Frame(m)
    BY <1>1 DEF Frame
  <2> QED
    BY <1>1, <1>2, <2>1, <2>2, <2>3 DEF AsOneStream, Whole, Fed
<1> QED
  BY <1>5, <1>7, <1>8, <1>9, <1>10, <1>11, <1>12 DEF ClockInv

(* The block is done: its newest frames are the history of the next.       *)
LEMMA DoneKeeps ==
  ASSUME ClockInv, Done PROVE ClockInv'
<1>1. /\ taking > 0 /\ taking' = 0 /\ input_frames' = input_frames + taking
      /\ UNCHANGED <<base, out, produced, heard, stream, buffer>>
      /\ UNCHANGED <<sip_rate, rx_accumulator, blocks>> /\ played' = played + Cut(out)
      /\ UNCHANGED ratio
  BY DEF Done, Finish, record
<1>2. up' = up /\ down' = down /\ Copies' = Copies /\ Polyphase' = Polyphase /\ Linear' = Linear
  BY <1>1, SameKind
<1>3. /\ up \in Nat \ {0} /\ down \in Nat \ {0} /\ produced \in Nat /\ out \in Nat
      /\ input_frames \in Nat /\ base \in Nat /\ position \in Nat /\ taking \in Nat /\ Fed \in Nat
      /\ stream \in Nat
  BY DEF ClockInv, TypeOK, Fed
<1>4. ~Copies /\ (Polyphase \/ Linear) /\ Fed' = Fed /\ Fed = input_frames'
  BY <1>1, <1>3 DEF ClockInv, Placed, Linear, Fed
<1>5. /\ Polyphase => /\ history' = [j \in taps |-> buffer[taking + j]] /\ position' = position
                      /\ Fed * up <= base
      /\ Linear => /\ position' = position - taking * up /\ history' = history
                   /\ taking * up <= position
  <2>1. ~PolyphaseDue => ~(base < Fed * up)
    BY <1>3, DivBelow DEF PolyphaseDue, Fed
  <2>2. Fed * up \in Int /\ taking * up \in Int
    BY <1>3
  <2> QED
    BY <1>3, <2>1, <2>2 DEF Done, Finish, LinearDue, Linear
<1>6. \A j \in taps : taking + j \in 0 .. Taps + taking - 1 /\ j \in Int
  BY <1>3, TapsAssumption DEF taps
<1>7. TypeOK'
  <2>1. position' \in Nat
    <3>1. ASSUME NEW k \in Int, k <= position PROVE position - k \in Nat
      BY <1>3, <3>1
    <3>2. taking * up \in Int
      BY <1>3
    <3> DEFINE k == taking * up
    <3>3. k <= position => position - k \in Nat
      <4>1. k \in Int
        BY <3>2
      <4> HIDE DEF k
      <4> QED
        BY <3>1, <4>1
    <3> QED
      BY <1>3, <1>4, <1>5, <3>3
  <2>2. history' \in [taps -> {Silence} \cup (Nat \X Nat)]
    <3>1. buffer \in [0 .. Taps + taking - 1 -> {Silence} \cup (Nat \X Nat)]
      BY <1>1 DEF ClockInv, TypeOK
    <3>2. history \in [taps -> {Silence} \cup (Nat \X Nat)]
      BY DEF ClockInv, TypeOK
    <3>3. ASSUME NEW j \in taps PROVE buffer[taking + j] \in {Silence} \cup (Nat \X Nat)
      <4>1. taking + j \in 0 .. Taps + taking - 1
        BY <1>6
      <4> DEFINE k == taking + j
      <4>2. k \in 0 .. Taps + taking - 1
        BY <4>1
      <4> HIDE DEF k
      <4>3. buffer[k] \in {Silence} \cup (Nat \X Nat)
        BY <3>1, <4>2
      <4> QED
        BY <4>3 DEF k
    <3>4. [j \in taps |-> buffer[taking + j]] \in [taps -> {Silence} \cup (Nat \X Nat)]
      BY <3>3
    <3> QED
      BY <1>4, <1>5, <3>2, <3>4
  <2> QED
    <3>1. Cut(out) \in Nat /\ played \in Nat
      BY <1>3, CutType DEF ClockInv, TypeOK
    <3>2. played' \in Nat
      BY <1>1, <3>1
    <3> QED
      BY <1>1, <1>2, <1>3, <2>1, <2>2, <3>2 DEF ClockInv, TypeOK
<1>8. (input_frames + taking) * up = input_frames * up + taking * up
  BY <1>3
<1>9. Placed'
  <2>1. Linear => (position - taking * up) + (input_frames + taking) * up = produced * down
    <3>1. Linear => position + input_frames * up = produced * down
      BY DEF ClockInv, Placed
    <3>2. input_frames * up \in Int /\ taking * up \in Int
      BY <1>3
    <3> QED
      BY <1>3, <1>8, <3>1, <3>2 DEF ClockInv, TypeOK
  <2> QED
    BY <1>1, <1>2, <1>4, <1>5, <2>1 DEF ClockInv, Placed
<1>10. Spaced'
  <2>1. Fed * up <= produced * down
    <3>1. CASE Polyphase
      BY <1>5, <3>1 DEF ClockInv, Placed
    <3>2. CASE Linear
      <4>1. position + input_frames * up = produced * down /\ taking * up <= position
        BY <1>5, <3>2 DEF ClockInv, Placed
      <4>2. input_frames * up \in Int /\ taking * up \in Int /\ position \in Int
        BY <1>3
      <4> QED
        BY <1>8, <4>1, <4>2 DEF Fed
    <3> QED
      BY <1>4, <3>1, <3>2
  <2>2. (produced - 1) * down < Fed * up
    BY DEF ClockInv, Spaced
  <2> QED
    BY <1>1, <1>2, <1>4, <2>1, <2>2 DEF Spaced
<1>11. Remembered'
  <2>1. ASSUME Polyphase, NEW j \in taps
        PROVE  buffer[taking + j] = Frame((input_frames + taking) + j - Taps)
    <3>1. buffer[taking + j] = Frame(input_frames + (taking + j) - Taps)
      BY <1>1, <1>6, <2>1 DEF ClockInv, Remembered
    <3>2. input_frames + (taking + j) - Taps = (input_frames + taking) + j - Taps
      BY <1>3, <1>6, TapsAssumption
    <3> QED
      BY <3>1, <3>2
  <2>2. \A m : Frame(m)' = Frame(m)
    BY <1>1 DEF Frame
  <2>3. Polyphase => \A j \in taps : history'[j] = Frame((input_frames + taking) + j - Taps)
    BY <1>5, <2>1
  <2> QED
    BY <1>1, <1>2, <2>2, <2>3 DEF Remembered, Frame
<1>12. Clocked'
  BY <1>1, <1>4 DEF ClockInv, Clocked
<1>13. WholePeriods'
  BY <1>1 DEF ClockInv, WholePeriods, Even
<1>14. AsOneStream'
  BY <1>1, <1>2, <1>4 DEF ClockInv, AsOneStream, Whole, Frame
<1> QED
  BY <1>7, <1>9, <1>10, <1>11, <1>12, <1>13, <1>14 DEF ClockInv

LEMMA FlushKeeps ==
  ASSUME ClockInv, Flush PROVE ClockInv'
<1>1. /\ TypeOK /\ Cleared /\ taking' = 0 /\ sip_rate' = sip_rate /\ ratio' = ratio
      /\ rx_accumulator' = 0 /\ blocks' = 0 /\ played' = 0
  BY DEF ClockInv, Flush, Reset, call
<1>2. sip_rate' \in CodecRates /\ ratio' = RatioOf[sip_rate']
  BY <1>1 DEF TypeOK
<1> QED
  BY <1>1, <1>2, FreshStart

LEMMA SetLineRateKeeps ==
  ASSUME ClockInv, NEW rate \in CodecRates, SetLineRate(rate) PROVE ClockInv'
<1>1. /\ TypeOK /\ Cleared /\ taking' = 0 /\ sip_rate' = rate
      /\ up' = RatioOf[rate][1] /\ down' = RatioOf[rate][2]
      /\ rx_accumulator' = 0 /\ blocks' = 0 /\ played' = 0
  BY DEF ClockInv, SetLineRate, Construct, call
<1>2. RatioOf[rate] \in (Nat \ {0}) \X (Nat \ {0})
  BY ClockAssumption
<1>3. sip_rate' \in CodecRates /\ ratio' = RatioOf[sip_rate']
  BY <1>1, <1>2 DEF ratio
<1> QED
  BY <1>1, <1>3, FreshStart

LEMMA StutterKeeps ==
  ASSUME ClockInv, UNCHANGED vars PROVE ClockInv'
<1>1. /\ UNCHANGED <<base, position, input_frames, history, buffer, taking>>
      /\ UNCHANGED <<out, produced, heard, stream, sip_rate, rx_accumulator, blocks, played>>
      /\ UNCHANGED ratio
  BY DEF vars, resampler, place, call, record
<1>2. up' = up /\ down' = down /\ Copies' = Copies /\ Polyphase' = Polyphase /\ Linear' = Linear
  BY <1>1, SameKind
<1>3. TypeOK' /\ Placed' /\ Spaced' /\ Remembered'
  BY <1>1, <1>2 DEF ClockInv, TypeOK, Placed, Spaced, Fed, Remembered, Frame
<1>4. Clocked' /\ WholePeriods' /\ AsOneStream'
  BY <1>1, <1>2 DEF ClockInv, Clocked, WholePeriods, Even, Fed, AsOneStream, Whole, Frame
<1> QED
  BY <1>3, <1>4 DEF ClockInv

LEMMA Steps == ClockInv /\ [Next]_vars => ClockInv'
<1> SUFFICES ASSUME ClockInv, [Next]_vars PROVE ClockInv'
  OBVIOUS
<1> QED
  BY BlockKeeps, EmitKeeps, DoneKeeps, FlushKeeps, SetLineRateKeeps, StutterKeeps DEF Next

(* A block that is done was full, so nothing of it was cut.                *)
LEMMA PutSteps ==
  ASSUME ClockInv, Filled', Put, [Next]_vars PROVE Put'
<1>1. /\ blocks \in Nat /\ played \in Nat /\ out \in Nat /\ taking \in Nat
      /\ PeriodFrames \in Nat \ {0} /\ TypeOK
  BY Rates DEF ClockInv, TypeOK
<1>2. CASE Block
  <2>1. /\ taking = 0 /\ blocks' = blocks + 1 /\ (Even' <=> Even)
        /\ played' = IF taking' = 0 THEN played + Cut(out') ELSE played
    BY <1>2 DEF Block, Even
  <2>2. taking' \in Nat
    <3>1. PICK n \in Nat : Copy(n) \/ Process(n) \/ UNCHANGED call
      BY <1>2, Taken
    <3> QED
      BY <1>1, <3>1 DEF Copy, Process, call
  <2>3. ASSUME Even PROVE played = blocks * PeriodFrames
    BY <2>1, <2>3 DEF Put
  <2>4. CASE taking' = 0
    <3>1. Even => Cut(out') = PeriodFrames
      BY <1>1, <2>1, <2>4, CutType DEF Filled
    <3>2. (blocks + 1) * PeriodFrames = blocks * PeriodFrames + PeriodFrames
      BY <1>1
    <3> QED
      BY <1>1, <2>1, <2>3, <2>4, <3>1, <3>2 DEF Put
  <2>5. CASE taking' > 0
    <3>1. played' = played /\ blocks' - 1 = blocks /\ blocks' > 0
      BY <1>1, <2>1, <2>5
    <3> QED
      BY <2>1, <2>3, <2>5, <3>1 DEF Put
  <2> QED
    BY <2>2, <2>4, <2>5
<1>3. CASE Done
  <2>1. /\ taking > 0 /\ taking' = 0 /\ blocks' = blocks /\ out' = out /\ (Even' <=> Even)
        /\ played' = played + Cut(out)
    BY <1>3 DEF Done, Finish, record, Even
  <2>2. blocks > 0 /\ (Even => played = (blocks - 1) * PeriodFrames)
    BY <2>1 DEF Put
  <2>3. Even => Cut(out) = PeriodFrames
    BY <1>1, <2>1, <2>2, CutType DEF Filled
  <2>4. (blocks - 1) * PeriodFrames + PeriodFrames = blocks * PeriodFrames
    BY <1>1
  <2> QED
    BY <1>1, <2>1, <2>2, <2>3, <2>4 DEF Put
<1>4. CASE Emit \/ UNCHANGED vars
  <2>1. UNCHANGED <<taking, blocks, played, sip_rate>>
    BY <1>4 DEF Emit, EmitPolyphase, EmitLinear, vars, resampler, call
  <2> QED
    BY <2>1 DEF Put, Even
<1>5. CASE Flush \/ \E rate \in CodecRates : SetLineRate(rate)
  <2>1. taking' = 0 /\ blocks' = 0 /\ played' = 0
    BY <1>5 DEF Flush, SetLineRate, Reset, Construct, call
  <2>2. 0 * PeriodFrames = 0
    BY <1>1
  <2> QED
    BY <2>1, <2>2 DEF Put
<1> QED
  BY <1>2, <1>3, <1>4, <1>5 DEF Next

-----------------------------------------------------------------------------
(* The results                                                             *)

LEMMA Invariant == Spec => []ClockInv
BY Starts, Steps, PTL DEF Spec

(* The counters of the conversion and what is owed keep their types.       *)
THEOREM ClockTypes == Spec => []TypeOK
<1>1. ClockInv => TypeOK
  BY DEF ClockInv
<1> QED
  BY <1>1, Invariant, PTL

(* However long the call and whatever the two rates, what was taken of it   *)
(* and converted, and what the device has counted, are never a codec frame *)
(* apart. What is played may be less, where a block is cut.                *)
THEOREM CallKeepsPace == Spec => []KeepsPace
BY Drift, Invariant, PTL

(* Where a period is a whole number of codec frames, every block the       *)
(* device takes is filled to its last frame, and all that was converted    *)
(* has been played.                                                        *)
THEOREM BlocksFilled == Spec => []EveryBlockFull
<1>1. Init => Put
  <2> SUFFICES ASSUME Init PROVE Put
    OBVIOUS
  <2>1. taking = 0 /\ blocks = 0 /\ played = 0 /\ 0 * PeriodFrames = 0
    BY ClockAssumption DEF Init
  <2> QED
    BY <2>1 DEF Put
<1>2. ClockInv => Filled
  BY Full
<1>3. ClockInv /\ Filled' /\ Put /\ [Next]_vars => Put'
  BY PutSteps
<1>4. ClockInv /\ Filled /\ Put => EveryBlockFull
  <2> SUFFICES ASSUME ClockInv, Filled, Put, taking = 0, blocks > 0, Even
               PROVE  out = PeriodFrames /\ played = produced /\ played = blocks * PeriodFrames
    BY DEF EveryBlockFull, Even
  <2>1. produced = blocks * PeriodFrames
    BY OnTime
  <2>2. played = blocks * PeriodFrames
    BY DEF Put
  <2>3. out = PeriodFrames
    BY DEF Filled
  <2> QED
    BY <2>1, <2>2, <2>3
<1> QED
  BY <1>1, <1>2, <1>3, <1>4, Invariant, PTL DEF Spec

(* max_output_frames is room enough for every ratio, wherever in the       *)
(* stream a block begins.                                                  *)
THEOREM RoomEnough == Spec => []FitsCapacity
BY Fits, Invariant, PTL

(* How a stream is cut into blocks cannot be heard: every output frame is  *)
(* made of the frames the conversion of the whole stream makes it of.      *)
THEOREM OneStream == Spec => []AsOneStream
<1>1. ClockInv => AsOneStream
  BY DEF ClockInv
<1> QED
  BY <1>1, Invariant, PTL

(* Nothing is lost or made up in the conversion: between blocks exactly so *)
(* many frames are out as fit in what came in.                             *)
THEOREM ConvertsExactly == Spec => []ExactRatio
BY Exact, Invariant, PTL
=============================================================================
