--------------------------- MODULE LineAudioProofs ---------------------------
(***************************************************************************)
(* No call hears or plays what was said in an earlier one, for any number  *)
(* of calls, any rates and rings of any size.                              *)
(***************************************************************************)
EXTENDS LineAudio, TLAPS, SequenceTheorems

-----------------------------------------------------------------------------
(* Rings as sequences of call numbers                                      *)

LEMMA EmptyOnly == ASSUME NEW n PROVE Only(<< >>, n)
  BY SMT DEF Only

LEMMA AppendOnly ==
  ASSUME NEW S, NEW s \in Seq(S), NEW n \in S, Only(s, n)
  PROVE  Only(Append(s, n), n)
<1> USE DEF Only
<1>1. Len(Append(s, n)) = Len(s) + 1
  BY AppendProperties
<1>2. \A i \in 1 .. Len(s) : Append(s, n)[i] = s[i]
  BY AppendProperties
<1>3. Append(s, n)[Len(s) + 1] = n
  BY AppendProperties
<1>4. Len(s) \in Nat
  BY LenProperties
<1> QED BY <1>1, <1>2, <1>3, <1>4, SMT

LEMMA TailOnly ==
  ASSUME NEW S, NEW s \in Seq(S), s # << >>, NEW n, Only(s, n)
  PROVE  Only(Tail(s), n) /\ Head(s) = n
<1>1. Len(Tail(s)) = Len(s) - 1 /\ \A i \in 1 .. Len(Tail(s)) : Tail(s)[i] = s[i + 1]
  BY HeadTailProperties
<1>2. Head(s) = s[1] /\ Len(s) \in Nat /\ Len(s) > 0
  BY EmptySeq, LenProperties, HeadTailProperties, SMT
<1> QED BY <1>1, <1>2, SMT DEF Only

LEMMA Rings ==
  ASSUME NEW S, NEW s \in Seq(S), NEW n \in S
  PROVE  /\ << >> \in Seq(S) /\ Len(<< >>) = 0
         /\ Append(s, n) \in Seq(S) /\ Len(Append(s, n)) = Len(s) + 1
         /\ s # << >> => /\ Head(s) \in S /\ Tail(s) \in Seq(S)
                         /\ Len(Tail(s)) = Len(s) - 1
  BY AppendProperties, HeadTailProperties, EmptySeq, LenProperties, SMT

-----------------------------------------------------------------------------
(* The invariant                                                           *)

LEMMA ConstantFacts ==
  /\ DefaultRate \in Rates /\ 0 \notin Rates
  /\ MaxCalls \in Nat /\ RingSize \in Nat /\ RingSize > 0
  BY AudioAssumption, SMT

LEMMA CallType == TypeOK /\ [Next]_vars => CallTypeOK'
<1> SUFFICES ASSUME TypeOK, [Next]_vars PROVE CallTypeOK'
  OBVIOUS
<1> USE ConstantFacts DEF TypeOK, CallTypeOK, CallNumbers, rates
<1>1. CASE EngineStep
  BY <1>1, SMT DEF EngineStep, Connect, SetRate, OpenGate, CloseGate, RemovePort,
                   MediaStop
<1>2. CASE Pull \/ Push \/ Reapply \/ UNCHANGED vars
  BY <1>2, SMT DEF Pull, Push, Reapply, FreshLine, vars
<1>3. CASE BlockStep
  BY <1>3, SMT DEF BlockStep, BlockStart, BlockKeepRate, BlockSeeRate, BlockRebuild,
                   BlockFlush, BlockSend, BlockPlay, BlockAbandoned, Block, BlockTypeOK
<1> QED BY <1>1, <1>2, <1>3 DEF Next

LEMMA FlagsType == TypeOK /\ [Next]_vars => FlagsTypeOK'
<1> SUFFICES ASSUME TypeOK, [Next]_vars PROVE FlagsTypeOK'
  OBVIOUS
<1> USE DEF TypeOK, FlagsTypeOK
<1>1. CASE EngineStep
  BY <1>1, Zenon DEF EngineStep, Connect, SetRate, OpenGate, CloseGate, RemovePort,
                   MediaStop
<1>2. CASE Pull \/ Push \/ Reapply \/ UNCHANGED vars
  BY <1>2, Zenon DEF Pull, Push, Reapply, FreshLine, vars
<1>3. CASE BlockStep
  BY <1>3, Zenon DEF BlockStep, BlockStart, BlockKeepRate, BlockSeeRate, BlockRebuild,
                   BlockFlush, BlockSend, BlockPlay, BlockAbandoned
<1> QED BY <1>1, <1>2, <1>3 DEF Next

LEMMA BlockType == TypeOK /\ [Next]_vars => BlockTypeOK'
<1> SUFFICES ASSUME TypeOK, [Next]_vars PROVE BlockTypeOK'
  OBVIOUS
<1> USE DEF TypeOK, BlockTypeOK
<1>1. CASE EngineStep
  BY <1>1, SMT DEF EngineStep, Connect, SetRate, OpenGate, CloseGate, RemovePort,
                   MediaStop
<1>2. CASE Pull \/ Push \/ UNCHANGED vars
  BY <1>2, SMT DEF Pull, Push, vars
<1>3. CASE BlockStart
  <2>1. gate \in BOOLEAN /\ TRUE \in BOOLEAN
    BY Zenon DEF FlagsTypeOK
  <2>2. callNo \in CallNumbers /\ 0 \in Rates \cup {0} /\ "rate" # "rebuild"
    BY SMT DEF CallTypeOK
  <2>3. block' = [at |-> "rate", gate |-> gate, call |-> callNo, rate |-> 0,
                  own |-> TRUE]
    BY <1>3 DEF BlockStart
  <2> QED BY <2>1, <2>2, <2>3, Zenon
<1>4. CASE BlockSeeRate
  <2>1. pending \in Rates
    BY <1>4, SMT DEF BlockSeeRate, CallTypeOK
  <2>2. block' = [block EXCEPT !.at = "rebuild", !.rate = pending]
    BY <1>4 DEF BlockSeeRate
  <2>3. block' = [at |-> "rebuild", gate |-> block.gate, call |-> block.call,
                  rate |-> pending, own |-> block.own]
    BY <2>2, Zenon
  <2>4. block.gate \in BOOLEAN /\ block.call \in CallNumbers /\ block.own \in BOOLEAN
    BY Zenon
  <2> QED BY <2>1, <2>3, <2>4, Zenon
<1>5. CASE \/ BlockKeepRate \/ BlockRebuild \/ BlockFlush \/ BlockSend \/ BlockPlay
  <2>1. PICK to \in {"flush", "send", "play", "idle"} :
          block' = [block EXCEPT !.at = to]
    BY <1>5, SMT DEF BlockKeepRate, BlockRebuild, BlockFlush, BlockSend, BlockPlay,
                     Block
  <2> QED BY <2>1, SMT
<1>6. CASE BlockAbandoned
  <2>1. 0 \in CallNumbers
    BY ConstantFacts, SMT DEF CallNumbers
  <2> QED BY <1>6, <2>1, SMT DEF BlockAbandoned, Idle
<1>7. CASE Reapply
  <2>1. FALSE \in BOOLEAN
    OBVIOUS
  <2>2. CASE block' = block
    BY <2>2, SMT
  <2>3. CASE block' = [block EXCEPT !.own = FALSE]
    <3>1. block' = [at |-> block.at, gate |-> block.gate, call |-> block.call,
                    rate |-> block.rate, own |-> FALSE]
      BY <2>3, Zenon
    <3>2. /\ block.at \in {"idle", "rate", "rebuild", "flush", "send", "play"}
          /\ block.gate \in BOOLEAN
          /\ block.call \in CallNumbers
          /\ block.rate \in Rates \cup {0}
      BY Zenon
    <3> QED BY <2>1, <3>1, <3>2, Zenon
  <2>4. block' = block \/ block' = [block EXCEPT !.own = FALSE]
    BY <1>7, Zenon DEF Reapply
  <2> QED BY <2>2, <2>3, <2>4
<1> QED BY <1>1, <1>2, <1>3, <1>4, <1>5, <1>6, <1>7 DEF Next, BlockStep

LEMMA RingsType == TypeOK /\ [Next]_vars => RingsTypeOK' /\ OutputsTypeOK'
<1> SUFFICES ASSUME TypeOK, [Next]_vars PROVE RingsTypeOK' /\ OutputsTypeOK'
  OBVIOUS
<1> USE DEF TypeOK, RingsTypeOK, OutputsTypeOK
<1>1. CASE EngineStep
  BY <1>1, SMT DEF EngineStep, Connect, SetRate, OpenGate, CloseGate, RemovePort,
                   MediaStop, ring, outputs
<1>2. CASE Pull
  <2>1. CASE tx' = << >> /\ heard' = {}
    BY <1>2, <2>1, Rings, ConstantFacts, SMT DEF Pull
  <2>2. CASE tx # << >> /\ tx' = Tail(tx) /\ heard' = {Head(tx)}
    BY <1>2, <2>2, Rings, ConstantFacts, SMT DEF Pull
  <2> QED BY <1>2, <2>1, <2>2 DEF Pull
<1>3. CASE Push
  BY <1>3, Rings, ConstantFacts, SMT DEF Push, outputs, CallTypeOK
<1>4. CASE BlockStart \/ BlockKeepRate \/ BlockSeeRate \/ BlockRebuild
           \/ BlockAbandoned \/ UNCHANGED vars
  BY <1>4, SMT DEF BlockStart, BlockKeepRate, BlockSeeRate, BlockRebuild,
                   BlockAbandoned, vars, ring, outputs
<1>5. CASE BlockFlush
  BY <1>5, Rings, ConstantFacts, SMT DEF BlockFlush, outputs, CallTypeOK
<1>6. CASE BlockSend
  BY <1>6, Rings, ConstantFacts, SMT DEF BlockSend, outputs, BlockTypeOK
<1>7. CASE BlockPlay
  <2>1. CASE rx' = << >> /\ played' = {}
    BY <1>7, <2>1, Rings, ConstantFacts, SMT DEF BlockPlay, CallTypeOK
  <2>2. CASE rx # << >> /\ rx' = Tail(rx) /\ played' = {Head(rx)}
    BY <1>7, <2>2, Rings, ConstantFacts, SMT DEF BlockPlay
  <2> QED BY <1>7, <2>1, <2>2 DEF BlockPlay
<1>8. CASE Reapply
  BY <1>8, Rings, ConstantFacts, SMT DEF Reapply, FreshLine, outputs, CallTypeOK
<1> QED BY <1>1, <1>2, <1>3, <1>4, <1>5, <1>6, <1>7, <1>8 DEF Next, BlockStep

LEMMA InitInv == Init => TypeOK /\ AudioInv
<1> SUFFICES ASSUME Init PROVE TypeOK /\ AudioInv
  OBVIOUS
<1> USE ConstantFacts DEF Init
<1>1. 0 \in CallNumbers
  BY SMT DEF CallNumbers
<1>2. CallTypeOK /\ OutputsTypeOK
  BY <1>1, SMT DEF CallTypeOK, OutputsTypeOK
<1>3. FlagsTypeOK
  BY Zenon DEF FlagsTypeOK
<1>4. RingsTypeOK
  BY <1>1, Rings, SMT DEF RingsTypeOK
<1>5. BlockTypeOK
  BY <1>1, SMT DEF BlockTypeOK, Idle
<1>6. AudioInv
  BY SMT DEF AudioInv, GateNeedsMedia, PullsOwn, PlaysOwn, SendsOwn, BlockPlaysOwn,
             Working, Idle
<1> QED BY <1>2, <1>3, <1>4, <1>5, <1>6 DEF TypeOK

(* The rings never hold more than they can, and a line's media, rates and  *)
(* block are always what the code may find them to be.                     *)
THEOREM AudioTypeCorrect == Spec => []TypeOK
<1>1. Init => TypeOK
  BY InitInv
<1>2. TypeOK /\ [Next]_vars => TypeOK'
  BY CallType, FlagsType, BlockType, RingsType DEF TypeOK
<1> QED BY <1>1, <1>2, PTL DEF Spec

-----------------------------------------------------------------------------
(* One step of each thread keeps the audio apart                           *)

LEMMA EngineKeepsApart == TypeOK /\ AudioInv /\ EngineStep => AudioInv'
<1> SUFFICES ASSUME TypeOK, AudioInv, EngineStep PROVE AudioInv'
  OBVIOUS
<1> USE DEF AudioInv, Working, ring, outputs
<1>1. ASSUME NEW r \in Rates, Connect(r) PROVE AudioInv'
  <2>1. ~gate /\ gate' = gate
    BY <1>1 DEF Connect, GateNeedsMedia
  <2>2. ~Working /\ block' = block
    BY <1>1 DEF Connect
  <2> QED BY <2>1, <2>2 DEF GateNeedsMedia, PullsOwn, PlaysOwn, SendsOwn,
                            BlockPlaysOwn
<1>2. CASE OpenGate
  <2>1. ~gate
    BY <1>2 DEF OpenGate, GateNeedsMedia
  <2>2. flush' /\ ~primed' /\ media' = "up" /\ UNCHANGED <<callNo, rx, block>>
    BY <1>2, <2>1 DEF OpenGate
  <2> QED BY <2>2 DEF GateNeedsMedia, PullsOwn, PlaysOwn, SendsOwn, BlockPlaysOwn
<1>3. CASE SetRate \/ RemovePort
  <2>1. UNCHANGED <<gate, callNo, flush, primed, ring, block>>
    BY <1>3 DEF SetRate, RemovePort
  <2>2. GateNeedsMedia'
    BY <1>3 DEF SetRate, RemovePort, GateNeedsMedia
  <2> QED BY <2>1, <2>2 DEF PullsOwn, PlaysOwn, SendsOwn, BlockPlaysOwn
<1>4. CASE CloseGate \/ MediaStop
  <2>1. ~gate' /\ UNCHANGED <<callNo, flush, ring, block>>
    BY <1>4 DEF CloseGate, MediaStop
  <2> QED BY <2>1 DEF GateNeedsMedia, PullsOwn, PlaysOwn, SendsOwn, BlockPlaysOwn
<1> QED BY <1>1, <1>2, <1>3, <1>4 DEF EngineStep

LEMMA MediaKeepsApart == TypeOK /\ AudioInv /\ (Pull \/ Push) => AudioInv'
<1> SUFFICES ASSUME TypeOK, AudioInv, Pull \/ Push PROVE AudioInv'
  OBVIOUS
<1> USE DEF AudioInv, outputs
<1>1. tx \in Seq(CallNumbers) /\ rx \in Seq(CallNumbers) /\ callNo \in CallNumbers
  BY DEF TypeOK, RingsTypeOK, CallTypeOK
<1>2. UNCHANGED <<media, callNo, gate, flush, block>>
  BY DEF Pull, Push, rates
<1>3. GateNeedsMedia' /\ SendsOwn'
  BY <1>2 DEF GateNeedsMedia, SendsOwn, Working
<1>4. PullsOwn'
  <2>1. CASE Pull
    <3>1. CASE ~primed \/ tx = << >>
      BY <1>2, <2>1, <3>1, EmptyOnly DEF Pull, PullsOwn
    <3>2. CASE primed /\ tx # << >>
      <4>1. tx' = Tail(tx)
        BY <2>1, <3>2 DEF Pull
      <4>2. gate => Only(Tail(tx), callNo)
        BY <1>1, <3>2, TailOnly DEF PullsOwn
      <4> QED BY <1>2, <4>1, <4>2 DEF PullsOwn
    <3> QED BY <3>1, <3>2
  <2>2. CASE Push
    BY <2>2 DEF Push, PullsOwn
  <2> QED BY <2>1, <2>2
<1>5. rx' = rx \/ rx' = Append(rx, callNo)
  BY DEF Pull, Push
<1>6. Only(rx, callNo) => Only(rx', callNo)
  BY <1>1, <1>5, AppendOnly
<1>7. PlaysOwn' /\ BlockPlaysOwn'
  BY <1>2, <1>6 DEF PlaysOwn, BlockPlaysOwn, Working
<1> QED BY <1>3, <1>4, <1>7

LEMMA BlockKeepsApart == TypeOK /\ AudioInv /\ BlockStep => AudioInv'
<1> SUFFICES ASSUME TypeOK, AudioInv, BlockStep PROVE AudioInv'
  OBVIOUS
<1> USE DEF AudioInv, outputs, rates
<1>1. tx \in Seq(CallNumbers) /\ rx \in Seq(CallNumbers) /\ callNo \in CallNumbers
  BY DEF TypeOK, RingsTypeOK, CallTypeOK
<1>2. UNCHANGED <<media, callNo, gate, primed>>
  BY DEF BlockStep, BlockStart, BlockKeepRate, BlockSeeRate, BlockRebuild, BlockFlush,
         BlockSend, BlockPlay, BlockAbandoned
<1>3. GateNeedsMedia'
  BY <1>2 DEF GateNeedsMedia
<1>4. CASE BlockStart
  <2>1. UNCHANGED <<flush, ring>> /\ block'.at = "rate" /\ block'.call = callNo
        /\ block'.gate = gate
    BY <1>4 DEF BlockStart
  <2> QED BY <1>2, <1>3, <2>1 DEF ring, PullsOwn, PlaysOwn, SendsOwn, BlockPlaysOwn,
                                  Working
<1>5. CASE BlockKeepRate \/ BlockSeeRate \/ BlockRebuild
  <2>1. UNCHANGED ring /\ (flush => flush')
    BY <1>5 DEF BlockKeepRate, BlockSeeRate, BlockRebuild
  <2>2. block.at \in {"rate", "rebuild"} /\ block.own
    BY <1>5 DEF BlockKeepRate, BlockSeeRate, BlockRebuild, Block
  <2>3. /\ block'.at \in {"rebuild", "flush"} /\ block'.own = block.own
        /\ block'.call = block.call /\ block'.gate = block.gate
    <3>1. \/ block' = [block EXCEPT !.at = "flush"]
          \/ block' = [block EXCEPT !.at = "rebuild", !.rate = pending]
      BY <1>5, Zenon DEF BlockKeepRate, BlockSeeRate, BlockRebuild, Block
    <3>2. block = [at |-> block.at, gate |-> block.gate, call |-> block.call,
                   rate |-> block.rate, own |-> block.own]
      BY Zenon DEF TypeOK, BlockTypeOK
    <3> QED BY <3>1, <3>2, Zenon
  <2> QED BY <1>2, <1>3, <2>1, <2>2, <2>3 DEF ring, PullsOwn, PlaysOwn, SendsOwn,
                                              BlockPlaysOwn, Working
<1>6. ASSUME NEW from, NEW to, from # "idle", Block(from, to)
      PROVE  /\ block.at = from /\ block'.at = to /\ block.own
             /\ block'.call = block.call /\ block'.gate = block.gate
             /\ block'.own = block.own
  BY <1>6 DEF Block, TypeOK, BlockTypeOK
<1>7. CASE BlockFlush
  <2>1. /\ block.at = "flush" /\ block'.at = "send" /\ block.own
        /\ block'.call = block.call /\ block'.gate = block.gate
    BY <1>6, <1>7 DEF BlockFlush
  <2>2. Only(rx, callNo) \/ flush => Only(rx', callNo)
    BY <1>7, EmptyOnly DEF BlockFlush
  <2>3. PullsOwn' /\ SendsOwn'
    BY <1>2, <1>7, <2>1 DEF BlockFlush, PullsOwn, SendsOwn, Working
  <2> QED BY <1>2, <1>3, <2>1, <2>2, <2>3 DEF PlaysOwn, BlockPlaysOwn, Working
<1>8. CASE BlockSend
  <2>1. /\ block.at = "send" /\ block'.at = "play" /\ block.own
        /\ block'.call = block.call /\ block'.gate = block.gate
    BY <1>6, <1>8 DEF BlockSend
  <2>2. UNCHANGED <<flush, rx>>
    BY <1>8 DEF BlockSend
  <2>3. PullsOwn'
    <3>1. tx' = tx \/ (block.gate /\ tx' = Append(tx, block.call))
      BY <1>8 DEF BlockSend
    <3>2. block.gate => block.call = callNo
      BY <2>1 DEF SendsOwn, Working
    <3>3. Only(tx, callNo) => Only(tx', callNo)
      BY <1>1, <3>1, <3>2, AppendOnly
    <3> QED BY <1>2, <3>3 DEF PullsOwn
  <2> QED BY <1>2, <1>3, <2>1, <2>2, <2>3 DEF PlaysOwn, SendsOwn, BlockPlaysOwn,
                                              Working
<1>9. CASE BlockPlay
  <2>1. block'.at = "idle"
    BY <1>6, <1>9 DEF BlockPlay
  <2>2. UNCHANGED <<flush, tx>>
    BY <1>9 DEF BlockPlay
  <2>3. rx' = << >> \/ (rx # << >> /\ rx' = Tail(rx))
    BY <1>9 DEF BlockPlay
  <2>4. Only(rx, callNo) => Only(rx', callNo)
    BY <1>1, <2>3, EmptyOnly, TailOnly
  <2> QED BY <1>2, <1>3, <2>1, <2>2, <2>4 DEF PullsOwn, PlaysOwn, SendsOwn,
                                              BlockPlaysOwn, Working
<1>10. CASE BlockAbandoned
  <2>1. block'.at = "idle" /\ UNCHANGED <<flush, ring>>
    BY <1>10 DEF BlockAbandoned, Idle
  <2> QED BY <1>2, <1>3, <2>1 DEF ring, PullsOwn, PlaysOwn, SendsOwn, BlockPlaysOwn,
                                  Working
<1> QED BY <1>4, <1>5, <1>7, <1>8, <1>9, <1>10 DEF BlockStep

LEMMA EditKeepsApart == TypeOK /\ AudioInv /\ Reapply => AudioInv'
<1> SUFFICES ASSUME TypeOK, AudioInv, Reapply PROVE AudioInv'
  OBVIOUS
<1>1. UNCHANGED <<media, callNo, gate>> /\ flush' /\ ~primed'
  BY DEF Reapply, FreshLine
<1>2. ~Working'
  BY DEF Reapply, Working, TypeOK, BlockTypeOK
<1> QED BY <1>1, <1>2 DEF AudioInv, GateNeedsMedia, PullsOwn, PlaysOwn, SendsOwn,
                          BlockPlaysOwn

LEMMA IdleKeepsApart == AudioInv /\ UNCHANGED vars => AudioInv'
  BY DEF vars, ring, AudioInv, GateNeedsMedia, PullsOwn, PlaysOwn, SendsOwn,
         BlockPlaysOwn, Working

LEMMA StepInv == TypeOK /\ AudioInv /\ [Next]_vars => TypeOK' /\ AudioInv'
<1>1. TypeOK /\ [Next]_vars => TypeOK'
  BY CallType, FlagsType, BlockType, RingsType DEF TypeOK
<1>2. TypeOK /\ AudioInv /\ [Next]_vars => AudioInv'
  BY EngineKeepsApart, MediaKeepsApart, BlockKeepsApart, EditKeepsApart,
     IdleKeepsApart DEF Next
<1> QED BY <1>1, <1>2

-----------------------------------------------------------------------------
(* What waits in the rings of a line with an open gate, and what its block *)
(* is at, belong to its present call.                                      *)
THEOREM AudioApart == Spec => []AudioInv
<1>1. Init => TypeOK /\ AudioInv
  BY InitInv
<1>2. TypeOK /\ AudioInv /\ [Next]_vars => TypeOK' /\ AudioInv'
  BY StepInv
<1> QED BY <1>1, <1>2, PTL DEF Spec

(* Once its gate is open the PBX hears, in one call, nothing that was said *)
(* for another (set_line_call_active, pull_to_sip).                        *)
THEOREM HearingApart == Spec => HearsThisCall
<1>1. TypeOK /\ AudioInv /\ [Next]_vars
        => [Pull /\ gate => heard' \subseteq {callNo}]_vars
  <2> SUFFICES ASSUME TypeOK, AudioInv, Pull, gate PROVE heard' \subseteq {callNo}
    OBVIOUS
  <2>1. CASE heard' = {}
    BY <2>1
  <2>2. CASE primed /\ tx # << >> /\ heard' = {Head(tx)}
    <3>1. tx \in Seq(CallNumbers)
      BY DEF TypeOK, RingsTypeOK
    <3>2. Only(tx, callNo)
      BY <2>2 DEF AudioInv, PullsOwn
    <3> QED BY <2>2, <3>1, <3>2, TailOnly
  <2> QED BY <2>1, <2>2 DEF Pull
<1>2. Spec => []TypeOK
  BY AudioTypeCorrect
<1>3. Spec => []AudioInv
  BY AudioApart
<1> QED BY <1>1, <1>2, <1>3, PTL DEF Spec, HearsThisCall

(* The channels play, in one call, nothing an earlier one left behind      *)
(* (flush_requested, process_block).                                       *)
THEOREM PlayingApart == Spec => PlaysThisCall
<1>1. TypeOK /\ AudioInv /\ [Next]_vars
        => [BlockPlay => played' \subseteq {callNo}]_vars
  <2> SUFFICES ASSUME TypeOK, AudioInv, BlockPlay PROVE played' \subseteq {callNo}
    OBVIOUS
  <2>1. CASE played' = {}
    BY <2>1
  <2>2. CASE block.gate /\ rx # << >> /\ played' = {Head(rx)}
    <3>1. rx \in Seq(CallNumbers)
      BY DEF TypeOK, RingsTypeOK
    <3>2. Only(rx, callNo)
      BY <2>2 DEF BlockPlay, Block, AudioInv, BlockPlaysOwn, Working
    <3> QED BY <2>2, <3>1, <3>2, TailOnly
  <2> QED BY <2>1, <2>2 DEF BlockPlay
<1>2. Spec => []TypeOK
  BY AudioTypeCorrect
<1>3. Spec => []AudioInv
  BY AudioApart
<1> QED BY <1>1, <1>2, <1>3, PTL DEF Spec, PlaysThisCall
=============================================================================
