----------------------------- MODULE MatrixProofs -----------------------------
(***************************************************************************)
(* Who hears whom, for every set of configurations that may be applied,    *)
(* every width of the device and every size of the conference's rings:     *)
(* never oneself, every other one once, the conference and the SIP lines   *)
(* only where they belong.                                                 *)
(***************************************************************************)
EXTENDS IntercomMatrix, FiniteSetTheorems, WellFoundedInduction, TLAPS

(* A routing in force, or none.                                            *)
Sound(config) == config = NoRouting \/ (config \in Configs /\ Accepted(config))

(* What the mix of a block puts on a channel.                              *)
Carried(channel) ==
  IF channel \in Owned(block.routing)
  THEN [lines |-> FALSE, members |-> MemberTerms(block.routing, Width, channel),
        conference |-> LegTerms(block.routing, channel, block.said)]
  ELSE OfLines[channel]

(* Until a block is mixed its channels are as the lines left them; then    *)
(* they are what its routing, which was accepted, makes of them.           *)
MixInv ==
  /\ Sound(routing) /\ Sound(block.routing)
  /\ block.at \in {"pull", "push", "route", "mix"} => playback = OfLines
  /\ block.at \in {"mix", "send"} => block.routing # NoRouting
  /\ block.at = "send" => playback = [channel \in Channels |-> Carried(channel)]

(* A channel that is bound and not past the end is a channel.             *)
LEMMA BoundIsIn ==
  ASSUME NEW channel \in Nat, NEW last \in Nat, channel <= last
  PROVE  channel # Unbound => channel \in 1 .. last
BY DEF Unbound

LEMMA DomainOfSeq ==
  ASSUME NEW s \in Seq(Nat) PROVE DOMAIN s = 1 .. Len(s)
OBVIOUS

(* A binding of an accepted configuration reaches a channel its endpoint   *)
(* declares (validate_plan): the endpoint is one of the configuration's,   *)
(* under the id the member gives.                                          *)
LEMMA BindingDeclared ==
  ASSUME NEW config \in Configs, ValidPlan(config),
         NEW i \in DOMAIN config.lines, NEW k \in DOMAIN config.lines[i].members
  PROVE  LET member == config.lines[i].members[k]
             p == Position(config, member.endpoint)
         IN /\ p \in DOMAIN config.endpoints
            /\ config.endpoints[p].id = member.endpoint
            /\ member.listen # Unbound =>
                 /\ member.listen \in DOMAIN config.endpoints[p].listen
                 /\ Playback(config, member) = config.endpoints[p].listen[member.listen]
            /\ member.talk # Unbound =>
                 /\ member.talk \in DOMAIN config.endpoints[p].talk
                 /\ Capture(config, member) = config.endpoints[p].talk[member.talk]
<1> DEFINE member == config.lines[i].members[k]
           p == Position(config, member.endpoint)
<1>1. Resolves(config, member)
  BY DEF ValidPlan
<1>2. p \in DOMAIN config.endpoints /\ config.endpoints[p].id = member.endpoint
  BY <1>1 DEF Resolves, Declared, Position
<1>3. config.endpoints[p] \in Shape /\ member \in Member
  BY <1>2, MatrixAssumption
<1>4. member.listen # Unbound => member.listen \in 1 .. Len(config.endpoints[p].listen)
  <2>1. member.listen <= Len(config.endpoints[p].listen)
    BY <1>1 DEF Resolves, Endpoint
  <2> HIDE DEF member, p
  <2>2. Len(config.endpoints[p].listen) \in Nat /\ member.listen \in Nat
    BY <1>3 DEF Shape, Member
  <2> QED
    BY <2>1, <2>2, BoundIsIn
<1>5. member.talk # Unbound => member.talk \in 1 .. Len(config.endpoints[p].talk)
  <2>1. member.talk <= Len(config.endpoints[p].talk)
    BY <1>1 DEF Resolves, Endpoint
  <2> HIDE DEF member, p
  <2>2. Len(config.endpoints[p].talk) \in Nat /\ member.talk \in Nat
    BY <1>3 DEF Shape, Member
  <2> QED
    BY <2>1, <2>2, BoundIsIn
<1>6. /\ DOMAIN config.endpoints[p].listen = 1 .. Len(config.endpoints[p].listen)
      /\ DOMAIN config.endpoints[p].talk = 1 .. Len(config.endpoints[p].talk)
  <2>1. config.endpoints[p].listen \in Seq(Nat) /\ config.endpoints[p].talk \in Seq(Nat)
    BY <1>3 DEF Shape
  <2> QED
    BY <2>1, DomainOfSeq
<1> QED
  BY <1>2, <1>4, <1>5, <1>6 DEF Playback, Capture, Endpoint

(* refuse_claimed_twice, for two endpoints by their positions.             *)
LEMMA OneClaimant ==
  ASSUME NEW config, ClaimedOnce(config),
         NEW n \in DOMAIN config.endpoints, NEW m \in DOMAIN config.endpoints
  PROVE  /\ \A i \in DOMAIN config.endpoints[n].talk, j \in DOMAIN config.endpoints[m].talk :
              config.endpoints[n].talk[i] = config.endpoints[m].talk[j] => n = m
         /\ \A i \in DOMAIN config.endpoints[n].listen, j \in DOMAIN config.endpoints[m].listen :
              config.endpoints[n].listen[i] = config.endpoints[m].listen[j] => n = m
BY DEF ClaimedOnce

(* No term of a mix brings an endpoint its own microphone: the two ids of  *)
(* a term differ, and in an accepted configuration a channel has one       *)
(* endpoint in each direction (refuse_claimed_twice).                      *)
LEMMA TermsApart ==
  ASSUME NEW config \in Configs, Accepted(config), NEW channel \in Channels,
         NEW t \in MemberTerms(config, Width, channel),
         NEW n \in DOMAIN config.endpoints
  PROVE  ~ /\ Declares(config.endpoints[n].listen, channel)
           /\ Declares(config.endpoints[n].talk, t.from.channel)
<1> SUFFICES ASSUME Declares(config.endpoints[n].listen, channel),
                    Declares(config.endpoints[n].talk, t.from.channel)
             PROVE  FALSE
  OBVIOUS
<1>1. PICK i \in DOMAIN config.lines :
        /\ t.to \in Listeners(config, config.lines[i].members)
        /\ t.from \in Contributions(config, config.lines[i].members)
  BY DEF MemberTerms, Pairs
<1>2. t.to.channel = channel /\ t.from.endpoint # t.to.endpoint
  BY DEF MemberTerms
<1> DEFINE members == config.lines[i].members
           P(k) == Position(config, members[k].endpoint)
<1>3. PICK l \in DOMAIN members :
        /\ members[l].listen # Unbound
        /\ t.to.endpoint = members[l].endpoint
        /\ t.to.channel = Playback(config, members[l])
  BY <1>1 DEF Listeners
<1>4. PICK k \in DOMAIN members :
        /\ members[k].talk # Unbound
        /\ t.from.endpoint = members[k].endpoint
        /\ t.from.channel = Capture(config, members[k])
  BY <1>1 DEF Contributions
<1>5. ValidPlan(config) /\ ClaimedOnce(config)
  BY DEF Accepted
<1>6. n = P(l)
  <2>1. /\ P(l) \in DOMAIN config.endpoints
        /\ members[l].listen \in DOMAIN config.endpoints[P(l)].listen
        /\ config.endpoints[P(l)].listen[members[l].listen] = channel
    BY <1>2, <1>3, <1>5, BindingDeclared
  <2>2. PICK j \in DOMAIN config.endpoints[n].listen :
          config.endpoints[n].listen[j] = channel
    BY DEF Declares
  <2>3. \A i_n \in DOMAIN config.endpoints[n].listen,
           i_p \in DOMAIN config.endpoints[P(l)].listen :
          config.endpoints[n].listen[i_n] = config.endpoints[P(l)].listen[i_p] => n = P(l)
    BY <2>1, <1>5, OneClaimant
  <2> QED
    BY <2>1, <2>2, <2>3
<1>7. n = P(k)
  <2>1. /\ P(k) \in DOMAIN config.endpoints
        /\ members[k].talk \in DOMAIN config.endpoints[P(k)].talk
        /\ config.endpoints[P(k)].talk[members[k].talk] = t.from.channel
    BY <1>4, <1>5, BindingDeclared
  <2>2. PICK j \in DOMAIN config.endpoints[n].talk :
          config.endpoints[n].talk[j] = t.from.channel
    BY DEF Declares
  <2>3. \A i_n \in DOMAIN config.endpoints[n].talk,
           i_p \in DOMAIN config.endpoints[P(k)].talk :
          config.endpoints[n].talk[i_n] = config.endpoints[P(k)].talk[i_p] => n = P(k)
    BY <2>1, <1>5, OneClaimant
  <2> QED
    BY <2>1, <2>2, <2>3
<1>8. /\ config.endpoints[P(l)].id = members[l].endpoint
      /\ config.endpoints[P(k)].id = members[k].endpoint
  BY <1>5, BindingDeclared
<1> QED
  BY <1>2, <1>3, <1>4, <1>6, <1>7, <1>8

-----------------------------------------------------------------------------
(* What a member hears of another                                          *)

(* Of some numbers one is the least.                                       *)
LEMMA Least ==
  ASSUME NEW S \in SUBSET Nat, S # {}
  PROVE  \E m \in S : \A k \in S : ~(k < m)
<1> DEFINE R == OpToRel(<, Nat)
<1>1. IsWellFoundedOn(R, Nat)
  BY NatLessThanWellFounded
<1>2. PICK m \in S : \A k \in S : ~ (<<k, m>> \in R)
  <2> HIDE DEF R
  <2> QED
    BY <1>1, WFMin
<1>3. \A k \in S : k < m => <<k, m>> \in R
  BY DEF OpToRel
<1> QED
  BY <1>2, <1>3

LEMMA FirstBinds ==
  ASSUME NEW config, NEW members \in Seq(Member), NEW k \in DOMAIN members,
         members[k].talk # Unbound
  PROVE  LET f == FirstOf(config, members, k)
         IN /\ f \in DOMAIN members /\ f \in 1 .. k
            /\ SameTalk(config, members[f], members[k])
            /\ \A h \in 1 .. f - 1 : ~SameTalk(config, members[h], members[k])
<1> DEFINE S == {j \in 1 .. k : SameTalk(config, members[j], members[k])}
<1>1. k \in Nat /\ k >= 1 /\ 1 .. k \subseteq DOMAIN members
  OBVIOUS
<1>2. k \in S /\ S \in SUBSET Nat
  BY <1>1 DEF SameTalk
<1>3. PICK m \in S : \A j \in S : ~(j < m)
  BY <1>2, Least
<1>4. \A h \in 1 .. m - 1 : ~SameTalk(config, members[h], members[k])
  BY <1>1, <1>3
<1>5. \E j \in 1 .. k : /\ SameTalk(config, members[j], members[k])
                        /\ \A h \in 1 .. j - 1 : ~SameTalk(config, members[h], members[k])
  BY <1>3, <1>4
<1> QED
  BY <1>1, <1>5 DEF FirstOf

(* Members that bind one channel name one endpoint (refuse_claimed_twice). *)
LEMMA OneEndpoint ==
  ASSUME NEW config \in Configs, Accepted(config), NEW i \in DOMAIN config.lines,
         NEW j \in DOMAIN config.lines[i].members, NEW k \in DOMAIN config.lines[i].members
  PROVE  LET a == config.lines[i].members[j]
             b == config.lines[i].members[k]
         IN /\ /\ a.talk # Unbound /\ b.talk # Unbound
               /\ Capture(config, a) = Capture(config, b)
               => a.endpoint = b.endpoint
            /\ /\ a.listen # Unbound /\ b.listen # Unbound
               /\ Playback(config, a) = Playback(config, b)
               => a.endpoint = b.endpoint
<1> DEFINE a == config.lines[i].members[j]
           b == config.lines[i].members[k]
           n == Position(config, a.endpoint)
           m == Position(config, b.endpoint)
<1>1. ValidPlan(config) /\ ClaimedOnce(config)
  BY DEF Accepted
<1>2. /\ n \in DOMAIN config.endpoints /\ config.endpoints[n].id = a.endpoint
      /\ a.listen # Unbound => /\ a.listen \in DOMAIN config.endpoints[n].listen
                               /\ Playback(config, a) = config.endpoints[n].listen[a.listen]
      /\ a.talk # Unbound => /\ a.talk \in DOMAIN config.endpoints[n].talk
                             /\ Capture(config, a) = config.endpoints[n].talk[a.talk]
  BY <1>1, BindingDeclared
<1>3. /\ m \in DOMAIN config.endpoints /\ config.endpoints[m].id = b.endpoint
      /\ b.listen # Unbound => /\ b.listen \in DOMAIN config.endpoints[m].listen
                               /\ Playback(config, b) = config.endpoints[m].listen[b.listen]
      /\ b.talk # Unbound => /\ b.talk \in DOMAIN config.endpoints[m].talk
                             /\ Capture(config, b) = config.endpoints[m].talk[b.talk]
  BY <1>1, BindingDeclared
<1> HIDE DEF a, b, n, m
<1>4. /\ \A x \in DOMAIN config.endpoints[n].talk, y \in DOMAIN config.endpoints[m].talk :
           config.endpoints[n].talk[x] = config.endpoints[m].talk[y] => n = m
      /\ \A x \in DOMAIN config.endpoints[n].listen, y \in DOMAIN config.endpoints[m].listen :
           config.endpoints[n].listen[x] = config.endpoints[m].listen[y] => n = m
  BY <1>1, <1>2, <1>3, OneClaimant
<1>5. /\ a.talk # Unbound /\ b.talk # Unbound
      /\ Capture(config, a) = Capture(config, b)
      => a.endpoint = b.endpoint
  BY <1>2, <1>3, <1>4
<1>6. /\ a.listen # Unbound /\ b.listen # Unbound
      /\ Playback(config, a) = Playback(config, b)
      => a.endpoint = b.endpoint
  BY <1>2, <1>3, <1>4
<1> QED
  BY <1>5, <1>6 DEF a, b

Source(config, members, k) ==
  [member |-> k, endpoint |-> members[k].endpoint,
   channel |-> Capture(config, members[k]), mute |-> members[k].mute]
EarOf(config, member) == [endpoint |-> member.endpoint, channel |-> Playback(config, member)]

(* A microphone contributes to a line once, through its first binding.     *)
LEMMA OneContribution ==
  ASSUME NEW config \in Configs, Accepted(config), NEW i \in DOMAIN config.lines,
         NEW k \in DOMAIN config.lines[i].members,
         config.lines[i].members[k].talk # Unbound
  PROVE  LET members == config.lines[i].members
         IN {c \in Contributions(config, members) : c.channel = Capture(config, members[k])}
              = {Source(config, members, FirstOf(config, members, k))}
<1> DEFINE members == config.lines[i].members
           f == FirstOf(config, members, k)
           Earlier(j) == \E h \in 1 .. j - 1 : SameTalk(config, members[h], members[j])
<1>1. members \in Seq(Member)
  BY MatrixAssumption
<1>2. /\ f \in DOMAIN members
      /\ SameTalk(config, members[f], members[k])
      /\ \A h \in 1 .. f - 1 : ~SameTalk(config, members[h], members[k])
  BY <1>1, FirstBinds
<1>3. Capture(config, members[f]) = Capture(config, members[k]) /\ members[f].talk # Unbound
  BY <1>2 DEF SameTalk
<1>4. Source(config, members, f) \in Contributions(config, members)
  <2>1. ~Earlier(f)
    BY <1>2, <1>3 DEF SameTalk
  <2> QED
    BY <1>2, <1>3, <2>1 DEF Contributions, Source
<1>5. ASSUME NEW c \in Contributions(config, members),
             c.channel = Capture(config, members[k])
      PROVE  c = Source(config, members, f)
  <2>1. PICK j \in DOMAIN members :
          /\ members[j].talk # Unbound /\ ~Earlier(j)
          /\ c = Source(config, members, j)
    BY DEF Contributions, Source
  <2>2. Capture(config, members[j]) = Capture(config, members[k])
    BY <1>5, <2>1 DEF Source
  <2>3. SameTalk(config, members[j], members[k]) /\ SameTalk(config, members[f], members[j])
    <3>1. members[j].endpoint = members[k].endpoint
      BY <2>1, <2>2, OneEndpoint
    <3> QED
      BY <1>2, <2>1, <2>2, <3>1 DEF SameTalk
  <2>4. ~(j < f) /\ ~(f < j)
    <3>1. f \in Nat \ {0} /\ j \in Nat \ {0}
      BY <1>1, <1>2, <2>1
    <3> HIDE DEF f, members
    <3>2. ~(j < f)
      BY <1>2, <2>3, <3>1
    <3>3. ~(f < j)
      BY <2>1, <2>3, <3>1
    <3> QED
      BY <3>2, <3>3
  <2>5. j = f
    <3>1. f \in Nat /\ j \in Nat
      BY <1>1, <1>2, <2>1
    <3> QED
      BY <2>4, <3>1
  <2> QED
    BY <2>1, <2>5
<1>6. Source(config, members, f).channel = Capture(config, members[k])
  BY <1>3 DEF Source
<1> HIDE DEF members, f
<1> QED
  BY <1>4, <1>5, <1>6 DEF members, f

(* The terms that bring one member's microphone to another's ear on a line. *)
TermsBetween(config, i, from, to) ==
  {t \in MemberTerms(config, Width, Playback(config, to)) :
     t.line = i /\ t.from.channel = Capture(config, from)}
OnceUnlessMuted(config, i, k, l) ==
  LET members == config.lines[i].members
  IN \E term : TermsBetween(config, i, members[k], members[l]) =
                 IF members[FirstOf(config, members, k)].mute THEN {} ELSE {term}

LEMMA OneCopy ==
  ASSUME NEW config \in Configs, Accepted(config), NEW i \in DOMAIN config.lines,
         NEW k \in DOMAIN config.lines[i].members, NEW l \in DOMAIN config.lines[i].members,
         config.lines[i].members[k].talk # Unbound,
         config.lines[i].members[l].listen # Unbound,
         config.lines[i].members[k].endpoint # config.lines[i].members[l].endpoint,
         Capture(config, config.lines[i].members[k]) \in Channels
  PROVE  OnceUnlessMuted(config, i, k, l)
<1> DEFINE members == config.lines[i].members
           f == FirstOf(config, members, k)
           term == [line |-> i, to |-> EarOf(config, members[l]),
                    from |-> Source(config, members, f)]
           mic == Capture(config, members[k])
           ear == Playback(config, members[l])
           Alike == {t \in MemberTerms(config, Width, ear) :
                        t.line = i /\ t.from.channel = mic}
<1>1. /\ f \in DOMAIN members
      /\ members[f].talk # Unbound
      /\ members[f].endpoint = members[k].endpoint
      /\ Capture(config, members[f]) = mic
  BY MatrixAssumption, FirstBinds DEF SameTalk
<1>2. /\ Source(config, members, f) \in Contributions(config, members)
      /\ \A c \in Contributions(config, members) :
           c.channel = mic => c = Source(config, members, f)
  BY OneContribution
<1>3. ASSUME NEW e \in Listeners(config, members), e.channel = ear
      PROVE  e = EarOf(config, members[l])
  <2>1. PICK h \in DOMAIN members : members[h].listen # Unbound /\ e = EarOf(config, members[h])
    BY DEF Listeners, EarOf
  <2>2. Playback(config, members[h]) = ear
    BY <1>3, <2>1 DEF EarOf
  <2>3. members[h].endpoint = members[l].endpoint
    BY <2>1, <2>2, OneEndpoint
  <2> QED
    BY <2>1, <2>2, <2>3 DEF EarOf
<1>4. EarOf(config, members[l]) \in Listeners(config, members)
  BY DEF Listeners, EarOf
<1>5. /\ Source(config, members, f).endpoint = members[k].endpoint
      /\ Source(config, members, f).channel = mic
      /\ Source(config, members, f).mute = members[f].mute
      /\ EarOf(config, members[l]).channel = ear
      /\ EarOf(config, members[l]).endpoint = members[l].endpoint
  BY <1>1 DEF Source, EarOf
<1>6. mic < Width
  BY MatrixAssumption DEF Channels
<1>7. ASSUME NEW t \in Alike PROVE t = term /\ ~members[f].mute
  <2>1. PICK g \in DOMAIN config.lines :
          t \in [line : {g}, to : Listeners(config, config.lines[g].members),
                 from : Contributions(config, config.lines[g].members)]
    BY DEF MemberTerms, Pairs
  <2>2. g = i
    BY <2>1
  <2>3. /\ t.to \in Listeners(config, members) /\ t.from \in Contributions(config, members)
        /\ t = [line |-> t.line, to |-> t.to, from |-> t.from] /\ t.line = i
    BY <2>1, <2>2
  <2>4. t.to.channel = ear /\ ~t.from.mute /\ t.from.channel = mic
    BY DEF MemberTerms
  <2> HIDE DEF Alike, members, f, mic, ear
  <2>5. t.to = EarOf(config, members[l]) /\ t.from = Source(config, members, f)
    BY <1>2, <1>3, <2>3, <2>4
  <2> QED
    BY <1>5, <2>3, <2>4, <2>5
<1>8. ~members[f].mute => term \in Alike
  <2> SUFFICES ASSUME ~members[f].mute PROVE term \in Alike
    OBVIOUS
  <2>1. term \in Pairs(config)
    BY <1>2, <1>4 DEF Pairs
  <2>2. term \in MemberTerms(config, Width, ear)
    BY <1>5, <1>6, <2>1 DEF MemberTerms
  <2> QED
    BY <1>5, <2>2
<1>9. Alike = IF members[f].mute THEN {} ELSE {term}
  <2> HIDE DEF Alike, members, f, term
  <2> QED
    BY <1>7, <1>8
<1> QED
  BY <1>9 DEF OnceUnlessMuted, TermsBetween

-----------------------------------------------------------------------------
(* The steps                                                               *)

(* What TypeOK says of a block.                                            *)
Steps == {"idle", "pull", "push", "route", "mix", "send"}
Blocks == [at : Steps, gate : BOOLEAN, call : CallNumbers,
           routing : Configs \cup {NoRouting}, said : SUBSET CallNumbers]

LEMMA MixInit == Init => TypeOK /\ MixInv
<1> SUFFICES ASSUME Init PROVE TypeOK /\ MixInv
  OBVIOUS
<1>1. MixInv
  BY DEF Init, MixInv, Sound, Idle
<1>2. TypeOK
  <2>1. /\ 0 \in CallNumbers /\ Len(<< >>) <= RingSize
        /\ DOMAIN [channel \in Channels |-> Silence] = Channels
    BY MatrixAssumption DEF CallNumbers
  <2>2. block \in Blocks
    BY <2>1 DEF Init, Idle, Blocks, Steps
  <2> QED
    <3>1. DOMAIN playback = Channels
      BY <2>1 DEF Init
    <3>2. /\ incoming \in Seq(CallNumbers) /\ Len(incoming) <= RingSize
          /\ outgoing \in Seq(CallNumbers) /\ Len(outgoing) <= RingSize
      BY <2>1 DEF Init
    <3>3. routing \in Configs \cup {NoRouting} /\ control = "free"
          /\ callNo \in CallNumbers /\ gate \in BOOLEAN /\ heard \subseteq CallNumbers
      BY <2>1 DEF Init
    <3> QED
      BY <2>2, <3>1, <3>2, <3>3 DEF TypeOK, Blocks, Steps
<1> QED
  BY <1>1, <1>2

(* The steps of the control thread and of the leg.                         *)
LEMMA ControlTypes ==
  ASSUME TypeOK,
         \/ \E config \in Configs : Configure(config) \/ Clear(config)
         \/ ClearIncoming \/ ClearOutgoing
         \/ CallUp \/ CallDown
  PROVE  TypeOK'
<1> USE DEF TypeOK, control_vars, leg
<1>1. ASSUME NEW config \in Configs, Configure(config) PROVE TypeOK'
  BY <1>1 DEF Configure
<1>2. ASSUME NEW config \in Configs, Clear(config) PROVE TypeOK'
  BY <1>2 DEF Clear
<1>3. CASE ClearIncoming
  BY <1>3, MatrixAssumption DEF ClearIncoming
<1>4. CASE ClearOutgoing
  BY <1>4, MatrixAssumption DEF ClearOutgoing
<1>5. CASE CallUp
  BY <1>5, MatrixAssumption DEF CallUp, CallNumbers
<1>6. CASE CallDown
  BY <1>6 DEF CallDown
<1> QED
  BY <1>1, <1>2, <1>3, <1>4, <1>5, <1>6

(* What a ring holds after a block was put into it, or taken from it.      *)
LEMMA PutType ==
  ASSUME NEW ring \in Seq(CallNumbers), Len(ring) < RingSize, NEW n \in CallNumbers
  PROVE  Append(ring, n) \in Seq(CallNumbers) /\ Len(Append(ring, n)) <= RingSize
BY MatrixAssumption

LEMMA TakenType ==
  ASSUME NEW ring \in Seq(CallNumbers), Len(ring) <= RingSize, ring # << >>
  PROVE  /\ Tail(ring) \in Seq(CallNumbers) /\ Len(Tail(ring)) <= RingSize
         /\ Head(ring) \in CallNumbers
BY MatrixAssumption

(* The steps of the audio thread.                                          *)
LEMMA BlockTypes ==
  ASSUME TypeOK,
         BlockStart \/ BlockPull \/ BlockPush \/ BlockRoute \/ BlockMix \/ BlockSend
  PROVE  TypeOK'
<1> USE DEF control_vars, leg
<1>1. /\ block \in Blocks /\ Idle \in Blocks
      /\ incoming \in Seq(CallNumbers) /\ Len(incoming) <= RingSize
      /\ outgoing \in Seq(CallNumbers) /\ Len(outgoing) <= RingSize
      /\ heard \subseteq CallNumbers
  BY MatrixAssumption DEF TypeOK, Blocks, Steps, Idle, CallNumbers
<1>2. ASSUME /\ UNCHANGED <<control_vars, leg>>
             /\ block' \in Blocks /\ DOMAIN playback' = Channels
             /\ incoming' \in Seq(CallNumbers) /\ Len(incoming') <= RingSize
             /\ outgoing' \in Seq(CallNumbers) /\ Len(outgoing') <= RingSize
             /\ heard' \subseteq CallNumbers
      PROVE  TypeOK'
  BY <1>2 DEF TypeOK, Blocks, Steps
<1>3. CASE BlockStart
  <2>1. block' \in Blocks
    BY <1>1, <1>3, MatrixAssumption DEF BlockStart, TypeOK, Blocks, Steps, Idle, CallNumbers
  <2>2. DOMAIN playback' = Channels
    BY <1>3 DEF BlockStart, OfLines
  <2> QED
    BY <1>1, <1>2, <1>3, <2>1, <2>2 DEF BlockStart
<1>4. CASE BlockPull
  <2>1. block' \in Blocks
    BY <1>1, <1>4 DEF BlockPull, Blocks, Steps
  <2>2. /\ outgoing' \in Seq(CallNumbers) /\ Len(outgoing') <= RingSize
        /\ heard' \subseteq CallNumbers
    <3>1. CASE block.gate /\ outgoing # << >>
      <4>1. /\ Tail(outgoing) \in Seq(CallNumbers) /\ Len(Tail(outgoing)) <= RingSize
            /\ Head(outgoing) \in CallNumbers
        BY <1>1, <3>1, TakenType
      <4>2. outgoing' = Tail(outgoing) /\ heard' = {Head(outgoing)}
        BY <1>4, <3>1 DEF BlockPull
      <4> QED
        BY <4>1, <4>2
    <3>2. CASE ~(block.gate /\ outgoing # << >>)
      BY <1>1, <1>4, <3>2 DEF BlockPull
    <3> QED
      BY <3>1, <3>2
  <2> QED
    BY <1>1, <1>2, <1>4, <2>1, <2>2 DEF BlockPull, TypeOK
<1>5. CASE BlockPush
  <2>1. block' \in Blocks /\ block.call \in CallNumbers
    BY <1>1, <1>5 DEF BlockPush, Blocks, Steps
  <2>2. incoming' \in Seq(CallNumbers) /\ Len(incoming') <= RingSize
    BY <1>1, <1>5, <2>1, PutType DEF BlockPush
  <2> QED
    BY <1>1, <1>2, <1>5, <2>1, <2>2 DEF BlockPush, TypeOK
<1>6. CASE BlockRoute
  <2>1. block' \in Blocks
    BY <1>1, <1>6 DEF BlockRoute, TypeOK, Blocks, Steps
  <2> QED
    BY <1>1, <1>2, <1>6, <2>1 DEF BlockRoute, TypeOK
<1>7. CASE BlockMix
  <2>1. /\ incoming' \in Seq(CallNumbers) /\ Len(incoming') <= RingSize
        /\ (IF incoming = << >> THEN {} ELSE {Head(incoming)}) \in SUBSET CallNumbers
    BY <1>1, <1>7, TakenType DEF BlockMix
  <2>2. block' \in Blocks
    BY <1>1, <1>7, <2>1 DEF BlockMix, Blocks, Steps
  <2>3. DOMAIN playback' = Channels
    BY <1>7 DEF BlockMix, Mix
  <2> QED
    BY <1>1, <1>2, <1>7, <2>1, <2>2, <2>3 DEF BlockMix
<1>8. CASE BlockSend
  <2>1. block.call \in CallNumbers
    BY <1>1 DEF Blocks
  <2>2. outgoing' \in Seq(CallNumbers) /\ Len(outgoing') <= RingSize
    BY <1>1, <1>8, <2>1, PutType DEF BlockSend
  <2> QED
    BY <1>1, <1>2, <1>8, <2>2 DEF BlockSend, TypeOK
<1> QED
  BY <1>3, <1>4, <1>5, <1>6, <1>7, <1>8

LEMMA TypeStep == TypeOK /\ [Next]_vars => TypeOK'
<1> SUFFICES ASSUME TypeOK, [Next]_vars PROVE TypeOK'
  OBVIOUS
<1>1. CASE UNCHANGED vars
  BY <1>1 DEF TypeOK, vars, control_vars, leg
<1> QED
  BY <1>1, ControlTypes, BlockTypes DEF Next

(* Only BlockStart and BlockMix write the playback channels.               *)
LEMMA MixStep == TypeOK /\ MixInv /\ [Next]_vars => MixInv'
<1> SUFFICES ASSUME TypeOK, MixInv, [Next]_vars PROVE MixInv'
  OBVIOUS
<1>1. block \in Blocks
  BY DEF TypeOK, Blocks, Steps
<1>2. ASSUME UNCHANGED <<block, playback>>, Sound(routing') PROVE MixInv'
  BY <1>2 DEF MixInv, Sound, Carried, OfLines
<1>3. CASE \E config \in Configs : Configure(config) \/ Clear(config)
  BY <1>2, <1>3 DEF Configure, Clear, Sound
<1>4. CASE ClearIncoming \/ ClearOutgoing \/ CallUp \/ CallDown \/ UNCHANGED vars
  BY <1>2, <1>4 DEF ClearIncoming, ClearOutgoing, CallUp, CallDown, vars, control_vars, MixInv
<1>5. ASSUME /\ routing' = routing /\ Sound(block'.routing)
             /\ \/ block'.at \in {"pull", "push", "route"} /\ playback' = OfLines
                \/ block'.at = "mix" /\ playback' = OfLines /\ block'.routing # NoRouting
                \/ block'.at = "idle"
      PROVE  MixInv'
  BY <1>5 DEF MixInv, Sound, OfLines
<1>6. CASE BlockStart
  <2>1. /\ block'.at = "pull" /\ block'.routing = NoRouting
        /\ routing' = routing /\ playback' = OfLines
    BY <1>6 DEF BlockStart, Idle, control_vars
  <2> QED
    BY <1>5, <2>1 DEF Sound
<1>7. CASE BlockPull
  <2>1. /\ block'.at = "push" /\ block'.routing = block.routing /\ block.at = "pull"
        /\ routing' = routing /\ playback' = playback
    BY <1>1, <1>7 DEF BlockPull, control_vars, Blocks
  <2> QED
    BY <1>5, <2>1 DEF MixInv
<1>8. CASE BlockPush
  <2>1. /\ block'.at = "route" /\ block'.routing = block.routing /\ block.at = "push"
        /\ routing' = routing /\ playback' = playback
    BY <1>1, <1>8 DEF BlockPush, control_vars, Blocks
  <2> QED
    BY <1>5, <2>1 DEF MixInv
<1>9. CASE BlockRoute
  <2>1. /\ block.at = "route" /\ routing' = routing /\ playback' = playback
        /\ \/ block'.at = "idle" /\ block'.routing = NoRouting
           \/ block'.at = "mix" /\ block'.routing = routing /\ routing # NoRouting
    BY <1>1, <1>9 DEF BlockRoute, Idle, control_vars, Blocks
  <2> QED
    BY <1>5, <2>1 DEF MixInv, Sound
<1>10. CASE BlockMix
  <2>1. PICK said : /\ playback' = Mix(block.routing, said)
                    /\ block'.at = "send" /\ block'.routing = block.routing
                    /\ block'.said = said
                    /\ block.at = "mix" /\ routing' = routing
    BY <1>1, <1>10 DEF BlockMix, control_vars, Blocks
  <2>2. playback = OfLines
    BY <2>1 DEF MixInv
  <2>3. playback' = [channel \in Channels |-> Carried(channel)]'
    BY <2>1, <2>2 DEF Mix, Carried, OfLines
  <2> QED
    BY <2>1, <2>3 DEF MixInv, Sound
<1>11. CASE BlockSend
  <2>1. block'.at = "idle" /\ block'.routing = NoRouting /\ routing' = routing
    BY <1>11 DEF BlockSend, Idle, control_vars
  <2> QED
    BY <1>5, <2>1 DEF Sound
<1> QED
  BY <1>3, <1>4, <1>6, <1>7, <1>8, <1>9, <1>10, <1>11 DEF Next

LEMMA MixSafe == Spec => [](TypeOK /\ MixInv)
BY MixInit, TypeStep, MixStep, PTL DEF Spec

(* What the properties speak of: a block that is mixed, by an accepted     *)
(* configuration.                                                          *)
LEMMA OfTheBlock ==
  ASSUME MixInv, Mixed
  PROVE  /\ block.routing \in Configs /\ Accepted(block.routing)
         /\ \A channel \in Channels : playback[channel] = Carried(channel)
BY DEF MixInv, Sound, Mixed

(* The types of the variables, and that neither ring of the conference     *)
(* takes more than it has room for.                                        *)
THEOREM MatrixTypes == Spec => []TypeOK
BY MixSafe, PTL

(* No endpoint is ever sent its own microphone, whatever configurations    *)
(* are applied, in whatever order, while the audio thread mixes.           *)
THEOREM NeverOneself == Spec => []MixMinus
<1>1. MixInv => MixMinus
  <2> SUFFICES ASSUME MixInv, Mixed, NEW channel \in Channels,
                      NEW t \in playback[channel].members,
                      NEW n \in DOMAIN block.routing.endpoints
               PROVE  ~ /\ Declares(block.routing.endpoints[n].listen, channel)
                        /\ Declares(block.routing.endpoints[n].talk, t.from.channel)
    BY DEF MixMinus
  <2>1. t \in MemberTerms(block.routing, Width, channel)
    <3>1. playback[channel] = Carried(channel)
      BY OfTheBlock
    <3>2. OfLines[channel].members = {}
      BY DEF OfLines, Silence
    <3> QED
      BY <3>1, <3>2 DEF Carried
  <2> QED
    BY <2>1, OfTheBlock, TermsApart
<1> QED
  BY <1>1, MixSafe, PTL
(* What a channel carries of a block that is mixed.                        *)
LEMMA OwnedIsDeclared ==
  ASSUME NEW config, NEW channel
  PROVE  channel \in Owned(config) <=>
           \E n \in DOMAIN config.endpoints : Declares(config.endpoints[n].listen, channel)
BY DEF Owned, Declares

LEMMA EarsAreOwned ==
  ASSUME NEW config \in Configs, Accepted(config), NEW i \in DOMAIN config.lines,
         NEW l \in DOMAIN config.lines[i].members,
         config.lines[i].members[l].listen # Unbound
  PROVE  Playback(config, config.lines[i].members[l]) \in Owned(config)
<1> DEFINE member == config.lines[i].members[l]
           p == Position(config, member.endpoint)
<1>1. /\ p \in DOMAIN config.endpoints
      /\ member.listen \in DOMAIN config.endpoints[p].listen
      /\ Playback(config, member) = config.endpoints[p].listen[member.listen]
  BY BindingDeclared DEF Accepted
<1> HIDE DEF member, p
<1>2. Declares(config.endpoints[p].listen, Playback(config, member))
  BY <1>1 DEF Declares
<1>3. Playback(config, member) \in Owned(config)
  BY <1>1, <1>2, OwnedIsDeclared
<1> QED
  BY <1>3 DEF member

(* A channel some endpoint listens on carries nothing of the SIP lines,    *)
(* every other one is as they left it (process: the owned channels go      *)
(* silent, and only they are added to).                                    *)
THEOREM LinesKeptApart == Spec => []OnlyOwned
<1>1. MixInv => OnlyOwned
  <2> SUFFICES ASSUME MixInv, Mixed, NEW channel \in Channels
               PROVE  IF \E n \in DOMAIN block.routing.endpoints :
                           Declares(block.routing.endpoints[n].listen, channel)
                      THEN ~playback[channel].lines
                      ELSE playback[channel] = OfLines[channel]
    BY DEF OnlyOwned
  <2>1. playback[channel] = Carried(channel)
    BY OfTheBlock
  <2> QED
    BY <2>1, OwnedIsDeclared DEF Carried
<1> QED
  BY <1>1, MixSafe, PTL

LEMMA ListenersFeed ==
  ASSUME NEW config, NEW members, NEW channel
  PROVE  (\E e \in Listeners(config, members) : e.channel = channel) <=>
           \E k \in DOMAIN members : /\ members[k].listen # Unbound
                                     /\ Playback(config, members[k]) = channel
<1>1. \A e \in Listeners(config, members) :
        \E k \in DOMAIN members : /\ members[k].listen # Unbound
                                  /\ e.channel = Playback(config, members[k])
  BY DEF Listeners
<1>2. \A k \in DOMAIN members : members[k].listen # Unbound =>
        \E e \in Listeners(config, members) : e.channel = Playback(config, members[k])
  <2> SUFFICES ASSUME NEW k \in DOMAIN members, members[k].listen # Unbound
               PROVE  \E e \in Listeners(config, members) :
                        e.channel = Playback(config, members[k])
    OBVIOUS
  <2>1. EarOf(config, members[k]) \in Listeners(config, members)
    BY DEF Listeners, EarOf
  <2>2. EarOf(config, members[k]).channel = Playback(config, members[k])
    BY DEF EarOf
  <2> QED
    BY <2>1, <2>2
<1> QED
  BY <1>1, <1>2

(* The conference is heard where a line that claims it feeds a channel,    *)
(* the same samples on each, and nowhere else (process).                   *)
THEOREM ConferenceKeptToItsLines == Spec => []ConferenceWhereClaimed
<1>1. MixInv => ConferenceWhereClaimed
  <2> DEFINE Feeds(line, channel) ==
               \E k \in DOMAIN block.routing.lines[line].members :
                 /\ block.routing.lines[line].members[k].listen # Unbound
                 /\ Playback(block.routing, block.routing.lines[line].members[k]) = channel
             Claimed(channel) == \E line \in Claiming(block.routing) : Feeds(line, channel)
  <2> SUFFICES ASSUME MixInv, Mixed, NEW channel \in Channels
               PROVE  {t.said : t \in playback[channel].conference} =
                        IF Claimed(channel) THEN block.said ELSE {}
    BY DEF ConferenceWhereClaimed
  <2>1. /\ block.routing \in Configs /\ Accepted(block.routing)
        /\ playback[channel] = Carried(channel)
    BY OfTheBlock
  <2>2. \A line : (\E e \in Listeners(block.routing, block.routing.lines[line].members) :
                     e.channel = channel) <=> Feeds(line, channel)
    BY ListenersFeed
  <2>3. CASE channel \in Owned(block.routing)
    <3>1. playback[channel].conference = LegTerms(block.routing, channel, block.said)
      BY <2>1, <2>3 DEF Carried
    <3>2. \A t \in LegTerms(block.routing, channel, block.said) :
            t.said \in block.said /\ Claimed(channel)
      BY <2>2 DEF LegTerms
    <3>3. \A line \in Claiming(block.routing), word \in block.said :
            Feeds(line, channel) =>
              [line |-> line, said |-> word] \in LegTerms(block.routing, channel, block.said)
      BY <2>2 DEF LegTerms
    <3> HIDE DEF Feeds
    <3>4. \A word \in block.said :
            Claimed(channel) => \E t \in playback[channel].conference : t.said = word
      <4> SUFFICES ASSUME NEW word \in block.said, Claimed(channel)
                   PROVE  \E t \in playback[channel].conference : t.said = word
        OBVIOUS
      <4>1. PICK line \in Claiming(block.routing) : Feeds(line, channel)
        OBVIOUS
      <4>2. [line |-> line, said |-> word] \in playback[channel].conference
        BY <3>1, <3>3, <4>1
      <4>3. [line |-> line, said |-> word].said = word
        OBVIOUS
      <4> QED
        BY <4>2, <4>3
    <3> HIDE DEF Claimed
    <3> QED
      BY <3>1, <3>2, <3>4
  <2>4. CASE channel \notin Owned(block.routing)
    <3>1. playback[channel].conference = {}
      BY <2>1, <2>4 DEF Carried, OfLines, Silence
    <3>2. ~Claimed(channel)
      BY <2>1, <2>4, EarsAreOwned DEF Claiming
    <3> QED
      BY <3>1, <3>2
  <2> QED
    BY <2>3, <2>4
<1> QED
  BY <1>1, MixSafe, PTL

(* A member hears every other endpoint's microphone on a line exactly once *)
(* through however many bindings they meet, and one whose first binding is *)
(* muted not at all (configure, which collects the contributions).         *)
THEOREM EachHeardOnce == Spec => []HeardOnce
<1>1. MixInv => HeardOnce
  <2> SUFFICES ASSUME MixInv, Mixed, NEW i \in DOMAIN block.routing.lines,
                      NEW k \in DOMAIN block.routing.lines[i].members,
                      NEW l \in DOMAIN block.routing.lines[i].members,
                      block.routing.lines[i].members[k].talk # Unbound,
                      block.routing.lines[i].members[l].listen # Unbound,
                      block.routing.lines[i].members[k].endpoint
                        # block.routing.lines[i].members[l].endpoint,
                      Capture(block.routing, block.routing.lines[i].members[k]) \in Channels,
                      Playback(block.routing, block.routing.lines[i].members[l]) \in Channels
               PROVE  LET members == block.routing.lines[i].members
                      IN Copies(i, Capture(block.routing, members[k]),
                                Playback(block.routing, members[l])) =
                           IF members[FirstOf(block.routing, members, k)].mute THEN 0 ELSE 1
    BY DEF HeardOnce
  <2> DEFINE members == block.routing.lines[i].members
             mic == Capture(block.routing, members[k])
             ear == Playback(block.routing, members[l])
             copies == {t \in playback[ear].members : t.line = i /\ t.from.channel = mic}
             muted == members[FirstOf(block.routing, members, k)].mute
  <2>1. block.routing \in Configs /\ Accepted(block.routing) /\ playback[ear] = Carried(ear)
    BY OfTheBlock
  <2>2. ear \in Owned(block.routing)
    BY <2>1, EarsAreOwned
  <2>3. playback[ear].members = MemberTerms(block.routing, Width, ear)
    BY <2>1, <2>2 DEF Carried
  <2>4. \E term : copies = IF muted THEN {} ELSE {term}
    <3>1. OnceUnlessMuted(block.routing, i, k, l)
      BY <2>1, OneCopy
    <3>2. copies = TermsBetween(block.routing, i, members[k], members[l])
      BY <2>3 DEF TermsBetween
    <3> QED
      BY <3>1, <3>2 DEF OnceUnlessMuted
  <2>5. Cardinality(copies) = IF muted THEN 0 ELSE 1
    <3> HIDE DEF copies, muted
    <3> QED
      BY <2>4, FS_EmptySet, FS_Singleton
  <2> QED
    BY <2>5 DEF Copies
<1> QED
  BY <1>1, MixSafe, PTL
=============================================================================
