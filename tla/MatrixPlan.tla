------------------------------ MODULE MatrixPlan ------------------------------
(***************************************************************************)
(* What a configuration asks of the intercom matrix: which configurations  *)
(* are accepted, and what the accepted ones route.                         *)
(*                                                                         *)
(* An endpoint declares its talk channels (captured by the device) and its *)
(* listen channels (played by it). A member of a party line binds one of   *)
(* each by position, or none (0, the code's -1). Ids and names are values  *)
(* compared for equality: names after trimming and lowering.               *)
(***************************************************************************)
EXTENDS Naturals, Sequences

Unbound == 0

-----------------------------------------------------------------------------
(* Refusals (validate_configuration, plan_from_config, validate_plan)      *)

(* An enabled conference leg has a target and a declared account.          *)
LegDiallable(config) == config.leg.enabled => config.leg.target /\ config.leg.account

(* No SIP line takes the id reserved for the leg.                          *)
ReservedIdFree(config) == "conference" \notin config.lineIds

DistinctIds(s) == \A i, j \in DOMAIN s : s[i].id = s[j].id => i = j
DistinctNames(s) == \A i, j \in DOMAIN s : s[i].name = s[j].name => i = j

(* The endpoint a binding names. The ids are known to be distinct by then. *)
Declared(config, id) == \E n \in DOMAIN config.endpoints : config.endpoints[n].id = id
Position(config, id) ==
  CHOOSE n \in DOMAIN config.endpoints : config.endpoints[n].id = id
Endpoint(config, id) == config.endpoints[Position(config, id)]

(* A binding names a declared endpoint, and positions of its shape.        *)
Resolves(config, member) ==
  /\ Declared(config, member.endpoint)
  /\ member.talk <= Len(Endpoint(config, member.endpoint).talk)
  /\ member.listen <= Len(Endpoint(config, member.endpoint).listen)

ValidPlan(config) ==
  \A i \in DOMAIN config.lines :
    \A k \in DOMAIN config.lines[i].members :
      Resolves(config, config.lines[i].members[k])

(* A mistake the checks must catch: a channel claimed by two endpoints passes.                   *)
ClaimedTwice(config) == TRUE

(* In each direction a device channel has one claimant.                    *)
ClaimedOnce(config) ==
  \A n, m \in DOMAIN config.endpoints :
    LET a == config.endpoints[n] b == config.endpoints[m]
    IN /\ \A i \in DOMAIN a.talk, j \in DOMAIN b.talk :
            a.talk[i] = b.talk[j] => n = m /\ i = j
       /\ \A i \in DOMAIN a.listen, j \in DOMAIN b.listen :
            a.listen[i] = b.listen[j] => n = m /\ i = j

(* The shapes fit the device the configuration opens (audio.channels).     *)
FitsDevice(config) ==
  \A n \in DOMAIN config.endpoints :
    /\ \A i \in DOMAIN config.endpoints[n].talk :
         config.endpoints[n].talk[i] < config.width
    /\ \A i \in DOMAIN config.endpoints[n].listen :
         config.endpoints[n].listen[i] < config.width

Accepted(config) ==
  /\ LegDiallable(config)
  /\ ReservedIdFree(config)
  /\ DistinctIds(config.endpoints)
  /\ DistinctIds(config.lines)
  /\ DistinctNames(config.lines)
  /\ ValidPlan(config)
  /\ ClaimedOnce(config)
  /\ FitsDevice(config)

-----------------------------------------------------------------------------
(* What an accepted configuration routes (configure)                       *)

(* The device channels of a member's bindings.                             *)
Capture(config, member) == Endpoint(config, member.endpoint).talk[member.talk]
Playback(config, member) == Endpoint(config, member.endpoint).listen[member.listen]

SameTalk(config, a, b) ==
  /\ a.talk # Unbound /\ b.talk # Unbound
  /\ a.endpoint = b.endpoint /\ Capture(config, a) = Capture(config, b)

(* A mistake: a microphone bound twice is counted twice.                   *)
EveryContribution(config, members) ==
  {[member |-> k, endpoint |-> members[k].endpoint,
    channel |-> Capture(config, members[k]), mute |-> members[k].mute] :
     k \in {k \in DOMAIN members : members[k].talk # Unbound}}

(* A line receives each talk channel once, as the first member to bind it  *)
(* says.                                                                   *)
Contributions(config, members) ==
  {[member |-> k, endpoint |-> members[k].endpoint,
    channel |-> Capture(config, members[k]), mute |-> members[k].mute] :
     k \in {k \in DOMAIN members :
              /\ members[k].talk # Unbound
              /\ ~ \E j \in 1 .. k - 1 : SameTalk(config, members[j], members[k])}}

(* It feeds each listen channel once.                                      *)
Listeners(config, members) ==
  {[endpoint |-> members[k].endpoint, channel |-> Playback(config, members[k])] :
     k \in {k \in DOMAIN members : members[k].listen # Unbound}}

(* Every declared listen channel is the matrix's, routed to or not.        *)
Owned(config) ==
  UNION {{config.endpoints[n].listen[i] : i \in DOMAIN config.endpoints[n].listen} :
           n \in DOMAIN config.endpoints}

-----------------------------------------------------------------------------
(* One block of it (process): a mix is the set of its terms                *)

(* What is added to a playback channel for a line's listeners there: the   *)
(* contributions the device captures, the muted and the listener's own     *)
(* endpoint's apart.                                                       *)
Pairs(config) ==
  UNION {[line : {i}, to : Listeners(config, config.lines[i].members),
          from : Contributions(config, config.lines[i].members)] :
           i \in DOMAIN config.lines}
MemberTerms(config, width, channel) ==
  {t \in Pairs(config) : /\ t.to.channel = channel
                         /\ ~t.from.mute
                         /\ t.from.channel < width
                         /\ t.from.endpoint # t.to.endpoint}

(* A mistake: lines that do not claim the conference are fed it.           *)
EveryLine(config, channel, said) ==
  {t \in [line : DOMAIN config.lines, said : said] :
     \E l \in Listeners(config, config.lines[t.line].members) : l.channel = channel}

(* What is added of the conference: once per claiming line that feeds the  *)
(* channel, the same samples everywhere.                                   *)
Claiming(config) == {i \in DOMAIN config.lines : config.lines[i].claims}
LegTerms(config, channel, said) ==
  {t \in [line : Claiming(config), said : said] :
     \E l \in Listeners(config, config.lines[t.line].members) : l.channel = channel}
=============================================================================
