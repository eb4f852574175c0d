--------------------------- MODULE MCIntercomMatrix ---------------------------
(***************************************************************************)
(* Configurations for TLC: a device of four channels, three endpoints of   *)
(* different shapes, and the ways their bindings meet on one or two party  *)
(* lines. Some configurations are to be refused.                           *)
(***************************************************************************)
EXTENDS IntercomMatrix

MCWidth == 4
MCLineChannels == {1, 3}

(* a: one pair of channels; b: two microphones, one ear; c: ears alone.    *)
Shapes ==
  <<[id |-> "a", talk |-> <<0>>, listen |-> <<0>>],
    [id |-> "b", talk |-> <<1, 2>>, listen |-> <<1>>],
    [id |-> "c", talk |-> << >>, listen |-> <<2>>]>>

(* Two endpoints share a microphone, and two an ear.                       *)
SharedMic == [Shapes EXCEPT ![2].talk = <<0, 2>>]
SharedEar == [Shapes EXCEPT ![3].listen = <<0>>]
SameId == [Shapes EXCEPT ![3].id = "a"]
(* The device is opened narrower than the shapes need.                     *)
Wide == [Shapes EXCEPT ![3].listen = <<4>>]

On(endpoint, talk, listen) ==
  [endpoint |-> endpoint, talk |-> talk, listen |-> listen, mute |-> FALSE]
Muted(member) == [member EXCEPT !.mute = TRUE]
A == On("a", 1, 1)
B1 == On("b", 1, 1)
B2 == On("b", 2, 1)
C == On("c", 0, 1)

Groups ==
  {<<A, B1>>, <<A, B1, B2>>, <<A, Muted(B1), B1, C>>, <<B1, Muted(B1), A>>,
   <<A, A, C>>, <<On("b", 2, 0), C, C>>}

Line(id, name, claims, members) ==
  [id |-> id, name |-> name, claims |-> claims, members |-> members]
NoLeg == [enabled |-> FALSE, target |-> FALSE, account |-> FALSE]
Config(endpoints, lines) ==
  [endpoints |-> endpoints, lines |-> lines, width |-> MCWidth, leg |-> NoLeg,
   lineIds |-> {"1", "2"}]

OneLine(endpoints, members, claims) ==
  Config(endpoints, <<Line("l1", "one", claims, members)>>)

Routed ==
  {OneLine(Shapes, members, claims) : members \in Groups, claims \in BOOLEAN}
  \cup {Config(Shapes, <<Line("l1", "one", TRUE, <<A, B1>>),
                         Line("l2", "two", claims, <<B2, A, C>>)>>) : claims \in BOOLEAN}
  \cup {[OneLine(Wide, <<A, C>>, TRUE) EXCEPT !.width = 5]}

Refused ==
  {OneLine(shapes, <<A, B1, C>>, TRUE) : shapes \in {SharedMic, SharedEar, SameId, Wide}}
  \cup {OneLine(Shapes, <<A, On("a", 2, 1)>>, TRUE),
        OneLine(Shapes, <<On("d", 0, 0)>>, TRUE),
        Config(Shapes, <<Line("l1", "one", TRUE, <<A>>), Line("l2", "one", TRUE, <<C>>)>>),
        [OneLine(Shapes, <<A>>, TRUE) EXCEPT !.leg.enabled = TRUE]}

MCConfigs == Routed \cup Refused \cup {Config(Shapes, << >>)}

(* For the conference alone one line is enough.                            *)
MCOneConfig == {OneLine(Shapes, <<A, B1>>, TRUE), Config(Shapes, << >>)}
=============================================================================
