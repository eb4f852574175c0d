--------------------------- MODULE MCConfiguration ---------------------------
(***************************************************************************)
(* Small configurations for TLC: one line, under either id, and one of     *)
(* two endpoints, of which the one that is wired by hand takes an id and   *)
(* no streams. The leg is on, off or refused. The directions meet in the   *)
(* ids that are taken only; one is enough.                                 *)
(***************************************************************************)
EXTENDS Configuration

MCIds == 0..1

Doc(lines, endpoints, conference) ==
  [lines |-> lines, endpoints |-> endpoints, wired |-> {"w"}, leg |-> conference]
Under(id) == "l" :> [way \in Directions |-> id]

MCDocuments ==
  {Doc(Under(0), <<"a">>, "on"), Doc(Under(1), <<"a">>, "on"),
   Doc(Under(0), <<"a">>, "undiallable"), Doc(Under(1), <<"w">>, "off")}

MCSurroundings ==
  {{"writable", "healthy", "answers"}, {"healthy"}, {"writable", "answers"}}
=============================================================================
