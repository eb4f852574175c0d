--------------------------- MODULE EndpointStreams ---------------------------
(***************************************************************************)
(* What a configuration asks of the AES67 daemon: a stream for each line   *)
(* and each endpoint, in both directions. Lines name their daemon ids;     *)
(* endpoints get the lowest ids no line uses, in configuration order.      *)
(***************************************************************************)
EXTENDS Naturals, FiniteSets, Sequences, Functions

CONSTANTS
  Lines,         \* line ids
  Endpoints,     \* endpoint ids
  Directions,    \* source and sink: each has its own ids at the daemon
  Ids,           \* bound: the daemon's stream ids
  Documents      \* bound: the configurations considered

(* A configuration, as far as streams and refusal depend on it, is a record *)
(*   [lines     : ids of each line's streams, by line and direction,       *)
(*    endpoints : sequence of endpoint ids,                                *)
(*    wired     : those with auto_create_streams off, wired by hand,       *)
(*    leg       : "off", "on" or "undiallable"].                           *)
(* An undiallable conference leg stands for all that validate_configuration *)
(* refuses (MatrixPlan has the rest).                                      *)
Accepted(document) == document.leg # "undiallable"

Taken(document) ==
  {document.lines[l][way] : l \in DOMAIN document.lines, way \in Directions}

(* The id of the n-th endpoint: hand-wired ones use one up, too.           *)
IdOfNth(document, n) ==
  CHOOSE i \in Ids \ Taken(document) :
    Cardinality({j \in Ids \ Taken(document) : j < i}) = n - 1

Provisioned(document) == Range(document.endpoints) \ document.wired

Position(document, e) ==
  CHOOSE n \in DOMAIN document.endpoints : document.endpoints[n] = e

(* A mistake: the ids the lines use are given to endpoints as well.        *)
AllocatedFromZero(document) ==
  [e \in Provisioned(document) |-> Position(document, e) - 1]

Allocated(document) ==
  [e \in Provisioned(document) |-> IdOfNth(document, Position(document, e))]

(* Lines are set up by hand and do not share ids; an endpoint is declared  *)
(* once (refuse_duplicate_ids); and there are ids enough for all.          *)
ASSUME StreamAssumption ==
  /\ Lines \cap Endpoints = {}
  /\ IsFiniteSet(Lines) /\ IsFiniteSet(Ids) /\ Ids = 0 .. (Cardinality(Ids) - 1)
  /\ \A document \in Documents :
       /\ DOMAIN document = {"lines", "endpoints", "wired", "leg"}
       /\ document.leg \in {"off", "on", "undiallable"}
       /\ DOMAIN document.lines \subseteq Lines
       /\ \A l, m \in DOMAIN document.lines, way \in Directions :
            /\ document.lines[l][way] \in Ids
            /\ document.lines[l][way] = document.lines[m][way] => l = m
       /\ document.endpoints \in Seq(Endpoints)
       /\ document.wired \subseteq Endpoints
       /\ \A n, m \in DOMAIN document.endpoints :
            document.endpoints[n] = document.endpoints[m] => n = m
       /\ Len(document.endpoints) <= Cardinality(Ids \ Taken(document))
=============================================================================
