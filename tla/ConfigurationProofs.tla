------------------------- MODULE ConfigurationProofs -------------------------
(***************************************************************************)
(* What holds of the configuration on its way from a request to the file,  *)
(* the running gateway and the daemon. Each action is first reduced to     *)
(* what it does to its own thread and to the others; the invariants are    *)
(* shown of those steps: Placed (the types, for any number of workers),    *)
(* ServeInv (what an undisturbed apply has put), and, with one worker,     *)
(* FileInv, TruthInv and SoundInv (what a save makes of the file).         *)
(***************************************************************************)
EXTENDS Configuration, FiniteSetTheorems, SequenceTheorems, WellFoundedInduction, TLAPS

(* Of some numbers one is the least; of finitely many, one the greatest.   *)
LEMMA Least ==
  ASSUME NEW S \in SUBSET Nat, S # {}
  PROVE  \E m \in S : \A k \in S : m <= k
<1> DEFINE R == OpToRel(<, Nat)
<1>1. IsWellFoundedOn(R, Nat)
  BY NatLessThanWellFounded
<1>2. PICK m \in S : \A k \in S : ~ (<<k, m>> \in R)
  <2> HIDE DEF R
  <2> QED
    BY <1>1, WFMin
<1>3. \A k \in S : k < m => <<k, m>> \in R
  BY DEF OpToRel
<1>4. m \in Nat /\ \A k \in S : k \in Nat
  OBVIOUS
<1> HIDE DEF R
<1>5. \A k \in S : ~(k < m)
  BY <1>2, <1>3, Zenon
<1> QED
  BY <1>4, <1>5

LEMMA Greatest ==
  ASSUME NEW N \in Nat, NEW S \in SUBSET (0 .. N), S # {}
  PROVE  \E m \in S : \A k \in S : k <= m
<1> DEFINE Above == {b \in Nat : \A k \in S : k <= b}
<1>1. N \in Above
  OBVIOUS
<1>2. PICK b \in Above : \A c \in Above : b <= c
  <2> HIDE DEF Above
  <2>1. Above \in SUBSET Nat
    BY DEF Above
  <2> QED
    BY <1>1, <2>1, Least
<1>3. b \in S
  <2> SUFFICES ASSUME b \notin S PROVE FALSE
    OBVIOUS
  <2>1. b # 0
    <3>1. PICK k \in S : TRUE
      OBVIOUS
    <3>2. k <= b /\ k # b /\ k \in Nat
      BY <3>1
    <3> QED
      BY <3>2
  <2>2. b - 1 \in Nat /\ \A k \in S : k <= b - 1
    BY <2>1
  <2>3. b - 1 \in Above
    BY <2>2
  <2> QED
    BY <1>2, <2>3
<1> QED
  BY <1>3

(* A set of at least n numbers has an n-th one.                            *)
LEMMA Nth ==
  ASSUME NEW N \in Nat, NEW S \in SUBSET (0 .. N), NEW n \in Nat \ {0}, n <= Cardinality(S)
  PROVE  \E i \in S : Cardinality({j \in S : j < i}) = n - 1
<1> DEFINE Below(i) == {j \in S : j < i}
           UpTo(i) == {j \in S : j <= i}
           Enough == {i \in S : Cardinality(UpTo(i)) >= n}
<1>1. IsFiniteSet(S) /\ \A i \in S : i \in Nat
  <2>1. IsFiniteSet(0 .. N)
    BY FS_Interval
  <2>2. IsFiniteSet(S)
    BY <2>1, FS_Subset
  <2>3. \A i \in S : i \in Nat
    OBVIOUS
  <2> QED
    BY <2>2, <2>3
<1>2. \A i \in S : /\ IsFiniteSet(Below(i)) /\ Cardinality(Below(i)) \in Nat
                   /\ Cardinality(UpTo(i)) = Cardinality(Below(i)) + 1
  <2> TAKE i \in S
  <2>1. IsFiniteSet(Below(i)) /\ Cardinality(Below(i)) \in Nat
    BY <1>1, FS_Subset, FS_CardinalityType
  <2>2. UpTo(i) = Below(i) \cup {i} /\ i \notin Below(i)
    <3>1. \A j \in S : (j <= i <=> j < i \/ j = i) /\ ~(i < i)
      BY <1>1
    <3> QED
      BY <3>1
  <2> QED
    BY <2>1, <2>2, FS_AddElement
<1>3. Enough # {}
  <2>1. S # {}
    BY FS_EmptySet
  <2>2. PICK m \in S : \A k \in S : k <= m
    BY <2>1, Greatest
  <2>3. UpTo(m) = S
    BY <2>2
  <2> QED
    BY <2>3
<1>4. PICK m \in Enough : \A k \in Enough : m <= k
  <2> HIDE DEF Enough
  <2>1. Enough \in SUBSET Nat
    BY <1>1 DEF Enough
  <2> QED
    BY <1>3, <2>1, Least
<1>5. Cardinality(Below(m)) >= n - 1
  BY <1>2
<1>6. ~(Cardinality(Below(m)) >= n)
  <2> SUFFICES ASSUME Cardinality(Below(m)) >= n PROVE FALSE
    OBVIOUS
  <2>1. Below(m) # {}
    BY FS_EmptySet
  <2>2. PICK p \in Below(m) : \A k \in Below(m) : k <= p
    BY <2>1, Greatest
  <2>3. UpTo(p) = Below(m)
    <3>1. \A j \in S : j <= p <=> j < m
      BY <1>1, <2>2
    <3> QED
      BY <3>1
  <2>4. p \in Enough /\ p < m
    BY <2>3
  <2> QED
    BY <1>4, <2>4
<1>7. Cardinality(Below(m)) = n - 1
  BY <1>2, <1>5, <1>6
<1> QED
  BY <1>7

(* Each endpoint gets an id no line uses, and one of its own.              *)
LEMMA IdsApart ==
  ASSUME NEW document \in Documents
  PROVE  /\ \A e \in Provisioned(document) :
              Allocated(document)[e] \in Ids \ Taken(document)
         /\ \A e, f \in Provisioned(document) :
              Allocated(document)[e] = Allocated(document)[f] => e = f
<1> DEFINE Unused == Ids \ Taken(document)
           Before(i) == Cardinality({j \in Unused : j < i})
<1>1. \A n \in DOMAIN document.endpoints :
        IdOfNth(document, n) \in Unused /\ Before(IdOfNth(document, n)) = n - 1
  <2> TAKE n \in DOMAIN document.endpoints
  <2>1. n \in Nat \ {0} /\ n <= Cardinality(Unused)
    <3>1. /\ document.endpoints \in Seq(Endpoints)
          /\ Len(document.endpoints) <= Cardinality(Unused)
      BY StreamAssumption
    <3>2. IsFiniteSet(Unused) /\ Cardinality(Unused) \in Nat
      BY StreamAssumption, FS_Difference, FS_CardinalityType
    <3>3. n \in 1 .. Len(document.endpoints) /\ Len(document.endpoints) \in Nat
      BY <3>1, LenProperties
    <3> HIDE DEF Unused
    <3> QED
      BY <3>1, <3>2, <3>3
  <2>2. Cardinality(Ids) \in Nat \ {0} /\ Unused \subseteq 0 .. Cardinality(Ids) - 1
    <3>1. Cardinality(Ids) \in Nat /\ Cardinality(Unused) <= Cardinality(Ids)
      BY StreamAssumption, FS_CardinalityType, FS_Subset
    <3>2. IsFiniteSet(Unused) /\ Cardinality(Unused) \in Nat
      BY StreamAssumption, FS_Difference, FS_CardinalityType
    <3> QED
      BY <2>1, <3>1, <3>2, StreamAssumption
  <2>3. \E i \in Unused : Before(i) = n - 1
    <3> DEFINE N == Cardinality(Ids) - 1
    <3>1. N \in Nat /\ Unused \in SUBSET (0 .. N)
      BY <2>2
    <3> HIDE DEF N, Unused
    <3> QED
      BY <2>1, <3>1, Nth
  <2> QED
    BY <2>3 DEF IdOfNth
<1>2. \A e \in Provisioned(document) :
        /\ Position(document, e) \in DOMAIN document.endpoints
        /\ document.endpoints[Position(document, e)] = e
  BY DEF Provisioned, Range, Position
<1>3. \A e \in Provisioned(document) :
        Allocated(document)[e] = IdOfNth(document, Position(document, e))
  BY DEF Allocated
<1>4. \A n \in DOMAIN document.endpoints : n \in Int
  <2>1. document.endpoints \in Seq(Endpoints)
    BY StreamAssumption
  <2> QED
    BY <2>1, LenProperties
<1> HIDE DEF Unused, Before
<1>5. \A e, f \in Provisioned(document) :
        Allocated(document)[e] = Allocated(document)[f] =>
          Position(document, e) = Position(document, f)
  BY <1>1, <1>2, <1>3, <1>4
<1> QED
  BY <1>1, <1>2, <1>3, <1>5 DEF Unused

(* What remains to be done of a list is done from its head.                *)
LEMMA Remaining ==
  ASSUME NEW S, NEW s \in Seq(S), s # << >>
  PROVE  /\ Head(s) \in S /\ Tail(s) \in Seq(S)
         /\ \A x \in Range(s) : x = Head(s) \/ x \in Range(Tail(s))
<1>1. /\ Head(s) \in S /\ Tail(s) \in Seq(S) /\ Len(Tail(s)) = Len(s) - 1
      /\ \A i \in 1 .. Len(Tail(s)) : Tail(s)[i] = s[i + 1]
  BY HeadTailProperties
<1>2. DOMAIN s = 1 .. Len(s) /\ DOMAIN Tail(s) = 1 .. Len(Tail(s)) /\ Len(s) \in Nat
  BY <1>1, LenProperties
<1>3. ASSUME NEW i \in DOMAIN s PROVE s[i] = Head(s) \/ s[i] \in Range(Tail(s))
  <2>1. CASE i = 1
    BY <2>1
  <2>2. CASE i # 1
    <3>1. i - 1 \in DOMAIN Tail(s) /\ Tail(s)[i - 1] = s[i]
      BY <1>1, <1>2, <2>2
    <3> QED
      BY <3>1 DEF Range
  <2> QED
    BY <2>1, <2>2
<1> QED
  BY <1>1, <1>3 DEF Range

LEMMA Listed ==
  ASSUME NEW S, IsFiniteSet(S)
  PROVE  SetToSeq(S) \in Seq(S) /\ Range(SetToSeq(S)) = S
<1>1. Cardinality(S) \in Nat /\ \E f : f \in Bijection(1 .. Cardinality(S), S)
  BY FS_CardinalityType DEF ExistsBijection
<1>2. \E f \in [1 .. Cardinality(S) -> S] : IsInjective(f)
  BY <1>1 DEF Bijection, Injection
<1> DEFINE f == SetToSeq(S)
<1>3. f \in [1 .. Cardinality(S) -> S] /\ IsInjective(f)
  BY <1>2 DEF SetToSeq
<1> HIDE DEF f
<1>4. f \in Surjection(1 .. Cardinality(S), S)
  <2>1. IsFiniteSet(1 .. Cardinality(S)) /\ Cardinality(1 .. Cardinality(S)) = Cardinality(S)
    BY <1>1, FS_Interval
  <2>2. f \in Injection(1 .. Cardinality(S), S)
    BY <1>3 DEF Injection
  <2> QED
    BY <2>1, <2>2, FS_Injection
<1>5. f \in Seq(S)
  BY <1>1, <1>3
<1>6. Range(f) = S
  BY <1>3, <1>4 DEF Range, Surjection
<1> QED
  BY <1>5, <1>6 DEF f

-----------------------------------------------------------------------------
(* What every thread keeps to                                              *)

Records ==
  [at : Places, request : Requests, document : Documents \cup {None},
   inode : Inodes \cup {None}, left : Seq(Lines \cup Endpoints), alone : BOOLEAN]
Works == [Threads -> Records]

Holding == {"write", "rename", "fill"}
SavePlaces == {"open", "write", "rename", "truncate", "fill", "saved"}
ApplyPlaces == {"lines", "endpoints"}
MainPlaces == {"idle", "apply", "lines", "endpoints"} \cup LegPlaces

(* Who saves or applies has a document for it, only who writes holds a     *)
(* file open, and the main thread neither saves nor loads.                 *)
PlacedIn(t, w) ==
  /\ w[t].at \in SavePlaces \cup ApplyPlaces => w[t].document \in Documents
  /\ w[t].at \notin Holding => w[t].inode = None
  /\ t = Main => w[t].at \in MainPlaces

Placed ==
  /\ TypeOK
  /\ \A t \in Threads : PlacedIn(t, work)
  /\ ~up => \A t \in Threads : work[t] = Resting

LEMMA RestingTypes == Resting \in Records /\ DOMAIN Resting = {"at", "request", "document", "inode", "left", "alone"}
BY DEF Resting, Records, Places, Requests

LEMMA SetAt ==
  ASSUME NEW w \in Works, NEW t \in Threads, NEW v \in Places
  PROVE  [w EXCEPT ![t].at = v] \in Works
BY DEF Works, Records

LEMMA SetRequest ==
  ASSUME NEW w \in Works, NEW t \in Threads, NEW v \in Requests
  PROVE  [w EXCEPT ![t].request = v] \in Works
BY DEF Works, Records

LEMMA SetDocument ==
  ASSUME NEW w \in Works, NEW t \in Threads, NEW v \in Documents \cup {None}
  PROVE  [w EXCEPT ![t].document = v] \in Works
BY DEF Works, Records

LEMMA SetInode ==
  ASSUME NEW w \in Works, NEW t \in Threads, NEW v \in Inodes \cup {None}
  PROVE  [w EXCEPT ![t].inode = v] \in Works
BY DEF Works, Records

LEMMA SetLeft ==
  ASSUME NEW w \in Works, NEW t \in Threads, NEW v \in Seq(Lines \cup Endpoints)
  PROVE  [w EXCEPT ![t].left = v] \in Works
BY DEF Works, Records

LEMMA SetAlone ==
  ASSUME NEW w \in Works, NEW t \in Threads, NEW v \in BOOLEAN
  PROVE  [w EXCEPT ![t].alone = v] \in Works
BY DEF Works, Records

LEMMA WentTypes ==
  ASSUME work \in Works, NEW t \in Threads, NEW place \in Places
  PROVE  Went(t, place) \in Works
<1>1. CASE place = "idle"
  BY <1>1, RestingTypes DEF Went, Works
<1>2. CASE place # "idle"
  <2>1. [work[t] EXCEPT !.at = place] \in Records
    BY DEF Works, Records
  <2> QED
    BY <1>2, <2>1 DEF Went, Works
<1> QED
  BY <1>1, <1>2

LEMMA DoneTypes ==
  ASSUME work \in Works, NEW t \in Threads, NEW place \in Places
  PROVE  Done(t, place) \in Works
<1>1. [Resting EXCEPT !.at = place] \in Records
  BY RestingTypes DEF Records
<1> QED
  BY <1>1 DEF Done, Works

(* Disturbing takes a thread nothing but its being alone.                  *)
Same(a, b) ==
  /\ a.at = b.at /\ a.request = b.request /\ a.document = b.document
  /\ a.inode = b.inode /\ a.left = b.left

LEMMA Disturbed ==
  ASSUME work \in Works, NEW t \in Threads, NEW changed \in Works
  PROVE  /\ Disturbing(t, changed) \in Works
         /\ Disturbing(t, changed)[t] = changed[t]
         /\ \A o \in Threads \ {t} :
              /\ Same(Disturbing(t, changed)[o], changed[o])
              /\ ~Applying(o) => Disturbing(t, changed)[o] = changed[o]
              /\ Applying(o) => ~Disturbing(t, changed)[o].alone
<1>1. \A o \in Threads : [changed[o] EXCEPT !.alone = FALSE] \in Records
  BY DEF Works, Records
<1>2. \A o \in Threads : /\ Same([changed[o] EXCEPT !.alone = FALSE], changed[o])
                         /\ ~[changed[o] EXCEPT !.alone = FALSE].alone
  BY DEF Works, Records, Same
<1> QED
  BY <1>1, <1>2 DEF Disturbing, Works, Same

(* The others go on where they were. Of those who apply, each knows of a   *)
(* change of what it builds on.                                            *)
Frame(t) ==
  /\ work' \in Works
  /\ \/ /\ UNCHANGED <<table, config>>
        /\ \A o \in Threads \ {t} : work'[o] = work[o]
     \/ \A o \in Threads \ {t} : /\ Same(work'[o], work[o])
                                 /\ Applying(o) => ~work'[o].alone

LEMMA QuietFrame ==
  ASSUME NEW t \in Threads, work' \in Works, UNCHANGED <<table, config>>,
         \A o \in Threads \ {t} : work'[o] = work[o]
  PROVE  Frame(t)
BY DEF Frame

LEMMA LoudFrame ==
  ASSUME work \in Works, NEW t \in Threads, NEW changed \in Works,
         \A o \in Threads \ {t} : changed[o] = work[o],
         work' = Disturbing(t, changed)
  PROVE  Frame(t) /\ work'[t] = changed[t]
BY Disturbed DEF Frame

LEMMA WentOn ==
  ASSUME work \in Works, NEW t \in Threads, NEW place \in Places
  PROVE  /\ Went(t, place) \in Works
         /\ \A o \in Threads \ {t} : Went(t, place)[o] = work[o]
         /\ Went(t, place)[t] = IF place = "idle" THEN Resting ELSE [work[t] EXCEPT !.at = place]
<1>1. Went(t, place) \in Works
  BY WentTypes
<1> QED
  BY <1>1 DEF Went, Works

LEMMA DoneWith ==
  ASSUME work \in Works, NEW t \in Threads, NEW place \in Places
  PROVE  /\ Done(t, place) \in Works
         /\ \A o \in Threads \ {t} : Done(t, place)[o] = work[o]
         /\ Done(t, place)[t] = [Resting EXCEPT !.at = place]
<1>1. Done(t, place) \in Works
  BY DoneTypes
<1> QED
  BY <1>1 DEF Done, Works

(* Whoever is at something, the gateway runs.                              *)
LEMMA Runs ==
  ASSUME Placed, NEW t \in Threads, ~At(t, "idle")
  PROVE  up /\ config \in Documents
<1>1. up
  BY DEF Placed, At, Resting
<1> QED
  BY <1>1 DEF Placed, TypeOK

LEMMA WorksTyped ==
  ASSUME Placed PROVE work \in Works
BY DEF Placed, TypeOK, WorkTypeOK, Works, Records

-----------------------------------------------------------------------------
(* What the steps do to a thread                                           *)

(* A request begins a save of its document, which for a line is in force.  *)
Opens(t) ==
  /\ Frame(t)
  /\ t \in Workers /\ up /\ up' /\ work[t].at = "idle"
  /\ UNCHANGED <<storeVars, table, allocated, legVars, applied>>
  /\ config' \in Documents
  /\ work'[t].at = "open" /\ work'[t].document \in Documents /\ work'[t].inode = None
  /\ IF work'[t].request = "line"
     THEN config' = work'[t].document /\ config'.leg = config.leg
     ELSE config' = config /\ Accepted(work'[t].document)

(* Or it reads the file anew.                                              *)
Reloads(t) ==
  /\ Frame(t)
  /\ t \in Workers /\ up /\ up' /\ work[t].at = "idle"
  /\ UNCHANGED <<storeVars, config, table, allocated, legVars, applied>>
  /\ work'[t].at = "load" /\ work'[t].inode = None

LEMMA Asked ==
  ASSUME Placed, NEW t \in Threads, Free(t), NEW request \in Requests, NEW document \in Documents
  PROVE  LET w == Requested(t, request, document)
         IN /\ w \in Works
            /\ \A o \in Threads \ {t} : w[o] = work[o]
            /\ w[t].at = "open" /\ w[t].document = document /\ w[t].request = request
            /\ w[t].inode = None
<1>1. work \in Works
  BY WorksTyped
<1> DEFINE w1 == [work EXCEPT ![t].at = "open"]
           w2 == [w1 EXCEPT ![t].request = request]
           w3 == [w2 EXCEPT ![t].document = document]
<1>2. w1 \in Works
  BY <1>1, SetAt DEF Places, LegPlaces
<1>3. w2 \in Works
  <2> HIDE DEF w1
  <2> QED
    BY <1>2, SetRequest
<1>4. w3 \in Works
  <2> HIDE DEF w2
  <2> QED
    BY <1>3, SetDocument
<1>5. Requested(t, request, document) = w3
  BY DEF Requested
<1>6. work[t].inode = None
  BY DEF Placed, PlacedIn, Free, At, Holding
<1>7. /\ \A o \in Threads \ {t} : w3[o] = work[o]
      /\ w3[t].at = "open" /\ w3[t].document = document /\ w3[t].request = request
      /\ w3[t].inode = work[t].inode
  BY <1>1 DEF Works, Records
<1> QED
  BY <1>4, <1>5, <1>6, <1>7

LEMMA RequestOpens ==
  ASSUME Placed, NEW t \in Threads, NEW document \in Documents,
         NEW request \in {"config", "conference"}, Free(t), Accepted(document),
         work' = Requested(t, request, document),
         UNCHANGED <<storeVars, up, config, table, allocated, legVars, applied>>
  PROVE  Opens(t)
<1>1. /\ work' \in Works
      /\ \A o \in Threads \ {t} : work'[o] = work[o]
      /\ work'[t].at = "open" /\ work'[t].document = document /\ work'[t].request = request
      /\ work'[t].inode = None
  BY Asked DEF Requests
<1>2. Frame(t)
  BY <1>1, QuietFrame
<1>3. config \in Documents
  BY DEF Placed, TypeOK, Free
<1> QED
  BY <1>1, <1>2, <1>3 DEF Free, At, Opens

LEMMA LineOpens ==
  ASSUME Placed, NEW t \in Threads, NEW line \in Lines, NEW streams,
         UpdateLine(t, line, streams)
  PROVE  Opens(t)
<1> DEFINE document == [config EXCEPT !.lines[line] = streams]
           w == Requested(t, "line", document)
           changed == [w EXCEPT ![t].left = <<line>>]
<1>1. /\ Free(t) /\ document \in Documents /\ config' = document
      /\ work' = Disturbing(t, changed)
      /\ UNCHANGED <<storeVars, up, table, allocated, legVars, applied>>
  BY DEF UpdateLine
<1>2. config'.leg = config.leg
  <2>1. DOMAIN config = {"lines", "endpoints", "wired", "leg"}
    BY <1>1, StreamAssumption DEF Placed, TypeOK, Free
  <2> QED
    BY <1>1, <2>1
<1> HIDE DEF document
<1>3. /\ w \in Works
      /\ \A o \in Threads \ {t} : w[o] = work[o]
      /\ w[t].at = "open" /\ w[t].document = document /\ w[t].request = "line"
      /\ w[t].inode = None
  BY <1>1, Asked DEF Requests
<1> HIDE DEF w
<1>4. changed \in Works
  <2>1. <<line>> \in Seq(Lines \cup Endpoints)
    OBVIOUS
  <2> QED
    BY <1>3, <2>1, SetLeft
<1>5. /\ \A o \in Threads \ {t} : changed[o] = work[o]
      /\ changed[t].at = "open" /\ changed[t].document = document
      /\ changed[t].request = "line" /\ changed[t].inode = None
  BY <1>3 DEF Works, Records
<1> HIDE DEF changed
<1>6. Frame(t) /\ work'[t] = changed[t]
  BY <1>1, <1>4, <1>5, WorksTyped, LoudFrame
<1> QED
  BY <1>1, <1>2, <1>5, <1>6 DEF Free, At, Opens

LEMMA Going ==
  ASSUME Placed, NEW t \in Threads, UNCHANGED <<table, config>>,
         NEW place \in Places \ {"idle"}, work' = Went(t, place)
  PROVE  /\ Frame(t) /\ \A o \in Threads \ {t} : work'[o] = work[o]
         /\ work'[t].at = place /\ work'[t].inode = work[t].inode
         /\ work'[t].document = work[t].document /\ work'[t].request = work[t].request
         /\ work'[t].left = work[t].left /\ work'[t].alone = work[t].alone
<1>1. work \in Works /\ Went(t, place) \in Works
  BY WorksTyped, WentTypes
<1>2. \A o \in Threads \ {t} : work'[o] = work[o]
  <2>1. \A o \in Threads \ {t} : Went(t, place)[o] = work[o]
    BY <1>1, WentOn, Zenon
  <2> QED
    BY <2>1
<1>3. Frame(t)
  BY <1>1, <1>2, QuietFrame
<1>4. work'[t] = [work[t] EXCEPT !.at = place]
  BY <1>1, WentOn
<1>5. work[t] \in Records
  BY <1>1 DEF Works
<1> QED
  BY <1>2, <1>3, <1>4, <1>5 DEF Records

RequestStep(t) ==
  \/ \E document \in Documents : PostConfig(t, document)
  \/ \E wanted \in {"off", "on", "undiallable"} : UpdateConference(t, wanted)
  \/ \E line \in Lines, streams \in [Directions -> Ids] : UpdateLine(t, line, streams)
  \/ Restart(t)

LEMMA RequestFacts ==
  ASSUME Placed, NEW t \in Threads, RequestStep(t)
  PROVE  Opens(t) \/ Reloads(t)
<1>1. ASSUME NEW document \in Documents, PostConfig(t, document)
      PROVE  Opens(t)
  BY <1>1, RequestOpens DEF PostConfig
<1>2. ASSUME NEW wanted, UpdateConference(t, wanted)
      PROVE  Opens(t)
  BY <1>2, RequestOpens DEF UpdateConference
<1>3. ASSUME Restart(t)
      PROVE  Reloads(t)
  <2>1. /\ Free(t) /\ work' = Went(t, "load") /\ work[t].inode = None
        /\ UNCHANGED <<storeVars, up, config, table, allocated, legVars, applied>>
    BY <1>3 DEF Restart, Placed, PlacedIn, Free, At, Holding
  <2>2. "load" \in Places \ {"idle"}
    BY DEF Places
  <2>3. Frame(t) /\ work'[t].at = "load" /\ work'[t].inode = work[t].inode
    BY <2>1, <2>2, Going
  <2> QED
    BY <2>1, <2>3 DEF Free, At, Reloads
<1> QED
  BY <1>1, <1>2, <1>3, LineOpens DEF RequestStep

(* A save goes from place to place; nothing but the files changes.         *)
Saves(t) ==
  /\ Frame(t)
  /\ up /\ \A o \in Threads \ {t} : work'[o] = work[o]
  /\ UNCHANGED <<up, config, table, allocated, legVars, applied, around>>
  /\ work'[t].document = work[t].document /\ work'[t].request = work[t].request
  /\ LET from == work[t].at
         to == work'[t].at
         inode == work'[t].inode
     IN \/ /\ from = "open" /\ to = "truncate" /\ inode = None
           /\ ~writable /\ UNCHANGED <<content, path, temp>>
        \/ /\ from = "open" /\ to = "write" /\ inode = temp' /\ writable
           /\ temp' \in Inodes /\ (temp = None => temp' # path) /\ (temp # None => temp' = temp)
           /\ content' = [content EXCEPT ![temp'] = Partial] /\ UNCHANGED path
        \/ /\ from = "write" /\ to = "rename" /\ inode = work[t].inode
           /\ \E c \in Written(t) : content' = [content EXCEPT ![work[t].inode] = c]
           /\ UNCHANGED <<path, temp>>
        \/ /\ from = "write" /\ to = "truncate" /\ inode = None
           /\ ~healthy /\ temp' = None /\ UNCHANGED <<content, path>>
        \/ /\ from = "rename" /\ to = "truncate" /\ inode = None
           /\ temp = None /\ UNCHANGED <<content, path, temp>>
        \/ /\ from = "rename" /\ to = "saved" /\ inode = None
           /\ temp # None /\ path' = temp /\ temp' = None
           /\ content' = [content EXCEPT ![path] = Partial]
        \/ /\ from = "truncate" /\ to = "fill" /\ inode = path
           /\ content' = [content EXCEPT ![path] = Partial] /\ UNCHANGED <<path, temp>>
        \/ /\ from = "fill" /\ to = "saved" /\ inode = None
           /\ \E c \in Written(t) \cup (IF healthy THEN {} ELSE {Partial}) :
                content' = [content EXCEPT ![work[t].inode] = c]
           /\ UNCHANGED <<path, temp>>
        \/ /\ from \in {"truncate", "fill"} /\ to = "unsaved" /\ inode = None
           /\ ~healthy /\ UNCHANGED <<content, path, temp>>

LEMMA Opening ==
  ASSUME Placed, NEW t \in Threads, UNCHANGED <<table, config>>,
         NEW place \in Places \ {"idle"}, NEW inode \in Inodes \cup {None},
         Open(t, place, inode)
  PROVE  /\ Frame(t) /\ \A o \in Threads \ {t} : work'[o] = work[o]
         /\ work'[t].at = place /\ work'[t].inode = inode
         /\ work'[t].document = work[t].document /\ work'[t].request = work[t].request
<1> DEFINE w == Went(t, place)
<1>1. work \in Works /\ w \in Works
  BY WorksTyped, WentTypes
<1>2. /\ \A o \in Threads \ {t} : w[o] = work[o]
      /\ w[t] = [work[t] EXCEPT !.at = place]
  BY <1>1, WentOn
<1>3. work' = [w EXCEPT ![t].inode = inode]
  BY DEF Open
<1> HIDE DEF w
<1>4. work' \in Works
  BY <1>1, <1>3, SetInode
<1>5. \A o \in Threads \ {t} : work'[o] = work[o]
  <2>1. \A o \in Threads \ {t} : work'[o] = w[o]
    BY <1>1, <1>3 DEF Works
  <2> QED
    BY <1>2, <2>1
<1>6. Frame(t)
  BY <1>4, <1>5, QuietFrame
<1>7. /\ w[t].at = place /\ w[t].document = work[t].document /\ w[t].request = work[t].request
  <2>1. work[t] \in Records
    BY <1>1 DEF Works
  <2> QED
    BY <1>2, <2>1 DEF Records
<1>8. /\ work'[t].at = w[t].at /\ work'[t].inode = inode
      /\ work'[t].document = w[t].document /\ work'[t].request = w[t].request
  BY <1>1, <1>3 DEF Works, Records
<1> QED
  BY <1>5, <1>6, <1>7, <1>8

(* There is a file nobody has open (the directory takes another).          *)
LEMMA FreshIs ==
  ASSUME Placed, NEW t \in Threads, At(t, "open")
  PROVE  Fresh \in Inodes \ {path}
<1>1. path \in Inodes /\ work \in Works
  BY WorksTyped DEF Placed, TypeOK, StoreTypeOK
<1>2. t \in Workers /\ Main \notin Workers /\ work[t].inode = None /\ work[Main].inode = None
  BY StoreAssumption DEF Placed, PlacedIn, At, MainPlaces, LegPlaces, Threads, Holding
<1> DEFINE open == [o \in Workers \ {t} |-> work[o].inode]
<1>3. open \in [Workers \ {t} -> Inodes \cup {None}]
  BY <1>1 DEF Works, Records, Threads
<1>4. PICK fresh \in Inodes \ {path} : \A o \in Workers \ {t} : open[o] # fresh
  <2> HIDE DEF open
  <2> QED
    BY <1>1, <1>2, <1>3, StoreAssumption
<1>5. \A o \in Threads : fresh # work[o].inode
  BY <1>2, <1>4, StoreAssumption DEF Threads
<1> QED
  BY <1>4, <1>5 DEF Fresh

LEMMA SaveFacts ==
  ASSUME Placed, NEW t \in Threads, SaveStep(t)
  PROVE  Saves(t)
<1> USE DEF At
<1>0. /\ up /\ UNCHANGED <<up, config, table, allocated, legVars, applied>>
      /\ None \notin Inodes /\ path \in Inodes /\ temp \in Inodes \cup {None}
  BY StoreAssumption DEF SaveStep, Placed, TypeOK, StoreTypeOK
<1>1. CASE SaveOpen(t) /\ ~writable
  <2>1. /\ work' = Went(t, "truncate") /\ UNCHANGED <<content, path, temp, around>>
        /\ work[t].at = "open"
    BY <1>1 DEF SaveOpen
  <2>2. work[t].inode = None
    BY <2>1 DEF Placed, PlacedIn, Holding
  <2> QED
    BY <1>0, <1>1, <2>1, <2>2, Going DEF Saves, Places, LegPlaces
<1>2. CASE SaveOpen(t) /\ writable
  <2>1. /\ temp' = IF temp = None THEN Fresh ELSE temp
        /\ content' = [content EXCEPT ![temp'] = Partial]
        /\ Open(t, "write", temp') /\ UNCHANGED <<path, around>>
        /\ work[t].at = "open"
    BY <1>2 DEF SaveOpen
  <2>2. temp' \in Inodes /\ (temp = None => temp' # path)
    BY <1>0, <2>1, FreshIs
  <2> QED
    BY <1>0, <1>2, <2>1, <2>2, Opening DEF Saves, Places, LegPlaces
<1>3. CASE SaveWrite(t)
  <2>1. /\ work' = Went(t, "rename") /\ UNCHANGED <<path, temp, around>>
        /\ \E c \in Written(t) : content' = [content EXCEPT ![work[t].inode] = c]
        /\ work[t].at = "write"
    BY <1>3 DEF SaveWrite
  <2> QED
    BY <1>0, <2>1, Going DEF Saves, Places, LegPlaces
<1>4. CASE SaveWriteFails(t)
  BY <1>0, <1>4, Opening DEF SaveWriteFails, Saves, Places, LegPlaces
<1>5. CASE SaveRename(t) /\ temp = None
  BY <1>0, <1>5, Opening DEF SaveRename, Saves, Places, LegPlaces
<1>6. CASE SaveRename(t) /\ temp # None
  BY <1>0, <1>6, Opening DEF SaveRename, Saves, Places, LegPlaces
<1>7. CASE SaveTruncate(t)
  BY <1>0, <1>7, Opening DEF SaveTruncate, Saves, Places, LegPlaces
<1>8. CASE SaveFill(t)
  <2>1. /\ Open(t, "saved", None) /\ UNCHANGED <<path, temp, around>>
        /\ \E c \in Written(t) \cup (IF healthy THEN {} ELSE {Partial}) :
             content' = [content EXCEPT ![work[t].inode] = c]
        /\ work[t].at = "fill"
    BY <1>8 DEF SaveFill
  <2>2. /\ Frame(t) /\ \A o \in Threads \ {t} : work'[o] = work[o]
        /\ work'[t].at = "saved" /\ work'[t].inode = None
        /\ work'[t].document = work[t].document /\ work'[t].request = work[t].request
    BY <1>0, <2>1, Opening DEF Places, LegPlaces
  <2> QED
    BY <1>0, <2>1, <2>2 DEF Saves
<1>9. CASE SaveFails(t)
  BY <1>0, <1>9, Opening DEF SaveFails, Saves, Places, storeVars
<1> QED
  BY <1>1, <1>2, <1>3, <1>4, <1>5, <1>6, <1>7, <1>8, <1>9 DEF SaveStep, Save, SaveOpen, SaveRename

(* After a save: the candidate is assigned and goes on to an apply, or is  *)
(* refused; a line goes on in any case.                                    *)
Assigns(t) ==
  /\ Frame(t) /\ up /\ up'
  /\ UNCHANGED <<storeVars, table, allocated, applied>>
  /\ work[t].at = "saved" /\ work[t].request # "line"
  /\ config' = work[t].document
  /\ work'[t].inode = None
  /\ \/ work'[t].at = "load" /\ UNCHANGED legVars
     \/ work'[t].at = "leg" /\ ComesToLeg(t)

(* A thread goes on, or is done, and the streams are as they were.         *)
Passes(t) ==
  /\ Frame(t) /\ up /\ up'
  /\ UNCHANGED <<storeVars, config, table, allocated>>
  /\ \A o \in Threads \ {t} : work'[o] = work[o]
  /\ work[t].inode = None /\ work'[t].inode = None
  /\ \/ /\ work[t].at = "unsaved" /\ work'[t].at = "idle" /\ UNCHANGED <<legVars, applied>>
     \/ /\ work[t].at \in {"saved", "unsaved"} /\ work[t].request = "line"
        /\ work'[t].at = "line" /\ UNCHANGED <<legVars, applied>>
     \/ work[t].at = "line" /\ work'[t].at = "idle" /\ UNCHANGED <<legVars, applied>>
     \/ /\ work[t].at = "apply" /\ work'[t].at = "idle" /\ applied' = None
        /\ settled' = FALSE /\ clashed' = clashed \cup OthersAtLeg(t)
        /\ UNCHANGED <<leg, registered>>

Loads(t) ==
  /\ Frame(t) /\ up /\ up'
  /\ UNCHANGED <<storeVars, table, allocated, legVars, applied>>
  /\ work[t].at = "load" /\ work[t].inode = None
  /\ config' = IF content[path] = Partial THEN config ELSE content[path]
  /\ work'[t].at = "apply" /\ work'[t].inode = None

(* The lines of config_ are gone through, then its endpoints.              *)
GoesThrough(t) ==
  /\ Frame(t) /\ up /\ up'
  /\ UNCHANGED <<storeVars, config, table, allocated, legVars, applied>>
  /\ \A o \in Threads \ {t} : work'[o] = work[o]
  /\ work[t].inode = None /\ work'[t].inode = None /\ work'[t].document = config
  /\ \/ /\ work[t].at = "apply" /\ work'[t].at = "lines"
        /\ work'[t].left = SetToSeq(DOMAIN config.lines)
     \/ /\ work[t].at = "lines" /\ work'[t].at = "endpoints" /\ work[t].left = << >>
        /\ work'[t].left = config.endpoints /\ work'[t].alone = work[t].alone

(* One of them is put, or passed over.                                     *)
Takes(t) ==
  /\ Frame(t) /\ up /\ up'
  /\ UNCHANGED <<storeVars, config, allocated, legVars>>
  /\ work[t].at \in {"lines", "line", "endpoints"}
  /\ work[t].left # << >> /\ work'[t].left = Tail(work[t].left)
  /\ work'[t].at = work[t].at /\ work'[t].document = work[t].document
  /\ work'[t].alone = work[t].alone /\ work[t].inode = None /\ work'[t].inode = None
  /\ LET document == work[t].document
         head == Head(work[t].left)
     IN \/ /\ work[t].at # "endpoints" /\ applied' = None
           /\ Put(head, document.lines[head])
        \/ /\ work[t].at = "endpoints" /\ applied' = None
           /\ head \notin document.wired
           /\ Put(head, [way \in Directions |-> Allocated(document)[head]])
        \/ /\ work[t].at = "endpoints" /\ head \in document.wired
           /\ UNCHANGED <<table, applied>>

(* All are put, and those that have gone are taken away.                   *)
Finishes(t) ==
  /\ Frame(t) /\ up /\ up'
  /\ UNCHANGED <<storeVars, config>>
  /\ work[t].at = "endpoints" /\ work[t].left = << >> /\ work[t].inode = None
  /\ work'[t].at = "leg" /\ work'[t].inode = None /\ ComesToLeg(t)
  /\ allocated' = Allocated(work[t].document)
  /\ table' \in [Directions -> [Ids -> Lines \cup Endpoints \cup {None}]]
  /\ Gone(t) = {} => UNCHANGED table
  /\ applied' = IF work[t].alone
                THEN [document |-> work[t].document, removed |-> Gone(t) # {}]
                ELSE None

(* The leg is applied.                                                     *)
LegStays == leg' <=> leg
EngineStays == registered' <=> registered
Goes == (settled' <=> settled) /\ clashed' = clashed

LegSteps(t) ==
  \/ /\ At(t, "leg") /\ LegStays /\ EngineStays /\ Goes
     /\ \/ leg /\ work'[t].at = "found"
        \/ ~leg /\ work'[t].at = "missing"
  \/ /\ At(t, "found") /\ LegStays /\ EngineStays /\ Goes
     /\ \/ Enabled /\ work'[t].at = "register"
        \/ ~Enabled /\ work'[t].at = "drop"
  \/ /\ At(t, "missing") /\ LegStays /\ EngineStays /\ Goes
     /\ Enabled /\ work'[t].at = "raise"
  \/ /\ At(t, "missing") /\ LegStays /\ EngineStays
     /\ ~Enabled /\ LegDone(t, FALSE) /\ work'[t].at = "idle"
  \/ /\ At(t, "drop") /\ LegStays /\ ~registered' /\ Goes
     /\ work'[t].at = "erase"
  \/ /\ At(t, "erase") /\ ~leg' /\ EngineStays
     /\ LegDone(t, TRUE) /\ work'[t].at = "idle"
  \/ /\ At(t, "raise") /\ leg' /\ EngineStays /\ Goes
     /\ work'[t].at = "register"
  \/ /\ At(t, "register") /\ LegStays
     /\ LegDone(t, TRUE) /\ work'[t].at = "idle"

Confers(t) ==
  /\ Frame(t) /\ up /\ up'
  /\ UNCHANGED <<storeVars, config, table, allocated, applied>>
  /\ \A o \in Threads \ {t} : work'[o] = work[o]
  /\ work[t].inode = None /\ work'[t].inode = None
  /\ work[t].at \in LegPlaces /\ work'[t].at \in LegPlaces \cup {"idle"}
  /\ leg' \in BOOLEAN /\ registered' \in BOOLEAN
  /\ settled' \in BOOLEAN /\ clashed' \subseteq Threads
  /\ LegSteps(t)

LEMMA AssignFacts ==
  ASSUME Placed, NEW t \in Threads, Assign(t)
  PROVE  Assigns(t)
<1> DEFINE place == AfterSave(t)
           w == Done(t, place)
<1>1. work \in Works /\ up /\ up'
  BY WorksTyped, Runs DEF Assign, At
<1>2. /\ w \in Works /\ \A o \in Threads \ {t} : w[o] = work[o]
      /\ w[t] = [Resting EXCEPT !.at = place]
  <2>1. place \in Places
    BY DEF Places, LegPlaces, AfterSave
  <2> HIDE DEF place
  <2> QED
    BY <1>1, <2>1, DoneWith
<1>3. w[t].at = place /\ place \in {"load", "leg"} /\ w[t].inode = None
  BY <1>2 DEF Resting, AfterSave
<1>4. /\ work' = Disturbing(t, w) /\ config' = work[t].document
      /\ UNCHANGED <<storeVars, up, table, allocated, applied>>
      /\ work[t].at = "saved" /\ work[t].request # "line"
      /\ IF place = "leg" THEN ComesToLeg(t) ELSE UNCHANGED legVars
  BY DEF Assign, At
<1> HIDE DEF w, place
<1>5. Frame(t) /\ work'[t] = w[t]
  BY <1>1, <1>2, <1>4, LoudFrame
<1> QED
  BY <1>1, <1>3, <1>4, <1>5 DEF Assigns

LEMMA Ending ==
  ASSUME Placed, NEW t \in Threads, UNCHANGED <<table, config>>, work' = Went(t, "idle")
  PROVE  /\ Frame(t) /\ \A o \in Threads \ {t} : work'[o] = work[o]
         /\ work'[t].at = "idle" /\ work'[t].inode = None
<1>1. work \in Works /\ Went(t, "idle") \in Works
  BY WorksTyped, WentTypes DEF Places, LegPlaces
<1>2. \A o \in Threads \ {t} : Went(t, "idle")[o] = work[o]
  BY <1>1, WentOn DEF Places, LegPlaces
<1>3. work'[t] = Resting
  BY <1>1, WentOn DEF Places, LegPlaces
<1> QED
  BY <1>1, <1>2, <1>3, QuietFrame DEF Resting

LEMMA PassFacts ==
  ASSUME Placed, NEW t \in Threads,
         Refuse(t) \/ ToTheLine(t) \/ ApplyFails(t) \/ LineDone(t)
  PROVE  Passes(t)
<1> USE DEF At
<1>1. up /\ (work[t].at \notin Holding => work[t].inode = None)
  BY Runs DEF Placed, PlacedIn, Refuse, ToTheLine, ApplyFails, LineDone
<1>2. CASE Refuse(t)
  BY <1>1, <1>2, Ending DEF Refuse, Passes, Holding
<1>3. CASE ToTheLine(t)
  BY <1>1, <1>3, Going DEF ToTheLine, Passes, Holding, Places, LegPlaces
<1>4. CASE ApplyFails(t)
  BY <1>1, <1>4, Ending DEF ApplyFails, Passes, Holding
<1>5. CASE LineDone(t)
  BY <1>1, <1>5, Ending DEF LineDone, Passes, Holding
<1> QED
  BY <1>2, <1>3, <1>4, <1>5

LEMMA ConferenceFacts ==
  ASSUME Placed, NEW t \in Threads, ApplyConference(t)
  PROVE  Confers(t)
<1>1. /\ work[t].at \in LegPlaces /\ UNCHANGED rest
  BY DEF ApplyConference, LookUpLeg, ReadConference, DropLeg, EraseLeg, RaiseLeg, RegisterLeg,
     At, LegPlaces
<1>2. /\ up /\ up' /\ work[t].inode = None
      /\ UNCHANGED <<storeVars, config, table, allocated, applied>>
  BY <1>1, Runs DEF Placed, PlacedIn, Holding, LegPlaces, At, rest
<1>3. ASSUME NEW place \in LegPlaces, LegGoesOn(t, place)
      PROVE  /\ Frame(t) /\ \A o \in Threads \ {t} : work'[o] = work[o]
             /\ work'[t].at = place /\ work'[t].inode = None
             /\ UNCHANGED <<settled, clashed>>
  BY <1>2, <1>3, Going DEF LegGoesOn, LegPlaces, Places
<1>4. ASSUME NEW renewed \in BOOLEAN, LegDone(t, renewed)
      PROVE  /\ Frame(t) /\ \A o \in Threads \ {t} : work'[o] = work[o]
             /\ work'[t].at = "idle" /\ work'[t].inode = None
             /\ settled' \in BOOLEAN /\ clashed' \subseteq Threads
  BY <1>2, <1>4, Ending DEF LegDone, Placed, TypeOK
<1>5. /\ leg \in BOOLEAN /\ registered \in BOOLEAN
      /\ settled \in BOOLEAN /\ clashed \subseteq Threads
  BY DEF Placed, TypeOK
<1>6. CASE LookUpLeg(t)
  BY <1>1, <1>2, <1>3, <1>5, <1>6 DEF LookUpLeg, Confers, LegSteps, LegStays, EngineStays, Goes, LegPlaces
<1>7. CASE ReadConference(t)
  <2>1. UNCHANGED <<leg, registered>>
    BY <1>7 DEF ReadConference
  <2>2. CASE At(t, "found") /\ Enabled /\ LegGoesOn(t, "register")
    BY <1>1, <1>2, <1>3, <1>5, <2>1, <2>2 DEF Confers, LegSteps, LegStays, EngineStays, Goes, LegPlaces
  <2>3. CASE At(t, "found") /\ ~Enabled /\ LegGoesOn(t, "drop")
    BY <1>1, <1>2, <1>3, <1>5, <2>1, <2>3 DEF Confers, LegSteps, LegStays, EngineStays, Goes, LegPlaces
  <2>4. CASE At(t, "missing") /\ Enabled /\ LegGoesOn(t, "raise")
    BY <1>1, <1>2, <1>3, <1>5, <2>1, <2>4 DEF Confers, LegSteps, LegStays, EngineStays, Goes, LegPlaces
  <2>5. CASE At(t, "missing") /\ ~Enabled /\ LegDone(t, FALSE)
    BY <1>1, <1>2, <1>4, <1>5, <2>1, <2>5 DEF Confers, LegSteps, LegStays, EngineStays, Goes, LegPlaces
  <2> QED
    BY <1>7, <2>2, <2>3, <2>4, <2>5 DEF ReadConference
<1>8. CASE DropLeg(t)
  BY <1>1, <1>2, <1>3, <1>5, <1>8 DEF DropLeg, Confers, LegSteps, LegStays, EngineStays, Goes, LegPlaces
<1>9. CASE EraseLeg(t)
  BY <1>1, <1>2, <1>4, <1>5, <1>9 DEF EraseLeg, Confers, LegSteps, LegStays, EngineStays, Goes, LegPlaces
<1>10. CASE RaiseLeg(t)
  BY <1>1, <1>2, <1>3, <1>5, <1>10 DEF RaiseLeg, Confers, LegSteps, LegStays, EngineStays, Goes, LegPlaces
<1>11. CASE RegisterLeg(t)
  BY <1>1, <1>2, <1>4, <1>5, <1>11 DEF RegisterLeg, Confers, LegSteps, LegStays, EngineStays, Goes, LegPlaces
<1> QED
  BY <1>6, <1>7, <1>8, <1>9, <1>10, <1>11 DEF ApplyConference

LEMMA LoadFacts ==
  ASSUME Placed, NEW t \in Threads, Load(t)
  PROVE  Loads(t)
<1> DEFINE w == Went(t, "apply")
<1>0. "apply" \in Places
  BY DEF Places
<1>1. /\ work \in Works /\ up /\ work[t].inode = None
  BY WorksTyped, Runs DEF Load, At, Placed, PlacedIn, Holding
<1>2. /\ w \in Works /\ \A o \in Threads \ {t} : w[o] = work[o]
      /\ w[t] = [work[t] EXCEPT !.at = "apply"]
  BY <1>0, <1>1, WentOn
<1>3. w[t].at = "apply" /\ w[t].inode = None
  BY <1>1, <1>2 DEF Works, Records
<1>4. /\ work' = Disturbing(t, w)
      /\ config' = IF content[path] = Partial THEN config ELSE content[path]
      /\ UNCHANGED <<storeVars, up, table, allocated, legVars, applied>>
      /\ work[t].at = "load"
  BY DEF Load, At
<1> HIDE DEF w
<1>5. Frame(t) /\ work'[t] = w[t]
  BY <1>1, <1>2, <1>4, LoudFrame
<1> QED
  BY <1>1, <1>3, <1>4, <1>5 DEF Loads

Listing(w, t, document, list) == [w EXCEPT ![t].document = document, ![t].left = list]

LEMMA SetList ==
  ASSUME NEW w \in Works, NEW t \in Threads,
         NEW document \in Documents, NEW list \in Seq(Lines \cup Endpoints)
  PROVE  LET r == Listing(w, t, document, list)
         IN /\ r \in Works /\ \A o \in Threads \ {t} : r[o] = w[o]
            /\ r[t].at = w[t].at /\ r[t].inode = w[t].inode /\ r[t].alone = w[t].alone
            /\ r[t].document = document /\ r[t].left = list
<1> DEFINE w1 == [w EXCEPT ![t].document = document]
           w2 == [w1 EXCEPT ![t].left = list]
<1>1. w1 \in Works
  BY SetDocument
<1>2. w2 \in Works
  <2> HIDE DEF w1
  <2> QED
    BY <1>1, SetLeft
<1>3. /\ \A o \in Threads \ {t} : w2[o] = w[o]
      /\ w2[t].at = w[t].at /\ w2[t].inode = w[t].inode /\ w2[t].alone = w[t].alone
      /\ w2[t].document = document /\ w2[t].left = list
  BY DEF Works, Records
<1> QED
  BY <1>2, <1>3 DEF Listing

LEMMA ListTypes ==
  ASSUME NEW document \in Documents
  PROVE  /\ SetToSeq(DOMAIN document.lines) \in Seq(Lines \cup Endpoints)
         /\ SetToSeq(DOMAIN document.lines) \in Seq(DOMAIN document.lines)
         /\ Range(SetToSeq(DOMAIN document.lines)) = DOMAIN document.lines
         /\ document.endpoints \in Seq(Lines \cup Endpoints)
         /\ document.endpoints \in Seq(Range(document.endpoints))
<1>1. /\ DOMAIN document.lines \subseteq Lines /\ IsFiniteSet(Lines)
      /\ document.endpoints \in Seq(Endpoints)
  BY StreamAssumption
<1>2. /\ SetToSeq(DOMAIN document.lines) \in Seq(DOMAIN document.lines)
      /\ Range(SetToSeq(DOMAIN document.lines)) = DOMAIN document.lines
  BY <1>1, Listed, FS_Subset
<1>3. \A S \in SUBSET Lines : \A s \in Seq(S) : s \in Seq(Lines \cup Endpoints)
  OBVIOUS
<1>4. \A s \in Seq(Endpoints) : s \in Seq(Lines \cup Endpoints) /\ s \in Seq(Range(s))
  <2>1. \A s \in Seq(Endpoints) : s \in Seq(Lines \cup Endpoints)
    OBVIOUS
  <2>2. ASSUME NEW s \in Seq(Endpoints) PROVE s \in Seq(Range(s))
    <3>1. Len(s) \in Nat /\ s \in [1 .. Len(s) -> Endpoints]
      BY LenProperties
    <3>2. s \in [1 .. Len(s) -> Range(s)]
      BY <3>1 DEF Range
    <3> QED
      BY <3>1, <3>2
  <2> QED
    BY <2>1, <2>2
<1>5. SetToSeq(DOMAIN document.lines) \in Seq(Lines \cup Endpoints)
  BY <1>1, <1>2, <1>3, Zenon
<1>6. document.endpoints \in Seq(Lines \cup Endpoints) /\ document.endpoints \in Seq(Range(document.endpoints))
  BY <1>1, <1>4, Zenon
<1> QED
  BY <1>2, <1>5, <1>6

LEMMA ApplyFacts ==
  ASSUME Placed, NEW t \in Threads, Apply(t)
  PROVE  GoesThrough(t)
<1> DEFINE list == SetToSeq(DOMAIN config.lines)
           w == Went(t, "lines")
           w1 == [w EXCEPT ![t].alone = TRUE]
           r == Listing(w1, t, config, list)
<1>1. /\ work \in Works /\ up /\ config \in Documents
      /\ work[t].at = "apply" /\ work[t].inode = None
      /\ UNCHANGED <<storeVars, up, config, table, allocated, legVars, applied>>
  BY WorksTyped, Runs DEF Apply, At, Placed, PlacedIn, Holding
<1>2. list \in Seq(Lines \cup Endpoints) /\ "lines" \in Places
  BY <1>1, ListTypes DEF Places
<1>3. /\ w \in Works /\ \A o \in Threads \ {t} : w[o] = work[o]
      /\ w[t] = [work[t] EXCEPT !.at = "lines"]
  BY <1>1, <1>2, WentOn
<1>4. w[t].at = "lines" /\ w[t].inode = None
  BY <1>1, <1>3 DEF Works, Records
<1>5. work' = [w EXCEPT ![t].document = config, ![t].alone = TRUE, ![t].left = list]
  BY DEF Apply
<1> HIDE DEF w, list
<1>6. work' = r
  BY <1>3, <1>5 DEF Works, Records, Listing
<1>7. /\ w1 \in Works /\ \A o \in Threads \ {t} : w1[o] = work[o]
      /\ w1[t].at = "lines" /\ w1[t].inode = None
  <2>1. w1 \in Works
    BY <1>3, SetAlone
  <2> QED
    BY <1>3, <1>4, <2>1 DEF Works, Records
<1> HIDE DEF w1
<1>8. /\ work' \in Works /\ \A o \in Threads \ {t} : work'[o] = work[o]
      /\ work'[t].at = "lines" /\ work'[t].inode = None
      /\ work'[t].document = config /\ work'[t].left = list
  <2>1. /\ r \in Works /\ \A o \in Threads \ {t} : r[o] = w1[o]
        /\ r[t].at = w1[t].at /\ r[t].inode = w1[t].inode
        /\ r[t].document = config /\ r[t].left = list
    BY <1>1, <1>2, <1>7, SetList
  <2> QED
    BY <1>6, <1>7, <2>1, Zenon
<1>9. Frame(t)
  BY <1>1, <1>8, QuietFrame
<1> QED
  BY <1>1, <1>8, <1>9 DEF GoesThrough, list

LEMMA LinesDoneFacts ==
  ASSUME Placed, NEW t \in Threads, LinesDone(t)
  PROVE  GoesThrough(t)
<1> DEFINE w == Went(t, "endpoints")
           list == config.endpoints
<1>1. /\ work \in Works /\ up /\ config \in Documents
      /\ work[t].at = "lines" /\ work[t].left = << >> /\ work[t].inode = None
      /\ UNCHANGED <<storeVars, up, config, table, allocated, legVars, applied>>
  <2>1. work[t].at = "lines" /\ work[t].left = << >>
        /\ UNCHANGED <<storeVars, up, config, table, allocated, legVars, applied>>
    BY DEF LinesDone, At
  <2>2. up /\ config \in Documents
    BY <2>1, Runs DEF At
  <2>3. work[t].inode = None
    BY <2>1 DEF Placed, PlacedIn, Holding
  <2> QED
    BY <2>1, <2>2, <2>3, WorksTyped
<1>2. list \in Seq(Lines \cup Endpoints)
  BY <1>1, ListTypes
<1>3. /\ w \in Works /\ \A o \in Threads \ {t} : w[o] = work[o]
      /\ w[t] = [work[t] EXCEPT !.at = "endpoints"]
  BY <1>1, WentOn DEF Places, LegPlaces
<1>4. w[t].at = "endpoints" /\ w[t].inode = None /\ w[t].alone = work[t].alone
  BY <1>1, <1>3 DEF Works, Records
<1>5. work' = [w EXCEPT ![t].document = config, ![t].left = list]
  BY DEF LinesDone
<1> HIDE DEF w, list
<1>6. /\ work' \in Works /\ \A o \in Threads \ {t} : work'[o] = work[o]
      /\ work'[t].at = "endpoints" /\ work'[t].inode = None
      /\ work'[t].document = config /\ work'[t].left = list
      /\ work'[t].alone = work[t].alone
  <2> DEFINE r == Listing(w, t, config, list)
  <2>0. w \in Works /\ config \in Documents /\ list \in Seq(Lines \cup Endpoints)
    BY <1>1, <1>2, <1>3
  <2>1. /\ r \in Works /\ \A o \in Threads \ {t} : r[o] = w[o]
        /\ r[t].at = w[t].at /\ r[t].inode = w[t].inode /\ r[t].alone = w[t].alone
        /\ r[t].document = config /\ r[t].left = list
    BY <2>0, SetList
  <2>2. work' = r
    BY <1>5 DEF Listing
  <2> HIDE DEF r
  <2> QED
    BY <1>3, <1>4, <2>1, <2>2
<1>7. Frame(t)
  BY <1>1, <1>6, QuietFrame
<1> QED
  BY <1>1, <1>6, <1>7 DEF GoesThrough, list

LEMMA Shorter ==
  ASSUME work \in Works, NEW t \in Threads, work[t].left # << >>
  PROVE  LET w == [work EXCEPT ![t].left = Tail(@)]
         IN /\ w \in Works /\ \A o \in Threads \ {t} : w[o] = work[o]
            /\ w[t].left = Tail(work[t].left)
            /\ w[t].at = work[t].at /\ w[t].document = work[t].document
            /\ w[t].alone = work[t].alone /\ w[t].inode = work[t].inode
<1> DEFINE tail == Tail(work[t].left)
           w == [work EXCEPT ![t].left = tail]
<1>1. tail \in Seq(Lines \cup Endpoints)
  BY Remaining DEF Works, Records
<1> HIDE DEF tail
<1>2. w \in Works
  BY <1>1, SetLeft
<1>3. /\ \A o \in Threads \ {t} : w[o] = work[o]
      /\ w[t].left = tail
      /\ w[t].at = work[t].at /\ w[t].document = work[t].document
      /\ w[t].alone = work[t].alone /\ w[t].inode = work[t].inode
  BY DEF Works, Records
<1> QED
  BY <1>2, <1>3 DEF tail

LEMMA TakeFacts ==
  ASSUME Placed, NEW t \in Threads, PutLine(t) \/ PassOver(t) \/ PutEndpoint(t)
  PROVE  Takes(t)
<1> DEFINE w == [work EXCEPT ![t].left = Tail(@)]
<1>1. /\ work \in Works /\ up /\ work[t].left # << >>
      /\ work[t].at \in {"lines", "line", "endpoints"} /\ work[t].inode = None
      /\ UNCHANGED <<storeVars, up, config, allocated, legVars>>
  BY WorksTyped, Runs DEF PutLine, PassOver, PutEndpoint, At, Placed, PlacedIn, Holding
<1>2. /\ w \in Works /\ \A o \in Threads \ {t} : w[o] = work[o]
      /\ w[t].left = Tail(work[t].left)
      /\ w[t].at = work[t].at /\ w[t].document = work[t].document
      /\ w[t].alone = work[t].alone /\ w[t].inode = None
  BY <1>1, Shorter
<1>3. \/ work' = Disturbing(t, w)
      \/ work' = w /\ UNCHANGED <<table, config>>
  BY DEF PutLine, PassOver, PutEndpoint
<1>4. LET document == work[t].document
          head == Head(work[t].left)
      IN \/ /\ work[t].at # "endpoints" /\ applied' = None
            /\ Put(head, document.lines[head])
         \/ /\ work[t].at = "endpoints" /\ applied' = None
            /\ head \notin document.wired
            /\ Put(head, [way \in Directions |-> Allocated(document)[head]])
         \/ /\ work[t].at = "endpoints" /\ head \in document.wired
            /\ UNCHANGED <<table, applied>>
  BY DEF PutLine, PassOver, PutEndpoint, At
<1> HIDE DEF w
<1>5. Frame(t) /\ work'[t] = w[t]
  <2>1. CASE work' = Disturbing(t, w)
    BY <1>1, <1>2, <2>1, LoudFrame
  <2>2. CASE work' = w /\ UNCHANGED <<table, config>>
    BY <1>1, <1>2, <2>2, QuietFrame
  <2> QED
    BY <1>3, <2>1, <2>2
<1> QED
  BY <1>1, <1>2, <1>4, <1>5 DEF Takes

LEMMA FinishFacts ==
  ASSUME Placed, NEW t \in Threads, RemoveStreams(t)
  PROVE  Finishes(t)
<1> DEFINE w == Done(t, "leg")
<1>1. /\ work \in Works /\ up /\ work[t].left = << >>
      /\ work[t].at = "endpoints" /\ work[t].inode = None
      /\ UNCHANGED <<storeVars, up, config>> /\ ComesToLeg(t)
      /\ table \in [Directions -> [Ids -> Lines \cup Endpoints \cup {None}]]
  BY WorksTyped, Runs DEF RemoveStreams, At, Placed, PlacedIn, Holding, TypeOK
<1>2. /\ w \in Works /\ \A o \in Threads \ {t} : w[o] = work[o]
      /\ w[t] = [Resting EXCEPT !.at = "leg"]
  BY <1>1, DoneWith DEF Places, LegPlaces
<1>3. w[t].at = "leg" /\ w[t].inode = None
  BY <1>2 DEF Resting
<1>4. work' = Disturbing(t, w)
  BY DEF RemoveStreams
<1> HIDE DEF w
<1>5. Frame(t) /\ work'[t] = w[t]
  BY <1>1, <1>2, <1>4, LoudFrame
<1>6. PICK deleted \in SUBSET (Directions \X {allocated[e] : e \in Gone(t)}) :
        table' = [way \in Directions |-> [i \in Ids |->
                    IF <<way, i>> \in deleted THEN None ELSE table[way][i]]]
  BY DEF RemoveStreams
<1>7. table' \in [Directions -> [Ids -> Lines \cup Endpoints \cup {None}]]
  BY <1>1, <1>6
<1>8. ASSUME Gone(t) = {} PROVE table' = table
  <2>1. deleted = {}
    BY <1>8
  <2> QED
    BY <1>1, <1>6, <2>1
<1>9. /\ allocated' = Allocated(work[t].document)
      /\ applied' = IF work[t].alone
                    THEN [document |-> work[t].document, removed |-> Gone(t) # {}]
                    ELSE None
  BY DEF RemoveStreams
<1> QED
  BY <1>1, <1>3, <1>5, <1>7, <1>8, <1>9 DEF Finishes

ThreadStep(t) ==
  \/ Opens(t) \/ Reloads(t) \/ Saves(t) \/ Assigns(t) \/ Passes(t)
  \/ Loads(t) \/ GoesThrough(t) \/ Takes(t) \/ Finishes(t) \/ Confers(t)

LEMMA Steps ==
  ASSUME Placed, [Next]_vars
  PROVE  \/ \E t \in Threads : ThreadStep(t)
         \/ Crash \/ Boot \/ (\E document \in Documents : EditByHand(document))
         \/ UNCHANGED vars
<1>1. ASSUME NEW t \in Threads,
             \/ RequestStep(t)
             \/ SaveStep(t) \/ Assign(t) \/ Refuse(t) \/ ToTheLine(t)
             \/ Load(t) \/ Apply(t) \/ ApplyFails(t)
             \/ PutLine(t) \/ LineDone(t) \/ LinesDone(t)
             \/ PassOver(t) \/ PutEndpoint(t)
             \/ RemoveStreams(t) \/ ApplyConference(t)
      PROVE  ThreadStep(t)
  <2>1. CASE RequestStep(t)
    BY <2>1, RequestFacts DEF ThreadStep
  <2>2. CASE SaveStep(t)
    BY <2>2, SaveFacts DEF ThreadStep
  <2>3. CASE Assign(t)
    BY <2>3, AssignFacts DEF ThreadStep
  <2>4. CASE Refuse(t) \/ ToTheLine(t) \/ ApplyFails(t) \/ LineDone(t)
    BY <2>4, PassFacts DEF ThreadStep
  <2>5. CASE Load(t)
    BY <2>5, LoadFacts DEF ThreadStep
  <2>6. CASE Apply(t)
    BY <2>6, ApplyFacts DEF ThreadStep
  <2>7. CASE LinesDone(t)
    BY <2>7, LinesDoneFacts DEF ThreadStep
  <2>8. CASE PutLine(t) \/ PassOver(t) \/ PutEndpoint(t)
    BY <2>8, TakeFacts DEF ThreadStep
  <2>9. CASE RemoveStreams(t)
    BY <2>9, FinishFacts DEF ThreadStep
  <2>10. CASE ApplyConference(t)
    BY <2>10, ConferenceFacts DEF ThreadStep
  <2> QED
    BY <1>1, <2>1, <2>2, <2>3, <2>4, <2>5, <2>6, <2>7, <2>8, <2>9, <2>10
<1>2. ASSUME Next
      PROVE  \/ \E t \in Threads : ThreadStep(t)
             \/ Crash \/ Boot \/ (\E document \in Documents : EditByHand(document))
  BY <1>1, <1>2, Zenon DEF Next, RequestStep
<1> QED
  BY <1>2

LEMMA FrameTypes ==
  ASSUME Placed, NEW t \in Threads, Frame(t), PlacedIn(t, work')
  PROVE  WorkTypeOK' /\ \A o \in Threads : PlacedIn(o, work')
<1>1. WorkTypeOK'
  BY DEF Frame, Works, Records, WorkTypeOK
<1>2. ASSUME NEW o \in Threads \ {t} PROVE PlacedIn(o, work')
  <2>1. Same(work'[o], work[o])
    BY DEF Frame, Same
  <2> QED
    BY <2>1 DEF Placed, PlacedIn, Same
<1> QED
  BY <1>1, <1>2

LEMMA PlacedInit ==
  ASSUME Init PROVE Placed
<1> USE StoreAssumption
<1>1. StoreTypeOK
  BY DEF Init, StoreInit, StoreTypeOK
<1>2. work \in Works
  BY RestingTypes DEF Init, Works
<1>3. Nothing = [e \in {} |-> 0] /\ DOMAIN Nothing = {}
  BY DEF Nothing
<1>4. TypeOK
  BY <1>1, <1>2, <1>3 DEF Init, TypeOK, WorkTypeOK, Works, Records
<1>5. \A t \in Threads : PlacedIn(t, work) /\ work[t] = Resting
  BY DEF Init, PlacedIn, Resting, SavePlaces, ApplyPlaces, Holding, MainPlaces, LegPlaces
<1> QED
  BY <1>4, <1>5 DEF Placed

(* Where a step leaves files, streams and documents of their types.        *)
RestTypes ==
  /\ StoreTypeOK
  /\ up \in BOOLEAN
  /\ config \in Documents \cup {None}
  /\ up => config # None
  /\ table \in [Directions -> [Ids -> Lines \cup Endpoints \cup {None}]]
  /\ DOMAIN allocated \subseteq Endpoints /\ \A e \in DOMAIN allocated : allocated[e] \in Ids
  /\ leg \in BOOLEAN /\ registered \in BOOLEAN
  /\ settled \in BOOLEAN /\ clashed \subseteq Threads
  /\ applied \in [document : Documents, removed : BOOLEAN] \cup {None}

LEMMA PlacedByThread ==
  ASSUME Placed, NEW t \in Threads, Frame(t), up', PlacedIn(t, work'), RestTypes'
  PROVE  Placed'
BY FrameTypes DEF Placed, TypeOK, RestTypes

LEMMA SavesPlaced ==
  ASSUME Placed, NEW t \in Threads, Saves(t)
  PROVE  Placed'
<1>1. /\ Frame(t) /\ up /\ up'
      /\ UNCHANGED <<up, config, table, allocated, legVars, applied, around>>
  BY DEF Saves
<1>2. StoreTypeOK
  BY DEF Placed, TypeOK
<1>3. work[t].at \in SavePlaces \ {"saved"} /\ work'[t].at \in SavePlaces \cup {"unsaved"}
      /\ work'[t].document = work[t].document
  BY DEF Saves, SavePlaces
<1>4. work[t].document \in Documents /\ t \in Workers
  BY <1>3 DEF Placed, PlacedIn, SavePlaces, MainPlaces, LegPlaces, Threads
<1>5. PlacedIn(t, work')
  <2>1. work'[t].at \notin Holding => work'[t].inode = None
    BY DEF Saves, Holding
  <2>2. t # Main
    BY <1>4, StoreAssumption
  <2>3. work'[t].at \in SavePlaces => work'[t].document \in Documents
    BY <1>3, <1>4
  <2> QED
    BY <1>3, <1>4, <2>1, <2>2 DEF PlacedIn
<1>6. content' \in [Inodes -> Documents \cup {Partial}] /\ path' \in Inodes /\ temp' \in Inodes \cup {None}
  <2>1. \A c \in Written(t) : c \in Documents \cup {Partial}
    BY <1>4 DEF Written
  <2>2. \A i, c : c \in Documents \cup {Partial} =>
          [content EXCEPT ![i] = c] \in [Inodes -> Documents \cup {Partial}]
    BY <1>2 DEF StoreTypeOK
  <2>3. content' \in [Inodes -> Documents \cup {Partial}]
    <3>1. content \in [Inodes -> Documents \cup {Partial}]
      BY <1>2 DEF StoreTypeOK
    <3>2. CASE \E i : content' = [content EXCEPT ![i] = Partial]
      BY <2>2, <3>2
    <3>3. CASE \E c \in Written(t) \cup {Partial} : content' = [content EXCEPT ![work[t].inode] = c]
      BY <2>1, <2>2, <3>3
    <3> QED
      BY <3>1, <3>2, <3>3 DEF Saves
  <2>4. path' \in Inodes /\ temp' \in Inodes \cup {None}
    BY <1>2 DEF Saves, StoreTypeOK
  <2> QED
    BY <2>3, <2>4
<1>7. RestTypes'
  BY <1>1, <1>2, <1>6 DEF RestTypes, legVars, StoreTypeOK, Placed, TypeOK
<1> QED
  BY <1>1, <1>5, <1>7, PlacedByThread

LEMMA PutTypes ==
  ASSUME table \in [Directions -> [Ids -> Lines \cup Endpoints \cup {None}]],
         NEW owner \in Lines \cup Endpoints, NEW id, Put(owner, id)
  PROVE  table' \in [Directions -> [Ids -> Lines \cup Endpoints \cup {None}]]
BY DEF Put

LEMMA TakesPlaced ==
  ASSUME Placed, NEW t \in Threads, Takes(t)
  PROVE  Placed'
<1>1. /\ Frame(t) /\ up /\ up'
      /\ UNCHANGED <<storeVars, config, allocated, legVars>>
      /\ applied' = applied \/ applied' = None
  BY DEF Takes
<1>2. PlacedIn(t, work')
  BY DEF Takes, Placed, PlacedIn
<1>3. table' \in [Directions -> [Ids -> Lines \cup Endpoints \cup {None}]]
  <2>1. Head(work[t].left) \in Lines \cup Endpoints
    BY WorksTyped, Remaining DEF Takes, Works, Records
  <2>2. table \in [Directions -> [Ids -> Lines \cup Endpoints \cup {None}]]
    BY DEF Placed, TypeOK
  <2>3. table' = table \/ \E id : Put(Head(work[t].left), id)
    BY DEF Takes
  <2> QED
    BY <2>1, <2>2, <2>3, PutTypes
<1>4. RestTypes'
  BY <1>1, <1>3 DEF RestTypes, legVars, StoreTypeOK, Placed, TypeOK, storeVars
<1> QED
  BY <1>1, <1>2, <1>4, PlacedByThread

LEMMA AllocatedTypes ==
  ASSUME NEW document \in Documents
  PROVE  /\ DOMAIN Allocated(document) \subseteq Endpoints
         /\ \A e \in DOMAIN Allocated(document) : Allocated(document)[e] \in Ids
<1>1. DOMAIN Allocated(document) = Provisioned(document)
  BY DEF Allocated
<1>2. Provisioned(document) \subseteq Endpoints
  <2>1. document.endpoints \in Seq(Endpoints)
    BY StreamAssumption
  <2>2. \A n \in DOMAIN document.endpoints : document.endpoints[n] \in Endpoints
    BY <2>1, LenProperties
  <2> QED
    BY <2>2 DEF Provisioned, Range
<1>3. ASSUME NEW e \in Provisioned(document) PROVE Allocated(document)[e] \in Ids
  <2>1. Allocated(document)[e] \in Ids \ Taken(document)
    BY IdsApart, Zenon
  <2> QED
    BY <2>1
<1>4. \A e \in DOMAIN Allocated(document) : Allocated(document)[e] \in Ids
  BY <1>1, <1>3, Zenon
<1> QED
  BY <1>1, <1>2, <1>4

LEMMA LegTypes ==
  ASSUME Placed, NEW t \in Threads,
         \/ UNCHANGED legVars
         \/ ComesToLeg(t)
         \/ /\ settled' = FALSE /\ clashed' = clashed \cup OthersAtLeg(t)
            /\ UNCHANGED <<leg, registered>>
  PROVE  /\ leg' \in BOOLEAN /\ registered' \in BOOLEAN
         /\ settled' \in BOOLEAN /\ clashed' \subseteq Threads
BY DEF Placed, TypeOK, legVars, ComesToLeg, OthersAtLeg

LEMMA FinishesPlaced ==
  ASSUME Placed, NEW t \in Threads, Finishes(t)
  PROVE  Placed'
<1>1. /\ Frame(t) /\ up /\ up'
      /\ UNCHANGED <<storeVars, config>>
      /\ table' \in [Directions -> [Ids -> Lines \cup Endpoints \cup {None}]]
  BY DEF Finishes
<1>2. PlacedIn(t, work')
  BY DEF Finishes, PlacedIn, SavePlaces, ApplyPlaces, MainPlaces, LegPlaces
<1>3. work[t].document \in Documents /\ work[t].alone \in BOOLEAN
  BY WorksTyped DEF Finishes, Placed, PlacedIn, ApplyPlaces, Works, Records
<1>4. DOMAIN allocated' \subseteq Endpoints /\ \A e \in DOMAIN allocated' : allocated'[e] \in Ids
  <2>1. allocated' = Allocated(work[t].document)
    BY DEF Finishes
  <2> QED
    BY <1>3, <2>1, AllocatedTypes
<1>5. applied' \in [document : Documents, removed : BOOLEAN] \cup {None}
  BY <1>3 DEF Finishes
<1>6. /\ leg' \in BOOLEAN /\ registered' \in BOOLEAN
      /\ settled' \in BOOLEAN /\ clashed' \subseteq Threads
  BY LegTypes DEF Finishes
<1>7. RestTypes'
  BY <1>1, <1>4, <1>5, <1>6 DEF RestTypes, legVars, StoreTypeOK, Placed, TypeOK, storeVars
<1> QED
  BY <1>1, <1>2, <1>7, PlacedByThread

LEMMA OthersPlaced ==
  ASSUME Placed, NEW t \in Threads,
         \/ Opens(t) \/ Reloads(t) \/ Assigns(t) \/ Passes(t) \/ Loads(t) \/ GoesThrough(t)
         \/ Confers(t)
  PROVE  Placed'
<1> USE DEF SavePlaces, ApplyPlaces, MainPlaces, LegPlaces, Holding
<1>1. Frame(t) /\ up /\ up'
  BY DEF Opens, Reloads, Assigns, Passes, Loads, GoesThrough, Confers, LegPlaces
<1>2. /\ UNCHANGED <<storeVars, table, allocated>>
      /\ applied' = applied \/ applied' = None
  BY DEF Opens, Reloads, Assigns, Passes, Loads, GoesThrough, Confers, LegPlaces
<1>6. /\ leg' \in BOOLEAN /\ registered' \in BOOLEAN
      /\ settled' \in BOOLEAN /\ clashed' \subseteq Threads
  BY LegTypes DEF Opens, Reloads, Assigns, Passes, Loads, GoesThrough, Confers, LegPlaces
<1>3. config' \in Documents
  <2>1. config \in Documents
    BY <1>1 DEF Placed, TypeOK
  <2>2. content[path] \in Documents \cup {Partial}
    BY DEF Placed, TypeOK, StoreTypeOK
  <2>3. Assigns(t) => work[t].document \in Documents
    BY DEF Assigns, Placed, PlacedIn
  <2> QED
    BY <2>1, <2>2, <2>3 DEF Opens, Reloads, Assigns, Passes, Loads, GoesThrough, Confers, LegPlaces
<1>4. PlacedIn(t, work')
  <2>1. t = Main => t \notin Workers /\ work[t].at \in MainPlaces
    BY StoreAssumption DEF Placed, PlacedIn
  <2>2. CASE Opens(t)
    BY <2>1, <2>2 DEF Opens, PlacedIn
  <2>3. CASE Reloads(t)
    BY <2>1, <2>3 DEF Reloads, PlacedIn
  <2>4. CASE Assigns(t)
    BY <2>1, <2>4 DEF Assigns, PlacedIn
  <2>5. CASE Passes(t)
    BY <2>1, <2>5 DEF Passes, PlacedIn
  <2>6. CASE Loads(t)
    BY <2>1, <2>6 DEF Loads, PlacedIn
  <2>7. CASE GoesThrough(t)
    BY <1>3, <2>1, <2>7 DEF GoesThrough, PlacedIn
  <2>8. CASE Confers(t)
    BY <2>1, <2>8 DEF Confers, PlacedIn
  <2> QED
    BY <2>2, <2>3, <2>4, <2>5, <2>6, <2>7, <2>8
<1>5. RestTypes'
  BY <1>1, <1>2, <1>3, <1>6, StoreAssumption DEF RestTypes, legVars, StoreTypeOK, Placed, TypeOK, storeVars
<1> QED
  BY <1>1, <1>4, <1>5, PlacedByThread

LEMMA ProcessPlaced ==
  ASSUME Placed, Crash \/ Boot \/ \E document \in Documents : EditByHand(document)
  PROVE  Placed'
<1>1. CASE Crash
  <2>1. work' \in Works /\ \A t \in Threads : work'[t] = Resting
    BY <1>1, RestingTypes DEF Crash, Works
  <2>2. DOMAIN Nothing = {}
    BY DEF Nothing
  <2>3. RestTypes'
    BY <1>1, <2>2 DEF Crash, StoreCrash, RestTypes, legVars, StoreTypeOK, Placed, TypeOK
  <2>4. \A t \in Threads : PlacedIn(t, work')
    BY <2>1 DEF PlacedIn, Resting, SavePlaces, ApplyPlaces, Holding, MainPlaces, LegPlaces
  <2> QED
    BY <2>1, <2>3, <2>4 DEF Placed, TypeOK, RestTypes, WorkTypeOK, Works, Records
<1>2. CASE Boot
  <2>1. /\ work \in Works /\ work' = [work EXCEPT ![Main].at = "apply"] /\ up'
        /\ Main \in Threads /\ \A t \in Threads : work[t] = Resting
    BY <1>2, WorksTyped DEF Boot, Threads, Placed
  <2>2. work' \in Works
    BY <2>1, SetAt DEF Places, LegPlaces
  <2>3. /\ \A t \in Threads \ {Main} : work'[t] = Resting
        /\ work'[Main].at = "apply" /\ work'[Main].inode = None
    BY <2>1 DEF Works, Records, Resting
  <2>4. content[path] \in Documents
    BY <1>2 DEF Boot, Placed, TypeOK, StoreTypeOK
  <2>5. RestTypes'
    BY <1>2, <2>4, StoreAssumption DEF Boot, RestTypes, legVars, StoreTypeOK, Placed, TypeOK, storeVars
  <2>6. \A t \in Threads : PlacedIn(t, work')
    BY <2>3 DEF PlacedIn, Resting, SavePlaces, ApplyPlaces, Holding, MainPlaces, LegPlaces
  <2> QED
    BY <2>1, <2>2, <2>5, <2>6 DEF Placed, TypeOK, RestTypes, WorkTypeOK, Works, Records
<1>3. ASSUME NEW document \in Documents, EditByHand(document)
      PROVE  Placed'
  BY <1>3 DEF EditByHand, HandWrite, legVars, Placed, TypeOK, StoreTypeOK, WorkTypeOK, PlacedIn
<1> QED
  BY <1>1, <1>2, <1>3

LEMMA PlacedNext ==
  ASSUME Placed, [Next]_vars
  PROVE  Placed'
<1>1. ASSUME NEW t \in Threads, ThreadStep(t)
      PROVE  Placed'
  BY <1>1, SavesPlaced, TakesPlaced, FinishesPlaced, OthersPlaced DEF ThreadStep
<1>2. CASE UNCHANGED vars
  BY <1>2 DEF vars, storeVars, legVars, Placed, TypeOK, StoreTypeOK, WorkTypeOK, PlacedIn
<1> QED
  BY <1>1, <1>2, Steps, ProcessPlaced

LEMMA AlwaysPlaced == Spec => []Placed
<1>1. Placed /\ [Next]_vars => Placed'
  BY PlacedNext
<1> QED
  BY <1>1, PlacedInit, PTL DEF Spec

(* Every variable keeps its type, with any number of workers: an endpoint   *)
(* always finds an id no line uses, a save a temporary file nobody has open *)
(* (configure_endpoint_streams, Config::save).                              *)
THEOREM ConfigurationTypes == Spec => []TypeOK
<1>1. Placed => TypeOK
  BY DEF Placed
<1> QED
  BY <1>1, AlwaysPlaced, PTL

-----------------------------------------------------------------------------
(* The file, with one worker                                               *)

OneWorker == \E w \in Workers : Workers = {w}

(* Who is about to rename has written all of its document, to a file other *)
(* than the one in force; where that works, nothing is written in place.   *)
Beside(t) ==
  /\ work[t].at \notin {"truncate", "fill"}
  /\ work[t].at \in {"write", "rename"} => work[t].inode = temp /\ temp \in Inodes
  /\ work[t].at = "write" => content[temp] = Partial
  /\ work[t].at = "rename" => content[temp] = work[t].document

FileInv ==
  /\ temp # path
  /\ writable /\ healthy => content[path] \in Documents /\ \A t \in Threads : Beside(t)

LEMMA OneSaves ==
  ASSUME OneWorker, Placed, NEW t \in Threads, work[t].at \notin MainPlaces
  PROVE  t \in Workers /\ \A o \in Threads \ {t} : o = Main /\ work[o].at \in MainPlaces
BY DEF OneWorker, Placed, PlacedIn, Threads

LEMMA FileSaves ==
  ASSUME OneWorker, Placed, FileInv, NEW t \in Threads, Saves(t)
  PROVE  FileInv'
<1>1. /\ None \notin Inodes /\ path \in Inodes /\ temp \in Inodes \cup {None}
      /\ content \in [Inodes -> Documents \cup {Partial}] /\ UNCHANGED around
  BY StoreAssumption DEF Placed, TypeOK, StoreTypeOK, Saves
<1>2. \A o \in Threads \ {t} : work[o].at \in MainPlaces /\ work'[o] = work[o]
  <2>1. work[t].at \notin MainPlaces
    BY DEF Saves, MainPlaces, LegPlaces
  <2> QED
    BY <2>1, OneSaves DEF Saves
<1>3. (writable <=> writable') /\ (healthy <=> healthy')
  BY <1>1 DEF writable, healthy
<1>4. temp' # path'
  BY <1>1 DEF Saves, FileInv
<1>5. ASSUME writable, healthy
      PROVE  content'[path'] \in Documents /\ \A o \in Threads : Beside(o)'
  <2>1. /\ content[path] \in Documents /\ Beside(t) /\ temp # path
        /\ work[t].at \in SavePlaces => work[t].document \in Documents
    BY <1>5 DEF FileInv, Placed, PlacedIn
  <2>2. \A o \in Threads \ {t} : Beside(o)'
    BY <1>2 DEF Beside, MainPlaces, LegPlaces
  <2>3. CASE work[t].at = "open"
    <3>1. /\ work'[t].at = "write" /\ work'[t].inode = temp' /\ temp' \in Inodes /\ temp' # path
          /\ content' = [content EXCEPT ![temp'] = Partial] /\ UNCHANGED path
      BY <1>5, <2>1, <2>3 DEF Saves
    <3> QED
      BY <1>1, <2>1, <2>2, <3>1 DEF Beside
  <2>4. CASE work[t].at = "write"
    <3>1. /\ work[t].inode = temp /\ temp \in Inodes /\ content[temp] = Partial
          /\ work[t].document \in Documents
      BY <2>1, <2>4 DEF Beside, SavePlaces
    <3>2. Written(t) = {work[t].document}
      BY <3>1 DEF Written
    <3>3. /\ work'[t].at = "rename" /\ work'[t].inode = work[t].inode
          /\ work'[t].document = work[t].document
          /\ content' = [content EXCEPT ![temp] = work[t].document]
          /\ UNCHANGED <<path, temp>>
      BY <1>5, <2>4, <3>1, <3>2 DEF Saves
    <3> QED
      BY <1>1, <2>1, <2>2, <3>1, <3>3 DEF Beside
  <2>5. CASE work[t].at = "rename"
    <3>1. /\ temp \in Inodes /\ content[temp] = work[t].document
          /\ work[t].document \in Documents
      BY <2>1, <2>5 DEF Beside, SavePlaces
    <3>2. /\ work'[t].at = "saved" /\ path' = temp
          /\ content' = [content EXCEPT ![path] = Partial]
      BY <1>1, <2>5, <3>1 DEF Saves
    <3> QED
      BY <1>1, <2>1, <2>2, <3>1, <3>2 DEF Beside
  <2>6. work[t].at \in {"open", "write", "rename"}
    BY <2>1 DEF Saves, Beside
  <2> QED
    BY <2>3, <2>4, <2>5, <2>6
<1> QED
  BY <1>3, <1>4, <1>5 DEF FileInv

LEMMA FileRests ==
  ASSUME FileInv, NEW t \in Threads, Frame(t), UNCHANGED storeVars,
         work'[t].at \notin {"write", "rename", "truncate", "fill"}
  PROVE  FileInv'
<1>1. UNCHANGED <<content, path, temp, around>>
  BY DEF storeVars
<1>2. (writable <=> writable') /\ (healthy <=> healthy')
  BY <1>1 DEF writable, healthy
<1>3. \A o \in Threads : Beside(o) => Beside(o)'
  <2>1. \A o \in Threads \ {t} : Same(work'[o], work[o])
    BY DEF Frame, Same
  <2> QED
    BY <1>1, <2>1 DEF Beside, Same
<1> QED
  BY <1>1, <1>2, <1>3 DEF FileInv

LEMMA FileNext ==
  ASSUME OneWorker, Placed, FileInv, [Next]_vars
  PROVE  FileInv'
<1>1. ASSUME NEW t \in Threads, ThreadStep(t)
      PROVE  FileInv'
  <2>1. CASE Saves(t)
    BY <2>1, FileSaves
  <2>2. CASE ~Saves(t)
    <3>1. Frame(t) /\ UNCHANGED storeVars
      BY <1>1, <2>2 DEF ThreadStep, Opens, Reloads, Assigns, Passes, Loads, GoesThrough, Takes, Finishes, Confers, LegPlaces
    <3>2. work'[t].at \notin {"write", "rename", "truncate", "fill"}
      BY <1>1, <2>2 DEF ThreadStep, Opens, Reloads, Assigns, Passes, Loads, GoesThrough, Takes, Finishes, Confers, LegPlaces
    <3> QED
      BY <3>1, <3>2, FileRests
  <2> QED
    BY <2>1, <2>2
<1>2. CASE Crash
  <2>1. /\ UNCHANGED <<path, temp, around>> /\ content'[path] = content[path]
        /\ \A o \in Threads : work'[o].at = "idle"
    BY <1>2 DEF Crash, StoreCrash, Placed, TypeOK, StoreTypeOK, Resting
  <2> QED
    BY <2>1 DEF FileInv, Beside, writable, healthy
<1>3. CASE Boot
  <2>1. /\ UNCHANGED storeVars /\ \A o \in Threads : work'[o].at \in {"idle", "apply"}
    BY <1>3, WorksTyped DEF Boot, Placed, Resting, Works
  <2> QED
    BY <2>1 DEF FileInv, Beside, writable, healthy, storeVars
<1>4. ASSUME NEW document \in Documents, EditByHand(document)
      PROVE  FileInv'
  <2>1. /\ UNCHANGED <<path, temp, around, work>> /\ content'[path] = document
        /\ \A o \in Threads : work[o].at = "idle"
    BY <1>4 DEF EditByHand, HandWrite, Placed, TypeOK, StoreTypeOK, Resting
  <2> QED
    BY <2>1 DEF FileInv, Beside, writable, healthy
<1>5. CASE UNCHANGED vars
  BY <1>5 DEF vars, storeVars, FileInv, Beside, writable, healthy
<1> QED
  BY <1>1, <1>2, <1>3, <1>4, <1>5, Steps

LEMMA FileInit == ASSUME Init PROVE FileInv
<1>1. path \in Inodes /\ temp = None /\ None \notin Inodes
  BY StoreAssumption DEF Init, StoreInit
<1>2. content[path] \in Documents /\ \A t \in Threads : work[t].at = "idle"
  BY <1>1 DEF Init, StoreInit, Resting
<1> QED
  BY <1>1, <1>2 DEF FileInv, Beside

(* With one worker, wherever a save or a crash leaves it, the file can be   *)
(* read, if its directory is writable and the disk healthy (Config::save). *)
THEOREM FileKeptWhole ==
  ASSUME OneWorker PROVE Spec => []FileWhole
<1>1. FileInv => FileWhole
  BY StoreAssumption DEF FileInv, FileWhole
<1>2. Init => FileInv
  BY FileInit
<1>3. Placed /\ FileInv /\ [Next]_vars => FileInv'
  BY FileNext
<1> QED
  BY <1>1, <1>2, <1>3, AlwaysPlaced, PTL DEF Spec

-----------------------------------------------------------------------------
(* The file, the configuration and the conference leg                      *)

(* What a worker has made of the file: until it saves, and again once what *)
(* it saved is assigned, the file holds the configuration in force.        *)
Truthful(t) ==
  /\ work[t].at # "unsaved"
  /\ work[t].at \notin SavePlaces => config = content[path]
  /\ work[t].at = "saved" => content[path] = work[t].document
  /\ work[t].at = "fill" => content[path] = Partial /\ work[t].inode = path
  /\ work[t].at \in SavePlaces /\ work[t].request = "line" => config = work[t].document
  /\ ~writable => work[t].at \notin {"write", "rename"}

TruthInv == healthy /\ up => \A t \in Workers : Truthful(t)

LEMMA TruthSaves ==
  ASSUME OneWorker, Placed, FileInv, TruthInv, NEW t \in Threads, Saves(t)
  PROVE  TruthInv'
<1>1. t \in Workers /\ Workers = {t}
  BY OneSaves DEF Saves, MainPlaces, LegPlaces, OneWorker
<1>2. /\ None \notin Inodes /\ path \in Inodes /\ temp \in Inodes \cup {None}
      /\ content \in [Inodes -> Documents \cup {Partial}]
      /\ UNCHANGED <<around, up, config>>
      /\ work'[t].document = work[t].document /\ work'[t].request = work[t].request
  BY StoreAssumption DEF Placed, TypeOK, StoreTypeOK, Saves
<1>3. (writable <=> writable') /\ (healthy <=> healthy')
  BY <1>2 DEF writable, healthy
<1>4. ASSUME healthy PROVE Truthful(t)'
  <2>1. Truthful(t)
    BY <1>1, <1>4 DEF TruthInv, Saves
  <2>2. CASE work[t].at \in {"open", "write", "truncate"}
    BY <1>2, <1>3, <1>4, <2>1, <2>2 DEF Saves, Truthful, SavePlaces
  <2>3. CASE work[t].at = "rename"
    <3>1. writable
      BY <2>1, <2>3 DEF Truthful
    <3>2. temp \in Inodes /\ content[temp] = work[t].document /\ temp # path
      BY <1>4, <2>3, <3>1 DEF FileInv, Beside
    <3>3. /\ work'[t].at = "saved" /\ path' = temp
          /\ content' = [content EXCEPT ![path] = Partial]
      BY <1>2, <2>3, <3>2 DEF Saves
    <3> QED
      BY <1>2, <2>1, <2>3, <3>2, <3>3 DEF Truthful, SavePlaces
  <2>4. CASE work[t].at = "fill"
    <3>1. content[path] = Partial /\ work[t].inode = path
      BY <2>1, <2>4 DEF Truthful
    <3>2. Written(t) = {work[t].document}
      BY <3>1 DEF Written
    <3>3. /\ work'[t].at = "saved" /\ UNCHANGED path
          /\ content' = [content EXCEPT ![path] = work[t].document]
      BY <1>4, <2>4, <3>1, <3>2 DEF Saves
    <3> QED
      BY <1>2, <2>1, <2>4, <3>3 DEF Truthful, SavePlaces
  <2> QED
    BY <2>2, <2>3, <2>4 DEF Saves
<1> QED
  BY <1>1, <1>3, <1>4 DEF TruthInv

LEMMA TruthRests ==
  ASSUME OneWorker, Placed, TruthInv, NEW t \in Threads, ThreadStep(t), ~Saves(t)
  PROVE  TruthInv'
<1>1. /\ Frame(t) /\ up /\ up' /\ UNCHANGED <<content, path, temp, around>>
  BY DEF ThreadStep, Opens, Reloads, Assigns, Passes, Loads, GoesThrough, Takes, Finishes, Confers, storeVars
<1>2. (writable <=> writable') /\ (healthy <=> healthy')
  BY <1>1 DEF writable, healthy
<1>3. CASE t \in Workers
  <2>1. ASSUME Truthful(t) PROVE Truthful(t)'
    <3>1. /\ work'[t].at # "unsaved"
          /\ work'[t].at \notin {"write", "rename", "fill", "saved"}
      BY <2>1 DEF ThreadStep, Opens, Reloads, Assigns, Passes, Loads, GoesThrough, Takes, Finishes, Confers, LegPlaces
    <3>2. CASE work'[t].at = "open"
      BY <3>1, <3>2 DEF ThreadStep, Opens, Reloads, Assigns, Passes, Loads, GoesThrough, Takes,
         Finishes, Confers, LegPlaces, Truthful, SavePlaces
    <3>3. CASE work'[t].at # "open"
      <4>1. work'[t].at \notin SavePlaces
        BY <1>1, <3>1, <3>3 DEF ThreadStep, Opens, Reloads, Assigns, Passes, Loads, GoesThrough,
           Takes, Finishes, Confers, LegPlaces, SavePlaces
      <4>2. config' = content[path]
        BY <2>1, <3>3 DEF ThreadStep, Opens, Reloads, Assigns, Passes, Loads, GoesThrough,
           Takes, Finishes, Confers, LegPlaces, Truthful, SavePlaces
      <4> QED
        BY <1>1, <3>1, <4>1, <4>2 DEF Truthful, SavePlaces
    <3> QED
      BY <3>2, <3>3
  <2> QED
    BY <1>1, <1>2, <1>3, <2>1 DEF TruthInv, OneWorker
<1>4. CASE t \notin Workers
  <2>1. config' = config
    <3>1. t = Main /\ work[t].at \in MainPlaces
      BY <1>4 DEF Threads, Placed, PlacedIn
    <3> QED
      BY <1>4, <3>1 DEF ThreadStep, Opens, Reloads, Assigns, Passes, Loads, GoesThrough, Takes,
         Finishes, Confers, MainPlaces, LegPlaces
  <2>2. \A o \in Workers : Same(work'[o], work[o])
    BY <1>1, <1>4 DEF Frame, Same, Threads
  <2> QED
    BY <1>1, <1>2, <2>1, <2>2 DEF TruthInv, Truthful, Same
<1> QED
  BY <1>3, <1>4

LEMMA TruthNext ==
  ASSUME OneWorker, Placed, FileInv, TruthInv, [Next]_vars
  PROVE  TruthInv'
<1>1. CASE Crash \/ \E document \in Documents : EditByHand(document)
  BY <1>1 DEF Crash, EditByHand, TruthInv
<1>2. CASE Boot
  <2>1. /\ UNCHANGED <<content, path, around>> /\ config' = content[path]
        /\ \A o \in Workers : work'[o].at = "idle"
    BY <1>2, WorksTyped, StoreAssumption DEF Boot, Placed, Resting, Works, Threads, storeVars
  <2> QED
    BY <2>1 DEF TruthInv, Truthful, SavePlaces
<1>3. CASE UNCHANGED vars
  BY <1>3 DEF vars, storeVars, TruthInv, Truthful, writable, healthy
<1> QED
  BY <1>1, <1>2, <1>3, TruthSaves, TruthRests, Steps

(* With one worker, when no request is under way, the file holds what the   *)
(* gateway runs, whatever crashed, failed or was refused before            *)
(* (POST /api/config, App::restart).                                       *)
THEOREM FileHoldsTheTruth ==
  ASSUME OneWorker PROVE Spec => []FileIsTruth
<1>1. TruthInv => FileIsTruth
  <2> SUFFICES ASSUME TruthInv, up, healthy, \A t \in Threads : At(t, "idle")
               PROVE  config = content[path]
    BY DEF FileIsTruth
  <2>1. PICK w \in Workers : Truthful(w) /\ At(w, "idle")
    BY DEF OneWorker, TruthInv, Threads
  <2> QED
    BY <2>1 DEF Truthful, At, SavePlaces
<1>2. Init => FileInv /\ TruthInv
  BY FileInit DEF Init, TruthInv
<1>3. Placed /\ FileInv /\ TruthInv /\ [Next]_vars => FileInv' /\ TruthInv'
  BY FileNext, TruthNext
<1> QED
  BY <1>1, <1>2, <1>3, AlwaysPlaced, PTL DEF Spec

-----------------------------------------------------------------------------
(* The conference leg, with any number of workers                          *)

(* Whoever is here comes to the leg, or fails.                             *)
Due == {"load", "apply", "lines", "endpoints"}
SomeoneDue == \E o \in Threads : work[o].at \in Due

(* Nobody else is in apply_conference, so what t found there is so still.  *)
AloneAtLeg(t) ==
  work[t].at \in LegPlaces /\ t \notin clashed =>
    /\ \A o \in Threads \ {t} : work[o].at \notin LegPlaces
    /\ work[t].at \in {"found", "register"} => leg
    /\ work[t].at = "missing" => ~leg
    /\ work[t].at = "erase" => ~registered
    /\ work[t].at \in {"drop", "erase"} => ~Enabled \/ SomeoneDue
    /\ work[t].at \in {"raise", "register"} => Enabled \/ SomeoneDue

NoneClashes == \A t \in Threads : work[t].at \in LegPlaces => t \notin clashed

LegInv ==
  /\ ~up => ~registered
  /\ up => \A t \in Threads : AloneAtLeg(t)
  /\ up /\ settled /\ NoneClashes => (registered => leg)
  /\ up /\ settled =>
       (leg <=> Enabled) \/ \E t \in Threads : work[t].at \in Due \cup LegPlaces

(* A step that has nothing to do with the leg changes what is wanted of it  *)
(* only on the way there.                                                  *)
Aside(t) ==
  /\ UNCHANGED legVars
  /\ work[t].at \notin LegPlaces /\ work'[t].at \notin LegPlaces
  /\ \/ work'[t].at \in Due
     \/ work[t].at \notin Due /\ config'.leg = config.leg

LEMMA LegAside ==
  ASSUME LegInv, NEW t \in Threads, Aside(t), up, up',
         \A o \in Threads \ {t} : work'[o].at = work[o].at
  PROVE  LegInv'
<1> USE DEF legVars, Aside
<1>1. ASSUME NEW o \in Threads, work'[o].at \in LegPlaces, o \notin clashed'
      PROVE  AloneAtLeg(o)'
  <2>1. o # t /\ AloneAtLeg(o) /\ work'[o].at = work[o].at /\ o \notin clashed
    BY <1>1 DEF LegInv
  <2>2. (Enabled \/ SomeoneDue => Enabled' \/ SomeoneDue') /\ (~Enabled \/ SomeoneDue => ~Enabled' \/ SomeoneDue')
    BY DEF SomeoneDue, Enabled
  <2> QED
    BY <1>1, <2>1, <2>2 DEF AloneAtLeg
<1>2. \A o \in Threads : AloneAtLeg(o)'
  BY <1>1 DEF AloneAtLeg
<1>3. NoneClashes' => NoneClashes
  BY DEF NoneClashes
<1>4. (leg <=> Enabled) \/ (\E o \in Threads : work[o].at \in Due \cup LegPlaces) =>
        (leg' <=> Enabled') \/ (\E o \in Threads : work'[o].at \in Due \cup LegPlaces)
  BY DEF Enabled
<1> QED
  BY <1>2, <1>3, <1>4 DEF LegInv

LEMMA LegComes ==
  ASSUME LegInv, NEW t \in Threads, ComesToLeg(t), up, up', work[t].at \notin LegPlaces,
         work'[t].at = "leg",
         \A o \in Threads \ {t} : work'[o].at = work[o].at
  PROVE  LegInv'
<1>1. \A o \in Threads : AloneAtLeg(o)'
  <2> SUFFICES ASSUME NEW o \in Threads, work'[o].at \in LegPlaces, o \notin clashed'
               PROVE  o = t /\ \A p \in Threads \ {t} : work'[p].at \notin LegPlaces
    BY DEF AloneAtLeg
  <2> QED
    BY DEF ComesToLeg, OthersAtLeg
<1>2. NoneClashes' => NoneClashes
  BY DEF NoneClashes, ComesToLeg, OthersAtLeg
<1>3. work'[t].at \in Due \cup LegPlaces
  BY DEF LegPlaces
<1> QED
  BY <1>1, <1>2, <1>3 DEF LegInv, ComesToLeg

LEMMA LegFails ==
  ASSUME LegInv, NEW t \in Threads, up, up', work[t].at \notin LegPlaces, work'[t].at \notin LegPlaces,
         settled' = FALSE, clashed' = clashed \cup OthersAtLeg(t),
         \A o \in Threads \ {t} : work'[o].at = work[o].at
  PROVE  LegInv'
BY DEF LegInv, AloneAtLeg, OthersAtLeg

LEMMA LegConfers ==
  ASSUME TypeOK, LegInv, NEW t \in Threads, up, up', UNCHANGED config, work[t].at \in LegPlaces,
         LegSteps(t), leg' \in BOOLEAN, registered' \in BOOLEAN, settled' \in BOOLEAN,
         work'[t].at \in LegPlaces \cup {"idle"},
         \A o \in Threads \ {t} : work'[o].at = work[o].at
  PROVE  LegInv'
<1> USE DEF At
<1>0. leg \in BOOLEAN /\ registered \in BOOLEAN /\ settled \in BOOLEAN
  BY DEF TypeOK
<1>1. (SomeoneDue <=> SomeoneDue') /\ (Enabled <=> Enabled')
  BY DEF SomeoneDue, Due, LegPlaces, Enabled
<1>2. AloneAtLeg(t) /\ clashed' \subseteq clashed /\ clashed \subseteq clashed' \cup {t}
  BY DEF LegInv, LegSteps, LegDone, Goes
<1>3. ASSUME NEW o \in Threads \ {t}, work'[o].at \in LegPlaces PROVE o \in clashed'
  <2>1. o \in clashed
    BY <1>3 DEF LegInv, AloneAtLeg
  <2> QED
    BY <1>2, <2>1
<1>4. CASE work'[t].at \in LegPlaces
  <2>1. clashed' = clashed /\ (settled' <=> settled)
    BY <1>4 DEF LegSteps, Goes, LegPlaces
  <2>2. ASSUME t \notin clashed PROVE AloneAtLeg(t)'
    <3>1. \A o \in Threads \ {t} : work'[o].at \notin LegPlaces
      BY <1>2, <1>4, <2>2 DEF AloneAtLeg
    <3>2. /\ work[t].at \in {"found", "register"} => leg
          /\ work[t].at = "missing" => ~leg
          /\ work[t].at \in {"drop", "erase"} => ~Enabled \/ SomeoneDue
          /\ work[t].at \in {"raise", "register"} => Enabled \/ SomeoneDue
      BY <1>2, <2>2 DEF AloneAtLeg
    <3>3. /\ work'[t].at \in {"found", "register"} => leg'
          /\ work'[t].at = "missing" => ~leg'
          /\ work'[t].at = "erase" => ~registered'
          /\ work'[t].at \in {"drop", "erase"} => ~Enabled \/ SomeoneDue
          /\ work'[t].at \in {"raise", "register"} => Enabled \/ SomeoneDue
      <4>1. CASE work[t].at \in {"leg", "found", "missing"}
        BY <1>0, <1>4, <3>2, <4>1 DEF LegSteps, LegStays, EngineStays, LegPlaces
      <4>2. CASE work[t].at \in {"drop", "erase", "raise", "register"}
        BY <1>0, <1>4, <3>2, <4>2 DEF LegSteps, LegStays, EngineStays, LegPlaces
      <4> QED
        BY <4>1, <4>2 DEF LegPlaces
    <3> HIDE DEF At
    <3> QED
      BY <1>1, <3>1, <3>3, Zenon DEF AloneAtLeg
  <2>3. \A o \in Threads : AloneAtLeg(o)'
    BY <1>3, <2>1, <2>2 DEF AloneAtLeg
  <2>4. NoneClashes' => t \notin clashed /\ NoneClashes
    BY <1>4, <2>1 DEF NoneClashes
  <2>5. settled' /\ NoneClashes' => (registered' => leg')
    BY <1>4, <2>1, <2>4 DEF LegInv, LegSteps, LegStays, EngineStays, LegPlaces
  <2> QED
    BY <1>4, <2>3, <2>5 DEF LegInv
<1>5. CASE work'[t].at = "idle"
  <2>1. settled' => t \notin clashed
    BY <1>5 DEF LegSteps, LegStays, EngineStays, LegDone
  <2>2. \A o \in Threads : AloneAtLeg(o)'
    BY <1>3, <1>5 DEF AloneAtLeg, LegPlaces
  <2>3. ASSUME settled' PROVE (registered' => leg') /\ ((leg' <=> Enabled') \/ SomeoneDue')
    <3>1. t \notin clashed /\ \A o \in Threads \ {t} : work[o].at \notin LegPlaces
      BY <1>2, <2>1, <2>3 DEF AloneAtLeg
    <3>2. NoneClashes
      BY <3>1 DEF NoneClashes
    <3>3. /\ work[t].at = "register" => leg /\ (Enabled \/ SomeoneDue)
          /\ work[t].at = "missing" => ~leg
          /\ work[t].at = "erase" => ~registered /\ (~Enabled \/ SomeoneDue)
      BY <1>2, <3>1 DEF AloneAtLeg
    <3>4. CASE work[t].at = "missing"
      <4>1. ~Enabled /\ (leg' <=> leg) /\ (registered' <=> registered) /\ settled
        BY <1>5, <2>3, <3>4 DEF LegSteps, LegStays, EngineStays, LegDone
      <4>2. ~leg /\ (registered => leg)
        BY <3>2, <3>3, <3>4, <4>1 DEF LegInv
      <4> QED
        BY <1>0, <1>1, <4>1, <4>2
    <3>5. CASE work[t].at = "erase"
      <4>1. ~leg' /\ (registered' <=> registered)
        BY <1>5, <3>5 DEF LegSteps, EngineStays
      <4> QED
        BY <1>1, <3>3, <3>5, <4>1
    <3>6. CASE work[t].at = "register"
      <4>1. leg' <=> leg
        BY <1>5, <3>6 DEF LegSteps, LegStays
      <4> QED
        BY <1>1, <3>3, <3>6, <4>1
    <3>7. work[t].at \in {"missing", "erase", "register"}
      BY <1>5 DEF LegSteps
    <3> QED
      BY <3>4, <3>5, <3>6, <3>7
  <2> QED
    BY <2>2, <2>3 DEF LegInv, SomeoneDue
<1> QED
  BY <1>4, <1>5

LEMMA LegNext ==
  ASSUME Placed, LegInv, [Next]_vars
  PROVE  LegInv'
<1>1. ASSUME NEW t \in Threads, ThreadStep(t)
      PROVE  LegInv'
  <2>1. Frame(t) /\ up /\ up'
    BY <1>1 DEF ThreadStep, Opens, Reloads, Saves, Assigns, Passes, Loads, GoesThrough, Takes,
       Finishes, Confers, LegPlaces
  <2>2. \A o \in Threads \ {t} : work'[o].at = work[o].at
    BY <2>1 DEF Frame, Same
  <2>3. CASE Confers(t)
    BY <2>1, <2>2, <2>3, LegConfers DEF Confers, Placed
  <2>4. CASE Finishes(t)
    BY <2>1, <2>2, <2>4, LegComes DEF Finishes, LegPlaces
  <2>5. CASE Assigns(t) /\ work'[t].at = "leg"
    BY <2>1, <2>2, <2>5, LegComes DEF Assigns, LegPlaces
  <2>6. CASE Passes(t) /\ work[t].at = "apply"
    BY <2>1, <2>2, <2>6, LegFails DEF Passes, LegPlaces
  <2>7. CASE \/ Opens(t) \/ Reloads(t) \/ Saves(t) \/ Loads(t) \/ GoesThrough(t) \/ Takes(t)
             \/ Assigns(t) /\ work'[t].at # "leg"
             \/ Passes(t) /\ work[t].at # "apply"
    <3>1. Aside(t)
      BY <2>7 DEF Opens, Reloads, Saves, Assigns, Passes, Loads, GoesThrough, Takes, Aside,
         LegPlaces, Due
    <3> QED
      BY <2>1, <2>2, <3>1, LegAside
  <2> QED
    BY <1>1, <2>3, <2>4, <2>5, <2>6, <2>7 DEF ThreadStep
<1>2. CASE Crash
  BY <1>2 DEF Crash, LegInv
<1>3. CASE Boot
  <2>1. /\ Main \in Threads /\ work'[Main].at = "apply"
        /\ \A t \in Threads : work'[t].at \in {"idle", "apply"}
    <3>1. /\ Main \in Threads /\ work \in [Threads -> Records]
          /\ work' = [work EXCEPT ![Main].at = "apply"]
          /\ \A t \in Threads : work[t].at = "idle"
      <4>1. \A t \in Threads : work[t] = Resting
        BY <1>3 DEF Boot, Placed
      <4>2. \A t \in Threads : work[t].at = "idle"
        BY <4>1 DEF Resting
      <4>3. work \in [Threads -> Records] /\ Main \in Threads
        BY WorksTyped DEF Works, Threads
      <4> QED
        BY <1>3, <4>2, <4>3 DEF Boot
    <3> QED
      BY <3>1 DEF Records
  <2>2. UNCHANGED <<leg, registered>> /\ ~registered
    BY <1>3 DEF Boot, legVars, LegInv
  <2> QED
    BY <2>1, <2>2 DEF LegInv, AloneAtLeg, LegPlaces, Due
<1>4. ASSUME NEW document \in Documents, EditByHand(document)
      PROVE  LegInv'
  BY <1>4 DEF EditByHand, legVars, LegInv
<1>5. CASE UNCHANGED vars
  BY <1>5 DEF vars, legVars, LegInv, AloneAtLeg, NoneClashes, SomeoneDue, Enabled
<1> QED
  BY <1>1, <1>2, <1>3, <1>4, <1>5, Steps

(* With any number of workers, and the main thread's apply beside them:     *)
(* when no request is under way, there is a leg exactly if the              *)
(* configuration has one, and the engine has none that lines_ has not, as   *)
(* far as LegIsTruth claims it (apply_conference).                          *)
THEOREM LegAsConfigured == Spec => []LegIsTruth
<1>1. LegInv => LegIsTruth
  BY DEF LegInv, LegIsTruth, NoneClashes, At, Due, LegPlaces
<1>2. Init => LegInv
  BY DEF Init, LegInv
<1>3. Placed /\ LegInv /\ [Next]_vars => LegInv'
  BY LegNext
<1> QED
  BY <1>1, <1>2, <1>3, AlwaysPlaced, PTL DEF Spec

-----------------------------------------------------------------------------
(* The streams, with any number of workers                                 *)

ServesLines(served, document, lines) ==
  \A way \in Directions, l \in lines : served[way][document.lines[l][way]] = l

ServesEndpoints(served, document, endpoints) ==
  \A way \in Directions, e \in endpoints : served[way][Allocated(document)[e]] = e

(* An apply nobody gets in the way of: what it has put is in the daemon's  *)
(* table still, as no two of its streams share an id.                      *)

Ordered(t) ==
  /\ At(t, "lines") => work[t].left \in Seq(DOMAIN work[t].document.lines)
  /\ At(t, "endpoints") => work[t].left \in Seq(Range(work[t].document.endpoints))

Faithful(t) ==
  LET document == work[t].document
      left == Range(work[t].left)
  IN answers /\ work[t].alone =>
       /\ At(t, "lines") =>
            config = document /\ ServesLines(table, document, DOMAIN document.lines \ left)
       /\ At(t, "endpoints") =>
            /\ ServesLines(table, document, DOMAIN document.lines)
            /\ ServesEndpoints(table, document, Provisioned(document) \ left)

ServeInv == ServesUnlessRemoved /\ \A t \in Threads : Ordered(t) /\ Faithful(t)

LEMMA PutHits ==
  ASSUME NEW served \in [Directions -> [Ids -> Lines \cup Endpoints \cup {None}]],
         NEW owner, NEW id, NEW way \in Directions, NEW i \in Ids
  PROVE  [w \in Directions |-> [served[w] EXCEPT ![id[w]] = owner]][way][i] =
           IF i = id[way] THEN owner ELSE served[way][i]
OBVIOUS

LEMMA LinePut ==
  ASSUME Placed, answers, NEW document \in Documents, NEW left \in Seq(DOMAIN document.lines),
         left # << >>, Put(Head(left), document.lines[Head(left)]),
         ServesLines(table, document, DOMAIN document.lines \ Range(left))
  PROVE  ServesLines(table', document, DOMAIN document.lines \ Range(Tail(left)))
<1> DEFINE head == Head(left)
<1>1. /\ table \in [Directions -> [Ids -> Lines \cup Endpoints \cup {None}]]
      /\ \A l, m \in DOMAIN document.lines, way \in Directions :
            /\ document.lines[l][way] \in Ids
            /\ document.lines[l][way] = document.lines[m][way] => l = m
  BY StreamAssumption DEF Placed, TypeOK
<1>2. /\ head \in DOMAIN document.lines /\ Put(head, document.lines[head])
      /\ \A l \in Range(left) : l = head \/ l \in Range(Tail(left))
  BY Remaining
<1> HIDE DEF head
<1>3. ASSUME NEW way \in Directions, NEW l \in DOMAIN document.lines \ Range(Tail(left))
      PROVE  table'[way][document.lines[l][way]] = l
  <2> DEFINE id == document.lines[head]
  <2>1. id[way] \in Ids /\ Put(head, id)
    BY <1>1, <1>2
  <2>2. table'[way][id[way]] = head /\ \A i \in Ids \ {id[way]} : table'[way][i] = table[way][i]
    <3>1. table' = [w \in Directions |-> [table[w] EXCEPT ![id[w]] = head]]
      BY <2>1 DEF Put
    <3> HIDE DEF id
    <3>2. \A i \in Ids : table'[way][i] = IF i = id[way] THEN head ELSE table[way][i]
      BY <1>1, <3>1, PutHits
    <3> QED
      BY <2>1, <3>2
  <2>3. CASE l = head
    BY <2>2, <2>3
  <2>4. CASE l # head
    <3>1. l \notin Range(left)
      BY <1>2, <2>4
    <3>2. table[way][document.lines[l][way]] = l
      BY <3>1 DEF ServesLines
    <3>3. document.lines[l][way] \in Ids \ {id[way]}
      BY <1>1, <1>2, <2>4
    <3> QED
      BY <2>2, <3>2, <3>3
  <2> QED
    BY <2>3, <2>4
<1> QED
  BY <1>3 DEF ServesLines

LEMMA EndpointPut ==
  ASSUME Placed, answers, NEW document \in Documents,
         NEW left \in Seq(Range(document.endpoints)), left # << >>,
         Head(left) \notin document.wired,
         Put(Head(left), [way \in Directions |-> Allocated(document)[Head(left)]]),
         ServesLines(table, document, DOMAIN document.lines),
         ServesEndpoints(table, document, Provisioned(document) \ Range(left))
  PROVE  /\ ServesLines(table', document, DOMAIN document.lines)
         /\ ServesEndpoints(table', document, Provisioned(document) \ Range(Tail(left)))
<1> DEFINE head == Head(left)
           id == [way \in Directions |-> Allocated(document)[head]]
<1>1. table \in [Directions -> [Ids -> Lines \cup Endpoints \cup {None}]]
  BY DEF Placed, TypeOK
<1>2. /\ head \in Provisioned(document) /\ Put(head, id)
      /\ \A e \in Range(left) : e = head \/ e \in Range(Tail(left))
  BY Remaining DEF Provisioned
<1>3. /\ \A e \in Provisioned(document) : Allocated(document)[e] \in Ids \ Taken(document)
      /\ \A e, f \in Provisioned(document) :
           Allocated(document)[e] = Allocated(document)[f] => e = f
  BY IdsApart, Zenon
<1> HIDE DEF head
<1>4. ASSUME NEW way \in Directions
      PROVE  /\ table'[way][Allocated(document)[head]] = head
             /\ \A i \in Ids \ {Allocated(document)[head]} : table'[way][i] = table[way][i]
  <2>1. id[way] = Allocated(document)[head] /\ id[way] \in Ids
    BY <1>2, <1>3
  <2> HIDE DEF id
  <2>2. table'[way][id[way]] = head /\ \A i \in Ids \ {id[way]} : table'[way][i] = table[way][i]
    <3>1. table' = [w \in Directions |-> [table[w] EXCEPT ![id[w]] = head]]
      BY <1>2 DEF Put
    <3>2. \A i \in Ids : table'[way][i] = IF i = id[way] THEN head ELSE table[way][i]
      BY <1>1, <3>1, PutHits
    <3> QED
      BY <2>1, <3>2
  <2> QED
    BY <2>1, <2>2
<1>5. ASSUME NEW way \in Directions, NEW l \in DOMAIN document.lines
      PROVE  table'[way][document.lines[l][way]] = l
  <2>1. document.lines[l][way] \in Ids /\ document.lines[l][way] \in Taken(document)
    <3>1. document.lines[l][way] \in Ids
      BY StreamAssumption
    <3> QED
      BY <3>1 DEF Taken
  <2>2. document.lines[l][way] # Allocated(document)[head]
    BY <1>2, <1>3, <2>1
  <2>3. table[way][document.lines[l][way]] = l
    BY DEF ServesLines
  <2> QED
    BY <1>4, <2>1, <2>2, <2>3
<1>6. ASSUME NEW way \in Directions, NEW e \in Provisioned(document) \ Range(Tail(left))
      PROVE  table'[way][Allocated(document)[e]] = e
  <2>1. CASE e = head
    BY <1>4, <2>1
  <2>2. CASE e # head
    <3>1. e \notin Range(left)
      BY <1>2, <2>2
    <3>2. table[way][Allocated(document)[e]] = e
      BY <3>1 DEF ServesEndpoints
    <3>3. Allocated(document)[e] \in Ids \ {Allocated(document)[head]}
      BY <1>2, <1>3, <2>2
    <3> QED
      BY <1>4, <3>2, <3>3
  <2> QED
    BY <2>1, <2>2
<1> QED
  BY <1>5, <1>6 DEF ServesLines, ServesEndpoints

LEMMA SameAnswers ==
  ASSUME UNCHANGED around PROVE answers <=> answers'
BY DEF answers

LEMMA OthersFaithful ==
  ASSUME Placed, ServeInv, NEW t \in Threads, Frame(t), UNCHANGED around,
         NEW o \in Threads \ {t}
  PROVE  Ordered(o)' /\ Faithful(o)'
<1>1. Ordered(o) /\ Faithful(o) /\ (answers <=> answers')
  BY SameAnswers DEF ServeInv
<1>2. CASE UNCHANGED <<table, config>> /\ work'[o] = work[o]
  BY <1>1, <1>2 DEF Ordered, Faithful, At, ServesLines, ServesEndpoints
<1>3. CASE Same(work'[o], work[o]) /\ (Applying(o) => ~work'[o].alone)
  BY <1>1, <1>3 DEF Ordered, Faithful, At, Same, Applying
<1> QED
  BY <1>2, <1>3 DEF Frame

LEMMA GoesFaithful ==
  ASSUME Placed, ServeInv, NEW t \in Threads, GoesThrough(t)
  PROVE  Ordered(t)' /\ Faithful(t)'
<1>1. /\ UNCHANGED <<around, config, table>> /\ work'[t].document = config /\ config \in Documents
      /\ answers <=> answers'
  BY SameAnswers DEF GoesThrough, storeVars, Placed, TypeOK
<1>2. /\ SetToSeq(DOMAIN config.lines) \in Seq(DOMAIN config.lines)
      /\ Range(SetToSeq(DOMAIN config.lines)) = DOMAIN config.lines
      /\ config.endpoints \in Seq(Range(config.endpoints))
  BY <1>1, ListTypes
<1>3. CASE work[t].at = "apply"
  <2>1. work'[t].at = "lines" /\ work'[t].left = SetToSeq(DOMAIN config.lines)
    BY <1>3 DEF GoesThrough
  <2>2. Ordered(t)'
    BY <1>1, <1>2, <2>1 DEF Ordered, At
  <2>3. DOMAIN config.lines \ Range(work'[t].left) = {}
    BY <1>2, <2>1
  <2>4. Faithful(t)'
    BY <1>1, <2>1, <2>3 DEF Faithful, At, ServesLines
  <2> QED
    BY <2>2, <2>4
<1>4. CASE work[t].at = "lines"
  <2>1. /\ work'[t].at = "endpoints" /\ work'[t].left = config.endpoints
        /\ work[t].left = << >> /\ work'[t].alone = work[t].alone
    BY <1>4 DEF GoesThrough
  <2>2. Ordered(t)'
    BY <1>1, <1>2, <2>1 DEF Ordered, At
  <2>3. Range(work[t].left) = {}
    BY <2>1 DEF Range
  <2>4. Provisioned(config) \ Range(work'[t].left) = {}
    BY <2>1 DEF Provisioned
  <2>5. ASSUME answers, work[t].alone PROVE ServesLines(table, config, DOMAIN config.lines)
    <3>1. config = work[t].document /\ ServesLines(table, config, DOMAIN config.lines \ Range(work[t].left))
      BY <1>4, <2>5 DEF ServeInv, Faithful, At
    <3> QED
      BY <2>3, <3>1
  <2>6. Faithful(t)'
    BY <1>1, <2>1, <2>4, <2>5 DEF Faithful, At, ServesLines, ServesEndpoints
  <2> QED
    BY <2>2, <2>6
<1> QED
  BY <1>3, <1>4 DEF GoesThrough

LEMMA TakesFaithful ==
  ASSUME Placed, ServeInv, NEW t \in Threads, Takes(t)
  PROVE  Ordered(t)' /\ Faithful(t)'
<1> DEFINE document == work[t].document
           left == work[t].left
<1>1. /\ UNCHANGED <<around, config>> /\ (answers <=> answers')
      /\ work'[t].at = work[t].at /\ work'[t].document = document
      /\ work'[t].alone = work[t].alone
      /\ left # << >> /\ work'[t].left = Tail(left)
      /\ Ordered(t) /\ Faithful(t)
  BY SameAnswers DEF Takes, storeVars, ServeInv
<1>2. work[t].at \in ApplyPlaces => document \in Documents
  BY DEF Placed, PlacedIn
<1>3. CASE work[t].at = "lines"
  <2>1. left \in Seq(DOMAIN document.lines) /\ document \in Documents
    BY <1>1, <1>2, <1>3 DEF Ordered, At, ApplyPlaces
  <2>2. Put(Head(left), document.lines[Head(left)])
    BY <1>3 DEF Takes
  <2>3. Tail(left) \in Seq(DOMAIN document.lines)
    BY <1>1, <2>1, Remaining
  <2>4. ASSUME answers, work[t].alone
        PROVE  config = document /\ ServesLines(table', document, DOMAIN document.lines \ Range(Tail(left)))
    <3>1. config = document /\ ServesLines(table, document, DOMAIN document.lines \ Range(left))
      BY <1>1, <1>3, <2>4 DEF Faithful, At
    <3> QED
      BY <1>1, <2>1, <2>2, <2>4, <3>1, LinePut
  <2>5. Ordered(t)'
    BY <1>1, <1>3, <2>3 DEF Ordered, At
  <2>6. Faithful(t)'
    BY <1>1, <1>3, <2>4 DEF Faithful, At
  <2> QED
    BY <2>5, <2>6
<1>4. CASE work[t].at = "endpoints"
  <2>1. left \in Seq(Range(document.endpoints)) /\ document \in Documents
    BY <1>1, <1>2, <1>4 DEF Ordered, At, ApplyPlaces
  <2>3. Tail(left) \in Seq(Range(document.endpoints))
    BY <1>1, <2>1, Remaining
  <2>4. ASSUME answers, work[t].alone
        PROVE  /\ ServesLines(table', document, DOMAIN document.lines)
               /\ ServesEndpoints(table', document, Provisioned(document) \ Range(Tail(left)))
    <3>1. /\ ServesLines(table, document, DOMAIN document.lines)
          /\ ServesEndpoints(table, document, Provisioned(document) \ Range(left))
      BY <1>1, <1>4, <2>4 DEF Faithful, At
    <3>2. CASE Head(left) \in document.wired
      <4>1. UNCHANGED table
        BY <1>4, <3>2 DEF Takes
      <4>2. \A e \in Range(left) : e = Head(left) \/ e \in Range(Tail(left))
        BY <1>1, <2>1, Remaining
      <4>3. Provisioned(document) \ Range(Tail(left)) \subseteq Provisioned(document) \ Range(left)
        BY <3>2, <4>2 DEF Provisioned
      <4> QED
        BY <3>1, <4>1, <4>3 DEF ServesLines, ServesEndpoints
    <3>3. CASE Head(left) \notin document.wired
      <4>1. Put(Head(left), [way \in Directions |-> Allocated(document)[Head(left)]])
        BY <1>4, <3>3 DEF Takes
      <4> QED
        BY <1>1, <2>1, <2>4, <3>1, <3>3, <4>1, EndpointPut
    <3> QED
      BY <3>2, <3>3
  <2>5. Ordered(t)'
    BY <1>1, <1>4, <2>3 DEF Ordered, At
  <2>6. Faithful(t)'
    BY <1>1, <1>4, <2>4 DEF Faithful, At
  <2> QED
    BY <2>5, <2>6
<1>5. CASE work[t].at = "line"
  BY <1>1, <1>5 DEF Ordered, Faithful, At
<1> QED
  BY <1>3, <1>4, <1>5 DEF Takes

LEMMA FinishServes ==
  ASSUME Placed, ServeInv, NEW t \in Threads, Finishes(t)
  PROVE  ServesUnlessRemoved'
<1> DEFINE document == work[t].document
<1>1. UNCHANGED around /\ (answers <=> answers')
  BY SameAnswers DEF Finishes, storeVars
<1>2. SUFFICES ASSUME answers, work[t].alone, Gone(t) = {}
               PROVE  \A way \in Directions :
                        /\ \A l \in DOMAIN document.lines : table'[way][document.lines[l][way]] = l
                        /\ \A e \in Provisioned(document) : table'[way][Allocated(document)[e]] = e
  <2>1. applied' = IF work[t].alone
                   THEN [document |-> document, removed |-> Gone(t) # {}]
                   ELSE None
    BY DEF Finishes
  <2> HIDE DEF document
  <2> QED
    BY <1>1, <2>1 DEF ServesUnlessRemoved, Serves
<1>3. UNCHANGED table /\ Range(work[t].left) = {} /\ At(t, "endpoints")
  BY <1>2 DEF Finishes, Range, At
<1>4. /\ ServesLines(table, document, DOMAIN document.lines)
      /\ ServesEndpoints(table, document, Provisioned(document) \ Range(work[t].left))
  BY <1>2, <1>3 DEF ServeInv, Faithful
<1> QED
  BY <1>3, <1>4 DEF ServesLines, ServesEndpoints

LEMMA ServeNext ==
  ASSUME Placed, ServeInv, [Next]_vars
  PROVE  ServeInv'
<1>1. ASSUME NEW t \in Threads, ThreadStep(t)
      PROVE  ServeInv'
  <2>1. Frame(t) /\ UNCHANGED around
    BY <1>1 DEF ThreadStep, Opens, Reloads, Saves, Assigns, Passes, Loads, GoesThrough, Takes,
       Finishes, Confers, storeVars
  <2>2. \A o \in Threads \ {t} : Ordered(o)' /\ Faithful(o)'
    BY <2>1, OthersFaithful
  <2>3. Ordered(t)' /\ Faithful(t)'
    <3>1. CASE GoesThrough(t) \/ Takes(t)
      BY <3>1, GoesFaithful, TakesFaithful
    <3>2. CASE ~(GoesThrough(t) \/ Takes(t))
      <4>1. work'[t].at \notin {"lines", "endpoints"}
        BY <1>1, <3>2 DEF ThreadStep, Opens, Reloads, Saves, Assigns, Passes, Loads, Finishes, Confers, LegPlaces
      <4> QED
        BY <4>1 DEF Ordered, Faithful, At
    <3> QED
      BY <3>1, <3>2
  <2>4. ServesUnlessRemoved'
    <3>1. CASE Finishes(t)
      BY <3>1, FinishServes
    <3>2. CASE ~Finishes(t)
      <4>1. applied' = None \/ UNCHANGED <<table, applied>>
        BY <1>1, <3>2 DEF ThreadStep, Opens, Reloads, Saves, Assigns, Passes, Loads, GoesThrough, Takes,
           Confers, LegPlaces
      <4> QED
        BY <2>1, <4>1, SameAnswers DEF ServeInv, ServesUnlessRemoved, Serves
    <3> QED
      BY <3>1, <3>2
  <2> QED
    BY <2>2, <2>3, <2>4 DEF ServeInv
<1>2. CASE Crash
  <2>1. applied' = None /\ \A t \in Threads : work'[t].at = "idle"
    BY <1>2 DEF Crash, Resting
  <2> QED
    BY <2>1 DEF ServeInv, ServesUnlessRemoved, Ordered, Faithful, At
<1>3. CASE Boot
  <2>1. /\ UNCHANGED <<table, applied, around>>
        /\ \A t \in Threads : work'[t].at \in {"idle", "apply"}
    BY <1>3, WorksTyped DEF Boot, Placed, Resting, Works, storeVars
  <2> QED
    BY <2>1, SameAnswers DEF ServeInv, ServesUnlessRemoved, Serves, Ordered, Faithful, At
<1>4. ASSUME NEW document \in Documents, EditByHand(document)
      PROVE  ServeInv'
  <2>1. /\ UNCHANGED <<table, applied, around>>
        /\ \A t \in Threads : work'[t].at = "idle"
    BY <1>4 DEF EditByHand, HandWrite, Placed, Resting
  <2> QED
    BY <2>1, SameAnswers DEF ServeInv, ServesUnlessRemoved, Serves, Ordered, Faithful, At
<1>5. CASE UNCHANGED vars
  <2>1. UNCHANGED <<table, applied, around, config, work>> /\ (answers <=> answers')
    BY <1>5, SameAnswers DEF vars, storeVars
  <2>2. ServesUnlessRemoved'
    BY <2>1 DEF ServeInv, ServesUnlessRemoved, Serves
  <2>3. \A t \in Threads : Ordered(t)' /\ Faithful(t)'
    BY <2>1 DEF ServeInv, Ordered, Faithful, At
  <2> QED
    BY <2>2, <2>3 DEF ServeInv
<1> QED
  BY <1>1, <1>2, <1>3, <1>4, <1>5, Steps

(* However many threads apply, restart and crash: after an apply that the  *)
(* daemon answered, that nobody got in the way of and that removed no      *)
(* endpoint, every stream of its document is under its id, whatever the    *)
(* daemon had there before (apply_configuration and what it calls).        *)
THEOREM StreamsAsConfigured == Spec => []ServesUnlessRemoved
<1>1. ServeInv => ServesUnlessRemoved
  BY DEF ServeInv
<1>2. Init => ServeInv
  <2> SUFFICES ASSUME Init PROVE ServeInv
    OBVIOUS
  <2>1. applied = None /\ \A t \in Threads : work[t].at = "idle"
    BY DEF Init, Resting
  <2> QED
    BY <2>1 DEF ServeInv, ServesUnlessRemoved, Ordered, Faithful, At
<1>3. Placed /\ ServeInv /\ [Next]_vars => ServeInv'
  BY ServeNext
<1> QED
  BY <1>1, <1>2, <1>3, AlwaysPlaced, PTL DEF Spec

-----------------------------------------------------------------------------
(* What validates stays valid, with one worker                             *)

(* What is being saved validates, or is no worse than what it replaces.    *)
Sound(t) ==
  work[t].at \in {"open", "write", "rename"} =>
    Accepted(work[t].document) \/ work[t].document.leg = content[path].leg

SoundInv == up /\ writable /\ healthy => \A t \in Workers : Sound(t)

ValidStep ==
  up /\ writable /\ healthy /\ content[path] \in Documents /\ Accepted(content[path])
    => content'[path'] \in Documents /\ Accepted(content'[path'])

(* Until it renames, a save leaves the file in force as it is.             *)
LEMMA SaveBeside ==
  ASSUME OneWorker, Placed, FileInv, writable, healthy, NEW t \in Threads, Saves(t)
  PROVE  /\ t \in Workers /\ Workers = {t}
         /\ \/ content'[path'] = content[path] /\ work[t].at # "rename"
               /\ work'[t].document = work[t].document
            \/ /\ work[t].at = "rename" /\ work'[t].at = "saved"
               /\ content'[path'] = work[t].document /\ work[t].document \in Documents
<1>1. t \in Workers /\ Workers = {t}
  BY OneSaves DEF Saves, MainPlaces, LegPlaces, OneWorker
<1>2. /\ None \notin Inodes /\ path \in Inodes /\ temp \in Inodes \cup {None}
      /\ content \in [Inodes -> Documents \cup {Partial}] /\ temp # path
      /\ Beside(t) /\ (work[t].at = "rename" => work[t].document \in Documents)
  BY StoreAssumption DEF Placed, TypeOK, StoreTypeOK, FileInv, PlacedIn, SavePlaces
<1>3. CASE work[t].at = "open"
  BY <1>1, <1>2, <1>3 DEF Saves
<1>4. CASE work[t].at = "write"
  <2>1. work[t].inode = temp /\ temp \in Inodes
    BY <1>2, <1>4 DEF Beside
  <2>2. /\ UNCHANGED path /\ work'[t].document = work[t].document
        /\ \E c \in Written(t) : content' = [content EXCEPT ![temp] = c]
    BY <1>4, <2>1 DEF Saves
  <2> QED
    BY <1>1, <1>2, <1>4, <2>1, <2>2
<1>5. CASE work[t].at = "rename"
  <2>1. temp \in Inodes /\ content[temp] = work[t].document
    BY <1>2, <1>5 DEF Beside
  <2>2. /\ work'[t].at = "saved" /\ path' = temp
        /\ content' = [content EXCEPT ![path] = Partial]
    BY <1>2, <1>5, <2>1 DEF Saves
  <2> QED
    BY <1>1, <1>2, <1>5, <2>1, <2>2
<1> QED
  BY <1>2, <1>3, <1>4, <1>5 DEF Saves, Beside

LEMMA SoundNext ==
  ASSUME OneWorker, Placed, FileInv, TruthInv, SoundInv, [Next]_vars
  PROVE  SoundInv' /\ (ValidStep \/ UNCHANGED vars)
<1>1. ASSUME NEW t \in Threads, Saves(t)
      PROVE  SoundInv' /\ ValidStep
  <2>1. /\ UNCHANGED around /\ (writable <=> writable') /\ (healthy <=> healthy')
        /\ up /\ up'
    BY <1>1 DEF Saves, writable, healthy
  <2>2. SUFFICES ASSUME writable, healthy
                 PROVE  SoundInv' /\ ValidStep
    BY <2>1 DEF SoundInv, ValidStep
  <2>3. /\ t \in Workers /\ Workers = {t} /\ Sound(t)
        /\ \/ content'[path'] = content[path] /\ work[t].at # "rename"
              /\ work'[t].document = work[t].document
           \/ /\ work[t].at = "rename" /\ work'[t].at = "saved"
              /\ content'[path'] = work[t].document /\ work[t].document \in Documents
    BY <1>1, <2>1, <2>2, SaveBeside DEF SoundInv
  <2>4. Sound(t)'
    BY <1>1, <2>3 DEF Sound, Saves
  <2>5. ValidStep
    BY <2>3 DEF ValidStep, Sound, Accepted
  <2> QED
    BY <2>3, <2>4, <2>5 DEF SoundInv
<1>2. ASSUME NEW t \in Threads, ThreadStep(t), ~Saves(t)
      PROVE  SoundInv' /\ ValidStep
  <2>1. /\ Frame(t) /\ up /\ up' /\ UNCHANGED <<content, path, temp, around>>
        /\ (writable <=> writable') /\ (healthy <=> healthy')
    BY <1>2 DEF ThreadStep, Opens, Reloads, Assigns, Passes, Loads, GoesThrough, Takes, Finishes, Confers,
       storeVars, writable, healthy
  <2>2. ASSUME healthy, writable, NEW o \in Workers PROVE Sound(o)'
    <3>1. CASE o # t
      <4>1. Same(work'[o], work[o]) /\ Sound(o)
        BY <2>1, <2>2, <3>1 DEF Frame, Same, Threads, SoundInv
      <4> QED
        BY <2>1, <4>1 DEF Sound, Same
    <3>2. CASE o = t /\ work'[t].at = "open"
      <4>1. Opens(t)
        BY <1>2, <3>2 DEF ThreadStep, Reloads, Assigns, Passes, Loads, GoesThrough, Takes, Finishes, Confers, LegPlaces
      <4>2. config = content[path]
        BY <2>1, <2>2, <3>2, <4>1 DEF TruthInv, Truthful, Opens, SavePlaces
      <4> QED
        BY <2>1, <3>2, <4>1, <4>2 DEF Opens, Sound
    <3>3. CASE o = t /\ work'[t].at # "open"
      <4>1. work'[t].at \notin {"open", "write", "rename"}
        BY <1>2, <3>3 DEF ThreadStep, Opens, Reloads, Assigns, Passes, Loads, GoesThrough, Takes,
           Finishes, Confers, LegPlaces
      <4> QED
        BY <3>3, <4>1 DEF Sound
    <3> QED
      BY <3>1, <3>2, <3>3
  <2> QED
    BY <2>1, <2>2 DEF SoundInv, ValidStep
<1>3. CASE Crash
  <2>1. ~up' /\ content'[path'] = content[path]
    BY <1>3 DEF Crash, StoreCrash, Placed, TypeOK, StoreTypeOK
  <2> QED
    BY <2>1 DEF SoundInv, ValidStep
<1>4. CASE Boot
  <2>1. ~up /\ \A o \in Workers : work'[o].at = "idle"
    BY <1>4, WorksTyped, StoreAssumption DEF Boot, Placed, Resting, Works, Threads
  <2> QED
    BY <2>1 DEF SoundInv, ValidStep, Sound
<1>5. ASSUME NEW document \in Documents, EditByHand(document)
      PROVE  SoundInv' /\ ValidStep
  BY <1>5 DEF EditByHand, SoundInv, ValidStep
<1>6. CASE UNCHANGED vars
  BY <1>6 DEF vars, storeVars, SoundInv, Sound, writable, healthy
<1> QED
  BY <1>1, <1>2, <1>3, <1>4, <1>5, <1>6, Steps

(* With one worker, no step of the running gateway turns a file that       *)
(* validates into one that does not, or cannot be read: neither a request, *)
(* nor a save cut short, nor a crash (update_line, Config::save).          *)
THEOREM ValidFileStays ==
  ASSUME OneWorker PROVE Spec => ValidStays
<1>1. Init => FileInv /\ TruthInv /\ SoundInv
  BY FileInit DEF Init, TruthInv, SoundInv
<1>2. Placed /\ FileInv /\ TruthInv /\ SoundInv /\ [Next]_vars =>
        FileInv' /\ TruthInv' /\ SoundInv' /\ [ValidStep]_vars
  BY FileNext, TruthNext, SoundNext
<1> QED
  BY <1>1, <1>2, AlwaysPlaced, PTL DEF Spec, ValidStays, ValidStep
=============================================================================
