---------------------------- MODULE SpscRingProofs ----------------------------
(***************************************************************************)
(* The ring, for every capacity, every range of its indexes that is a      *)
(* multiple of it, every set of samples and every batch: no slot is shared *)
(* and the ring is a queue.                                                *)
(***************************************************************************)
EXTENDS SpscRing, Integers, SequenceTheorems, TLAPS

Waits == Used(write_index, read_index)

(* While it copies, the writer has room for all it took on beside what     *)
(* waits, and what it has copied is where it will be published.            *)
WriterInv ==
  \/ writer = NotWriting
  \/ /\ writer \in [at : {"copy"}, batch : Batches, count : Nat, done : Nat]
     /\ writer.done <= writer.count /\ writer.count <= Len(writer.batch)
     /\ Waits + writer.count <= Capacity
     /\ \A k \in 1 .. writer.done :
          buffer[Slot(write_index, k - 1)] = writer.batch[k]

(* The reader takes no more than waits, and what it has copied is still    *)
(* where it read it.                                                       *)
ReaderInv ==
  \/ reader = NotReading
  \/ /\ reader \in [at : {"copy", "drop"}, count : 0 .. MaxBatch, got : Seq(Samples)]
     /\ reader.at = "drop" => reader.got = << >>
     /\ Len(reader.got) <= reader.count /\ reader.count <= Waits
     /\ \A k \in 1 .. Len(reader.got) :
          reader.got[k] = buffer[Slot(read_index, k - 1)]

RingInv ==
  /\ buffer \in [Slots -> Samples]
  /\ write_index \in Indexes /\ read_index \in Indexes
  /\ Waits <= Capacity
  /\ handed \in Batches \cup {<< >>}
  /\ WriterInv
  /\ ReaderInv

-----------------------------------------------------------------------------
(* Remainders                                                              *)

(* Division with remainder, and that there is one quotient for it.        *)
LEMMA DivMod ==
  ASSUME NEW x \in Int, NEW M \in Nat \ {0}
  PROVE  \E q \in Int, r \in 0 .. M - 1 : x = M * q + r /\ x % M = r
OBVIOUS

LEMMA NoMultipleWithin ==
  ASSUME NEW M \in Nat \ {0}, NEW d \in Int, M * d < M, M * d > -M
  PROVE d = 0
<1>1. CASE d >= 1
  <2>1. M * d >= M
    BY <1>1
  <2> QED
    BY <2>1
<1>2. CASE d <= -1
  <2>1. M * d <= -M
    BY <1>2
  <2> QED
    BY <2>1
<1> QED
  BY <1>1, <1>2

LEMMA OneQuotient ==
  ASSUME NEW M \in Nat \ {0}, NEW q \in Int, NEW p \in Int, NEW a \in Int, NEW b \in Int,
         M * q + a = M * p + b, a - b < M, b - a < M
  PROVE  q = p /\ a = b
<1> DEFINE d == q - p
<1>1. d \in Int
  OBVIOUS
<1>2. M * d = b - a
  <2>1. M * q \in Int /\ M * p \in Int /\ M * d = M * q - M * p
    OBVIOUS
  <2> QED
    BY <2>1
<1>3. M * d < M /\ M * d > -M
  BY <1>2
<1> HIDE DEF d
<1>4. d = 0
  BY <1>1, <1>3, NoMultipleWithin
<1> QED
  BY <1>2, <1>4 DEF d

(* Numbers closer than M have different remainders.                        *)
LEMMA Apart ==
  ASSUME NEW M \in Nat \ {0}, NEW x \in Int, NEW y \in Int, x - y < M, y - x < M, x % M = y % M
  PROVE  x = y
<1>1. PICK q \in Int, r \in 0 .. M - 1 : x = M * q + r /\ x % M = r
  BY DivMod, Zenon
<1>2. PICK p \in Int, s \in 0 .. M - 1 : y = M * p + s /\ y % M = s
  BY DivMod, Zenon
<1>3. r = s
  BY <1>1, <1>2
<1>4. M * q + (r - x) = M * p + (s - y)
  BY <1>1, <1>2
<1>5. q = p
  BY <1>1, <1>2, <1>3, <1>4, OneQuotient
<1> QED
  BY <1>1, <1>2, <1>3, <1>5

(* What is added of a multiple does not show in the remainder.             *)
LEMMA Multiple ==
  ASSUME NEW M \in Nat \ {0}, NEW N \in Nat, N % M = 0, NEW x \in Int
  PROVE  (x + N) % M = x % M
<1> DEFINE y == x + N
<1>0. y \in Int /\ N \in Int
  OBVIOUS
<1>1. PICK q \in Int, r \in 0 .. M - 1 : x = M * q + r /\ x % M = r
  BY DivMod, Zenon
<1>2. PICK p \in Int, s \in 0 .. M - 1 : y = M * p + s /\ y % M = s
  BY <1>0, DivMod, Zenon
<1>3. PICK n \in Int, t \in 0 .. M - 1 : N = M * n + t /\ N % M = t
  BY <1>0, DivMod
<1>4. M * (q + n) + r = M * p + s
  <2>1. M * (q + n) = M * q + M * n
    OBVIOUS
  <2>2. M * q \in Int /\ M * n \in Int /\ M * p \in Int
    OBVIOUS
  <2>3. N = M * n
    BY <1>3, <2>2
  <2> QED
    BY <1>1, <1>2, <2>1, <2>2, <2>3
<1>5. r = s
  BY <1>4, OneQuotient
<1> QED
  BY <1>1, <1>2, <1>5

LEMMA SmallMod ==
  ASSUME NEW M \in Nat \ {0}, NEW x \in Nat, x < M
  PROVE  x % M = x
OBVIOUS

LEMMA WrapMod ==
  ASSUME NEW M \in Nat \ {0}, NEW x \in Nat, x >= M, x < 2 * M
  PROVE  x % M = x - M
OBVIOUS

(* Indexes, as the distance between them.                                  *)
LEMMA PlusIs ==
  ASSUME RingAssumption, NEW i \in Indexes, NEW n \in 0 .. IndexRange - 1
  PROVE  Plus(i, n) = IF i + n < IndexRange THEN i + n ELSE i + n - IndexRange
<1>1. IndexRange \in Nat \ {0} /\ i \in Nat /\ n \in Nat /\ i + n < 2 * IndexRange
  BY DEF RingAssumption, Indexes
<1>2. CASE i + n < IndexRange
  BY <1>1, <1>2, SmallMod DEF Plus
<1>3. CASE i + n >= IndexRange
  <2> DEFINE s == i + n
  <2>1. s \in Nat /\ s >= IndexRange /\ s < 2 * IndexRange /\ Plus(i, n) = s % IndexRange
    BY <1>1, <1>3 DEF Plus
  <2>2. s % IndexRange = s - IndexRange
    <3> HIDE DEF s
    <3> QED
      BY <1>1, <2>1, WrapMod
  <2> QED
    BY <1>1, <1>3, <2>1, <2>2
<1> QED
  BY <1>1, <1>2, <1>3

LEMMA UsedIs ==
  ASSUME RingAssumption, NEW w \in Indexes, NEW r \in Indexes
  PROVE  Used(w, r) = IF w >= r THEN w - r ELSE w - r + IndexRange
<1>1. IndexRange \in Nat \ {0} /\ w \in Nat /\ r \in Nat /\ w < IndexRange /\ r < IndexRange
  BY DEF RingAssumption, Indexes
<1> DEFINE d == w + IndexRange - r
<1>4. d \in Nat /\ d < 2 * IndexRange /\ Used(w, r) = d % IndexRange
  BY <1>1 DEF Used
<1>2. CASE w >= r
  <2>1. d >= IndexRange /\ d - IndexRange = w - r
    BY <1>1, <1>2
  <2> HIDE DEF d
  <2>2. d % IndexRange = d - IndexRange
    BY <1>1, <1>4, <2>1, WrapMod
  <2> QED
    BY <1>2, <1>4, <2>1, <2>2
<1>3. CASE w < r
  <2>1. d < IndexRange /\ d = w - r + IndexRange /\ ~(w >= r)
    BY <1>1, <1>3
  <2> HIDE DEF d
  <2>2. d % IndexRange = d
    BY <1>1, <1>4, <2>1, SmallMod
  <2> QED
    BY <1>3, <1>4, <2>1, <2>2
<1> QED
  BY <1>1, <1>2, <1>3

(* Indexes wrap where slots do: IndexRange is a multiple of the capacity.  *)
LEMMA SlotPlus ==
  ASSUME RingAssumption, NEW i \in Indexes, NEW n \in 0 .. Capacity, NEW k \in Nat
  PROVE  Slot(Plus(i, n), k) = Slot(i, n + k)
<1>0. /\ IndexRange \in Nat \ {0} /\ i \in Nat /\ n \in Nat /\ n <= IndexRange - 1
      /\ Capacity \in Nat \ {0}
  BY DEF RingAssumption, Indexes
<1>2. CASE i + n < IndexRange
  <2>1. Plus(i, n) = i + n
    BY <1>0, <1>2, PlusIs
  <2>2. i + n + k = i + (n + k)
    BY <1>0
  <2> QED
    BY <2>1, <2>2 DEF Slot
<1>3. CASE i + n >= IndexRange
  <2>1. Plus(i, n) + k = i + n - IndexRange + k
    BY <1>0, <1>3, PlusIs
  <2> DEFINE x == Plus(i, n) + k
  <2>2. x \in Int /\ x + IndexRange = i + (n + k)
    BY <1>0, <2>1
  <2>3. (x + IndexRange) % Capacity = x % Capacity
    <3> HIDE DEF x
    <3> QED
      BY <1>0, <2>2, Multiple DEF RingAssumption
  <2> QED
    BY <2>2, <2>3 DEF Slot
<1> QED
  BY <1>0, <1>2, <1>3

(* Within a capacity of each other, positions have slots of their own.     *)
LEMMA SlotsApart ==
  ASSUME RingAssumption, NEW i \in Indexes, NEW a \in Nat, NEW b \in Nat, a - b < Capacity, b - a < Capacity,
         Slot(i, a) = Slot(i, b)
  PROVE  a = b
<1>1. Capacity \in Nat \ {0} /\ i \in Nat
  BY DEF RingAssumption, Indexes
<1>2. i + a = i + b
  <2>1. i + a \in Int /\ i + b \in Int /\ (i + a) - (i + b) < Capacity /\ (i + b) - (i + a) < Capacity
    BY <1>1
  <2> QED
    BY <2>1, <1>1, Apart DEF Slot
<1> QED
  BY <1>1, <1>2

LEMMA Distance ==
  ASSUME RingAssumption, NEW w \in Indexes, NEW r \in Indexes
  PROVE  /\ Used(w, r) \in 0 .. IndexRange - 1
         /\ Plus(r, Used(w, r)) = w
<1>1. IndexRange \in Nat /\ w \in 0 .. IndexRange - 1 /\ r \in 0 .. IndexRange - 1
  BY DEF RingAssumption, Indexes
<1>2. Used(w, r) \in 0 .. IndexRange - 1
  BY <1>1, UsedIs
<1>3. Plus(r, Used(w, r)) = IF r + Used(w, r) < IndexRange THEN r + Used(w, r)
                            ELSE r + Used(w, r) - IndexRange
  BY <1>2, PlusIs
<1> QED
  BY <1>1, <1>2, <1>3, UsedIs

(* What publishing a batch and giving slots back does to the distance.     *)
LEMMA Grows ==
  ASSUME RingAssumption, NEW w \in Indexes, NEW r \in Indexes,
         NEW n \in Nat, Used(w, r) + n <= Capacity
  PROVE  Plus(w, n) \in Indexes /\ Used(Plus(w, n), r) = Used(w, r) + n
<1>1. /\ IndexRange \in Nat /\ Capacity \in Nat \ {0} /\ 2 * Capacity <= IndexRange
      /\ w \in 0 .. IndexRange - 1 /\ r \in 0 .. IndexRange - 1
  BY DEF RingAssumption, Indexes
<1>2. Used(w, r) \in Nat
  BY Distance
<1>3. n \in 0 .. IndexRange - 1
  BY <1>1, <1>2
<1>4. Plus(w, n) = IF w + n < IndexRange THEN w + n ELSE w + n - IndexRange
  BY <1>3, PlusIs
<1>5. Plus(w, n) \in Indexes
  BY <1>1, <1>3, <1>4 DEF Indexes
<1>6. Used(Plus(w, n), r) = IF Plus(w, n) >= r THEN Plus(w, n) - r
                            ELSE Plus(w, n) - r + IndexRange
  BY <1>5, UsedIs
<1>7. Used(w, r) = IF w >= r THEN w - r ELSE w - r + IndexRange
  BY UsedIs
<1> QED
  BY <1>1, <1>3, <1>4, <1>5, <1>6, <1>7

LEMMA Shrinks ==
  ASSUME RingAssumption, NEW w \in Indexes, NEW r \in Indexes, NEW n \in 0 .. Used(w, r)
  PROVE  Plus(r, n) \in Indexes /\ Used(w, Plus(r, n)) = Used(w, r) - n
<1>1. /\ IndexRange \in Nat
      /\ w \in 0 .. IndexRange - 1 /\ r \in 0 .. IndexRange - 1
  BY DEF RingAssumption, Indexes
<1>2. Used(w, r) \in 0 .. IndexRange - 1
  BY Distance
<1>3. n \in 0 .. IndexRange - 1
  BY <1>1, <1>2
<1>4. Plus(r, n) = IF r + n < IndexRange THEN r + n ELSE r + n - IndexRange
  BY <1>3, PlusIs
<1>5. Plus(r, n) \in Indexes
  BY <1>1, <1>3, <1>4 DEF Indexes
<1>6. Used(w, Plus(r, n)) = IF w >= Plus(r, n) THEN w - Plus(r, n)
                            ELSE w - Plus(r, n) + IndexRange
  BY <1>5, UsedIs
<1>7. Used(w, r) = IF w >= r THEN w - r ELSE w - r + IndexRange
  BY UsedIs
<1> QED
  BY <1>1, <1>3, <1>4, <1>5, <1>6, <1>7

(* The slots from the write index on are those behind all that waits.      *)
LEMMA SlotsBehind ==
  ASSUME RingAssumption, NEW w \in Indexes, NEW r \in Indexes,
         Used(w, r) <= Capacity, NEW k \in Nat
  PROVE  Slot(w, k) = Slot(r, Used(w, r) + k)
<1>1. Used(w, r) \in 0 .. Capacity
  BY Distance DEF RingAssumption
<1>2. Slot(Plus(r, Used(w, r)), k) = Slot(r, Used(w, r) + k)
  BY <1>1, SlotPlus
<1> QED
  BY <1>2, Distance

LEMMA SlotIsSlot ==
  ASSUME RingAssumption, NEW i \in Indexes, NEW k \in Nat
  PROVE  Slot(i, k) \in Slots
<1>1. Capacity \in Nat \ {0} /\ i + k \in Int
  BY DEF RingAssumption, Indexes
<1> QED
  BY <1>1 DEF Slot, Slots

LEMMA BatchIsSeq ==
  ASSUME NEW batch \in Batches
  PROVE  batch \in Seq(Samples) /\ Len(batch) \in 1 .. MaxBatch /\ batch # << >>
BY DEF Batches

LEMMA SeqIsBatch ==
  ASSUME RingAssumption, NEW s \in Seq(Samples), Len(s) <= MaxBatch
  PROVE  s \in Batches \cup {<< >>}
<1>1. Len(s) \in Nat /\ s \in [1 .. Len(s) -> Samples]
  BY LenProperties
<1>2. CASE Len(s) = 0
  BY <1>2
<1>3. CASE Len(s) > 0
  <2>1. Len(s) \in 1 .. MaxBatch
    BY <1>1, <1>3 DEF RingAssumption
  <2>2. \E n \in 1 .. MaxBatch : s \in [1 .. n -> Samples]
    BY <1>1, <2>1, Zenon
  <2> QED
    BY <2>2, Zenon DEF Batches
<1> QED
  BY <1>1, <1>2, <1>3

-----------------------------------------------------------------------------
(* The invariant                                                           *)

LEMMA RingInit == ASSUME RingAssumption, Init PROVE RingInv
<1>1. Capacity \in Nat \ {0} /\ IndexRange \in Nat \ {0} /\ 0 \in Indexes
  BY DEF RingAssumption, Indexes
<1>2. Waits = 0
  BY <1>1, UsedIs DEF Init, Waits
<1>3. buffer \in [Slots -> Samples]
  BY DEF Init
<1> QED
  BY <1>1, <1>2, <1>3 DEF Init, RingInv, WriterInv, ReaderInv

(* The slot the writer fills is none of those that wait, and none that it  *)
(* has filled.                                                             *)
LEMMA FillsFree ==
  ASSUME RingAssumption, RingInv, writer.at = "copy", NEW n \in Nat, n < writer.count
  PROVE  /\ \A k \in 1 .. Waits : Slot(read_index, k - 1) # Slot(write_index, n)
         /\ \A k \in 1 .. n : Slot(write_index, k - 1) # Slot(write_index, n)
<1>1. /\ Capacity \in Nat /\ Waits \in Nat /\ Waits <= Capacity
      /\ write_index \in Indexes /\ read_index \in Indexes
  BY Distance DEF RingInv, RingAssumption, Waits
<1>2. writer.count \in Nat /\ Waits + writer.count <= Capacity
  BY DEF RingInv, WriterInv, NotWriting
<1>3. Slot(write_index, n) = Slot(read_index, Waits + n)
  BY <1>1, SlotsBehind DEF Waits
<1>4. ASSUME NEW k \in 1 .. Waits PROVE Slot(read_index, k - 1) # Slot(write_index, n)
  <2>1. /\ k - 1 \in Nat /\ Waits + n \in Nat /\ k - 1 # Waits + n
        /\ (k - 1) - (Waits + n) < Capacity /\ (Waits + n) - (k - 1) < Capacity
    BY <1>1, <1>2
  <2> QED
    BY <1>1, <1>3, <2>1, SlotsApart
<1>5. ASSUME NEW k \in 1 .. n PROVE Slot(write_index, k - 1) # Slot(write_index, n)
  <2>1. /\ k - 1 \in Nat /\ k - 1 # n
        /\ (k - 1) - n < Capacity /\ n - (k - 1) < Capacity
    BY <1>1, <1>2
  <2> QED
    BY <1>1, <2>1, SlotsApart
<1> QED
  BY <1>4, <1>5

LEMMA WriteKeeps ==
  ASSUME RingAssumption, RingInv,
         (\E batch \in Batches : WriteStart(batch)) \/ WriteCopy \/ WritePublish
  PROVE  RingInv'
<1>1. /\ Capacity \in Nat /\ Waits \in Nat /\ Waits <= Capacity
      /\ write_index \in Indexes /\ read_index \in Indexes
  BY Distance DEF RingInv, RingAssumption, Waits
<1>2. ASSUME NEW batch \in Batches, WriteStart(batch) PROVE RingInv'
  <2>1. UNCHANGED <<buffer, write_index, read_index, reader, handed, Waits>>
    BY <1>2 DEF WriteStart, Waits
  <2>2. writer' = [at |-> "copy", batch |-> batch, done |-> 0,
                   count |-> Least(Len(batch), Capacity - Waits)]
    BY <1>2 DEF WriteStart, Waits
  <2>3. Len(batch) \in Nat
    BY BatchIsSeq
  <2>4. /\ Least(Len(batch), Capacity - Waits) \in Nat
        /\ Least(Len(batch), Capacity - Waits) <= Len(batch)
        /\ Waits + Least(Len(batch), Capacity - Waits) <= Capacity
    BY <1>1, <2>3 DEF Least
  <2>5. WriterInv'
    BY <2>1, <2>2, <2>4 DEF WriterInv
  <2>6. ReaderInv'
    BY <2>1 DEF RingInv, ReaderInv
  <2> QED
    BY <2>1, <2>5, <2>6 DEF RingInv
<1>3. ASSUME WriteCopy PROVE RingInv'
  <2>1. /\ writer \in [at : {"copy"}, batch : Batches, count : Nat, done : Nat]
        /\ writer.done < writer.count /\ writer.count <= Len(writer.batch)
        /\ Waits + writer.count <= Capacity
        /\ \A k \in 1 .. writer.done :
             buffer[Slot(write_index, k - 1)] = writer.batch[k]
    BY <1>3 DEF WriteCopy, RingInv, WriterInv, NotWriting
  <2> DEFINE slot == Slot(write_index, writer.done)
             sample == writer.batch[writer.done + 1]
  <2>2. UNCHANGED <<write_index, read_index, reader, handed, Waits>>
    BY <1>3 DEF WriteCopy, Waits
  <2>3. /\ buffer' = [buffer EXCEPT ![slot] = sample]
        /\ writer' = [writer EXCEPT !.done = @ + 1]
    BY <1>3 DEF WriteCopy
  <2>4. slot \in Slots /\ buffer \in [Slots -> Samples]
    BY <1>1, <2>1, SlotIsSlot DEF RingInv
  <2>5. sample \in Samples
    <3>1. writer.batch \in Seq(Samples) /\ writer.done + 1 \in 1 .. Len(writer.batch)
      BY <2>1, BatchIsSeq
    <3> QED
      BY <3>1
  <2>6. buffer' \in [Slots -> Samples]
    BY <2>3, <2>4, <2>5
  <2>7. WriterInv'
    <3>1. /\ writer' \in [at : {"copy"}, batch : Batches, count : Nat, done : Nat]
          /\ writer'.done = writer.done + 1 /\ writer'.count = writer.count
          /\ writer'.batch = writer.batch
      <4>1. writer \in [at : {"copy"}, batch : Batches, count : Nat, done : Nat]
        BY <2>1
      <4>2. writer' = [writer EXCEPT !.done = @ + 1]
        BY <2>3
      <4> QED
        BY <4>1, <4>2
    <3>2. ASSUME NEW k \in 1 .. writer'.done
          PROVE  buffer'[Slot(write_index, k - 1)] = writer.batch[k]
      <4>1. CASE k = writer.done + 1
        BY <2>1, <2>3, <2>4, <4>1
      <4>2. CASE k \in 1 .. writer.done
        <5>1. Slot(write_index, k - 1) # slot
          BY <2>1, <4>2, FillsFree
        <5>2. Slot(write_index, k - 1) \in Slots
          BY <1>1, <4>2, SlotIsSlot
        <5> QED
          BY <2>1, <2>3, <2>4, <4>2, <5>1, <5>2
      <4> QED
        BY <2>1, <3>1, <4>1, <4>2
    <3>3. writer'.done <= writer'.count
      BY <2>1, <3>1
    <3>4. Waits' + writer'.count <= Capacity /\ writer'.count <= Len(writer'.batch)
      BY <2>1, <2>2, <3>1
    <3>5. \A k \in 1 .. writer'.done :
            buffer'[Slot(write_index', k - 1)] = writer'.batch[k]
      BY <2>2, <3>1, <3>2
    <3> QED
      BY <3>1, <3>3, <3>4, <3>5 DEF WriterInv
  <2>8. ReaderInv'
    <3>1. CASE reader = NotReading
      BY <2>2, <3>1 DEF ReaderInv
    <3>2. CASE reader # NotReading
      <4>1. /\ reader \in [at : {"copy", "drop"}, count : 0 .. MaxBatch, got : Seq(Samples)]
            /\ Len(reader.got) <= reader.count /\ reader.count <= Waits
            /\ reader.at = "drop" => reader.got = << >>
            /\ \A k \in 1 .. Len(reader.got) :
                 reader.got[k] = buffer[Slot(read_index, k - 1)]
        BY <3>2 DEF RingInv, ReaderInv
      <4>2. ASSUME NEW k \in 1 .. Len(reader.got)
            PROVE  buffer'[Slot(read_index, k - 1)] = buffer[Slot(read_index, k - 1)]
        <5>1. k \in 1 .. Waits
          BY <1>1, <4>1 DEF RingAssumption
        <5>2. Slot(read_index, k - 1) # slot /\ Slot(read_index, k - 1) \in Slots
          BY <1>1, <2>1, <5>1, FillsFree, SlotIsSlot
        <5> QED
          BY <2>3, <2>4, <5>2
      <4> QED
        BY <2>2, <4>1, <4>2 DEF ReaderInv
    <3> QED
      BY <3>1, <3>2
  <2> QED
    BY <2>2, <2>6, <2>7, <2>8 DEF RingInv
<1>4. ASSUME WritePublish PROVE RingInv'
  <2>1. writer.count \in Nat /\ Waits + writer.count <= Capacity
    BY <1>4 DEF WritePublish, RingInv, WriterInv, NotWriting
  <2>2. /\ UNCHANGED <<buffer, read_index, reader, handed>>
        /\ write_index' = Plus(write_index, writer.count) /\ writer' = NotWriting
    BY <1>4 DEF WritePublish
  <2>3. write_index' \in Indexes /\ Waits' = Waits + writer.count
    BY <1>1, <2>1, <2>2, Grows DEF Waits
  <2>4. ReaderInv'
    <3>1. ASSUME reader.count \in 0 .. MaxBatch, reader.count <= Waits
          PROVE  reader.count <= Waits'
      BY <1>1, <2>1, <2>3, <3>1 DEF RingAssumption
    <3> QED
      BY <2>2, <3>1 DEF RingInv, ReaderInv
  <2> QED
    BY <1>1, <2>1, <2>2, <2>3, <2>4 DEF RingInv, WriterInv
<1> QED
  BY <1>2, <1>3, <1>4

LEMMA ReadKeeps ==
  ASSUME RingAssumption, RingInv,
         \/ \E count \in 1 .. MaxBatch : ReadStart(count) \/ DiscardStart(count)
         \/ ReadCopy \/ ReadPublish \/ DiscardPublish
  PROVE  RingInv'
<1>1. /\ Capacity \in Nat /\ Waits \in Nat /\ Waits <= Capacity /\ MaxBatch \in Nat
      /\ write_index \in Indexes /\ read_index \in Indexes
  BY Distance DEF RingInv, RingAssumption, Waits
<1>2. ASSUME NEW count \in 1 .. MaxBatch, ReadStart(count) \/ DiscardStart(count)
      PROVE  RingInv'
  <2>1. UNCHANGED <<buffer, write_index, read_index, writer, handed, Waits>>
    BY <1>2 DEF ReadStart, DiscardStart, Waits
  <2>2. PICK at \in {"copy", "drop"} :
          reader' = [at |-> at, got |-> << >>, count |-> Least(count, Waits)]
    BY <1>2 DEF ReadStart, DiscardStart, Waits
  <2>3. Least(count, Waits) \in 0 .. MaxBatch /\ Least(count, Waits) <= Waits
    BY <1>1 DEF Least
  <2>4. ReaderInv'
    <3>1. << >> \in Seq(Samples) /\ Len(<< >>) = 0
      BY EmptySeq
    <3>2. /\ reader' \in [at : {"copy", "drop"}, count : 0 .. MaxBatch, got : Seq(Samples)]
          /\ reader'.got = << >> /\ reader'.count <= Waits
      BY <2>2, <2>3, <3>1
    <3> QED
      BY <2>1, <2>3, <3>1, <3>2 DEF ReaderInv
  <2> QED
    BY <2>1, <2>4 DEF RingInv, WriterInv
<1>3. ASSUME ReadCopy PROVE RingInv'
  <2>1. /\ reader \in [at : {"copy", "drop"}, count : 0 .. MaxBatch, got : Seq(Samples)]
        /\ Len(reader.got) < reader.count /\ reader.count <= Waits
        /\ reader.at = "copy"
        /\ \A k \in 1 .. Len(reader.got) :
             reader.got[k] = buffer[Slot(read_index, k - 1)]
    BY <1>3 DEF ReadCopy, RingInv, ReaderInv, NotReading
  <2>2. UNCHANGED <<buffer, write_index, read_index, writer, handed, Waits>>
    BY <1>3 DEF ReadCopy, Waits
  <2> DEFINE got == reader.got
             sample == buffer[Slot(read_index, Len(got))]
  <2>3. reader' = [reader EXCEPT !.got = Append(got, sample)]
    BY <1>3 DEF ReadCopy
  <2>4. sample \in Samples
    <3>1. got \in Seq(Samples) /\ Len(got) \in Nat
      BY <2>1
    <3> QED
      BY <1>1, <3>1, SlotIsSlot DEF RingInv
  <2>5. /\ reader'.at = "copy" /\ reader'.count = reader.count
        /\ reader'.got = Append(got, sample)
        /\ reader' \in [at : {"copy", "drop"}, count : 0 .. MaxBatch, got : Seq(Samples)]
    <3>1. Append(got, sample) \in Seq(Samples)
      BY <2>1, <2>4, AppendProperties
    <3> HIDE DEF got, sample
    <3> QED
      BY <2>1, <2>3, <3>1
  <2>6. Len(reader'.got) = Len(got) + 1
    BY <2>1, <2>4, <2>5, AppendProperties
  <2>7. Len(reader'.got) <= reader'.count
    BY <2>1, <2>5, <2>6
  <2>8. ASSUME NEW k \in 1 .. Len(reader'.got)
        PROVE  reader'.got[k] = buffer[Slot(read_index, k - 1)]
    <3>1. got \in Seq(Samples) /\ Len(got) \in Nat
      BY <2>1
    <3>2. CASE k = Len(got) + 1
      <4>1. reader'.got[k] = sample /\ k - 1 = Len(got)
        BY <2>4, <2>5, <3>1, <3>2, AppendProperties
      <4> QED
        BY <4>1
    <3>3. CASE k \in 1 .. Len(got)
      BY <2>1, <2>4, <2>5, <3>1, <3>3, AppendProperties
    <3> QED
      BY <2>6, <3>1, <3>2, <3>3
  <2>9. ReaderInv'
    BY <2>1, <2>2, <2>5, <2>7, <2>8 DEF ReaderInv
  <2> QED
    BY <2>2, <2>9 DEF RingInv, WriterInv
<1>4. ASSUME ReadPublish \/ DiscardPublish PROVE RingInv'
  <2>1. /\ reader \in [at : {"copy", "drop"}, count : 0 .. MaxBatch, got : Seq(Samples)]
        /\ Len(reader.got) <= reader.count /\ reader.count <= Waits
    BY <1>4 DEF ReadPublish, DiscardPublish, RingInv, ReaderInv, NotReading
  <2>2. /\ UNCHANGED <<buffer, write_index, writer>>
        /\ read_index' = Plus(read_index, reader.count) /\ reader' = NotReading
        /\ handed' = handed \/ handed' = reader.got
    BY <1>4 DEF ReadPublish, DiscardPublish
  <2>3. reader.count \in 0 .. Waits
    BY <1>1, <2>1
  <2>4. read_index' \in Indexes /\ Waits' = Waits - reader.count
    BY <1>1, <2>2, <2>3, Shrinks DEF Waits
  <2>5. handed' \in Batches \cup {<< >>}
    <3>1. reader.got \in Seq(Samples) /\ Len(reader.got) \in Nat /\ Len(reader.got) <= MaxBatch
      BY <1>1, <2>1
    <3>2. reader.got \in Batches \cup {<< >>}
      BY <3>1, SeqIsBatch
    <3> QED
      BY <2>2, <3>2 DEF RingInv
  <2>6. WriterInv'
    <3>1. ASSUME writer.count \in Nat, Waits + writer.count <= Capacity
          PROVE  Waits' + writer.count <= Capacity
      BY <1>1, <2>3, <2>4, <3>1
    <3> QED
      BY <2>2, <3>1 DEF RingInv, WriterInv
  <2> QED
    BY <1>1, <2>2, <2>3, <2>4, <2>5, <2>6 DEF RingInv, ReaderInv
<1> QED
  BY <1>2, <1>3, <1>4

LEMMA RingStep == ASSUME RingAssumption, RingInv, [Next]_vars PROVE RingInv'
<1>1. CASE UNCHANGED vars
  BY <1>1 DEF vars, RingInv, WriterInv, ReaderInv, Waits
<1> QED
  BY <1>1, WriteKeeps, ReadKeeps DEF Next

LEMMA RingSafe == Spec => []RingInv
BY RingAssumption, RingInit, RingStep, PTL DEF Spec

(* The types, and how much either thread may still do to the other's view. *)
THEOREM RingTypes == Spec => []TypeOK
<1>1. RingInv => TypeOK
  <2> SUFFICES ASSUME RingInv PROVE TypeOK
    OBVIOUS
  <2>1. /\ write_index \in Indexes /\ read_index \in Indexes /\ Waits <= Capacity
        /\ buffer \in [Slots -> Samples] /\ handed \in Batches \cup {<< >>}
    BY DEF RingInv
  <2>2. /\ writer.at \in {"idle", "copy"} /\ writer.batch \in Batches \cup {<< >>}
        /\ writer.count <= Len(writer.batch) /\ writer.done <= writer.count
    BY EmptySeq DEF RingInv, WriterInv, NotWriting
  <2>3. /\ reader.at \in {"idle", "copy", "drop"} /\ reader.count <= Waits
        /\ Len(reader.got) <= reader.count
        /\ reader.got \in Batches \cup {<< >>}
    <3>1. CASE reader = NotReading
      <4>1. Waits \in Nat
        BY <2>1, Distance, RingAssumption DEF Waits
      <4> QED
        BY <3>1, <4>1, EmptySeq DEF NotReading
    <3>2. CASE reader # NotReading
      <4>1. /\ reader \in [at : {"copy", "drop"}, count : 0 .. MaxBatch, got : Seq(Samples)]
            /\ Len(reader.got) <= reader.count /\ reader.count <= Waits
        BY <3>2 DEF RingInv, ReaderInv
      <4>2. reader.got \in Seq(Samples) /\ Len(reader.got) \in Nat /\ Len(reader.got) <= MaxBatch
        BY <4>1, RingAssumption DEF RingAssumption
      <4> QED
        BY <4>1, <4>2, SeqIsBatch, RingAssumption
    <3> QED
      BY <3>1, <3>2
  <2> QED
    BY <2>1, <2>2, <2>3 DEF TypeOK, Waits
<1> QED
  BY <1>1, RingSafe, PTL

(* The writer never fills a slot the reader has still to copy, whatever    *)
(* the two loaded of each other's index and wherever those have wrapped    *)
(* (buffer_ is not atomic, only the indexes are).                          *)
THEOREM SlotsNotShared == Spec => []NoSlotShared
<1>1. RingInv => NoSlotShared
  <2> SUFFICES ASSUME RingInv,
                      NEW i \in writer.done .. writer.count - 1,
                      NEW j \in Len(reader.got) .. reader.count - 1,
                      writer.at = "copy", reader.at = "copy",
                      Slot(write_index, i) = Slot(read_index, j)
               PROVE  FALSE
    BY DEF NoSlotShared
  <2>1. Waits \in Nat
    BY Distance, RingAssumption DEF RingInv, Waits
  <2>2. /\ writer.done \in Nat /\ writer.count \in Nat
    BY DEF RingInv, WriterInv, NotWriting
  <2>3. i \in Nat /\ i < writer.count
    BY <2>2
  <2>4. reader.got \in Seq(Samples) /\ reader.count \in Nat /\ reader.count <= Waits
    BY RingAssumption DEF RingAssumption, RingInv, ReaderInv, NotReading
  <2>5. Len(reader.got) \in Nat
    BY <2>4
  <2>6. j + 1 \in 1 .. Waits /\ j = (j + 1) - 1
    BY <2>1, <2>4, <2>5
  <2> QED
    BY <2>3, <2>6, FillsFree, RingAssumption
<1> QED
  BY <1>1, RingSafe, PTL

-----------------------------------------------------------------------------
(* The ring is a queue                                                     *)

(* What a pair of indexes says waits, in the buffer as it is.              *)
Between(b, w, r) == [k \in 1 .. Used(w, r) |-> b[Slot(r, k - 1)]]

LEMMA BetweenIs ==
  ASSUME RingAssumption, NEW b \in [Slots -> Samples],
         NEW w \in Indexes, NEW r \in Indexes
  PROVE  /\ Between(b, w, r) \in Seq(Samples)
         /\ Len(Between(b, w, r)) = Used(w, r)
         /\ \A k \in 1 .. Used(w, r) : Between(b, w, r)[k] = b[Slot(r, k - 1)]
<1>1. Used(w, r) \in Nat
  BY Distance
<1>2. \A k \in 1 .. Used(w, r) : b[Slot(r, k - 1)] \in Samples
  <2> SUFFICES ASSUME NEW k \in 1 .. Used(w, r) PROVE Slot(r, k - 1) \in Slots
    OBVIOUS
  <2>1. k - 1 \in Nat
    BY <1>1
  <2> QED
    BY <2>1, SlotIsSlot
<1> QED
  BY <1>1, <1>2 DEF Between

(* A sample that is put in no slot that waits changes nothing.             *)
LEMMA BetweenStays ==
  ASSUME RingAssumption, RingInv, WriteCopy
  PROVE  Between(buffer', write_index, read_index) = Between(buffer, write_index, read_index)
<1>1. /\ writer.at = "copy" /\ writer.done \in Nat /\ writer.done < writer.count
  BY DEF WriteCopy, RingInv, WriterInv, NotWriting
<1>2. /\ buffer \in [Slots -> Samples] /\ write_index \in Indexes /\ read_index \in Indexes
      /\ Waits \in Nat
  BY Distance DEF RingInv, Waits
<1>3. ASSUME NEW k \in 1 .. Waits
      PROVE  buffer'[Slot(read_index, k - 1)] = buffer[Slot(read_index, k - 1)]
  <2>1. Slot(read_index, k - 1) # Slot(write_index, writer.done)
    BY <1>1, FillsFree
  <2>2. Slot(read_index, k - 1) \in Slots
    BY <1>2, SlotIsSlot
  <2> QED
    BY <1>2, <2>1, <2>2 DEF WriteCopy
<1> QED
  BY <1>3 DEF Between, Waits

(* What is published joins the end of what waits.                          *)
LEMMA BetweenGrows ==
  ASSUME RingAssumption, RingInv, WritePublish
  PROVE  /\ Between(buffer, write_index', read_index)
              = Between(buffer, write_index, read_index) \o SubSeq(writer.batch, 1, writer.count)
         /\ writer.count \in 0 .. Len(writer.batch)
         /\ Waits + writer.count <= Capacity
<1> DEFINE old == Between(buffer, write_index, read_index)
           new == Between(buffer, write_index', read_index)
           more == SubSeq(writer.batch, 1, writer.count)
<1>1. /\ writer \in [at : {"copy"}, batch : Batches, count : Nat, done : Nat]
      /\ writer.done = writer.count /\ writer.count <= Len(writer.batch)
      /\ Waits + writer.count <= Capacity
      /\ \A k \in 1 .. writer.done : buffer[Slot(write_index, k - 1)] = writer.batch[k]
  BY DEF WritePublish, RingInv, WriterInv, NotWriting
<1>2. /\ buffer \in [Slots -> Samples] /\ write_index \in Indexes /\ read_index \in Indexes
      /\ Waits \in Nat /\ Waits <= Capacity
  BY Distance DEF RingInv, Waits
<1>3. writer.batch \in Seq(Samples) /\ writer.count \in 0 .. Len(writer.batch)
  BY <1>1, BatchIsSeq
<1>4. write_index' \in Indexes /\ Used(write_index', read_index) = Waits + writer.count
  BY <1>1, <1>2, Grows DEF WritePublish, Waits
<1>5. /\ old \in Seq(Samples) /\ Len(old) = Waits
      /\ \A k \in 1 .. Waits : old[k] = buffer[Slot(read_index, k - 1)]
  BY <1>2, BetweenIs DEF Waits
<1>6. /\ new \in Seq(Samples) /\ Len(new) = Waits + writer.count
      /\ \A k \in 1 .. Waits + writer.count : new[k] = buffer[Slot(read_index, k - 1)]
  <2>0. ASSUME NEW w \in Indexes
        PROVE  /\ Between(buffer, w, read_index) \in Seq(Samples)
               /\ Len(Between(buffer, w, read_index)) = Used(w, read_index)
               /\ \A k \in 1 .. Used(w, read_index) :
                    Between(buffer, w, read_index)[k] = buffer[Slot(read_index, k - 1)]
    BY <1>2, RingAssumption, BetweenIs
  <2>1. /\ new \in Seq(Samples) /\ Len(new) = Used(write_index', read_index)
        /\ \A k \in 1 .. Used(write_index', read_index) :
             new[k] = buffer[Slot(read_index, k - 1)]
    BY <1>4, <2>0, Zenon
  <2> HIDE DEF new
  <2> QED
    BY <1>4, <2>1
<1>7. /\ more \in Seq(Samples) /\ Len(more) = writer.count
      /\ \A k \in 1 .. writer.count : more[k] = writer.batch[k]
  <2>1. \A k \in 1 .. writer.count : writer.batch[k] \in Samples
    BY <1>3
  <2> QED
    BY <1>3, <2>1, SubSeqProperties
<1> HIDE DEF old, new, more
<1>8. /\ old \o more \in Seq(Samples) /\ Len(old \o more) = Waits + writer.count
      /\ \A k \in 1 .. Waits + writer.count :
           (old \o more)[k] = IF k <= Waits THEN old[k] ELSE more[k - Waits]
  <2>1. /\ old \o more \in Seq(Samples) /\ Len(old \o more) = Len(old) + Len(more)
        /\ \A k \in 1 .. Len(old) + Len(more) :
             (old \o more)[k] = IF k <= Len(old) THEN old[k] ELSE more[k - Len(old)]
    <3>1. old \in Seq(Samples) /\ more \in Seq(Samples)
      BY <1>5, <1>7
    <3> QED
      BY <3>1, ConcatProperties
  <2> QED
    BY <1>5, <1>7, <2>1, Zenon
<1>0. Waits \in Nat /\ writer.count \in Nat
  BY <1>1, <1>2
<1>9. ASSUME NEW k \in 1 .. Waits + writer.count PROVE new[k] = (old \o more)[k]
  <2>1. CASE k <= Waits
    <3>1. k \in 1 .. Waits
      BY <1>0, <2>1
    <3> QED
      BY <1>5, <1>6, <1>8, <2>1, <3>1
  <2>2. CASE k > Waits
    <3>1. k - Waits \in 1 .. writer.count /\ k - Waits - 1 \in Nat
          /\ Waits + (k - Waits - 1) = k - 1
      BY <1>2, <1>3, <2>2
    <3>2. Slot(write_index, k - Waits - 1) = Slot(read_index, k - 1)
      BY <1>2, <3>1, SlotsBehind DEF Waits
    <3>3. more[k - Waits] = buffer[Slot(write_index, k - Waits - 1)]
      BY <1>1, <1>7, <3>1
    <3>4. (old \o more)[k] = more[k - Waits]
      BY <1>2, <1>8, <2>2
    <3> QED
      BY <1>6, <3>2, <3>3, <3>4
  <2>3. k <= Waits \/ k > Waits
    BY <1>0
  <2> QED
    BY <2>1, <2>2, <2>3, Zenon
<1>10. new = old \o more
  BY <1>6, <1>8, <1>9, SeqEqual
<1> QED
  BY <1>1, <1>3, <1>10 DEF old, new, more

(* What is given back was the front of what waits; the rest is unmoved.    *)
LEMMA BetweenShrinks ==
  ASSUME RingAssumption, RingInv, ReadPublish \/ DiscardPublish
  PROVE  /\ Between(buffer, write_index, read_index')
              = SubSeq(Between(buffer, write_index, read_index), reader.count + 1, Waits)
         /\ reader.count \in 0 .. Waits
         /\ ReadPublish =>
              reader.got = SubSeq(Between(buffer, write_index, read_index), 1, reader.count)
<1> DEFINE old == Between(buffer, write_index, read_index)
           new == Between(buffer, write_index, read_index')
<1>1. /\ reader \in [at : {"copy", "drop"}, count : 0 .. MaxBatch, got : Seq(Samples)]
      /\ Len(reader.got) <= reader.count /\ reader.count <= Waits
      /\ \A k \in 1 .. Len(reader.got) :
           reader.got[k] = buffer[Slot(read_index, k - 1)]
  BY DEF ReadPublish, DiscardPublish, RingInv, ReaderInv, NotReading
<1>2. /\ buffer \in [Slots -> Samples] /\ write_index \in Indexes /\ read_index \in Indexes
      /\ Waits \in Nat /\ Waits <= Capacity /\ Capacity \in Nat /\ MaxBatch \in Nat
  BY Distance, RingAssumption DEF RingInv, Waits, RingAssumption
<1>3. reader.count \in 0 .. Waits
  BY <1>1, <1>2
<1>4. /\ read_index' = Plus(read_index, reader.count) /\ read_index' \in Indexes
      /\ Used(write_index, read_index') = Waits - reader.count
  BY <1>2, <1>3, Shrinks, RingAssumption DEF ReadPublish, DiscardPublish, Waits
<1>5. /\ old \in Seq(Samples) /\ Len(old) = Waits
      /\ \A k \in 1 .. Waits : old[k] = buffer[Slot(read_index, k - 1)]
  BY <1>2, RingAssumption, BetweenIs DEF Waits
<1>6. /\ new \in Seq(Samples) /\ Len(new) = Waits - reader.count
      /\ \A k \in 1 .. Waits - reader.count : new[k] = buffer[Slot(read_index', k - 1)]
  <2>1. ASSUME NEW r \in Indexes
        PROVE  /\ Between(buffer, write_index, r) \in Seq(Samples)
               /\ Len(Between(buffer, write_index, r)) = Used(write_index, r)
               /\ \A k \in 1 .. Used(write_index, r) :
                    Between(buffer, write_index, r)[k] = buffer[Slot(r, k - 1)]
    BY <1>2, RingAssumption, BetweenIs
  <2>2. /\ new \in Seq(Samples) /\ Len(new) = Used(write_index, read_index')
        /\ \A k \in 1 .. Used(write_index, read_index') :
             new[k] = buffer[Slot(read_index', k - 1)]
    BY <1>4, <2>1, Zenon
  <2> HIDE DEF new
  <2> QED
    BY <1>4, <2>2
<1> HIDE DEF old, new
<1> DEFINE rest == SubSeq(old, reader.count + 1, Waits)
           front == SubSeq(old, 1, reader.count)
<1>0. reader.count \in Nat /\ \A k \in 1 .. Waits : old[k] \in Samples
  BY <1>3, <1>5
<1>7. /\ rest \in Seq(Samples) /\ Len(rest) = Waits - reader.count
      /\ \A k \in 1 .. Waits - reader.count : rest[k] = old[reader.count + k]
  <2>1. \A k \in reader.count + 1 .. Waits : old[k] \in Samples
    BY <1>0, <1>2
  <2>2. /\ rest \in Seq(Samples)
        /\ Len(rest) = IF reader.count + 1 <= Waits THEN Waits - (reader.count + 1) + 1 ELSE 0
        /\ \A k \in 1 .. Waits - (reader.count + 1) + 1 :
             rest[k] = old[reader.count + 1 + k - 1]
    BY <1>0, <1>2, <2>1, SubSeqProperties
  <2> HIDE DEF rest
  <2>3. Len(rest) = Waits - reader.count
    BY <1>0, <1>2, <1>3, <2>2
  <2>4. ASSUME NEW k \in 1 .. Waits - reader.count PROVE rest[k] = old[reader.count + k]
    <3>1. /\ k \in 1 .. Waits - (reader.count + 1) + 1
          /\ reader.count + 1 + k - 1 = reader.count + k
      BY <1>0, <1>2
    <3> QED
      BY <2>2, <3>1
  <2> QED
    BY <2>2, <2>3, <2>4
<1>8. /\ front \in Seq(Samples) /\ Len(front) = reader.count
      /\ \A k \in 1 .. reader.count : front[k] = old[k]
  <2>1. \A k \in 1 .. reader.count : old[k] \in Samples
    BY <1>0, <1>2, <1>3
  <2> QED
    BY <1>0, <1>2, <1>3, <2>1, SubSeqProperties
<1> HIDE DEF rest, front
<1>9. new = rest
  <2>1. ASSUME NEW k \in 1 .. Waits - reader.count PROVE new[k] = rest[k]
    <3>1. k - 1 \in Nat /\ reader.count + k \in 1 .. Waits
          /\ reader.count + (k - 1) = (reader.count + k) - 1 /\ reader.count \in 0 .. Capacity
      BY <1>0, <1>2, <1>3
    <3>2. Slot(read_index', k - 1) = Slot(read_index, reader.count + (k - 1))
      BY <1>2, <1>4, <3>1, SlotPlus, RingAssumption
    <3>3. new[k] = buffer[Slot(read_index', k - 1)] /\ rest[k] = old[reader.count + k]
      BY <1>6, <1>7
    <3>4. old[reader.count + k] = buffer[Slot(read_index, (reader.count + k) - 1)]
      BY <1>5, <3>1
    <3> QED
      BY <3>1, <3>2, <3>3, <3>4
  <2> QED
    BY <1>6, <1>7, <2>1, SeqEqual
<1>10. ReadPublish => reader.got = front
  <2> SUFFICES ASSUME ReadPublish PROVE reader.got = front
    OBVIOUS
  <2>1. Len(reader.got) = reader.count /\ reader.got \in Seq(Samples)
    BY <1>1 DEF ReadPublish
  <2>2. ASSUME NEW k \in 1 .. reader.count PROVE reader.got[k] = front[k]
    <3>1. k \in 1 .. Waits
      BY <1>0, <1>2, <1>3
    <3> QED
      BY <1>1, <1>5, <1>8, <2>1, <3>1
  <2> QED
    BY <1>8, <2>1, <2>2, SeqEqual
<1> QED
  BY <1>3, <1>9, <1>10 DEF old, new, rest, front

(* Each step of the ring is one of the queue, or none of its business: the *)
(* copies and the loads are not seen, the stores of the indexes put and    *)
(* take.                                                                   *)
LEMMA FifoStep ==
  ASSUME RingAssumption, RingInv, [Next]_vars
  PROVE  [Fifo!Next]_<<writer.batch, Waiting, handed>>
<1>1. /\ Waiting = Between(buffer, write_index, read_index)
      /\ Waiting' = Between(buffer', write_index', read_index')
  BY DEF Waiting, Between
<1>2. Waiting \in Seq(Samples) /\ Len(Waiting) = Waits
  BY <1>1, BetweenIs, RingAssumption DEF RingInv, Waits
<1>3. ASSUME NEW batch \in Batches, WriteStart(batch) PROVE Fifo!Offer
  <2>1. writer = NotWriting
    BY <1>3 DEF WriteStart, RingInv, WriterInv
  <2>2. writer'.batch = batch /\ UNCHANGED <<Waiting, handed>>
    BY <1>1, <1>3 DEF WriteStart
  <2> QED
    BY <2>1, <2>2 DEF Fifo!Offer, NotWriting
<1>4. ASSUME WriteCopy PROVE UNCHANGED <<writer.batch, Waiting, handed>>
  <2>1. writer'.batch = writer.batch /\ handed' = handed
    BY <1>4 DEF WriteCopy, RingInv, WriterInv, NotWriting
  <2>2. Waiting' = Waiting
    BY <1>1, <1>4, BetweenStays DEF WriteCopy
  <2> QED
    BY <2>1, <2>2
<1>5. ASSUME WritePublish PROVE Fifo!Put
  <2>1. /\ Waiting' = Waiting \o SubSeq(writer.batch, 1, writer.count)
        /\ writer.count \in 0 .. Len(writer.batch)
        /\ Len(Waiting) + writer.count <= Capacity
    BY <1>1, <1>2, <1>5, BetweenGrows DEF WritePublish
  <2>2. writer'.batch = << >> /\ UNCHANGED handed
    BY <1>5 DEF WritePublish, NotWriting
  <2> QED
    BY <2>1, <2>2 DEF Fifo!Put
<1>6. ASSUME NEW count \in 1 .. MaxBatch, ReadStart(count) \/ DiscardStart(count)
      PROVE  UNCHANGED <<writer.batch, Waiting, handed>>
  BY <1>1, <1>6 DEF ReadStart, DiscardStart
<1>7. ASSUME ReadCopy PROVE UNCHANGED <<writer.batch, Waiting, handed>>
  BY <1>1, <1>7 DEF ReadCopy
<1>8. ASSUME ReadPublish PROVE Fifo!Take
  <2>1. /\ Waiting' = SubSeq(Waiting, reader.count + 1, Len(Waiting))
        /\ reader.count \in 0 .. Len(Waiting)
        /\ reader.got = SubSeq(Waiting, 1, reader.count)
    BY <1>1, <1>2, <1>8, BetweenShrinks DEF ReadPublish
  <2>2. UNCHANGED writer.batch /\ handed' = reader.got
    BY <1>8 DEF ReadPublish
  <2> QED
    BY <2>1, <2>2 DEF Fifo!Take
<1>9. ASSUME DiscardPublish
      PROVE  Fifo!Drop \/ UNCHANGED <<writer.batch, Waiting, handed>>
  <2>1. /\ Waiting' = SubSeq(Waiting, reader.count + 1, Len(Waiting))
        /\ reader.count \in 0 .. Len(Waiting)
    BY <1>1, <1>2, <1>9, BetweenShrinks DEF DiscardPublish
  <2>2. UNCHANGED <<writer.batch, handed>>
    BY <1>9 DEF DiscardPublish
  <2>3. CASE reader.count = 0
    <3>1. Waiting' = SubSeq(Waiting, 1, Len(Waiting))
      BY <2>1, <2>3
    <3>2. SubSeq(Waiting, 1, Len(Waiting)) = Waiting
      BY <1>2, SubSeqFull
    <3> QED
      BY <2>2, <3>1, <3>2
  <2>4. CASE reader.count # 0
    <3>1. reader.count \in 1 .. Len(Waiting)
      BY <2>1, <2>4
    <3> QED
      BY <2>1, <2>2, <3>1 DEF Fifo!Drop
  <2> QED
    BY <2>3, <2>4
<1>10. CASE UNCHANGED vars
  BY <1>1, <1>10 DEF vars
<1> QED
  BY <1>3, <1>4, <1>5, <1>6, <1>7, <1>8, <1>9, <1>10 DEF Next, Fifo!Next

(* Whatever the two threads interleave, samples leave the ring in the      *)
(* order they were offered, each at most once, and no more than fit wait.  *)
THEOREM RingIsQueue == Spec => RefinesFifo
<1>1. Init => Fifo!Init
  <2> SUFFICES ASSUME Init PROVE Fifo!Init
    OBVIOUS
  <2>1. Used(write_index, read_index) = 0
    BY RingInit, RingAssumption, UsedIs DEF Init, Indexes, RingAssumption
  <2>2. Waiting = << >>
    BY <2>1 DEF Waiting
  <2> QED
    BY <2>2 DEF Init, Fifo!Init, NotWriting
<1>2. RingInv /\ [Next]_vars => [Fifo!Next]_<<writer.batch, Waiting, handed>>
  BY FifoStep, RingAssumption
<1> QED
  BY <1>1, <1>2, RingSafe, PTL DEF Spec, RefinesFifo, Fifo!Spec
=============================================================================
