------------------------------- MODULE SpscRing -------------------------------
(***************************************************************************)
(* The lock-free ring between an audio thread and a media thread.          *)
(*                                                                         *)
(* One thread writes and one reads. Each loads the other's index once,     *)
(* copies sample by sample, and stores its own index last. The loads       *)
(* acquire and the stores release, so interleaving the steps is all the    *)
(* hardware can do: an index loaded late and old is one loaded early.      *)
(*                                                                         *)
(* Indexes only grow, and wrap with their type: IndexRange stands for 2^64 *)
(* and is a multiple of the capacity, as 2^64 is of 8192.                  *)
(***************************************************************************)
EXTENDS Naturals, Sequences

CONSTANTS
  Samples,    \* what a sample may be
  Capacity,   \* slots of the buffer
  IndexRange, \* values of an index
  MaxBatch    \* bound: samples asked for in one call

ASSUME RingAssumption ==
  /\ Capacity \in Nat \ {0}
  /\ IndexRange \in Nat
  /\ IndexRange % Capacity = 0
  /\ IndexRange >= 2 * Capacity
  /\ MaxBatch \in Nat \ {0}

VARIABLES
  buffer,      \* buffer_
  write_index, \* write_index_
  read_index,  \* read_index_
  writer,      \* the writing thread, inside write()
  reader,      \* the reading thread, inside read() or discard()
  handed       \* what the last read() gave its caller

vars == <<buffer, write_index, read_index, writer, reader, handed>>

Indexes == 0 .. IndexRange - 1
Slots == 0 .. Capacity - 1
Batches == UNION {[1 .. n -> Samples] : n \in 1 .. MaxBatch}

Least(a, b) == IF a < b THEN a ELSE b
Plus(index, n) == (index + n) % IndexRange
Slot(index, n) == (index + n) % Capacity

(* What a pair of indexes says is in the ring (write - read, unsigned).    *)
Used(write, read) == (write + IndexRange - read) % IndexRange

NotWriting == [at |-> "idle", batch |-> << >>, count |-> 0, done |-> 0]
NotReading == [at |-> "idle", count |-> 0, got |-> << >>]

TypeOK ==
  /\ buffer \in [Slots -> Samples]
  /\ write_index \in Indexes /\ read_index \in Indexes
  /\ Used(write_index, read_index) <= Capacity
  /\ writer.at \in {"idle", "copy"}
  /\ writer.batch \in Batches \cup {<< >>}
  /\ writer.count <= Len(writer.batch) /\ writer.done <= writer.count
  /\ reader.at \in {"idle", "copy", "drop"}
  /\ reader.count <= Used(write_index, read_index)
  /\ Len(reader.got) <= reader.count
  /\ reader.got \in Batches \cup {<< >>} /\ handed \in Batches \cup {<< >>}

Init ==
  /\ \E s \in Samples : buffer = [i \in Slots |-> s]
  /\ write_index = 0 /\ read_index = 0
  /\ writer = NotWriting
  /\ reader = NotReading
  /\ handed = << >>

-----------------------------------------------------------------------------
(* write()                                                                 *)

(* Mistakes the checks must catch: one slot is thought free that is not.   *)
WriteStartOverfull(batch) ==
  /\ writer.at = "idle"
  /\ LET free == Capacity - Used(write_index, read_index) + 1
     IN writer' = [at |-> "copy", batch |-> batch, done |-> 0,
                   count |-> Least(Len(batch), free)]
  /\ UNCHANGED <<buffer, write_index, read_index, reader, handed>>

(* How much fits is settled once, from the read index as it is now.        *)
WriteStart(batch) ==
  /\ writer.at = "idle"
  /\ LET free == Capacity - Used(write_index, read_index)
     IN writer' = [at |-> "copy", batch |-> batch, done |-> 0,
                   count |-> Least(Len(batch), free)]
  /\ UNCHANGED <<buffer, write_index, read_index, reader, handed>>

WriteCopy ==
  /\ writer.at = "copy"
  /\ writer.done < writer.count
  /\ buffer' = [buffer EXCEPT
                  ![Slot(write_index, writer.done)] = writer.batch[writer.done + 1]]
  /\ writer' = [writer EXCEPT !.done = @ + 1]
  /\ UNCHANGED <<write_index, read_index, reader, handed>>

(* A mistake: the index is stored before the last sample is.               *)
WritePublishEarly ==
  /\ writer.at = "copy"
  /\ writer.done + 1 >= writer.count
  /\ write_index' = Plus(write_index, writer.count)
  /\ writer' = NotWriting
  /\ UNCHANGED <<buffer, read_index, reader, handed>>

WritePublish ==
  /\ writer.at = "copy"
  /\ writer.done = writer.count
  /\ write_index' = Plus(write_index, writer.count)
  /\ writer' = NotWriting
  /\ UNCHANGED <<buffer, read_index, reader, handed>>

-----------------------------------------------------------------------------
(* read() and discard()                                                    *)

ReadStart(count) ==
  /\ reader.at = "idle"
  /\ reader' = [at |-> "copy", got |-> << >>,
                count |-> Least(count, Used(write_index, read_index))]
  /\ UNCHANGED <<buffer, write_index, read_index, writer, handed>>

ReadCopy ==
  /\ reader.at = "copy"
  /\ Len(reader.got) < reader.count
  /\ reader' = [reader EXCEPT
                  !.got = Append(@, buffer[Slot(read_index, Len(reader.got))])]
  /\ UNCHANGED <<buffer, write_index, read_index, writer, handed>>

(* A mistake: the slots are given back before the last sample is copied.   *)
ReadPublishEarly ==
  /\ reader.at = "copy"
  /\ IF Len(reader.got) = reader.count
     THEN handed' = reader.got /\ reader' = NotReading /\ UNCHANGED read_index
     ELSE /\ Len(reader.got) = 0
          /\ read_index' = Plus(read_index, reader.count)
          /\ UNCHANGED <<reader, handed>>
  /\ UNCHANGED <<buffer, write_index, writer>>

ReadPublish ==
  /\ reader.at = "copy"
  /\ Len(reader.got) = reader.count
  /\ read_index' = Plus(read_index, reader.count)
  /\ handed' = reader.got
  /\ reader' = NotReading
  /\ UNCHANGED <<buffer, write_index, writer>>

DiscardStart(count) ==
  /\ reader.at = "idle"
  /\ reader' = [at |-> "drop", got |-> << >>,
                count |-> Least(count, Used(write_index, read_index))]
  /\ UNCHANGED <<buffer, write_index, read_index, writer, handed>>

DiscardPublish ==
  /\ reader.at = "drop"
  /\ read_index' = Plus(read_index, reader.count)
  /\ reader' = NotReading
  /\ UNCHANGED <<buffer, write_index, writer, handed>>

-----------------------------------------------------------------------------
Next ==
  \/ \E batch \in Batches : WriteStart(batch)
  \/ WriteCopy
  \/ WritePublish
  \/ \E count \in 1 .. MaxBatch : ReadStart(count)
  \/ ReadCopy
  \/ ReadPublish
  \/ \E count \in 1 .. MaxBatch : DiscardStart(count)
  \/ DiscardPublish

Spec == Init /\ [][Next]_vars

-----------------------------------------------------------------------------
(* Properties                                                              *)

(* A slot being written is never one a reader has still to copy, whatever  *)
(* the two threads loaded of each other (buffer_ itself is not atomic).    *)
NoSlotShared ==
  ~ \E i \in writer.done .. writer.count - 1,
       j \in Len(reader.got) .. reader.count - 1 :
      /\ writer.at = "copy" /\ reader.at = "copy"
      /\ Slot(write_index, i) = Slot(read_index, j)

(* The ring is a queue: its steps implement AudioFifo, where the samples   *)
(* that wait are the slots between the two indexes.                        *)
Waiting ==
  [k \in 1 .. Used(write_index, read_index) |-> buffer[Slot(read_index, k - 1)]]
Fifo == INSTANCE AudioFifo WITH offered <- writer.batch, items <- Waiting
RefinesFifo == Fifo!Spec
=============================================================================
