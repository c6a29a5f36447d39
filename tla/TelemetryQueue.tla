--------------------------- MODULE TelemetryQueue ---------------------------
(***************************************************************************)
(* What the store-and-forward queue on the SD card promises to its users,  *)
(* without files, offsets, mutexes or compaction.                          *)
(*                                                                         *)
(* A record is in one of two places.  `queue` holds the records no one has *)
(* popped since they were put back in line, oldest first.  `popped` holds  *)
(* the records handed out but still in the file: the code only advances a  *)
(* RAM offset over them, and removes them when the queue is compacted.     *)
(* Records leave the system through Discard alone, that is, after a pop; a *)
(* loss of the offset (a reset, an unreadable file) may serve a popped     *)
(* record again, at the front and in order, but never drops one.           *)
(*                                                                         *)
(* SdStorage implements QueueSpec on a card that has room, where rename()  *)
(* works and no reset falls in front of it; anything else may add a Cut,   *)
(* which is not a step of QueueNext.  StoreForward and Node run on this    *)
(* queue's operations.                                                     *)
(***************************************************************************)
EXTENDS Naturals, Sequences

CONSTANT Record                 \* the telemetry records (JSON lines)

VARIABLES
  queue,                        \* unread records, oldest first
  popped                        \* handed out, not yet discarded

queueVars == <<queue, popped>>

QueueTypeOK ==
  /\ queue \in Seq(Record)
  /\ popped \in Seq(Record)

QueueInit ==
  /\ queue = <<>>
  /\ popped = <<>>

\* sd_queue_telemetry_record() that stored its record.
Put(r) ==
  /\ queue' = Append(queue, r)
  /\ UNCHANGED popped

\* sd_pop_telemetry_record() that returned a record (it returns Head(queue)).
Get ==
  /\ queue # <<>>
  /\ queue' = Tail(queue)
  /\ popped' = Append(popped, Head(queue))

\* sd_flush_queue() that compacted the file.
Discard ==
  /\ popped' = <<>>
  /\ UNCHANGED queue

\* The read offset was lost: the file is read again from its first line.
Rewind ==
  /\ queue' = popped \o queue
  /\ popped' = <<>>

\* Not the queue's promise, but what compaction may do to it: only the front of
\* the unread records is left, or nothing.
Cut ==
  /\ popped' = <<>>
  /\ \E n \in 0 .. Len(queue) : queue' = SubSeq(queue, 1, n)

QueueNext ==
  \/ \E r \in Record : Put(r)
  \/ Get
  \/ Discard
  \/ Rewind

QueueSpec == QueueInit /\ [][QueueNext]_queueVars
=============================================================================
