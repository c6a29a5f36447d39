----------------------------- MODULE SdStorage -----------------------------
(***************************************************************************)
(* drivers/sd_storage.c: the telemetry queue and the audio session on the  *)
(* SD card, shared by the audio task, the telemetry task, the              *)
(* store-and-forward burst and the power FSM.                              *)
(*                                                                         *)
(* The files survive a reset; everything static in sd_storage.c does not.  *)
(* Every public call is a request, an xSemaphoreTake that succeeds or times *)
(* out after 10 ms, and a body that runs under the mutex.  The bodies of   *)
(* append, pop and audio write are one step each (nobody else can see the  *)
(* statics or the files meanwhile).  Compaction is three: copy the unread  *)
(* lines to queue.tmp, remove queue.jsonl, rename queue.tmp; the node can  *)
(* be reset between any two of them.                                       *)
(*                                                                         *)
(* Abstractions: a record is one line, and a file is the sequence of its   *)
(* lines, so that the byte offset is a number of lines; a missing file is  *)
(* an empty one (fopen "r" on it makes pop and compaction behave as on an  *)
(* empty file); audio data is not kept, only whether a session is open.    *)
(***************************************************************************)
EXTENDS Naturals, Sequences

CONSTANTS
  Task,            \* the tasks that call the driver
  Record,          \* the records they queue
  NoTask,          \* "the mutex is free"
  NoRecord,        \* "no record in hand"
  MaxRecords,      \* bound of the model: no append on a longer queue file
  Faults,          \* which calls into FATFS may fail (see Fault)
  ResetInSwap      \* may a reset fall between remove() and rename()?

\* What can go wrong below the driver: queue.jsonl cannot be opened ("open"),
\* queue.tmp cannot be created ("tmp"), remove() fails ("remove"), rename()
\* fails ("rename"), the card has no free cluster left ("full").
Fault == {"open", "tmp", "remove", "rename", "full"}

\* The card has room, rename() works, and the reset spares the window before it.
CleanCard == {"full", "rename"} \cap Faults = {} /\ ~ResetInSwap

ASSUME NoTaskAssumption == NoTask \notin Task
ASSUME NoRecordAssumption == NoRecord \notin Record
ASSUME BoundAssumption == MaxRecords \in Nat
ASSUME FaultsAssumption == Faults \subseteq Fault /\ ResetInSwap \in BOOLEAN

VARIABLES
  queueFile,       \* lines of /sdcard/queue.jsonl
  tmpFile,         \* lines of /sdcard/queue.tmp
  mounted,         \* s_mounted && s_card
  readOffset,      \* s_read_offset, in lines
  audioOpen,       \* s_audio_fp # NULL
  mutex,           \* holder of s_mutex, or NoTask
  swap,            \* how far compact_queue() is
  op,              \* the call each task is in
  arg              \* the record an append was given

files == <<queueFile, tmpFile>>
statics == <<mounted, readOffset, audioOpen>>
calls == <<op, arg>>
sdVars == <<files, statics, mutex, swap, calls>>

Op == {"append", "pop", "audio", "flush"}

\* The lines pop has not reached, and the ones it has passed.  After remove()
\* the unread lines are in queue.tmp alone.
Unread ==
  IF swap = "removed" THEN tmpFile
  ELSE SubSeq(queueFile, readOffset + 1, Len(queueFile))
Passed ==
  IF swap = "removed" THEN <<>> ELSE SubSeq(queueFile, 1, readOffset)

SdTypeOK ==
  /\ queueFile \in Seq(Record)
  /\ tmpFile \in Seq(Record)
  /\ mounted \in BOOLEAN
  /\ readOffset \in Nat
  /\ audioOpen \in BOOLEAN
  /\ mutex \in Task \cup {NoTask}
  /\ swap \in {"idle", "copied", "removed"}
  /\ op \in [Task -> Op \cup {"none"}]
  /\ arg \in [Task -> Record \cup {NoRecord}]

\* Cold boot on an empty card; sd_storage_init() may find no card.
SdInit ==
  /\ queueFile = <<>> /\ tmpFile = <<>>
  /\ mounted \in BOOLEAN /\ readOffset = 0 /\ audioOpen = FALSE
  /\ mutex = NoTask /\ swap = "idle"
  /\ op = [t \in Task |-> "none"]
  /\ arg = [t \in Task |-> NoRecord]

-----------------------------------------------------------------------------
(* Entering and leaving the driver. *)

\* A task calls the driver; without a card the call returns at once, and
\* changes nothing.
Call(t, o, r) ==
  /\ mounted
  /\ op[t] = "none"
  /\ op' = [op EXCEPT ![t] = o]
  /\ arg' = [arg EXCEPT ![t] = r]
  /\ UNCHANGED <<files, statics, mutex, swap>>

CallAppend(t, r) == Len(queueFile) < MaxRecords /\ Call(t, "append", r)
CallOther(t, o) == Call(t, o, NoRecord)

Take(t) ==
  /\ op[t] # "none"
  /\ mutex = NoTask
  /\ mutex' = t
  /\ UNCHANGED <<files, statics, swap, calls>>

\* The call returns.
Leave(t) ==
  /\ op' = [op EXCEPT ![t] = "none"]
  /\ arg' = [arg EXCEPT ![t] = NoRecord]

TakeTimeout(t) ==
  /\ op[t] # "none"
  /\ mutex \notin {NoTask, t}
  /\ Leave(t)
  /\ UNCHANGED <<files, statics, mutex, swap>>

\* xSemaphoreGive and return.
Return(t) ==
  /\ mutex' = NoTask
  /\ Leave(t)

Holds(t, o) == mutex = t /\ op[t] = o

-----------------------------------------------------------------------------
(* sd_write_audio_chunk() *)

WriteAudio(t) ==
  /\ Holds(t, "audio")
  /\ \/ audioOpen' = TRUE                \* a short write opens it as well
     \/ "open" \in Faults /\ UNCHANGED audioOpen
  /\ Return(t)
  /\ UNCHANGED <<files, mounted, readOffset, swap>>

-----------------------------------------------------------------------------
(* sd_queue_telemetry_record() *)

Stored(t, lines) ==
  /\ Holds(t, "append")
  /\ queueFile' = lines
  /\ Return(t)
  /\ UNCHANGED <<tmpFile, statics, swap>>

\* Bugs: the argument is cleared before it is written; the file is opened with
\* "w".
MutAppendCleared(t) == Stored(t, Append(queueFile, NoRecord))
MutAppendStored(t) == Stored(t, <<arg[t]>>)

AppendStored(t) == Stored(t, Append(queueFile, arg[t]))

\* fopen fails, or fprintf meets a full card.  When the line still fits stdio's
\* buffer only fclose would notice, and the caller is told ESP_OK.
AppendFailed(t) ==
  /\ Holds(t, "append")
  /\ {"open", "full"} \cap Faults # {}
  /\ Return(t)
  /\ UNCHANGED <<files, statics, swap>>

-----------------------------------------------------------------------------
(* sd_pop_telemetry_record() *)

\* The line at the offset is returned; StoreForward has what becomes of it.
PopFound(t) ==
  /\ Holds(t, "pop")
  /\ readOffset < Len(queueFile)
  /\ readOffset' = readOffset + 1
  /\ Return(t)
  /\ UNCHANGED <<files, mounted, audioOpen, swap>>

\* Bug: an early return on an empty queue that forgets xSemaphoreGive.
MutPopMissed(t) ==
  /\ Holds(t, "pop")
  /\ readOffset >= Len(queueFile)
  /\ Leave(t)
  /\ UNCHANGED <<files, statics, mutex, swap>>

PopMissed(t) ==
  /\ Holds(t, "pop")
  /\ readOffset >= Len(queueFile) \/ "open" \in Faults
  /\ Return(t)
  /\ UNCHANGED <<files, statics, swap>>

-----------------------------------------------------------------------------
(* sd_flush_queue(): compact_queue(), then the audio session is closed. *)

FlushReturn(t) == audioOpen' = FALSE /\ Return(t)

\* compact_queue() returns without touching the files: nothing was popped,
\* queue.jsonl cannot be opened (the offset is dropped), or queue.tmp cannot
\* be created.
CompactNothing(t) ==
  /\ Holds(t, "flush")
  /\ swap = "idle"
  /\ \/ (readOffset = 0 \/ "tmp" \in Faults) /\ UNCHANGED readOffset
     \/ "open" \in Faults /\ readOffset' = 0
  /\ FlushReturn(t)
  /\ UNCHANGED <<files, mounted, swap>>

\* Bug: the copy starts one line after the read offset.
MutCompactCopy(t) ==
  /\ Holds(t, "flush")
  /\ swap = "idle" /\ readOffset # 0
  /\ tmpFile' = SubSeq(queueFile, readOffset + 2, Len(queueFile))
  /\ swap' = "copied"
  /\ UNCHANGED <<queueFile, statics, mutex, calls>>

\* The lines after the offset go to queue.tmp.  Neither fputs, fflush nor
\* fclose is checked: on a full card only a prefix arrives.
CompactCopy(t) ==
  /\ Holds(t, "flush")
  /\ swap = "idle" /\ readOffset # 0
  /\ \E last \in readOffset .. Len(queueFile) :
       /\ last = Len(queueFile) \/ "full" \in Faults
       /\ tmpFile' = SubSeq(queueFile, readOffset + 1, last)
  /\ swap' = "copied"
  /\ UNCHANGED <<queueFile, statics, mutex, calls>>

CompactRemove(t) ==
  /\ Holds(t, "flush")
  /\ swap = "copied"
  /\ queueFile' = <<>>
  /\ swap' = "removed"
  /\ UNCHANGED <<tmpFile, statics, mutex, calls>>

\* remove() fails, and rename() with it because its target exists: neither
\* result is looked at, and the offset is reset all the same.
CompactRemoveFails(t) ==
  /\ Holds(t, "flush")
  /\ swap = "copied" /\ "remove" \in Faults
  /\ swap' = "idle"
  /\ readOffset' = 0
  /\ FlushReturn(t)
  /\ UNCHANGED <<files, mounted>>

CompactRename(t) ==
  /\ Holds(t, "flush")
  /\ swap = "removed"
  /\ queueFile' = tmpFile
  /\ tmpFile' = <<>>
  /\ swap' = "idle"
  /\ readOffset' = 0
  /\ FlushReturn(t)
  /\ UNCHANGED mounted

\* rename() fails after remove(): its result is not looked at either, and the
\* offset is reset.  There is no queue.jsonl; the unread lines stay behind in
\* queue.tmp, which the next compaction truncates.
CompactRenameFails(t) ==
  /\ Holds(t, "flush")
  /\ swap = "removed" /\ "rename" \in Faults
  /\ swap' = "idle"
  /\ readOffset' = 0
  /\ FlushReturn(t)
  /\ UNCHANGED <<files, mounted>>

-----------------------------------------------------------------------------
\* Deep sleep, a brown-out or a watchdog reset, and the next boot: statics and
\* tasks start anew, the files are what the card holds.
Reset ==
  /\ swap = "removed" => ResetInSwap
  /\ mounted' \in BOOLEAN /\ readOffset' = 0 /\ audioOpen' = FALSE
  /\ mutex' = NoTask /\ swap' = "idle"
  /\ op' = [t \in Task |-> "none"]
  /\ arg' = [t \in Task |-> NoRecord]
  /\ UNCHANGED files

\* The rest of a call once it is made.
Proceed(t) ==
  \/ Take(t) \/ TakeTimeout(t)
  \/ WriteAudio(t)
  \/ AppendStored(t) \/ AppendFailed(t)
  \/ PopFound(t) \/ PopMissed(t)
  \/ CompactNothing(t) \/ CompactCopy(t)
  \/ CompactRemove(t) \/ CompactRemoveFails(t)
  \/ CompactRename(t) \/ CompactRenameFails(t)

SdNext ==
  \/ \E t \in Task :
       \/ \E r \in Record : CallAppend(t, r)
       \/ \E o \in Op \ {"append"} : CallOther(t, o)
       \/ Proceed(t)
  \/ Reset

SdSpec == SdInit /\ [][SdNext]_sdVars

\* A task inside the driver runs on: FreeRTOS schedules it, and FATFS returns.
\* Nothing is assumed of when a task calls again or of resets.
SdFairSpec == SdSpec /\ \A t \in Task : WF_sdVars(Proceed(t))

-----------------------------------------------------------------------------
(* Properties *)

\* A compaction that has not been renamed yet holds the mutex in its flush;
\* what it copied is what had not been popped, up to where a full card cut it
\* off, so that remove() never deletes the only copy of an unread record that
\* fitted; and the offset never points past the file it is an offset of.
CompactionSafe ==
  /\ swap # "idle" =>
       mutex \in Task /\ op[mutex] = "flush" /\ readOffset # 0
  /\ swap = "copied" =>
       \E last \in readOffset .. Len(queueFile) :
         /\ last = Len(queueFile) \/ "full" \in Faults
         /\ tmpFile = SubSeq(queueFile, readOffset + 1, last)
  /\ swap = "removed" => queueFile = <<>>
  /\ swap # "removed" => readOffset <= Len(queueFile)

\* Only a task inside a call holds the mutex, and an append in progress has
\* its record.
CallsConsistent ==
  /\ mutex \in Task => op[mutex] # "none"
  /\ \A t \in Task : op[t] = "append" => arg[t] \in Record

TQ == INSTANCE TelemetryQueue WITH queue <- Unread, popped <- Passed

\* The two points where the code can lose unread records: remove() after a copy
\* that did not fit, and a reset or a failing rename() after remove().
LossPoint ==
  \/ swap = "copied" /\ "full" \in Faults
  \/ swap = "removed" /\ (ResetInSwap \/ "rename" \in Faults)

\* The driver implements the abstract queue: no interleaving of calls, failed
\* FATFS call or reset reorders, repeats or invents a record, or loses one at
\* any point but those two; and there what is left is the front of the queue.
\* On a CleanCard it is TelemetryQueue's QueueSpec (sd_storage.c:67-104,
\* :186-270).
ImplementsQueue ==
  TQ!QueueInit /\ [][TQ!QueueNext \/ (LossPoint /\ TQ!Cut)]_(TQ!queueVars)

\* The mutex is given back: no return path of any call forgets it, whatever
\* fails (sd_storage.c: every return after xSemaphoreTake).
MutexReleased == \A t \in Task : (mutex = t) ~> (mutex # t)

\* sd_storage.h:48-49 and :58: only pop removes records, logically, and
\* compaction discards popped ones.  A step that is not a pop keeps every
\* unread record: new ones come behind them, re-served ones in front.
KeepsUnread ==
  [][ \/ \E t \in Task : PopFound(t)
      \/ \E n \in 1 .. Len(Unread') + 1, m \in 0 .. Len(Unread') :
           SubSeq(Unread', n, m) = Unread ]_sdVars
=============================================================================
