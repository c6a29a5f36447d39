---------------------------- MODULE AudioCapture ----------------------------
(***************************************************************************)
(* One recording session, chunk by chunk: drivers/mic_dma.c with its       *)
(* receive interrupt, and the loop of tasks/task_audio.c that empties the  *)
(* chunk queue into the session file.  There is one session per boot.      *)
(*                                                                         *)
(* Chunks are numbered as they are captured.  The DMA alternates between   *)
(* two buffers: while it fills chunk filled + 1 it overwrites the buffer   *)
(* of chunk filled - 1, so that only the last chunk is whole.  What is     *)
(* queued is a pointer, and the bytes are read when the chunk is written:  *)
(* a write is two steps, and the chunk may be overwritten between them.    *)
(***************************************************************************)
EXTENDS Naturals, Sequences

CONSTANTS
  Depth,           \* AUDIO_CHUNK_QUEUE_DEPTH
  MaxChunks        \* bound: chunks captured in the session

ASSUME DepthAssumption == Depth \in Nat \ {0}
ASSUME ChunksAssumption == MaxChunks \in Nat

VARIABLES
  mic,             \* the I2S channel: "deleted" after a failed mic_dma_init()
  filled,          \* the chunk captured last
  queue,           \* s_chunk_queue
  task,            \* where the audio task is
  hand,            \* the chunk it has received
  file,            \* what has been written
  lost, refused    \* the chunks dropped by the interrupt, and by the card

micVars == <<mic, filled, queue, lost>>
taskVars == <<task, hand, file, refused>>
acVars == <<micVars, taskVars>>

Chunk == 1 .. MaxChunks

AcTypeOK ==
  /\ mic \in {"deleted", "off", "on"}
  /\ filled \in 0 .. MaxChunks
  /\ queue \in Seq(Chunk) /\ Len(queue) <= Depth
  /\ task \in {"settle", "drain", "drain write", "tail", "tail write", "signal", "done"}
  /\ hand \in 0 .. MaxChunks
  /\ file \in Seq([chunk : Chunk, whole : BOOLEAN])
  /\ lost \subseteq Chunk /\ refused \subseteq Chunk

\* mic_dma_init() has run; a failure deletes the channel and the queue, leaves
\* s_chunk_queue dangling, and app_main() goes on.  START has been seen and the
\* rail is on.
AcInit ==
  /\ mic \in {"deleted", "off"}
  /\ filled = 0 /\ queue = <<>> /\ lost = {}
  /\ task = "settle" /\ hand = 0 /\ file = <<>> /\ refused = {}

-----------------------------------------------------------------------------
(* on_recv_cb() *)

\* The DMA has filled a buffer: the queue becomes q, or the chunk is lost.
ChunkFilled(room, q) ==
  /\ mic = "on" /\ filled < MaxChunks
  /\ filled' = filled + 1
  /\ IF room THEN queue' = q /\ UNCHANGED lost
             ELSE lost' = lost \cup {filled + 1} /\ UNCHANGED queue
  /\ UNCHANGED <<mic, taskVars>>

\* Bugs: the descriptor that the DMA turns to is posted, not the one it has
\* left; the chunk is sent to the front of the queue; a full queue is taken for
\* one with room.
MutOnRecv == ChunkFilled(Len(queue) < Depth /\ filled > 0, Append(queue, filled))
MutOnRecvFront == ChunkFilled(Len(queue) < Depth, <<filled + 1>> \o queue)
MutOnRecvFull == ChunkFilled(Len(queue) <= Depth, Append(queue, filled + 1))

OnRecv == ChunkFilled(Len(queue) < Depth, Append(queue, filled + 1))

-----------------------------------------------------------------------------
(* audio_task_fn(), with mic_dma_start() and mic_dma_stop() *)

\* Bug: the result of mic_dma_start() is not looked at.
MutStart ==
  /\ task = "settle"
  /\ UNCHANGED mic \/ (mic # "deleted" /\ mic' = "on")
  /\ task' = "drain"
  /\ UNCHANGED <<filled, queue, lost, hand, file, refused>>

Start ==
  /\ task = "settle"
  /\ \/ mic # "deleted" /\ mic' = "on" /\ task' = "drain"
     \/ task' = "signal" /\ UNCHANGED mic    \* the channel cannot be enabled
  /\ UNCHANGED <<filled, queue, lost, hand, file, refused>>

\* xQueueReceive(); sd_write_audio_chunk() is called and begins to read.
Receive(from, to) ==
  /\ task = from /\ queue # <<>>
  /\ hand' = Head(queue) /\ queue' = Tail(queue)
  /\ task' = to
  /\ UNCHANGED <<mic, filled, lost, file, refused>>

\* The bytes have been read, or the card has refused them.
Written(from, to) ==
  /\ task = from
  /\ \/ /\ \E whole \in {TRUE, filled = hand} :
             file' = Append(file, [chunk |-> hand, whole |-> whole])
        /\ UNCHANGED refused
     \/ refused' = refused \cup {hand} /\ UNCHANGED file
  /\ hand' = 0
  /\ task' = to
  /\ UNCHANGED micVars

\* mic_dma_stop(); its result is not looked at, and a channel that could not be
\* disabled goes on filling the queue.
DeadlineOver(next) ==
  /\ task = "drain"
  /\ mic' \in {"off", mic}
  /\ task' = next
  /\ UNCHANGED <<filled, queue, lost, hand, file, refused>>

\* Bug: the queue is not emptied after the microphone has been stopped.
MutDeadline == DeadlineOver("signal")

Deadline == DeadlineOver("tail")

TailDone ==
  /\ task = "tail" /\ queue = <<>>
  /\ task' = "signal"
  /\ UNCHANGED <<micVars, hand, file, refused>>

Signal ==
  /\ task = "signal"
  /\ task' = "done"
  /\ UNCHANGED <<micVars, hand, file, refused>>

TaskStep ==
  \/ Start
  \/ Receive("drain", "drain write") \/ Written("drain write", "drain")
  \/ Deadline
  \/ Receive("tail", "tail write") \/ Written("tail write", "tail")
  \/ TailDone \/ Signal

AcNext == OnRecv \/ TaskStep

AcSpec == AcInit /\ [][AcNext]_acVars

-----------------------------------------------------------------------------
(* Properties *)

Held == IF hand = 0 THEN {} ELSE {hand}
Queued == {queue[i] : i \in DOMAIN queue}
InFile == {file[i].chunk : i \in DOMAIN file}

\* The file is the recording with gaps, never with a repetition or a swap: the
\* interrupt at one end and the task at the other keep the order of capture
\* (mic_dma.c:42, task_audio.c:71-72).
FileInOrder ==
  /\ \A i, j \in DOMAIN file : i < j => file[i].chunk < file[j].chunk
  /\ \A i \in DOMAIN file : \A c \in Held \cup Queued : file[i].chunk < c

\* Nothing is captured behind the last look into the queue: when DONE is set
\* and the microphone was stopped, no pointer is left in the queue, and every
\* chunk has been written or is accounted for by one of the two drops.  A stop
\* that failed makes no such promise (task_audio.c:80-87, mic_dma.c:129-133).
DrainComplete ==
  task \in {"signal", "done"} /\ mic # "on" =>
    queue = <<>> /\ 1 .. filled = InFile \cup lost \cup refused

\* The queue that a failed mic_dma_init() has deleted is never received from,
\* though its handle is handed out and the task runs (mic_dma.c:65, main.c:113).
NoDanglingQueue ==
  task \notin {"settle", "signal", "done"} => mic # "deleted"

\* A chunk can reach the file overwritten only when the queue shows it: another
\* chunk waits behind it, or was dropped.  Whatever the depth, a chunk with
\* another one behind it is late (mic_dma.h:20-24).
LateIsSeen ==
  [][ \A i \in DOMAIN file' \ DOMAIN file :
        ~file'[i].whole => queue # <<>> \/ hand + 1 \in lost ]_acVars
=============================================================================
