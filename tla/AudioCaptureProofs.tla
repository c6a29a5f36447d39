------------------------- MODULE AudioCaptureProofs -------------------------
(***************************************************************************)
(* Proofs about a recording session, for every queue depth and every       *)
(* number of chunks.  The argument is about sets: what the interrupt has   *)
(* captured is at every moment in the queue, in the task's hand, in the    *)
(* file or counted as dropped, and these places follow one another in the  *)
(* order of capture.                                                       *)
(***************************************************************************)
EXTENDS AudioCapture, TLAPS

Before(S, T) == \A c \in S, d \in T : c < d
Rising(s) == \A i, j \in DOMAIN s : i < j => s[i] < s[j]

(***************************************************************************)
(* Every chunk is in one of the places, and a place nearer to the card     *)
(* holds only earlier ones.                                                *)
(***************************************************************************)
Accounted == 1 .. filled = InFile \cup lost \cup refused \cup Held \cup Queued

InOrder ==
  /\ Rising(queue)
  /\ \A i, j \in DOMAIN file : i < j => file[i].chunk < file[j].chunk
  /\ Before(Held, Queued)
  /\ Before(InFile \cup refused, Held \cup Queued)

\* Where the task is says what it holds, when the microphone can be on, and when
\* nothing is queued.
Phases ==
  /\ task \in {"drain write", "tail write"} <=> hand # 0
  /\ task = "settle" => mic # "on" /\ queue = <<>>
  /\ task \in {"signal", "done"} => mic = "on" \/ queue = <<>>

AcInv == AcTypeOK /\ Accounted /\ InOrder /\ Phases /\ NoDanglingQueue

-----------------------------------------------------------------------------
\* Zero is no chunk.
LEMMA ChunkNumbers ==
  /\ 0 \in 0 .. MaxChunks
  /\ \A c \in Chunk : c # 0 /\ c \in 0 .. MaxChunks
  /\ \A c \in 0 .. MaxChunks : c \in Nat /\ (c # 0 => c \in Chunk)
  /\ \A c \in 0 .. MaxChunks :
       c < MaxChunks => c + 1 \in Chunk /\ c + 1 \in 0 .. MaxChunks
BY ChunksAssumption DEF Chunk

\* What an interrupt adds to the queue.
LEMMA QueueAppend ==
  ASSUME queue \in Seq(Chunk), NEW c \in Chunk, queue' = Append(queue, c)
  PROVE  /\ Queued' = Queued \cup {c}
         /\ Rising(queue) /\ Before(Queued, {c}) => Rising(queue')
<1>1. /\ DOMAIN queue = 1 .. Len(queue) /\ DOMAIN queue' = 1 .. Len(queue) + 1
      /\ \A i \in 1 .. Len(queue) : queue'[i] = queue[i]
      /\ queue'[Len(queue) + 1] = c
      /\ Len(queue) \in Nat
  OBVIOUS
<1>2. Queued' = Queued \cup {c}
  BY <1>1 DEF Queued
<1>3. ASSUME Rising(queue), Before(Queued, {c}),
             NEW i \in DOMAIN queue', NEW j \in DOMAIN queue', i < j
      PROVE  queue'[i] < queue'[j]
  <2>1. i \in DOMAIN queue /\ queue'[i] = queue[i] /\ queue[i] \in Queued
    BY <1>1, <1>3 DEF Queued
  <2>2. CASE j \in DOMAIN queue
    BY <1>1, <1>3, <2>1, <2>2 DEF Rising
  <2>3. CASE j = Len(queue) + 1
    BY <1>1, <1>3, <2>1, <2>3 DEF Before
  <2> QED
    BY <1>1, <2>2, <2>3
<1> QED
  BY <1>2, <1>3 DEF Rising

\* What the task takes out of it.
LEMMA QueueTake ==
  ASSUME queue \in Seq(Chunk), queue # <<>>, queue' = Tail(queue), Rising(queue)
  PROVE  /\ queue' \in Seq(Chunk) /\ Head(queue) \in Chunk
         /\ \A d \in Nat \ {0} : Len(queue) <= d => Len(queue') <= d
         /\ Queued = {Head(queue)} \cup Queued'
         /\ Before({Head(queue)}, Queued') /\ Rising(queue')
<1>1. /\ queue' \in Seq(Chunk) /\ Len(queue') = Len(queue) - 1
      /\ Len(queue) \in Nat \ {0} /\ Head(queue) = queue[1] /\ queue[1] \in Chunk
      /\ DOMAIN queue = 1 .. Len(queue) /\ DOMAIN queue' = 1 .. Len(queue')
      /\ \A i \in DOMAIN queue' : queue'[i] = queue[i + 1]
      /\ \A i \in DOMAIN queue : i = 1 \/ i - 1 \in DOMAIN queue'
  OBVIOUS
<1>2. Queued = {queue[1]} \cup Queued'
  <2>1. Queued \subseteq {queue[1]} \cup Queued'
    <3> SUFFICES ASSUME NEW i \in DOMAIN queue PROVE queue[i] \in {queue[1]} \cup Queued'
      BY DEF Queued
    <3>1. CASE i - 1 \in DOMAIN queue'
      <4>1. queue'[i - 1] = queue[i]
        BY <1>1, <3>1
      <4> QED
        BY <3>1, <4>1 DEF Queued
    <3> QED
      BY <1>1, <3>1
  <2>2. {queue[1]} \cup Queued' \subseteq Queued
    <3>1. 1 \in DOMAIN queue /\ \A i \in DOMAIN queue' : i + 1 \in DOMAIN queue
      BY <1>1
    <3> QED
      BY <1>1, <3>1 DEF Queued
  <2> QED
    BY <2>1, <2>2
<1>3. Before({queue[1]}, Queued')
  BY <1>1 DEF Before, Queued, Rising
<1>4. Rising(queue')
  BY <1>1 DEF Rising
<1> QED
  BY <1>1, <1>2, <1>3, <1>4

\* What a write adds to the file.
LEMMA FileAppend ==
  ASSUME file \in Seq([chunk : Chunk, whole : BOOLEAN]),
         NEW e \in [chunk : Chunk, whole : BOOLEAN], file' = Append(file, e)
  PROVE  /\ file' \in Seq([chunk : Chunk, whole : BOOLEAN])
         /\ InFile' = InFile \cup {e.chunk}
         /\ DOMAIN file' \ DOMAIN file = {Len(file) + 1}
         /\ file'[Len(file) + 1] = e
         /\ (\A i, j \in DOMAIN file : i < j => file[i].chunk < file[j].chunk)
              /\ Before(InFile, {e.chunk})
            => \A i, j \in DOMAIN file' : i < j => file'[i].chunk < file'[j].chunk
<1>1. /\ DOMAIN file = 1 .. Len(file) /\ DOMAIN file' = 1 .. Len(file) + 1
      /\ \A i \in 1 .. Len(file) : file'[i] = file[i]
      /\ file'[Len(file) + 1] = e /\ Len(file) \in Nat
      /\ file' \in Seq([chunk : Chunk, whole : BOOLEAN])
  OBVIOUS
<1>2. InFile' = InFile \cup {e.chunk}
  BY <1>1 DEF InFile
<1>3. ASSUME \A i, j \in DOMAIN file : i < j => file[i].chunk < file[j].chunk,
             Before(InFile, {e.chunk}),
             NEW i \in DOMAIN file', NEW j \in DOMAIN file', i < j
      PROVE  file'[i].chunk < file'[j].chunk
  <2>1. i \in DOMAIN file /\ file'[i] = file[i] /\ file[i].chunk \in InFile
    BY <1>1, <1>3 DEF InFile
  <2>2. CASE j \in DOMAIN file
    BY <1>1, <1>3, <2>1, <2>2
  <2>3. CASE j = Len(file) + 1
    BY <1>1, <1>3, <2>1, <2>3 DEF Before
  <2> QED
    BY <1>1, <2>2, <2>3
<1> QED
  BY <1>1, <1>2, <1>3

-----------------------------------------------------------------------------
\* No chunk is anywhere before the session.
LEMMA AcInvInit == AcInit => AcInv
<1> SUFFICES ASSUME AcInit PROVE AcInv
  OBVIOUS
<1>1. <<>> \in Seq(Chunk) /\ Len(<<>>) = 0 /\ DOMAIN <<>> = {}
  OBVIOUS
<1>2. <<>> \in Seq([chunk : Chunk, whole : BOOLEAN])
  OBVIOUS
<1>3. AcTypeOK
  BY <1>1, <1>2, DepthAssumption, ChunksAssumption DEF AcInit, AcTypeOK
<1>4. 1 .. filled = {}
  BY DEF AcInit
<1>5. Queued = {} /\ InFile = {} /\ Held = {}
  BY <1>1 DEF AcInit, Queued, InFile, Held
<1>6. Accounted
  BY <1>4, <1>5 DEF Accounted, AcInit
<1>7. InOrder
  BY <1>1, <1>5 DEF InOrder, Before, Rising, AcInit
<1> QED
  BY <1>3, <1>6, <1>7 DEF AcInv, Phases, NoDanglingQueue, AcInit

\* Every place holds chunks that have been captured.
LEMMA Captured ==
  ASSUME AcTypeOK, Accounted
  PROVE  /\ Queued \subseteq 1 .. filled /\ Held \subseteq 1 .. filled
         /\ InFile \subseteq 1 .. filled /\ lost \subseteq 1 .. filled
         /\ refused \subseteq 1 .. filled
BY DEF Accounted

\* The interrupt puts the new chunk behind all others, or counts it.
LEMMA OnRecvKept == AcInv /\ OnRecv => AcInv'
<1> SUFFICES ASSUME AcInv, OnRecv PROVE AcInv'
  OBVIOUS
<1>0. AcTypeOK /\ Accounted /\ InOrder /\ Phases /\ NoDanglingQueue
  BY DEF AcInv
<1>1. /\ mic = "on" /\ filled < MaxChunks /\ filled' = filled + 1
      /\ filled \in Nat /\ filled + 1 \in Chunk /\ filled + 1 \in 0 .. MaxChunks
  BY <1>0, ChunkNumbers DEF OnRecv, ChunkFilled, AcTypeOK
<1>2. UNCHANGED <<mic, task, hand, file, refused>>
  BY DEF OnRecv, ChunkFilled, taskVars
<1>3. 1 .. filled + 1 = (1 .. filled) \cup {filled + 1}
  BY <1>1
<1>4. InFile' = InFile /\ Held' = Held
  BY <1>2 DEF InFile, Held
<1>5. task # "settle"
  BY <1>0, <1>1 DEF Phases
<1>6. CASE Len(queue) < Depth
  <2>1. queue' = Append(queue, filled + 1) /\ UNCHANGED lost /\ queue \in Seq(Chunk)
    BY <1>0, <1>6 DEF OnRecv, ChunkFilled, AcTypeOK
  <2>2. /\ Queued' = Queued \cup {filled + 1}
        /\ Rising(queue) /\ Before(Queued, {filled + 1}) => Rising(queue')
    BY <2>1, <1>1, QueueAppend
  <2>3. \A c \in 1 .. filled : c < filled + 1
    BY <1>1
  <2>4. /\ Before(Queued, {filled + 1}) /\ Before(Held, {filled + 1})
        /\ Before(InFile \cup refused, {filled + 1})
    BY <1>0, <2>3, Captured DEF Before
  <2>5. AcTypeOK'
    <3>1. queue' \in Seq(Chunk) /\ Len(queue') <= Depth
      BY <2>1, <1>1, <1>6, DepthAssumption
    <3> QED
      BY <1>0, <1>1, <1>2, <2>1, <3>1 DEF AcTypeOK
  <2>6. Accounted'
    BY <1>0, <1>1, <1>2, <1>3, <1>4, <2>1, <2>2 DEF Accounted
  <2>7. InOrder'
    BY <1>0, <1>2, <1>4, <2>2, <2>4 DEF InOrder, Before
  <2> QED
    BY <1>0, <1>1, <1>2, <1>5, <2>5, <2>6, <2>7 DEF AcInv, Phases, NoDanglingQueue
<1>7. CASE ~(Len(queue) < Depth)
  <2>1. lost' = lost \cup {filled + 1} /\ UNCHANGED queue
    BY <1>7 DEF OnRecv, ChunkFilled
  <2>2. Queued' = Queued
    BY <2>1 DEF Queued
  <2>3. AcTypeOK'
    BY <1>0, <1>1, <1>2, <2>1 DEF AcTypeOK
  <2>4. Accounted'
    BY <1>0, <1>1, <1>2, <1>3, <1>4, <2>1, <2>2 DEF Accounted
  <2>5. InOrder'
    BY <1>0, <1>2, <1>4, <2>1, <2>2 DEF InOrder, Rising
  <2> QED
    BY <1>0, <1>2, <2>1, <2>3, <2>4, <2>5 DEF AcInv, Phases, NoDanglingQueue
<1> QED
  BY <1>6, <1>7

\* The head of the queue comes to hand.
LEMMA ReceiveKept ==
  ASSUME AcInv, NEW from, NEW to, Receive(from, to),
         \/ from = "drain" /\ to = "drain write"
         \/ from = "tail" /\ to = "tail write"
  PROVE  AcInv'
<1>0. AcTypeOK /\ Accounted /\ InOrder /\ Phases /\ NoDanglingQueue
  BY DEF AcInv
<1>1. /\ task = from /\ task' = to /\ hand' = Head(queue) /\ queue' = Tail(queue)
      /\ queue # <<>> /\ UNCHANGED <<mic, filled, lost, file, refused>>
  BY DEF Receive
<1>2. \/ from = "drain" /\ to = "drain write"
      \/ from = "tail" /\ to = "tail write"
  OBVIOUS
<1>3. /\ queue' \in Seq(Chunk) /\ Head(queue) \in Chunk
      /\ \A d \in Nat \ {0} : Len(queue) <= d => Len(queue') <= d
      /\ Queued = {Head(queue)} \cup Queued'
      /\ Before({Head(queue)}, Queued') /\ Rising(queue')
  BY <1>0, <1>1, QueueTake DEF AcTypeOK, InOrder
<1>4. Held = {} /\ Held' = {Head(queue)} /\ InFile' = InFile
  <2>1. hand = 0
    BY <1>0, <1>1, <1>2 DEF Phases
  <2>2. hand' # 0
    BY <1>1, <1>3, ChunkNumbers
  <2> QED
    BY <1>1, <2>1, <2>2 DEF Held, InFile
<1>5. AcTypeOK'
  <2>1. Len(queue') <= Depth
    BY <1>0, <1>3, DepthAssumption, Zenon DEF AcTypeOK
  <2>2. hand' \in 0 .. MaxChunks
    BY <1>1, <1>3, ChunkNumbers
  <2> QED
    BY <1>0, <1>1, <1>2, <1>3, <2>1, <2>2 DEF AcTypeOK
<1>6. Accounted'
  BY <1>0, <1>1, <1>3, <1>4 DEF Accounted
<1>7. InOrder'
  BY <1>0, <1>1, <1>3, <1>4 DEF InOrder, Before
<1>8. Phases' /\ NoDanglingQueue'
  BY <1>0, <1>1, <1>2, <1>3, ChunkNumbers DEF Phases, NoDanglingQueue
<1> QED
  BY <1>5, <1>6, <1>7, <1>8 DEF AcInv

\* What was in hand goes to the end of the file, or is counted.
LEMMA WrittenKept ==
  ASSUME AcInv, NEW from, NEW to, Written(from, to),
         \/ from = "drain write" /\ to = "drain"
         \/ from = "tail write" /\ to = "tail"
  PROVE  AcInv'
<1>0. AcTypeOK /\ Accounted /\ InOrder /\ Phases /\ NoDanglingQueue
  BY DEF AcInv
<1>1. /\ task = from /\ task' = to /\ hand' = 0
      /\ UNCHANGED <<mic, filled, queue, lost>>
  BY DEF Written, micVars
<1>2. \/ from = "drain write" /\ to = "drain"
      \/ from = "tail write" /\ to = "tail"
  OBVIOUS
<1>3. hand \in Chunk /\ Held = {hand} /\ Held' = {} /\ Queued' = Queued
  <2>1. hand # 0 /\ hand \in 0 .. MaxChunks
    BY <1>0, <1>1, <1>2 DEF Phases, AcTypeOK
  <2> QED
    BY <1>1, <2>1, ChunkNumbers DEF Held, Queued
<1>4. Phases' /\ NoDanglingQueue'
  BY <1>0, <1>1, <1>2 DEF Phases, NoDanglingQueue
<1>5. 0 \in 0 .. MaxChunks
  BY ChunkNumbers
<1>6. ASSUME refused' = refused \cup {hand}, UNCHANGED file
      PROVE  AcInv'
  <2>1. InFile' = InFile
    BY <1>6 DEF InFile
  <2>2. AcTypeOK'
    BY <1>0, <1>1, <1>2, <1>3, <1>5, <1>6 DEF AcTypeOK
  <2>3. Accounted'
    BY <1>0, <1>1, <1>3, <1>6, <2>1 DEF Accounted
  <2>4. InOrder'
    BY <1>0, <1>1, <1>3, <1>6, <2>1 DEF InOrder, Before, Rising
  <2> QED
    BY <1>4, <2>2, <2>3, <2>4 DEF AcInv
<1>7. ASSUME NEW whole \in BOOLEAN, UNCHANGED refused,
             file' = Append(file, [chunk |-> hand, whole |-> whole])
      PROVE  AcInv'
  <2> DEFINE e == [chunk |-> hand, whole |-> whole]
  <2>1. e \in [chunk : Chunk, whole : BOOLEAN] /\ e.chunk = hand
    BY <1>3
  <2>2. file' = Append(file, e) /\ file \in Seq([chunk : Chunk, whole : BOOLEAN])
    BY <1>0, <1>7 DEF AcTypeOK
  <2> HIDE DEF e
  <2>3. Before(InFile, {e.chunk})
    BY <1>0, <1>3, <2>1 DEF InOrder, Before
  <2>4. /\ file' \in Seq([chunk : Chunk, whole : BOOLEAN])
        /\ InFile' = InFile \cup {hand}
        /\ \A i, j \in DOMAIN file' : i < j => file'[i].chunk < file'[j].chunk
    BY <1>0, <2>1, <2>2, <2>3, FileAppend DEF InOrder
  <2>5. AcTypeOK'
    BY <1>0, <1>1, <1>2, <1>5, <1>7, <2>4 DEF AcTypeOK
  <2>6. Accounted'
    BY <1>0, <1>1, <1>3, <1>7, <2>4 DEF Accounted
  <2>7. InOrder'
    BY <1>0, <1>1, <1>3, <1>7, <2>4 DEF InOrder, Before, Rising
  <2> QED
    BY <1>4, <2>5, <2>6, <2>7 DEF AcInv
<1> QED
  <2>1. (filled = hand) \in BOOLEAN
    OBVIOUS
  <2> QED
    BY <1>6, <1>7, <2>1 DEF Written

\* The steps that move no chunk.
LEMMA QuietKept ==
  ASSUME AcInv, Start \/ Deadline \/ TailDone \/ Signal \/ UNCHANGED acVars
  PROVE  AcInv'
<1>0. AcTypeOK /\ Accounted /\ InOrder /\ Phases /\ NoDanglingQueue
  BY DEF AcInv
<1>1. UNCHANGED <<filled, queue, lost, hand, file, refused>>
  BY DEF Start, Deadline, DeadlineOver, TailDone, Signal, acVars, micVars, taskVars
<1>2. Accounted' /\ InOrder'
  BY <1>0, <1>1 DEF Accounted, InOrder, Before, Rising, InFile, Held, Queued
<1>3. CASE Start
  BY <1>0, <1>1, <1>2, <1>3 DEF Start, AcInv, AcTypeOK, Phases, NoDanglingQueue
<1>4. CASE Deadline
  BY <1>0, <1>1, <1>2, <1>4
     DEF Deadline, DeadlineOver, AcInv, AcTypeOK, Phases, NoDanglingQueue
<1>5. CASE TailDone
  BY <1>0, <1>1, <1>2, <1>5 DEF TailDone, micVars, AcInv, AcTypeOK, Phases, NoDanglingQueue
<1>6. CASE Signal
  BY <1>0, <1>1, <1>2, <1>6 DEF Signal, micVars, AcInv, AcTypeOK, Phases, NoDanglingQueue
<1>7. CASE UNCHANGED acVars
  BY <1>0, <1>1, <1>2, <1>7 DEF acVars, micVars, taskVars, AcInv, AcTypeOK, Phases, NoDanglingQueue
<1> QED
  BY <1>3, <1>4, <1>5, <1>6, <1>7

\* The interrupt and the task keep the invariant, whoever comes first.
LEMMA AcInvStep == AcInv /\ [AcNext]_acVars => AcInv'
<1> SUFFICES ASSUME AcInv, [AcNext]_acVars PROVE AcInv'
  OBVIOUS
<1>1. CASE OnRecv
  BY <1>1, OnRecvKept
<1>2. CASE Receive("drain", "drain write")
  BY <1>2, ReceiveKept
<1>3. CASE Receive("tail", "tail write")
  BY <1>3, ReceiveKept
<1>4. CASE Written("drain write", "drain")
  BY <1>4, WrittenKept
<1>5. CASE Written("tail write", "tail")
  BY <1>5, WrittenKept
<1>6. CASE Start \/ Deadline \/ TailDone \/ Signal \/ UNCHANGED acVars
  BY <1>6, QuietKept
<1> QED
  BY <1>1, <1>2, <1>3, <1>4, <1>5, <1>6 DEF AcNext, TaskStep

LEMMA AcAlways == AcSpec => []AcInv
BY AcInvInit, AcInvStep, PTL DEF AcSpec

-----------------------------------------------------------------------------
\* The variables keep their types, and the queue its depth.
THEOREM AcTypeCorrect == AcSpec => []AcTypeOK
<1>1. AcInv => AcTypeOK
  BY DEF AcInv
<1> QED
  BY <1>1, AcAlways, PTL

\* The file is the recording with gaps, and nothing else
\* (mic_dma.c:42, task_audio.c:71-72).
THEOREM FileAlwaysInOrder == AcSpec => []FileInOrder
<1>1. AcInv => FileInOrder
  <2> SUFFICES ASSUME AcInv PROVE FileInOrder
    OBVIOUS
  <2>1. \A i \in DOMAIN file : file[i].chunk \in InFile
    BY DEF InFile
  <2> QED
    BY <2>1 DEF AcInv, InOrder, Before, FileInOrder
<1> QED
  BY <1>1, AcAlways, PTL

\* When DONE is set and the microphone was stopped, every captured chunk is
\* written or counted (task_audio.c:80-87).
THEOREM DrainAlwaysComplete == AcSpec => []DrainComplete
<1>1. AcInv => DrainComplete
  <2> SUFFICES ASSUME AcInv, task \in {"signal", "done"}, mic # "on"
               PROVE  queue = <<>> /\ 1 .. filled = InFile \cup lost \cup refused
    BY DEF DrainComplete
  <2>1. queue = <<>> /\ hand = 0
    BY DEF AcInv, Phases
  <2>2. Queued = {} /\ Held = {}
    BY <2>1 DEF Queued, Held
  <2> QED
    BY <2>1, <2>2 DEF AcInv, Accounted
<1> QED
  BY <1>1, AcAlways, PTL

\* A deleted queue is never received from (mic_dma.c:65, main.c:113).
THEOREM NeverDanglingQueue == AcSpec => []NoDanglingQueue
<1>1. AcInv => NoDanglingQueue
  BY DEF AcInv
<1> QED
  BY <1>1, AcAlways, PTL

\* An overwritten chunk in the file has a successor that waits or was dropped,
\* whatever the depth (mic_dma.h:20-24).
THEOREM LateIsAlwaysSeen == AcSpec => LateIsSeen
<1> DEFINE Seen == \A i \in DOMAIN file' \ DOMAIN file :
                     ~file'[i].whole => queue # <<>> \/ hand + 1 \in lost
<1>1. AcInv /\ [AcNext]_acVars => [Seen]_acVars
  <2> SUFFICES ASSUME AcInv, AcNext PROVE Seen
    OBVIOUS
  <2>0. AcTypeOK /\ Accounted /\ InOrder /\ Phases
    BY DEF AcInv
  <2>1. ASSUME NEW from, NEW to, Written(from, to), from \in {"drain write", "tail write"}
        PROVE  Seen
    <3>1. hand # 0 /\ hand \in 0 .. MaxChunks
      BY <2>0, <2>1 DEF Written, Phases, AcTypeOK
    <3>2. hand \in Chunk /\ hand \in Held
      BY <3>1, ChunkNumbers DEF Held
    <3>3. CASE UNCHANGED file
      BY <3>3
    <3>4. ASSUME NEW whole \in {TRUE, filled = hand},
                 file' = Append(file, [chunk |-> hand, whole |-> whole])
          PROVE  Seen
      <4> DEFINE e == [chunk |-> hand, whole |-> whole]
      <4>1. whole \in BOOLEAN
        BY <3>4
      <4>2. e \in [chunk : Chunk, whole : BOOLEAN] /\ e.whole = whole
        BY <3>2, <4>1
      <4>3. file' = Append(file, e) /\ file \in Seq([chunk : Chunk, whole : BOOLEAN])
        BY <2>0, <3>4 DEF AcTypeOK
      <4> HIDE DEF e
      <4>4. DOMAIN file' \ DOMAIN file = {Len(file) + 1} /\ file'[Len(file) + 1] = e
        BY <4>2, <4>3, FileAppend
      <4> SUFFICES ASSUME ~whole PROVE queue # <<>> \/ hand + 1 \in lost
        BY <4>2, <4>4
      <4>5. filled # hand
        BY <3>4
      <4>6. hand \in 1 .. filled
        BY <2>0, <3>2, Captured
      <4>7. hand + 1 \in 1 .. filled /\ hand < hand + 1 /\ ~(hand + 1 < hand)
        <5>1. filled \in Nat
          BY <2>0, ChunkNumbers, Zenon DEF AcTypeOK
        <5> QED
          BY <4>5, <4>6, <5>1
      <4>8. hand + 1 \notin InFile \cup refused /\ hand + 1 \notin Held
        BY <2>0, <3>2, <4>7 DEF InOrder, Before, Held
      <4>9. hand + 1 \in lost \/ hand + 1 \in Queued
        BY <2>0, <4>7, <4>8 DEF Accounted
      <4> QED
        BY <4>9 DEF Queued
    <3> QED
      BY <2>1, <3>3, <3>4 DEF Written
  <2>2. ASSUME UNCHANGED file PROVE Seen
    BY <2>2
  <2> QED
    BY <2>1, <2>2 DEF AcNext, OnRecv, ChunkFilled, TaskStep, Start, Receive, Deadline,
                      DeadlineOver, TailDone, Signal, taskVars
<1> QED
  BY <1>1, AcAlways, PTL DEF AcSpec, LateIsSeen
=============================================================================
