-------------------------- MODULE SdStorageProofs --------------------------
(***************************************************************************)
(* Theorems about SdStorage, for any set of tasks and records and any      *)
(* length of the queue.                                                    *)
(*                                                                         *)
(* SdTypeOK is inductive together with CallsConsistent (SdTyped).  With    *)
(* CompactionSafe it is SdInv: every step that starts there is a step of   *)
(* TelemetryQueue, leaves the abstract queue alone, or cuts it at a        *)
(* LossPoint, which a CleanCard does not have.                             *)
(***************************************************************************)
EXTENDS SdStorage, SequenceTheorems, TLAPS

SdTyped == SdTypeOK /\ CallsConsistent
SdInv == SdTyped /\ CompactionSafe

-----------------------------------------------------------------------------
(* Lines of a file seen through an offset. *)

\* A line appended to the file is behind the unread ones.
LEMMA AppendBehind ==
  ASSUME NEW S, NEW s \in Seq(S), NEW r \in S, NEW k \in 0 .. Len(s)
  PROVE  /\ SubSeq(Append(s, r), k + 1, Len(s) + 1)
              = Append(SubSeq(s, k + 1, Len(s)), r)
         /\ SubSeq(Append(s, r), 1, k) = SubSeq(s, 1, k)
<1> DEFINE a == Append(s, r)
<1>1. a \in Seq(S) /\ Len(a) = Len(s) + 1
  BY AppendProperties
<1>2. \A i \in 1 .. Len(s) : a[i] = s[i]
  BY AppendProperties
<1>3. a[Len(s) + 1] = r
  BY AppendProperties
<1> HIDE DEF a
<1>4. /\ SubSeq(s, k + 1, Len(s)) \in Seq(S)
      /\ Len(SubSeq(s, k + 1, Len(s))) = Len(s) - k
      /\ \A i \in 1 .. Len(s) - k : SubSeq(s, k + 1, Len(s))[i] = s[k + i]
  BY SubSeqProperties, SMTT(30)
<1>5. /\ SubSeq(a, k + 1, Len(s) + 1) \in Seq(S)
      /\ Len(SubSeq(a, k + 1, Len(s) + 1)) = Len(s) - k + 1
      /\ \A i \in 1 .. Len(s) - k + 1 :
           SubSeq(a, k + 1, Len(s) + 1)[i] = a[k + i]
  BY <1>1, SubSeqProperties, SMTT(30)
<1>6. SubSeq(a, k + 1, Len(s) + 1) = Append(SubSeq(s, k + 1, Len(s)), r)
  <2> DEFINE u == SubSeq(s, k + 1, Len(s))
             v == SubSeq(a, k + 1, Len(s) + 1)
  <2>1. /\ Append(u, r) \in Seq(S)
        /\ Len(Append(u, r)) = Len(v)
    BY <1>4, <1>5, AppendProperties
  <2>2. \A i \in 1 .. Len(v) : Append(u, r)[i] = v[i]
    <3> SUFFICES ASSUME NEW i \in 1 .. Len(v)
                 PROVE  Append(u, r)[i] = v[i]
      OBVIOUS
    <3>1. v[i] = a[k + i]
      BY <1>5
    <3>2. CASE i = Len(s) - k + 1
      BY <3>1, <3>2, <1>3, <1>4, AppendProperties
    <3>3. CASE i # Len(s) - k + 1
      <4>1. i \in 1 .. Len(u)
        BY <3>3, <1>4, <1>5
      <4>2. k + i \in 1 .. Len(s) /\ i \in 1 .. Len(s) - k
        BY <4>1, <1>4
      <4>3. Append(u, r)[i] = u[i]
        BY <4>1, <1>4, AppendProperties
      <4> QED
        BY <3>1, <4>2, <4>3, <1>2, <1>4
    <3> QED
      BY <3>2, <3>3
  <2> QED
    BY <1>5, <2>1, <2>2, SeqEqual
<1>7. SubSeq(a, 1, k) = SubSeq(s, 1, k)
  <2>1. /\ SubSeq(a, 1, k) \in Seq(S) /\ Len(SubSeq(a, 1, k)) = k
        /\ \A i \in 1 .. k : SubSeq(a, 1, k)[i] = a[i]
    BY <1>1, SubSeqProperties, SMTT(30)
  <2>2. /\ SubSeq(s, 1, k) \in Seq(S) /\ Len(SubSeq(s, 1, k)) = k
        /\ \A i \in 1 .. k : SubSeq(s, 1, k)[i] = s[i]
    BY SubSeqProperties, SMTT(30)
  <2> QED
    BY <1>2, <2>1, <2>2, SeqEqual
<1> QED
  BY <1>6, <1>7 DEF a

\* Advancing the offset by one line moves the first unread line to the passed.
LEMMA OffsetAdvance ==
  ASSUME NEW S, NEW s \in Seq(S), NEW k \in Nat, k < Len(s)
  PROVE  /\ SubSeq(s, k + 1, Len(s)) # <<>>
         /\ SubSeq(s, k + 2, Len(s)) = Tail(SubSeq(s, k + 1, Len(s)))
         /\ SubSeq(s, 1, k + 1)
              = Append(SubSeq(s, 1, k), Head(SubSeq(s, k + 1, Len(s))))
<1>1. k + 1 \in 1 .. Len(s) /\ Len(s) \in k + 1 .. Len(s)
  OBVIOUS
<1>2. /\ Head(SubSeq(s, k + 1, Len(s))) = s[k + 1]
      /\ Tail(SubSeq(s, k + 1, Len(s))) = SubSeq(s, k + 2, Len(s))
  BY <1>1, HeadTailOfSubSeq
<1>3. SubSeq(s, 1, k + 1) = SubSeq(s, 1, k) \o <<s[k + 1]>>
  <2>1. 1 \in 1 .. Len(s) /\ k + 1 \in 1 .. Len(s) /\ (k + 1) - 1 = k
    BY <1>1
  <2> QED
    BY <2>1, SubSeqRecursiveSecond
<1>4. SubSeq(s, 1, k) \in Seq(S) /\ s[k + 1] \in S
  BY <1>1, SubSeqProperties
<1>5. Len(SubSeq(s, k + 1, Len(s))) = Len(s) - k
  BY <1>1, SubSeqProperties
<1>6. SubSeq(s, k + 1, Len(s)) # <<>>
  <2>1. Len(SubSeq(s, k + 1, Len(s))) # 0
    BY <1>5
  <2>2. Len(<<>>) = 0
    OBVIOUS
  <2> QED
    BY <2>1, <2>2
<1>7. SubSeq(s, 1, k) \o <<s[k + 1]>> = Append(SubSeq(s, 1, k), s[k + 1])
  BY <1>4, AppendIsConcat
<1> QED
  BY <1>2, <1>3, <1>6, <1>7

\* Without an offset everything is unread.
LEMMA OffsetZero ==
  ASSUME NEW S, NEW s \in Seq(S)
  PROVE  SubSeq(s, 1, 0) = <<>> /\ SubSeq(s, 1, Len(s)) = s
BY SubSeqEmpty, SubSeqFull

\* The passed lines and the unread ones make up the file.
LEMMA OffsetSplit ==
  ASSUME NEW S, NEW s \in Seq(S), NEW k \in 0 .. Len(s)
  PROVE  SubSeq(s, 1, k) \o SubSeq(s, k + 1, Len(s)) = s
<1>1. 1 \in 1 .. Len(s) + 1 /\ k \in 1 - 1 .. Len(s) /\ Len(s) \in k .. Len(s)
  OBVIOUS
<1>2. SubSeq(s, 1, k) \o SubSeq(s, k + 1, Len(s)) = SubSeq(s, 1, Len(s))
  BY <1>1, ConcatAdjacentSubSeq
<1> QED
  BY <1>2, SubSeqFull

\* A copy of unread lines that was cut off is the front of them.
LEMMA CopyIsFront ==
  ASSUME NEW s \in Seq(Record), NEW k \in 0 .. Len(s), NEW last \in k .. Len(s)
  PROVE  \E n \in 0 .. Len(SubSeq(s, k + 1, Len(s))) :
           SubSeq(s, k + 1, last) = SubSeq(SubSeq(s, k + 1, Len(s)), 1, n)
<1> DEFINE u == SubSeq(s, k + 1, Len(s))
<1>1. Len(u) = Len(s) - k
  BY SubSeqProperties, SMTT(30)
<1>2. CASE last = k
  <2>1. SubSeq(s, k + 1, last) = <<>> /\ SubSeq(u, 1, 0) = <<>>
    BY <1>2, SubSeqEmpty
  <2>2. 0 \in 0 .. Len(u)
    BY <1>1
  <2> HIDE DEF u
  <2> QED
    BY <2>1, <2>2 DEF u
<1>3. CASE last # k
  <2>1. /\ k + 1 \in 1 .. Len(s) /\ Len(s) \in 1 .. Len(s)
        /\ 1 \in 1 .. Len(s) - (k + 1) + 1
        /\ last - k \in 1 .. Len(s) - (k + 1) + 1
        /\ (k + 1) + 1 - 1 = k + 1 /\ (k + 1) + (last - k) - 1 = last
    BY <1>3
  <2>2. SubSeq(u, 1, last - k) = SubSeq(s, (k + 1) + 1 - 1, (k + 1) + (last - k) - 1)
    BY <2>1, SubSeqOfSubSeq
  <2>3. last - k \in 0 .. Len(u)
    BY <1>1
  <2> HIDE DEF u
  <2> QED
    BY <2>1, <2>2, <2>3 DEF u
<1> QED
  BY <1>2, <1>3

LEMMA SubSeqTyped ==
  ASSUME NEW S, NEW s \in Seq(S), NEW m \in 1 .. Len(s) + 1, NEW n \in 0 .. Len(s)
  PROVE  SubSeq(s, m, n) \in Seq(S)
BY SubSeqProperties
-----------------------------------------------------------------------------
(* Types. *)

\* Giving up a call keeps the bookkeeping of the calls well typed.
LEMMA LeaveTyped ==
  ASSUME SdTypeOK, NEW t \in Task, Leave(t)
  PROVE  /\ op' \in [Task -> Op \cup {"none"}]
         /\ arg' \in [Task -> Record \cup {NoRecord}]
         /\ op'[t] = "none"
         /\ \A u \in Task : u # t => op'[u] = op[u] /\ arg'[u] = arg[u]
BY DEF SdTypeOK, Leave

\* So does a call that is made.
LEMMA CallTyped ==
  ASSUME SdTyped, NEW t \in Task, NEW o \in Op,
         NEW r \in Record \cup {NoRecord},
         o = "append" => r \in Record,
         Call(t, o, r)
  PROVE  SdTyped'
BY NoTaskAssumption
   DEF SdTyped, SdTypeOK, CallsConsistent, Call, Op,
       files, statics

LEMMA InitTyped == SdInit => SdTyped
<1> SUFFICES ASSUME SdInit PROVE SdTyped
  OBVIOUS
<1> USE DEF SdInit
<1>1. <<>> \in Seq(Record)
  OBVIOUS
<1>2. /\ op \in [Task -> Op \cup {"none"}]
      /\ arg \in [Task -> Record \cup {NoRecord}]
  OBVIOUS
<1>3. CallsConsistent
  BY NoTaskAssumption DEF CallsConsistent
<1> QED
  BY <1>1, <1>2, <1>3 DEF SdTyped, SdTypeOK

LEMMA NextTyped == SdTyped /\ [SdNext]_sdVars => SdTyped'
<1> SUFFICES ASSUME SdTyped, [SdNext]_sdVars
             PROVE  SdTyped'
  OBVIOUS
<1> USE NoTaskAssumption, NoRecordAssumption
<1>0. SdTypeOK /\ CallsConsistent
  BY DEF SdTyped
\* A body that returns: the mutex is free and only t's call changed.
<1>r. ASSUME NEW t \in Task, Return(t),
             queueFile' \in Seq(Record), tmpFile' \in Seq(Record),
             mounted' \in BOOLEAN, readOffset' \in Nat, audioOpen' \in BOOLEAN,
             swap' \in {"idle", "copied", "removed"}
      PROVE  SdTyped'
  BY <1>0, <1>r, LeaveTyped
     DEF SdTyped, SdTypeOK, CallsConsistent, Return
<1>1. ASSUME NEW t \in Task, NEW r \in Record, CallAppend(t, r)
      PROVE  SdTyped'
  BY <1>1, CallTyped DEF CallAppend, Op
<1>2. ASSUME NEW t \in Task, NEW o \in Op \ {"append"}, CallOther(t, o)
      PROVE  SdTyped'
  BY <1>2, CallTyped DEF CallOther
<1>3. ASSUME NEW t \in Task, Take(t)
      PROVE  SdTyped'
  BY <1>0, <1>3
     DEF SdTyped, SdTypeOK, CallsConsistent, Take, files, statics, calls
<1>4. ASSUME NEW t \in Task, TakeTimeout(t)
      PROVE  SdTyped'
  <2>1. Leave(t)
    BY <1>4 DEF TakeTimeout
  <2> QED
    BY <1>0, <1>4, <2>1, LeaveTyped
       DEF SdTyped, SdTypeOK, CallsConsistent, TakeTimeout, files, statics
<1>5. ASSUME NEW t \in Task, WriteAudio(t)
      PROVE  SdTyped'
  BY <1>0, <1>5, <1>r DEF WriteAudio, SdTypeOK, files
<1>6. ASSUME NEW t \in Task, AppendStored(t)
      PROVE  SdTyped'
  <2>1. queueFile' \in Seq(Record)
    BY <1>0, <1>6 DEF AppendStored, Stored, Holds, CallsConsistent, SdTypeOK
  <2> QED
    BY <1>0, <1>6, <2>1, <1>r DEF AppendStored, Stored, SdTypeOK, statics
<1>7. ASSUME NEW t \in Task, AppendFailed(t)
      PROVE  SdTyped'
  BY <1>0, <1>7, <1>r DEF AppendFailed, SdTypeOK, files, statics
<1>8. ASSUME NEW t \in Task, PopFound(t)
      PROVE  SdTyped'
  <2>1. readOffset' \in Nat
    BY <1>0, <1>8 DEF PopFound, SdTypeOK
  <2> QED
    BY <1>0, <1>8, <2>1, <1>r DEF PopFound, SdTypeOK, files
<1>9. ASSUME NEW t \in Task, PopMissed(t)
      PROVE  SdTyped'
  BY <1>0, <1>9, <1>r DEF PopMissed, SdTypeOK, files, statics
<1>10. ASSUME NEW t \in Task, CompactNothing(t)
       PROVE  SdTyped'
  <2>1. Return(t)
    BY <1>10 DEF CompactNothing, FlushReturn
  <2>2. /\ readOffset' = 0 \/ readOffset' = readOffset
        /\ audioOpen' = FALSE
    BY <1>10, Zenon DEF CompactNothing, FlushReturn
  <2>3. UNCHANGED <<queueFile, tmpFile, mounted, swap>>
    BY <1>10 DEF CompactNothing, files
  <2> QED
    <3>1. readOffset' \in Nat
      BY <1>0, <2>2 DEF SdTypeOK
    <3>2. mounted' \in BOOLEAN /\ audioOpen' \in BOOLEAN
      BY <1>0, <2>2, <2>3, Zenon DEF SdTypeOK
    <3>3. /\ queueFile' \in Seq(Record) /\ tmpFile' \in Seq(Record)
          /\ swap' \in {"idle", "copied", "removed"}
      BY <1>0, <2>3, Zenon DEF SdTypeOK
    <3> QED
      BY <2>1, <3>1, <3>2, <3>3, <1>r, Zenon
<1>11. ASSUME NEW t \in Task, CompactCopy(t)
       PROVE  SdTyped'
  <2>1. PICK last \in readOffset .. Len(queueFile) :
               tmpFile' = SubSeq(queueFile, readOffset + 1, last)
    BY <1>11 DEF CompactCopy
  <2>2. /\ readOffset + 1 \in 1 .. Len(queueFile) + 1
        /\ last \in 0 .. Len(queueFile)
    BY <1>0, <2>1 DEF SdTypeOK
  <2>3. tmpFile' \in Seq(Record)
    BY <1>0, <2>1, <2>2, SubSeqTyped DEF SdTypeOK
  <2> QED
    BY <1>0, <1>11, <2>3
       DEF CompactCopy, SdTyped, SdTypeOK, CallsConsistent, statics, calls
<1>12. ASSUME NEW t \in Task, CompactRemove(t)
       PROVE  SdTyped'
  BY <1>0, <1>12
     DEF CompactRemove, SdTyped, SdTypeOK, CallsConsistent, statics, calls
<1>13. ASSUME NEW t \in Task, CompactRemoveFails(t)
       PROVE  SdTyped'
  BY <1>0, <1>13, <1>r
     DEF CompactRemoveFails, FlushReturn, SdTypeOK, files
<1>14. ASSUME NEW t \in Task, CompactRename(t)
       PROVE  SdTyped'
  <2>1. Return(t)
    BY <1>14 DEF CompactRename, FlushReturn
  <2>2. queueFile' \in Seq(Record) /\ tmpFile' \in Seq(Record)
    BY <1>0, <1>14 DEF CompactRename, SdTypeOK
  <2>3. readOffset' \in Nat /\ audioOpen' \in BOOLEAN /\ swap' = "idle"
    BY <1>14 DEF CompactRename, FlushReturn
  <2>4. UNCHANGED mounted
    BY <1>14 DEF CompactRename
  <2> QED
    BY <1>0, <2>1, <2>2, <2>3, <2>4, <1>r DEF SdTypeOK
<1>15. CASE Reset
  BY <1>0, <1>15
     DEF Reset, SdTyped, SdTypeOK, CallsConsistent, Op, files
<1>16. ASSUME NEW t \in Task, CompactRenameFails(t)
       PROVE  SdTyped'
  BY <1>0, <1>16, <1>r
     DEF CompactRenameFails, FlushReturn, SdTypeOK, files
<1>17. CASE UNCHANGED sdVars
  BY <1>0, <1>17
     DEF SdTyped, SdTypeOK, CallsConsistent, sdVars, files, statics, calls
<1> QED
  BY <1>1, <1>2, <1>3, <1>4, <1>5, <1>6, <1>7, <1>8, <1>9, <1>10, <1>11,
     <1>12, <1>13, <1>14, <1>15, <1>16, <1>17
     DEF SdNext, Proceed

\* Whatever fails and whenever the node is reset, the driver's state stays well
\* typed.
THEOREM SdTypeCorrect == SdSpec => []SdTypeOK
<1>1. SdTyped => SdTypeOK
  BY DEF SdTyped
<1> QED
  BY InitTyped, NextTyped, <1>1, PTL DEF SdSpec

\* Only a task inside a call holds the mutex, and only it has a record passing
\* through; so no call of another task can release it or see half an update.
THEOREM CallsAlwaysConsistent == SdSpec => []CallsConsistent
<1>1. SdTyped => CallsConsistent
  BY DEF SdTyped
<1> QED
  BY InitTyped, NextTyped, <1>1, PTL DEF SdSpec

-----------------------------------------------------------------------------
(* Compaction. *)

\* A body other than flush runs while no compaction is under way.
LEMMA BodyOutsideSwap ==
  ASSUME SdInv, NEW t \in Task, NEW o, Holds(t, o), o # "flush"
  PROVE  swap = "idle"
BY NoTaskAssumption DEF SdInv, CompactionSafe, Holds

LEMMA InitSafe == SdInit => CompactionSafe
BY DEF SdInit, CompactionSafe

LEMMA NextSafe ==
  SdInv /\ [SdNext]_sdVars => CompactionSafe'
<1> SUFFICES ASSUME SdInv, [SdNext]_sdVars
             PROVE  CompactionSafe'
  OBVIOUS
<1> USE NoTaskAssumption
<1>0. SdTypeOK /\ CallsConsistent /\ CompactionSafe
  BY DEF SdInv, SdTyped
\* With no compaction under way only the offset and the file matter.
<1>i. ASSUME swap' = "idle", readOffset' <= Len(queueFile')
      PROVE  CompactionSafe'
  BY <1>i DEF CompactionSafe
\* A step outside the bodies, by a task that does not hold the mutex.
<1>u. ASSUME UNCHANGED <<queueFile, tmpFile, readOffset, swap>>,
             mutex \in Task => mutex' = mutex /\ op'[mutex] = op[mutex],
             mutex = NoTask => swap = "idle"
      PROVE  CompactionSafe'
  BY <1>0, <1>u DEF CompactionSafe, SdTypeOK
<1>n. mutex = NoTask => swap = "idle"
  BY <1>0 DEF CompactionSafe
<1>1. ASSUME NEW t \in Task, NEW o, NEW r, Call(t, o, r)
      PROVE  CompactionSafe'
  <2>1. UNCHANGED <<queueFile, tmpFile, readOffset, swap, mutex>>
    BY <1>1 DEF Call, files, statics
  <2>2. mutex \in Task => mutex # t
    BY <1>0, <1>1 DEF Call, CallsConsistent
  <2>3. mutex \in Task => op'[mutex] = op[mutex]
    BY <1>0, <1>1, <2>2 DEF Call, SdTypeOK
  <2> QED
    BY <2>1, <2>3, <1>n, <1>u
<1>2. ASSUME NEW t \in Task, Take(t)
      PROVE  CompactionSafe'
  BY <1>0, <1>2, <1>n, <1>u DEF Take, files, statics, calls
<1>3. ASSUME NEW t \in Task, TakeTimeout(t)
      PROVE  CompactionSafe'
  <2>1. UNCHANGED <<queueFile, tmpFile, readOffset, swap, mutex>>
    BY <1>3 DEF TakeTimeout, files, statics
  <2>2. mutex \in Task => op'[mutex] = op[mutex]
    BY <1>0, <1>3 DEF TakeTimeout, Leave, SdTypeOK
  <2> QED
    BY <2>1, <2>2, <1>n, <1>u
<1>4. ASSUME NEW t \in Task, NEW o, Holds(t, o), o # "flush",
             UNCHANGED swap, readOffset' <= Len(queueFile')
      PROVE  CompactionSafe'
  BY <1>4, <1>i, BodyOutsideSwap
<1>5. ASSUME NEW t \in Task, WriteAudio(t)
      PROVE  CompactionSafe'
  <2>1. /\ Holds(t, "audio") /\ "audio" # "flush"
        /\ UNCHANGED <<swap, readOffset, queueFile>>
    BY <1>5 DEF WriteAudio, files
  <2>2. readOffset <= Len(queueFile)
    BY <1>0, <2>1, BodyOutsideSwap DEF CompactionSafe
  <2> QED
    BY <2>1, <2>2, <1>4
<1>6. ASSUME NEW t \in Task, AppendStored(t)
      PROVE  CompactionSafe'
  <2>1. /\ Holds(t, "append") /\ "append" # "flush"
        /\ UNCHANGED <<swap, readOffset>>
        /\ queueFile' = Append(queueFile, arg[t])
    BY <1>6 DEF AppendStored, Stored, statics
  <2>2. readOffset <= Len(queueFile)
    BY <1>0, <2>1, BodyOutsideSwap DEF CompactionSafe
  <2>3. readOffset' <= Len(queueFile')
    BY <1>0, <2>1, <2>2 DEF SdTypeOK
  <2> QED
    BY <2>1, <2>3, <1>4
<1>7. ASSUME NEW t \in Task, AppendFailed(t)
      PROVE  CompactionSafe'
  <2>1. /\ Holds(t, "append") /\ "append" # "flush"
        /\ UNCHANGED <<swap, readOffset, queueFile>>
    BY <1>7 DEF AppendFailed, files, statics
  <2>2. readOffset <= Len(queueFile)
    BY <1>0, <2>1, BodyOutsideSwap DEF CompactionSafe
  <2> QED
    BY <2>1, <2>2, <1>4
<1>8. ASSUME NEW t \in Task, PopFound(t)
      PROVE  CompactionSafe'
  <2>1. /\ Holds(t, "pop") /\ "pop" # "flush"
        /\ UNCHANGED <<swap, queueFile>>
        /\ readOffset' <= Len(queueFile)
    BY <1>0, <1>8 DEF PopFound, files, SdTypeOK
  <2> QED
    BY <2>1, <1>4
<1>9. ASSUME NEW t \in Task, PopMissed(t)
      PROVE  CompactionSafe'
  <2>1. /\ Holds(t, "pop") /\ "pop" # "flush"
        /\ UNCHANGED <<swap, readOffset, queueFile>>
    BY <1>9 DEF PopMissed, files, statics
  <2>2. readOffset <= Len(queueFile)
    BY <1>0, <2>1, BodyOutsideSwap DEF CompactionSafe
  <2> QED
    BY <2>1, <2>2, <1>4
<1>10. ASSUME NEW t \in Task, CompactNothing(t)
       PROVE  CompactionSafe'
  <2>1. /\ swap = "idle" /\ UNCHANGED <<swap, queueFile>>
        /\ readOffset' = 0 \/ readOffset' = readOffset
    BY <1>10, Zenon DEF CompactNothing, files
  <2>2. readOffset' <= Len(queueFile')
    BY <1>0, <2>1 DEF CompactionSafe, SdTypeOK
  <2> QED
    BY <2>1, <2>2, <1>i
<1>11. ASSUME NEW t \in Task, CompactCopy(t)
       PROVE  CompactionSafe'
  <2>1. /\ Holds(t, "flush") /\ swap = "idle" /\ readOffset # 0
        /\ swap' = "copied"
        /\ UNCHANGED <<queueFile, readOffset, mutex, op>>
    BY <1>11 DEF CompactCopy, statics, calls
  <2>2. PICK last \in readOffset .. Len(queueFile) :
               /\ last = Len(queueFile) \/ "full" \in Faults
               /\ tmpFile' = SubSeq(queueFile, readOffset + 1, last)
    BY <1>11 DEF CompactCopy
  <2> QED
    BY <1>0, <2>1, <2>2 DEF CompactionSafe, Holds
<1>12. ASSUME NEW t \in Task, CompactRemove(t)
       PROVE  CompactionSafe'
  BY <1>0, <1>12 DEF CompactRemove, CompactionSafe, Holds, statics, calls
<1>13. ASSUME NEW t \in Task, CompactRemoveFails(t)
       PROVE  CompactionSafe'
  BY <1>0, <1>13, <1>i DEF CompactRemoveFails, SdTypeOK, files
<1>14. ASSUME NEW t \in Task, CompactRename(t)
       PROVE  CompactionSafe'
  BY <1>0, <1>14, <1>i DEF CompactRename, SdTypeOK
<1>15. CASE Reset
  BY <1>0, <1>15, <1>i DEF Reset, SdTypeOK, files
<1>16. ASSUME NEW t \in Task, CompactRenameFails(t)
       PROVE  CompactionSafe'
  BY <1>0, <1>16, <1>i DEF CompactRenameFails, SdTypeOK, files
<1>17. CASE UNCHANGED sdVars
  BY <1>0, <1>17, <1>n, <1>u DEF sdVars, files, statics, calls
<1> QED
  BY <1>1, <1>2, <1>3, <1>5, <1>6, <1>7, <1>8, <1>9, <1>10, <1>11,
     <1>12, <1>13, <1>14, <1>15, <1>16, <1>17
     DEF SdNext, Proceed, CallAppend, CallOther

\* remove() never deletes the only copy of an unread record that fitted on the
\* card, and the read offset never points past the file, whatever fails and
\* wherever the node is reset (sd_storage.c:67-104).
THEOREM CompactionCorrect == SdSpec => []CompactionSafe
<1>1. SdInit => SdInv
  BY InitTyped, InitSafe DEF SdInv
<1>2. SdInv /\ [SdNext]_sdVars => SdInv'
  BY NextTyped, NextSafe DEF SdInv
<1>3. SdInv => CompactionSafe
  BY DEF SdInv
<1> QED
  BY <1>1, <1>2, <1>3, PTL DEF SdSpec

-----------------------------------------------------------------------------
(* The driver implements the abstract queue. *)

LEMMA ViewTyped ==
  ASSUME SdInv
  PROVE  Unread \in Seq(Record) /\ Passed \in Seq(Record)
<1>1. CASE swap = "removed"
  BY <1>1 DEF SdInv, SdTyped, SdTypeOK, Unread, Passed
<1>2. CASE swap # "removed"
  <2>1. /\ queueFile \in Seq(Record) /\ readOffset \in 0 .. Len(queueFile)
    BY <1>2 DEF SdInv, SdTyped, SdTypeOK, CompactionSafe
  <2>2. /\ SubSeq(queueFile, readOffset + 1, Len(queueFile)) \in Seq(Record)
        /\ SubSeq(queueFile, 1, readOffset) \in Seq(Record)
    BY <2>1, SubSeqTyped
  <2> QED
    BY <1>2, <2>2 DEF Unread, Passed
<1> QED
  BY <1>1, <1>2

LEMMA InitRefines == SdInit => TQ!QueueInit
BY OffsetZero DEF SdInit, TQ!QueueInit, Unread, Passed

\* Every step of the driver is a step of the abstract queue, or none, or cuts it
\* at one of the two points.
LEMMA NextRefines ==
  ASSUME SdInv, [SdNext]_sdVars
  PROVE  [TQ!QueueNext \/ (LossPoint /\ TQ!Cut)]_(TQ!queueVars)
<1>0. SdTypeOK /\ CallsConsistent /\ CompactionSafe
  BY DEF SdInv, SdTyped
<1> DEFINE Stutter == UNCHANGED <<Unread, Passed>>
\* Steps that leave files, offset and compaction alone.
<1>s. ASSUME UNCHANGED <<queueFile, tmpFile, readOffset, swap>>
      PROVE  Stutter
  BY <1>s DEF Unread, Passed
\* A body that drops the offset over an unchanged file.
<1>w. ASSUME swap # "removed", swap' = "idle", readOffset' = 0,
             UNCHANGED queueFile
      PROVE  TQ!Rewind
  <2>1. queueFile \in Seq(Record) /\ readOffset \in 0 .. Len(queueFile)
    BY <1>0, <1>w DEF SdTypeOK, CompactionSafe
  <2>2. Unread' = queueFile /\ Passed' = <<>>
    BY <1>w, <2>1, OffsetZero DEF Unread, Passed
  <2>3. Passed \o Unread = queueFile
    BY <1>w, <2>1, OffsetSplit DEF Unread, Passed
  <2> QED
    BY <2>2, <2>3 DEF TQ!Rewind
<1>1. ASSUME NEW t \in Task, NEW o, NEW r, Call(t, o, r)
      PROVE  Stutter
  BY <1>1, <1>s DEF Call, files, statics
<1>2. ASSUME NEW t \in Task, Take(t) \/ TakeTimeout(t)
      PROVE  Stutter
  BY <1>2, <1>s DEF Take, TakeTimeout, files, statics
<1>3. ASSUME NEW t \in Task,
             WriteAudio(t) \/ AppendFailed(t) \/ PopMissed(t)
      PROVE  Stutter
  BY <1>3, <1>s DEF WriteAudio, AppendFailed, PopMissed, files, statics
<1>4. ASSUME NEW t \in Task, AppendStored(t)
      PROVE  TQ!QueueNext
  <2>1. /\ Holds(t, "append") /\ UNCHANGED <<swap, readOffset>>
        /\ queueFile' = Append(queueFile, arg[t])
    BY <1>4 DEF AppendStored, Stored, statics
  <2>2. swap = "idle" /\ arg[t] \in Record
    BY <1>0, <2>1, BodyOutsideSwap DEF Holds, CallsConsistent
  <2>3. queueFile \in Seq(Record) /\ readOffset \in 0 .. Len(queueFile)
    BY <1>0, <2>2 DEF SdTypeOK, CompactionSafe
  <2>4. Len(queueFile') = Len(queueFile) + 1
    BY <2>1, <2>2, <2>3, AppendProperties
  <2>5. Unread' = Append(Unread, arg[t]) /\ Passed' = Passed
    BY <2>1, <2>2, <2>3, <2>4, AppendBehind DEF Unread, Passed
  <2> QED
    BY <2>2, <2>5 DEF TQ!QueueNext, TQ!Put
<1>5. ASSUME NEW t \in Task, PopFound(t)
      PROVE  TQ!Get
  <2>1. /\ Holds(t, "pop") /\ UNCHANGED <<swap, queueFile>>
        /\ readOffset < Len(queueFile) /\ readOffset' = readOffset + 1
    BY <1>5 DEF PopFound, files
  <2>2. swap = "idle"
    BY <2>1, BodyOutsideSwap
  <2>3. queueFile \in Seq(Record) /\ readOffset \in Nat
    BY <1>0 DEF SdTypeOK
  <2>4. (readOffset + 1) + 1 = readOffset + 2
    BY <2>3
  <2>5. /\ Unread = SubSeq(queueFile, readOffset + 1, Len(queueFile))
        /\ Passed = SubSeq(queueFile, 1, readOffset)
        /\ Unread' = SubSeq(queueFile, readOffset + 2, Len(queueFile))
        /\ Passed' = SubSeq(queueFile, 1, readOffset + 1)
    BY <2>1, <2>2, <2>4 DEF Unread, Passed
  <2> QED
    BY <2>1, <2>3, <2>5, OffsetAdvance DEF TQ!Get
<1>6. ASSUME NEW t \in Task, CompactNothing(t)
      PROVE  Stutter \/ TQ!Rewind
  <2>1. /\ swap = "idle" /\ UNCHANGED <<queueFile, tmpFile, swap>>
        /\ readOffset' = 0 \/ readOffset' = readOffset
    BY <1>6, Zenon DEF CompactNothing, files
  <2> QED
    BY <2>1, <1>s, <1>w
<1>7. ASSUME NEW t \in Task, CompactCopy(t)
      PROVE  Stutter
  BY <1>7 DEF CompactCopy, Unread, Passed, statics
<1>8. ASSUME NEW t \in Task, CompactRemove(t)
      PROVE  TQ!Discard \/ (LossPoint /\ TQ!Cut)
  <2>1. swap = "copied" /\ swap' = "removed" /\ UNCHANGED tmpFile
    BY <1>8 DEF CompactRemove
  <2>2. PICK last \in readOffset .. Len(queueFile) :
               /\ last = Len(queueFile) \/ "full" \in Faults
               /\ tmpFile = SubSeq(queueFile, readOffset + 1, last)
    BY <1>0, <2>1 DEF CompactionSafe
  <2>3. /\ Unread = SubSeq(queueFile, readOffset + 1, Len(queueFile))
        /\ Unread' = tmpFile /\ Passed' = <<>>
    BY <2>1 DEF Unread, Passed
  <2>4. CASE last = Len(queueFile)
    BY <2>2, <2>3, <2>4 DEF TQ!Discard
  <2>5. CASE "full" \in Faults
    <3>1. queueFile \in Seq(Record) /\ readOffset \in 0 .. Len(queueFile)
      BY <1>0, <2>1 DEF SdTypeOK, CompactionSafe
    <3>2. \E n \in 0 .. Len(SubSeq(queueFile, readOffset + 1, Len(queueFile))) :
            SubSeq(queueFile, readOffset + 1, last)
              = SubSeq(SubSeq(queueFile, readOffset + 1, Len(queueFile)), 1, n)
      BY <2>2, <3>1, CopyIsFront
    <3>3. \E n \in 0 .. Len(Unread) : tmpFile = SubSeq(Unread, 1, n)
      BY <2>2, <2>3, <3>2
    <3> QED
      BY <2>1, <2>3, <2>5, <3>3 DEF TQ!Cut, LossPoint
  <2> QED
    BY <2>2, <2>4, <2>5
<1>9. ASSUME NEW t \in Task, CompactRemoveFails(t)
      PROVE  TQ!Rewind
  BY <1>9, <1>w DEF CompactRemoveFails, files
<1>10. ASSUME NEW t \in Task, CompactRename(t)
       PROVE  Stutter
  <2>1. /\ swap = "removed" /\ swap' = "idle" /\ queueFile' = tmpFile
        /\ readOffset' = 0
    BY <1>10 DEF CompactRename
  <2>2. tmpFile \in Seq(Record)
    BY <1>0 DEF SdTypeOK
  <2> QED
    BY <2>1, <2>2, OffsetZero DEF Unread, Passed
\* Nothing is at queue.jsonl any more.
<1>g. ASSUME swap = "removed", swap' = "idle", readOffset' = 0,
             UNCHANGED queueFile
      PROVE  TQ!Cut
  <2>1. queueFile' = <<>>
    BY <1>0, <1>g DEF CompactionSafe
  <2>2. Unread' = <<>> /\ Passed' = <<>>
    BY <1>g, <2>1, OffsetZero DEF Unread, Passed
  <2>3. 0 \in 0 .. Len(Unread) /\ SubSeq(Unread, 1, 0) = <<>>
    <3>1. Unread \in Seq(Record)
      BY ViewTyped
    <3> QED
      BY <3>1, SubSeqEmpty
  <2> QED
    BY <2>2, <2>3 DEF TQ!Cut
<1>11. ASSUME Reset
       PROVE  TQ!Rewind \/ (LossPoint /\ TQ!Cut)
  <2>1. CASE swap # "removed"
    BY <1>11, <1>w, <2>1 DEF Reset, files
  <2>2. CASE swap = "removed"
    BY <1>11, <1>g, <2>2 DEF Reset, LossPoint, files
  <2> QED
    BY <2>1, <2>2
<1>12. ASSUME NEW t \in Task, CompactRenameFails(t)
       PROVE  LossPoint /\ TQ!Cut
  BY <1>12, <1>g DEF CompactRenameFails, LossPoint, files
<1>13. ASSUME UNCHANGED sdVars
       PROVE  Stutter
  BY <1>13, <1>s DEF sdVars, files, statics
<1> QED
  BY <1>1, <1>2, <1>3, <1>4, <1>5, <1>6, <1>7, <1>8, <1>9, <1>10, <1>11, <1>12,
     <1>13 DEF SdNext, Proceed, CallAppend, CallOther, TQ!QueueNext, TQ!queueVars

\* Whatever fails, wherever the node is reset and however the calls of the tasks
\* interleave: a step of the driver is one that TelemetryQueue allows, or it
\* leaves the front of the unread records at one of the two points where the
\* code does not look at a result (sd_storage.c:88-98).  A queue with a hole, in
\* another order or with lines of a stale queue.tmp never comes of it.
THEOREM DriverImplementsQueue == SdSpec => ImplementsQueue
<1>1. SdInit => SdInv
  BY InitTyped, InitSafe DEF SdInv
<1>2. SdInv /\ [SdNext]_sdVars => SdInv'
  BY NextTyped, NextSafe DEF SdInv
<1>3. SdInv /\ [SdNext]_sdVars
      => [TQ!QueueNext \/ (LossPoint /\ TQ!Cut)]_(TQ!queueVars)
  BY NextRefines
<1> QED
  BY <1>1, <1>2, <1>3, InitRefines, PTL DEF SdSpec, ImplementsQueue

\* With room on the card, a rename() that works and no reset in front of it, no
\* unread record is ever lost: the driver is a TelemetryQueue, although fopen and
\* remove() may fail and a reset may fall anywhere else.
THEOREM CleanCardLosesNothing ==
  ASSUME CleanCard
  PROVE  SdSpec => TQ!QueueSpec
<1>1. ~LossPoint
  BY DEF LossPoint, CleanCard
<1>2. [TQ!QueueNext \/ (LossPoint /\ TQ!Cut)]_(TQ!queueVars)
      => [TQ!QueueNext]_(TQ!queueVars)
  BY <1>1
<1> QED
  BY <1>2, DriverImplementsQueue, PTL DEF ImplementsQueue, TQ!QueueSpec
=============================================================================
