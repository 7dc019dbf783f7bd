------------------------- MODULE GrokFileInput_proofs -------------------------
(* Theorems of GrokFileInput for every set of files, every block, chunk and  *)
(* pipe size with BlockFits, and every bound.                                *)
EXTENDS GrokFileInput, TLAPS

USE DEF NoFile

(* What read(2) returns is a piece of the file, no longer than a block. *)
LEMMA ReadFileType ==
  ASSUME TypeOK, fd # NoFile
  PROVE  ReadFile \in Seq(LineNo) /\ Len(ReadFile) <= BlockSize
<1> DEFINE rest == SubSeq(content[fd], offset + 1, FileSize(fd))
           n == Least(BlockSize, Len(rest))
<1>1. content[fd] \in Seq(LineNo)
  BY DEF TypeOK
<1>2. offset \in Nat /\ FileSize(fd) \in Nat
  BY <1>1 DEF TypeOK, FileSize
<1>3. rest \in Seq(LineNo)
  BY <1>1, <1>2 DEF FileSize
<1>4. n \in 0..Len(rest) /\ n <= BlockSize
  BY <1>3, FileSizes DEF Least
<1>5. SubSeq(rest, 1, n) \in Seq(LineNo) /\ Len(SubSeq(rest, 1, n)) = n
  BY <1>3, <1>4
<1> QED
  BY <1>4, <1>5 DEF ReadFile, Block

(* The initial state has the right types. *)
LEMMA InitType == Init => TypeOK
<1> SUFFICES ASSUME Init PROVE TypeOK
  OBVIOUS
<1>1. /\ waittime \in 0..MaxWait /\ dueIn \in 0..MaxWait /\ written \in 0..MaxLines
      /\ turns \in 0..MaxTurns /\ unseenFor \in 0..MaxWait + 1
  BY FileBounds DEF Init
<1>2. /\ pipe \in Seq(LineNo) /\ seen \in Seq(LineNo)
      /\ content \in [Inode -> Seq(LineNo)]
  BY DEF Init
<1> QED
  BY <1>1, <1>2 DEF Init, TypeOK

(* What one step of the loop does to the types. *)
LEMMA LoopType ==
  ASSUME TypeOK, Poll \/ ReadBuffer \/ AddInput \/ OpenInput
  PROVE  TypeOK'
<1>1. CASE Poll
  BY <1>1 DEF TypeOK, Poll, TimerDue, inputVars, fileVars, histVars
<1>2. CASE ReadBuffer
  <2> DEFINE n == Least(Chunk, Len(pipe))
  <2>1. pipe \in Seq(LineNo) /\ seen \in Seq(LineNo) /\ n \in 0..Len(pipe)
    BY FileSizes DEF TypeOK, Least
  <2>2. SubSeq(pipe, 1, n) \in Seq(LineNo)
    BY <2>1
  <2>3. SubSeq(pipe, n + 1, Len(pipe)) \in Seq(LineNo)
    BY <2>1
  <2>4. pipe' \in Seq(LineNo) /\ seen' \in Seq(LineNo)
    BY <1>2, <2>1, <2>2, <2>3 DEF ReadBuffer
  <2>5. matched' \in BOOLEAN
    BY <1>2 DEF ReadBuffer, Judged, TypeOK
  <2>6. unseenFor' \in 0..MaxWait + 1
    BY <1>2, FileBounds DEF ReadBuffer, TypeOK
  <2>7. readable' \in BOOLEAN
    BY <1>2 DEF ReadBuffer
  <2>8. UNCHANGED <<follow, done, fd, offset, stIno, stSize, waittime, todo,
                    dueIn, active, exited, fileVars, hit, missed>>
    BY <1>2 DEF ReadBuffer
  <2> HIDE DEF n
  <2> QED
    BY <2>4, <2>5, <2>6, <2>7, <2>8 DEF TypeOK, fileVars
<1>3. CASE AddInput
  <2>1. path # NoFile => FileSize(path) \in Nat
    BY DEF TypeOK, FileSize
  <2>2. stIno' \in Inode \cup {NoFile} /\ stSize' \in Nat
    BY <1>3, <2>1 DEF TypeOK, AddInput
  <2>3. /\ todo' \in {"add", "open", "read", "repair", "reopen", "none"}
        /\ active' \in BOOLEAN
    BY <1>3 DEF TypeOK, AddInput
  <2>4. UNCHANGED <<follow, done, matched, fd, offset, waittime, pipe, dueIn,
                    readable, exited, fileVars, histVars>>
    BY <1>3 DEF AddInput
  <2> QED
    BY <2>2, <2>3, <2>4 DEF TypeOK, fileVars, histVars
<1>4. CASE OpenInput
  BY <1>4 DEF TypeOK, OpenInput, fileVars, histVars
<1> QED
  BY <1>1, <1>2, <1>3, <1>4

(* What the timer callbacks do to the types. *)
LEMMA TimerType ==
  ASSUME TypeOK,
         ReadLines \/ ReadEof \/ ReadFails \/ RepairStat \/ RepairOpen
  PROVE  TypeOK'
<1>1. CASE ReadLines
  <2>1. ReadFile \in Seq(LineNo)
    BY <1>1, ReadFileType DEF ReadLines
  <2>2. pipe' \in Seq(LineNo)
    BY <1>1, <2>1 DEF ReadLines, TypeOK
  <2>3. offset' \in Nat
    BY <1>1, <2>1 DEF ReadLines, TypeOK
  <2>4. stSize' \in Nat
    BY <1>1, <2>3 DEF ReadLines, TypeOK, Most
  <2>5. hit' \in BOOLEAN
    BY <1>1 DEF ReadLines, TypeOK
  <2>6. waittime' \in 0..MaxWait /\ dueIn' \in 0..MaxWait
    BY <1>1, FileBounds DEF ReadLines
  <2>7. todo' \in {"add", "open", "read", "repair", "reopen", "none"}
    BY <1>1 DEF ReadLines, TypeOK
  <2> QED
    BY <1>1, <2>2, <2>3, <2>4, <2>5, <2>6, <2>7 DEF ReadLines, TypeOK, fileVars
<1>2. CASE ReadEof
  <2>1. stSize' \in Nat /\ dueIn' \in 0..MaxWait
    BY <1>2, FileBounds DEF ReadEof, EofHandler, TypeOK, Most
  <2>2. matched' \in BOOLEAN
    BY <1>2, FileOptions DEF ReadEof, EofHandler, TypeOK
  <2>3. /\ done' \in BOOLEAN /\ fd' \in Inode \cup {NoFile}
        /\ todo' \in {"add", "open", "read", "repair", "reopen", "none"}
    BY <1>2 DEF ReadEof, EofHandler, TypeOK
  <2> QED
    BY <1>2, <2>1, <2>2, <2>3 DEF ReadEof, EofHandler, TypeOK, fileVars
<1>3. CASE ReadFails
  BY <1>3 DEF ReadFails, TypeOK, inputVars, fileVars, histVars
<1>4. CASE RepairStat
  <2>1. Backoff \in 0..MaxWait
    BY FileBounds DEF Backoff, Least, TypeOK
  <2>2. waittime' \in 0..MaxWait /\ dueIn' \in 0..MaxWait /\ offset' \in Nat
    BY <1>4, <2>1, FileBounds DEF RepairStat, TypeOK
  <2>3. path # NoFile => FileSize(path) \in Nat
    BY DEF TypeOK, FileSize
  <2>4. stIno' \in Inode \cup {NoFile} /\ stSize' \in Nat
    BY <1>4, <2>3 DEF RepairStat, TypeOK
  <2>5. /\ todo' \in {"add", "open", "read", "repair", "reopen", "none"}
        /\ active' \in BOOLEAN
    BY <1>4 DEF RepairStat, TypeOK
  <2> QED
    BY <1>4, <2>2, <2>4, <2>5 DEF RepairStat, TypeOK, fileVars, histVars
<1>5. CASE RepairOpen
  <2>1. waittime' \in 0..MaxWait /\ offset' \in Nat /\ dueIn' \in 0..MaxWait
    BY <1>5, FileBounds DEF RepairOpen
  <2> QED
    BY <1>5, <2>1 DEF RepairOpen, TypeOK, fileVars, histVars
<1> QED
  BY <1>1, <1>2, <1>3, <1>4, <1>5

(* What the environment does to the types. *)
LEMMA EnvironmentType ==
  ASSUME TypeOK,
         Tick \/ Stopped \/ WriteLine \/ Truncate \/ Replace \/ Rename \/ Create
  PROVE  TypeOK'
<1> USE FileBounds
<1>1. CASE Tick
  BY <1>1 DEF Tick, TypeOK, inputVars, fileVars, Least
<1>2. CASE Stopped
  BY <1>2 DEF Stopped, TypeOK, vars, inputVars, loopVars, fileVars, histVars
<1>3. CASE WriteLine
  <2>1. content[wfd] \in Seq(LineNo) /\ written + 1 \in LineNo /\ written + 1 \in 0..MaxLines
    BY <1>3 DEF WriteLine, TypeOK, LineNo
  <2>2. content' \in [Inode -> Seq(LineNo)]
    BY <1>3, <2>1 DEF WriteLine, TypeOK
  <2> QED
    BY <1>3, <2>1, <2>2 DEF WriteLine, TypeOK, inputVars, loopVars
<1>4. CASE Truncate
  BY <1>4 DEF Truncate, Turn, InStatOpen, TypeOK, inputVars, loopVars
<1>5. CASE Replace
  BY <1>5 DEF Replace, NewFile, Turn, InStatOpen, TypeOK, inputVars, loopVars
<1>6. CASE Rename
  BY <1>6 DEF Rename, Turn, TypeOK, inputVars, loopVars, histVars
<1>7. CASE Create
  BY <1>7 DEF Create, NewFile, InStatOpen, TypeOK, inputVars, loopVars
<1> QED
  BY <1>1, <1>2, <1>3, <1>4, <1>5, <1>6, <1>7

(* Type correctness: in particular the wait between two reads stays within   *)
(* MaxWait and grok never seeks before the file.                             *)
THEOREM FileTypeCorrect == Spec => []TypeOK
<1>1. TypeOK /\ [Next]_vars => TypeOK'
  <2> SUFFICES ASSUME TypeOK, [Next]_vars PROVE TypeOK'
    OBVIOUS
  <2>1. CASE Grok
    BY <2>1, LoopType, TimerType DEF Grok
  <2>2. CASE Tick \/ Stopped \/ WriteLine \/ Truncate \/ Replace \/ Rename \/ Create
    BY <2>2, EnvironmentType
  <2>3. CASE UNCHANGED vars
    BY <2>3 DEF TypeOK, vars, inputVars, loopVars, fileVars, histVars
  <2> QED
    BY <2>1, <2>2, <2>3 DEF Next
<1> QED
  BY <1>1, InitType, PTL DEF Spec

-----------------------------------------------------------------------------
(* The pipe is empty whenever a timer callback runs, because it never holds  *)
(* more than the bufferevent reads at a time.  So what matched is what was   *)
(* read.                                                                     *)
HasMatch(lines) == \E k \in 1..Len(lines) : lines[k] \in Matching

PipeInv ==
  /\ Len(pipe) <= BlockSize
  /\ active /\ ~readable => pipe = << >>
  /\ todo # "none" => (hit <=> matched \/ HasMatch(pipe))
  /\ done => todo = "none"

LEMMA PipeInit == Init => PipeInv
  BY FileSizes DEF Init, PipeInv, HasMatch

(* One read of the bufferevent takes all that is in the pipe. *)
LEMMA BufferEmpties ==
  ASSUME TypeOK, PipeInv, ReadBuffer
  PROVE  pipe' = << >> /\ seen' = seen \o pipe
<1>1. pipe \in Seq(LineNo) /\ Len(pipe) <= BlockSize
  BY DEF TypeOK, PipeInv
<1>2. Least(Chunk, Len(pipe)) = Len(pipe) /\ Len(pipe) \in Nat
  BY <1>1, BlockFits, FileSizes DEF Least
<1>3. SubSeq(pipe, 1, Len(pipe)) = pipe
  BY <1>1
<1>4. SubSeq(pipe, Len(pipe) + 1, Len(pipe)) = << >>
  BY <1>1, <1>2
<1> QED
  BY <1>2, <1>3, <1>4 DEF ReadBuffer

LEMMA PipeRead ==
  ASSUME TypeOK, PipeInv, ReadBuffer
  PROVE  PipeInv'
<1>1. pipe \in Seq(LineNo) /\ Len(pipe) \in Nat /\ Least(Chunk, Len(pipe)) = Len(pipe)
  <2>1. pipe \in Seq(LineNo) /\ Len(pipe) <= BlockSize
    BY DEF TypeOK, PipeInv
  <2> QED
    BY <2>1, BlockFits, FileSizes DEF Least
<1>2. SubSeq(pipe, 1, Len(pipe)) = pipe
  BY <1>1
<1>5. pipe' = << >> /\ matched' = Judged(pipe)
  BY <1>1, <1>2, BufferEmpties DEF ReadBuffer
<1>6. Len(pipe') = 0 /\ ~HasMatch(pipe')
  BY <1>5 DEF HasMatch
<1>7. matched' <=> matched \/ HasMatch(pipe)
  BY <1>5 DEF Judged, HasMatch
<1> QED
  <2>1. todo' = todo /\ done' = done /\ hit' = hit
    BY DEF ReadBuffer
  <2>2. Len(pipe') <= BlockSize
    BY <1>6, FileSizes
  <2>3. todo # "none" => (hit <=> matched \/ HasMatch(pipe))
    BY DEF PipeInv
  <2>4. done => todo = "none"
    BY DEF PipeInv
  <2> QED
    BY <1>5, <1>6, <1>7, <2>1, <2>2, <2>3, <2>4 DEF PipeInv

(* A block goes into an empty pipe. *)
LEMMA PipeWrite ==
  ASSUME TypeOK, PipeInv, ReadLines
  PROVE  PipeInv'
<1>1. pipe = << >>
  BY DEF ReadLines, Timer, PipeInv
<1>2. ReadFile \in Seq(LineNo) /\ Len(ReadFile) <= BlockSize
  BY ReadFileType DEF ReadLines
<1>3. pipe' = ReadFile
  BY <1>1, <1>2 DEF ReadLines
<1>4. ~HasMatch(pipe)
  BY <1>1 DEF HasMatch
<1>5. hit' <=> hit \/ HasMatch(ReadFile)
  BY DEF ReadLines, HasMatch
<1>6. todo = "read" /\ todo' = "read" /\ active' = FALSE /\ done' = done
      /\ matched' = matched
  BY DEF ReadLines, Timer
<1> QED
  BY <1>2, <1>3, <1>4, <1>5, <1>6 DEF PipeInv

LEMMA PipeStep == TypeOK /\ PipeInv /\ [Next]_vars => PipeInv'
<1> SUFFICES ASSUME TypeOK, PipeInv, [Next]_vars PROVE PipeInv'
  OBVIOUS
<1>1. CASE Poll
  BY <1>1 DEF Poll, PipeInv, TimerDue, HasMatch, inputVars, histVars
<1>2. CASE ReadBuffer
  BY <1>2, PipeRead
<1>3. CASE ReadLines
  BY <1>3, PipeWrite
<1>4. CASE ReadEof
  <2>1. pipe = << >> /\ pipe' = << >> /\ ~active' /\ ~hit'
    BY <1>4 DEF ReadEof, EofHandler, Timer, PipeInv
  <2>2. ~HasMatch(pipe')
    BY <2>1 DEF HasMatch
  <2>3. IF follow THEN ~matched' /\ done' = done /\ ~done
                  ELSE todo' = "none"
    BY <1>4 DEF ReadEof, EofHandler, Timer, PipeInv
  <2> QED
    BY <1>4, <2>1, <2>2, <2>3 DEF PipeInv
<1>5. CASE ReadFails
  BY <1>5 DEF ReadFails, PipeInv, HasMatch, inputVars
<1>6. CASE AddInput \/ OpenInput
  BY <1>6 DEF AddInput, OpenInput, PipeInv, HasMatch, histVars
<1>7. CASE RepairStat \/ RepairOpen
  BY <1>7 DEF RepairStat, RepairOpen, Timer, PipeInv, HasMatch, histVars
<1>8. CASE Tick
  BY <1>8 DEF Tick, PipeInv, HasMatch, inputVars
<1>9. CASE WriteLine \/ Truncate \/ Replace \/ Rename \/ Create
  BY <1>9 DEF WriteLine, Truncate, Replace, Rename, Create, NewFile, PipeInv,
              HasMatch, inputVars, loopVars, histVars
<1>10. CASE Stopped \/ UNCHANGED vars
  BY <1>10 DEF Stopped, PipeInv, HasMatch, vars, inputVars, loopVars, histVars
<1> QED
  BY <1>1, <1>2, <1>3, <1>4, <1>5, <1>6, <1>7, <1>8, <1>9, <1>10
     DEF Next, Grok

(* When a block fits in one read of the bufferevent, every timer callback    *)
(* finds the pipe empty: what was read from the file before was judged, so   *)
(* no-match is decided on all of it and write never blocks.                  *)
THEOREM PassIsJudgedHolds == Spec => []PassIsJudged
<1>1. TypeOK /\ PipeInv => PassIsJudged
  <2> SUFFICES ASSUME TypeOK, PipeInv, Timer("read")
               PROVE  pipe = << >> /\ matched = hit
    BY DEF PassIsJudged
  <2>1. pipe = << >> /\ todo = "read"
    BY DEF Timer, PipeInv
  <2>2. hit <=> matched
    BY <2>1 DEF PipeInv, HasMatch
  <2> QED
    BY <2>1, <2>2 DEF TypeOK
<1> QED
  BY <1>1, PipeInit, PipeStep, FileTypeCorrect, PTL DEF Spec

(* So the only thread of grok never waits for room in a pipe that nobody but *)
(* itself can empty.                                                         *)
PipeHasRoom == Timer("read") => Len(pipe) + BlockSize <= PipeSize
THEOREM PipeHasRoomHolds == Spec => []PipeHasRoom
<1>1. PassIsJudged => PipeHasRoom
  BY BlockFits, FileSizes DEF PassIsJudged, PipeHasRoom
<1> QED
  BY <1>1, PassIsJudgedHolds, PTL

-----------------------------------------------------------------------------
(* Where grok is in the file, as long as it missed no change of it.          *)

Got  == Len(seen) + Len(pipe)              \* lines read so far
Base == written - Len(content[wfd])        \* lines of the files before this one

(* The writer appends the next line to the file it has open, the last that   *)
(* had the name.                                                             *)
WriterInv ==
  /\ path \in {wfd, NoFile}
  /\ Len(content[wfd]) <= written
  /\ \A k \in 1..Len(content[wfd]) : content[wfd][k] = Base + k

InOrder ==
  /\ \A k \in 1..Len(seen) : seen[k] = k
  /\ \A k \in 1..Len(pipe) : pipe[k] = Len(seen) + k
  /\ Got <= written

Reading == todo \in {"read", "repair"} /\ stIno = fd

Starting == /\ todo \in {"add", "open"} /\ fd = NoFile /\ offset = 0
            /\ Got = 0 /\ Base = 0
            /\ todo = "open" => stIno = wfd /\ stSize <= FileSize(wfd)

(* It reads the file the writer writes to, and repairs it when it has seen   *)
(* all of it or what it has not seen is new.                                 *)
At == /\ Reading /\ fd = wfd
      /\ offset <= stSize /\ stSize <= FileSize(wfd)
      /\ Got = Base + offset
      /\ todo = "repair" => unseenFor = 0

(* The file was truncated when all of it was read, and is shorter than grok  *)
(* remembers.                                                                *)
Truncated == /\ Reading /\ fd = wfd
             /\ offset = stSize /\ FileSize(wfd) < offset
             /\ Got = Base

(* The file was rotated, and what is left of it is read first.               *)
Behind == /\ Reading /\ fd \in Inode \ {wfd}
          /\ offset <= FileSize(fd)
          /\ todo = "repair" => offset = FileSize(fd)
          /\ FileSize(fd) <= Base
          /\ Got = Base - FileSize(fd) + offset
          /\ \A k \in 1..FileSize(fd) : content[fd][k] = Base - FileSize(fd) + k

Reopening == /\ todo = "reopen" /\ stIno = wfd /\ stSize <= FileSize(wfd)
             /\ Got = Base

Closed == todo = "read" /\ fd = NoFile

Position == \/ Starting \/ At \/ Truncated \/ Behind \/ Reopening \/ Closed
            \/ todo = "none"

(* What was written and is not seen, grok sleeps over no longer than MaxWait.*)
Timely ==
  /\ Len(seen) = written => unseenFor = 0
  /\ todo # "read" \/ fd = NoFile => dueIn = 0
  /\ todo # "none" => unseenFor + dueIn <= MaxWait

FollowInv == WriterInv /\ (~missed => InOrder /\ Position /\ Timely)

-----------------------------------------------------------------------------
(* What read(2) returns: the next lines of the file, none only at its end.   *)
LEMMA ReadFileLines ==
  ASSUME TypeOK, fd # NoFile
  PROVE  /\ ReadFile \in Seq(LineNo)
         /\ ReadFile = << >> => offset >= FileSize(fd)
         /\ offset >= FileSize(fd) => ReadFile = << >>
         /\ offset <= FileSize(fd) => offset + Len(ReadFile) <= FileSize(fd)
         /\ \A k \in 1..Len(ReadFile) : ReadFile[k] = content[fd][offset + k]
<1> DEFINE rest == SubSeq(content[fd], offset + 1, FileSize(fd))
           n == Least(BlockSize, Len(rest))
<1>1. content[fd] \in Seq(LineNo) /\ offset \in Nat
  BY DEF TypeOK
<1>2. FileSize(fd) = Len(content[fd]) /\ FileSize(fd) \in Nat
  BY <1>1 DEF FileSize
<1>3. /\ rest \in Seq(LineNo)
      /\ Len(rest) = IF offset + 1 <= FileSize(fd) THEN FileSize(fd) - offset ELSE 0
  BY <1>1, <1>2
<1>4. \A k \in 1..Len(rest) : rest[k] = content[fd][offset + k]
  BY <1>1, <1>2, <1>3
<1>5. n \in 0..Len(rest) /\ (n = 0 => Len(rest) = 0)
  BY <1>3, FileSizes DEF Least
<1>6. ReadFile = SubSeq(rest, 1, n)
  BY DEF ReadFile, Block
<1> HIDE DEF rest, n
<1>7. /\ ReadFile \in Seq(LineNo) /\ Len(ReadFile) = n
      /\ \A k \in 1..n : ReadFile[k] = rest[k]
  BY <1>3, <1>5, <1>6
<1>8. ReadFile = << >> <=> n = 0
  BY <1>7
<1>9. \A k \in 1..Len(ReadFile) : ReadFile[k] = content[fd][offset + k]
  BY <1>3, <1>4, <1>5, <1>7
<1>10. ReadFile = << >> => offset >= FileSize(fd)
  BY <1>1, <1>2, <1>3, <1>5, <1>8
<1>11. offset >= FileSize(fd) => ReadFile = << >>
  BY <1>1, <1>2, <1>3, <1>5, <1>8
<1>12. offset <= FileSize(fd) => offset + Len(ReadFile) <= FileSize(fd)
  BY <1>1, <1>2, <1>3, <1>5, <1>7
<1> QED
  BY <1>7, <1>9, <1>10, <1>11, <1>12

(* The numbers the invariant counts with. *)
CountsOK ==
  /\ Len(seen) \in Nat /\ Len(pipe) \in Nat /\ Got \in Nat
  /\ wfd \in Inode /\ wfd # NoFile /\ content[wfd] \in Seq(LineNo)
  /\ written \in Nat /\ offset \in Nat /\ stSize \in Nat
  /\ unseenFor \in Nat /\ dueIn \in Nat
  /\ \A ino \in Inode : FileSize(ino) \in Nat /\ FileSize(ino) = Len(content[ino])
  /\ Base \in Int /\ Base = written - FileSize(wfd)

LEMMA Counts == TypeOK => CountsOK
<1> SUFFICES ASSUME TypeOK PROVE CountsOK
  OBVIOUS
<1>1. Len(seen) \in Nat /\ Len(pipe) \in Nat
  <2>1. seen \in Seq(LineNo) /\ pipe \in Seq(LineNo)
    BY DEF TypeOK
  <2> QED
    BY <2>1
<1> wfd \in Inode /\ content[wfd] \in Seq(LineNo)
  BY DEF TypeOK
<1>5. \A ino \in Inode : FileSize(ino) \in Nat /\ FileSize(ino) = Len(content[ino])
  <2> TAKE ino \in Inode
  <2>1. content[ino] \in Seq(LineNo)
    BY DEF TypeOK
  <2> QED
    BY <2>1 DEF FileSize
<1>2. wfd # NoFile
  BY FileInodes
<1>3. /\ written \in Nat /\ offset \in Nat /\ stSize \in Nat
      /\ unseenFor \in Nat /\ dueIn \in Nat
  BY FileBounds DEF TypeOK
<1>4. /\ Got \in Nat /\ Base \in Int /\ Base = written - FileSize(wfd)
  BY <1>1, <1>3, <1>5 DEF Got, Base
<1> QED
  BY <1>1, <1>2, <1>3, <1>4, <1>5 DEF CountsOK

LEMMA SleepsLess ==
  \A a, b, c, m \in Nat : a <= b /\ b + c <= m => a + c <= m
OBVIOUS

LEMMA ReadsWithin ==
  \A got, base, size, off, n, all \in Int :
    got = base - size + off /\ off + n <= size /\ base <= all => got + n <= all
OBVIOUS

LEMMA FollowInit == Init => FollowInv
<1> SUFFICES ASSUME Init PROVE FollowInv
  OBVIOUS
<1>1. wfd = path /\ path \in Inode /\ written = 0
  BY DEF Init
<1>2. Len(content[wfd]) = 0 /\ Base = 0
  <2>1. content = [ino \in Inode |-> << >>]
    BY DEF Init
  <2>2. content[wfd] = << >>
    BY <1>1, <2>1
  <2>3. Len(<< >>) = 0
    OBVIOUS
  <2>4. Len(content[wfd]) = 0
    BY <2>2, <2>3, Zenon
  <2>5. written = 0
    BY <1>1
  <2> QED
    BY <2>4, <2>5 DEF Base
<1>3. WriterInv
  BY <1>1, <1>2 DEF WriterInv
<1>4. seen = << >> /\ pipe = << >> /\ Len(seen) = 0 /\ Len(pipe) = 0 /\ Got = 0
  BY DEF Init, Got
<1>5. InOrder
  BY <1>1, <1>4 DEF InOrder
<1>6. Starting
  BY <1>2, <1>4 DEF Starting, Init
<1>7. Timely
  BY FileBounds DEF Timely, Init
<1> QED
  BY <1>3, <1>5, <1>6, <1>7 DEF FollowInv, Position

(* A step of grok does not write to the file. *)
LEMMA WriterIdle ==
  ASSUME WriterInv, UNCHANGED fileVars
  PROVE  WriterInv'
BY DEF WriterInv, Base, fileVars

(* A step that moves no line and does not wait. *)
LEMMA SameLines ==
  ASSUME InOrder, Timely, UNCHANGED <<pipe, seen, written, unseenFor>>
  PROVE  /\ InOrder' /\ Got' = Got
         /\ (Len(seen) = written => unseenFor = 0)'
BY DEF InOrder, Timely, Got

(* The position does not depend on what the loop has activated. *)
LEMMA SamePosition ==
  ASSUME Position, Got' = Got,
         UNCHANGED <<fd, offset, stIno, stSize, todo, wfd, content, written>>,
         unseenFor' = 0 \/ unseenFor' = unseenFor \/ todo # "repair"
  PROVE  Position'
<1>1. Base' = Base /\ \A ino : FileSize(ino)' = FileSize(ino)
  BY DEF Base, FileSize
<1>2. Reading' = Reading
  BY DEF Reading
<1>3. CASE Starting
  BY <1>1, <1>3 DEF Position, Starting, FileSize
<1>4. CASE At
  BY <1>1, <1>2, <1>4 DEF Position, At, FileSize
<1>5. CASE Truncated
  BY <1>1, <1>2, <1>5 DEF Position, Truncated, FileSize
<1>6. CASE Behind
  BY <1>1, <1>2, <1>6 DEF Position, Behind, FileSize
<1>7. CASE Reopening
  BY <1>1, <1>7 DEF Position, Reopening, FileSize
<1>8. CASE Closed \/ todo = "none"
  BY <1>8 DEF Position, Closed
<1> QED
  BY <1>3, <1>4, <1>5, <1>6, <1>7, <1>8 DEF Position

(* The steps of the loop: the file is opened, lines go through the pipe.     *)
LEMMA FollowLoop ==
  ASSUME TypeOK, PipeInv, FollowInv, AddInput \/ OpenInput \/ Poll \/ ReadBuffer
  PROVE  FollowInv'
<1> /\ Len(seen) \in Nat /\ Len(pipe) \in Nat /\ Got \in Nat
    /\ FileSize(wfd) \in Nat /\ Base \in Int
    /\ written \in Nat /\ offset \in Nat /\ stSize \in Nat
    /\ unseenFor \in Nat /\ dueIn \in Nat
  BY Counts DEF CountsOK
<1>b. Base = written - FileSize(wfd)
  BY Counts DEF CountsOK
<1>c. /\ wfd \in Inode /\ wfd # NoFile /\ content[wfd] \in Seq(LineNo)
      /\ \A f \in Inode : FileSize(f) \in Nat /\ FileSize(f) = Len(content[f])
  BY Counts DEF CountsOK
<1>1. WriterInv' /\ missed' = missed /\ WriterInv
  <2>1. UNCHANGED fileVars /\ missed' = missed
    BY DEF AddInput, OpenInput, Poll, ReadBuffer, histVars
  <2> QED
    BY <2>1, WriterIdle DEF FollowInv
<1> SUFFICES ASSUME ~missed PROVE InOrder' /\ Position' /\ Timely'
  BY <1>1 DEF FollowInv
<1>2. InOrder /\ Position /\ Timely
  BY DEF FollowInv
<1>3. CASE AddInput
  <2>1. /\ InOrder' /\ Got' = Got
        /\ (Len(seen) = written => unseenFor = 0)'
    BY <1>2, <1>3, SameLines DEF AddInput, fileVars, histVars
  <2>2. Starting
    BY <1>2, <1>3 DEF Position, AddInput, Starting, At, Truncated, Behind,
                     Reading, Reopening, Closed
  <2>3. Position'
    BY <1>1, <1>3, <2>1, <2>2
       DEF AddInput, Position, Starting, Base, FileSize, fileVars, WriterInv
  <2>4. Timely'
    BY <1>2, <1>3, <2>1 DEF Timely, AddInput, fileVars, histVars
  <2> QED
    BY <2>1, <2>3, <2>4
<1>4. CASE OpenInput
  <2>1. /\ InOrder' /\ Got' = Got
        /\ (Len(seen) = written => unseenFor = 0)'
    BY <1>2, <1>4, SameLines DEF OpenInput, fileVars, histVars
  <2>2. Starting
    BY <1>2, <1>4 DEF Position, OpenInput, Starting, At, Truncated, Behind,
                     Reading, Reopening, Closed
  <2>3. Position'
    <3>1. CASE path = NoFile
      BY <1>4, <3>1 DEF OpenInput, Position
    <3>2. CASE path = wfd
      <4>1. fd' = wfd /\ todo' = "read" /\ offset' = 0 /\ stIno' = wfd
        BY <1>c, <1>4, <2>2, <3>2 DEF OpenInput, Starting
      <4>2. Got' = 0 /\ Base' = 0 /\ stSize' = stSize /\ FileSize(wfd)' = FileSize(wfd)
        BY <1>4, <2>1, <2>2 DEF OpenInput, Starting, Base, FileSize, fileVars
      <4>3. stSize <= FileSize(wfd) /\ wfd' = wfd
        BY <1>4, <2>2 DEF Starting, OpenInput, fileVars
      <4>4. At'
        BY <4>1, <4>2, <4>3 DEF At, Reading
      <4> QED
        BY <4>4 DEF Position
    <3> QED
      BY <1>1, <3>1, <3>2 DEF WriterInv
  <2>4. Timely'
    BY <1>2, <1>4, <2>1, <2>2 DEF Timely, OpenInput, Starting, fileVars, histVars
  <2> QED
    BY <2>1, <2>3, <2>4
<1>5. CASE Poll
  <2>1. /\ InOrder' /\ Got' = Got
        /\ (Len(seen) = written => unseenFor = 0)'
    BY <1>2, <1>5, SameLines DEF Poll, fileVars, histVars
  <2>2. Position'
    BY <1>2, <1>5, <2>1, SamePosition DEF Poll, inputVars, fileVars, histVars
  <2>3. Timely'
    BY <1>2, <1>5, <2>1 DEF Timely, Poll, inputVars, fileVars, histVars
  <2> QED
    BY <2>1, <2>2, <2>3
<1>6. CASE ReadBuffer
  <2>1. pipe' = << >> /\ seen' = seen \o pipe
    BY <1>6, BufferEmpties
  <2>2. /\ Len(seen') = Got /\ Len(pipe') = 0 /\ Got' = Got
        /\ \A k \in 1..Len(seen) : seen'[k] = seen[k]
        /\ \A k \in 1..Len(pipe) : seen'[Len(seen) + k] = pipe[k]
    BY <2>1 DEF Got, TypeOK
  <2>3. written' = written
    BY <1>6 DEF ReadBuffer, fileVars
  <2>4. InOrder'
    <3>1. ASSUME NEW k \in 1..Got PROVE seen'[k] = k
      <4>1. CASE k <= Len(seen)
        <5>1. k \in 1..Len(seen)
          BY <4>1
        <5> QED
          BY <1>2, <2>2, <5>1 DEF InOrder
      <4>2. CASE k > Len(seen)
        <5>1. k - Len(seen) \in 1..Len(pipe)
          BY <4>2 DEF Got
        <5>2. seen'[Len(seen) + (k - Len(seen))] = pipe[k - Len(seen)]
          BY <2>2, <5>1
        <5>3. pipe[k - Len(seen)] = Len(seen) + (k - Len(seen))
          BY <1>2, <5>1 DEF InOrder
        <5>4. Len(seen) + (k - Len(seen)) = k
          OBVIOUS
        <5> QED
          BY <5>2, <5>3, <5>4
      <4> QED
        BY <4>1, <4>2
    <3> QED
      BY <1>2, <2>1, <2>2, <2>3, <3>1 DEF InOrder, Got
  <2>5. unseenFor' = IF Len(seen') = written THEN 0 ELSE unseenFor
    BY <1>6 DEF ReadBuffer
  <2>6. Position'
    BY <1>2, <1>6, <2>2, <2>5, SamePosition DEF ReadBuffer, fileVars
  <2>7. unseenFor' <= unseenFor /\ unseenFor' \in Nat
    BY <2>5
  <2>8. dueIn' = dueIn /\ todo' = todo /\ fd' = fd
    BY <1>6 DEF ReadBuffer
  <2>9. Timely'
    <3>1. Len(seen') = written' => unseenFor' = 0
      BY <2>3, <2>5
    <3>2. todo' # "read" \/ fd' = NoFile => dueIn' = 0
      BY <1>2, <2>8 DEF Timely
    <3>3. todo' # "none" => unseenFor' + dueIn' <= MaxWait
      <4>1. todo # "none" => unseenFor + dueIn <= MaxWait
        BY <1>2 DEF Timely
      <4>2. /\ unseenFor' \in Nat /\ unseenFor \in Nat /\ dueIn \in Nat
            /\ MaxWait \in Nat
        BY <2>7, FileBounds
      <4>3. unseenFor + dueIn <= MaxWait => unseenFor' + dueIn <= MaxWait
        BY <2>7, <4>2, SleepsLess
      <4> QED
        BY <2>8, <4>1, <4>3
    <3> QED
      BY <3>1, <3>2, <3>3 DEF Timely
  <2> QED
    BY <2>4, <2>6, <2>9
<1> QED
  BY <1>3, <1>4, <1>5, <1>6

(* The read event: the file is read into the empty pipe, or is at its end,   *)
(* or could not be opened.                                                   *)
LEMMA FollowReadLines ==
  ASSUME TypeOK, PipeInv, FollowInv, ReadLines
  PROVE  FollowInv'
<1> /\ Len(seen) \in Nat /\ Len(pipe) \in Nat /\ Got \in Nat
    /\ FileSize(wfd) \in Nat /\ Base \in Int
    /\ written \in Nat /\ offset \in Nat /\ stSize \in Nat
    /\ unseenFor \in Nat /\ dueIn \in Nat
  BY Counts DEF CountsOK
<1>b. Base = written - FileSize(wfd)
  BY Counts DEF CountsOK
<1>c. /\ wfd \in Inode /\ wfd # NoFile /\ content[wfd] \in Seq(LineNo)
      /\ \A f \in Inode : FileSize(f) \in Nat /\ FileSize(f) = Len(content[f])
  BY Counts DEF CountsOK
<1>1. UNCHANGED fileVars /\ missed' = missed /\ fd # NoFile /\ todo = "read"
  BY DEF ReadLines, Timer
<1>2. WriterInv'
  BY <1>1, WriterIdle DEF FollowInv
<1> SUFFICES ASSUME ~missed PROVE InOrder' /\ Position' /\ Timely'
  BY <1>1, <1>2 DEF FollowInv
<1>3. InOrder /\ Position /\ Timely /\ WriterInv
  BY DEF FollowInv
<1>4. /\ pipe = << >> /\ ReadFile # << >> /\ pipe' = pipe \o ReadFile
      /\ offset' = offset + Len(ReadFile) /\ stSize' = Most(stSize, offset')
      /\ dueIn' = 0
      /\ UNCHANGED <<fd, stIno, todo, seen, unseenFor>>
  BY DEF ReadLines, Timer, PipeInv
<1>5. /\ ReadFile \in Seq(LineNo) /\ Len(ReadFile) \in Nat /\ offset < FileSize(fd)
      /\ offset + Len(ReadFile) <= FileSize(fd)
      /\ \A k \in 1..Len(ReadFile) : ReadFile[k] = content[fd][offset + k]
  <2>1. fd \in Inode
    BY <1>1 DEF TypeOK
  <2>2. ReadFile \in Seq(LineNo) /\ Len(ReadFile) \in Nat /\ ~(offset >= FileSize(fd))
    BY <1>1, <1>4, ReadFileLines
  <2>3. offset < FileSize(fd)
    BY <1>c, <2>1, <2>2
  <2> QED
    BY <1>c, <1>1, <2>1, <2>2, <2>3, ReadFileLines
<1>6. pipe' = ReadFile /\ Got = Len(seen) /\ Got' = Got + Len(ReadFile)
  BY <1>4, <1>5 DEF Got
<1>7. At \/ Behind
  BY <1>1, <1>3, <1>5 DEF Position, Starting, At, Truncated, Behind, Reopening, Closed
<1>8. Base' = Base /\ wfd' = wfd /\ written' = written /\ content' = content
      /\ \A ino : FileSize(ino)' = FileSize(ino)
  BY <1>1 DEF Base, FileSize, fileVars
\* the lines of the open file, from where it was read, are the next
<1>9. /\ \A k \in 1..Len(ReadFile) : ReadFile[k] = Got + k
      /\ Got + Len(ReadFile) <= written
  <2>1. CASE At
    <3>1. Got = Base + offset /\ fd = wfd /\ offset + Len(ReadFile) <= FileSize(wfd)
      BY <1>5, <2>1 DEF At
    <3>2. ASSUME NEW k \in 1..Len(ReadFile) PROVE ReadFile[k] = Got + k
      <4>1. offset + k \in 1..Len(content[wfd])
        BY <1>c, <1>5, <3>1
      <4>2. content[wfd][offset + k] = Base + (offset + k)
        BY <1>3, <4>1 DEF WriterInv
      <4>3. ReadFile[k] = content[wfd][offset + k]
        BY <1>5, <3>1
      <4>4. Base + (offset + k) = Got + k
        BY <3>1
      <4> QED
        BY <4>2, <4>3, <4>4
    <3>3. Got + Len(ReadFile) <= written
      <4>1. Len(ReadFile) \in Nat /\ offset + Len(ReadFile) <= FileSize(wfd)
        BY <1>5, <3>1
      <4>2. Base + (offset + Len(ReadFile)) <= Base + FileSize(wfd)
        BY <4>1
      <4>3. Base + FileSize(wfd) = written
        BY <1>b
      <4>4. Got + Len(ReadFile) = Base + (offset + Len(ReadFile))
        BY <3>1, <4>1
      <4> QED
        BY <4>2, <4>3, <4>4
    <3> QED
      BY <3>2, <3>3
  <2>2. CASE Behind
    <3>1. /\ fd \in Inode /\ FileSize(fd) <= Base
          /\ Got = Base - FileSize(fd) + offset
          /\ \A k \in 1..FileSize(fd) : content[fd][k] = Base - FileSize(fd) + k
      BY <2>2 DEF Behind
    <3>2. ASSUME NEW k \in 1..Len(ReadFile) PROVE ReadFile[k] = Got + k
      <4>1. offset + k \in 1..FileSize(fd)
        BY <1>c, <1>5, <3>1
      <4>2. content[fd][offset + k] = Base - FileSize(fd) + (offset + k)
        BY <3>1, <4>1
      <4>3. ReadFile[k] = content[fd][offset + k]
        BY <1>5
      <4>4. Base - FileSize(fd) + (offset + k) = Got + k
        <5>1. FileSize(fd) \in Nat /\ Got = Base - FileSize(fd) + offset
          BY <1>c, <3>1
        <5> QED
          BY <5>1
      <4> QED
        BY <4>2, <4>3, <4>4
    <3>3. Got + Len(ReadFile) <= written
      <4>1. /\ FileSize(fd) \in Nat /\ FileSize(fd) <= Base
            /\ Got = Base - FileSize(fd) + offset
            /\ Len(ReadFile) \in Nat /\ offset + Len(ReadFile) <= FileSize(fd)
            /\ FileSize(wfd) \in Nat /\ Base = written - FileSize(wfd)
        BY <1>b, <1>c, <1>5, <3>1
      <4>2. /\ Got \in Int /\ Base \in Int /\ FileSize(fd) \in Int /\ offset \in Int
            /\ Len(ReadFile) \in Int /\ written \in Int /\ Base <= written
        BY <4>1
      <4> QED
        BY <4>1, <4>2, ReadsWithin
    <3> QED
      BY <3>2, <3>3
  <2> QED
    BY <1>7, <2>1, <2>2
<1>10. InOrder'
  BY <1>3, <1>4, <1>6, <1>8, <1>9 DEF InOrder
<1>11. Reading' /\ todo' = "read"
  BY <1>1, <1>4, <1>7 DEF At, Behind, Reading
<1>12. Position'
  <2>1. CASE At
    <3>1. /\ offset' <= stSize' /\ stSize' <= FileSize(wfd)
      BY <1>4, <1>5, <2>1 DEF At, Most
    <3>2. Got' = Base + offset'
      BY <1>4, <1>5, <1>6, <2>1 DEF At
    <3>3. At'
      BY <1>4, <1>8, <1>11, <2>1, <3>1, <3>2 DEF At
    <3> QED
      BY <3>3 DEF Position
  <2>2. CASE Behind
    <3>1. Got' = Base - FileSize(fd) + offset'
      <4>1. FileSize(fd) \in Nat /\ Got = Base - FileSize(fd) + offset
        BY <1>c, <2>2 DEF Behind
      <4>2. Got + Len(ReadFile) = Base - FileSize(fd) + (offset + Len(ReadFile))
        BY <1>5, <4>1
      <4> QED
        BY <1>4, <1>6, <4>2
    <3>2. Behind'
      BY <1>4, <1>5, <1>8, <1>11, <2>2, <3>1 DEF Behind
    <3> QED
      BY <3>2 DEF Position
  <2> QED
    BY <1>7, <2>1, <2>2
<1>13. Timely'
  <2>1. unseenFor <= MaxWait
    BY <1>1, <1>3, FileBounds DEF Timely
  <2>2. (Len(seen) = written => unseenFor = 0)'
    BY <1>3, <1>4, <1>8 DEF Timely
  <2>3. (unseenFor + dueIn <= MaxWait)'
    BY <1>4, <2>1
  <2> QED
    BY <1>4, <2>2, <2>3 DEF Timely
<1> QED
  BY <1>10, <1>12, <1>13

LEMMA FollowReadEof ==
  ASSUME TypeOK, PipeInv, FollowInv, ReadEof \/ ReadFails
  PROVE  FollowInv'
<1> /\ Len(seen) \in Nat /\ Len(pipe) \in Nat /\ Got \in Nat
    /\ FileSize(wfd) \in Nat /\ Base \in Int
    /\ written \in Nat /\ offset \in Nat /\ stSize \in Nat
    /\ unseenFor \in Nat /\ dueIn \in Nat
  BY Counts DEF CountsOK
<1>b. Base = written - FileSize(wfd)
  BY Counts DEF CountsOK
<1>c. /\ wfd \in Inode /\ wfd # NoFile /\ content[wfd] \in Seq(LineNo)
      /\ \A f \in Inode : FileSize(f) \in Nat /\ FileSize(f) = Len(content[f])
  BY Counts DEF CountsOK
<1>1. UNCHANGED fileVars /\ missed' = missed /\ todo = "read"
  BY DEF ReadEof, ReadFails, Timer, histVars
<1>2. WriterInv'
  BY <1>1, WriterIdle DEF FollowInv
<1> SUFFICES ASSUME ~missed PROVE InOrder' /\ Position' /\ Timely'
  BY <1>1, <1>2 DEF FollowInv
<1>3. InOrder /\ Position /\ Timely /\ WriterInv
  BY DEF FollowInv
<1>4. /\ InOrder' /\ Got' = Got
      /\ (Len(seen) = written => unseenFor = 0)'
  <2>1. UNCHANGED <<pipe, seen, written, unseenFor>>
    BY <1>1 DEF ReadEof, ReadFails, fileVars, histVars
  <2> QED
    BY <1>3, <2>1, SameLines
<1>5. CASE ReadFails
  <2>1. todo' = "none" /\ dueIn' = dueIn /\ fd = NoFile
    BY <1>5 DEF ReadFails
  <2> QED
    BY <1>3, <1>4, <2>1 DEF Position, Timely
<1>6. CASE ReadEof
  <2>1. pipe = << >> /\ fd \in Inode /\ fd # NoFile /\ ReadFile = << >> /\ dueIn' = 0
    BY <1>6 DEF ReadEof, EofHandler, Timer, PipeInv, TypeOK
  <2>2. offset >= FileSize(fd) /\ Got = Len(seen)
    BY <2>1, ReadFileLines DEF Got
  <2>3. CASE ~follow
    <3>1. todo' = "none"
      BY <1>6, <2>3 DEF ReadEof, EofHandler
    <3> QED
      BY <1>4, <2>1, <3>1 DEF Position, Timely
  <2>4. CASE follow
    <3>1. /\ todo' = "repair" /\ stSize' = Most(stSize, offset)
          /\ UNCHANGED <<fd, offset, stIno, unseenFor>>
      BY <1>6, <2>4 DEF ReadEof, EofHandler
    <3>2. /\ Base' = Base /\ wfd' = wfd /\ content' = content
          /\ \A ino : FileSize(ino)' = FileSize(ino)
      BY <1>1 DEF Base, FileSize, fileVars
    <3>3. Timely'
      <4>1. unseenFor <= MaxWait
        BY <1>1, <1>3, FileBounds DEF Timely
      <4>2. (unseenFor + dueIn <= MaxWait)'
        BY <2>1, <3>1, <4>1
      <4> QED
        BY <1>4, <2>1, <4>2 DEF Timely
    <3>4. Position'
      <4>1. CASE At
        <5>1. stSize' = stSize /\ offset = FileSize(wfd)
          BY <2>2, <3>1, <4>1 DEF At, Most
        <5>2. Got = written
          BY <1>b, <4>1, <5>1 DEF At
        <5>3. unseenFor = 0
          BY <1>3, <2>2, <5>2 DEF Timely
        <5>4. At'
          BY <1>4, <3>1, <3>2, <4>1, <5>1, <5>3 DEF At, Reading
        <5> QED
          BY <5>4 DEF Position
      <4>2. CASE Truncated
        <5>1. stSize' = stSize
          BY <3>1, <4>2 DEF Truncated, Most
        <5>2. Truncated'
          BY <1>4, <3>1, <3>2, <4>2, <5>1 DEF Truncated, Reading
        <5> QED
          BY <5>2 DEF Position
      <4>3. CASE Behind
        <5>1. offset = FileSize(fd)
          BY <1>c, <2>1, <2>2, <4>3 DEF Behind
        <5>2. Behind'
          BY <1>4, <3>1, <3>2, <4>3, <5>1 DEF Behind, Reading
        <5> QED
          BY <5>2 DEF Position
      <4> QED
        BY <1>1, <1>3, <2>1, <4>1, <4>2, <4>3
           DEF Position, Starting, Reopening, Closed
    <3> QED
      BY <1>4, <3>3, <3>4
  <2> QED
    BY <2>3, <2>4
<1> QED
  BY <1>5, <1>6

(* The repair event: the file is stat'ed, and opened again if it was rotated. *)
LEMMA FollowRepair ==
  ASSUME TypeOK, FollowInv, RepairStat \/ RepairOpen
  PROVE  FollowInv'
<1> /\ Len(seen) \in Nat /\ Len(pipe) \in Nat /\ Got \in Nat
    /\ FileSize(wfd) \in Nat /\ Base \in Int
    /\ written \in Nat /\ offset \in Nat /\ stSize \in Nat
    /\ unseenFor \in Nat /\ dueIn \in Nat
  BY Counts DEF CountsOK
<1>b. Base = written - FileSize(wfd)
  BY Counts DEF CountsOK
<1>c. /\ wfd \in Inode /\ wfd # NoFile /\ content[wfd] \in Seq(LineNo)
      /\ \A f \in Inode : FileSize(f) \in Nat /\ FileSize(f) = Len(content[f])
  BY Counts DEF CountsOK
<1>1. UNCHANGED fileVars /\ missed' = missed
  BY DEF RepairStat, RepairOpen, histVars
<1>2. WriterInv'
  BY <1>1, WriterIdle DEF FollowInv
<1> SUFFICES ASSUME ~missed PROVE InOrder' /\ Position' /\ Timely'
  BY <1>1, <1>2 DEF FollowInv
<1>3. InOrder /\ Position /\ Timely /\ WriterInv
  BY DEF FollowInv
<1>4. /\ InOrder' /\ Got' = Got
      /\ (Len(seen) = written => unseenFor = 0)'
      /\ unseenFor' = unseenFor
  <2>1. UNCHANGED <<pipe, seen, written, unseenFor>>
    BY <1>1 DEF RepairStat, RepairOpen, fileVars, histVars
  <2> QED
    BY <1>3, <2>1, SameLines
<1>5. /\ Base' = Base /\ wfd' = wfd /\ path' = path /\ content' = content
      /\ \A ino : FileSize(ino)' = FileSize(ino)
  BY <1>1 DEF Base, FileSize, fileVars
<1>6. CASE RepairStat
  <2>1. todo = "repair" /\ dueIn = 0 /\ fd' = fd
    BY <1>3, <1>6 DEF RepairStat, Timer, Timely
  <2>2. CASE path = NoFile
    <3>1. todo' = "none" /\ dueIn' = 0
      BY <1>6, <2>1, <2>2 DEF RepairStat
    <3> QED
      BY <1>4, <3>1 DEF Position, Timely
  <2>3. CASE path # NoFile
    <3>1. path = wfd /\ stIno' = wfd /\ stSize' = FileSize(wfd)
      BY <1>3, <1>6, <2>3 DEF RepairStat, WriterInv
    <3>2. At \/ Truncated \/ Behind
      BY <1>3, <2>1 DEF Position, Starting, Reopening, Closed
    <3>3. CASE Behind
      <4>1. todo' = "reopen" /\ dueIn' = 0
        BY <1>6, <2>1, <2>3, <3>1, <3>3 DEF RepairStat, Behind, Reading
      <4>2. Got = Base
        <5>1. FileSize(fd) \in Nat /\ Got = Base - FileSize(fd) + offset
              /\ offset = FileSize(fd)
          BY <2>1, <3>3 DEF Behind
        <5> QED
          BY <5>1
      <4>3. Position'
        BY <1>4, <1>5, <3>1, <4>1, <4>2 DEF Reopening, Position
      <4>4. Timely'
        BY <1>3, <1>4, <2>1, <4>1 DEF Timely
      <4> QED
        BY <1>4, <4>3, <4>4
    <3>4. CASE Truncated
      <4>1. Shrunk /\ path = stIno /\ fd = wfd /\ Got = Base
        BY <3>1, <3>4 DEF Shrunk, Truncated, Reading
      <4>2. todo' = "read" /\ dueIn' = 0 /\ offset' = 0
        BY <1>6, <2>3, <4>1 DEF RepairStat
      <4>3. At'
        <5>1. Reading' /\ fd' = wfd' /\ todo' # "repair"
          BY <1>5, <2>1, <3>1, <4>1, <4>2 DEF Reading
        <5>2. offset' <= stSize' /\ stSize' <= FileSize(wfd)'
          BY <1>5, <3>1, <4>2
        <5>3. Got' = Base' + offset'
          BY <1>4, <1>5, <4>1, <4>2
        <5> QED
          BY <1>5, <5>1, <5>2, <5>3 DEF At, FileSize
      <4>4. Timely'
        BY <1>3, <1>4, <2>1, <4>2 DEF Timely
      <4> QED
        BY <1>4, <4>3, <4>4 DEF Position
    <3>5. CASE At
      <4>1. ~Shrunk /\ path = stIno /\ fd = wfd /\ unseenFor = 0
        BY <2>1, <3>1, <3>5 DEF Shrunk, At, Reading
      <4>2. todo' = "read" /\ dueIn' = Backoff /\ offset' = offset
        BY <1>6, <2>3, <4>1 DEF RepairStat
      <4>3. Backoff \in Nat /\ Backoff <= MaxWait
        BY FileBounds DEF Backoff, Least, TypeOK
      <4>4. At'
        BY <1>4, <1>5, <2>1, <3>1, <3>5, <4>1, <4>2 DEF At, Reading
      <4>5. Timely'
        <5>1. unseenFor' = 0 /\ (dueIn' \in Nat) /\ dueIn' <= MaxWait
          BY <1>4, <4>1, <4>2, <4>3
        <5>2. unseenFor' + dueIn' <= MaxWait
          BY <5>1
        <5>3. fd' # NoFile
          BY <1>c, <2>1, <4>1
        <5> QED
          BY <4>2, <5>1, <5>2, <5>3 DEF Timely
      <4> QED
        BY <1>4, <4>4, <4>5 DEF Position
    <3> QED
      BY <3>2, <3>3, <3>4, <3>5
  <2> QED
    BY <2>2, <2>3
<1>7. CASE RepairOpen
  <2>1. todo = "reopen" /\ todo' = "read" /\ dueIn' = 0 /\ offset' = 0 /\ fd' = path
        /\ UNCHANGED <<stIno, stSize>>
    BY <1>7 DEF RepairOpen
  <2>2. Reopening
    BY <1>3, <2>1 DEF Position, Starting, At, Truncated, Behind, Reading, Closed
  <2>3. Position'
    <3>1. CASE path = NoFile
      BY <2>1, <3>1 DEF Position, Closed
    <3>2. CASE path = wfd
      <4>1. At'
        BY <1>4, <1>5, <2>1, <2>2, <3>2 DEF Reopening, At, Reading
      <4> QED
        BY <4>1 DEF Position
    <3> QED
      BY <1>3, <3>1, <3>2 DEF WriterInv
  <2>4. Timely'
    BY <1>3, <1>4, <2>1 DEF Timely
  <2> QED
    BY <1>4, <2>3, <2>4
<1> QED
  BY <1>6, <1>7

(* A line is written. *)
LEMMA FollowWrite ==
  ASSUME TypeOK, FollowInv, WriteLine
  PROVE  FollowInv'
<1> /\ Len(seen) \in Nat /\ Len(pipe) \in Nat /\ Got \in Nat
    /\ FileSize(wfd) \in Nat /\ Base \in Int
    /\ written \in Nat /\ offset \in Nat /\ stSize \in Nat
    /\ unseenFor \in Nat /\ dueIn \in Nat
  BY Counts DEF CountsOK
<1>b. Base = written - FileSize(wfd)
  BY Counts DEF CountsOK
<1>c. /\ wfd \in Inode /\ wfd # NoFile /\ content[wfd] \in Seq(LineNo)
      /\ \A f \in Inode : FileSize(f) \in Nat /\ FileSize(f) = Len(content[f])
  BY Counts DEF CountsOK
<1> DEFINE size == FileSize(wfd)
<1>1. /\ written' = written + 1 /\ path' = path /\ wfd' = wfd
      /\ content' = [content EXCEPT ![wfd] = Append(@, written + 1)]
      /\ UNCHANGED <<fd, offset, stIno, stSize, pipe, todo, dueIn, seen, unseenFor>>
  BY DEF WriteLine, inputVars, loopVars
<1>2. /\ content'[wfd] = Append(content[wfd], written + 1)
      /\ \A ino \in Inode : ino # wfd => content'[ino] = content[ino]
  BY <1>1 DEF TypeOK
<1>3. /\ Len(content'[wfd]) = size + 1
      /\ \A k \in 1..size : content'[wfd][k] = content[wfd][k]
      /\ content'[wfd][size + 1] = written + 1
  <2>1. content[wfd] \in Seq(LineNo) /\ size = Len(content[wfd])
    BY <1>c
  <2> QED
    BY <1>2, <2>1
<1>4. FileSize(wfd)' = size + 1 /\ Base' = Base
  <2>1. FileSize(wfd)' = Len(content'[wfd]) /\ Base' = written' - Len(content'[wfd'])
    BY <1>1 DEF FileSize, Base
  <2>2. Base' = (written + 1) - (size + 1)
    BY <1>1, <1>3, <2>1
  <2>3. (written + 1) - (size + 1) = Base
    BY <1>b
  <2> QED
    BY <1>3, <2>1, <2>2, <2>3
<1>5. \A ino \in Inode : ino # wfd => FileSize(ino)' = FileSize(ino)
  BY <1>2 DEF FileSize
<1>6. WriterInv /\ size <= written
  <2>1. WriterInv
    BY DEF FollowInv
  <2> QED
    BY <1>c, <2>1 DEF WriterInv
<1>7. WriterInv'
  <2>1. \A k \in 1..(size + 1) : content'[wfd][k] = Base + k
    <3> TAKE k \in 1..(size + 1)
    <3>1. CASE k \in 1..size
      <4>1. content[wfd][k] = Base + k
        BY <1>c, <1>6, <3>1 DEF WriterInv
      <4> QED
        BY <1>3, <3>1, <4>1
    <3>2. CASE k = size + 1
      <4>1. Base + k = written + 1
        BY <1>b, <3>2
      <4> QED
        BY <1>3, <3>2, <4>1
    <3> QED
      BY <3>1, <3>2
  <2>2. size + 1 <= written + 1
    BY <1>6
  <2>3. path' \in {wfd', NoFile}
    BY <1>1, <1>6 DEF WriterInv
  <2> QED
    BY <1>1, <1>3, <1>4, <2>1, <2>2, <2>3 DEF WriterInv
<1> SUFFICES ASSUME ~missed' PROVE InOrder' /\ Position' /\ Timely'
  BY <1>7 DEF FollowInv
<1>8. ~missed /\ ~(fd = wfd /\ size < offset /\ size + 1 >= stSize)
  BY DEF WriteLine
<1>9. InOrder /\ Position /\ Timely
  BY <1>8 DEF FollowInv
<1>10. InOrder' /\ Got' = Got
  BY <1>1, <1>9 DEF InOrder, Got
<1>11. Timely'
  <2>1. Len(seen) # written + 1
    BY <1>9 DEF InOrder, Got
  <2> QED
    BY <1>1, <1>9, <2>1 DEF Timely
<1>12. Reading' = Reading
  BY <1>1 DEF Reading
<1> HIDE DEF size
<1>13. size \in Nat /\ size = FileSize(wfd)
  BY DEF size
<1>14. Position'
  <2>1. CASE Starting
    BY <1>1, <1>4, <1>10, <1>13, <2>1 DEF Starting, Position
  <2>2. CASE At
    BY <1>1, <1>4, <1>10, <1>12, <1>13, <2>2 DEF At, Position
  <2>3. CASE Truncated
    <3>1. size + 1 < stSize /\ offset = stSize
      BY <1>8, <1>13, <2>3 DEF Truncated
    <3> QED
      BY <1>1, <1>4, <1>10, <1>12, <1>13, <2>3, <3>1 DEF Truncated, Position
  <2>4. CASE Behind
    <3>1. FileSize(fd)' = FileSize(fd) /\ content'[fd] = content[fd] /\ fd' = fd
      BY <1>1, <1>2, <1>5, <2>4 DEF Behind
    <3>2. FileSize(fd') = FileSize(fd')
      OBVIOUS
    <3> QED
      BY <1>1, <1>4, <1>10, <1>12, <2>4, <3>1 DEF Behind, Position, FileSize
  <2>5. CASE Reopening
    BY <1>1, <1>4, <1>10, <1>13, <2>5 DEF Reopening, Position
  <2>6. CASE Closed \/ todo = "none"
    BY <1>1, <2>6 DEF Closed, Position
  <2> QED
    BY <1>9, <2>1, <2>2, <2>3, <2>4, <2>5, <2>6 DEF Position
<1> QED
  BY <1>10, <1>11, <1>14

(* The file is truncated. *)
LEMMA FollowTruncate ==
  ASSUME TypeOK, FollowInv, Truncate
  PROVE  FollowInv'
<1> /\ Len(seen) \in Nat /\ Len(pipe) \in Nat /\ Got \in Nat
    /\ FileSize(wfd) \in Nat /\ Base \in Int
    /\ written \in Nat /\ offset \in Nat /\ stSize \in Nat
    /\ unseenFor \in Nat /\ dueIn \in Nat
  BY Counts DEF CountsOK
<1>b. Base = written - FileSize(wfd)
  BY Counts DEF CountsOK
<1>c. /\ wfd \in Inode /\ wfd # NoFile /\ content[wfd] \in Seq(LineNo)
      /\ \A f \in Inode : FileSize(f) \in Nat /\ FileSize(f) = Len(content[f])
  BY Counts DEF CountsOK
<1>1. WriterInv /\ path = wfd
  BY DEF FollowInv, WriterInv, Truncate
<1>2. /\ content' = [content EXCEPT ![wfd] = << >>]
      /\ UNCHANGED <<fd, offset, stIno, stSize, pipe, todo, dueIn, seen, unseenFor,
                     path, wfd, written>>
  BY <1>1 DEF Truncate, inputVars, loopVars
<1>3. content'[wfd] = << >>
  BY <1>2 DEF TypeOK
<1>4. Len(content'[wfd]) = 0 /\ FileSize(wfd)' = 0 /\ Base' = written
  <2>1. Len(<< >>) = 0
    OBVIOUS
  <2>2. Len(content'[wfd]) = 0
    BY <1>3, <2>1, Zenon
  <2>3. FileSize(wfd)' = Len(content'[wfd]) /\ Base' = written - Len(content'[wfd])
    BY <1>2 DEF FileSize, Base
  <2> QED
    BY <2>2, <2>3
<1>5. WriterInv'
  BY <1>1, <1>2, <1>4 DEF WriterInv
<1> SUFFICES ASSUME ~missed' PROVE InOrder' /\ Position' /\ Timely'
  BY <1>5 DEF FollowInv
<1>6. ~missed /\ ~InStatOpen /\ AllRead
  BY DEF Truncate
<1>7. InOrder /\ Position /\ Timely
  BY <1>6 DEF FollowInv
<1>8. InOrder' /\ Timely' /\ Got' = Got
  BY <1>2, <1>7 DEF InOrder, Timely, Got
<1>9. Reading' = Reading
  BY <1>2 DEF Reading
<1>10. fd = wfd /\ fd # NoFile /\ offset = FileSize(wfd)
  BY <1>1, <1>6 DEF AllRead
<1>11. At \/ todo = "none"
  BY <1>6, <1>7, <1>10
     DEF Position, InStatOpen, Starting, Truncated, Behind, Reopening, Closed
<1>12. Position'
  <2>1. CASE todo = "none"
    BY <1>2, <2>1 DEF Position
  <2>2. CASE At
    <3>1. offset = stSize /\ Got = written /\ Reading
      BY <1>b, <1>10, <2>2 DEF At
    <3>2. Got' = Base' /\ Reading' /\ fd' = wfd' /\ offset' = stSize'
          /\ wfd' = wfd /\ offset' = offset /\ offset \in Nat
      BY <1>2, <1>4, <1>8, <1>9, <1>10, <3>1
    <3>3. CASE offset = 0
      <4>1. At'
        BY <1>2, <1>4, <2>2, <3>2, <3>3 DEF At, FileSize
      <4> QED
        BY <4>1 DEF Position
    <3>4. CASE offset # 0
      <4>1. Truncated'
        BY <1>2, <1>4, <3>2, <3>4 DEF Truncated, FileSize
      <4> QED
        BY <4>1 DEF Position
    <3> QED
      BY <3>3, <3>4
  <2> QED
    BY <1>11, <2>1, <2>2
<1> QED
  BY <1>8, <1>12

(* The file is rotated. *)
LEMMA FollowNewFile ==
  ASSUME TypeOK, FollowInv, NEW ino \in Inode, NewFile(ino)
  PROVE  FollowInv'
<1> /\ Len(seen) \in Nat /\ Len(pipe) \in Nat /\ Got \in Nat
    /\ FileSize(wfd) \in Nat /\ Base \in Int
    /\ written \in Nat /\ offset \in Nat /\ stSize \in Nat
    /\ unseenFor \in Nat /\ dueIn \in Nat
  BY Counts DEF CountsOK
<1>b. Base = written - FileSize(wfd)
  BY Counts DEF CountsOK
<1>c. /\ wfd \in Inode /\ wfd # NoFile /\ content[wfd] \in Seq(LineNo)
      /\ \A f \in Inode : FileSize(f) \in Nat /\ FileSize(f) = Len(content[f])
  BY Counts DEF CountsOK
<1>1. /\ ino # wfd /\ ino # fd /\ path' = ino /\ wfd' = ino
      /\ content' = [content EXCEPT ![ino] = << >>]
      /\ UNCHANGED <<fd, offset, stIno, stSize, pipe, todo, dueIn, seen, unseenFor,
                     written>>
  BY DEF NewFile, inputVars, loopVars
<1>2. content'[ino] = << >> /\ \A i \in Inode : i # ino => content'[i] = content[i]
  BY <1>1 DEF TypeOK
<1>3. Len(content'[ino]) = 0 /\ Base' = written
  <2>1. Len(<< >>) = 0
    OBVIOUS
  <2>2. Len(content'[ino]) = 0
    BY <1>2, <2>1, Zenon
  <2>3. Base' = written - Len(content'[ino])
    BY <1>1 DEF Base
  <2> QED
    BY <2>2, <2>3
<1>4. WriterInv'
  BY <1>1, <1>3 DEF WriterInv
<1> SUFFICES ASSUME ~missed' PROVE InOrder' /\ Position' /\ Timely'
  BY <1>4 DEF FollowInv
<1>5. /\ ~missed /\ ~InStatOpen
      /\ ReadsFirst \/ (fd = wfd /\ offset = FileSize(fd))
  BY DEF NewFile
<1>6. InOrder /\ Position /\ Timely /\ WriterInv
  BY <1>5 DEF FollowInv
<1>7. InOrder' /\ Timely' /\ Got' = Got
  BY <1>1, <1>6 DEF InOrder, Timely, Got
<1>8. Reading' = Reading
  BY <1>1 DEF Reading
<1>9. /\ fd = wfd /\ fd # NoFile /\ offset <= FileSize(wfd)
      /\ todo = "repair" => offset = FileSize(wfd)
  BY <1>c, <1>5 DEF ReadsFirst
<1>10. At \/ todo = "none"
  BY <1>5, <1>6, <1>9
     DEF Position, InStatOpen, Starting, Truncated, Behind, Reopening, Closed
<1>11. CASE todo = "none"
  BY <1>1, <1>7, <1>11 DEF Position
<1>12. CASE At
  <2>1. /\ fd' = wfd /\ wfd \in Inode /\ wfd # wfd' /\ Reading' /\ todo' = todo
        /\ offset' = offset /\ content'[wfd] = content[wfd]
    BY <1>c, <1>1, <1>2, <1>8, <1>9, <1>12 DEF At
  <2>2. Got' = Base' - FileSize(wfd) + offset /\ FileSize(wfd) <= Base'
    <3>1. Got = Base + offset /\ Base = written - FileSize(wfd)
      BY <1>b, <1>12 DEF At
    <3>2. FileSize(wfd) <= written
      BY <1>c, <1>6 DEF WriterInv
    <3> QED
      BY <1>3, <1>7, <3>1, <3>2
  <2>3. \A k \in 1..FileSize(wfd) : content[wfd][k] = Base' - FileSize(wfd) + k
    <3>1. Base' - FileSize(wfd) = Base
      BY <1>b, <1>3
    <3>2. \A k \in 1..FileSize(wfd) : content[wfd][k] = Base + k
      BY <1>c, <1>6 DEF WriterInv
    <3> QED
      BY <3>1, <3>2
  <2>4. FileSize(fd)' = FileSize(wfd) /\ content'[fd'] = content[wfd]
    BY <2>1 DEF FileSize
  <2>5. Behind'
    BY <1>9, <2>1, <2>2, <2>3, <2>4 DEF Behind
  <2> QED
    BY <1>7, <2>5 DEF Position
<1> QED
  BY <1>10, <1>11, <1>12

(* The loop sleeps a second. *)
LEMMA FollowTick ==
  ASSUME TypeOK, FollowInv, Tick
  PROVE  FollowInv'
<1> /\ Len(seen) \in Nat /\ Len(pipe) \in Nat /\ Got \in Nat
    /\ FileSize(wfd) \in Nat /\ Base \in Int
    /\ written \in Nat /\ offset \in Nat /\ stSize \in Nat
    /\ unseenFor \in Nat /\ dueIn \in Nat
  BY Counts DEF CountsOK
<1>b. Base = written - FileSize(wfd)
  BY Counts DEF CountsOK
<1>c. /\ wfd \in Inode /\ wfd # NoFile /\ content[wfd] \in Seq(LineNo)
      /\ \A f \in Inode : FileSize(f) \in Nat /\ FileSize(f) = Len(content[f])
  BY Counts DEF CountsOK
<1>1. /\ UNCHANGED fileVars /\ missed' = missed
      /\ dueIn > 0 /\ dueIn' = dueIn - 1
      /\ unseenFor' = IF Len(seen) = written THEN 0 ELSE Least(unseenFor + 1, MaxWait + 1)
      /\ UNCHANGED <<fd, offset, stIno, stSize, pipe, todo, seen>>
  BY DEF Tick, inputVars
<1>2. WriterInv'
  BY <1>1, WriterIdle DEF FollowInv
<1> SUFFICES ASSUME ~missed PROVE InOrder' /\ Position' /\ Timely'
  BY <1>1, <1>2 DEF FollowInv
<1>3. InOrder /\ Position /\ Timely
  BY DEF FollowInv
<1>4. InOrder' /\ Got' = Got
  BY <1>1, <1>3 DEF InOrder, Got, fileVars
<1>5. todo = "read" /\ fd # NoFile
  BY <1>1, <1>3 DEF Timely
<1>6. Position'
  BY <1>1, <1>3, <1>4, <1>5, SamePosition DEF fileVars
<1>7. Timely'
  <2>1. unseenFor + dueIn <= MaxWait
    BY <1>3, <1>5 DEF Timely
  <2>2. unseenFor' \in Nat /\ unseenFor' <= unseenFor + 1
    BY <1>1, FileBounds DEF Least
  <2>3. unseenFor' + dueIn' <= MaxWait
    BY <1>1, <2>1, <2>2, FileBounds
  <2>4. (Len(seen) = written => unseenFor = 0)'
    BY <1>1 DEF fileVars
  <2> QED
    BY <1>1, <1>5, <2>3, <2>4 DEF Timely
<1> QED
  BY <1>4, <1>6, <1>7

LEMMA FollowStep == TypeOK /\ PipeInv /\ FollowInv /\ [Next]_vars => FollowInv'
<1> SUFFICES ASSUME TypeOK, PipeInv, FollowInv, [Next]_vars PROVE FollowInv'
  OBVIOUS
<1>1. CASE AddInput \/ OpenInput \/ Poll \/ ReadBuffer
  BY <1>1, FollowLoop
<1>2. CASE ReadLines
  BY <1>2, FollowReadLines
<1>3. CASE ReadEof \/ ReadFails
  BY <1>3, FollowReadEof
<1>4. CASE RepairStat \/ RepairOpen
  BY <1>4, FollowRepair
<1>5. CASE WriteLine
  BY <1>5, FollowWrite
<1>6. CASE Truncate
  BY <1>6, FollowTruncate
<1>7. CASE Replace \/ Create
  BY <1>7, FollowNewFile DEF Replace, Create
<1>8. CASE Tick
  BY <1>8, FollowTick
<1>9. CASE Rename \/ Stopped \/ UNCHANGED vars
  <2>1. /\ path' \in {path, NoFile}
        /\ UNCHANGED <<fd, offset, stIno, stSize, pipe, todo, dueIn, seen, unseenFor,
                       missed, wfd, content, written>>
    BY <1>9 DEF Rename, Stopped, vars, inputVars, loopVars, fileVars, histVars
  <2>2. WriterInv'
    BY <2>1 DEF FollowInv, WriterInv, Base
  <2>3. ASSUME ~missed PROVE InOrder' /\ Position' /\ Timely'
    <3>1. InOrder /\ Position /\ Timely
      BY <2>3 DEF FollowInv
    <3>2. InOrder' /\ Timely' /\ Got' = Got
      BY <2>1, <3>1 DEF InOrder, Timely, Got
    <3> QED
      BY <2>1, <3>1, <3>2, SamePosition
  <2> QED
    BY <2>1, <2>2, <2>3 DEF FollowInv
<1> QED
  BY <1>1, <1>2, <1>3, <1>4, <1>5, <1>6, <1>7, <1>8, <1>9 DEF Next, Grok

(* The invariant of following: what grok read is lines 1, 2, ... of all that *)
(* was written, it stands where those lines end, and what it has not seen is *)
(* not older than what it has already slept since.                           *)
THEOREM FollowInvHolds == Spec => []FollowInv
BY FollowInit, FollowStep, PipeInit, PipeStep, FileTypeCorrect, PTL DEF Spec

(* A line is seen at most MaxWait seconds after it was written: when grok    *)
(* goes to sleep it has seen everything, and a truncation or a rotation does *)
(* not make it sleep twice.                                                  *)
THEOREM KeepsUpHolds == Spec => []KeepsUp
<1>1. TypeOK /\ FollowInv => KeepsUp
  <2> SUFFICES ASSUME TypeOK, FollowInv, ~missed, todo # "none"
               PROVE  unseenFor <= MaxWait
    BY DEF KeepsUp
  <2>1. unseenFor \in Nat /\ dueIn \in Nat /\ MaxWait \in Nat
    BY FileBounds DEF TypeOK
  <2>2. unseenFor + dueIn <= MaxWait
    BY DEF FollowInv, Timely
  <2> QED
    BY <2>1, <2>2
<1> QED
  BY <1>1, FollowInvHolds, FileTypeCorrect, PTL

-----------------------------------------------------------------------------
(* grok keeps the promise of FollowedFile, but for its liveness.             *)

(* The promise does not come back. *)
LEMMA StaysVoid == [Next]_vars /\ (missed \/ todo = "none") => (missed \/ todo = "none")'
<1> SUFFICES ASSUME [Next]_vars, missed \/ todo = "none"
             PROVE  (missed \/ todo = "none")'
  OBVIOUS
<1>1. CASE Grok
  BY <1>1 DEF Grok, AddInput, OpenInput, Poll, ReadBuffer, ReadLines, ReadEof, ReadFails,
              RepairStat, RepairOpen, Timer, TimerDue, inputVars, histVars
<1>2. CASE WriteLine \/ Truncate \/ Replace \/ Rename \/ Create
  BY <1>2 DEF WriteLine, Truncate, Replace, Rename, Create, NewFile, loopVars, histVars
<1>3. CASE Tick \/ Stopped \/ UNCHANGED vars
  BY <1>3 DEF Tick, Stopped, vars, loopVars, histVars
<1> QED
  BY <1>1, <1>2, <1>3 DEF Next

(* The lines that a read of the bufferevent brings are the next ones. *)
LEMMA ReadArrives ==
  ASSUME TypeOK, PipeInv, FollowInv, ReadBuffer, ~missed, todo # "none"
  PROVE  Promise!Arrive \/ UNCHANGED <<written, seen, missed, todo>>
<1> /\ Len(seen) \in Nat /\ Len(pipe) \in Nat /\ Got \in Nat
    /\ FileSize(wfd) \in Nat /\ Base \in Int
    /\ written \in Nat /\ offset \in Nat /\ stSize \in Nat
    /\ unseenFor \in Nat /\ dueIn \in Nat
  BY Counts DEF CountsOK
<1>b. Base = written - FileSize(wfd)
  BY Counts DEF CountsOK
<1>c. /\ wfd \in Inode /\ wfd # NoFile /\ content[wfd] \in Seq(LineNo)
      /\ \A f \in Inode : FileSize(f) \in Nat /\ FileSize(f) = Len(content[f])
  BY Counts DEF CountsOK
<1>1. pipe' = << >> /\ seen' = seen \o pipe /\ UNCHANGED <<written, missed, todo>>
  BY BufferEmpties DEF ReadBuffer, fileVars
<1>2. CASE pipe = << >>
  BY <1>1, <1>2 DEF TypeOK
<1>3. CASE pipe # << >>
  <2>1. pipe \in Seq(LineNo) /\ seen \in Seq(LineNo) /\ Len(pipe) > 0
    <3>1. pipe \in Seq(LineNo) /\ seen \in Seq(LineNo)
      BY DEF TypeOK
    <3> QED
      BY <1>3, <3>1
  <2>2. FollowInv'
    BY FollowLoop
  <2>3. InOrder' /\ InOrder
    BY <1>1, <2>2 DEF FollowInv
  <2>4. seen' \in Seq(LineNo) /\ Len(seen') = Got /\ Got \in (Len(seen) + 1)..written
    BY <1>1, <2>1, <2>3 DEF InOrder, Got
  <2>5. \A k \in 1..Got : seen'[k] = k
    BY <2>3, <2>4 DEF InOrder
  <2>6. seen' = [k \in 1..Got |-> k]
    BY <2>4, <2>5
  <2> QED
    BY <1>1, <2>4, <2>6 DEF Promise!Arrive
<1> QED
  BY <1>2, <1>3

(* Whatever the file goes through, the lines arrive once each and in the     *)
(* order they were written, until grok stops or a change is missed.  That    *)
(* all of them arrive is checked by TLC (PromiseKept).                       *)
THEOREM PromiseIsSafe == Spec => Promise!Init /\ [][Promise!Next]_(Promise!vars)
<1>1. Init => Promise!Init
  BY DEF Init, Promise!Init
<1>2. TypeOK /\ PipeInv /\ FollowInv /\ [Next]_vars
        => [Promise!Next]_(Promise!vars)
  <2> SUFFICES ASSUME TypeOK, PipeInv, FollowInv, [Next]_vars
               PROVE  Promise!Next \/ UNCHANGED Promise!vars
    OBVIOUS
  <2>1. CASE missed \/ todo = "none"
    BY <2>1, StaysVoid DEF Promise!Next, Promise!Void
  <2>2. CASE ~(missed \/ todo = "none") /\ (missed \/ todo = "none")'
    BY <2>2 DEF Promise!Next, Promise!End
  <2>3. CASE ~(missed \/ todo = "none") /\ ~(missed \/ todo = "none")'
    <3>1. CASE WriteLine
      BY <2>3, <3>1 DEF WriteLine, Promise!Next, Promise!Write, histVars
    <3>2. CASE ReadBuffer
      BY <2>3, <3>2, ReadArrives DEF Promise!Next, Promise!vars
    <3>3. CASE AddInput \/ OpenInput \/ Poll \/ ReadLines \/ ReadEof \/ ReadFails
               \/ RepairStat \/ RepairOpen
      BY <2>3, <3>3 DEF AddInput, OpenInput, Poll, ReadLines, ReadEof, ReadFails,
                        RepairStat, RepairOpen, Promise!vars, fileVars, histVars
    <3>4. CASE Truncate \/ Replace \/ Rename \/ Create
      BY <2>3, <3>4 DEF Truncate, Replace, Rename, Create, NewFile, Promise!vars, histVars
    <3>5. CASE Tick \/ Stopped \/ UNCHANGED vars
      BY <2>3, <3>5 DEF Tick, Stopped, Promise!vars, vars, fileVars, histVars
    <3> QED
      BY <3>1, <3>2, <3>3, <3>4, <3>5 DEF Next, Grok
  <2> QED
    BY <2>1, <2>2, <2>3
<1> QED
  BY <1>1, <1>2, FollowInvHolds, FileTypeCorrect, PipeInit, PipeStep, PTL DEF Spec
=============================================================================
