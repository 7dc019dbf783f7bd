--------------------------- MODULE FileTail_proofs ---------------------------
(* Theorems of FileTail for every set of files, start position, chunk size   *)
(* and bound.                                                                *)
EXTENDS FileTail, TLAPS

USE DEF NoFile, AtEnd

(* Telling an event adds at most that event and loses none. *)
LEMMA TellType ==
  ASSUME NEW kind \in {"modified", "moved"},
         events \in Seq({"modified", "moved"})
  PROVE  /\ Tell(kind) \in Seq({"modified", "moved"})
         /\ \E n \in 1..Len(Tell(kind)) : Tell(kind)[n] = kind
         /\ \A n \in 1..Len(events) :
              \E m \in 1..Len(Tell(kind)) : Tell(kind)[m] = events[n]
<1>1. CASE events # << >> /\ events[Len(events)] = kind
  BY <1>1 DEF Tell
<1>2. CASE ~(events # << >> /\ events[Len(events)] = kind)
  <2>1. Tell(kind) = Append(events, kind)
    BY <1>2 DEF Tell
  <2>2. /\ Len(Tell(kind)) = Len(events) + 1
        /\ Tell(kind)[Len(events) + 1] = kind
        /\ \A n \in 1..Len(events) : Tell(kind)[n] = events[n]
    BY <2>1
  <2>3. Len(events) \in Nat
    OBVIOUS
  <2> QED
    BY <2>1, <2>2, <2>3
<1> QED
  BY <1>1, <1>2

(* The initial state has the right types. *)
LEMMA InitType == Init => TypeOK
<1> SUFFICES ASSUME Init PROVE TypeOK
  OBVIOUS
<1>1. content \in [Inode -> Seq(LineNo)] /\ seen \in Seq(LineNo)
      /\ events \in Seq({"modified", "moved"})
  BY DEF Init
<1>2. written \in 0..MaxLines /\ turns \in 0..MaxTurns /\ base \in 0..MaxLines
  BY TailSizes DEF Init
<1> QED
  BY <1>1, <1>2 DEF Init, TypeOK

(* Reading delivers lines of the file and moves forward. *)
LEMMA ReadType ==
  ASSUME TypeOK, Read, file \in Inode
  PROVE  seen' \in Seq(LineNo) /\ pos' \in Nat
<1> DEFINE n == Least(Chunk, Len(Unread))
<1>1. content[file] \in Seq(LineNo)
  BY DEF TypeOK
<1>2. pos \in Nat /\ FileSize(file) \in Nat
  BY <1>1 DEF TypeOK, FileSize
<1>3. Unread \in Seq(LineNo)
  BY <1>1, <1>2 DEF Unread, FileSize
<1>4. n \in 0..Len(Unread)
  BY <1>3, TailSizes DEF Least
<1>5. SubSeq(Unread, 1, n) \in Seq(LineNo)
  BY <1>3, <1>4
<1>6. seen' = seen \o SubSeq(Unread, 1, n) /\ pos' = pos + n
  BY DEF Read
<1>7. pos' \in Nat
  <2>1. Len(Unread) \in Nat
    BY <1>3
  <2>2. n \in Nat
    BY <1>4, <2>1
  <2> HIDE DEF n
  <2> QED
    BY <1>2, <1>6, <2>2
<1>8. seen' \in Seq(LineNo)
  <2>1. seen \in Seq(LineNo)
    BY DEF TypeOK
  <2> HIDE DEF n
  <2> QED
    BY <1>5, <1>6, <2>1
<1> QED
  BY <1>7, <1>8

(* A file is open whenever the reactor runs. *)
FileOpen ==
  /\ pc \in {"seek", "watch", "loop", "eof", "reopen"} => file \in Inode
  /\ pc \in {"stat", "open"} => file = NoFile
  /\ pc \in {"seek", "watch"} => timers > 0

LEMMA OpenType ==
  ASSUME TypeOK, NEW next \in {"seek", "loop"}, OpenThen(next)
  PROVE  /\ pc' \in {"stat", "open", "seek", "watch", "loop", "eof", "reopen", "dead"}
         /\ file' \in Inode \cup {NoFile} /\ pos' \in Nat /\ timers' \in Nat
<1>1. path \in Inode \cup {NoFile} /\ pos \in Nat /\ timers \in Nat
  BY DEF TypeOK
<1>2. CASE path = NoFile
  BY <1>1, <1>2 DEF OpenThen
<1>3. CASE path # NoFile
  BY <1>1, <1>3 DEF OpenThen
<1> QED
  BY <1>2, <1>3

(* What initialize does to the types. *)
LEMMA InitializeType ==
  ASSUME TypeOK, FileOpen, Initialize
  PROVE  TypeOK'
<1>1. CASE Stat
  <2>1. path # NoFile => FileSize(path) \in Nat
    BY DEF TypeOK, FileSize
  <2> QED
    BY <1>1, <2>1 DEF Stat, TypeOK, fileVars, histVars
<1>2. CASE OpenFirst
  BY <1>2, OpenType DEF OpenFirst, TypeOK, fileVars, histVars
<1>3. CASE Seek
  <2>1. FileSize(file) \in Nat
    BY <1>3 DEF Seek, FileOpen, TypeOK, FileSize
  <2>2. pos' \in Nat /\ base' \in 0..MaxLines
    BY <1>3, <2>1, TailSizes DEF Seek, SeekStart, TypeOK
  <2> QED
    BY <1>3, <2>2 DEF Seek, TypeOK, fileVars
<1>4. CASE Watch
  BY <1>4 DEF Watch, TypeOK, fileVars, histVars
<1> QED
  BY <1>1, <1>2, <1>3, <1>4 DEF Initialize

(* What the reactor does to the types. *)
LEMMA ReactorType ==
  ASSUME TypeOK, FileOpen, Reactor
  PROVE  TypeOK'
<1>1. CASE Notify
  <2>1. events' \in Seq({"modified", "moved"})
    BY <1>1 DEF Notify, TypeOK
  <2>2. /\ pc' \in {"stat", "open", "seek", "watch", "loop", "eof", "reopen", "dead"}
        /\ file' \in Inode \cup {NoFile} /\ pos' \in Nat /\ timers' \in Nat
    <3>1. CASE OpenThen("loop")
      BY <3>1, OpenType
    <3>2. CASE timers' = timers + 1 /\ UNCHANGED <<pc, file, pos>>
      BY <3>2 DEF TypeOK
    <3> QED
      BY <1>1, <3>1, <3>2 DEF Notify
  <2>3. UNCHANGED <<fstIno, fstSize, watched, fileVars, histVars>>
    BY <1>1 DEF Notify
  <2> QED
    BY <2>1, <2>2, <2>3 DEF TypeOK, fileVars, histVars
<1>2. CASE Read
  <2>1. seen' \in Seq(LineNo) /\ pos' \in Nat
    BY <1>2, ReadType DEF Read, FileOpen
  <2> QED
    BY <1>2, <2>1 DEF Read, Rearm, TypeOK, fileVars
<1>3. CASE ReadEof
  BY <1>3 DEF ReadEof, TypeOK, fileVars, histVars
<1>4. CASE EofStat
  <2>1. path # NoFile => FileSize(path) \in Nat
    BY DEF TypeOK, FileSize
  <2>2. fstIno' \in Inode \cup {NoFile} /\ fstSize' \in Nat
    BY <1>4, <2>1 DEF EofStat, TypeOK
  <2>3. pos' \in Nat /\ timers' \in Nat
    BY <1>4 DEF EofStat, TypeOK
  <2>4. pc' \in {"stat", "open", "seek", "watch", "loop", "eof", "reopen", "dead"}
    BY <1>4 DEF EofStat
  <2>5. UNCHANGED <<file, watched, events, fileVars, histVars>>
    BY <1>4 DEF EofStat
  <2> QED
    BY <2>2, <2>3, <2>4, <2>5 DEF TypeOK, fileVars, histVars
<1>5. CASE Reopen
  BY <1>5, OpenType DEF Reopen, TypeOK, fileVars, histVars
<1> QED
  BY <1>1, <1>2, <1>3, <1>4, <1>5 DEF Reactor

(* What the environment does to the types. *)
Environment == WriteLine \/ Truncate \/ Replace \/ Rename \/ Create

LEMMA NewFileType ==
  ASSUME TypeOK, NEW ino \in Inode, NewFile(ino), turns' \in 0..MaxTurns
  PROVE  TypeOK'
<1>1. content' \in [Inode -> Seq(LineNo)]
  BY DEF NewFile, TypeOK
<1> QED
  BY <1>1 DEF NewFile, TypeOK, tailVars

LEMMA EnvironmentType ==
  ASSUME TypeOK, Environment
  PROVE  TypeOK'
<1> USE TailSizes
<1>0. events' \in Seq({"modified", "moved"})
  BY TellType
  DEF Environment, WriteLine, Truncate, Replace, Create, NewFile, Rename, TypeOK
<1>1. CASE WriteLine
  <2>1. written' \in 1..MaxLines /\ written' = written + 1
    BY <1>1 DEF WriteLine, TypeOK
  <2>2. Append(content[wfd], written + 1) \in Seq(LineNo)
    BY <2>1 DEF TypeOK, LineNo
  <2>3. content' \in [Inode -> Seq(LineNo)]
    BY <1>1, <2>2 DEF WriteLine, TypeOK
  <2>4. missed' \in BOOLEAN
    BY <1>1 DEF WriteLine, TypeOK
  <2> QED
    BY <1>0, <1>1, <2>1, <2>3, <2>4 DEF WriteLine, TypeOK, tailVars
<1>2. CASE Truncate
  <2>1. content' \in [Inode -> Seq(LineNo)] /\ turns' \in 0..MaxTurns
    BY <1>2 DEF Truncate, Turn, TypeOK
  <2>2. missed' \in BOOLEAN
    BY <1>2 DEF Truncate, TypeOK
  <2> QED
    BY <1>0, <1>2, <2>1, <2>2 DEF Truncate, TypeOK, tailVars
<1>3. CASE Replace
  BY <1>3, NewFileType DEF Replace, Turn, TypeOK
<1>4. CASE Rename
  BY <1>0, <1>4 DEF Rename, Turn, TypeOK, tailVars
<1>5. CASE Create
  BY <1>5, NewFileType DEF Create, TypeOK
<1> QED
  BY <1>1, <1>2, <1>3, <1>4, <1>5 DEF Environment

-----------------------------------------------------------------------------
(* FileTail always has a file open when it reads one. *)
LEMMA FileOpenStep ==
  ASSUME TypeOK, FileOpen, [Next]_vars
  PROVE  FileOpen'
<1>1. CASE Initialize
  BY <1>1 DEF Initialize, Stat, OpenFirst, OpenThen, Seek, Watch, FileOpen, TypeOK
<1>2. CASE Reactor
  BY <1>2 DEF Reactor, Notify, OpenThen, Read, ReadEof, EofStat, Reopen, FileOpen,
              TypeOK
<1>3. CASE Environment \/ UNCHANGED vars
  BY <1>3 DEF Environment, WriteLine, Truncate, Replace, Create, NewFile, Rename,
              FileOpen, vars, tailVars
<1> QED
  BY <1>1, <1>2, <1>3 DEF Next, Environment

(* Type correctness and the open file, together. *)
LEMMA TailInductive == Spec => [](TypeOK /\ FileOpen)
<1>1. Init => TypeOK /\ FileOpen
  BY InitType DEF Init, FileOpen
<1>2. TypeOK /\ FileOpen /\ [Next]_vars => TypeOK' /\ FileOpen'
  <2> SUFFICES ASSUME TypeOK, FileOpen, [Next]_vars PROVE TypeOK' /\ FileOpen'
    OBVIOUS
  <2>1. CASE Initialize
    BY <2>1, InitializeType, FileOpenStep
  <2>2. CASE Reactor
    BY <2>2, ReactorType, FileOpenStep
  <2>3. CASE Environment
    BY <2>3, EnvironmentType, FileOpenStep
  <2>4. CASE UNCHANGED vars
    BY <2>4, FileOpenStep DEF vars, tailVars, fileVars, histVars, TypeOK
  <2> QED
    BY <2>1, <2>2, <2>3, <2>4 DEF Next, Environment
<1> QED
  BY <1>1, <1>2, PTL DEF Spec

(* Every variable of a FileTail keeps its type: in particular it never seeks *)
(* before the file, and never counts a scheduled read that is not there.     *)
THEOREM TailTypeCorrect == Spec => []TypeOK
BY TailInductive, PTL

-----------------------------------------------------------------------------
(* No event is lost but by Notify. *)
LEMMA EventsKept ==
  ASSUME TypeOK, Environment
  PROVE  \A n \in 1..Len(events) : \E m \in 1..Len(events') : events'[m] = events[n]
BY TellType
DEF Environment, WriteLine, Truncate, Replace, Create, NewFile, Rename, TypeOK

(* A step of FileTail itself never goes to sleep over unread data. *)
LEMMA AwakeReactor ==
  ASSUME TypeOK, FileOpen, FileOpen', Awake, Initialize \/ Reactor
  PROVE  Awake'
<1> SUFFICES ASSUME pc' # "dead", file' # NoFile, pos' < FileSize(file)'
             PROVE  timers' > 0 \/ file' # watched'
                    \/ "modified" \in {events'[n] : n \in 1..Len(events')}
  BY DEF Awake
<1> content' = content
  BY DEF Initialize, Reactor, Stat, OpenFirst, Seek, Watch, Notify, Read, ReadEof,
         EofStat, Reopen, fileVars
<1>1. CASE Stat
  BY <1>1 DEF Stat, FileOpen
<1>2. CASE OpenFirst \/ Reopen
  BY <1>2 DEF OpenFirst, Reopen, OpenThen, TypeOK
<1>3. CASE Seek \/ Watch
  BY <1>3 DEF Seek, Watch, FileOpen
<1>4. CASE Notify
  BY <1>4 DEF Notify, OpenThen, TypeOK
<1>5. CASE Read
  BY <1>5 DEF Read, Rearm
<1>6. CASE ReadEof
  <2>1. file \in Inode /\ content[file] \in Seq(LineNo) /\ pos \in Nat
    BY <1>6 DEF ReadEof, FileOpen, TypeOK
  <2>2. pos < Len(content[file]) => Len(Unread) > 0
    BY <2>1 DEF Unread, FileSize
  <2>3. Len(Unread) = 0
    BY <1>6 DEF ReadEof
  <2> QED
    BY <1>6, <2>2, <2>3 DEF ReadEof, FileSize
<1>7. CASE EofStat
  BY <1>7 DEF EofStat, Awake, FileSize, TypeOK
<1> QED
  BY <1>1, <1>2, <1>3, <1>4, <1>5, <1>6, <1>7 DEF Initialize, Reactor

(* What the environment does to the open file it also tells. *)
LEMMA AwakeEnvironment ==
  ASSUME TypeOK, Awake, Environment
  PROVE  Awake'
<1> SUFFICES ASSUME pc' # "dead", file' # NoFile, pos' < FileSize(file)'
             PROVE  timers' > 0 \/ file' # watched'
                    \/ \E n \in 1..Len(events') : events'[n] = "modified"
  BY DEF Awake
<1>0. /\ pc' = pc /\ file' = file /\ pos' = pos /\ timers' = timers
      /\ file \in Inode /\ pos \in Nat
  BY DEF Environment, WriteLine, Truncate, Replace, Create, NewFile, Rename,
         tailVars, TypeOK
<1>1. CASE content'[file] = content[file] /\ (watched' = watched \/ file # watched')
  <2>1. pos < FileSize(file)
    BY <1>0, <1>1 DEF FileSize
  <2>2. timers > 0 \/ file # watched
        \/ \E n \in 1..Len(events) : events[n] = "modified"
    BY <1>0, <2>1 DEF Awake
  <2> QED
    BY <1>0, <1>1, <2>2, EventsKept
<1>2. CASE WriteLine
  <2>1. CASE wfd # file
    BY <1>1, <1>2, <2>1 DEF WriteLine, TypeOK
  <2>2. CASE wfd = file
    BY <1>0, <1>2, <2>2, TellType DEF WriteLine, TypeOK
  <2> QED
    BY <2>1, <2>2
<1>3. CASE Truncate
  <2>1. CASE path # file
    BY <1>1, <1>3, <2>1 DEF Truncate, TypeOK
  <2>2. CASE path = file
    BY <1>0, <1>3, <2>2 DEF Truncate, TypeOK, FileSize
  <2> QED
    BY <2>1, <2>2
<1>4. CASE Replace \/ Create
  <2>1. PICK ino \in Inode : NewFile(ino)
    BY <1>4 DEF Replace, Create
  <2> QED
    BY <1>0, <1>1, <2>1 DEF NewFile, TypeOK
<1>5. CASE Rename
  BY <1>1, <1>5 DEF Rename
<1> QED
  BY <1>2, <1>3, <1>4, <1>5 DEF Environment

(* However writer, rotation and reactor interleave, FileTail never sleeps    *)
(* over data in the file it has open and watches.                            *)
THEOREM AwakeHolds == Spec => []Awake
<1>1. Init => Awake
  BY DEF Init, Awake
<1>2. (TypeOK /\ FileOpen) /\ (TypeOK /\ FileOpen)' /\ Awake /\ [Next]_vars => Awake'
  <2> SUFFICES ASSUME TypeOK, FileOpen, FileOpen', Awake, [Next]_vars PROVE Awake'
    OBVIOUS
  <2>1. CASE Initialize \/ Reactor
    BY <2>1, AwakeReactor
  <2>2. CASE Environment
    BY <2>2, AwakeEnvironment
  <2>3. CASE UNCHANGED vars
    BY <2>3 DEF vars, tailVars, fileVars, histVars, Awake, FileSize
  <2> QED
    BY <2>1, <2>2, <2>3 DEF Next, Environment
<1> QED
  BY <1>1, <1>2, TailInductive, PTL DEF Spec

-----------------------------------------------------------------------------
(* Where a FileTail is in its file, as long as no change was missed: the     *)
(* name then has kept the one file, which may have been truncated.           *)

Before == written - Len(content[wfd])   \* lines written before the last truncation

WriterInv ==
  /\ path = wfd
  /\ Len(content[wfd]) <= written
  /\ \A k \in 1..Len(content[wfd]) : content[wfd][k] = Before + k
  /\ \A n \in 1..Len(events) : events[n] = "modified"

(* In initialize nothing was truncated and nothing is read yet.              *)
Starting ==
  /\ pc \in {"stat", "open", "seek", "watch"} => Before = 0 /\ seen = << >>
  /\ pc \in {"stat", "open", "seek"} => base = 0
  /\ pc \in {"open", "seek"} => fstIno = wfd /\ fstSize <= FileSize(wfd)
  /\ pc = "seek" => file = wfd /\ pos = 0
  /\ pc \notin {"reopen", "dead"}

(* What was given to receive_data.                                           *)
InOrder ==
  /\ base + Len(seen) <= written
  /\ \A k \in 1..Len(seen) : seen[k] = base + k

(* It stands behind the last line it gave ...                                *)
At == /\ pos <= FileSize(wfd) /\ fstSize <= FileSize(wfd)
      /\ base + Len(seen) = Before + pos

(* ... or the file was truncated when it stood at its end, and is shorter    *)
(* than at the last stat.                                                    *)
Shrank == /\ FileSize(wfd) < fstSize /\ fstSize <= pos
          /\ base + Len(seen) = Before

Position == pc \in {"watch", "loop", "eof"} =>
              /\ file = wfd /\ fstIno = wfd
              /\ At \/ Shrank

TailInv == ~missed => WriterInv /\ Starting /\ InOrder /\ Position

-----------------------------------------------------------------------------
(* The numbers the invariant counts with. *)
CountsOK ==
  /\ Len(seen) \in Nat /\ wfd \in Inode /\ wfd # NoFile
  /\ content[wfd] \in Seq(LineNo)
  /\ FileSize(wfd) \in Nat /\ FileSize(wfd) = Len(content[wfd])
  /\ written \in Nat /\ pos \in Nat /\ fstSize \in Nat /\ base \in Nat
  /\ Before \in Int /\ Before = written - FileSize(wfd)

LEMMA Counts == TypeOK => CountsOK
<1> SUFFICES ASSUME TypeOK PROVE CountsOK
  OBVIOUS
<1>1. wfd \in Inode /\ content[wfd] \in Seq(LineNo) /\ seen \in Seq(LineNo)
  BY DEF TypeOK
<1>2. wfd # NoFile
  BY <1>1, TailInodes
<1>3. written \in Nat /\ pos \in Nat /\ fstSize \in Nat /\ base \in Nat
  BY TailSizes DEF TypeOK
<1>4. /\ FileSize(wfd) \in Nat /\ FileSize(wfd) = Len(content[wfd]) /\ Len(seen) \in Nat
  BY <1>1 DEF FileSize
<1>5. Before \in Int /\ Before = written - FileSize(wfd)
  BY <1>3, <1>4 DEF Before
<1> QED
  BY <1>1, <1>2, <1>3, <1>4, <1>5 DEF CountsOK

LEMMA TailStarts == Init => TailInv
<1> SUFFICES ASSUME Init PROVE TailInv
  OBVIOUS
<1>1. wfd = path /\ path \in Inode /\ written = 0 /\ pc = "stat" /\ base = 0
      /\ events = << >> /\ seen = << >>
  BY DEF Init
<1>2. Len(<< >>) = 0
  OBVIOUS
<1>3. Len(content[wfd]) = 0
  <2>1. content = [ino \in Inode |-> << >>]
    BY DEF Init
  <2>2. content[wfd] = << >>
    BY <1>1, <2>1
  <2> QED
    BY <1>2, <2>2, Zenon
<1>4. Before = 0
  <2>1. written = 0
    BY <1>1
  <2> QED
    BY <1>3, <2>1 DEF Before
<1>5. Len(events) = 0 /\ Len(seen) = 0
  BY <1>1, <1>2
<1>6. WriterInv
  BY <1>1, <1>3, <1>5 DEF WriterInv
<1>7. Starting
  BY <1>1, <1>4 DEF Starting
<1>8. InOrder
  BY <1>1, <1>5 DEF InOrder
<1> QED
  BY <1>1, <1>6, <1>7, <1>8 DEF TailInv, Position

(* What is left to read is the rest of the file. *)
LEMMA UnreadLines ==
  ASSUME TypeOK, file = wfd
  PROVE  /\ Unread \in Seq(LineNo)
         /\ pos < FileSize(wfd) => Len(Unread) = FileSize(wfd) - pos
         /\ pos >= FileSize(wfd) => Unread = << >>
         /\ \A k \in 1..Len(Unread) : Unread[k] = content[wfd][pos + k]
<1>1. content[wfd] \in Seq(LineNo) /\ pos \in Nat
  BY DEF TypeOK
<1>2. FileSize(wfd) = Len(content[wfd]) /\ Len(content[wfd]) \in Nat
  BY <1>1 DEF FileSize
<1>3. Unread = SubSeq(content[wfd], pos + 1, Len(content[wfd]))
  BY DEF Unread, FileSize
<1> QED
  BY <1>1, <1>2, <1>3

(* The steps of initialize. *)
LEMMA TailInitialize ==
  ASSUME TypeOK, TailInv, Initialize
  PROVE  TailInv'
<1> /\ Len(seen) \in Nat /\ FileSize(wfd) \in Nat /\ Before \in Int
    /\ written \in Nat /\ pos \in Nat /\ fstSize \in Nat /\ base \in Nat
  BY Counts DEF CountsOK
<1>b. Before = written - FileSize(wfd)
  BY Counts DEF CountsOK
<1>c. /\ wfd \in Inode /\ wfd # NoFile /\ content[wfd] \in Seq(LineNo)
      /\ FileSize(wfd) = Len(content[wfd])
  BY Counts DEF CountsOK
<1>1. UNCHANGED fileVars /\ missed' = missed /\ events' = events /\ seen' = seen
  BY DEF Initialize, Stat, OpenFirst, Seek, Watch, histVars
<1> SUFFICES ASSUME ~missed PROVE WriterInv' /\ Starting' /\ InOrder' /\ Position'
  BY <1>1 DEF TailInv
<1>2. WriterInv /\ Starting /\ InOrder /\ Position
  BY DEF TailInv
<1>3. /\ Before' = Before /\ wfd' = wfd /\ written' = written
      /\ FileSize(wfd)' = FileSize(wfd) /\ path = wfd
  BY <1>1, <1>2 DEF Before, FileSize, fileVars, WriterInv
<1>4. WriterInv'
  BY <1>1, <1>2, <1>3 DEF WriterInv, fileVars
<1>5. CASE Stat
  BY <1>1, <1>2, <1>3, <1>4, <1>5, <1>c DEF Stat, Starting, InOrder, Position, histVars
<1>6. CASE OpenFirst
  BY <1>1, <1>2, <1>3, <1>4, <1>6, <1>c
     DEF OpenFirst, OpenThen, Starting, InOrder, Position, histVars
<1>7. CASE Watch
  BY <1>1, <1>2, <1>3, <1>4, <1>7, <1>c
     DEF Watch, Starting, InOrder, Position, At, Shrank, histVars
<1>8. CASE Seek
  <2>1. /\ pc = "seek" /\ pc' = "watch" /\ file = wfd /\ fstIno = wfd /\ pos = 0
        /\ fstSize <= FileSize(wfd) /\ Before = 0 /\ seen = << >>
        /\ UNCHANGED <<file, fstIno, fstSize>>
    BY <1>2, <1>8 DEF Seek, Starting
  <2>2. Len(seen) = 0 /\ Len(seen') = 0
    BY <1>1, <2>1
  <2>3. Starting'
    BY <1>1, <1>3, <2>1 DEF Starting
  <2>4. written = FileSize(wfd)
    BY <1>b, <2>1
  <2>5. /\ base' = pos' /\ pos' <= FileSize(wfd) /\ pos' \in Nat
    BY <1>8, <2>1, <2>4 DEF Seek, SeekStart
  <2>6. InOrder'
    BY <1>3, <2>2, <2>4, <2>5 DEF InOrder
  <2>7. At'
    BY <1>3, <2>1, <2>2, <2>5 DEF At, FileSize
  <2> QED
    BY <1>3, <1>4, <2>1, <2>3, <2>6, <2>7 DEF Position
<1> QED
  BY <1>5, <1>6, <1>7, <1>8 DEF Initialize

(* A read of data. *)
LEMMA TailRead ==
  ASSUME TypeOK, TailInv, Read
  PROVE  TailInv'
<1> /\ Len(seen) \in Nat /\ FileSize(wfd) \in Nat /\ Before \in Int
    /\ written \in Nat /\ pos \in Nat /\ fstSize \in Nat /\ base \in Nat
  BY Counts DEF CountsOK
<1>b. Before = written - FileSize(wfd)
  BY Counts DEF CountsOK
<1>c. /\ wfd \in Inode /\ wfd # NoFile /\ content[wfd] \in Seq(LineNo)
      /\ FileSize(wfd) = Len(content[wfd])
  BY Counts DEF CountsOK
<1>1. UNCHANGED <<fileVars, missed, events, base, pc, file, fstIno, fstSize>>
  BY DEF Read
<1> SUFFICES ASSUME ~missed PROVE WriterInv' /\ Starting' /\ InOrder' /\ Position'
  BY <1>1 DEF TailInv
<1>2. WriterInv /\ Starting /\ InOrder /\ Position
  BY DEF TailInv
<1>3. /\ Before' = Before /\ wfd' = wfd /\ written' = written
      /\ FileSize(wfd)' = FileSize(wfd)
  BY <1>1 DEF Before, FileSize, fileVars
<1>4. WriterInv'
  BY <1>1, <1>2, <1>3 DEF WriterInv, fileVars
<1>5. Starting'
  BY <1>1, <1>2 DEF Read, Starting
<1>6. file = wfd /\ fstIno = wfd /\ (At \/ Shrank)
  BY <1>2 DEF Read, Position
<1>7. At /\ pos < FileSize(wfd)
  <2>1. ~(pos >= FileSize(wfd))
    BY <1>6, UnreadLines DEF Read
  <2>2. pos < FileSize(wfd)
    BY <2>1
  <2> QED
    BY <1>6, <2>2 DEF Shrank
<1>8. PICK n \in Nat : /\ n = Least(Chunk, Len(Unread)) /\ n <= Len(Unread)
                       /\ pos + n <= FileSize(wfd)
  <2>1. Len(Unread) = FileSize(wfd) - pos /\ Len(Unread) \in Nat
    BY <1>6, <1>7, UnreadLines
  <2>2. Least(Chunk, Len(Unread)) \in Nat /\ Least(Chunk, Len(Unread)) <= Len(Unread)
    BY <2>1, TailSizes DEF Least
  <2> QED
    BY <2>1, <2>2
<1> DEFINE new == SubSeq(Unread, 1, n)
<1>9. seen' = seen \o new /\ pos' = pos + n
  BY <1>8 DEF Read
<1>10. /\ new \in Seq(LineNo) /\ Len(new) = n
       /\ \A k \in 1..n : new[k] = content[wfd][pos + k]
  <2>1. /\ Unread \in Seq(LineNo)
        /\ \A k \in 1..Len(Unread) : Unread[k] = content[wfd][pos + k]
    BY <1>6, UnreadLines
  <2>2. new \in Seq(LineNo) /\ Len(new) = n /\ \A k \in 1..n : new[k] = Unread[k]
    BY <1>8, <2>1
  <2>3. \A k \in 1..n : k \in 1..Len(Unread)
    BY <1>8, <2>1
  <2> QED
    BY <2>1, <2>2, <2>3
<1> HIDE DEF new
<1>11. seen \in Seq(LineNo)
  BY DEF TypeOK
<1>12. /\ Len(seen') = Len(seen) + n
       /\ \A k \in 1..Len(seen) : seen'[k] = seen[k]
       /\ \A k \in 1..n : seen'[Len(seen) + k] = new[k]
  <2>1. Len(seen') = Len(seen) + Len(new)
    <3>1. new \in Seq(LineNo)
      BY <1>10
    <3>2. Len(seen \o new) = Len(seen) + Len(new)
      BY <1>11, <3>1
    <3> QED
      BY <1>9, <3>2
  <2>2. \A k \in 1..Len(seen) : seen'[k] = seen[k]
    BY <1>9, <1>10, <1>11
  <2>3. \A k \in 1..Len(new) : seen'[Len(seen) + k] = new[k]
    BY <1>9, <1>10, <1>11
  <2> QED
    BY <1>10, <2>1, <2>2, <2>3
<1>13. base + Len(seen) = Before + pos
  BY <1>7 DEF At
<1>14. InOrder'
  <2>1. ASSUME NEW k \in 1..(Len(seen) + n) PROVE seen'[k] = base + k
    <3>1. CASE k \in 1..Len(seen)
      BY <1>2, <1>12, <3>1 DEF InOrder
    <3>2. CASE k \notin 1..Len(seen)
      <4>1. PICK j \in 1..n : k = Len(seen) + j
        <5>1. k - Len(seen) \in 1..n /\ k = Len(seen) + (k - Len(seen))
          BY <3>2
        <5> QED
          BY <5>1
      <4>2. seen'[Len(seen) + j] = content[wfd][pos + j]
        BY <1>10, <1>12
      <4>3. pos + j \in 1..FileSize(wfd)
        BY <1>8
      <4>4. content[wfd][pos + j] = Before + (pos + j)
        BY <1>2, <1>c, <4>3 DEF WriterInv
      <4>5. Before + (pos + j) = base + (Len(seen) + j)
        BY <1>13
      <4> QED
        BY <4>1, <4>2, <4>4, <4>5
    <3> QED
      BY <3>1, <3>2
  <2>2. base + (Len(seen) + n) <= written
    <3>1. base + (Len(seen) + n) = Before + (pos + n)
      BY <1>13
    <3>2. Before + (pos + n) <= Before + FileSize(wfd)
      BY <1>8
    <3>3. Before + FileSize(wfd) = written
      BY <1>b
    <3> QED
      BY <3>1, <3>2, <3>3
  <2> QED
    BY <1>1, <1>3, <1>12, <2>1, <2>2 DEF InOrder
<1>15. Position'
  <2>1. base' + Len(seen') = Before' + pos'
    <3>1. base + (Len(seen) + n) = Before + (pos + n)
      BY <1>13
    <3> QED
      BY <1>1, <1>3, <1>9, <1>12, <3>1
  <2>2. fstSize <= FileSize(wfd)
    BY <1>7 DEF At
  <2>3. At'
    BY <1>1, <1>3, <1>8, <1>9, <2>1, <2>2 DEF At
  <2> QED
    BY <1>1, <1>3, <1>6, <2>3 DEF Position
<1> QED
  BY <1>4, <1>5, <1>14, <1>15

(* The other steps of the reactor. *)
LEMMA TailReactor ==
  ASSUME TypeOK, TailInv, Notify \/ ReadEof \/ EofStat \/ Reopen
  PROVE  TailInv'
<1> /\ Len(seen) \in Nat /\ FileSize(wfd) \in Nat /\ Before \in Int
    /\ written \in Nat /\ pos \in Nat /\ fstSize \in Nat /\ base \in Nat
  BY Counts DEF CountsOK
<1>b. Before = written - FileSize(wfd)
  BY Counts DEF CountsOK
<1>c. /\ wfd \in Inode /\ wfd # NoFile /\ content[wfd] \in Seq(LineNo)
      /\ FileSize(wfd) = Len(content[wfd])
  BY Counts DEF CountsOK
<1>1. UNCHANGED <<fileVars, histVars>>
  BY DEF Notify, ReadEof, EofStat, Reopen
<1> SUFFICES ASSUME ~missed PROVE WriterInv' /\ Starting' /\ InOrder' /\ Position'
  BY <1>1 DEF TailInv, histVars
<1>2. WriterInv /\ Starting /\ InOrder /\ Position
  BY DEF TailInv
<1>3. /\ Before' = Before /\ wfd' = wfd /\ written' = written /\ path = wfd
      /\ FileSize(wfd)' = FileSize(wfd) /\ seen' = seen /\ base' = base
  BY <1>1, <1>2 DEF Before, FileSize, fileVars, histVars, WriterInv
<1>4. InOrder'
  BY <1>2, <1>3 DEF InOrder
<1>5. CASE Notify
  <2>1. events # << >> /\ events' = Tail(events) /\ Head(events) = events[1]
        /\ events \in Seq({"modified", "moved"}) /\ Len(events) > 0
    BY <1>5 DEF Notify, TypeOK
  <2>2. Head(events) = "modified"
    BY <1>2, <2>1 DEF WriterInv
  <2>3. \A n \in 1..Len(events') : events'[n] = events[n + 1] /\ n + 1 \in 1..Len(events)
    BY <2>1
  <2>4. WriterInv'
    BY <1>1, <1>2, <1>3, <2>3 DEF WriterInv, fileVars
  <2>5. UNCHANGED <<pc, file, pos, fstIno, fstSize>>
    BY <1>5, <2>2 DEF Notify
  <2> QED
    BY <1>2, <1>3, <1>4, <2>4, <2>5 DEF Starting, Position, At, Shrank
<1>6. CASE ReadEof
  <2>1. WriterInv'
    BY <1>1, <1>2, <1>3, <1>6 DEF WriterInv, fileVars, ReadEof
  <2> QED
    BY <1>2, <1>3, <1>4, <1>6, <2>1 DEF ReadEof, Starting, Position, At, Shrank
<1>7. CASE EofStat
  <2>1. WriterInv'
    BY <1>1, <1>2, <1>3, <1>7 DEF WriterInv, fileVars, EofStat
  <2>2. file = wfd /\ fstIno = wfd /\ (At \/ Shrank) /\ pc = "eof"
    BY <1>2, <1>7 DEF Position, EofStat
  <2>3. /\ fstIno' = wfd /\ fstSize' = FileSize(wfd) /\ file' = wfd /\ pc' = "loop"
        /\ pos' = IF FileSize(wfd) < fstSize THEN 0 ELSE pos
    BY <1>3, <1>c, <1>7, <2>2 DEF EofStat, Truncated
  <2>4. At'
    BY <1>3, <2>2, <2>3 DEF At, Shrank
  <2>5. Starting'
    BY <2>3 DEF Starting
  <2> QED
    BY <1>3, <1>4, <2>1, <2>3, <2>4, <2>5 DEF Position
<1>8. CASE Reopen
  BY <1>2, <1>8 DEF Reopen, Starting
<1> QED
  BY <1>5, <1>6, <1>7, <1>8

(* No event comes but the one that is told. *)
LEMMA TellOnly ==
  ASSUME TypeOK, \A n \in 1..Len(events) : events[n] = "modified"
  PROVE  \A n \in 1..Len(Tell("modified")) : Tell("modified")[n] = "modified"
<1>1. events \in Seq({"modified", "moved"})
  BY DEF TypeOK
<1>2. CASE Tell("modified") = events
  BY <1>2
<1>3. CASE Tell("modified") = Append(events, "modified")
  BY <1>1, <1>3
<1> QED
  BY <1>2, <1>3 DEF Tell

LEMMA TailWrite ==
  ASSUME TypeOK, TailInv, WriteLine
  PROVE  TailInv'
<1> /\ Len(seen) \in Nat /\ FileSize(wfd) \in Nat /\ Before \in Int
    /\ written \in Nat /\ pos \in Nat /\ fstSize \in Nat /\ base \in Nat
  BY Counts DEF CountsOK
<1>b. Before = written - FileSize(wfd)
  BY Counts DEF CountsOK
<1>c. /\ wfd \in Inode /\ wfd # NoFile /\ content[wfd] \in Seq(LineNo)
      /\ FileSize(wfd) = Len(content[wfd])
  BY Counts DEF CountsOK
<1> DEFINE size == FileSize(wfd)
<1> SUFFICES ASSUME ~missed' PROVE WriterInv' /\ Starting' /\ InOrder' /\ Position'
  BY DEF TailInv
<1>1. /\ ~missed
      /\ ~(pc \notin {"stat", "open", "seek"} /\ size < pos /\ size + 1 >= fstSize)
  BY DEF WriteLine
<1>2. WriterInv /\ Starting /\ InOrder /\ Position
  BY <1>1 DEF TailInv
<1>3. /\ written' = written + 1 /\ path' = path /\ wfd' = wfd
      /\ content' = [content EXCEPT ![wfd] = Append(@, written + 1)]
      /\ UNCHANGED <<pc, file, pos, fstIno, fstSize, seen, base>>
      /\ events' = IF wfd = watched THEN Tell("modified") ELSE events
  BY DEF WriteLine, tailVars
<1>4. content'[wfd] = Append(content[wfd], written + 1)
  BY <1>3 DEF TypeOK
<1>5. /\ Len(content'[wfd]) = size + 1
      /\ \A k \in 1..size : content'[wfd][k] = content[wfd][k]
      /\ content'[wfd][size + 1] = written + 1
  <2>1. content[wfd] \in Seq(LineNo) /\ size = Len(content[wfd])
    BY <1>c
  <2> QED
    BY <1>4, <2>1
<1>6. FileSize(wfd)' = size + 1 /\ Before' = Before
  <2>1. FileSize(wfd)' = Len(content'[wfd]) /\ Before' = written' - Len(content'[wfd'])
    BY <1>3 DEF FileSize, Before
  <2>2. Before' = (written + 1) - (size + 1)
    BY <1>3, <1>5, <2>1
  <2>3. (written + 1) - (size + 1) = Before
    BY <1>b
  <2> QED
    BY <1>5, <2>1, <2>2, <2>3
<1> HIDE DEF size
<1>7. size = FileSize(wfd) /\ size \in Nat
  BY DEF size
<1>8. WriterInv'
  <2>1. \A k \in 1..(size + 1) : content'[wfd][k] = Before + k
    <3> TAKE k \in 1..(size + 1)
    <3>1. CASE k \in 1..size
      <4>1. content[wfd][k] = Before + k
        BY <1>2, <1>c, <1>7, <3>1 DEF WriterInv
      <4> QED
        BY <1>5, <3>1, <4>1
    <3>2. CASE k = size + 1
      <4>1. Before + k = written + 1
        BY <1>b, <1>7, <3>2
      <4> QED
        BY <1>5, <3>2, <4>1
    <3> QED
      BY <1>7, <3>1, <3>2
  <2>2. size + 1 <= written + 1
    BY <1>2, <1>c, <1>7 DEF WriterInv
  <2>3. path' = wfd'
    BY <1>2, <1>3 DEF WriterInv
  <2>4. \A n \in 1..Len(events') : events'[n] = "modified"
    BY <1>2, <1>3, TellOnly DEF WriterInv
  <2> QED
    BY <1>3, <1>5, <1>6, <2>1, <2>2, <2>3, <2>4 DEF WriterInv
<1>9. Starting'
  BY <1>2, <1>3, <1>6, <1>7 DEF Starting
<1>10. InOrder'
  BY <1>2, <1>3 DEF InOrder
<1>11. Position'
  <2>1. CASE pc \notin {"watch", "loop", "eof"}
    BY <1>3, <2>1 DEF Position
  <2>2. CASE pc \in {"watch", "loop", "eof"} /\ At
    BY <1>2, <1>3, <1>6, <1>7, <2>2 DEF Position, At
  <2>3. CASE pc \in {"watch", "loop", "eof"} /\ Shrank
    <3>1. size < pos
      BY <1>7, <2>3 DEF Shrank
    <3>2. size + 1 < fstSize
      BY <1>1, <1>7, <2>3, <3>1
    <3> QED
      BY <1>2, <1>3, <1>6, <1>7, <2>3, <3>2 DEF Position, Shrank
  <2> QED
    BY <1>2, <2>1, <2>2, <2>3 DEF Position
<1> QED
  BY <1>8, <1>9, <1>10, <1>11

LEMMA TailTruncate ==
  ASSUME TypeOK, TailInv, Truncate
  PROVE  TailInv'
<1> /\ Len(seen) \in Nat /\ FileSize(wfd) \in Nat /\ Before \in Int
    /\ written \in Nat /\ pos \in Nat /\ fstSize \in Nat /\ base \in Nat
  BY Counts DEF CountsOK
<1>b. Before = written - FileSize(wfd)
  BY Counts DEF CountsOK
<1>c. /\ wfd \in Inode /\ wfd # NoFile /\ content[wfd] \in Seq(LineNo)
      /\ FileSize(wfd) = Len(content[wfd])
  BY Counts DEF CountsOK
<1> SUFFICES ASSUME ~missed' PROVE WriterInv' /\ Starting' /\ InOrder' /\ Position'
  BY DEF TailInv
<1>1. /\ ~missed /\ pc \in {"loop", "eof"} /\ pos = FileSize(path)
      /\ ~(pos > 0 /\ fstSize = 0)
  BY DEF Truncate
<1>2. WriterInv /\ Starting /\ InOrder /\ Position /\ path = wfd
  BY <1>1 DEF TailInv, WriterInv
<1>3. /\ content' = [content EXCEPT ![wfd] = << >>]
      /\ events' = IF wfd = watched THEN Tell("modified") ELSE events
      /\ UNCHANGED <<pc, file, pos, fstIno, fstSize, seen, base, path, wfd, written>>
  BY <1>2 DEF Truncate, tailVars
<1>4. content'[wfd] = << >>
  BY <1>3 DEF TypeOK
<1>5. Len(content'[wfd]) = 0 /\ FileSize(wfd)' = 0 /\ Before' = written
  <2>1. Len(<< >>) = 0
    OBVIOUS
  <2>2. Len(content'[wfd]) = 0
    BY <1>4, <2>1, Zenon
  <2>3. FileSize(wfd)' = Len(content'[wfd]) /\ Before' = written - Len(content'[wfd])
    BY <1>3 DEF FileSize, Before
  <2> QED
    BY <2>2, <2>3
<1>6. WriterInv'
  <2>1. \A n \in 1..Len(events') : events'[n] = "modified"
    BY <1>2, <1>3, TellOnly DEF WriterInv
  <2> QED
    BY <1>2, <1>3, <1>5, <2>1 DEF WriterInv
<1>7. Starting'
  BY <1>1, <1>3 DEF Starting
<1>8. InOrder'
  BY <1>2, <1>3 DEF InOrder
<1>9. pos = FileSize(wfd) /\ file = wfd /\ fstIno = wfd /\ At
  BY <1>1, <1>2 DEF Position, Shrank
<1>10. base + Len(seen) = written /\ fstSize <= pos
  BY <1>b, <1>9 DEF At
<1>11. At' \/ Shrank'
  <2>1. CASE pos = 0
    <3>1. At'
      BY <1>3, <1>5, <1>10, <2>1 DEF At
    <3> QED
      BY <3>1
  <2>2. CASE pos > 0
    <3>1. fstSize > 0
      BY <1>1, <2>2
    <3>2. Shrank'
      BY <1>3, <1>5, <1>10, <3>1 DEF Shrank
    <3> QED
      BY <3>2
  <2> QED
    BY <2>1, <2>2
<1>12. Position'
  BY <1>3, <1>9, <1>11 DEF Position
<1> QED
  BY <1>6, <1>7, <1>8, <1>12

LEMMA TailStep ==
  ASSUME TypeOK, TailInv, [Next]_vars
  PROVE  TailInv'
<1>1. CASE Initialize
  BY <1>1, TailInitialize
<1>2. CASE Reactor
  BY <1>2, TailRead, TailReactor DEF Reactor
<1>3. CASE WriteLine
  BY <1>3, TailWrite
<1>4. CASE Truncate
  BY <1>4, TailTruncate
<1>5. CASE Replace \/ Rename \/ Create
  BY <1>5 DEF Replace, Rename, Create, NewFile, TailInv
<1>6. CASE UNCHANGED vars
  BY <1>6 DEF vars, tailVars, fileVars, histVars, TailInv, WriterInv, Starting,
              InOrder, Position, At, Shrank, Before, FileSize
<1> QED
  BY <1>1, <1>2, <1>3, <1>4, <1>5, <1>6 DEF Next

(* The invariant of tailing: what was given to receive_data are the lines    *)
(* base + 1, base + 2, ... of all that was written, and the position in the  *)
(* file belongs to the last of them.                                         *)
THEOREM TailInvHolds == Spec => []TailInv
<1>1. TypeOK /\ TailInv /\ [Next]_vars => TailInv'
  BY TailStep
<1> QED
  BY <1>1, TailStarts, TailTypeCorrect, PTL DEF Spec

-----------------------------------------------------------------------------
(* A FileTail keeps the promise of FollowedFile, but for its liveness.       *)

Numbered == [n \in 1..Len(seen) |-> seen[n] - base]

(* A read delivers the next lines. *)
LEMMA ReadDelivers ==
  ASSUME TypeOK, TailInv, Read, ~missed
  PROVE  Promise!Arrive
<1> /\ Len(seen) \in Nat /\ base \in Nat /\ pos \in Nat /\ written \in Nat
  BY Counts DEF CountsOK
<1>1. UNCHANGED <<pc, base, written, missed>> /\ pc = "loop"
  BY DEF Read, fileVars
<1>2. file = wfd
  BY <1>1 DEF TailInv, Position
<1>3. InOrder'
  <2>1. TailInv'
    BY TailRead
  <2> QED
    BY <1>1, <2>1 DEF TailInv
<1>4. PICK n \in Nat : n > 0 /\ Len(seen') = Len(seen) + n
  <2>1. Unread \in Seq(LineNo) /\ Unread # << >> /\ seen \in Seq(LineNo)
    BY <1>2, UnreadLines DEF Read, TypeOK
  <2>2. Len(Unread) \in Nat /\ Len(Unread) > 0
    BY <2>1
  <2>3. PICK n \in Nat : n = Least(Chunk, Len(Unread)) /\ n > 0 /\ n <= Len(Unread)
    BY <2>2, TailSizes DEF Least
  <2>4. seen' = seen \o SubSeq(Unread, 1, n)
    BY <2>3 DEF Read
  <2>5. SubSeq(Unread, 1, n) \in Seq(LineNo) /\ Len(SubSeq(Unread, 1, n)) = n
    BY <2>1, <2>2, <2>3
  <2>6. Len(seen \o SubSeq(Unread, 1, n)) = Len(seen) + Len(SubSeq(Unread, 1, n))
    BY <2>1, <2>5
  <2> QED
    BY <2>3, <2>4, <2>5, <2>6
<1> DEFINE last == Len(seen) + n
<1>5. base + last <= written /\ \A k \in 1..last : seen'[k] = base + k
  BY <1>1, <1>3, <1>4 DEF InOrder
<1>6. Numbered' = [k \in 1..last |-> k]
  <2>1. \A k \in 1..last : seen'[k] - base = k
    BY <1>5
  <2>2. Numbered' = [k \in 1..last |-> seen'[k] - base]
    BY <1>1, <1>4 DEF Numbered
  <2> QED
    BY <2>1, <2>2
<1>7. Len(Numbered) = Len(seen)
  BY DEF Numbered
<1>8. Promised = written - base /\ Promised' = Promised
  BY <1>1 DEF Promised
<1>9. last \in (Len(Numbered) + 1)..Promised
  <2>1. last <= written - base
    BY <1>5
  <2>2. last >= Len(seen) + 1
    BY <1>4
  <2> QED
    BY <1>7, <1>8, <2>1, <2>2
<1> HIDE DEF last
<1> QED
  BY <1>1, <1>6, <1>8, <1>9 DEF Promise!Arrive, Numbered

(* A step that delivers no line and writes none. *)
LEMMA NothingArrives ==
  ASSUME TypeOK, TailInv, missed = FALSE, missed' = FALSE,
         Initialize \/ Notify \/ ReadEof \/ EofStat \/ Reopen \/ Truncate
           \/ Replace \/ Rename \/ Create \/ UNCHANGED vars
  PROVE  UNCHANGED <<Promised, Numbered, missed>>
<1>1. WriterInv /\ Starting /\ Position /\ path = wfd /\ path # NoFile
  BY TailInodes DEF TailInv, WriterInv, TypeOK
<1>2. CASE Seek
  <2>1. /\ pc = "seek" /\ pc' = "watch" /\ seen' = << >> /\ seen = << >> /\ base = 0
        /\ written' = written /\ base' = IF StartPos = AtEnd THEN written ELSE 0
    BY <1>1, <1>2 DEF Seek, Starting, fileVars
  <2>2. Len(seen) = 0 /\ Len(seen') = 0
    BY <2>1
  <2>3. Numbered' = Numbered
    BY <2>2 DEF Numbered
  <2>4. written \in Nat
    BY TailSizes DEF TypeOK
  <2>5. Promised' = Promised
    BY <2>1, <2>4 DEF Promised
  <2> QED
    BY <2>3, <2>5
<1>3. CASE ~Seek
  <2>1. UNCHANGED <<written, base, seen>>
    BY <1>3 DEF Initialize, Stat, OpenFirst, Watch, Notify, ReadEof, EofStat, Reopen,
                Truncate, Replace, Rename, Create, NewFile, vars, fileVars, histVars
  <2>2. pc' \in {"stat", "open", "seek"} <=> pc \in {"stat", "open", "seek"}
    BY <1>1, <1>3 DEF Initialize, Stat, OpenFirst, OpenThen, Watch, Notify, ReadEof,
                EofStat, Reopen, Truncate, Replace, Rename, Create, NewFile, vars,
                tailVars
  <2> QED
    BY <2>1, <2>2 DEF Promised, Numbered
<1> QED
  BY <1>2, <1>3

(* A line that is written counts from the start position on. *)
LEMMA WriteCounts ==
  ASSUME TypeOK, WriteLine, missed = FALSE, missed' = FALSE
  PROVE  Promise!Write \/ UNCHANGED <<Promised, Numbered, missed>>
<1>1. written' = written + 1 /\ UNCHANGED <<pc, seen, base>>
  BY DEF WriteLine, tailVars
<1>2. written \in Nat /\ base \in Nat
  BY TailSizes DEF TypeOK
<1>3. Numbered' = Numbered
  BY <1>1 DEF Numbered
<1>4. CASE StartPos = AtEnd /\ pc \in {"stat", "open", "seek"}
  BY <1>1, <1>3, <1>4 DEF Promised
<1>5. CASE ~(StartPos = AtEnd /\ pc \in {"stat", "open", "seek"})
  <2>1. Promised' = written' - base' /\ Promised = written - base
    <3>1. ~(StartPos = AtEnd /\ pc' \in {"stat", "open", "seek"})
      BY <1>1, <1>5
    <3> QED
      BY <1>5, <3>1, Zenon DEF Promised
  <2>2. Promised' = Promised + 1
    BY <1>1, <1>2, <2>1
  <2> QED
    BY <1>3, <2>2 DEF Promise!Write, Numbered
<1> QED
  BY <1>4, <1>5

(* However writer, truncation and reactor interleave, receive_data gets the  *)
(* lines once each and in order, until the file is rotated or a truncation   *)
(* cannot be noticed.  That all of them arrive is checked by TLC             *)
(* (PromiseKept).                                                            *)
THEOREM TailPromiseIsSafe == Spec => Promise!Init /\ [][Promise!Next]_(Promise!vars)
<1>1. Init => Promise!Init
  <2> SUFFICES ASSUME Init PROVE Promise!Init
    OBVIOUS
  <2>1. /\ pc = "stat" /\ written = 0 /\ base = 0 /\ seen = << >> /\ missed = FALSE
    BY DEF Init
  <2>2. Promised = 0
    BY <2>1 DEF Promised
  <2>3. Len(seen) = 0
    BY <2>1
  <2>4. Numbered = << >>
    BY <2>3 DEF Numbered
  <2> QED
    BY <2>1, <2>2, <2>4 DEF Promise!Init, Numbered
<1>2. TypeOK /\ TailInv /\ [Next]_vars => [Promise!Next]_(Promise!vars)
  <2> SUFFICES ASSUME TypeOK, TailInv, [Next]_vars
               PROVE  Promise!Next \/ UNCHANGED Promise!vars
    OBVIOUS
  <2>0. missed \in BOOLEAN /\ missed' \in BOOLEAN
    BY DEF Next, Initialize, Reactor, Stat, OpenFirst, Seek, Watch, Notify,
           Read, ReadEof, EofStat, Reopen, WriteLine, Truncate, Replace,
           Rename, Create, NewFile, vars, histVars, TypeOK
  <2>1. CASE missed
    <3>1. missed'
      BY <2>1 DEF Next, Initialize, Reactor, Stat, OpenFirst, Seek, Watch, Notify,
                  Read, ReadEof, EofStat, Reopen, WriteLine, Truncate, Replace,
                  Rename, Create, NewFile, vars, histVars
    <3> QED
      BY <2>0, <2>1, <3>1 DEF Promise!Next, Promise!Void
  <2>2. CASE ~missed /\ missed'
    BY <2>0, <2>2 DEF Promise!Next, Promise!End
  <2>3. CASE ~missed /\ ~missed'
    <3>1. CASE Read
      BY <2>3, <3>1, ReadDelivers DEF Promise!Next
    <3>2. CASE WriteLine
      BY <2>0, <2>3, <3>2, WriteCounts DEF Promise!Next, Promise!vars, Numbered
    <3>3. CASE ~Read /\ ~WriteLine
      BY <2>0, <2>3, <3>3, NothingArrives
         DEF Next, Reactor, Promise!vars, Numbered
    <3> QED
      BY <3>1, <3>2, <3>3
  <2> QED
    BY <2>1, <2>2, <2>3
<1> QED
  BY <1>1, <1>2, TailInvHolds, TailTypeCorrect, PTL DEF Spec
=============================================================================
