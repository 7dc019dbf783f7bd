---------------------------- MODULE GrokFileInput ----------------------------
(* A file input of grok 20090928: the file half of grok_input.c.  grok reads *)
(* the file a block at a time and writes each block to a pipe of its own,    *)
(* whose other end is a bufferevent like that of a command.  At the end of   *)
(* the file it stops, or follows: stat, reopen or seek if the file was       *)
(* rotated or truncated, wait, read again.                                   *)
(*                                                                           *)
(* Sizes are counted in lines.  Line n is the n-th line written to the file, *)
(* or to the files that had its name.                                        *)
EXTENDS Integers, Sequences, FiniteSets

CONSTANTS
  Inode,         \* the files that may have the name; NoFile is not one
  Matching,      \* the lines some block of the program reacts to
  HasNomatch,    \* has the program a no-match block?
  BlockSize,     \* st_blksize
  Chunk,         \* what a bufferevent reads at a time
  PipeSize,      \* what a pipe holds
  MaxWait,       \* the longest wait between two reads (60 seconds in the code)
  MaxLines,      \* bound: lines written
  MaxTurns       \* bound: truncations and rotations

NoFile == 0      \* no such file, and a descriptor that is not open

ASSUME FileInodes   == NoFile \notin Inode
ASSUME FileOptions  == Matching \subseteq Nat /\ HasNomatch \in BOOLEAN
ASSUME FileSizes    == /\ BlockSize \in Nat \ {0}
                       /\ Chunk \in Nat \ {0}
                       /\ PipeSize \in Nat \ {0}
ASSUME FileBounds   == /\ MaxWait \in Nat \ {0}
                       /\ MaxLines \in Nat
                       /\ MaxTurns \in Nat
\* st_blksize is 4096 on the usual file systems, a bufferevent reads at least
\* 4096 bytes at a time, a pipe holds 65536.
ASSUME BlockFits    == BlockSize <= Chunk /\ BlockSize <= PipeSize

VARIABLES
  \* grok_input and grok_input_file
  follow, done,
  matched,         \* instance_match_count # 0
  fd,              \* the file that is open, NoFile for -1
  offset,          \* also the position of fd
  stIno, stSize,   \* st.st_ino and st.st_size
  waittime,        \* seconds
  \* the pipe and the event loop
  pipe,            \* lines between writer and reader
  todo,            \* what runs next: "add", "reopen" and their halves, "read",
                   \* "repair", "none"
  dueIn,           \* seconds until it does
  active,          \* the loop activated it in this iteration, or runs it
  readable,        \* the loop activated the read event of the pipe
  exited,          \* exit(1)
  \* the file system and the program that writes
  path,            \* the file that has the name
  wfd,             \* the file the writer has open
  content,         \* the lines of each file
  written,         \* lines written so far
  turns,           \* truncations and rotations so far
  \* history
  seen,            \* lines given to the match blocks
  hit,             \* a matching line was read since the last end of file
  unseenFor,       \* seconds since the oldest unseen line was written
  missed           \* the file changed in a way that grok cannot notice

inputVars == <<follow, done, matched, fd, offset, stIno, stSize, waittime>>
loopVars  == <<pipe, todo, dueIn, active, readable, exited>>
fileVars  == <<path, wfd, content, written, turns>>
histVars  == <<seen, hit, unseenFor, missed>>
vars      == <<inputVars, loopVars, fileVars, histVars>>

Least(a, b)   == IF a <= b THEN a ELSE b
Most(a, b)    == IF a >= b THEN a ELSE b
FileSize(ino) == Len(content[ino])
LineNo        == 1..MaxLines

TypeOK ==
  /\ follow \in BOOLEAN /\ done \in BOOLEAN /\ matched \in BOOLEAN
  /\ fd \in Inode \cup {NoFile} /\ offset \in Nat
  /\ stIno \in Inode \cup {NoFile} /\ stSize \in Nat
  /\ waittime \in 0..MaxWait
  /\ pipe \in Seq(LineNo)
  /\ todo \in {"add", "open", "read", "repair", "reopen", "none"}
  /\ dueIn \in 0..MaxWait
  /\ active \in BOOLEAN /\ readable \in BOOLEAN /\ exited \in BOOLEAN
  /\ path \in Inode \cup {NoFile} /\ wfd \in Inode
  /\ content \in [Inode -> Seq(LineNo)]
  /\ written \in 0..MaxLines /\ turns \in 0..MaxTurns
  /\ seen \in Seq(LineNo) /\ hit \in BOOLEAN
  /\ unseenFor \in 0..MaxWait + 1 /\ missed \in BOOLEAN

(* The file exists and is empty when grok starts. *)
Init ==
  /\ follow \in BOOLEAN
  /\ done = FALSE /\ matched = FALSE
  /\ fd = NoFile /\ offset = 0 /\ stIno = NoFile /\ stSize = 0 /\ waittime = 0
  /\ pipe = << >> /\ todo = "add" /\ dueIn = 0
  /\ active = TRUE /\ readable = FALSE /\ exited = FALSE
  /\ path \in Inode /\ wfd = path
  /\ content = [ino \in Inode |-> << >>]
  /\ written = 0 /\ turns = 0
  /\ seen = << >> /\ hit = FALSE /\ unseenFor = 0 /\ missed = FALSE

-----------------------------------------------------------------------------
(* grok_program_add_input_file: a stat and an open, between which the file   *)
(* may change.  If either fails the input is neither open nor done.          *)
AddInput ==
  /\ todo = "add"
  /\ IF path = NoFile
       THEN /\ todo' = "none" /\ active' = FALSE
            /\ UNCHANGED <<stIno, stSize>>
       ELSE /\ todo' = "open" /\ UNCHANGED active
            /\ stIno' = path /\ stSize' = FileSize(path)
  /\ UNCHANGED <<follow, done, matched, fd, offset, waittime, pipe, dueIn,
                 readable, exited, fileVars, histVars>>

OpenInput ==
  /\ todo = "open"
  /\ fd' = path
  /\ todo' = IF path = NoFile THEN "none" ELSE "read"
  /\ active' = FALSE
  /\ UNCHANGED <<follow, done, matched, offset, stIno, stSize, waittime, pipe,
                 dueIn, readable, exited, fileVars, histVars>>

-----------------------------------------------------------------------------
(* The loop: in an iteration the bufferevent reads before the timer runs.    *)

TimerDue == todo \in {"read", "repair"} /\ dueIn = 0

Poll ==
  /\ ~active /\ ~readable
  /\ pipe # << >> \/ TimerDue
  /\ readable' = (pipe # << >>)
  /\ active' = TimerDue
  /\ UNCHANGED <<inputVars, pipe, todo, dueIn, exited, fileVars, histVars>>

\* mutant: each line is judged for itself
JudgedLast(lines) == \E k \in 1..Len(lines) : k = Len(lines) /\ lines[k] \in Matching
Judged(lines) ==
  matched \/ \E k \in 1..Len(lines) : lines[k] \in Matching

(* _program_file_read_buffer: every line goes to grok_matchconfig_exec. *)
ReadBuffer ==
  /\ readable /\ readable' = FALSE
  /\ LET n == Least(Chunk, Len(pipe)) IN
       /\ pipe' = SubSeq(pipe, n + 1, Len(pipe))
       /\ seen' = seen \o SubSeq(pipe, 1, n)
       /\ matched' = Judged(SubSeq(pipe, 1, n))
  /\ unseenFor' = IF Len(seen') = written THEN 0 ELSE unseenFor
  /\ UNCHANGED <<follow, done, fd, offset, stIno, stSize, waittime, todo,
                 dueIn, active, exited, fileVars, hit, missed>>

Timer(callback) == active /\ ~readable /\ todo = callback

(* One read(2) of a block. *)
Block(lines) == SubSeq(lines, 1, Least(BlockSize, Len(lines)))

(* What read(2) returns: nothing at or past the end of the file. *)
ReadFile == Block(SubSeq(content[fd], offset + 1, FileSize(fd)))

(* grok_input_eof_handler for a file.  no-match reacts if nothing matched.   *)
(* What the handler does once every input is done is in GrokCollection.      *)
EofHandler ==
  /\ IF follow
       THEN todo' = "repair" /\ matched' = FALSE /\ UNCHANGED <<done, fd>>
       ELSE /\ todo' = "none" /\ done' = TRUE /\ fd' = NoFile
            /\ matched' = (matched \/ HasNomatch)
  /\ hit' = FALSE
  /\ dueIn' = 0
  /\ UNCHANGED waittime

(* _program_file_read_real, when it reads lines: they go to the pipe, and it *)
(* reads again at once.  write(2) returns when the pipe has room.            *)
ReadLines ==
  /\ Timer("read") /\ fd # NoFile
  /\ LET lines == ReadFile IN
       /\ lines # << >> /\ Len(pipe) + Len(lines) <= PipeSize
       /\ pipe' = pipe \o lines
       /\ offset' = offset + Len(lines)
       /\ stSize' = Most(stSize, offset')
       /\ hit' = (hit \/ \E k \in 1..Len(lines) : lines[k] \in Matching)
  /\ waittime' = 0 /\ dueIn' = 0
  /\ active' = FALSE
  /\ UNCHANGED <<follow, done, matched, fd, stIno, todo, readable, exited,
                 fileVars, seen, unseenFor, missed>>

(* ... when it is at the end of the file ... *)
ReadEof ==
  /\ Timer("read") /\ fd # NoFile /\ ReadFile = << >>
  /\ EofHandler
  /\ stSize' = Most(stSize, offset)
  /\ active' = FALSE
  /\ UNCHANGED <<follow, offset, stIno, pipe, readable, exited, fileVars, seen,
                 unseenFor, missed>>

(* ... and when the file could not be reopened: read fails, and so does the  *)
(* write of -1 bytes.                                                        *)
ReadFails ==
  /\ Timer("read") /\ fd = NoFile
  /\ exited' = TRUE /\ todo' = "none" /\ active' = FALSE
  /\ UNCHANGED <<inputVars, pipe, dueIn, readable, fileVars, histVars>>

-----------------------------------------------------------------------------
(* _program_file_repair_event                                                *)

\* mutant: the wait doubles for ever
BackoffUncapped == IF waittime = 0 THEN 1 ELSE 2 * waittime
Backoff == IF waittime = 0 THEN 1 ELSE Least(MaxWait, 2 * waittime)

\* mutant: only a file that is empty has shrunk
ShrunkEmpty == FileSize(path) = 0 /\ stSize > 0
Shrunk == FileSize(path) < stSize

(* The stat: watch no longer, reopen, start over or wait. *)
RepairStat ==
  /\ Timer("repair")
  /\ IF path = NoFile
       THEN /\ todo' = "none" /\ active' = FALSE
            /\ UNCHANGED <<offset, stIno, stSize, waittime, dueIn>>
       ELSE /\ stIno' = path /\ stSize' = FileSize(path)
            /\ IF path # stIno
                 THEN /\ todo' = "reopen"
                      /\ UNCHANGED <<active, offset, waittime, dueIn>>
                 ELSE /\ offset' = IF Shrunk THEN 0 ELSE offset
                      /\ waittime' = IF Shrunk THEN 0 ELSE Backoff
                      /\ dueIn' = waittime'
                      /\ todo' = "read" /\ active' = FALSE
  /\ UNCHANGED <<follow, done, matched, fd, pipe, readable, exited, fileVars,
                 histVars>>

(* The close and the open of a file that was rotated. *)
RepairOpen ==
  /\ todo = "reopen"
  /\ fd' = path
  /\ offset' = 0
  /\ waittime' = 0 /\ dueIn' = 0
  /\ todo' = "read" /\ active' = FALSE
  /\ UNCHANGED <<follow, done, matched, stIno, stSize, pipe, readable, exited,
                 fileVars, histVars>>

-----------------------------------------------------------------------------
(* The environment                                                           *)

(* The file that has the name is open and every line in it was read. *)
AllRead == fd = path /\ fd # NoFile /\ offset = FileSize(fd)

(* What is left of the open file will be read before the next stat. *)
ReadsFirst == todo = "read" /\ fd = wfd /\ offset <= FileSize(fd)

InStatOpen == todo \in {"add", "open", "reopen"}

(* A line is appended.  A truncated file that is as long as before when grok *)
(* looks again does not look truncated.                                      *)
WriteLine ==
  /\ written < MaxLines
  /\ written' = written + 1
  /\ content' = [content EXCEPT ![wfd] = Append(@, written + 1)]
  /\ missed' = (missed \/ (fd = wfd /\ FileSize(wfd) < offset
                                    /\ FileSize(wfd) + 1 >= stSize))
  /\ UNCHANGED <<inputVars, loopVars, path, wfd, turns, seen, hit, unseenFor>>

Turn == turns < MaxTurns /\ turns' = turns + 1

Truncate ==
  /\ Turn /\ path # NoFile
  /\ content' = [content EXCEPT ![path] = << >>]
  /\ missed' = (missed \/ InStatOpen \/ ~AllRead)
  /\ UNCHANGED <<inputVars, loopVars, path, wfd, written, seen, hit, unseenFor>>

(* The name now denotes a new file, and the writer writes to it.  An inode   *)
(* is free when neither has it open.                                         *)
NewFile(ino) ==
  /\ ino \notin {path, wfd, fd}
  /\ path' = ino /\ wfd' = ino
  /\ content' = [content EXCEPT ![ino] = << >>]
  /\ missed' = (missed \/ InStatOpen
                 \/ ~(ReadsFirst \/ (fd = wfd /\ offset = FileSize(fd))))
  /\ UNCHANGED <<inputVars, loopVars, written, seen, hit, unseenFor>>

(* Rotation: rename(2) of a new file over the old one ... *)
Replace == \E ino \in Inode : Turn /\ path # NoFile /\ NewFile(ino)

(* ... or rename the old file, to which the writer still writes, then create *)
(* a new one.                                                                *)
Rename ==
  /\ Turn /\ path # NoFile
  /\ path' = NoFile
  /\ UNCHANGED <<inputVars, loopVars, wfd, content, written, histVars>>

Create == \E ino \in Inode : path = NoFile /\ NewFile(ino) /\ UNCHANGED turns

(* A second passes while the loop sleeps. *)
Tick ==
  /\ todo \in {"read", "repair"} /\ dueIn > 0
  /\ ~active /\ ~readable /\ pipe = << >>
  /\ dueIn' = dueIn - 1
  /\ unseenFor' = IF Len(seen) = written THEN 0
                  ELSE Least(unseenFor + 1, MaxWait + 1)
  /\ UNCHANGED <<inputVars, pipe, todo, active, readable, exited, fileVars,
                 seen, hit, missed>>

Stopped == todo = "none" /\ UNCHANGED vars

-----------------------------------------------------------------------------
Grok == \/ AddInput \/ OpenInput \/ Poll \/ ReadBuffer
        \/ ReadLines \/ ReadEof \/ ReadFails \/ RepairStat \/ RepairOpen

Next == \/ Grok \/ Tick \/ Stopped
        \/ WriteLine \/ Truncate \/ Replace \/ Rename \/ Create

Spec == Init /\ [][Next]_vars

(* grok's one thread runs, and time passes. *)
FairSpec == Spec /\ WF_vars(Grok) /\ WF_vars(Tick)

-----------------------------------------------------------------------------
(* When the file is read, what was read before has gone through the pipe: so *)
(* grok never blocks on a pipe that only it can empty, and at the end of the *)
(* file it knows whether a line matched since the last one (no-match).       *)
PassIsJudged == Timer("read") => pipe = << >> /\ matched = hit

(* A line is seen at most MaxWait seconds after it was written.              *)
KeepsUp ==
  follow /\ ~missed /\ todo # "none" => unseenFor <= MaxWait

(* "A file is followed through truncation, log rotation, and append": grok   *)
(* does not stop following a file it has open.  It does (a run that fails),  *)
(* when it looks between the two steps of a rotation.                        *)
StillFollowed == follow /\ fd # NoFile => todo # "none"

(* The abstract specification: the lines arrive once each, in order, and all *)
(* of them, until grok stops reading or misses a change.                     *)
Promise == INSTANCE FollowedFile WITH
             void <- (missed \/ todo = "none")
PromiseKept == Promise!Spec
=============================================================================
