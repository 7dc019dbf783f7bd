------------------------------- MODULE FileTail -------------------------------
(* EventMachine::FileTail of eventmachine-tail: filetail.rb.  It opens a     *)
(* file, watches it with inotify, and reads it whenever a timer it scheduled *)
(* fires.  A modification schedules a read; a read that returns data         *)
(* schedules the next; a read at end-of-file looks whether the file was      *)
(* replaced or truncated.  Each modification schedules a read of its own, so *)
(* several may be pending.                                                   *)
(*                                                                           *)
(* Ruby callbacks do not interleave, but the file changes between any two    *)
(* system calls: pc says which one is next.  Sizes are counted in lines.     *)
EXTENDS Integers, Sequences

CONSTANTS
  Inode,      \* the files that may have the name
  StartPos,   \* startpos, or AtEnd
  Chunk,      \* CHUNKSIZE
  MaxLines,   \* bound: lines written
  MaxTurns    \* bound: truncations and rotations

NoFile == 0
AtEnd  == -1

ASSUME TailInodes == NoFile \notin Inode
ASSUME TailStart  == StartPos \in Nat \cup {AtEnd}
ASSUME TailSizes  == Chunk \in Nat \ {0} /\ MaxLines \in Nat /\ MaxTurns \in Nat

VARIABLES
  pc,                  \* "stat", "open", "seek", "watch": in initialize;
                       \* "loop": in the reactor; "eof", "reopen": in a read
                       \* timer; "dead": an exception nobody rescues
  file, pos,           \* @file, and the position of its descriptor
  fstIno, fstSize,     \* @fstat
  timers,              \* reads that are scheduled
  watched,             \* the file inotify watches
  events,              \* what inotify has to tell
  path, wfd, content, written, turns,   \* the file system and the writer
  seen,                \* history: lines given to receive_data
  base,                \* history: lines before the start position
  missed               \* history: the file changed unnoticed

tailVars == <<pc, file, pos, fstIno, fstSize, timers>>
fileVars == <<path, wfd, content, written, turns>>
histVars == <<seen, base, missed>>
vars     == <<tailVars, watched, events, fileVars, histVars>>

FileSize(ino) == Len(content[ino])
Least(a, b)   == IF a <= b THEN a ELSE b
LineNo        == 1..MaxLines

TypeOK ==
  /\ pc \in {"stat", "open", "seek", "watch", "loop", "eof", "reopen", "dead"}
  /\ file \in Inode \cup {NoFile} /\ pos \in Nat
  /\ fstIno \in Inode \cup {NoFile} /\ fstSize \in Nat
  /\ timers \in Nat
  /\ watched \in Inode \cup {NoFile}
  /\ events \in Seq({"modified", "moved"})
  /\ path \in Inode \cup {NoFile} /\ wfd \in Inode
  /\ content \in [Inode -> Seq(LineNo)]
  /\ written \in 0..MaxLines /\ turns \in 0..MaxTurns
  /\ seen \in Seq(LineNo) /\ base \in 0..MaxLines /\ missed \in BOOLEAN

Init ==
  /\ pc = "stat"
  /\ file = NoFile /\ pos = 0 /\ fstIno = NoFile /\ fstSize = 0 /\ timers = 0
  /\ watched = NoFile /\ events = << >>
  /\ path \in Inode /\ wfd = path
  /\ content = [ino \in Inode |-> << >>]
  /\ written = 0 /\ turns = 0
  /\ seen = << >> /\ base = 0 /\ missed = FALSE

-----------------------------------------------------------------------------
(* initialize: File.stat, open, sysseek and watch_file, each of which raises *)
(* when the name is gone.                                                    *)

Stat ==
  /\ pc = "stat"
  /\ IF path = NoFile
       THEN pc' = "dead" /\ UNCHANGED <<fstIno, fstSize>>
       ELSE pc' = "open" /\ fstIno' = path /\ fstSize' = FileSize(path)
  /\ UNCHANGED <<file, pos, timers, watched, events, fileVars, histVars>>

(* open: close the file, open what has the name now, schedule a read.        *)
OpenThen(next) ==
  /\ file' = path
  /\ IF path = NoFile
       THEN pc' = "dead" /\ UNCHANGED <<pos, timers>>
       ELSE pc' = next /\ pos' = 0 /\ timers' = timers + 1

OpenFirst ==
  /\ pc = "open" /\ OpenThen("seek")
  /\ UNCHANGED <<fstIno, fstSize, watched, events, fileVars, histVars>>

\* mutant: starts at the last line rather than after it
SeekLastLine == IF StartPos = AtEnd THEN FileSize(file) - 1 ELSE pos
SeekStart    == IF StartPos = AtEnd THEN FileSize(file) ELSE pos

Seek ==
  /\ pc = "seek" /\ pc' = "watch"
  /\ pos' = SeekStart
  /\ base' = IF StartPos = AtEnd THEN written ELSE 0
  /\ UNCHANGED <<file, fstIno, fstSize, timers, watched, events, fileVars,
                 seen, missed>>

Watch ==
  /\ pc = "watch"
  /\ pc' = IF path = NoFile THEN "dead" ELSE "loop"
  /\ watched' = path
  /\ UNCHANGED <<file, pos, fstIno, fstSize, timers, events, fileVars, histVars>>

-----------------------------------------------------------------------------
(* notify: a read is scheduled, or the file is opened anew.                  *)
Notify ==
  /\ pc = "loop" /\ events # << >> /\ events' = Tail(events)
  /\ \/ /\ Head(events) = "modified"
        /\ timers' = timers + 1
        /\ UNCHANGED <<pc, file, pos>>
     \/ /\ Head(events) = "moved"
        /\ OpenThen("loop")
  /\ UNCHANGED <<fstIno, fstSize, watched, fileVars, histVars>>

Unread == SubSeq(content[file], pos + 1, FileSize(file))

\* mutant: reads once per notification
RearmNever == timers - 1
Rearm      == timers

(* read, when there is data: deliver it and schedule the next read ...       *)
Read ==
  /\ pc = "loop" /\ timers > 0 /\ Unread # << >>
  /\ LET n == Least(Chunk, Len(Unread)) IN
       /\ seen' = seen \o SubSeq(Unread, 1, n)
       /\ pos' = pos + n
       /\ timers' = Rearm
  /\ UNCHANGED <<pc, file, fstIno, fstSize, watched, events, fileVars, base,
                 missed>>

(* ... and at end-of-file: sysread raises EOFError,                          *)
ReadEof ==
  /\ pc = "loop" /\ timers > 0 /\ Unread = << >>
  /\ pc' = "eof" /\ timers' = timers - 1
  /\ UNCHANGED <<file, pos, fstIno, fstSize, watched, events, fileVars, histVars>>

\* mutant: a file is truncated when it is empty
TruncatedEmpty == FileSize(path) = 0 /\ fstSize > 0
Truncated == FileSize(path) < fstSize

(* then eof and handle_fstat: stat the name; reopen, start over, or wait for *)
(* the next modification.                                                    *)
EofStat ==
  /\ pc = "eof"
  /\ IF path = NoFile
       THEN pc' = "dead" /\ UNCHANGED <<pos, fstIno, fstSize, timers>>
       ELSE /\ fstIno' = path /\ fstSize' = FileSize(path)
            /\ pc' = IF path # fstIno THEN "reopen" ELSE "loop"
            /\ IF path = fstIno /\ Truncated
                 THEN pos' = 0 /\ timers' = timers + 1
                 ELSE UNCHANGED <<pos, timers>>
  /\ UNCHANGED <<file, watched, events, fileVars, histVars>>

Reopen ==
  /\ pc = "reopen" /\ OpenThen("loop")
  /\ UNCHANGED <<fstIno, fstSize, watched, events, fileVars, histVars>>

-----------------------------------------------------------------------------
(* The environment: a writer, log rotation, inotify.                         *)

(* inotify merges an event with the last one if they are equal.              *)
Tell(kind) ==
  IF events # << >> /\ events[Len(events)] = kind THEN events
                                                  ELSE Append(events, kind)

(* The file grew to the size FileTail knows before the next stat: it will    *)
(* not look truncated.                                                       *)
WriteLine ==
  /\ written < MaxLines
  /\ written' = written + 1
  /\ content' = [content EXCEPT ![wfd] = Append(@, written + 1)]
  /\ events' = IF wfd = watched THEN Tell("modified") ELSE events
  /\ missed' = (missed \/ (pc \notin {"stat", "open", "seek"}
                            /\ FileSize(wfd) < pos /\ FileSize(wfd) + 1 >= fstSize))
  /\ UNCHANGED <<tailVars, watched, path, wfd, turns, seen, base>>

Turn == turns < MaxTurns /\ turns' = turns + 1

(* A truncation is noticed in the reactor if everything was read and the     *)
(* size at the last stat was not 0 already.                                  *)
Truncate ==
  /\ Turn /\ path # NoFile
  /\ content' = [content EXCEPT ![path] = << >>]
  /\ events' = IF path = watched THEN Tell("modified") ELSE events
  /\ missed' = (missed \/ pc \notin {"loop", "eof"}
                       \/ pos # FileSize(path) \/ (pos > 0 /\ fstSize = 0))
  /\ UNCHANGED <<tailVars, watched, path, wfd, written, seen, base>>

(* A new file takes the name.  A file that nobody has open is gone, its      *)
(* watch with it, and its number is free.                                    *)
NewFile(ino) ==
  /\ ino \notin {path, wfd, file}
  /\ path' = ino /\ wfd' = ino
  /\ content' = [content EXCEPT ![ino] = << >>]
  /\ watched' = IF watched = ino THEN NoFile ELSE watched
  /\ missed' = TRUE
  /\ UNCHANGED <<tailVars, events, written, seen, base>>

(* rename(2) over the name: the file that loses it does not move.            *)
Replace == \E ino \in Inode : Turn /\ path # NoFile /\ NewFile(ino)

(* The file is renamed, then another is created.                             *)
Rename ==
  /\ Turn /\ path # NoFile
  /\ path' = NoFile
  /\ events' = IF path = watched THEN Tell("moved") ELSE events
  /\ missed' = TRUE
  /\ UNCHANGED <<tailVars, watched, wfd, content, written, seen, base>>

Create == \E ino \in Inode : path = NoFile /\ NewFile(ino) /\ UNCHANGED turns

-----------------------------------------------------------------------------
Initialize == Stat \/ OpenFirst \/ Seek \/ Watch
Reactor    == Notify \/ Read \/ ReadEof \/ EofStat \/ Reopen

Next == \/ Initialize \/ Reactor
        \/ WriteLine \/ Truncate \/ Replace \/ Rename \/ Create

Spec == Init /\ [][Next]_vars

(* EventMachine's one thread runs: a scheduled read does not wait for ever   *)
(* behind notifications, nor a notification behind reads.                    *)
FairSpec == /\ Spec
            /\ WF_vars(Initialize) /\ WF_vars(Notify)
            /\ WF_vars(Read \/ ReadEof \/ EofStat \/ Reopen)

-----------------------------------------------------------------------------
(* While data waits in the file that is open and watched, a read is          *)
(* scheduled or a notification that schedules one is on its way: reading and *)
(* sleeping cannot cross, wherever the writer writes and rotation comes.     *)
Awake ==
  pc # "dead" /\ file # NoFile /\ pos < FileSize(file) =>
    \/ timers > 0
    \/ file # watched
    \/ "modified" \in {events[n] : n \in 1..Len(events)}

(* "Reopen if the inode has changed": what handle_fstat reopens is not the   *)
(* file that is open.  It is (a run that fails): open on a "moved"           *)
(* notification leaves the old @fstat, and the new file is read twice.       *)
ReopensAnother == [][pc = "eof" /\ pc' = "reopen" => path # file]_vars

(* The abstract specification: the lines after the start position arrive     *)
(* once each, in order, and all of them, until the file is rotated or a      *)
(* truncation cannot be noticed.                                             *)
Promised == IF StartPos = AtEnd /\ pc \in {"stat", "open", "seek"} THEN 0
                                                                ELSE written - base
Promise == INSTANCE FollowedFile WITH
             written <- Promised,
             seen <- [n \in 1..Len(seen) |-> seen[n] - base],
             void <- missed
PromiseKept == Promise!Spec
=============================================================================
