------------------------------ MODULE GlobWatch ------------------------------
(* EventMachine::FileGlobWatchTail of eventmachine-tail (globwatcher.rb).  A *)
(* timer expands a glob; a path that is new is watched with inotify and      *)
(* tailed, one that is missing is forgotten.  inotify tells of a watched     *)
(* file that moved, or that is gone: a file without a name is gone when      *)
(* nobody has it open any more, and a FileTail does have it open.            *)
(*                                                                           *)
(* The reactor handles one timer or one inotify event at a time; the files   *)
(* change between any two system calls, the ones of one callback included.   *)
EXTENDS Integers, Sequences

CONSTANTS
  Path,       \* the names the glob matches
  MaxFiles,   \* bound: files that are created
  MaxTurns    \* bound: files that are deleted or renamed

ASSUME GlobBounds ==
  MaxFiles \in Nat /\ MaxTurns \in Nat /\ Path \cap {"new", "outside", "gone"} = {}

Inode == 1..MaxFiles
NoInode == 0
Watch == [who : {"glob", "tail"}, path : Path]
NoWatch == [who |-> "nobody"]

VARIABLES
  reactor,    \* what the reactor is in: "new", "idle", "watch", "tail", "dead"
  adding,     \* the new paths of the list that are not added yet
  current,    \* the path being added
  missing,    \* the paths that were not on the list
  files,      \* @files
  tails,      \* the FileTails, by path and open file: nothing ever ends one
  watch,      \* watch[i]: the watch of a file, of the glob or of a FileTail
  events,     \* what inotify has to tell
  name,       \* name[i]: a path, "new" for a file not yet created,
              \* "outside" the glob, "gone" for a deleted one
  secret,     \* files that may not be read
  written,    \* files the program that created them has open
  turns

diskVars == <<name, secret, written, turns>>
globVars == <<reactor, adding, current, missing, files, tails, watch, events,
              diskVars>>

FileAt(p) == {i \in Inode : name[i] = p}
Existing  == {name[i] : i \in Inode} \cap Path
Event == [kind : {"moved", "deleted"}, file : Inode]

GlobTypeOK ==
  /\ reactor \in {"new", "idle", "watch", "tail", "dead"}
  /\ adding \subseteq Path /\ current \in SUBSET Path
  /\ missing \subseteq Path /\ files \subseteq Path /\ tails \subseteq Path \X Inode
  /\ watch \in [Inode -> Watch \cup {NoWatch}]
  /\ events \in Seq(Event)
  /\ name \in [Inode -> Path \cup {"new", "outside", "gone"}]
  /\ \A i, j \in Inode : name[i] = name[j] /\ name[i] \in Path => i = j
  /\ secret \subseteq Inode /\ written \subseteq Inode /\ turns \in 0..MaxTurns

GlobInit ==
  /\ reactor = "new" /\ adding = {} /\ current = {} /\ missing = {}
  /\ files = {} /\ tails = {}
  /\ watch = [i \in Inode |-> NoWatch] /\ events = << >>
  /\ name = [i \in Inode |-> "new"] /\ secret = {}
  /\ written = {} /\ turns = 0

-----------------------------------------------------------------------------
(* find_files: every new path of the list is added, then every path that was *)
(* not on the list is removed.                                               *)

\* mutant: what is missing is kept
ForgetNothing(gone) == files
Forget(gone) == files \ gone

Continue(todo, gone) ==
  /\ adding' = todo
  /\ \/ /\ todo # {} /\ reactor' = "watch" /\ \E p \in todo : current' = {p}
        /\ missing' = gone /\ UNCHANGED files
     \/ /\ todo = {} /\ reactor' = "idle" /\ current' = {}
        /\ missing' = {} /\ files' = Forget(gone)

(* next_tick runs when the reactor does.                                     *)
StartReactor ==
  /\ reactor = "new" /\ reactor' = "idle"
  /\ UNCHANGED <<adding, current, missing, files, tails, watch, events, diskVars>>

FindFiles ==
  /\ reactor = "idle"
  /\ Continue(Existing \ files, files \ Existing)
  /\ UNCHANGED <<tails, watch, events, diskVars>>

(* A file that is already watched keeps the watch it has.                    *)
WatchFile(i, w) ==
  IF watch[i] = NoWatch /\ i \notin secret THEN [watch EXCEPT ![i] = w] ELSE watch

(* add: only EACCES of watch_file is rescued; ENOENT ends the reactor.       *)
AddWatch == \E p \in current :
  /\ reactor = "watch"
  /\ IF FileAt(p) = {}
       THEN reactor' = "dead" /\ UNCHANGED <<files, watch>>
       ELSE /\ reactor' = "tail" /\ files' = files \cup {p}
            /\ \E i \in FileAt(p) : watch' = WatchFile(i, [who |-> "glob", path |-> p])
  /\ UNCHANGED <<adding, current, missing, tails, events, diskVars>>

(* file_found: a FileTail opens the path, and watches what it finds there.   *)
FileFound == \E p \in current :
  /\ reactor = "tail"
  /\ IF FileAt(p) = {}
       THEN /\ reactor' = "dead"
            /\ UNCHANGED <<adding, current, missing, files, tails, watch>>
       ELSE /\ Continue(adding \ {p}, missing)
            /\ \E i \in FileAt(p) :
                 /\ watch' = WatchFile(i, [who |-> "tail", path |-> p])
                 /\ tails' = IF i \in secret THEN tails ELSE tails \cup {<<p, i>>}
  /\ UNCHANGED <<events, diskVars>>

-----------------------------------------------------------------------------
(* What inotify tells: of a watched file only, and of its end when it has    *)
(* neither a name nor anyone who has it open.                                *)
OpenOf(wr, ts) == wr \cup {t[2] : t \in ts}
Open == OpenOf(written, tails)
Ended(wr, ts) == {i \in Open \ OpenOf(wr, ts) : name[i] = "gone"}
Note(kind, i) ==
  IF watch[i] = NoWatch THEN << >> ELSE <<[kind |-> kind, file |-> i]>>
Moved(i) == Note("moved", i)
Gone(who) == IF who = {} THEN << >> ELSE Note("deleted", CHOOSE i \in who : TRUE)

(* An event of inotify goes to the watch of its file, if there still is one. *)

\* mutant: file_moved does not stop watching
KeepWatch(i) == watch
StopWatching(i) == [watch EXCEPT ![i] = NoWatch]
\* EventMachine itself, when the file is gone
Unwatch(i) == [watch EXCEPT ![i] = NoWatch]

(* FileTail#open, from a timer or an event: nobody rescues.                  *)
Reopen(t) ==
  IF FileAt(t[1]) \subseteq secret
    THEN reactor' = "dead" /\ UNCHANGED tails
    ELSE /\ tails' = (tails \ {t}) \cup ({t[1]} \X FileAt(t[1]))
         /\ UNCHANGED reactor

TellEnds ==
  /\ reactor = "idle" /\ events # << >>
  /\ LET i == Head(events).file  w == watch[i] IN
       \/ /\ w = NoWatch
          /\ UNCHANGED <<reactor, files, watch, tails>>
       \/ /\ w.who = "glob" /\ files' = files \ {w.path}
          /\ watch' = IF Head(events).kind = "moved" THEN StopWatching(i) ELSE Unwatch(i)
          /\ UNCHANGED <<reactor, tails>>
       \/ /\ w.who = "tail" /\ UNCHANGED files
          /\ \/ /\ Head(events).kind = "moved" /\ UNCHANGED watch
                /\ \E t \in tails : t[1] = w.path /\ Reopen(t)
             \/ /\ Head(events).kind = "deleted" /\ watch' = Unwatch(i)
                /\ UNCHANGED <<reactor, tails>>
  /\ events' = Tail(events) \o Gone(Ended(written, tails'))
  /\ UNCHANGED <<adding, current, missing, diskVars>>

(* A FileTail reads to the end and finds another file, or none, at its path. *)
TailReads(t) ==
  /\ reactor = "idle" /\ t[2] \notin FileAt(t[1])
  /\ Reopen(t)
  /\ events' = events \o Gone(Ended(written, tails'))
  /\ UNCHANGED <<adding, current, missing, files, watch, diskVars>>

-----------------------------------------------------------------------------
(* The files.                                                                *)

Create(p) ==
  /\ FileAt(p) = {}
  /\ \E i \in FileAt("new") :
       /\ \A j \in FileAt("new") : i <= j
       /\ name' = [name EXCEPT ![i] = p]
       /\ secret' \in {secret, secret \cup {i}}
       /\ written' = written \cup {i}
  /\ UNCHANGED <<reactor, adding, current, missing, files, tails, watch, events, turns>>

Turn ==
  /\ turns < MaxTurns /\ turns' = turns + 1
  /\ UNCHANGED <<reactor, adding, current, missing, files, tails, watch, secret, written>>

Unlink(i) ==
  /\ name[i] \in Path
  /\ name' = [name EXCEPT ![i] = "gone"]
  /\ events' = events \o Gone({i} \ Open)
  /\ Turn

(* A file gets another name, perhaps that of a file that goes by this.       *)
Rename(i, to) ==
  /\ name[i] \in Path \cup {"outside"} /\ to # name[i]
  /\ LET over == IF to \in Path THEN FileAt(to) ELSE {} IN
       /\ name' = [j \in Inode |-> IF j = i THEN to
                                   ELSE IF j \in over THEN "gone" ELSE name[j]]
       /\ events' = events \o Moved(i) \o Gone(over \ Open)
  /\ Turn

Close(i) ==
  /\ i \in written /\ written' = written \ {i}
  /\ UNCHANGED <<reactor, adding, current, missing, files, tails, watch, name,
                 secret, turns>>
  /\ events' = events \o Gone(Ended(written', tails))

Reactor == StartReactor \/ FindFiles \/ AddWatch \/ FileFound \/ TellEnds \/ \E t \in tails : TailReads(t)

Files ==
  \/ \E p \in Path : Create(p)
  \/ \E i \in Inode : Unlink(i) \/ Close(i) \/ \E to \in Path \cup {"outside"} : Rename(i, to)

GlobNext == Reactor \/ Files

(* The reactor runs every timer that is due and every event it was told of.  *)
GlobFair ==
  /\ WF_globVars(FindFiles) /\ WF_globVars(AddWatch \/ FileFound)
  /\ WF_globVars(TellEnds)

GlobSpec == GlobInit /\ [][GlobNext]_globVars /\ GlobFair

-----------------------------------------------------------------------------
(* "This class will allow you to get notified whenever a file is created or  *)
(* deleted that matches your glob": when the files rest, the paths it knows  *)
(* are in the end the ones that exist, while its reactor runs.               *)
GlobConverges == <>[](reactor \in {"new", "dead"} \/ files = Existing)

(* A watch the glob placed on a path is on the file of that path, or an      *)
(* event that says otherwise is on its way, or somebody has the old file     *)
(* open: only then may the glob take a new file for the one it knows.        *)
GlobIsTold ==
  \A i \in Inode : watch[i] # NoWatch /\ watch[i].who = "glob" =>
    \/ name[i] = watch[i].path
    \/ \E e \in 1..Len(events) : events[e].file = i
    \/ name[i] = "gone" /\ i \in Open
=============================================================================
