# TLA+ models of the concurrent programs of the semicomplete archive

The repository is an archive of some seventy small projects. This directory
models those that have a protocol or concurrency of their own:

* **grok** (`src/tags/grok/20090928`, C over libevent 1.x and PCRE), the largest:
  it runs commands, follows files, matches every line against patterns and pipes a
  reaction for each match to a shell. Modelled: the event loop, its inputs and its
  reaction shells, and how a pattern is expanded;
* **xboxproxy** (C, two threads): proxies that join the networks of game consoles;
* **eventmachine-tail** (Ruby): `FileTail` and the glob watch that starts them;
* **dxargs** (Python threads): xargs over ssh;
* the rule database of **stats** (Python threads);
* two monitors of the **operating systems course** (Java);
* **moused-vscroll** (C): the mouse daemon's buttons.

## Inventory

### grok

| part | state it keeps | operations | talks to |
|---|---|---|---|
| collection (`grok_program.c`, `main.c`) | programs, event base, SIGCHLD event | add a program, reap children (`_collection_sigchld`), find the end state, leave the loop | inputs and shells through `pid` and `done`; libevent through `event_once`, `event_base_loopexit` |
| exec inputs (`grok_input.c`) | six pipe ends, `pid`, `start_time`, `restart_delay`, `done`, `instance_match_count`, a bufferevent | start (fork), read lines, end of file, restart or close | the reaper schedules the eof handler, the eof handler schedules the start |
| file inputs (`grok_input.c`) | `fd`, `offset`, the last `struct stat`, `waittime`, a pipe to itself, a bufferevent | add, read a block, read the pipe, end of file, repair (stat, reopen, seek, wait) | the file system; the eof handler it shares with commands |
| match blocks (`grok_matchconf.c`) | pattern object, `shell`, `shellinput`, `pid` | match a line, react, no-match, start a shell, close | a shell process through its stdin |
| patterns and captures (`grokre.c`, `grok_capture.c`, `grok_pattern.c`, `predicates.c`) | pattern and capture trees (in-memory Berkeley/Tokyo trees), the expanded regular expression | import, expand, compile, match, walk captures, predicates as PCRE callouts | called by the match blocks |
| reactions (`grok_matchconf.c` 121-360, `stringhelper.c`, filters) | one growing string | expand `%{NAME\|filter}` and `%{@MACRO}` | uses a grok object of its own, built once |
| configuration (`conf.y`, `conf.lex`, `grok_config.c`) | growing arrays of programs, inputs, match blocks | one function per grammar rule | fills the structures above |

Everything runs in one thread. The difficulty is in the order in which a signal,
readable pipes and timers reach it, in what the children do meanwhile, and in
the file system changing between two calls.

What makes each part correct:

* collection: every death is handled once, for the input it belongs to; the
  loop ends exactly when nothing runs and nothing will, and it does end.
* exec inputs: one process or one scheduled callback at a time; no output is
  dropped; no-match judges the output of exactly one run; restarts keep their
  distance and never stop.
* file inputs: each line once, in order, soon, across append, truncation and
  rotation; the thread never blocks on its own pipe.
* match blocks: break-if-match stops the search; a shell lives from the first
  reaction to the end of the program's last input, and then goes away.
* patterns, reactions: expansion terminates, and capture ids, names and groups
  agree.

### eventmachine-tail

| part | state it keeps | operations | talks to |
|---|---|---|---|
| `FileTail` (`filetail.rb`) | the open file and its position, the last stat, pending read timers, a watch | initialize, notify, open, read, eof | inotify through EventMachine, the file system, `receive_data` |
| `FileGlobWatch` (`globwatcher.rb`) | the set of known paths, a watch for each | periodic glob, add, remove | inotify, `file_found`/`file_removed`; its subclass starts a `FileTail` for each file found |

One reactor thread, timers and notifications in any order, a file system that
changes between two system calls. A `FileTail` is correct when it never sleeps
over data and delivers each line once, in order; a glob watch when it knows the
files there are and says so once each.

### xboxproxy

| part | state it keeps | operations | talks to |
|---|---|---|---|
| pcap thread (`main.c` 387-468, 215-295) | the captured packets, the tables it shares | `packet_handler`: learn a local console, send the packet to other proxies | the local network through pcap, other proxies by UDP |
| proxy thread (475-560, 595-715) | the UDP socket, the tables | hello, receive, learn a proxy and a remote console, write the packet to the local network | the network; the pcap thread, which sniffs what it writes |
| tables (77-95, 297-385) | proxies with their port, consoles with the proxy they were seen from | `addproxy`, `addxbox`; nothing is removed | shared without a lock |

No routing is configured but the name of one other proxy. It is correct when the
tables learned from the traffic never point away from a console, no packet comes
back to where it was sent or appears twice, and what is sent to everybody reaches
everybody. Loss, reordering, restarts and changing ports are the hard part.

### dxargs, the rule database, the course, moused

| part | state it keeps | operations | talks to |
|---|---|---|---|
| dxargs main and pool (`dxargs.py` 43-75, 300-340) | a queue, the workers | read lines, cut them into tasks, finish, join | workers through the queue |
| dxargs worker (78-240) | its master ssh, the control socket | connect, wait for the socket, run a task, fail | ssh, the file system, other dxargs |
| `FancyDB` (`stats/storageutils/fancydb.py`) | rows, rules, listeners, notifications, a lock and an event | open, add a rule, set a row, close | its evaluator thread, `simpledb.py` over Berkeley DB |
| `Channel` (`classes/os1/5`) | three locks, two flags, a message | send, receive | threads |
| `SleepingBarber` (`classes/os1/6`) | chairs, flags of customers | barber, customer, main | threads |
| `moused` (`moused-vscroll/moused.c` 889-1132, 2149-2438) | buttons down, ten states of the emulation, a scroll state | a packet, a timeout | the mouse, the console |

dxargs is correct when every token is in one command, every command is run unless
its worker failed, and it ends. A rule database is correct when the aggregates are
those of the rows. A channel without buffer is correct when each send meets one
receive, the barber when no customer is forgotten, and moused when the console comes to
know which buttons are down.

### The other projects

`PROJECT.json` lists them in groups; the section *Not modelled* says why.

## Modules

| module | what it is |
|---|---|
| `GrokCollection` | event loop, SIGCHLD, exec inputs, shells, kernel and children |
| `MCGrokCollection` | its instances for TLC |
| `GrokSafety_proofs` | type correctness, the inductive invariants and the safety theorems |
| `FollowedFile` | the abstract promise of who follows a file: implemented by `GrokFileInput` and by `FileTail` |
| `GrokFileInput` | a file input, the file system and the program that writes the file |
| `MCGrokFileInput` | its instances for TLC |
| `GrokFileInput_proofs` | type correctness, the pipe that a file input writes to itself, and how it follows a file |
| `FileTail` | a FileTail, inotify, the file system and the writer |
| `MCFileTail` | its instances for TLC |
| `FileTail_proofs` | type correctness, that it never sleeps over data, and that the lines arrive once and in order |
| `GrokExpand` | the expansion of a pattern and its predicates |
| `GrokExpand_proofs` | that patterns are expanded faithfully and a callout finds its predicate |
| `XboxProxy` | a proxy with its two threads, the network between proxies, the consoles |
| `XboxTree` | what proxies do that form a tree, and its properties |
| `SharedNetwork` | the abstract promise of joined networks, implemented by `XboxTree` |
| `MCXboxTree` | its instance for TLC |
| `XboxTree_proofs` | type correctness, the routing theorems, and that broadcasts reach everybody |
| `GlobWatch` | the glob watch and the files it sees, with the FileTails it starts |
| `GlobWatch_proofs` | its types, and that its watches are on the files of their paths |
| `Channel`, `SyncChannel` | the channel, and the abstract rendezvous it implements |
| `BarberShop` | the sleeping barber |
| `DxArgs` | dxargs, its workers and their control sockets |
| `FancyDB` | sessions of the rule database |
| `Moused` | the main loop of moused |
| `MCPrograms` | the seven small programs, one at a time, for TLC |
| `Threads_proofs` | theorems about the programs with threads: channel, barber, dxargs, FancyDB |
| `Programs_proofs` | theorems about moused, and about the seven programs as they are checked |

### GrokCollection

State, by owner:

* grok: `done`, `pid`, `restartDelay` (in seconds), `matched` (whether
  `instance_match_count` is not 0: the code only compares it with 0), `mpid` and
  `shellinput` of a match block, `freed` (calls of `grok_free` on its pattern)
  and `cleanups` (calls of `grok_matchconfig_global_cleanup`), both counted up
  to 2, and `inbuf`, the lines of the read callback in progress.
* libevent: what `event_once` scheduled (`eofWait`, `startWait` with `startIn`
  seconds to go, `exitEv`), what the current iteration activated (`eofDue`,
  `startDue`, `readDue`, `sigDue`), and the signals caught since (`sigCaught`).
* kernel and children: `proc`, `owner` (what a process was forked for),
  `holders` (which children inherited the write end of a shell's stdin), `out`
  (unread output of an input), `wrote`, `age`.

An iteration of the loop is `Poll` (or `PollInterrupted`, when a signal wakes
`epoll_wait`), then the activated signals, then reads, then timers. The code
depends on this order: what a callback schedules runs in a later iteration, and a
read of the same iteration runs before any timer.

Actions and code: `Sigchld` is `_collection_sigchld` with the end-state check it
ends in; `StdoutRead` and `ExecLine` are the read of the bufferevent and the loop
of `_program_process_stdout_read` (the callback is split by line because the
children run between two lines; no other callback does); `ProcessStart` is
`_program_process_start`; `EofHandler` is `grok_input_eof_handler` with the
no-match reactions, the close of the shells and the end-state check;
`LoopExit`/`LoopReturn` are the end of `event_base_loop` and `main`. `React` is
`grok_matchconfig_react` with `grok_matchconfig_start_shell` inside every
callback that reacts. `Write`, `CommandExit`, `ShellExit`, `ShellDies` and `Tick`
are the environment.

Abstractions: a line is the set of blocks whose patterns it matches; pipes and
bufferevent reads are counted in lines (`Capacity`, `Chunk`); deaths merge or not
into one pending SIGCHLD; several starts that are pending for one input share
the latest delay (this happens only once a pid was recycled); children of a
command are not followed (`sh -c` is the command).

### GrokFileInput

`AddInput`/`OpenInput` are the `stat` and the `open` of
`grok_program_add_input_file`; `ReadLines`, `ReadEof` and `ReadFails` the three
outcomes of `_program_file_read_real`; `ReadBuffer` the bufferevent callback;
`RepairStat`/`RepairOpen` the two halves of `_program_file_repair_event`, between
which the file may change; `EofHandler` the file branch of
`grok_input_eof_handler` (its tail, which closes shells, is in GrokCollection).
The environment appends, truncates, replaces the file in one step or renames and
creates in two; an inode number is used again as soon as nobody has it open.

`missed` is history. It becomes true when the file changes in a way that grok has no means to notice: a
truncated file that grows back to the size grok knows before it looks, a file
truncated or replaced before it was read to the end while nothing will read it
again, any change between a stat and its open. Up to then the promise of
`FollowedFile` holds. The definition of `missed` in `WriteLine`, `Truncate` and
`NewFile` is therefore itself a result: it lists all the moments at which
rotation is unsafe.

`FollowedFile` is what a match block may rely on: lines arrive once each, in
order, and eventually all of them. `PromiseKept` says that `GrokFileInput`
implements it, liveness included, with the promise void once `missed` or once
the input stopped.

### FileTail

`pc` is the system call that comes next. `Stat`, `OpenFirst`, `Seek` and `Watch`
are `initialize`; `Notify` is `notify`; `Read`, `ReadEof`, `EofStat` and `Reopen`
are `read` with its `eof` and `handle_fstat`, cut where the file may change.
`timers` counts the pending calls of `add_timer`: every modification adds one, so
several reads are often pending. `@pos` and `@naptime` are left out: nothing
reads the first, and the second is always 0. `OpenThen` closes and opens; where
the name is gone the exception is rescued by nobody and `pc` is `"dead"`.
inotify watches a file, not a name: `Rename` tells "moved" for the file that is
watched, `Replace` tells nothing, and no event comes from a file whose watch was
never set.

The promise is the same `FollowedFile`, for the lines after the start position.
It is void from the first rotation on, and from a truncation on that comes when
not everything was read, or after which the file reaches the size of the last
stat before it is looked at. In comparison, `GrokFileInput` keeps the promise
through rotation (it looks again by itself), and remembers the larger of the
size it saw and the offset it read to, so that it recognises a truncated file
that was empty at the last stat; `FileTail` does neither.

### XboxProxy and XboxTree

`StartPcap`, `Sniff` and `Scan` are the pcap thread, `StartProxy` and `Receive` the
other one. `packet_handler` walks the table of proxies and sends to each it may:
`Sniff` begins the walk (`todo`), each `Scan` is one entry, since the other thread
changes the table meanwhile. A packet for one known console goes to the proxy it
was seen from; one for an unknown console goes nowhere. `Receive` is
`recv_from_proxy` with `addproxy`, `addxbox` and `distribute_packet`: the packet is
put on the local network, where pcap sniffs it (`lan`) and may pass it on. The two
`lan` steps, written and sniffed, are one step: pcap buffers in order. `Send`,
`Lose`, `Die` and `Rebind` are consoles, UDP, a restart with empty tables and a
router that changes a port; `net` is a set, so datagrams arrive in any order.
`packets`, `heard` and `whole` are history.

`XboxTree` assumes that the `-s` links form a tree (`Hop` is the next proxy on the
way) and that a console stays where it is. Both are needed: proxies in a ring pass a
packet round for ever, and the entry of a console that moved is never corrected.

### GrokExpand

A text is a sequence of tokens; `%{NAME:subname PREDICATE}` is one token.
`ExpandKnown`/`ExpandUnknown` are the turns of the loop of `grok_pattern_expand`,
`Study` is `grok_study_capture_map`; the choice of the predicate in
`grok_pcre_callout` is `Judges`. libpcre numbers groups as they open, calls at each
callout, and knows the group that closed last. The constants are assumed to be texts in which
every group that opens closes (`ExpandTexts`): libpcre refuses others.

That a stretch of the text stands for a pattern is `Folds`: the tokens shown in it, when the group
of every capture in between counts as the one reference it came from, are as many as the pattern
has, and each is the one of the pattern that has its rank.

### GlobWatch

`FindFiles` is the timer with the glob; `AddWatch` and `FileFound` the two halves of
`add` (the watch, then the `FileTail`), between which files change; `TellEnds` the
callbacks of the watch; `TailReads` a `FileTail` that finds another file under its
name. A `FileTail` is only what it holds open here: an open file keeps its inode and
delays the "deleted" of inotify, and it shares the single watch inotify has per file.
`reactor = "dead"` is an exception nobody rescues.

### Channel, BarberShop

A step is what a thread does while it owns a monitor. `wait` may return by itself
(the Java specification says so) and `notify` wakes any one waiter. In `BarberShop` a
customer's `run` is synchronized on the customer: the barber can take that monitor
only while the customer waits (`Free`).

### DxArgs

Main: `StartPool`, `ReadLine`, `Cut`, `EndOfInput`, `Pill`, `Join`, `Joined`. A worker:
`Start`, `Get`, `Look` (for the control socket, `Tries` times), `Run`. A worker ends by
a pill, by a socket that does not come, or by a command that fails; only its thread
does. `Connect`, `Disconnect` and `Other` are its ssh and another dxargs that uses the
same control socket.

### FancyDB

One run of evtool is a session: `OpenDB` (thread started, rules loaded newest first),
`AddRule`, `SetRow` with the listeners of the row (`MainNotifies`), and Close
(`CloseDB` to `AllClosed`, where join gives up after a second and Finish is called
again). The evaluator: `Take` under the lock, `Begin`, `Read` step by step of the cursor,
`WriteResult`, which is itself a Set with listeners, `EndRun`. A value is the set of
timestamped values it was computed from, so an aggregate that missed or kept a value
differs. Calls of Berkeley DB are atomic.

evtool reads a time as an integer or, with a fraction, as a float (`evtool.py:55`). `GenerateDBKey` takes
a float for seconds and scales it; `GetTimeRangeForTimestamp` takes every time for microseconds. So a time has a
key (`micro`) and a number for the rules (`NumberOf`); `row@1.5` is stored at 1500000 and tells the window that
starts at 0.0, whose result goes to the scaled end (`EndTime`). `0.0` and `0` are equal, so two notifications
that differ only in that are one (`NotifyEvaluator`), and reading back from a float end may begin up to
512 microseconds early (`Rounding`). A value that is no number stays text, on which `Compute*` raises (`Fails`):
the evaluator ends with all it had taken (`EvaluatorRaises`), main goes on notifying nobody, and Close finds the
thread dead. A rule by count raises when it is told (`RuleRaises`), in main (`MainRaises`: evtool
closes the database and ends) or in the evaluator. Two history variables serve the property: `owed`, every
window a rule was told of, and `lost`, those an exception forgot until a living evaluator is told again.

### Moused

`MousePacket` is the whole turn of the loop for a packet: the change of the scroll state, the
click of the middle button that was not a scroll, `r_statetrans` (`Statetrans`), `r_click`.
`MouseTimeout` is the turn in which select timed out and `r_timeout` says so; `late` is what
`gettimeofday` tells it. `console` is what the console was told; `action` of the code and what
the console knows differ only with `-V`. Button maps, click counts and distances are left out.

## Runs

| run | instance | shows |
|---|---|---|
| `pair` | one program, commands `a` and `b` run once; block 1 has a shell that may die and `break-if-match`, block 2 prints, block 3 is no-match with a shell | no line lost, no-match right, shells closed once, quiet end, termination |
| `mixed` | program P runs `a` once and has a shell; Q runs `b` every 2 s, at least 1 s apart, with a no-match block | one activity per input, distance of starts, restarts for ever, the shell of P ends, no-match per run |
| `follow` | a file read once or followed; 4 lines, 2 truncations or rotations, blocks of 2 lines, waits up to 3 s | judgement at end of file, latency, refinement of `FollowedFile` |
| `false_nomatch` | as `pair`, 3 lines of output and reads of 1 line | no-match reacts to a run whose output matches |
| `pid_reuse` | the kernel recycles pids | a later child's death is taken for the command's |
| `cleanup_twice` | two shells die together | the end state is found and cleaned up twice |
| `dead_shell` | a shell exits early | reactions go to a pipe nobody reads |
| `rotation` | as `follow` | grok looks between the two steps of a rotation and stops following |
| `tail` | a FileTail started at the end; 4 lines, chunks of 2, 2 truncations or rotations | never asleep over data, refinement of `FollowedFile` |
| `tail_reopen` | as `tail` | the file that is open is taken for another and read twice |
| `xbox_tree` | a hub and two proxies that name it, a console each; 2 packets, 1 death or port change, loss | routes, no echo, at most once, everybody reached; refinement of `SharedNetwork` |
| `programs` | glob: 2 paths, 2 files, 2 renames or deletions; channel: 3 senders, 3 receivers; dxargs: 2 workers, 5 tokens by 2; expansion: every balanced input of up to 4 tokens; barber: 2 chairs, 3 customers; rule database: 2 sessions, 2 sets, a number and a text at whole times and one float time, a rule that feeds another and two by count; moused: 3 buttons, all options | the properties of the seven small programs |

`false_nomatch`, `pid_reuse`, `cleanup_twice`, `dead_shell`, `rotation` and
`tail_reopen` are expected to fail: each checks what a comment or document says,
which the code does not do (`findings` quotes it).

Properties, beyond the type invariants:

* `NoLineLost`: an input that is closed has nothing unread. Breaks if the eof
  handler runs in the iteration that reaps the command.
* `NomatchIsRight`: when the eof handler is about to run, grok knows whether this
  run printed a matching line.
* `ClosedWithProgram`: a program's shells are closed, once, when its last input is done.
* `EndIsQuiet`: once grok decided to end, no child is left and all inputs are done.
* `Terminates`: when nothing is restarted, `main` returns. It needs every death to
  be reaped, every shell to be closed, and the cascade of inherited pipes to
  unwind: a shell sees end-of-file only after the shells forked later are gone.
* `OneActivity`: an input has one process or one scheduled callback, or its fork failed.
* `StartsApart`: starts are at least `run-interval` and `minimum-restart-delay` apart.
* `RunsAgain`, `ShellsEnd`: a periodic command runs for ever again; the shell of a
  finished program is reaped meanwhile. `ShellsEnd` is stated for a program that is
  alone in having shells. Otherwise it is false: a shell forked later by a program
  that runs for ever inherits the write end and keeps the earlier one open.
* `PassIsJudged`: when the file is read, the pipe is empty and `matched` is what was read.
* `KeepsUp`: a line is seen within `MaxWait` seconds of being written.
* `PromiseKept`: the refinement above, for `GrokFileInput` and for `FileTail`.
* `Awake`: while data waits in the open and watched file, a read is scheduled or a
  notification that schedules one is on its way.

* `Routes`: a table that names a proxy for a console names the next one on the way.
* `NeverBack`: no packet is on its way to the network of its sender.
* `OnPath`: a packet for one console is written only on the way to it.
* `OneNetwork`: each packet at most once on each network: refinement of `SharedNetwork`.
* `Reaches`: what was sent to everybody, when all links were known and with nothing
  lost, is on every network once nothing is under way. It holds only because every
  proxy sniffs what it writes.
* `GlobIsTold`: the watch of a path is on its file, or an event is on its way, or the
  old file is held open. `GlobConverges`: when the files rest, the known paths are in
  the end those that exist, unless an exception ended the reactor.
* `ChannelMeets`: refinement of `SyncChannel` (each send meets one receive and returns
  after it). `ChannelReturns`: in the end no send waits beside a receive.
* `BarberTells`: nobody misses that he is shaved. `BarberWakes`: whose notify found the
  barber asleep is shaved, or the barber quits.
* `DxTokens`: every token in one task, in order, all tasks full but the last.
  `DxNothingLeft`: unless all workers ended by an error, every task was run, or taken by
  a worker that failed. `DxEnds`: after the input dxargs ends.
* `GrokFolds`: folding the groups back gives the pattern, at every level. `GrokJudges`: a
  callout runs the predicate of the group before it. `GrokExpandEnds`: without
  self-reference it ends, expanded and compiled or refused for a subname used twice.
* `FancyAggregates`: after a session every window that got a value under a rule has the
  aggregate of exactly its values, through chains of rules. It speaks of windows that no float touched
  (`Clear`: none told of the window, is stored in it, or took the place of its result) and no
  exception forgot (`lost`); the code promises nothing for the others, and there the aggregate is missing or stale.
  Values and results at float times are in the same runs, so that they are seen to disturb no other window.
  `FancyCloses`: Close returns, also after an exception.
* `MouseSettles`: when the mouse says no more, the console comes to know which buttons are down,
  whatever was held back for the emulation; it leaves out `-V` on a console with the extended
  interface.

Bounds. `MaxLines`, `Capacity` and `Chunk` bound output: two lines in a run, and one
read, are enough to tell "the last line" from "some line", and three lines with reads of one
to leave output behind. Two inputs and three blocks give every pair of events the
callbacks can order (two deaths, a death and a read, two shells, one shell inheriting from
another). `Pid` is large enough for every child at a time and one that is
remembered. `MaxWait` is 3 instead of 60: the wait doubles once and is capped once. `MaxTurns`
is 2 so that a rotation can follow a truncation and a name can come back to a
freed inode. `PidsInOrder` and `InodesInOrder` give new pids and inodes their
lowest free number; no action tells them apart, so only names are lost (symmetry
would not be sound with liveness). `ReadsAgain` stops exploring after a missed change
once a line was read twice: a triple coincidence makes grok read a file for ever.
In `FileTail` it cuts the same way, at twice `MaxLines`. `FileTail.cfg` allows deadlock: once
the writer has used up its bounds and all is read, a FileTail waits for a
notification, and a dead one does nothing.

`xbox_tree` has a relay (the hub) and two leaves, so that a packet is relayed once and
an answer crosses it; two packets make a broadcast and the answer it taught the way
for; one fault falls before, between or after them. Its longest paths are two links;
the theorems cover the rest.

`programs` picks one program in its first state; the others stay unstarted, where their
fairness asks nothing. The states are the sum and not the product of theirs, and every
property speaks of one program only. The bounds: two paths and two files give a rename
over a watched file and a name that comes back; three threads a side let a notify find a waiter of
the wrong kind; five tokens by two give full tasks and a remainder; patterns nest twice, with a
group, a predicate and a subname inside; three customers and two chairs fill the shop; two sets
overwrite a value in a window or put one on the boundary of the next, and the second session
continues with the rules and windows of the first; an hour of two microseconds (`Second`) lets a float be stored in a
window and tell another, and a text under the averaging rule ends the evaluator. `MaxMove` is the code's own value; every set of options and every packet is tried in every state. Deadlock is allowed in both: consoles that have sent
everything, a channel without partner and a shop that is closed stop.

Not every option combines with every other in the runs: `restart-on-exit` alone
(`RestartOnDeath`) and a fork that fails (`ForkMayFail`) are in the model and in
the theorems, and in no run.

Fairness. `WF(Grok)`: the one thread keeps running callbacks and polling. `WF(Tick)`:
time passes. `WF(CommandExit(p))`, `WF(ShellExit(p))`: a command ends after its
bounded output, a shell ends when it reads end-of-file. No strong fairness, and
none on what the writer of a file does. In `FileTail`, the reactor keeps serving timers and
notifications, neither of which waits for ever behind the other (`WF` of each). Grok's callbacks take no time: a second
passes in `GrokFileInput` only while the loop sleeps. In `programs` the scheduler runs
every thread that can run: `WF` of each thread or of the one reactor, none on customers that come, on
threads that call, on input, on files or on a session's end; moused's select times out and time
passes while the mouse says nothing (`MouseSettles` has that as its premise). `xbox_tree` needs no fairness: its
properties are safety properties (`Reaches` speaks of the moment when nothing is under way).

Mutants. Next to a definition stands a mutated form of it that a plausible bug
would give (`if` for `while` around waitpid, a handler run one iteration early, a
cap forgotten); every property of a passing run is violated by one of them.

## Theorems

For every set of programs, inputs, blocks, pids, files, and every bound:

* `TypeCorrect`, `FileTypeCorrect`, `TailTypeCorrect`: type correctness.
* `OneActivityHolds`, `ClosedWithProgramHolds`, `EndIsQuietHolds`
  (`GrokSafety_proofs`), from the assumption that the kernel does not give out
  a pid grok still remembers (`~RecyclesPids`; run `pid_reuse` shows why it is
  needed). The property is not inductive: `Inv` in `GrokSafety_proofs` adds that
  pids identify processes (a process of an input has the pid the input
  remembers, one of a shell that of its block), that what a program's blocks have
  been closed for is that its inputs are all done, and that once the end state
  was found nothing is scheduled and no child exists. Each action preserves each
  conjunct; the end state then follows from `CheckEndState`, which looks at exactly
  `done` and `mpid`.
* `TailPromiseIsSafe` (`FileTail_proofs`): the safety half of `PromiseKept`. As long as no change was missed
  there is one file (`WriterInv`), the FileTail has it open, and stands behind the last line it
  gave (`At`) or behind the end of a file that was truncated there and is still shorter
  than at the last stat (`Shrank`); no "moved" is told, which would make it read again from the start.
* `NoLineLostHolds`, `NomatchIsRightHolds` (`GrokSafety_proofs`), from `~RecyclesPids` and
  `Capacity <= Chunk`: what a command can leave in its pipe fits one read (run `false_nomatch` shows
  why it is needed). `LinesInv` says that a pipe that has data when the end of file handler is
  scheduled is read in the same iteration before it (`ReadFirst`), that nothing of a run is left when
  the next one starts or the input is done (`NothingUnread`), and that what matched is counted or still unread
  (`Judged`).
* `StartsApartHolds` (`GrokSafety_proofs`), from `~RecyclesPids`: through the cycle of exit, delay and
  start, the age of the last start plus what is left of the delay is never less than the
  `Horizon` of the options (`PacedInv`).
* `AwakeHolds` (`FileTail_proofs`), without assumptions on the
  environment. `FileOpen` (a file is open whenever one is read, and `initialize`
  schedules a read before it watches) is what `Awake` needs to be inductive: the
  window between the open and the watch is covered by the read already scheduled,
  every later one by the event that a write or a truncation leaves.
* `PassIsJudgedHolds`, `PipeHasRoomHolds` (`GrokFileInput_proofs`), from
  `BlockFits`: a block is no larger than one read of the bufferevent and than the
  pipe. `PipeInv` says that the pipe never holds more than a block, that a
  timer callback finds it empty, and that `hit` is `matched` or in the pipe.
  `BlockFits` holds for the usual 4096-byte block; on a file system with large
  blocks grok can block in `write` for ever.
* `KeepsUpHolds`, `PromiseIsSafe` (`GrokFileInput_proofs`), from `BlockFits`: the second is the safety half
  of `PromiseKept`. `FollowInv` says where grok stands, as long as it missed no change: at the place in the
  current file that belongs to the lines it has read (`At`), after the end of one that was truncated
  (`Truncated`), in one that was rotated and ended before the current one began (`Behind`), or between
  the stat and the open of the next (`Reopening`). In each the lines read are lines 1, 2, ... of
  all that was written; and grok begins to wait only where it has seen them all
  (`Timely`).

* `XboxTypeCorrect`, `RoutesHolds`, `NeverBackHolds`, `OnPathHolds` (`XboxTree_proofs`), for every
  tree (assumption `XboxTree`: `Hop` has one way between any two), every loss, order, restart and
  bound. `IInv` adds to them: entries of the proxy table are links; a datagram travels along a link,
  away from where its packet was sent (`NetRight`); a packet that is sniffed was sent here or its
  sender is already in the table (`LanRight`: this is why `addxbox` must precede
  `distribute_packet`); a walk of the table has a sender to leave out (`ScanRight`).
* `OneNetworkHolds` (`XboxTree_proofs`), on top of them: the refinement of `SharedNetwork`. Each packet is
  on the way to a network, in its buffer, or has been heard there, in one place only (`Once`): a link of
  the tree carries it at most once because the network at its near end had it first and scans its
  table once.
* `ChannelTypeCorrect`, `ChannelImplements` (`Threads_proofs`), for any senders and receivers:
  the refinement `ChannelMeets` with every step mapped to a step of `SyncChannel` or none. The
  invariant says that at most one send and one receive are inside their locks and what the two
  flags mean in each pair of their places.
* `BarberTellsAll` (`Threads_proofs`), for any chairs and customers: the barber has a customer
  exactly while he shaves, and whoever sits on a chair has not been touched.
* `DxTokensAll`, `DxNothingLeftAll` (`Threads_proofs`), for any workers and input: tasks continue one
  another (`Chained`); a pill has no task behind it (`PillsLast`); every task is in the queue, with a
  worker, run, or was taken by a worker that failed (`AllKept`).

* `ReachesAll` (`XboxTree_proofs`), for every tree in which, besides, every way ends (assumption
  `XboxWays`, which TLC evaluates on the instance). `Whole` follows a packet of which nothing was lost:
  for each network that had it and each next one away from its sender it is still in the buffer there, in the
  walk of the table, on the wire, or has arrived (`Carried`). Once nothing is under way, the networks
  that had it are closed under "next", and by `XboxWays` all.
* `GlobTypeCorrect`, `GlobIsToldAll` (`GlobWatch_proofs`), for any files, paths and changes.
  `GlobIsTold` is inductive with the types, of which one part is that two files never have one path. Each of
  `Rename`, `Unlink`, `Close` and `TailReads` either keeps the premise or puts the event that tells of
  it behind the others; taking an event ends the watch it speaks of.
* `FancyTypeCorrect`, `FancyAggregatesAll` (`Threads_proofs`), for any rules, rows, times and sessions, rules that feed
  themselves (then Close never returns and the property says nothing of that session) and rules that
  raise. A window that is owed is notified, taken or about to be told (`Pending`), or no longer `Settled` for another
  reason (a float touched it, an exception forgot it), or it is the one being read or written, or its
  aggregate is right (`NothingForgotten`). Of the one being read the evaluator has seen exactly what the window has
  from the cursor on, as long as it is settled; a row set there meanwhile makes it pending, or
  touched if its time was a float (`SeenIsRight`, `SettledKept`). Two notifications are merged only if a float told one of
  them (`NotifyMoves`). The thread ends with nothing pending (`Threads`: `last`), or by an exception with all that
  was pending lost.
* `ExpandTypeCorrect`, `ExpandsFaithfully`, `CalloutFindsItsPredicate` (`GrokExpand_proofs`), for any patterns, nested to any
  depth, and any input. A turn of the loop replaces one reference at `at` by its pattern inside a group
  (`Grown`); everything behind it moves by `d`. `Grouped` says that each capture has one opening and one closing,
  in the order of the captures and not behind the place where the search goes on (therefore the new capture is
  the last one), `Searched` that before that place only unknown names are left. `FoldsAll` is kept because a stretch around
  `at` shows one reference before and one group after, by rank. For the predicates: every capture's group is balanced, also
  counting the groups its pattern brings with it (`Matched`: as many openings as closings from its opening to its closing, and
  more closings in every shorter part up to there), so the group that closed last before a callout is the capture's (`Called`); its
  number is the count of groups that opened up to it, which is what `Study` read back (`Numbered`).
* `TypesCorrect`, `ProgramsAreSafe` (`Programs_proofs`): in the specification that run `programs` checks, with all seven
  programs side by side, every variable has its type, every safety property above holds, and the channel implements
  `SyncChannel`. For moused: the table of states leads from states to states, and movements are never counted
  beyond `MaxMove`.
* `ChannelNeverStuck`, `BarberNeverForgets`, `DxWorkersGo`, `FancyCloseWakes` (`Threads_proofs`),
  `MouseTellsAll` (`Programs_proofs`): the safety cores of `ChannelReturns`, `BarberWakes`, `DxEnds`, `FancyCloses`
  and `MouseSettles`, for any number of threads. No state is reached in which somebody sleeps, or holds
  something back, that nobody will wake or tell:
  - channel: whom a flag is for is not asleep, and a sender that waits has left a flag up (`Heard`), so
    a send and a receive that are both under way never wait for each other;
  - barber: a customer whose notify found the barber asleep has a chair or is being shaved
    (`Remembered`), and while that lasts the barber does not turn to sleep;
  - dxargs: the pills in the queue and the workers that quit add up to the pills `finish` put, and pills are last
    (`Counted`), so a worker that main joins has something to get;
  - FancyDB: the evaluator sleeps with the event set only until `Finish`, which set it, notifies;
  - moused: what is told is what the state stands for, and the state fits the buttons that are
    down (`MouseTells`, checked state by state against the table); only a state that a timeout leaves holds a
    button back. `-V` with the extended ioctl is excepted, where a change is lost (see below).

  What remains for TLC is the fairness: that the step which is possible is taken. `ENABLED` being out of the
  prover's reach, these say which guard holds (`CanGo`, `WorkersGo`) instead.

Every invariant that a run checks, and the two refinements of `SharedNetwork` and `SyncChannel`, are
proved for all values of the constants. Where a fact needs induction over a position or a length
(matching groups, the rank of a token), it is proved from a least counterexample: a set of naturals that
is not empty has a least element (`WFMin`, `NatLessThanWellFounded`).

Only model-checked: liveness (`Terminates`, `RunsAgain`, `ShellsEnd`, `GlobConverges`,
`ChannelReturns`, `BarberWakes`, `DxEnds`, `GrokExpandEnds`, `FancyCloses`, `MouseSettles`, and the fairness half of
`PromiseKept`), which the prover does not reach; of five of them the safety core above is proved, of `PromiseKept` its
safety half.

## Further hazards

What the source shows and the hazard list of `PROJECT.json` does not hold.

* grok: a failed fork (`grok_input.c:162`) stores the pid -1 and the command never runs again
  (`ForkMayFail`); grok keeps the write end of a command's stdin open (60); a file that does not exist
  at the start is never opened later (93, `AddInput`); with `read-stderr` one bufferevent is lost (74).
  `grokre.c:203`: a subname used twice makes the expansion a null pointer that goes to
  `pcre_compile` (`Refused`); `grokre.c:346`: the study assumes that every name in the
  compiled expression is a capture of grok's, so a group the user named breaks it; `grokre.c:191`: ids
  have four hexadecimal digits; compiling again keeps the old captures; a pattern that refers
  to itself expands for ever; `grok.h:53` spells its lookbehind `(?!<\\)`, which is a lookahead;
  the regexp predicate returns no failure (`predicates.c:75`);
  the tenth match block of a program reallocates the array without clearing it (`grok_config.c:81`).
* FileTail: after a rotation the watch stays on the old file (`filetail.rb:91`); any start position but -1
  is taken for 0 (52).
* FileGlobWatch: a file that goes between the glob and the watch ends the reactor (`globwatcher.rb:72`);
  a file replaced while somebody holds the old one is not found; the FileTail of a file that
  went is never closed (113).
* xboxproxy: the hello is sent once (601), and a server that was not up learns of the proxy only from a
  later packet; a packet received before pcap is ready is written with a null handle (704); a late
  datagram from an old port restores that port (340); tables take 512 entries and are never emptied
  (369).
* dxargs: a worker that is refused removes the socket of another dxargs (113); the output lock is not
  released when writing fails (85); `-n 0` never ends (321); a fatal worker does not change the
  exit status (235).
* SleepingBarber: a customer who sits down between the barber's look and his `wait` is not told of (192);
  `setFinished` notifies nobody (179); the loop ends only with a full shop (184).
* moused: with `-V` a button let go in a packet read while moused prepares to scroll is not told later, though the
  comment says deferred (`moused.c:1055`): press 1, press 2 as 1 is let go, let go of 2, and the console keeps
  button 1 down (three steps of `Moused`); the "prepare" state survives a middle click (1013), so that clicks stay
  dropped until the mouse moves and another packet ends the scrolling; the wheel movement is stored after the event was sent (1094).
* FancyDB: a rule that feeds itself keeps Close from returning (`fancydb.py:276`); nothing wakes the evaluator
  before Close once it waits (73); the range of a window includes its end, so a value there counts in two windows
  or one, depending on what was evaluated when (`simpledb.py:292`); main and evaluator share a database handle opened without
  `DB_THREAD` (`simpledb.py:158`); a time with a fraction is stored in one window while another is told (`simpledb.py:173`,
  `fancydb.py:340`), which gets a result without it, or none, at a time scaled once more; a value that is no number ends
  the evaluator, and Close does not notice (`fancydb.py:274`); a rule by count makes every Set of its source row
  raise (211), after the row was stored and before later listeners hear of it; `Delete` notifies no rule; a killed session loses
  its notifications, and their windows stay stale until they are set again.

## Not modelled

In the modelled programs: the contents of a shell's stdin (a shell that stops reading blocks grok in
`fprintf`), commands that read their stdin, `read-stderr`, lines split over two
blocks and last lines without newline, the text of reactions, the configuration parser; the TCP branches of xboxproxy,
which no option reaches, and its vendored hash table; dxargs' options, output files and output lock; the numbers that
FancyDB's rules compute (an aggregate is the values it was computed from), negative times and times of more than 63 bits, rules with
steps below one, encoded keys. A time evtool cannot read at all raises before anything is stored, which is `CloseDB` without a set.

Whole projects, and why:

* `spanningtree`: no run has a defined result. The bitmap of `prim` is `numvert/8` bytes and not cleared;
  `kruskal` frees a bitmap that merged trees share more than once and writes one past `MAPLEN`; the sort is
  called with the index one past the last edge; the counting sort moves the wrong counter.
* `datacomm` (battleship): unfinished. The server never allocates its players and games, forwards
  no shot, and its UDP loop is empty.
* `newpsm`: the interrupt handler never fills the buffer that `read` sleeps on, and `close` leaves the device
  open; `oldpsm.c` and most of `moused-vscroll` are FreeBSD's. `Moused` has the loop the
  author changed; mouse protocols, their detection, options and button maps are left out.
* `classes`: the pager is a sequential exercise (its "lru" moves the head of the list, not the
  page that was hit); the rest are fork and IPC samples and XML transformations.
* Older and foreign versions of grok, copies of xboxproxy under `branches` and `tags`: the latest is modelled.
* Window managers, drivers and firmware: driven by X11 or a kernel. Web front ends, collectors, scripts, samples,
  documentation: generated, vendored, or without a protocol of their own.

## Plan

What would add most from here:

1. `read-stderr` in `GrokCollection`, and a shell that does not read.
2. Proofs: the safety cores of `GlobConverges`, `GrokExpandEnds` and the liveness of the event loop.
3. `GlobWatch` composed with the full `FileTail`.
4. The four indexes of `grok_capture.c`, and the predicates.
