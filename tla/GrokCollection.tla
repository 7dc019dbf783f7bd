--------------------------- MODULE GrokCollection ---------------------------
(* The event loop of grok 20090928: grok_program.c, the process half of      *)
(* grok_input.c and the reaction shells of grok_matchconf.c, together with   *)
(* the libevent 1.x loop, the kernel and the child processes they talk to.   *)
(*                                                                           *)
(* A collection runs programs.  A program has inputs (commands whose stdout  *)
(* is read line by line) and match blocks (a pattern, and a shell that       *)
(* receives a reaction for each line that matches).  One thread runs every   *)
(* callback; the children run beside it.                                     *)
EXTENDS Integers, Sequences, FiniteSets

CONSTANTS
  Prog,          \* programs
  Input,         \* exec inputs of all the programs
  Match,         \* match blocks, numbered in the order of the config file
  ProgOf,        \* the program of each input and of each match block
  IsNomatch,     \* gmc->is_nomatch
  BreakIfMatch,  \* gmc->break_if_match
  ToStdout,      \* gmc->shell is "stdout": no process, no pipe
  RestartOnDeath, MinRestartDelay, RunInterval,     \* options of an input
  Lines,         \* the lines an input may print: sets of match blocks whose
                 \* patterns they match
  Pid,           \* process ids, none of them 0 or -1
  Capacity,      \* lines that fit in a pipe
  Chunk,         \* lines that fit in one read of a bufferevent
  MaxLines,      \* bound: lines printed by one run of a command
  RecyclesPids,  \* may the kernel reuse a pid grok still remembers?
  ForkMayFail,   \* may fork() return -1?
  ShellsMayDie   \* may a shell exit before it reads end-of-file?

ASSUME MatchOrder    == Match \subseteq Nat \ {0}
ASSUME Disjoint      == Input \cap Match = {}
ASSUME ProgOfType    == ProgOf \in [Input \cup Match -> Prog]
ASSUME MatchOptions  == /\ IsNomatch \in [Match -> BOOLEAN]
                        /\ BreakIfMatch \in [Match -> BOOLEAN]
                        /\ ToStdout \in [Match -> BOOLEAN]
ASSUME InputOptions  == /\ RestartOnDeath \in [Input -> BOOLEAN]
                        /\ MinRestartDelay \in [Input -> Nat]
                        /\ RunInterval \in [Input -> Nat]
ASSUME LinesType     == Lines \in [Input -> SUBSET (SUBSET Match)]
ASSUME PidType       == 0 \notin Pid /\ -1 \notin Pid
ASSUME BoundsType    == /\ Capacity \in Nat \ {0}
                        /\ Chunk \in Nat \ {0}
                        /\ MaxLines \in Nat
ASSUME FaultsType    == /\ RecyclesPids \in BOOLEAN
                        /\ ForkMayFail \in BOOLEAN
                        /\ ShellsMayDie \in BOOLEAN

NoPid  == 0       \* no child yet, or a shell that was reaped
Failed == -1      \* what fork() returned when it failed

VARIABLES
  \* grok's own state
  matched,       \* ginput->instance_match_count # 0
  restartDelay,  \* ginput->restart_delay, in seconds
  done,          \* ginput->done; the descriptors are closed with it
  pid,           \* gipt->pid, never cleared
  mpid,          \* gmc->pid, 0 when there is no shell
  shellinput,    \* gmc->shellinput
  freed,         \* grok_free(&gmc->grok) calls, up to 2
  cleanups,      \* grok_matchconfig_global_cleanup calls, up to 2
  inbuf,         \* lines of the read callback in progress
  \* the libevent loop: what event_once scheduled, what an iteration activated
  eofWait, eofDue,              \* grok_input_eof_handler
  startWait, startDue, startIn, \* _program_process_start, seconds to the next
  exitEv,                       \* event_base_loopexit
  sigCaught, sigDue,            \* SIGCHLD deliveries
  readDue,                      \* inputs with an active read event
  loop,
  \* the kernel and the children
  proc,          \* state of each process
  owner,         \* the input or match block a process was forked for
  holders,       \* children that inherited the write end of a shell's stdin
  out,           \* p_stdout: lines written and not yet read
  wrote,         \* lines the current run of an input printed, up to MaxLines
  age,           \* seconds since the last start of an input, up to MaxAge
  \* history
  hit            \* did the current run print a line that some block matches?

grokVars == <<matched, restartDelay, done, pid, mpid, shellinput, freed,
              cleanups, inbuf>>
loopVars == <<eofWait, eofDue, startWait, startDue, startIn, exitEv,
              sigCaught, sigDue, readDue, loop>>
envVars  == <<proc, owner, holders, out, wrote, age>>
vars     == <<grokVars, loopVars, envVars, hit>>

Larger(a, b)  == IF a >= b THEN a ELSE b
Smaller(a, b) == IF a <= b THEN a ELSE b
UpTo2(n)      == Smaller(n, 2)

InputsOf(p)  == {i \in Input : ProgOf[i] = p}
MatchesOf(p) == {m \in Match : ProgOf[m] = p}
NomatchOf(p) == {m \in MatchesOf(p) : IsNomatch[m]}

(* PROCESS_SHOULD_RESTART *)
ShouldRestart(i) == RestartOnDeath[i] \/ RunInterval[i] > 0

(* the time that must pass between two starts of an input *)
Horizon(i) == Larger(RunInterval[i], MinRestartDelay[i])
MaxAge(i)  == IF Horizon(i) = 0 THEN 0 ELSE Horizon(i) + 1

-----------------------------------------------------------------------------
(* A line is a record: the blocks whose patterns it matches, and whether it  *)
(* was printed by an earlier run than the current one (history).             *)
Line == [hits : SUBSET Match, old : BOOLEAN]

TypeOK ==
  /\ matched \in [Input -> BOOLEAN]
  /\ restartDelay \in [Input -> Int]
  /\ done \in [Input -> BOOLEAN]
  /\ pid \in [Input -> Pid \cup {NoPid, Failed}]
  /\ mpid \in [Match -> Pid \cup {NoPid, Failed}]
  /\ shellinput \in [Match -> {"NULL", "stdout", "pipe"}]
  /\ freed \in [Match -> 0..2]
  /\ cleanups \in 0..2
  /\ inbuf \in [Input -> Seq(Line)]
  /\ eofWait \in [Input -> Nat] /\ eofDue \in [Input -> Nat]
  /\ startWait \in [Input -> Nat] /\ startDue \in [Input -> Nat]
  /\ startIn \in [Input -> Nat]
  /\ exitEv \in {"none", "wait", "due", "gotterm"}
  /\ sigCaught \in Nat /\ sigDue \in Nat
  /\ readDue \subseteq Input
  /\ loop \in {"running", "returned"}
  /\ proc \in [Pid -> {"none", "running", "zombie"}]
  /\ owner \in [Pid -> Input \cup Match \cup {NoPid}]
  /\ holders \in [Match -> SUBSET Pid]
  /\ out \in [Input -> Seq(Line)]
  /\ wrote \in [Input -> Nat]
  /\ age \in [Input -> Nat]
  /\ hit \in [Input -> BOOLEAN]

(* grok_collection_init and grok_collection_add of every program: the pipes  *)
(* exist and the first start of every input is due at once.                  *)
Init ==
  /\ matched = [i \in Input |-> FALSE]
  /\ restartDelay = [i \in Input |-> 0]
  /\ done = [i \in Input |-> FALSE]
  /\ pid = [i \in Input |-> NoPid]
  /\ mpid = [m \in Match |-> NoPid]
  /\ shellinput = [m \in Match |-> "NULL"]
  /\ freed = [m \in Match |-> 0]
  /\ cleanups = 0
  /\ inbuf = [i \in Input |-> << >>]
  /\ eofWait = [i \in Input |-> 0] /\ eofDue = [i \in Input |-> 0]
  /\ startWait = [i \in Input |-> 1] /\ startDue = [i \in Input |-> 0]
  /\ startIn = [i \in Input |-> 0]
  /\ exitEv = "none"
  /\ sigCaught = 0 /\ sigDue = 0
  /\ readDue = {}
  /\ loop = "running"
  /\ proc = [p \in Pid |-> "none"]
  /\ owner = [p \in Pid |-> NoPid]
  /\ holders = [m \in Match |-> {}]
  /\ out = [i \in Input |-> << >>]
  /\ wrote = [i \in Input |-> 0]
  /\ age = [i \in Input |-> MaxAge(i)]
  /\ hit = [i \in Input |-> FALSE]

-----------------------------------------------------------------------------
(* fork                                                                      *)

Remembered == {pid[i] : i \in Input} \cup {mpid[m] : m \in Match}

FreePid == {p \in Pid : /\ proc[p] = "none"
                        /\ RecyclesPids \/ p \notin Remembered}

ForkResult == FreePid \cup (IF ForkMayFail THEN {Failed} ELSE {})

(* f maps each of the children to be forked to what its fork returns; two    *)
(* children never share a pid.                                               *)
Forks(children) ==
  {f \in [children -> ForkResult] :
     \A c, d \in children : c # d /\ f[c] = f[d] => f[c] = Failed}

(* The processes after the forks f of children. *)
ProcAfter(children, f) ==
  [p \in Pid |-> IF \E c \in children : f[c] = p THEN "running" ELSE proc[p]]
OwnerAfter(children, f) ==
  [p \in Pid |-> IF \E c \in children : f[c] = p
                   THEN CHOOSE c \in children : f[c] = p
                   ELSE owner[p]]

-----------------------------------------------------------------------------
(* Reactions: grok_matchconfig_exec, _exec_nomatch, _react, _start_shell     *)

(* The blocks that react to a line: those that match it, in order, up to the *)
(* first that says break-if-match.                                           *)
Fired(hits) == {m \in hits : ~IsNomatch[m] /\
                  \A n \in hits : n < m /\ ~IsNomatch[n] => ~BreakIfMatch[n]}

NewShells(fired) ==
  {m \in fired : shellinput[m] = "NULL" /\ ~ToStdout[m]}

Opened(fired) ==
  [m \in Match |->
     IF m \in fired /\ shellinput[m] = "NULL"
       THEN IF ToStdout[m] THEN "stdout" ELSE "pipe"
       ELSE shellinput[m]]

\* mutant: the shell keeps the write end of its own stdin
HoldersAfterKept(new, f) ==
  [m \in Match |->
     holders[m] \cup {p \in Pid : \E n \in new :
                        /\ f[n] = p
                        /\ shellinput[m] = "pipe" \/ (m \in new /\ m <= n)}]
(* A shell inherits the write ends that are open when it is forked: those of *)
(* the shells that run already, and of the ones forked before it in the same *)
(* callback.  It closes its own.                                             *)
HoldersAfter(new, f) ==
  [m \in Match |->
     holders[m] \cup {p \in Pid : \E n \in new :
                        /\ f[n] = p
                        /\ shellinput[m] = "pipe" \/ (m \in new /\ m < n)}]

(* grok_matchconfig_react for each of the fired blocks. *)
React(fired) ==
  LET new == NewShells(fired) IN
  \E f \in Forks(new) :
    /\ mpid' = [m \in Match |-> IF m \in new THEN f[m] ELSE mpid[m]]
    /\ proc' = ProcAfter(new, f)
    /\ owner' = OwnerAfter(new, f)
    /\ holders' = HoldersAfter(new, f)

-----------------------------------------------------------------------------
(* grok_collection_check_end_state                                           *)

\* mutant: the shells are not counted
StillAliveNoShells(isDone, shells) == \E i \in Input : ~isDone[i]
StillAlive(isDone, shells) ==
  \/ \E i \in Input : ~isDone[i]
  \/ \E m \in Match : shells[m] # NoPid

CheckEndState(isDone, shells) ==
  IF StillAlive(isDone, shells)
    THEN UNCHANGED <<cleanups, exitEv>>
    ELSE /\ cleanups' = UpTo2(cleanups + 1)
         /\ exitEv' = IF exitEv = "none" THEN "wait" ELSE exitEv

-----------------------------------------------------------------------------
(* The libevent loop.  An iteration polls: it activates the caught signals   *)
(* and the readable descriptors, then the timers that are due.  It then runs *)
(* what it activated: signals, reads, timers.  What a callback schedules     *)
(* waits for a later iteration.                                              *)

InCallback == \E i \in Input : inbuf[i] # << >>

SignalsRun == loop = "running" /\ ~InCallback
ReadsRun   == SignalsRun /\ sigDue = 0
TimersRun  == ReadsRun /\ readDue = {}

TimerActive == exitEv = "due" \/ \E i \in Input : eofDue[i] + startDue[i] > 0
IterationEnd == TimersRun /\ ~TimerActive

StartReady(i) == startWait[i] > 0 /\ startIn[i] = 0
TimerReady == exitEv = "wait" \/ \E i \in Input : eofWait[i] > 0 \/ StartReady(i)

Readable == {i \in Input : ~done[i] /\ out[i] # << >>}

(* epoll_wait, the signals it saw, the descriptors it reports, then          *)
(* timeout_process.                                                          *)
Activate(ready) ==
  /\ readDue' = ready
  /\ sigDue' = sigCaught /\ sigCaught' = 0
  /\ eofDue' = eofWait /\ eofWait' = [i \in Input |-> 0]
  /\ startDue' = [i \in Input |-> IF StartReady(i) THEN startWait[i] ELSE 0]
  /\ startWait' = [i \in Input |-> IF StartReady(i) THEN 0 ELSE startWait[i]]
  /\ exitEv' = IF exitEv = "wait" THEN "due" ELSE exitEv
  /\ UNCHANGED <<grokVars, startIn, loop, envVars, hit>>

Poll ==
  /\ IterationEnd /\ exitEv # "gotterm"
  /\ sigCaught > 0 \/ Readable # {} \/ TimerReady
  /\ Activate(Readable)

(* A signal interrupts an epoll_wait that was going to sleep: only signals   *)
(* are seen.  It sleeps only if no timer is due.                             *)
PollInterrupted ==
  /\ IterationEnd /\ exitEv # "gotterm"
  /\ sigCaught > 0 /\ ~TimerReady /\ Readable # {}
  /\ Activate({})

(* event_loopexit_cb, and the end of the iteration it ran in: event_base_loop *)
(* returns and so does main.                                                 *)
LoopExit ==
  /\ TimersRun /\ exitEv = "due"
  /\ exitEv' = "gotterm"
  /\ UNCHANGED <<grokVars, eofWait, eofDue, startWait, startDue, startIn,
                 sigCaught, sigDue, readDue, loop, envVars, hit>>

LoopReturn ==
  /\ IterationEnd /\ exitEv = "gotterm"
  /\ loop' = "returned"
  /\ UNCHANGED <<grokVars, eofWait, eofDue, startWait, startDue, startIn,
                 exitEv, sigCaught, sigDue, readDue, envVars, hit>>

-----------------------------------------------------------------------------
(* The callbacks                                                             *)

\* mutant: "if" instead of "while" around waitpid
ZombiesOnlyOne ==
  LET all == {p \in Pid : proc[p] = "zombie"}
  IN  IF all = {} THEN {} ELSE {CHOOSE p \in all : TRUE}
Zombies == {p \in Pid : proc[p] = "zombie"}

\* mutant: the fixed delay replaces what is left of the run interval
RestartDelayFixed(i) ==
  IF MinRestartDelay[i] > 0 THEN MinRestartDelay[i]
  ELSE IF RunInterval[i] > 0 THEN RunInterval[i] - age[i] ELSE 0
(* The delay the reaper computes for an input it restarts: what is left of   *)
(* the run interval, which may be negative, but no less than the fixed       *)
(* delay, if there is one.                                                   *)
RestartDelay(i) ==
  LET rest == IF RunInterval[i] > 0 THEN RunInterval[i] - age[i] ELSE 0
  IN  IF MinRestartDelay[i] > 0 THEN Larger(rest, MinRestartDelay[i]) ELSE rest

\* mutant: the handler is called in the iteration that reaps the command
ScheduleEofNow(reaped) ==
  /\ eofDue' = [i \in Input |-> eofDue[i] + (IF i \in reaped THEN 1 ELSE 0)]
  /\ UNCHANGED eofWait
(* event_once(grok_input_eof_handler) without delay: it runs in the next     *)
(* iteration of the loop, after the reads of that iteration.                 *)
ScheduleEof(reaped) ==
  /\ eofWait' = [i \in Input |-> eofWait[i] + (IF i \in reaped THEN 1 ELSE 0)]
  /\ UNCHANGED eofDue

(* _collection_sigchld: reap every dead child, forget the shells among them, *)
(* schedule the eof handler of the inputs whose pid is among them.           *)
Sigchld ==
  /\ SignalsRun /\ sigDue > 0
  /\ sigDue' = sigDue - 1
  /\ proc' = [p \in Pid |-> IF p \in Zombies THEN "none" ELSE proc[p]]
  /\ owner' = [p \in Pid |-> IF p \in Zombies THEN NoPid ELSE owner[p]]
  /\ mpid' = [m \in Match |-> IF mpid[m] \in Zombies THEN NoPid ELSE mpid[m]]
  /\ restartDelay' = [i \in Input |->
        IF pid[i] \in Zombies /\ ShouldRestart(i) THEN RestartDelay(i)
                                                  ELSE restartDelay[i]]
  /\ ScheduleEof({i \in Input : pid[i] \in Zombies})
  /\ CheckEndState(done, mpid')
  /\ UNCHANGED <<matched, done, pid, shellinput, freed, inbuf, startWait,
                 startDue, startIn, sigCaught, readDue, loop, holders, out,
                 wrote, age, hit>>

(* _program_process_stdout_read: one bufferevent read moves a chunk of the   *)
(* pipe to the buffer, then each of its lines goes to grok_matchconfig_exec. *)
StdoutRead(i) ==
  /\ ReadsRun /\ i \in readDue
  /\ LET n == Smaller(Chunk, Len(out[i])) IN
       /\ inbuf' = [inbuf EXCEPT ![i] = SubSeq(out[i], 1, n)]
       /\ out' = [out EXCEPT ![i] = SubSeq(@, n + 1, Len(@))]
  /\ readDue' = readDue \ {i}
  /\ UNCHANGED <<matched, restartDelay, done, pid, mpid, shellinput, freed,
                 cleanups, eofWait, eofDue, startWait, startDue, startIn,
                 exitEv, sigCaught, sigDue, loop, proc, owner, holders, wrote,
                 age, hit>>

\* mutant: the count is set for each line, not accumulated over the run
CountMatchesLast(i, fired) == matched' = [matched EXCEPT ![i] = fired # {}]
CountMatches(i, fired) ==
  matched' = [matched EXCEPT ![i] = @ \/ fired # {}]

ExecLine(i) ==
  /\ loop = "running" /\ inbuf[i] # << >>
  /\ inbuf' = [inbuf EXCEPT ![i] = Tail(@)]
  /\ LET fired == Fired(Head(inbuf[i]).hits \cap MatchesOf(ProgOf[i])) IN
       /\ CountMatches(i, fired)
       /\ shellinput' = Opened(fired)
       /\ React(fired)
  /\ UNCHANGED <<restartDelay, done, pid, freed, cleanups, loopVars, out,
                 wrote, age, hit>>

(* _program_process_start *)
ProcessStart(i) ==
  /\ TimersRun /\ startDue[i] > 0
  /\ startDue' = [startDue EXCEPT ![i] = @ - 1]
  /\ matched' = [matched EXCEPT ![i] = FALSE]
  /\ \E f \in Forks({i}) :
       /\ pid' = [pid EXCEPT ![i] = f[i]]
       /\ proc' = ProcAfter({i}, f)
       /\ owner' = OwnerAfter({i}, f)
       /\ holders' = [m \in Match |-> holders[m] \cup
            {p \in Pid : p = f[i] /\ shellinput[m] = "pipe"}]
  /\ age' = [age EXCEPT ![i] = 0]
  /\ wrote' = [wrote EXCEPT ![i] = 0]
  /\ hit' = [hit EXCEPT ![i] = FALSE]
  /\ out' = [out EXCEPT ![i] =
               [k \in 1..Len(@) |-> [hits |-> @[k].hits, old |-> TRUE]]]
  /\ UNCHANGED <<restartDelay, done, mpid, shellinput, freed, cleanups, inbuf,
                 eofWait, eofDue, startWait, startIn, exitEv, sigCaught,
                 sigDue, readDue, loop>>

(* event_once: a timer whose time is past is due in the next iteration.      *)
Delayed(seconds) == Larger(0, seconds)

\* mutant: a restarted input is closed as well
EndOrRestartBoth(i) ==
  /\ IF ShouldRestart(i)
       THEN /\ startWait' = [startWait EXCEPT ![i] = @ + 1]
            /\ startIn' = [startIn EXCEPT ![i] = Delayed(restartDelay[i])]
       ELSE UNCHANGED <<startWait, startIn>>
  /\ done' = [done EXCEPT ![i] = TRUE]
\* mutant: the delay is computed here ("This code should go in the eof
\* handler"), and may be negative
EndOrRestartHere(i) ==
  IF ShouldRestart(i)
    THEN /\ startWait' = [startWait EXCEPT ![i] = @ + 1]
         /\ startIn' = [startIn EXCEPT ![i] = RunInterval[i] - age[i]]
         /\ UNCHANGED done
    ELSE /\ done' = [done EXCEPT ![i] = TRUE]
         /\ UNCHANGED <<startWait, startIn>>
(* What grok_input_eof_handler does with the input: schedule its next start, *)
(* or disable its bufferevent, close its pipes and call it done.             *)
EndOrRestart(i) ==
  IF ShouldRestart(i)
    THEN /\ startWait' = [startWait EXCEPT ![i] = @ + 1]
         /\ startIn' = [startIn EXCEPT ![i] = Delayed(restartDelay[i])]
         /\ UNCHANGED done
    ELSE /\ done' = [done EXCEPT ![i] = TRUE]
         /\ UNCHANGED <<startWait, startIn>>

\* mutant: one input that is done is enough
ToCloseEarly(p, isDone) ==
  IF \E j \in InputsOf(p) : isDone[j] THEN MatchesOf(p) ELSE {}
(* The blocks whose shells are closed: all those of a program, once every    *)
(* input of the program is done.                                             *)
ToClose(p, isDone) ==
  IF \A j \in InputsOf(p) : isDone[j] THEN MatchesOf(p) ELSE {}

(* grok_input_eof_handler *)
EofHandler(i) ==
  /\ TimersRun /\ eofDue[i] > 0
  /\ eofDue' = [eofDue EXCEPT ![i] = @ - 1]
  /\ EndOrRestart(i)
  /\ LET fired   == IF matched[i] THEN {} ELSE NomatchOf(ProgOf[i])
         closing == ToClose(ProgOf[i], done')
     IN /\ matched' = [matched EXCEPT ![i] =
                         IF ShouldRestart(i) THEN FALSE ELSE @ \/ fired # {}]
        /\ React(fired)
        /\ shellinput' = [m \in Match |->
                            IF m \in closing THEN "NULL" ELSE Opened(fired)[m]]
        /\ freed' = [m \in Match |->
                       IF m \in closing THEN UpTo2(freed[m] + 1) ELSE freed[m]]
        /\ IF \A j \in InputsOf(ProgOf[i]) : done'[j]
             THEN CheckEndState(done', mpid')
             ELSE UNCHANGED <<cleanups, exitEv>>
  /\ UNCHANGED <<restartDelay, pid, inbuf, eofWait, startDue, sigCaught,
                 sigDue, readDue, loop, out, wrote, age, hit>>

-----------------------------------------------------------------------------
(* The environment: the commands, the shells and the clock                   *)

Running(p) == proc[p] = "running"

Write(p) ==
  /\ Running(p) /\ owner[p] \in Input
  /\ LET i == owner[p] IN
       /\ Len(out[i]) < Capacity /\ wrote[i] < MaxLines
       /\ wrote' = [wrote EXCEPT ![i] = @ + 1]
       /\ \E h \in Lines[i] :
            /\ out' = [out EXCEPT ![i] = Append(@, [hits |-> h, old |-> FALSE])]
            /\ hit' = [hit EXCEPT ![i] =
                         @ \/ Fired(h \cap MatchesOf(ProgOf[i])) # {}]
  /\ UNCHANGED <<grokVars, loopVars, proc, owner, holders, age>>

(* A child ends: its descriptors are closed and SIGCHLD is delivered, unless *)
(* it merges with one that is still pending.                                 *)
Exit(p) ==
  /\ proc' = [proc EXCEPT ![p] = "zombie"]
  /\ holders' = [m \in Match |-> holders[m] \ {p}]
  /\ sigCaught' \in {sigCaught + 1, Larger(1, sigCaught)}
  /\ UNCHANGED <<grokVars, eofWait, eofDue, startWait, startDue, startIn,
                 exitEv, sigDue, readDue, loop, owner, out, wrote, age, hit>>

CommandExit(p) == Running(p) /\ owner[p] \in Input /\ Exit(p)

(* A shell reads end-of-file once grok closed its stdin, or is gone, and so  *)
(* is every process that inherited the write end.                            *)
AtEof(m) == /\ shellinput[m] # "pipe" \/ loop = "returned"
            /\ holders[m] = {}

ShellExit(p) == Running(p) /\ owner[p] \in Match /\ AtEof(owner[p]) /\ Exit(p)

ShellDies(p) == ShellsMayDie /\ Running(p) /\ owner[p] \in Match /\ Exit(p)

Tick ==
  /\ age' = [i \in Input |-> Smaller(age[i] + 1, MaxAge(i))]
  /\ startIn' = [i \in Input |-> Larger(0, startIn[i] - 1)]
  /\ <<age, startIn>>' # <<age, startIn>>
  /\ UNCHANGED <<grokVars, eofWait, eofDue, startWait, startDue, exitEv,
                 sigCaught, sigDue, readDue, loop, proc, owner, holders, out,
                 wrote, hit>>

Returned == loop = "returned" /\ UNCHANGED vars

-----------------------------------------------------------------------------
Grok ==
  \/ Poll \/ PollInterrupted \/ LoopExit \/ LoopReturn \/ Sigchld
  \/ \E i \in Input :
       StdoutRead(i) \/ ExecLine(i) \/ ProcessStart(i) \/ EofHandler(i)

Environment ==
  \/ Tick
  \/ \E p \in Pid : Write(p) \/ CommandExit(p) \/ ShellExit(p) \/ ShellDies(p)

Next == Grok \/ Environment \/ Returned

Spec == Init /\ [][Next]_vars

-----------------------------------------------------------------------------
(* Safety                                                                    *)

Pending(i) == eofWait[i] + eofDue[i] + startWait[i] + startDue[i]
Exists(p)  == proc[p] # "none"

(* An input that is not done is in exactly one of these situations: it has   *)
(* one process (running or not yet reaped) and it is the one whose pid grok  *)
(* remembers, or one callback is scheduled for it (its start or its eof      *)
(* handler), or its last fork failed and it waits for ever.  An input that   *)
(* is done has neither.  So a command never runs twice at a time, no restart *)
(* is lost, and the eof handler runs once per run.                           *)
OneActivity ==
  \A i \in Input :
    /\ Pending(i) <= 1
    /\ \A p \in Pid : Exists(p) /\ owner[p] = i => pid[i] = p /\ Pending(i) = 0
    /\ ~done[i] /\ Pending(i) = 0 =>
         \/ pid[i] = Failed
         \/ pid[i] \in Pid /\ Exists(pid[i]) /\ owner[pid[i]] = i
    /\ done[i] =>
         Pending(i) = 0 /\ \A p \in Pid : Exists(p) => owner[p] # i

(* Every line a command printed was read before its pipe was closed.         *)
NoLineLost == \A i \in Input : done[i] => out[i] = << >> /\ inbuf[i] = << >>

(* When the eof handler of an input is about to run, grok knows whether this *)
(* run printed a line that matched: no-match reacts exactly to the runs that *)
(* printed none.                                                             *)
NomatchIsRight ==
  \A i \in Input : TimersRun /\ eofDue[i] > 0 => matched[i] = hit[i]

(* A block's shell is closed and its pattern freed when the last input of    *)
(* its program is done, once, and never used again.                          *)
ClosedWithProgram ==
  \A m \in Match :
    IF InputsOf(ProgOf[m]) # {} /\ \A i \in InputsOf(ProgOf[m]) : done[i]
      THEN freed[m] = 1 /\ shellinput[m] = "NULL"
      ELSE freed[m] = 0

(* Once grok decides that no subprocess is left, none is, and none will be.  *)
EndIsQuiet ==
  cleanups > 0 => /\ \A i \in Input : done[i]
                  /\ \A p \in Pid : ~Exists(p)

(* Two starts of an input are at least run-interval and at least             *)
(* minimum-restart-delay apart.                                              *)
StartsApart ==
  [][\A i \in Input : ProcessStart(i) => age[i] >= Horizon(i)]_vars

(* What the code says of itself and does not keep (runs that fail).          *)

(* "we found a dead child. Look for an input_process it belongs to": the     *)
(* input whose eof handler is scheduled is the one whose command died.       *)
DeathBelongsToInput ==
  [][\A i \in Input : Sigchld /\ pid[i] \in Zombies => owner[pid[i]] = i]_vars

(* "No more subprocesses are running. Breaking event loop now.": the cleanup *)
(* that goes with it, which frees the grok object that expands reactions, is *)
(* done once.                                                                *)
CleanedUpOnce == cleanups <= 1

(* "Setting the shell to a command string will run that command and pipe     *)
(* reaction data to it": no reaction is piped to a shell that grok reaped.   *)
ReactionsHaveAShell ==
  [][\A i \in Input : ExecLine(i) =>
       \A m \in Fired(Head(inbuf[i]).hits \cap MatchesOf(ProgOf[i])) :
          shellinput'[m] = "pipe" => mpid'[m] # NoPid]_vars

-----------------------------------------------------------------------------
(* Liveness                                                                  *)

(* grok's one thread keeps running, time passes, a command ends after its    *)
(* bounded output, a shell ends when it reads end-of-file.                   *)
Fairness ==
  /\ WF_vars(Grok)
  /\ WF_vars(Tick)
  /\ \A p \in Pid : WF_vars(CommandExit(p)) /\ WF_vars(ShellExit(p))

FairSpec == Spec /\ Fairness

Runs(i) == pid[i] \in Pid /\ Running(pid[i]) /\ owner[pid[i]] = i

(* When no command is restarted, grok ends: the commands are reaped, their   *)
(* shells are closed, the shells end one after the other and the loop exits. *)
Terminates == <>(loop = "returned")

(* A command with restart-on-failure or run-interval runs again and again.   *)
RunsAgain == \A i \in Input : ShouldRestart(i) => []<>Runs(i)

(* The shells of a finished program end and are reaped, although commands of *)
(* other programs run on and inherit the write end of their stdin.  Not so   *)
(* when another program has a shell that was forked later: it inherits the   *)
(* write end too and keeps it for as long as its own program runs.           *)
NoOtherShells(m) == \A n \in Match : ProgOf[n] # ProgOf[m] => ToStdout[n]
ShellsEnd ==
  \A m \in Match : NoOtherShells(m) => (freed[m] > 0 ~> mpid[m] = NoPid)
=============================================================================
