-------------------------------- MODULE DxArgs -------------------------------
(* dxargs (dxargs.py): xargs over ssh.  The main thread cuts its input into  *)
(* tasks and puts them on a queue; a worker per host takes them, starts a    *)
(* master ssh for its first one, and runs each through the control socket of *)
(* that master, for which it waits a while.  After the last task main puts a *)
(* task that ends a worker for every worker, and joins them all.             *)
(*                                                                           *)
(* sys.exit in a worker ends the thread and no more: the program goes on     *)
(* without that worker, and ends well.                                       *)
EXTENDS Naturals, Sequences, FiniteSets

CONSTANTS
  Worker,
  N,          \* -n: tokens of a task
  MaxTokens,  \* bound: tokens of the input
  Tries,      \* checks for the control socket (10 in the code)
  MaxOthers   \* bound: other dxargs with the same hosts and directory

ASSUME DxBounds ==
  /\ IsFiniteSet(Worker) /\ N \in Nat \ {0}
  /\ MaxTokens \in Nat /\ Tries \in Nat \ {0} /\ MaxOthers \in Nat

VARIABLES
  main,       \* "starts", "reads", "finishes", "joins", "done"
  read,       \* tokens read
  tokens,     \* how many of them are not in a task yet
  tasks,      \* history: the tasks, as the last token and the size of each
  queue,      \* tasks by number, and Die
  pills,      \* how many Die are put
  worker,     \* worker[w]: "none", "new", "gets", "waits", "runs", "quit", "refused", "fatal"
  task,       \* task[w]: the task a worker took last, or 0
  tries,      \* tries[w]: checks for the socket that are left
  master,     \* workers that started a master ssh
  socket,     \* socket[w]: whose control socket is in the file system
  ran,        \* history: tasks whose command was run
  others      \* other dxargs that started

dxVars == <<main, read, tokens, tasks, queue, pills, worker, task, tries, master,
            socket, ran, others>>
workVars == <<worker, task, tries, master, socket, ran, others>>
mainVars == <<main, read, tokens, tasks, pills>>

Die == 0
TaskNo == 1..MaxTokens
Over(w) == worker[w] \in {"quit", "refused", "fatal"}

DxTypeOK ==
  /\ main \in {"starts", "reads", "finishes", "joins", "done"}
  /\ read \in 0..MaxTokens /\ tokens \in 0..MaxTokens
  /\ tasks \in Seq([last : TaskNo, size : 1..N])
  /\ queue \in Seq(TaskNo \cup {Die})
  /\ pills \in 0..Cardinality(Worker)
  /\ worker \in [Worker -> {"none", "new", "gets", "waits", "runs", "quit",
                          "refused", "fatal"}]
  /\ task \in [Worker -> TaskNo \cup {0}] /\ tries \in [Worker -> 0..Tries]
  /\ master \subseteq Worker /\ ran \subseteq TaskNo
  /\ socket \in [Worker -> {"none", "ours", "theirs"}]
  /\ others \in 0..MaxOthers

DxInit ==
  /\ main = "starts" /\ read = 0 /\ tokens = 0 /\ tasks = << >> /\ queue = << >>
  /\ pills = 0
  /\ worker = [w \in Worker |-> "none"] /\ task = [w \in Worker |-> 0]
  /\ tries = [w \in Worker |-> 0]
  /\ master = {} /\ socket = [w \in Worker |-> "none"] /\ ran = {} /\ others = 0

-----------------------------------------------------------------------------
(* main.                                                                     *)

\* mutant: a stack
PutFirst(t) == <<t>> \o queue
Put(t) == Append(queue, t)

(* A task of the oldest tokens.                                              *)
AddTask(size) ==
  /\ tasks' = Append(tasks, [last |-> read - tokens + size, size |-> size])
  /\ queue' = Put(Len(tasks) + 1)
  /\ tokens' = tokens - size

Enough == tokens >= N

(* The threads of the pool; then the input is read.                          *)
StartPool(w) ==
  /\ main = "starts" /\ worker[w] = "none"
  /\ worker' = [worker EXCEPT ![w] = "new"]
  /\ main' = IF \A v \in Worker \ {w} : worker[v] # "none" THEN "reads" ELSE "starts"
  /\ UNCHANGED <<read, tokens, tasks, queue, pills, task, tries, master, socket, ran, others>>

(* A line of input, once the tokens of the last are too few for a task.      *)
ReadLine ==
  /\ main = "reads" /\ ~Enough
  /\ \E more \in 0..(MaxTokens - read) : read' = read + more /\ tokens' = tokens + more
  /\ UNCHANGED <<main, tasks, queue, pills, workVars>>

Cut ==
  /\ main = "reads" /\ Enough
  /\ AddTask(N)
  /\ UNCHANGED <<main, read, pills, workVars>>

\* mutant: drops what does not fill a task
LeftoverFull == tokens >= N
Leftover == tokens > 0

(* The end of the input: what is left is a task of its own.                  *)
EndOfInput ==
  /\ main = "reads" /\ ~Enough
  /\ main' = "finishes"
  /\ IF Leftover THEN AddTask(IF tokens < N THEN tokens ELSE N)
                 ELSE UNCHANGED <<tasks, queue, tokens>>
  /\ UNCHANGED <<read, pills, workVars>>

\* mutants: one worker fewer, one more
PillsMore == pills <= Cardinality(Worker)
PillsFewer == pills + 1 < Cardinality(Worker)
MorePills == pills < Cardinality(Worker)

(* finish: a task that ends a worker, for every worker ...                   *)
Pill ==
  /\ main = "finishes" /\ MorePills
  /\ queue' = Put(Die) /\ pills' = pills + 1
  /\ UNCHANGED <<main, read, tokens, tasks, workVars>>

(* ... and join them: it is done when all of them ended, however they did.   *)
Join ==
  /\ main = "finishes" /\ ~MorePills
  /\ main' = "joins"
  /\ UNCHANGED <<read, tokens, tasks, queue, pills, workVars>>

Joined ==
  /\ main = "joins" /\ \A w \in Worker : Over(w)
  /\ main' = "done"
  /\ UNCHANGED <<read, tokens, tasks, queue, pills, workVars>>

-----------------------------------------------------------------------------
(* A worker.  However it ends, it removes the control socket, whose ever.    *)

End(w, how) ==
  /\ worker' = [worker EXCEPT ![w] = how]
  /\ socket' = [socket EXCEPT ![w] = "none"]

Start(w) ==
  /\ worker[w] = "new"
  /\ IF socket[w] # "none"
       THEN End(w, "refused")
       ELSE worker' = [worker EXCEPT ![w] = "gets"] /\ UNCHANGED socket
  /\ UNCHANGED <<mainVars, queue, task, tries, master, ran, others>>

(* It starts its master with its first task, and never another one.          *)
Get(w) ==
  /\ worker[w] = "gets" /\ queue # << >>
  /\ queue' = Tail(queue)
  /\ IF Head(queue) = Die
       THEN End(w, "quit") /\ UNCHANGED <<task, tries, master>>
       ELSE /\ worker' = [worker EXCEPT ![w] = "waits"]
            /\ task' = [task EXCEPT ![w] = Head(queue)]
            /\ tries' = [tries EXCEPT ![w] = Tries]
            /\ master' = master \cup {w}
            /\ UNCHANGED socket
  /\ UNCHANGED <<mainVars, ran, others>>

(* Proc.start: it looks for the socket, once a second, and gives up.         *)
Look(w) ==
  /\ worker[w] = "waits"
  /\ \/ /\ tries[w] > 0 /\ socket[w] # "none"
        /\ worker' = [worker EXCEPT ![w] = "runs"]
        /\ UNCHANGED <<tries, socket>>
     \/ /\ tries[w] > 0 /\ socket[w] = "none"
        /\ tries' = [tries EXCEPT ![w] = @ - 1]
        /\ UNCHANGED <<worker, socket>>
     \/ /\ tries[w] = 0
        /\ End(w, "fatal") /\ UNCHANGED tries
  /\ UNCHANGED <<mainVars, queue, task, master, ran, others>>

(* The command ends with status 0, or the worker is through.                 *)
Run(w) ==
  /\ worker[w] = "runs"
  /\ ran' = ran \cup {task[w]}
  /\ \/ worker' = [worker EXCEPT ![w] = "gets"] /\ UNCHANGED socket
     \/ End(w, "fatal")
  /\ UNCHANGED <<mainVars, queue, task, tries, master, others>>

-----------------------------------------------------------------------------
(* The masters, and other dxargs that use the same control sockets.          *)

Connect(w) ==
  /\ w \in master /\ ~Over(w) /\ socket[w] = "none"
  /\ socket' = [socket EXCEPT ![w] = "ours"]
  /\ UNCHANGED <<mainVars, queue, worker, task, tries, master, ran, others>>

Disconnect(w) ==
  /\ socket[w] = "ours"
  /\ socket' = [socket EXCEPT ![w] = "none"]
  /\ UNCHANGED <<mainVars, queue, worker, task, tries, master, ran, others>>

Other(w) ==
  /\ others < MaxOthers /\ others' = others + 1
  /\ socket' = [socket EXCEPT ![w] = IF @ = "none" THEN "theirs" ELSE "none"]
  /\ UNCHANGED <<mainVars, queue, worker, task, tries, master, ran>>

MainThread == (\E w \in Worker : StartPool(w)) \/ ReadLine \/ Cut \/ EndOfInput \/ Pill \/ Join \/ Joined
WorkerThread(w) == Start(w) \/ Get(w) \/ Look(w) \/ Run(w)

DxNext ==
  \/ MainThread
  \/ \E w \in Worker : WorkerThread(w) \/ Connect(w) \/ Disconnect(w) \/ Other(w)

(* Python runs its threads and a command ends; the input need not.           *)
DxFair ==
  /\ WF_dxVars(Pill \/ Join \/ Joined)
  /\ \A w \in Worker : WF_dxVars(WorkerThread(w))

DxSpec == DxInit /\ [][DxNext]_dxVars /\ DxFair

-----------------------------------------------------------------------------
(* Once the input ends the program does, whichever workers fail: finish puts *)
(* as many pills as there are workers, and none takes two.                   *)
DxEnds == main = "finishes" ~> main = "done"

(* A worker that quits leaves no task behind: when a task was never taken    *)
(* every worker ended by an error, and then the program ends all the same.   *)
DxNothingLeft ==
  main = "done" /\ (\E w \in Worker : worker[w] = "quit") =>
    \A k \in 1..Len(tasks) : k \in ran \/ \E w \in Worker : task[w] = k /\ worker[w] = "fatal"

(* Every token of the input is in one task, in order; every task is as large *)
(* as -n allows but the last.                                                *)
DxTokens ==
  /\ \A k \in 1..Len(tasks) :
       /\ tasks[k].last - tasks[k].size = IF k = 1 THEN 0 ELSE tasks[k - 1].last
       /\ k < Len(tasks) => tasks[k].size = N
  /\ main \notin {"starts", "reads"} => read = IF tasks = << >> THEN 0 ELSE tasks[Len(tasks)].last
=============================================================================
