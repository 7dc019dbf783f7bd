------------------------- MODULE GrokSafety_proofs --------------------------
(* Theorems about GrokCollection: its types, for any programs, inputs, match *)
(* blocks, options, pids and bounds; and its safety properties, when the     *)
(* kernel does not reuse a pid that grok still remembers.                    *)
EXTENDS GrokCollection, SequenceTheorems, TLAPS

USE DEF NoPid, Failed

(* A function on an initial segment of the naturals is a sequence.           *)
LEMMA FunctionIsSeq ==
  ASSUME NEW S, NEW n \in Nat, NEW f \in [1..n -> S]
  PROVE  f \in Seq(S)
BY SeqDef

(* What the forks of some children return is a pid or a failure.             *)
LEMMA ForksType ==
  ASSUME NEW children, NEW f \in Forks(children)
  PROVE  /\ f \in [children -> Pid \cup {Failed}]
         /\ \A c \in children : f[c] # Failed => f[c] \in FreePid
         /\ \A c, d \in children : f[c] = f[d] /\ f[c] # Failed => c = d
BY DEF Forks, ForkResult, FreePid

(* The processes after some forks are typed.                                 *)
LEMMA ProcAfterType ==
  ASSUME TypeOK, NEW children \in SUBSET (Input \cup Match), NEW f \in Forks(children)
  PROVE  /\ ProcAfter(children, f) \in [Pid -> {"none", "running", "zombie"}]
         /\ OwnerAfter(children, f) \in [Pid -> Input \cup Match \cup {NoPid}]
<1>1. ProcAfter(children, f) \in [Pid -> {"none", "running", "zombie"}]
  BY DEF ProcAfter, TypeOK
<1>2. \A p \in Pid : OwnerAfter(children, f)[p] \in Input \cup Match \cup {NoPid}
  <2> SUFFICES ASSUME NEW p \in Pid
               PROVE  OwnerAfter(children, f)[p] \in Input \cup Match \cup {NoPid}
    OBVIOUS
  <2>1. CASE \E c \in children : f[c] = p
    <3>1. (CHOOSE c \in children : f[c] = p) \in children
      BY <2>1
    <3>2. OwnerAfter(children, f)[p] = CHOOSE c \in children : f[c] = p
      BY <2>1 DEF OwnerAfter
    <3> QED BY <3>1, <3>2
  <2>2. CASE ~ \E c \in children : f[c] = p
    BY <2>2 DEF OwnerAfter, TypeOK
  <2> QED BY <2>1, <2>2
<1>3. OwnerAfter(children, f) \in [Pid -> Input \cup Match \cup {NoPid}]
  BY <1>2 DEF OwnerAfter
<1> QED BY <1>1, <1>3

(* The reactions to a line keep the shells and the processes typed.          *)
LEMMA ReactType ==
  ASSUME TypeOK, NEW fired \in SUBSET Match, React(fired)
  PROVE  /\ mpid' \in [Match -> Pid \cup {NoPid, Failed}]
         /\ proc' \in [Pid -> {"none", "running", "zombie"}]
         /\ owner' \in [Pid -> Input \cup Match \cup {NoPid}]
         /\ holders' \in [Match -> SUBSET Pid]
<1> DEFINE new == NewShells(fired)
<1>1. new \in SUBSET Match
  BY DEF NewShells
<1>2. PICK f \in Forks(new) :
         /\ mpid' = [m \in Match |-> IF m \in new THEN f[m] ELSE mpid[m]]
         /\ proc' = ProcAfter(new, f)
         /\ owner' = OwnerAfter(new, f)
         /\ holders' = HoldersAfter(new, f)
  BY DEF React
<1>3. f \in [new -> Pid \cup {Failed}]
  BY ForksType
<1>4. mpid' \in [Match -> Pid \cup {NoPid, Failed}]
  BY <1>1, <1>2, <1>3 DEF TypeOK
<1>5. holders' \in [Match -> SUBSET Pid]
  BY <1>2 DEF HoldersAfter, TypeOK
<1> HIDE DEF new
<1> QED BY <1>1, <1>2, <1>4, <1>5, ProcAfterType

LEMMA OpenedType ==
  ASSUME TypeOK, NEW fired \in SUBSET Match
  PROVE  Opened(fired) \in [Match -> {"NULL", "stdout", "pipe"}]
BY DEF Opened, TypeOK

LEMMA CheckEndType ==
  ASSUME TypeOK, NEW d, NEW s, CheckEndState(d, s)
  PROVE  cleanups' \in 0..2 /\ exitEv' \in {"none", "wait", "due", "gotterm"}
BY DEF CheckEndState, UpTo2, Smaller, TypeOK

(* Every line a command may print is a set of match blocks, so what reacts   *)
(* to it are match blocks of the input's program.                            *)
LEMMA FiredType ==
  ASSUME NEW h, NEW p
  PROVE  /\ Fired(h \cap MatchesOf(p)) \in SUBSET Match
         /\ Fired(h \cap MatchesOf(p)) \subseteq MatchesOf(p)
BY DEF Fired, MatchesOf

-----------------------------------------------------------------------------
(* Type correctness: no callback of the loop, in any order, leaves a         *)
(* variable of grok, of the loop or of the kernel outside its type.          *)
THEOREM TypeCorrect == Spec => []TypeOK
<1> USE MatchOrder, ProgOfType, MatchOptions, InputOptions, LinesType,
        BoundsType
<1>1. Init => TypeOK
  BY DEF Init, TypeOK, MaxAge, Horizon, Larger
<1>2. TypeOK /\ [Next]_vars => TypeOK'
  <2> SUFFICES ASSUME TypeOK, [Next]_vars
               PROVE  TypeOK'
    OBVIOUS
  <2>1. ASSUME NEW ready \in SUBSET Input, Activate(ready)
        PROVE  TypeOK'
    BY <2>1 DEF Activate, TypeOK, grokVars, envVars
  <2>2. CASE Poll
    BY <2>1, <2>2 DEF Poll, Readable
  <2>3. CASE PollInterrupted
    BY <2>1, <2>3 DEF PollInterrupted
  <2>4. CASE LoopExit
    BY <2>4 DEF LoopExit, TypeOK, grokVars, envVars
  <2>5. CASE LoopReturn
    BY <2>5 DEF LoopReturn, TypeOK, grokVars, envVars
  <2>6. CASE Sigchld
    <3>1. /\ cleanups' \in 0..2
          /\ exitEv' \in {"none", "wait", "due", "gotterm"}
      BY <2>6, CheckEndType DEF Sigchld
    <3>2. restartDelay' \in [Input -> Int]
      BY <2>6 DEF Sigchld, TypeOK, RestartDelay, Larger
    <3>3. mpid' \in [Match -> Pid \cup {NoPid, Failed}]
      BY <2>6 DEF Sigchld, TypeOK
    <3>4. /\ eofWait' \in [Input -> Nat] /\ eofDue' \in [Input -> Nat]
          /\ sigDue' \in Nat
      BY <2>6 DEF Sigchld, TypeOK, ScheduleEof
    <3>5. /\ proc' \in [Pid -> {"none", "running", "zombie"}]
          /\ owner' \in [Pid -> Input \cup Match \cup {NoPid}]
      BY <2>6 DEF Sigchld, TypeOK
    <3> QED BY <2>6, <3>1, <3>2, <3>3, <3>4, <3>5 DEF Sigchld, TypeOK
  <2>7. ASSUME NEW i \in Input, StdoutRead(i)
        PROVE  TypeOK'
    <3> DEFINE n == Smaller(Chunk, Len(out[i]))
    <3>1. out[i] \in Seq(Line) /\ n \in 0..Len(out[i])
      BY DEF TypeOK, Smaller
    <3>2. SubSeq(out[i], 1, n) \in Seq(Line)
      BY <3>1
    <3>3. SubSeq(out[i], n + 1, Len(out[i])) \in Seq(Line)
      BY <3>1
    <3> HIDE DEF n
    <3>4. /\ inbuf' = [inbuf EXCEPT ![i] = SubSeq(out[i], 1, n)]
          /\ out' = [out EXCEPT ![i] = SubSeq(out[i], n + 1, Len(out[i]))]
      BY <2>7 DEF StdoutRead, n
    <3>5. inbuf' \in [Input -> Seq(Line)] /\ out' \in [Input -> Seq(Line)]
      BY <3>2, <3>3, <3>4 DEF TypeOK
    <3> QED BY <2>7, <3>5 DEF StdoutRead, TypeOK
  <2>8. ASSUME NEW i \in Input, ExecLine(i)
        PROVE  TypeOK'
    <3> DEFINE fired == Fired(Head(inbuf[i]).hits \cap MatchesOf(ProgOf[i]))
    <3>1. fired \in SUBSET Match
      BY FiredType
    <3> HIDE DEF fired
    <3>2. CountMatches(i, fired) /\ shellinput' = Opened(fired) /\ React(fired)
      BY <2>8 DEF ExecLine, fired
    <3>3. inbuf' \in [Input -> Seq(Line)]
      BY <2>8 DEF ExecLine, TypeOK
    <3>4. matched' \in [Input -> BOOLEAN]
      BY <3>2 DEF CountMatches, TypeOK
    <3>5. /\ mpid' \in [Match -> Pid \cup {NoPid, Failed}]
          /\ proc' \in [Pid -> {"none", "running", "zombie"}]
          /\ owner' \in [Pid -> Input \cup Match \cup {NoPid}]
          /\ holders' \in [Match -> SUBSET Pid]
      BY <3>1, <3>2, ReactType
    <3>6. shellinput' \in [Match -> {"NULL", "stdout", "pipe"}]
      BY <3>1, <3>2, OpenedType
    <3> QED BY <2>8, <3>3, <3>4, <3>5, <3>6 DEF ExecLine, TypeOK, loopVars
  <2>9. ASSUME NEW i \in Input, ProcessStart(i)
        PROVE  TypeOK'
    <3>1. PICK f \in Forks({i}) :
            /\ pid' = [pid EXCEPT ![i] = f[i]]
            /\ proc' = ProcAfter({i}, f)
            /\ owner' = OwnerAfter({i}, f)
            /\ holders' = [m \in Match |-> holders[m] \cup
                 {p \in Pid : p = f[i] /\ shellinput[m] = "pipe"}]
      BY <2>9 DEF ProcessStart
    <3>2. f[i] \in Pid \cup {Failed}
      BY ForksType
    <3>3. pid' \in [Input -> Pid \cup {NoPid, Failed}]
      BY <3>1, <3>2 DEF TypeOK
    <3>4. /\ proc' \in [Pid -> {"none", "running", "zombie"}]
          /\ owner' \in [Pid -> Input \cup Match \cup {NoPid}]
      BY <3>1, ProcAfterType, {i} \in SUBSET (Input \cup Match)
    <3>5. holders' \in [Match -> SUBSET Pid]
      BY <3>1 DEF TypeOK
    <3>6. out' \in [Input -> Seq(Line)]
      <4> DEFINE aged == [k \in 1..Len(out[i]) |->
                            [hits |-> out[i][k].hits, old |-> TRUE]]
      <4>1. out[i] \in Seq(Line)
        BY DEF TypeOK
      <4>2. \A k \in 1..Len(out[i]) : out[i][k] \in Line
        BY <4>1
      <4>3. \A k \in 1..Len(out[i]) : aged[k] \in Line
        BY <4>2 DEF Line
      <4>4. aged \in Seq(Line)
        <5>1. Len(out[i]) \in Nat
          BY <4>1
        <5>2. aged \in [1..Len(out[i]) -> Line]
          BY <4>3
        <5> HIDE DEF aged
        <5> QED BY <5>1, <5>2, FunctionIsSeq
      <4>5. out' = [out EXCEPT ![i] = aged]
        BY <2>9 DEF ProcessStart
      <4> HIDE DEF aged
      <4> QED BY <4>4, <4>5 DEF TypeOK
    <3>7. /\ startDue' \in [Input -> Nat] /\ matched' \in [Input -> BOOLEAN]
          /\ age' \in [Input -> Nat] /\ wrote' \in [Input -> Nat]
          /\ hit' \in [Input -> BOOLEAN]
      <4>1. /\ startDue[i] > 0
            /\ startDue' = [startDue EXCEPT ![i] = @ - 1]
            /\ matched' = [matched EXCEPT ![i] = FALSE]
            /\ age' = [age EXCEPT ![i] = 0]
            /\ wrote' = [wrote EXCEPT ![i] = 0]
            /\ hit' = [hit EXCEPT ![i] = FALSE]
        BY <2>9 DEF ProcessStart
      <4>2. startDue[i] \in Nat
        BY DEF TypeOK
      <4>3. startDue[i] - 1 \in Nat
        BY <4>1, <4>2
      <4>4. startDue' \in [Input -> Nat]
        BY <4>1, <4>3 DEF TypeOK
      <4>5. age' \in [Input -> Nat] /\ wrote' \in [Input -> Nat]
        BY <4>1 DEF TypeOK
      <4>6. matched' \in [Input -> BOOLEAN] /\ hit' \in [Input -> BOOLEAN]
        BY <4>1 DEF TypeOK
      <4> QED BY <4>4, <4>5, <4>6
    <3> QED BY <2>9, <3>3, <3>4, <3>5, <3>6, <3>7 DEF ProcessStart, TypeOK
  <2>10. ASSUME NEW i \in Input, EofHandler(i)
         PROVE  TypeOK'
    <3> DEFINE fired == IF matched[i] THEN {} ELSE NomatchOf(ProgOf[i])
               closing == ToClose(ProgOf[i], done')
    <3>1. fired \in SUBSET Match
      BY DEF NomatchOf, MatchesOf
    <3>2. /\ matched' = [matched EXCEPT ![i] =
                           IF ShouldRestart(i) THEN FALSE ELSE @ \/ fired # {}]
          /\ React(fired)
          /\ shellinput' = [m \in Match |->
                              IF m \in closing THEN "NULL" ELSE Opened(fired)[m]]
          /\ freed' = [m \in Match |->
                         IF m \in closing THEN UpTo2(freed[m] + 1) ELSE freed[m]]
          /\ IF \A j \in InputsOf(ProgOf[i]) : done'[j]
               THEN CheckEndState(done', mpid')
               ELSE UNCHANGED <<cleanups, exitEv>>
      BY <2>10 DEF EofHandler
    <3> HIDE DEF fired, closing
    <3>3. /\ mpid' \in [Match -> Pid \cup {NoPid, Failed}]
          /\ proc' \in [Pid -> {"none", "running", "zombie"}]
          /\ owner' \in [Pid -> Input \cup Match \cup {NoPid}]
          /\ holders' \in [Match -> SUBSET Pid]
      BY <3>1, <3>2, ReactType
    <3>4. shellinput' \in [Match -> {"NULL", "stdout", "pipe"}]
      BY <3>1, <3>2, OpenedType
    <3>5. freed' \in [Match -> 0..2]
      BY <3>2 DEF TypeOK, UpTo2, Smaller
    <3>6. matched' \in [Input -> BOOLEAN]
      BY <3>2 DEF TypeOK
    <3>7. cleanups' \in 0..2 /\ exitEv' \in {"none", "wait", "due", "gotterm"}
      BY <3>2, CheckEndType DEF TypeOK
    <3>8. /\ startWait' \in [Input -> Nat] /\ startIn' \in [Input -> Nat]
          /\ done' \in [Input -> BOOLEAN]
      <4>1. EndOrRestart(i)
        BY <2>10 DEF EofHandler
      <4>2. Delayed(restartDelay[i]) \in Nat
        BY DEF Delayed, Larger, TypeOK
      <4>3. CASE ShouldRestart(i)
        <5>1. /\ startWait' = [startWait EXCEPT ![i] = @ + 1]
              /\ startIn' = [startIn EXCEPT ![i] = Delayed(restartDelay[i])]
              /\ done' = done
          BY <4>1, <4>3 DEF EndOrRestart
        <5> QED BY SMTT(30), <4>2, <5>1 DEF TypeOK
      <4>4. CASE ~ShouldRestart(i)
        <5>1. /\ done' = [done EXCEPT ![i] = TRUE]
              /\ startWait' = startWait /\ startIn' = startIn
          BY <4>1, <4>4 DEF EndOrRestart
        <5> QED BY <5>1 DEF TypeOK
      <4> QED BY <4>3, <4>4
    <3>9. eofDue' \in [Input -> Nat]
      BY SMTT(30), <2>10 DEF EofHandler, TypeOK
    <3> QED BY <2>10, <3>3, <3>4, <3>5, <3>6, <3>7, <3>8, <3>9
            DEF EofHandler, TypeOK
  <2>11. CASE Tick
    <3>1. \A i \in Input : MaxAge(i) \in Nat
      BY DEF MaxAge, Horizon, Larger
    <3>2. \A i \in Input : Smaller(age[i] + 1, MaxAge(i)) \in Nat
      BY <3>1 DEF TypeOK, Smaller
    <3>3. \A i \in Input : Larger(0, startIn[i] - 1) \in Nat
      BY DEF TypeOK, Larger
    <3>4. /\ age' \in [Input -> Nat]
          /\ startIn' \in [Input -> Nat]
      BY <2>11, <3>2, <3>3 DEF Tick
    <3> QED BY <2>11, <3>4 DEF Tick, TypeOK, grokVars
  <2>12. ASSUME NEW p \in Pid, Write(p)
         PROVE  TypeOK'
    <3> DEFINE i == owner[p]
    <3>1. i \in Input
      BY <2>12 DEF Write
    <3>2. PICK h \in Lines[i] :
            /\ out' = [out EXCEPT ![i] = Append(@, [hits |-> h, old |-> FALSE])]
            /\ hit' = [hit EXCEPT ![i] =
                         @ \/ Fired(h \cap MatchesOf(ProgOf[i])) # {}]
      BY <2>12 DEF Write
    <3>3. [hits |-> h, old |-> FALSE] \in Line
      BY <3>1 DEF Line
    <3>4. out' \in [Input -> Seq(Line)]
      BY <3>1, <3>2, <3>3 DEF TypeOK
    <3>5. hit' \in [Input -> BOOLEAN]
      BY <3>1, <3>2 DEF TypeOK
    <3>6. wrote' \in [Input -> Nat]
      <4>1. wrote' = [wrote EXCEPT ![i] = @ + 1]
        BY <2>12 DEF Write
      <4> QED BY <3>1, <4>1 DEF TypeOK
    <3> QED BY <2>12, <3>4, <3>5, <3>6 DEF Write, TypeOK, grokVars, loopVars
  <2>13. ASSUME NEW p \in Pid, Exit(p)
         PROVE  TypeOK'
    <3>1. proc' \in [Pid -> {"none", "running", "zombie"}]
      BY <2>13 DEF Exit, TypeOK
    <3>2. holders' \in [Match -> SUBSET Pid]
      BY <2>13 DEF Exit, TypeOK
    <3>3. sigCaught' \in Nat
      BY <2>13 DEF Exit, TypeOK, Larger
    <3> QED BY <2>13, <3>1, <3>2, <3>3 DEF Exit, TypeOK, grokVars
  <2>14. CASE Returned \/ UNCHANGED vars
    BY SMTT(30), <2>14 DEF Returned, TypeOK, vars, grokVars, loopVars, envVars
  <2> QED
    BY <2>2, <2>3, <2>4, <2>5, <2>6, <2>7, <2>8, <2>9, <2>10, <2>11, <2>12,
       <2>13, <2>14
    DEF Next, Grok, Environment, CommandExit, ShellExit, ShellDies
<1> QED BY <1>1, <1>2, PTL DEF Spec

-----------------------------------------------------------------------------
(* A pid that an input remembers is no other child's.                        *)
PidIsOwn ==
  \A i \in Input, p \in Pid : pid[i] = p /\ Exists(p) => owner[p] = i

(* The shell of a block is the process whose pid it remembers.               *)
ShellIsOwn ==
  \A m \in Match :
    /\ \A p \in Pid : Exists(p) /\ owner[p] = m => mpid[m] = p
    /\ mpid[m] \in Pid => Exists(mpid[m]) /\ owner[mpid[m]] = m

(* Every child was forked for an input or for a block.                       *)
Owned == \A p \in Pid : Exists(p) => owner[p] \in Input \cup Match

(* Nothing is read from an input that is done.                               *)
DoneIsIdle == \A i \in Input : done[i] => i \notin readDue /\ inbuf[i] = << >>

(* A block without a shell of its own remembers no pid, until it is closed.  *)
ShellIsOpen ==
  \A m \in Match : freed[m] = 0 /\ shellinput[m] = "NULL" => mpid[m] = NoPid

(* When grok found no subprocess left, it remembers no shell.                *)
NoShellAtEnd == cleanups > 0 => \A m \in Match : mpid[m] = NoPid

Inv == /\ TypeOK /\ OneActivity /\ PidIsOwn /\ ShellIsOwn /\ Owned
       /\ DoneIsIdle /\ ShellIsOpen /\ ClosedWithProgram
       /\ EndIsQuiet /\ NoShellAtEnd
-----------------------------------------------------------------------------
(* The processes that forks add, for children that are inputs or blocks.     *)
LEMMA ForkFacts ==
  ASSUME TypeOK, ~RecyclesPids,
         NEW children \in SUBSET (Input \cup Match), NEW f \in Forks(children),
         proc' = ProcAfter(children, f), owner' = OwnerAfter(children, f)
  PROVE  /\ \A p \in Pid : Exists(p) => proc'[p] = proc[p] /\ owner'[p] = owner[p]
         /\ \A p \in Pid : ~Exists(p) /\ Exists(p)' =>
              p \notin Remembered /\ owner'[p] \in children /\ f[owner'[p]] = p
         /\ \A c \in children : f[c] \in Pid =>
              /\ ~Exists(f[c]) /\ Exists(f[c])' /\ owner'[f[c]] = c
              /\ f[c] \notin Remembered
<1> USE PidType
<1>1. \A c \in children : f[c] \in Pid \cup {Failed}
  BY ForksType
<1>2. \A c \in children : f[c] \in Pid => f[c] \in FreePid
  BY ForksType
<1>3. \A c, d \in children : f[c] = f[d] /\ f[c] \in Pid => c = d
  BY ForksType
<1>4. \A p \in FreePid : ~Exists(p) /\ p \notin Remembered
  BY DEF FreePid, Exists
<1>5. ASSUME NEW p \in Pid, Exists(p)
      PROVE  proc'[p] = proc[p] /\ owner'[p] = owner[p]
  <2>1. ~ \E c \in children : f[c] = p
    BY <1>2, <1>4, <1>5
  <2> QED BY <2>1 DEF ProcAfter, OwnerAfter
<1>6. ASSUME NEW p \in Pid, ~Exists(p), Exists(p)'
      PROVE  p \notin Remembered /\ owner'[p] \in children /\ f[owner'[p]] = p
  <2>1. \E c \in children : f[c] = p
    BY <1>6 DEF ProcAfter, Exists
  <2>2. owner'[p] = CHOOSE c \in children : f[c] = p
    BY <2>1 DEF OwnerAfter
  <2>3. owner'[p] \in children /\ f[owner'[p]] = p
    BY <2>1, <2>2
  <2> QED BY <1>2, <1>4, <2>3
<1>7. ASSUME NEW c \in children, f[c] \in Pid
      PROVE  /\ ~Exists(f[c]) /\ Exists(f[c])' /\ owner'[f[c]] = c
             /\ f[c] \notin Remembered
  <2>1. ~Exists(f[c]) /\ f[c] \notin Remembered
    BY <1>2, <1>4, <1>7
  <2>2. proc'[f[c]] = "running"
    BY <1>7 DEF ProcAfter
  <2>3. owner'[f[c]] = CHOOSE d \in children : f[d] = f[c]
    BY <1>7 DEF OwnerAfter
  <2>4. owner'[f[c]] = c
    BY <1>3, <1>7, <2>3
  <2> QED BY <2>1, <2>2, <2>4 DEF Exists
<1> QED BY <1>5, <1>6, <1>7

(* Reactions of blocks that are not closed keep every pid with its owner and *)
(* leave the inputs' processes alone.                                        *)
LEMMA ReactKeeps ==
  ASSUME Inv, ~RecyclesPids, NEW fired \in SUBSET Match, React(fired),
         \A m \in fired : freed[m] = 0, UNCHANGED pid
  PROVE  /\ PidIsOwn' /\ ShellIsOwn' /\ Owned'
         /\ \A m \in Match : mpid'[m] # NoPid /\ mpid[m] = NoPid =>
              m \in fired /\ shellinput[m] = "NULL"
         /\ \A m \in Match : mpid[m] # NoPid => mpid'[m] = mpid[m]
         /\ \A i \in Input, p \in Pid :
              (Exists(p) /\ owner[p] = i) <=> (Exists(p)' /\ owner'[p] = i)
<1> USE PidType, Disjoint
<1> DEFINE new == NewShells(fired)
<1>1. new \in SUBSET Match /\ \A m \in new : mpid[m] = NoPid
  BY DEF NewShells, Inv, ShellIsOpen
<1>2. PICK f \in Forks(new) :
         /\ mpid' = [m \in Match |-> IF m \in new THEN f[m] ELSE mpid[m]]
         /\ proc' = ProcAfter(new, f)
         /\ owner' = OwnerAfter(new, f)
  BY DEF React
<1>3. \A m \in new : f[m] \in Pid \cup {Failed}
  BY ForksType
<1>a. new \in SUBSET (Input \cup Match)
  BY <1>1
<1>4. TypeOK
  BY DEF Inv
<1> HIDE DEF new
<1>5. /\ \A p \in Pid : Exists(p) => proc'[p] = proc[p] /\ owner'[p] = owner[p]
      /\ \A p \in Pid : ~Exists(p) /\ Exists(p)' =>
           p \notin Remembered /\ owner'[p] \in new /\ f[owner'[p]] = p
      /\ \A c \in new : f[c] \in Pid =>
           /\ ~Exists(f[c]) /\ Exists(f[c])' /\ owner'[f[c]] = c
           /\ f[c] \notin Remembered
  BY <1>2, <1>a, <1>4, ForkFacts
<1>6. \A p \in Pid : Exists(p) => Exists(p)'
  BY <1>5 DEF Exists
<1>7. PidIsOwn'
  BY <1>5 DEF Inv, PidIsOwn, Remembered, Exists
<1>8. ShellIsOwn'
  <2> SUFFICES ASSUME NEW m \in Match
               PROVE  /\ \A p \in Pid : Exists(p)' /\ owner'[p] = m => mpid'[m] = p
                      /\ mpid'[m] \in Pid =>
                           Exists(mpid[m])' /\ owner'[mpid'[m]] = m
    BY DEF ShellIsOwn, Exists
  <2>1. ASSUME NEW p \in Pid, Exists(p)', owner'[p] = m
        PROVE  mpid'[m] = p
    <3>1. CASE Exists(p)
      <4>1. mpid[m] = p
        BY <1>5, <2>1, <3>1 DEF Inv, ShellIsOwn
      <4>2. m \notin new
        BY <1>1, <4>1
      <4> QED BY <1>2, <4>1, <4>2
    <3>2. CASE ~Exists(p)
      BY <1>2, <1>5, <2>1, <3>2
    <3> QED BY <3>1, <3>2
  <2>2. ASSUME mpid'[m] \in Pid
        PROVE  Exists(mpid[m])' /\ owner'[mpid'[m]] = m
    <3>1. CASE m \in new
      BY <1>2, <1>5, <2>2, <3>1 DEF Exists
    <3>2. CASE m \notin new
      <4>1. mpid'[m] = mpid[m]
        BY <1>2, <3>2
      <4>2. Exists(mpid[m]) /\ owner[mpid[m]] = m
        BY <2>2, <4>1 DEF Inv, ShellIsOwn
      <4> QED BY <1>5, <2>2, <4>1, <4>2 DEF Exists
    <3> QED BY <3>1, <3>2
  <2> QED BY <2>1, <2>2
<1>9. Owned'
  <2>1. \A p \in Pid : Exists(p)' => owner'[p] \in Input \cup Match
    BY <1>1, <1>5 DEF Inv, Owned
  <2> QED BY <2>1 DEF Owned, Exists
<1>10. ASSUME NEW i \in Input, NEW p \in Pid
       PROVE  (Exists(p) /\ owner[p] = i) <=> (Exists(p)' /\ owner'[p] = i)
  <2>1. CASE Exists(p)
    BY <1>5, <1>6, <2>1
  <2>2. CASE ~Exists(p)
    BY <1>1, <1>5, <2>2
  <2> QED BY <2>1, <2>2
<1>11. \A m \in Match : mpid'[m] # NoPid /\ mpid[m] = NoPid =>
         m \in fired /\ shellinput[m] = "NULL"
  BY <1>2 DEF new, NewShells
<1>12. \A m \in Match : mpid[m] # NoPid => mpid'[m] = mpid[m]
  BY <1>1, <1>2
<1> QED BY <1>7, <1>8, <1>9, <1>10, <1>11, <1>12

-----------------------------------------------------------------------------
(* One lemma per kind of step.                                               *)

LEMMA InitInv == Init => Inv
<1> SUFFICES ASSUME Init PROVE Inv
  OBVIOUS
<1>1. TypeOK
  BY InputOptions DEF Init, TypeOK, MaxAge, Horizon, Larger
<1>2. OneActivity
  BY DEF Init, OneActivity, Pending, Exists
<1>3. PidIsOwn /\ ShellIsOwn /\ Owned /\ DoneIsIdle /\ ShellIsOpen
  BY PidType DEF Init, PidIsOwn, ShellIsOwn, Owned, DoneIsIdle, ShellIsOpen, Exists
<1>4. ClosedWithProgram
  BY DEF Init, ClosedWithProgram, InputsOf
<1>5. EndIsQuiet /\ NoShellAtEnd
  BY DEF Init, EndIsQuiet, NoShellAtEnd
<1> QED BY <1>1, <1>2, <1>3, <1>4, <1>5 DEF Inv

(* Steps that change none of the variables the parts of Inv relate.          *)
LEMMA FrameKeeps ==
  ASSUME Inv, TypeOK',
         UNCHANGED <<done, pid, mpid, shellinput, freed, cleanups, proc, owner,
                     eofWait, eofDue, startWait, startDue>>,
         DoneIsIdle'
  PROVE  Inv'
BY DEF Inv, OneActivity, Pending, Exists, PidIsOwn, ShellIsOwn, Owned,
       ShellIsOpen, ClosedWithProgram, EndIsQuiet, NoShellAtEnd, InputsOf

LEMMA ActivateKeeps ==
  ASSUME Inv, TypeOK', IterationEnd, NEW ready \in SUBSET Readable, Activate(ready)
  PROVE  Inv'
<1>1. \A i \in Input : eofDue[i] = 0 /\ startDue[i] = 0
  <2>1. \A i \in Input : eofDue[i] \in Nat /\ startDue[i] \in Nat
    BY DEF Inv, TypeOK
  <2>2. \A i \in Input : ~(eofDue[i] + startDue[i] > 0)
    BY DEF IterationEnd, TimerActive
  <2> QED BY <2>1, <2>2
<1>2. \A i \in Input : Pending(i)' = Pending(i)
  BY SMTT(30), <1>1 DEF Activate, Pending, Inv, TypeOK
<1>3. UNCHANGED <<done, pid, mpid, shellinput, freed, cleanups, proc, owner, inbuf>>
  BY DEF Activate, grokVars, envVars
<1>4. OneActivity'
  BY <1>2, <1>3 DEF Inv, OneActivity, Exists
<1>5. DoneIsIdle'
  BY <1>3 DEF Activate, Readable, Inv, DoneIsIdle
<1> QED BY <1>3, <1>4, <1>5
        DEF Inv, Exists, PidIsOwn, ShellIsOwn, Owned, ShellIsOpen,
            ClosedWithProgram, EndIsQuiet, NoShellAtEnd, InputsOf

(* A child that ends is still there, not yet reaped.                         *)
LEMMA ExitKeeps ==
  ASSUME Inv, TypeOK', NEW p \in Pid, Running(p), Exit(p)
  PROVE  Inv'
<1>1. \A q \in Pid : Exists(q)' <=> Exists(q)
  BY DEF Exit, Exists, Running, Inv, TypeOK
<1>2. UNCHANGED <<done, pid, mpid, shellinput, freed, cleanups, owner, inbuf,
                  eofWait, eofDue, startWait, startDue, readDue>>
  BY DEF Exit, grokVars
<1>3. OneActivity' /\ PidIsOwn' /\ Owned'
  BY <1>1, <1>2 DEF Inv, OneActivity, Pending, PidIsOwn, Owned
<1>4. ShellIsOwn'
  BY <1>1, <1>2 DEF Inv, ShellIsOwn
<1> QED BY <1>1, <1>2, <1>3, <1>4
        DEF Inv, DoneIsIdle, ShellIsOpen, ClosedWithProgram, EndIsQuiet,
            NoShellAtEnd, InputsOf

(* When every input is done and no shell is remembered, no child is left.    *)
LEMMA NothingLeft ==
  ASSUME OneActivity, ShellIsOwn, Owned,
         \A i \in Input : done[i], \A m \in Match : mpid[m] = NoPid
  PROVE  \A p \in Pid : ~Exists(p)
BY PidType DEF OneActivity, ShellIsOwn, Owned

(* The end state is declared only when it is true.                           *)
LEMMA CheckEndKeeps ==
  ASSUME Inv, TypeOK', CheckEndState(done', mpid'),
         OneActivity', ShellIsOwn', Owned',
         cleanups > 0 => /\ \A i \in Input : done'[i]
                         /\ \A m \in Match : mpid'[m] = NoPid
  PROVE  EndIsQuiet' /\ NoShellAtEnd'
<1>1. CASE cleanups' > 0
  <2>1. (\A i \in Input : done'[i]) /\ (\A m \in Match : mpid'[m] = NoPid)
    BY <1>1 DEF CheckEndState, StillAlive
  <2>2. \A p \in Pid : ~Exists(p)'
    BY <2>1, NothingLeft, PidType DEF OneActivity, ShellIsOwn, Owned
  <2> QED BY <2>1, <2>2 DEF EndIsQuiet, NoShellAtEnd
<1>2. CASE ~(cleanups' > 0)
  BY <1>2 DEF EndIsQuiet, NoShellAtEnd
<1> QED BY <1>1, <1>2

LEMMA SigchldKeeps ==
  ASSUME Inv, TypeOK', Sigchld
  PROVE  Inv'
<1> USE PidType, Disjoint
<1>1. /\ UNCHANGED <<done, pid, shellinput, freed, inbuf, readDue, startWait,
                     startDue, eofDue>>
      /\ proc' = [p \in Pid |-> IF p \in Zombies THEN "none" ELSE proc[p]]
      /\ owner' = [p \in Pid |-> IF p \in Zombies THEN NoPid ELSE owner[p]]
      /\ mpid' = [m \in Match |-> IF mpid[m] \in Zombies THEN NoPid ELSE mpid[m]]
      /\ eofWait' = [i \in Input |->
                       eofWait[i] + (IF pid[i] \in Zombies THEN 1 ELSE 0)]
      /\ CheckEndState(done', mpid')
  BY DEF Sigchld, ScheduleEof
<1>2. /\ \A p \in Pid : p \notin Zombies => /\ Exists(p)' <=> Exists(p)
                                            /\ owner'[p] = owner[p]
      /\ \A p \in Zombies : p \in Pid /\ ~Exists(p)' /\ Exists(p)
  BY <1>1 DEF Zombies, Exists
<1>3. OneActivity'
  <2> SUFFICES ASSUME NEW i \in Input
               PROVE  /\ Pending(i)' <= 1
                      /\ \A p \in Pid : Exists(p)' /\ owner'[p] = i =>
                           pid[i] = p /\ Pending(i)' = 0
                      /\ ~done[i] /\ Pending(i)' = 0 =>
                           \/ pid[i] = Failed
                           \/ /\ pid[i] \in Pid /\ Exists(pid[i])'
                              /\ owner'[pid[i]] = i
                      /\ done[i] => /\ Pending(i)' = 0
                                    /\ \A p \in Pid : Exists(p)' => owner'[p] # i
    BY <1>1 DEF OneActivity, Exists
  <2>1. CASE pid[i] \in Zombies
    <3>1. Exists(pid[i]) /\ owner[pid[i]] = i /\ pid[i] \in Pid
      BY <1>2, <2>1 DEF Inv, PidIsOwn
    <3>2. Pending(i) = 0 /\ ~done[i]
      BY <3>1 DEF Inv, OneActivity
    <3>3. Pending(i)' = 1
      <4>1. /\ eofWait'[i] = eofWait[i] + 1 /\ eofDue'[i] = eofDue[i]
            /\ startWait'[i] = startWait[i] /\ startDue'[i] = startDue[i]
        BY <1>1, <2>1
      <4>2. /\ eofWait[i] \in Nat /\ eofDue[i] \in Nat
            /\ startWait[i] \in Nat /\ startDue[i] \in Nat
        BY DEF Inv, TypeOK
      <4>3. Pending(i)' = Pending(i) + 1
        BY <4>1, <4>2 DEF Pending
      <4> QED BY <3>2, <4>3
    <3>4. \A p \in Pid : Exists(p)' => owner'[p] # i
      BY <1>2, <2>1 DEF Inv, OneActivity
    <3> QED BY <3>2, <3>3, <3>4
  <2>2. CASE pid[i] \notin Zombies
    <3>1. Pending(i)' = Pending(i)
      BY <1>1, <2>2 DEF Pending, Inv, TypeOK
    <3>2. \A p \in Pid : Exists(p)' /\ owner'[p] = i => Exists(p) /\ owner[p] = i
      BY <1>2
    <3>3. pid[i] \in Pid /\ Exists(pid[i]) /\ owner[pid[i]] = i =>
            Exists(pid[i])' /\ owner'[pid[i]] = i
      BY <1>1, <1>2, <2>2 DEF Exists
    <3> QED BY <3>1, <3>2, <3>3 DEF Inv, OneActivity
  <2> QED BY <2>1, <2>2
<1>4. PidIsOwn'
  <2>1. \A i \in Input, p \in Pid : pid[i] = p /\ Exists(p)' => owner'[p] = i
    BY <1>2 DEF Inv, PidIsOwn
  <2> QED BY <1>1, <2>1 DEF PidIsOwn, Exists
<1>5. ShellIsOwn'
  <2>1. \A m \in Match, p \in Pid : Exists(p)' /\ owner'[p] = m => mpid'[m] = p
    BY <1>1, <1>2 DEF Inv, ShellIsOwn
  <2>2. \A m \in Match, p \in Pid : mpid'[m] = p => Exists(p)' /\ owner'[p] = m
    BY <1>1, <1>2 DEF Inv, ShellIsOwn
  <2> QED BY <2>1, <2>2 DEF ShellIsOwn, Exists
<1>6. Owned'
  <2>1. \A p \in Pid : Exists(p)' => owner'[p] \in Input \cup Match
    BY <1>2 DEF Inv, Owned
  <2> QED BY <2>1 DEF Owned, Exists
<1>7. EndIsQuiet' /\ NoShellAtEnd'
  BY <1>1, <1>3, <1>5, <1>6, CheckEndKeeps DEF Inv, EndIsQuiet, NoShellAtEnd
<1>8. DoneIsIdle' /\ ShellIsOpen' /\ ClosedWithProgram'
  BY <1>1 DEF Inv, DoneIsIdle, ShellIsOpen, ClosedWithProgram, InputsOf
<1> QED BY <1>3, <1>4, <1>5, <1>6, <1>7, <1>8 DEF Inv

(* While an input of a program is not done, none of its blocks is closed.    *)
LEMMA NotClosed ==
  ASSUME Inv, NEW i \in Input, ~done[i], NEW m \in MatchesOf(ProgOf[i])
  PROVE  m \in Match /\ freed[m] = 0
BY DEF Inv, ClosedWithProgram, MatchesOf, InputsOf

LEMMA ExecLineKeeps ==
  ASSUME Inv, TypeOK', ~RecyclesPids, NEW i \in Input, ExecLine(i)
  PROVE  Inv'
<1> DEFINE fired == Fired(Head(inbuf[i]).hits \cap MatchesOf(ProgOf[i]))
<1>1. ~done[i]
  BY DEF ExecLine, Inv, DoneIsIdle
<1>2. fired \in SUBSET Match /\ fired \subseteq MatchesOf(ProgOf[i])
  BY FiredType
<1>3. /\ React(fired) /\ shellinput' = Opened(fired)
      /\ UNCHANGED <<done, pid, freed, cleanups, eofWait, eofDue, startWait,
                     startDue, readDue>>
      /\ inbuf' = [inbuf EXCEPT ![i] = Tail(@)]
  BY DEF ExecLine, loopVars
<1> HIDE DEF fired
<1>4. \A m \in fired : freed[m] = 0
  BY <1>1, <1>2, NotClosed
<1>5. /\ PidIsOwn' /\ ShellIsOwn' /\ Owned'
      /\ \A m \in Match : mpid'[m] # NoPid /\ mpid[m] = NoPid =>
           m \in fired /\ shellinput[m] = "NULL"
      /\ \A j \in Input, p \in Pid :
           (Exists(p) /\ owner[p] = j) <=> (Exists(p)' /\ owner'[p] = j)
  BY <1>2, <1>3, <1>4, ReactKeeps
<1>6. OneActivity'
  <2>1. \A j \in Input : Pending(j)' = Pending(j)
    BY <1>3 DEF Pending
  <2>2. \A j \in Input, p \in Pid : Exists(p)' /\ owner'[p] = j =>
          pid'[j] = p /\ Pending(j)' = 0 /\ ~done'[j]
    BY <1>3, <1>5, <2>1 DEF Inv, OneActivity
  <2>3. \A j \in Input : ~done'[j] /\ Pending(j)' = 0 =>
          \/ pid'[j] = Failed
          \/ pid'[j] \in Pid /\ Exists(pid[j])' /\ owner'[pid'[j]] = j
    <3> SUFFICES ASSUME NEW j \in Input, ~done[j], Pending(j) = 0, pid[j] # Failed
                 PROVE  pid[j] \in Pid /\ Exists(pid[j])' /\ owner'[pid[j]] = j
      BY <1>3, <2>1
    <3>1. pid[j] \in Pid /\ Exists(pid[j]) /\ owner[pid[j]] = j
      BY DEF Inv, OneActivity
    <3> QED BY <1>3, <1>5, <3>1 DEF Exists
  <2>4. \A j \in Input : Pending(j)' <= 1 /\ (done'[j] => Pending(j)' = 0)
    BY <1>3, <2>1 DEF Inv, OneActivity
  <2> QED BY <2>2, <2>3, <2>4 DEF OneActivity
<1>7. DoneIsIdle'
  BY <1>1, <1>3 DEF Inv, TypeOK, DoneIsIdle
<1>8. ShellIsOpen'
  BY <1>3, <1>5 DEF Inv, TypeOK, ShellIsOpen, Opened
<1>9. ClosedWithProgram'
  <2>1. \A m \in Match : shellinput[m] = "NULL" /\ m \notin fired => shellinput'[m] = "NULL"
    BY <1>3 DEF Opened
  <2> QED BY <1>3, <1>4, <2>1 DEF Inv, ClosedWithProgram, InputsOf
<1>10. EndIsQuiet' /\ NoShellAtEnd'
  BY <1>1, <1>3 DEF Inv, EndIsQuiet, NoShellAtEnd
<1> QED BY <1>5, <1>6, <1>7, <1>8, <1>9, <1>10 DEF Inv

(* An input with a callback pending is not done and has no process.          *)
LEMMA PendingIsAlone ==
  ASSUME Inv, NEW i \in Input, eofDue[i] > 0 \/ startDue[i] > 0
  PROVE  /\ Pending(i) = 1 /\ ~done[i]
         /\ \A p \in Pid : Exists(p) => owner[p] # i
<1>1. /\ eofWait[i] \in Nat /\ eofDue[i] \in Nat
      /\ startWait[i] \in Nat /\ startDue[i] \in Nat
  BY DEF Inv, TypeOK
<1>2. Pending(i) >= 1 /\ Pending(i) \in Nat
  BY <1>1 DEF Pending
<1>3. Pending(i) <= 1
  BY DEF Inv, OneActivity
<1>4. Pending(i) = 1
  BY <1>2, <1>3
<1>5. Pending(i) # 0
  BY <1>4
<1> QED BY <1>4, <1>5 DEF Inv, OneActivity

LEMMA ProcessStartKeeps ==
  ASSUME Inv, TypeOK', ~RecyclesPids, NEW i \in Input, ProcessStart(i)
  PROVE  Inv'
<1> USE PidType, Disjoint
<1>1. /\ UNCHANGED <<done, mpid, shellinput, freed, cleanups, inbuf, eofWait,
                     eofDue, startWait, readDue>>
      /\ startDue' = [startDue EXCEPT ![i] = @ - 1]
      /\ startDue[i] > 0
  BY DEF ProcessStart
<1>2. PICK f \in Forks({i}) :
        /\ pid' = [pid EXCEPT ![i] = f[i]]
        /\ proc' = ProcAfter({i}, f)
        /\ owner' = OwnerAfter({i}, f)
  BY DEF ProcessStart
<1>3. /\ \A p \in Pid : Exists(p) => proc'[p] = proc[p] /\ owner'[p] = owner[p]
      /\ \A p \in Pid : ~Exists(p) /\ Exists(p)' =>
           p \notin Remembered /\ owner'[p] = i /\ f[i] = p
      /\ f[i] \in Pid => /\ ~Exists(f[i]) /\ Exists(f[i])' /\ owner'[f[i]] = i
                         /\ f[i] \notin Remembered
  <2> DEFINE kids == {i}
  <2>1. TypeOK /\ kids \in SUBSET (Input \cup Match) /\ f \in Forks(kids)
    BY DEF Inv
  <2>2. \A c : c \in kids <=> c = i
    OBVIOUS
  <2>3. proc' = ProcAfter(kids, f) /\ owner' = OwnerAfter(kids, f)
    BY <1>2
  <2> HIDE DEF kids
  <2>4. /\ \A p \in Pid : Exists(p) => proc'[p] = proc[p] /\ owner'[p] = owner[p]
        /\ \A p \in Pid : ~Exists(p) /\ Exists(p)' =>
             p \notin Remembered /\ owner'[p] \in kids /\ f[owner'[p]] = p
        /\ \A c \in kids : f[c] \in Pid =>
             /\ ~Exists(f[c]) /\ Exists(f[c])' /\ owner'[f[c]] = c
             /\ f[c] \notin Remembered
    BY <2>1, <2>3, ForkFacts
  <2> QED BY <2>2, <2>4
<1>4. f[i] \in Pid \cup {Failed}
  BY ForksType
<1>5. pid' = [j \in Input |-> IF j = i THEN f[i] ELSE pid[j]]
  BY <1>2 DEF Inv, TypeOK
<1>6. Pending(i) = 1 /\ ~done[i] /\ \A p \in Pid : Exists(p) => owner[p] # i
  BY <1>1, PendingIsAlone
<1>7. Pending(i)' = 0 /\ \A j \in Input : j # i => Pending(j)' = Pending(j)
  <2>1. /\ startDue'[i] = startDue[i] - 1
        /\ \A j \in Input : j # i => startDue'[j] = startDue[j]
    BY <1>1 DEF Inv, TypeOK
  <2>2. /\ eofWait[i] \in Nat /\ eofDue[i] \in Nat
        /\ startWait[i] \in Nat /\ startDue[i] \in Nat
    BY DEF Inv, TypeOK
  <2>3. Pending(i)' = Pending(i) - 1
    BY <1>1, <2>1, <2>2 DEF Pending
  <2> QED BY <1>1, <1>6, <2>1, <2>3 DEF Pending
<1>8. OneActivity'
  <2>1. \A j \in Input, p \in Pid : Exists(p)' /\ owner'[p] = j =>
          pid'[j] = p /\ Pending(j)' = 0 /\ ~done'[j]
    BY <1>1, <1>3, <1>5, <1>6, <1>7 DEF Inv, OneActivity
  <2>2. \A j \in Input : ~done'[j] /\ Pending(j)' = 0 =>
          \/ pid'[j] = Failed
          \/ pid'[j] \in Pid /\ Exists(pid[j])' /\ owner'[pid'[j]] = j
    <3> SUFFICES ASSUME NEW j \in Input, ~done[j], Pending(j)' = 0, pid'[j] # Failed
                 PROVE  pid'[j] \in Pid /\ proc'[pid'[j]] # "none" /\ owner'[pid'[j]] = j
      BY <1>1 DEF Exists
    <3>1. CASE j = i
      BY <1>3, <1>4, <1>5, <3>1 DEF Exists
    <3>2. CASE j # i
      <4>1. pid[j] \in Pid /\ Exists(pid[j]) /\ owner[pid[j]] = j
        BY <1>5, <1>7, <3>2 DEF Inv, OneActivity
      <4> QED BY <1>3, <1>5, <3>2, <4>1 DEF Exists
    <3> QED BY <3>1, <3>2
  <2>3. \A j \in Input : Pending(j)' <= 1 /\ (done'[j] => Pending(j)' = 0)
    BY <1>1, <1>7 DEF Inv, OneActivity
  <2> QED BY <2>1, <2>2, <2>3 DEF OneActivity
<1>9. PidIsOwn'
  <2>1. \A j \in Input, p \in Pid : pid'[j] = p /\ Exists(p)' => owner'[p] = j
    <3> SUFFICES ASSUME NEW j \in Input, NEW p \in Pid, pid'[j] = p, Exists(p)'
                 PROVE  owner'[p] = j
      OBVIOUS
    <3>1. CASE j = i
      BY <1>3, <1>5, <3>1
    <3>2. CASE j # i /\ Exists(p)
      BY <1>3, <1>5, <3>2 DEF Inv, PidIsOwn
    <3>3. CASE j # i /\ ~Exists(p)
      BY <1>3, <1>5, <3>3 DEF Remembered
    <3> QED BY <3>1, <3>2, <3>3
  <2> QED BY <2>1 DEF PidIsOwn, Exists
<1>10. ShellIsOwn'
  <2>1. \A m \in Match, p \in Pid : Exists(p)' /\ owner'[p] = m => mpid[m] = p
    BY <1>3 DEF Inv, ShellIsOwn
  <2>2. \A m \in Match : mpid[m] \in Pid =>
          proc'[mpid[m]] # "none" /\ owner'[mpid[m]] = m
    BY <1>3 DEF Inv, ShellIsOwn, Exists
  <2> QED BY <1>1, <2>1, <2>2 DEF ShellIsOwn, Exists
<1>11. Owned'
  <2>1. \A p \in Pid : Exists(p)' => owner'[p] \in Input \cup Match
    BY <1>3 DEF Inv, Owned
  <2> QED BY <2>1 DEF Owned, Exists
<1>12. EndIsQuiet' /\ NoShellAtEnd'
  BY <1>1, <1>6 DEF Inv, EndIsQuiet, NoShellAtEnd
<1>13. DoneIsIdle' /\ ShellIsOpen' /\ ClosedWithProgram'
  BY <1>1 DEF Inv, DoneIsIdle, ShellIsOpen, ClosedWithProgram, InputsOf
<1> QED BY <1>8, <1>9, <1>10, <1>11, <1>12, <1>13 DEF Inv

LEMMA EofHandlerKeeps ==
  ASSUME Inv, TypeOK', ~RecyclesPids, NEW i \in Input, EofHandler(i)
  PROVE  Inv'
<1> DEFINE fired == IF matched[i] THEN {} ELSE NomatchOf(ProgOf[i])
           closing == ToClose(ProgOf[i], done')
           last == \A j \in InputsOf(ProgOf[i]) : done'[j]
<1>1. /\ eofDue[i] > 0
      /\ eofDue' = [eofDue EXCEPT ![i] = @ - 1]
      /\ EndOrRestart(i)
      /\ UNCHANGED <<pid, inbuf, eofWait, startDue, readDue>>
      /\ readDue = {}
      /\ React(fired)
      /\ shellinput' = [m \in Match |->
                          IF m \in closing THEN "NULL" ELSE Opened(fired)[m]]
      /\ freed' = [m \in Match |->
                     IF m \in closing THEN UpTo2(freed[m] + 1) ELSE freed[m]]
      /\ IF last THEN CheckEndState(done', mpid') ELSE UNCHANGED <<cleanups, exitEv>>
  BY DEF EofHandler, TimersRun
<1>2. fired \in SUBSET Match /\ fired \subseteq MatchesOf(ProgOf[i])
  BY DEF NomatchOf, MatchesOf
<1>3. closing = IF last THEN MatchesOf(ProgOf[i]) ELSE {}
  BY DEF ToClose
<1> HIDE DEF fired, closing
<1>4. Pending(i) = 1 /\ ~done[i] /\ \A p \in Pid : Exists(p) => owner[p] # i
  BY <1>1, PendingIsAlone
<1>5. \A m \in MatchesOf(ProgOf[i]) : m \in Match /\ freed[m] = 0
  BY <1>4, NotClosed
<1>6. /\ PidIsOwn' /\ ShellIsOwn' /\ Owned'
      /\ \A m \in Match : mpid'[m] # NoPid /\ mpid[m] = NoPid =>
           m \in fired /\ shellinput[m] = "NULL"
      /\ \A j \in Input, p \in Pid :
           (Exists(p) /\ owner[p] = j) <=> (Exists(p)' /\ owner'[p] = j)
  BY <1>1, <1>2, <1>5, ReactKeeps
<1>7. /\ done' \in [Input -> BOOLEAN]
      /\ \A j \in Input : j # i => done'[j] = done[j]
      /\ done'[i] <=> ~ShouldRestart(i)
  BY SMTT(30), <1>1, <1>4 DEF EndOrRestart, Inv, TypeOK
<1>8. /\ \A j \in Input : j # i => Pending(j)' = Pending(j)
      /\ Pending(i)' = IF done'[i] THEN 0 ELSE 1
  <2>1. /\ eofWait[i] \in Nat /\ eofDue[i] \in Nat
        /\ startWait[i] \in Nat /\ startDue[i] \in Nat
    BY DEF Inv, TypeOK
  <2>2. /\ eofDue'[i] = eofDue[i] - 1
        /\ \A j \in Input : j # i => eofDue'[j] = eofDue[j]
    BY <1>1 DEF Inv, TypeOK
  <2>3. /\ startWait'[i] = IF done'[i] THEN startWait[i] ELSE startWait[i] + 1
        /\ \A j \in Input : j # i => startWait'[j] = startWait[j]
    <3>1. CASE ShouldRestart(i)
      <4>1. startWait' = [startWait EXCEPT ![i] = @ + 1] /\ ~done'[i]
        BY <1>1, <1>7, <3>1 DEF EndOrRestart
      <4> QED BY <4>1 DEF Inv, TypeOK
    <3>2. CASE ~ShouldRestart(i)
      BY <1>1, <1>7, <3>2 DEF EndOrRestart
    <3> QED BY <3>1, <3>2
  <2>4. \A j \in Input : j # i => Pending(j)' = Pending(j)
    BY <1>1, <2>2, <2>3 DEF Pending
  <2>5. Pending(i)' = IF done'[i] THEN Pending(i) - 1 ELSE Pending(i)
    BY <1>1, <2>1, <2>2, <2>3 DEF Pending
  <2> QED BY <1>4, <2>4, <2>5
<1>9. OneActivity'
  <2>1. \A j \in Input, p \in Pid : Exists(p)' /\ owner'[p] = j =>
          pid'[j] = p /\ Pending(j)' = 0 /\ ~done'[j]
    BY <1>1, <1>4, <1>6, <1>7, <1>8 DEF Inv, OneActivity
  <2>2. \A j \in Input : ~done'[j] /\ Pending(j)' = 0 =>
          \/ pid'[j] = Failed
          \/ pid'[j] \in Pid /\ Exists(pid[j])' /\ owner'[pid'[j]] = j
    <3> SUFFICES ASSUME NEW j \in Input, ~done'[j], Pending(j)' = 0, pid[j] # Failed
                 PROVE  pid[j] \in Pid /\ Exists(pid[j])' /\ owner'[pid[j]] = j
      BY <1>1
    <3>1. j # i
      BY <1>8
    <3>2. pid[j] \in Pid /\ Exists(pid[j]) /\ owner[pid[j]] = j
      BY <1>7, <1>8, <3>1 DEF Inv, OneActivity
    <3> QED BY <1>1, <1>6, <3>2 DEF Exists
  <2>3. \A j \in Input : Pending(j)' <= 1 /\ (done'[j] => Pending(j)' = 0)
    BY <1>7, <1>8 DEF Inv, OneActivity
  <2> QED BY <2>1, <2>2, <2>3 DEF OneActivity
<1>10. DoneIsIdle'
  <2>1. inbuf[i] = << >>
    BY DEF EofHandler, TimersRun, ReadsRun, SignalsRun, InCallback
  <2> QED BY <1>1, <1>7, <2>1 DEF Inv, DoneIsIdle
<1>11. ShellIsOpen'
  <2> SUFFICES ASSUME NEW m \in Match, freed'[m] = 0, shellinput'[m] = "NULL"
               PROVE  mpid'[m] = NoPid
    BY DEF ShellIsOpen
  <2>1. m \notin closing
    BY <1>1, <1>3, <1>5 DEF UpTo2, Smaller
  <2>2. freed[m] = 0 /\ shellinput[m] = "NULL" /\ m \notin fired
    BY <1>1, <2>1 DEF Opened
  <2>3. mpid[m] = NoPid
    BY <2>2 DEF Inv, ShellIsOpen
  <2> QED BY <1>6, <2>2, <2>3
<1>12. ClosedWithProgram'
  <2> SUFFICES ASSUME NEW m \in Match
               PROVE  IF InputsOf(ProgOf[m]) # {} /\ \A j \in InputsOf(ProgOf[m]) : done'[j]
                        THEN freed'[m] = 1 /\ shellinput'[m] = "NULL"
                        ELSE freed'[m] = 0
    BY DEF ClosedWithProgram, InputsOf
  <2>1. CASE m \in MatchesOf(ProgOf[i])
    <3>1. ProgOf[m] = ProgOf[i] /\ i \in InputsOf(ProgOf[m])
      BY <2>1 DEF MatchesOf, InputsOf
    <3>2. freed[m] = 0
      BY <1>5, <2>1
    <3>3. CASE last
      BY <1>1, <1>3, <2>1, <3>1, <3>2, <3>3 DEF UpTo2, Smaller
    <3>4. CASE ~last
      BY <1>1, <1>3, <3>1, <3>2, <3>4
    <3> QED BY <3>3, <3>4
  <2>2. CASE m \notin MatchesOf(ProgOf[i])
    <3>1. ProgOf[m] # ProgOf[i]
      BY <2>2 DEF MatchesOf
    <3>2. \A j \in InputsOf(ProgOf[m]) : done'[j] = done[j]
      BY <1>7, <3>1 DEF InputsOf
    <3>3. freed'[m] = freed[m] /\ shellinput'[m] = shellinput[m]
      BY <1>1, <1>2, <1>3, <2>2 DEF Opened
    <3> QED BY <3>2, <3>3 DEF Inv, ClosedWithProgram
  <2> QED BY <2>1, <2>2
<1>13. EndIsQuiet' /\ NoShellAtEnd'
  <2>1. ~(cleanups > 0)
    BY <1>4 DEF Inv, EndIsQuiet
  <2>2. CASE last
    BY <1>1, <1>6, <1>9, <2>1, <2>2, CheckEndKeeps
  <2>3. CASE ~last
    BY <1>1, <2>1, <2>3 DEF EndIsQuiet, NoShellAtEnd
  <2> QED BY <2>2, <2>3
<1> QED BY <1>6, <1>9, <1>10, <1>11, <1>12, <1>13 DEF Inv

-----------------------------------------------------------------------------
(* Inv is an inductive invariant of the event loop.                          *)
LEMMA Invariance ==
  ASSUME ~RecyclesPids
  PROVE  Spec => []Inv
<1>1. TypeOK /\ TypeOK' /\ Inv /\ [Next]_vars => Inv'
  <2> SUFFICES ASSUME TypeOK', Inv, [Next]_vars
               PROVE  Inv'
    OBVIOUS
  <2>1. CASE Poll
    BY <2>1, ActivateKeeps DEF Poll
  <2>2. CASE PollInterrupted
    BY <2>2, ActivateKeeps, {} \in SUBSET Readable DEF PollInterrupted
  <2>3. CASE LoopExit \/ LoopReturn \/ Tick \/ Returned \/ UNCHANGED vars
    BY <2>3, FrameKeeps DEF LoopExit, LoopReturn, Tick, Returned, vars, grokVars,
                            loopVars, envVars, DoneIsIdle, Inv
  <2>4. CASE Sigchld
    BY <2>4, SigchldKeeps
  <2>5. ASSUME NEW i \in Input, StdoutRead(i)
        PROVE  Inv'
    <3>1. ~done[i]
      BY <2>5 DEF StdoutRead, Inv, DoneIsIdle
    <3>2. DoneIsIdle'
      BY <2>5, <3>1 DEF StdoutRead, Inv, DoneIsIdle, TypeOK
    <3> QED BY <2>5, <3>2, FrameKeeps DEF StdoutRead
  <2>6. ASSUME NEW i \in Input, ExecLine(i)
        PROVE  Inv'
    BY <2>6, ExecLineKeeps
  <2>7. ASSUME NEW i \in Input, ProcessStart(i)
        PROVE  Inv'
    BY <2>7, ProcessStartKeeps
  <2>8. ASSUME NEW i \in Input, EofHandler(i)
        PROVE  Inv'
    BY <2>8, EofHandlerKeeps
  <2>9. ASSUME NEW p \in Pid, Write(p)
        PROVE  Inv'
    BY <2>9, FrameKeeps DEF Write, grokVars, loopVars, DoneIsIdle, Inv
  <2>10. ASSUME NEW p \in Pid, CommandExit(p) \/ ShellExit(p) \/ ShellDies(p)
         PROVE  Inv'
    BY <2>10, ExitKeeps DEF CommandExit, ShellExit, ShellDies
  <2> QED
    BY <2>1, <2>2, <2>3, <2>4, <2>5, <2>6, <2>7, <2>8, <2>9, <2>10
    DEF Next, Grok, Environment
<1> QED BY <1>1, InitInv, TypeCorrect, PTL DEF Spec

(* A command is never run twice at a time, no restart is lost and the eof    *)
(* handler runs once per run, whatever the order of deaths and callbacks.    *)
THEOREM OneActivityHolds ==
  ASSUME ~RecyclesPids
  PROVE  Spec => []OneActivity
<1>1. Inv => OneActivity
  BY DEF Inv
<1> QED BY <1>1, Invariance, PTL

(* The shells of a program are closed, and its patterns freed, exactly when  *)
(* its last input is done, once, and not used afterwards.                    *)
THEOREM ClosedWithProgramHolds ==
  ASSUME ~RecyclesPids
  PROVE  Spec => []ClosedWithProgram
<1>1. Inv => ClosedWithProgram
  BY DEF Inv
<1> QED BY <1>1, Invariance, PTL

(* Once grok decides that no subprocess is left, none is, and none will be.  *)
THEOREM EndIsQuietHolds ==
  ASSUME ~RecyclesPids
  PROVE  Spec => []EndIsQuiet
<1>1. Inv => EndIsQuiet
  BY DEF Inv
<1> QED BY <1>1, Invariance, PTL

-----------------------------------------------------------------------------
(* Lines and reads, when one read of a bufferevent empties a pipe: no line   *)
(* is left when the eof handler runs, and it knows what matched.             *)

Fires(i, line) == Fired(line.hits \cap MatchesOf(ProgOf[i])) # {}
SomeFires(i, lines) == \E k \in 1..Len(lines) : Fires(i, lines[k])

OutFits(i)       == Len(out[i]) <= Capacity
(* What was written before the command died is read before its eof handler.  *)
ReadFirst(i)     == eofDue[i] > 0 => i \in readDue \/ out[i] = << >>
(* Nothing is left of a run when the next one is scheduled, or none is.      *)
NothingUnread(i) == done[i] \/ startWait[i] > 0 \/ startDue[i] > 0 =>
                      out[i] = << >> /\ inbuf[i] = << >>
(* A line that matches was counted, or is still to be read or searched.      *)
Judged(i) ==
  ~done[i] /\ startWait[i] = 0 /\ startDue[i] = 0 =>
    (hit[i] <=> (matched[i] \/ SomeFires(i, inbuf[i]) \/ SomeFires(i, out[i])))

LinesInv == \A i \in Input : OutFits(i) /\ ReadFirst(i) /\ NothingUnread(i) /\ Judged(i)

LEMMA NoneFires == \A i : ~SomeFires(i, << >>)
BY DEF SomeFires

LEMMA AppendFires ==
  ASSUME NEW i, NEW s \in Seq(Line), NEW e \in Line
  PROVE  SomeFires(i, Append(s, e)) <=> (SomeFires(i, s) \/ Fires(i, e))
<1>1. Len(Append(s, e)) = Len(s) + 1 /\ Append(s, e)[Len(s) + 1] = e
  OBVIOUS
<1>2. \A k \in 1..Len(s) : Append(s, e)[k] = s[k]
  OBVIOUS
<1>3. 1..(Len(s) + 1) = (1..Len(s)) \cup {Len(s) + 1}
  OBVIOUS
<1> QED BY <1>1, <1>2, <1>3 DEF SomeFires

LEMMA TailFires ==
  ASSUME NEW i, NEW s \in Seq(Line), s # << >>
  PROVE  SomeFires(i, s) <=> (Fires(i, Head(s)) \/ SomeFires(i, Tail(s)))
<1>1. Len(Tail(s)) = Len(s) - 1 /\ Len(s) \in Nat \ {0} /\ Head(s) = s[1]
  OBVIOUS
<1>2. \A k \in 1..Len(Tail(s)) : Tail(s)[k] = s[k + 1]
  OBVIOUS
<1>3. ASSUME NEW k \in 1..Len(s), Fires(i, s[k]), ~Fires(i, s[1])
      PROVE  SomeFires(i, Tail(s))
  <2>1. k - 1 \in 1..Len(Tail(s)) /\ (k - 1) + 1 = k
    BY <1>1, <1>3
  <2>2. Fires(i, Tail(s)[k - 1])
    BY <1>2, <1>3, <2>1
  <2> QED BY <2>1, <2>2 DEF SomeFires
<1>4. ASSUME NEW k \in 1..Len(Tail(s)), Fires(i, Tail(s)[k])
      PROVE  SomeFires(i, s)
  <2>1. k + 1 \in 1..Len(s) /\ Fires(i, s[k + 1])
    BY <1>1, <1>2, <1>4
  <2> QED BY <2>1 DEF SomeFires
<1>5. Fires(i, s[1]) => SomeFires(i, s)
  BY <1>1 DEF SomeFires
<1> QED BY <1>1, <1>3, <1>4, <1>5 DEF SomeFires

LEMMA InitLines == Init => LinesInv
BY BoundsType DEF Init, LinesInv, OutFits, ReadFirst, NothingUnread, Judged

LEMMA FrameLines ==
  ASSUME LinesInv,
         UNCHANGED <<done, startWait, startDue, out, inbuf, hit, matched, readDue, eofDue>>
  PROVE  LinesInv'
BY DEF LinesInv, OutFits, ReadFirst, NothingUnread, Judged

LEMMA ActivateLines ==
  ASSUME Inv, LinesInv, IterationEnd, NEW ready, Activate(ready),
         ready = Readable \/ ~TimerReady
  PROVE  LinesInv'
<1> SUFFICES ASSUME NEW i \in Input
             PROVE  (OutFits(i) /\ ReadFirst(i) /\ NothingUnread(i) /\ Judged(i))'
  BY DEF LinesInv
<1>1. TypeOK /\ OutFits(i) /\ NothingUnread(i) /\ Judged(i)
  BY DEF Inv, LinesInv
<1>2. startDue[i] = 0 /\ eofDue[i] = 0
  BY <1>1 DEF IterationEnd, TimerActive, TypeOK
<1>3. UNCHANGED <<done, out, inbuf, hit, matched>>
  BY DEF Activate, grokVars, envVars
<1>4. /\ eofDue'[i] = eofWait[i] /\ readDue' = ready
      /\ startDue'[i] = IF StartReady(i) THEN startWait[i] ELSE 0
      /\ startWait'[i] = IF StartReady(i) THEN 0 ELSE startWait[i]
  BY DEF Activate
<1>5. startWait'[i] > 0 \/ startDue'[i] > 0 => startWait[i] > 0
  BY <1>1, <1>4 DEF TypeOK
<1>6. startWait'[i] = 0 /\ startDue'[i] = 0 => startWait[i] = 0
  BY <1>4
<1>7. OutFits(i)' /\ NothingUnread(i)'
  BY <1>1, <1>3, <1>5 DEF OutFits, NothingUnread
<1>8. Judged(i)'
  BY <1>1, <1>2, <1>3, <1>6 DEF Judged
<1>9. ReadFirst(i)'
  <2> SUFFICES ASSUME eofWait[i] > 0, out[i] # << >>
               PROVE  i \in ready
    BY <1>3, <1>4 DEF ReadFirst
  <2>1. ready = Readable
    BY DEF TimerReady
  <2>2. Pending(i) # 0
    BY <1>1 DEF Pending, TypeOK
  <2>3. ~done[i]
    BY <2>2 DEF Inv, OneActivity
  <2> QED BY <2>1, <2>3 DEF Readable
<1> QED BY <1>7, <1>8, <1>9

LEMMA StdoutReadLines ==
  ASSUME Inv, LinesInv, Capacity <= Chunk, NEW i \in Input, StdoutRead(i)
  PROVE  LinesInv'
<1>1. TypeOK /\ OutFits(i) /\ NothingUnread(i) /\ Judged(i)
  BY DEF Inv, LinesInv
<1>2. out[i] \in Seq(Line) /\ Len(out[i]) \in Nat /\ inbuf[i] = << >>
  BY <1>1 DEF TypeOK, StdoutRead, ReadsRun, SignalsRun, InCallback
<1>3. Smaller(Chunk, Len(out[i])) = Len(out[i])
  BY <1>1, <1>2, BoundsType DEF OutFits, Smaller
<1>4. inbuf' = [inbuf EXCEPT ![i] = SubSeq(out[i], 1, Len(out[i]))]
  BY <1>3 DEF StdoutRead
<1>5. out' = [out EXCEPT ![i] = SubSeq(out[i], Len(out[i]) + 1, Len(out[i]))]
  BY <1>3 DEF StdoutRead
<1>6. SubSeq(out[i], 1, Len(out[i])) = out[i]
  BY <1>2
<1>7. SubSeq(out[i], Len(out[i]) + 1, Len(out[i])) = << >>
  BY <1>2
<1>8. inbuf'[i] = out[i] /\ out'[i] = << >>
  BY <1>1, <1>4, <1>5, <1>6, <1>7 DEF TypeOK
<1>9. \A j \in Input : j # i => /\ inbuf'[j] = inbuf[j] /\ out'[j] = out[j]
                                /\ (j \in readDue => j \in readDue')
  BY <1>1, <1>4, <1>5 DEF TypeOK, StdoutRead
<1>10. UNCHANGED <<done, startWait, startDue, eofDue, hit, matched>>
  BY DEF StdoutRead
<1>11. ASSUME NEW j \in Input, j # i
       PROVE  (OutFits(j) /\ ReadFirst(j) /\ NothingUnread(j) /\ Judged(j))'
  BY <1>9, <1>10, <1>11 DEF LinesInv, OutFits, ReadFirst, NothingUnread, Judged
<1>12. (OutFits(i) /\ ReadFirst(i) /\ NothingUnread(i))'
  BY <1>1, <1>8, <1>10, BoundsType DEF OutFits, ReadFirst, NothingUnread
<1>13. Judged(i)'
  BY <1>1, <1>2, <1>8, <1>10, NoneFires DEF Judged
<1> QED BY <1>11, <1>12, <1>13 DEF LinesInv

LEMMA ExecLineLines ==
  ASSUME Inv, LinesInv, NEW i \in Input, ExecLine(i)
  PROVE  LinesInv'
<1> DEFINE fired == Fired(Head(inbuf[i]).hits \cap MatchesOf(ProgOf[i]))
<1>1. TypeOK /\ OutFits(i) /\ ReadFirst(i) /\ NothingUnread(i) /\ Judged(i)
  BY DEF Inv, LinesInv
<1>2. inbuf[i] \in Seq(Line) /\ inbuf[i] # << >>
  BY <1>1 DEF TypeOK, ExecLine
<1>3. /\ inbuf' = [inbuf EXCEPT ![i] = Tail(@)]
      /\ matched' = [matched EXCEPT ![i] = @ \/ fired # {}]
      /\ UNCHANGED <<done, startWait, startDue, eofDue, readDue, out, hit>>
  BY DEF ExecLine, CountMatches, loopVars
<1>4. fired # {} <=> Fires(i, Head(inbuf[i]))
  BY DEF Fires
<1> HIDE DEF fired
<1>5. inbuf'[i] = Tail(inbuf[i]) /\ (matched'[i] <=> (matched[i] \/ fired # {}))
  BY <1>1, <1>3 DEF TypeOK
<1>6. \A j \in Input : j # i => inbuf'[j] = inbuf[j] /\ matched'[j] = matched[j]
  BY <1>1, <1>3 DEF TypeOK
<1>7. ASSUME NEW j \in Input, j # i
      PROVE  (OutFits(j) /\ ReadFirst(j) /\ NothingUnread(j) /\ Judged(j))'
  BY <1>3, <1>6, <1>7 DEF LinesInv, OutFits, ReadFirst, NothingUnread, Judged
<1>8. (OutFits(i) /\ ReadFirst(i) /\ NothingUnread(i))'
  BY <1>1, <1>2, <1>3 DEF OutFits, ReadFirst, NothingUnread
<1>9. Judged(i)'
  <2>1. SomeFires(i, inbuf[i]) <=> (fired # {} \/ SomeFires(i, inbuf'[i]))
    BY <1>2, <1>4, <1>5, TailFires
  <2> QED BY <1>1, <1>3, <1>5, <2>1 DEF Judged
<1> QED BY <1>7, <1>8, <1>9 DEF LinesInv

LEMMA WriteLines ==
  ASSUME Inv, LinesInv, NEW p \in Pid, Write(p)
  PROVE  LinesInv'
<1>1. TypeOK /\ LinesInv
  BY DEF Inv
<1>i. PICK i \in Input : i = owner[p]
  BY DEF Write
<1>2. i \in Input /\ Exists(p) /\ Len(out[i]) < Capacity
  BY <1>i DEF Write, Running, Exists
<1>3. PICK h \in Lines[i] :
        /\ out' = [out EXCEPT ![i] = Append(@, [hits |-> h, old |-> FALSE])]
        /\ hit' = [hit EXCEPT ![i] = @ \/ Fired(h \cap MatchesOf(ProgOf[i])) # {}]
  BY <1>i DEF Write
<1>4. UNCHANGED <<done, startWait, startDue, eofDue, readDue, inbuf, matched>>
  BY DEF Write, grokVars, loopVars
<1>5. ~done[i] /\ Pending(i) = 0
  BY <1>2, <1>i DEF Inv, OneActivity
<1>6. eofDue[i] = 0 /\ startWait[i] = 0 /\ startDue[i] = 0
  BY <1>1, <1>2, <1>5 DEF Pending, TypeOK
<1> DEFINE line == [hits |-> h, old |-> FALSE]
<1>7. line \in Line
  BY <1>2, <1>3, LinesType DEF Line
<1>8. line.hits = h
  OBVIOUS
<1> HIDE DEF line
<1>9. out'[i] = Append(out[i], line)
  BY <1>1, <1>2, <1>3 DEF TypeOK, line
<1>10. hit'[i] <=> (hit[i] \/ Fires(i, line))
  BY <1>1, <1>2, <1>3, <1>8 DEF TypeOK, Fires
<1>11. \A j \in Input : j # i => out'[j] = out[j] /\ hit'[j] = hit[j]
  BY <1>1, <1>2, <1>3 DEF TypeOK
<1>12. ASSUME NEW j \in Input, j # i
       PROVE  (OutFits(j) /\ ReadFirst(j) /\ NothingUnread(j) /\ Judged(j))'
  BY <1>4, <1>11, <1>12 DEF LinesInv, OutFits, ReadFirst, NothingUnread, Judged
<1>13. out[i] \in Seq(Line)
  BY <1>1, <1>2 DEF TypeOK
<1>14. OutFits(i)'
  <2>1. Len(out'[i]) = Len(out[i]) + 1 /\ Len(out[i]) \in Nat
    BY <1>7, <1>9, <1>13
  <2> QED BY <1>2, <2>1, BoundsType DEF OutFits
<1>15. ReadFirst(i)' /\ NothingUnread(i)'
  BY <1>4, <1>5, <1>6 DEF ReadFirst, NothingUnread
<1>16. Judged(i)'
  <2>0. SomeFires(i, Append(out[i], line)) <=> (SomeFires(i, out[i]) \/ Fires(i, line))
    BY <1>7, <1>13, AppendFires
  <2>1. SomeFires(i, out'[i]) <=> (SomeFires(i, out[i]) \/ Fires(i, line))
    BY <1>9, <2>0, Zenon
  <2>2. Judged(i)
    BY <1>2 DEF LinesInv
  <2> QED BY <1>4, <1>10, <2>1, <2>2 DEF Judged
<1> QED BY <1>12, <1>14, <1>15, <1>16 DEF LinesInv

LEMMA ProcessStartLines ==
  ASSUME Inv, LinesInv, NEW i \in Input, ProcessStart(i)
  PROVE  LinesInv'
<1>1. TypeOK /\ NothingUnread(i)
  BY DEF Inv, LinesInv
<1>2. startDue[i] > 0 /\ out[i] = << >> /\ inbuf[i] = << >>
  BY <1>1 DEF ProcessStart, NothingUnread
<1>3. out' = [out EXCEPT ![i] = [k \in 1..Len(@) |-> [hits |-> @[k].hits, old |-> TRUE]]]
  BY DEF ProcessStart
<1>4. out'[i] = [k \in 1..Len(out[i]) |-> [hits |-> out[i][k].hits, old |-> TRUE]]
  BY <1>1, <1>3 DEF TypeOK
<1>5. out'[i] = << >>
  BY <1>2, <1>4
<1>6. /\ matched' = [matched EXCEPT ![i] = FALSE] /\ hit' = [hit EXCEPT ![i] = FALSE]
      /\ startDue' = [startDue EXCEPT ![i] = @ - 1]
      /\ UNCHANGED <<done, inbuf, eofDue, startWait, readDue>>
  BY DEF ProcessStart
<1>7. ~matched'[i] /\ ~hit'[i]
  BY <1>1, <1>6 DEF TypeOK
<1>8. \A j \in Input : j # i => /\ out'[j] = out[j] /\ hit'[j] = hit[j]
                                /\ matched'[j] = matched[j] /\ startDue'[j] = startDue[j]
  BY <1>1, <1>3, <1>6 DEF TypeOK
<1>9. ASSUME NEW j \in Input, j # i
      PROVE  (OutFits(j) /\ ReadFirst(j) /\ NothingUnread(j) /\ Judged(j))'
  BY <1>6, <1>8, <1>9 DEF LinesInv, OutFits, ReadFirst, NothingUnread, Judged
<1>10. (OutFits(i) /\ ReadFirst(i) /\ NothingUnread(i))'
  BY <1>2, <1>5, <1>6, BoundsType DEF OutFits, ReadFirst, NothingUnread
<1>11. Judged(i)'
  BY <1>2, <1>5, <1>6, <1>7, NoneFires DEF Judged
<1> QED BY <1>9, <1>10, <1>11 DEF LinesInv

LEMMA EofHandlerLines ==
  ASSUME Inv, LinesInv, NEW i \in Input, EofHandler(i)
  PROVE  LinesInv'
<1>1. TypeOK /\ OutFits(i) /\ ReadFirst(i)
  BY DEF Inv, LinesInv
<1>2. eofDue[i] > 0 /\ inbuf[i] = << >> /\ readDue = {}
  BY DEF EofHandler, TimersRun, ReadsRun, SignalsRun, InCallback
<1>3. out[i] = << >>
  BY <1>1, <1>2 DEF ReadFirst
<1>4. /\ eofDue' = [eofDue EXCEPT ![i] = @ - 1]
      /\ UNCHANGED <<inbuf, out, startDue, readDue, hit>>
  BY DEF EofHandler
<1>5. \A j \in Input : j # i => matched'[j] = matched[j] /\ eofDue'[j] = eofDue[j]
  BY <1>1 DEF EofHandler, TypeOK
<1>6. \A j \in Input : j # i => done'[j] = done[j] /\ startWait'[j] = startWait[j]
  BY <1>1 DEF EofHandler, EndOrRestart, TypeOK
<1>7. done'[i] \/ startWait'[i] > 0
  BY <1>1 DEF EofHandler, EndOrRestart, TypeOK
<1>8. ASSUME NEW j \in Input, j # i
      PROVE  (OutFits(j) /\ ReadFirst(j) /\ NothingUnread(j) /\ Judged(j))'
  BY <1>4, <1>5, <1>6, <1>8 DEF LinesInv, OutFits, ReadFirst, NothingUnread, Judged
<1>9. (OutFits(i) /\ ReadFirst(i) /\ NothingUnread(i) /\ Judged(i))'
  BY <1>1, <1>2, <1>3, <1>4, <1>7 DEF OutFits, ReadFirst, NothingUnread, Judged
<1> QED BY <1>8, <1>9 DEF LinesInv

LEMMA LinesInvariance ==
  ASSUME ~RecyclesPids, Capacity <= Chunk
  PROVE  Spec => [](Inv /\ LinesInv)
<1>1. Inv /\ LinesInv /\ [Next]_vars => LinesInv'
  <2> SUFFICES ASSUME Inv, LinesInv, [Next]_vars
               PROVE  LinesInv'
    OBVIOUS
  <2>1. CASE Poll
    BY <2>1, ActivateLines DEF Poll
  <2>2. CASE PollInterrupted
    BY <2>2, ActivateLines DEF PollInterrupted
  <2>3. CASE LoopExit \/ LoopReturn \/ Tick \/ Returned \/ UNCHANGED vars
    BY <2>3, FrameLines DEF LoopExit, LoopReturn, Tick, Returned, vars, grokVars,
                            loopVars, envVars
  <2>4. CASE Sigchld
    BY <2>4, FrameLines DEF Sigchld, ScheduleEof
  <2>5. ASSUME NEW i \in Input, StdoutRead(i)
        PROVE  LinesInv'
    BY <2>5, StdoutReadLines
  <2>6. ASSUME NEW i \in Input, ExecLine(i)
        PROVE  LinesInv'
    BY <2>6, ExecLineLines
  <2>7. ASSUME NEW i \in Input, ProcessStart(i)
        PROVE  LinesInv'
    BY <2>7, ProcessStartLines
  <2>8. ASSUME NEW i \in Input, EofHandler(i)
        PROVE  LinesInv'
    BY <2>8, EofHandlerLines
  <2>9. ASSUME NEW p \in Pid, Write(p)
        PROVE  LinesInv'
    BY <2>9, WriteLines
  <2>10. ASSUME NEW p \in Pid, CommandExit(p) \/ ShellExit(p) \/ ShellDies(p)
         PROVE  LinesInv'
    BY <2>10, FrameLines DEF CommandExit, ShellExit, ShellDies, Exit, grokVars
  <2> QED
    BY <2>1, <2>2, <2>3, <2>4, <2>5, <2>6, <2>7, <2>8, <2>9, <2>10
    DEF Next, Grok, Environment
<1> QED BY <1>1, InitLines, Invariance, PTL DEF Spec

(* No output of a command is dropped when its pipe is closed, if one read of *)
(* a bufferevent takes all that fits in a pipe.                              *)
THEOREM NoLineLostHolds ==
  ASSUME ~RecyclesPids, Capacity <= Chunk
  PROVE  Spec => []NoLineLost
<1>1. LinesInv => NoLineLost
  BY DEF LinesInv, NothingUnread, NoLineLost
<1> QED BY <1>1, LinesInvariance, PTL

(* Under the same assumption, the no-match reaction is right about every run.*)
THEOREM NomatchIsRightHolds ==
  ASSUME ~RecyclesPids, Capacity <= Chunk
  PROVE  Spec => []NomatchIsRight
<1>1. Inv /\ LinesInv => NomatchIsRight
  <2> SUFFICES ASSUME Inv, LinesInv, NEW i \in Input, TimersRun, eofDue[i] > 0
               PROVE  matched[i] = hit[i]
    BY DEF NomatchIsRight
  <2>1. TypeOK /\ OneActivity /\ ReadFirst(i) /\ Judged(i)
    BY DEF Inv, LinesInv
  <2>2. Pending(i) > 0 /\ Pending(i) <= 1
    BY <2>1 DEF Pending, TypeOK, OneActivity
  <2>3. ~done[i]
    BY <2>1, <2>2 DEF OneActivity
  <2>4. startWait[i] = 0 /\ startDue[i] = 0
    BY <2>1, <2>2 DEF Pending, TypeOK
  <2>5. inbuf[i] = << >> /\ out[i] = << >>
    BY <2>1 DEF TimersRun, ReadsRun, SignalsRun, InCallback, ReadFirst
  <2>6. hit[i] <=> matched[i]
    BY <2>1, <2>3, <2>4, <2>5, NoneFires DEF Judged
  <2> QED BY <2>1, <2>6 DEF TypeOK
<1> QED BY <1>1, LinesInvariance, PTL

-----------------------------------------------------------------------------
(* The distance of two starts.  What an input has waited, and what is left   *)
(* of its delay, is at every moment of its cycle as long as it must be.      *)
Paced(i) ==
  /\ eofWait[i] > 0 \/ eofDue[i] > 0 =>
       (ShouldRestart(i) => age[i] + Delayed(restartDelay[i]) >= Horizon(i))
  /\ startWait[i] > 0 => age[i] + startIn[i] >= Horizon(i)
  /\ startDue[i] > 0 => age[i] >= Horizon(i)

PacedInv == \A i \in Input : Paced(i)

LEMMA OneOfFour ==
  \A a, b, c, d \in Nat : a + b + c + d <= 1 /\ d > 0 => a = 0 /\ b = 0 /\ c = 0 /\ d = 1
OBVIOUS

LEMMA HorizonType ==
  \A i \in Input : Horizon(i) \in Nat /\ MaxAge(i) \in Nat /\ MaxAge(i) >= Horizon(i)
BY InputOptions DEF Horizon, MaxAge, Larger

LEMMA InitPaced == Init => PacedInv
BY HorizonType DEF Init, Paced, PacedInv

LEMMA FramePaced ==
  ASSUME NEW i \in Input, Paced(i),
         eofWait'[i] = eofWait[i], eofDue'[i] = eofDue[i], startWait'[i] = startWait[i],
         startDue'[i] = startDue[i], startIn'[i] = startIn[i], age'[i] = age[i],
         restartDelay'[i] = restartDelay[i]
  PROVE  Paced(i)'
BY DEF Paced

LEMMA ActivatePaced ==
  ASSUME TypeOK, NEW i \in Input, Paced(i), IterationEnd, NEW ready, Activate(ready)
  PROVE  Paced(i)'
<1>1. /\ eofWait'[i] = 0 /\ eofDue'[i] = eofWait[i]
      /\ startDue'[i] = IF StartReady(i) THEN startWait[i] ELSE 0
      /\ startWait'[i] = IF StartReady(i) THEN 0 ELSE startWait[i]
      /\ UNCHANGED <<startIn, age, restartDelay>>
  BY DEF Activate, grokVars, envVars
<1>2. age[i] \in Nat /\ startIn[i] \in Nat /\ startWait[i] \in Nat
  BY DEF TypeOK
<1>3. StartReady(i) => age[i] >= Horizon(i)
  BY <1>2, HorizonType DEF Paced, StartReady
<1> QED BY <1>1, <1>2, <1>3 DEF Paced

LEMMA TickPaced ==
  ASSUME TypeOK, NEW i \in Input, Paced(i), Tick
  PROVE  Paced(i)'
<1>1. /\ age'[i] = Smaller(age[i] + 1, MaxAge(i))
      /\ startIn'[i] = Larger(0, startIn[i] - 1)
      /\ UNCHANGED <<eofWait, eofDue, startWait, startDue, restartDelay>>
  BY DEF Tick, grokVars
<1>2. age[i] \in Nat /\ startIn[i] \in Nat /\ Delayed(restartDelay[i]) \in Nat
  BY DEF TypeOK, Delayed, Larger
<1>3. Horizon(i) \in Nat /\ MaxAge(i) \in Nat /\ MaxAge(i) >= Horizon(i)
  BY HorizonType
<1>4. age'[i] >= Horizon(i) \/ age'[i] = age[i] + 1
  BY <1>1, <1>2, <1>3 DEF Smaller
<1>5. startIn'[i] \in Nat /\ startIn'[i] >= startIn[i] - 1
  BY <1>1, <1>2 DEF Larger
<1>a. age'[i] \in Nat
  BY <1>1, <1>2, <1>3 DEF Smaller
<1>6. \A d \in Nat : age[i] + d >= Horizon(i) => age'[i] + d >= Horizon(i)
  BY <1>2, <1>3, <1>4, <1>a
<1>7. age[i] >= Horizon(i) => age'[i] >= Horizon(i)
  BY <1>2, <1>3, <1>4, <1>a
<1>8. age[i] + startIn[i] >= Horizon(i) => age'[i] + startIn'[i] >= Horizon(i)
  BY <1>2, <1>3, <1>4, <1>5, <1>a
<1> QED BY <1>1, <1>2, <1>6, <1>7, <1>8 DEF Paced

LEMMA SigchldPaced ==
  ASSUME TypeOK, NEW i \in Input, Paced(i), Sigchld
  PROVE  Paced(i)'
<1>1. UNCHANGED <<eofDue, startWait, startDue, startIn, age>>
  BY DEF Sigchld, ScheduleEof
<1>2. CASE pid[i] \in Zombies
  <2>1. restartDelay'[i] = IF ShouldRestart(i) THEN RestartDelay(i) ELSE restartDelay[i]
    BY <1>2 DEF Sigchld
  <2>2. /\ age[i] \in Nat /\ RunInterval[i] \in Nat /\ MinRestartDelay[i] \in Nat
    BY InputOptions DEF TypeOK
  <2>3. age[i] + Delayed(RestartDelay(i)) >= Horizon(i)
    BY <2>2 DEF Delayed, RestartDelay, Horizon, Larger
  <2> QED BY <1>1, <2>1, <2>3 DEF Paced
<1>3. CASE pid[i] \notin Zombies
  <2>1. restartDelay'[i] = restartDelay[i]
    BY <1>3 DEF Sigchld
  <2>2. eofWait'[i] = eofWait[i]
    BY <1>3 DEF Sigchld, ScheduleEof, TypeOK
  <2> QED BY <1>1, <2>1, <2>2, FramePaced
<1> QED BY <1>2, <1>3

LEMMA ProcessStartPaced ==
  ASSUME Inv, NEW i \in Input, Paced(i), NEW j \in Input, ProcessStart(j)
  PROVE  Paced(i)'
<1>1. UNCHANGED <<eofWait, eofDue, startWait, startIn, restartDelay>>
  BY DEF ProcessStart
<1>2. CASE i = j
  <2>1. TypeOK /\ Pending(i) <= 1
    BY DEF Inv, OneActivity
  <2>c. startDue[i] > 0
    BY <1>2 DEF ProcessStart
  <2>a. eofWait[i] \in Nat /\ eofDue[i] \in Nat /\ startWait[i] \in Nat /\ startDue[i] \in Nat
    BY <2>1 DEF TypeOK
  <2>b. eofWait[i] + eofDue[i] + startWait[i] + startDue[i] <= 1
    BY <2>1 DEF Pending
  <2>2. eofWait[i] = 0 /\ eofDue[i] = 0 /\ startWait[i] = 0 /\ startDue[i] = 1
    BY <2>a, <2>b, <2>c, OneOfFour
  <2>3. startDue'[i] = 0
    BY <1>2, <2>1, <2>2 DEF ProcessStart, TypeOK
  <2> QED BY <1>1, <2>2, <2>3 DEF Paced
<1>3. CASE i # j
  BY <1>1, <1>3, FramePaced DEF ProcessStart, Inv, TypeOK
<1> QED BY <1>2, <1>3

LEMMA EofHandlerPaced ==
  ASSUME TypeOK, NEW i \in Input, Paced(i), NEW j \in Input, EofHandler(j)
  PROVE  Paced(i)'
<1>1. UNCHANGED <<eofWait, startDue, age, restartDelay>>
  BY DEF EofHandler
<1>2. CASE i # j
  BY <1>1, <1>2, FramePaced DEF EofHandler, EndOrRestart, TypeOK
<1>3. CASE i = j
  <2>1. eofDue[i] > 0 /\ eofDue'[i] = eofDue[i] - 1
    BY <1>3 DEF EofHandler, TypeOK
  <2>2. CASE ShouldRestart(i)
    <3>1. startIn'[i] = Delayed(restartDelay[i])
      BY <1>3, <2>2 DEF EofHandler, EndOrRestart, TypeOK
    <3> QED BY <1>1, <2>1, <2>2, <3>1 DEF Paced
  <2>3. CASE ~ShouldRestart(i)
    <3>0. EndOrRestart(i)
      BY <1>3 DEF EofHandler
    <3>1. startIn' = startIn /\ startWait' = startWait
      BY <2>3, <3>0 DEF EndOrRestart
    <3> QED BY <1>1, <2>3, <3>1 DEF Paced
  <2> QED BY <2>2, <2>3
<1> QED BY <1>2, <1>3

LEMMA PacedInvariance ==
  ASSUME ~RecyclesPids
  PROVE  Spec => [](Inv /\ PacedInv)
<1>1. Inv /\ PacedInv /\ [Next]_vars => PacedInv'
  <2> SUFFICES ASSUME Inv, [Next]_vars, NEW i \in Input, Paced(i)
               PROVE  Paced(i)'
    BY DEF PacedInv
  <2>0. TypeOK
    BY DEF Inv
  <2>1. CASE Poll \/ PollInterrupted
    BY <2>0, <2>1, ActivatePaced DEF Poll, PollInterrupted
  <2>2. CASE LoopExit \/ LoopReturn \/ Returned \/ UNCHANGED vars
    BY <2>2, FramePaced DEF LoopExit, LoopReturn, Returned, vars, grokVars, loopVars, envVars
  <2>3. CASE Tick
    BY <2>0, <2>3, TickPaced
  <2>4. CASE Sigchld
    BY <2>0, <2>4, SigchldPaced
  <2>5. ASSUME NEW j \in Input, StdoutRead(j) \/ ExecLine(j)
        PROVE  Paced(i)'
    BY <2>5, FramePaced DEF StdoutRead, ExecLine, loopVars
  <2>6. ASSUME NEW j \in Input, ProcessStart(j)
        PROVE  Paced(i)'
    BY <2>6, ProcessStartPaced
  <2>7. ASSUME NEW j \in Input, EofHandler(j)
        PROVE  Paced(i)'
    BY <2>0, <2>7, EofHandlerPaced
  <2>8. ASSUME NEW p \in Pid, Write(p) \/ CommandExit(p) \/ ShellExit(p) \/ ShellDies(p)
        PROVE  Paced(i)'
    BY <2>8, FramePaced DEF Write, CommandExit, ShellExit, ShellDies, Exit, grokVars, loopVars
  <2> QED
    BY <2>1, <2>2, <2>3, <2>4, <2>5, <2>6, <2>7, <2>8 DEF Next, Grok, Environment
<1> QED BY <1>1, InitPaced, Invariance, PTL DEF Spec

(* Two starts of an input are run-interval and minimum-restart-delay apart,  *)
(* whatever is left of the interval when its command dies.                   *)
THEOREM StartsApartHolds ==
  ASSUME ~RecyclesPids
  PROVE  Spec => StartsApart
<1>1. PacedInv => [\A i \in Input : ProcessStart(i) => age[i] >= Horizon(i)]_vars
  <2>1. ASSUME NEW i \in Input, ProcessStart(i)
        PROVE  startDue[i] > 0
    BY <2>1 DEF ProcessStart
  <2> QED BY <2>1 DEF PacedInv, Paced
<1> QED BY <1>1, PacedInvariance, PTL DEF StartsApart
=============================================================================
