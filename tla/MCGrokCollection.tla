-------------------------- MODULE MCGrokCollection --------------------------
(* Instances of GrokCollection for TLC.  Blocks 1, 2, 3 are match blocks in  *)
(* the order of the config file; a and b are commands, P and Q programs.     *)
EXTENDS GrokCollection, TLC

CONSTANTS a, b, P, Q

Never == [x \in {a, b} |-> FALSE]
NoTime == [x \in {a, b} |-> 0]
NoStdout == [m \in 1..3 |-> FALSE]

\* Pair: one program whose two commands run once.  Block 1 reacts to matching
\* lines and stops the search; block 2 would match the same lines; block 3 is
\* the no-match block.
PairProgOf   == [x \in {a, b} \cup 1..3 |-> P]
PairNomatch  == [m \in 1..3 |-> m = 3]
PairBreak    == [m \in 1..3 |-> m = 1]
PairStdout   == [m \in 1..3 |-> m = 2]
PairLines    == (a :> {{}, {1, 2}}) @@ (b :> {{2}})

\* Mixed: program P runs a once and has block 1; program Q runs b every two
\* seconds, at least one second apart, and has blocks 2 and 3 (no-match), which
\* print.
MixedProgOf  == [x \in {a, 1} |-> P] @@ [x \in {b, 2, 3} |-> Q]
MixedBreak   == [m \in 1..3 |-> FALSE]
MixedStdout  == [m \in 1..3 |-> m # 1]
MixedMin     == (a :> 0) @@ (b :> 1)
MixedInterval == (a :> 0) @@ (b :> 2)
MixedLines   == (a :> {{1}}) @@ (b :> {{2}})

\* The next pid is the lowest that is free.  Pids are interchangeable in
\* GrokCollection, so this leaves out no behaviour but those that differ in the
\* names of the processes; symmetry would not do for liveness.
PidsInOrder ==
  \A p \in Pid : ~Exists(p) /\ Exists(p)' =>
    \A q \in FreePid : q < p => Exists(q)'
=============================================================================
