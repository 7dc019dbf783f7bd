------------------------------- MODULE FancyDB -------------------------------
(* stats/storageutils/fancydb.py over simpledb.py, as evtool.py uses it: one   *)
(* run of evtool is a session that opens the database, adds rules or sets      *)
(* rows, and closes it.  A rule aggregates the windows of one row into another *)
(* row; a thread of its own, the evaluator, does that.                         *)
(*                                                                             *)
(* An aggregate is kept as the set of timestamped values it was computed from. *)
(* A time is microseconds; evtool gives a number with a fraction (or exponent) *)
(* as a float, which SimpleDB takes for seconds and the rules for what it is.  *)
(* A value that evtool cannot read as a number is text.                        *)
(* The lock of the evaluator is only held inside a step.                       *)
EXTENDS Naturals, Sequences, FiniteSetsExt, SequencesExt

CONSTANTS Rule,          \* records: source, target (rows), type, steps (seconds), step_type
          InputRow,
          Update,        \* records: micro (the key of the time), float, text: as evtool reads them
          Second,        \* 1000000: microseconds
          Rounding,      \* by how much a float can miss in 2^63 - end: 512
          MaxSets, MaxSessions   \* bounds

ASSUME FancyConstants ==
  /\ Update \subseteq [micro : Nat, float : BOOLEAN, text : BOOLEAN]
  /\ MaxSets \in Nat /\ MaxSessions \in Nat
  /\ Second \in Nat \ {0} /\ Rounding \in 0..Second
  /\ \A r \in Rule : r.steps \in Nat \ {0} /\ r.target \notin InputRow

VARIABLES
  data,                  \* the records of the database: by row and time
  saved,                 \* the rules of the rule database, oldest first
  rules,                 \* the rules of this session
  writer, sessions, sets,
  evaluator,             \* where the thread is
  notifications, finish, \* what was notified and not taken; the event _done
  taken, last,           \* what Process still has to do; its run is the last
  window, cursor, seen,  \* the notification evaluated, how far it has read, what it saw
  tell,                  \* what the writer and the evaluator still have to notify
  owed,                  \* history: all windows that a rule was told of
  lost                   \* history: those an exception forgot and nobody told again

fancyVars == <<data, saved, rules, writer, sessions, sets, evaluator, notifications,
               finish, taken, last, window, cursor, seen, tell, owed, lost>>

dbVars == <<data, saved, rules, sessions, sets, owed>>
readVars == <<window, cursor, seen>>

Row == InputRow \cup {r.source : r \in Rule} \cup {r.target : r \in Rule}

(* GenerateDBKey takes a float for seconds; GetTimeRangeForTimestamp takes     *)
(* every time for microseconds, and the range of a float is floats.            *)
NumberOf(t) == IF t.float THEN t.micro \div Second ELSE t.micro
Window(r, t) ==
  LET period == r.steps * Second
      start == NumberOf(t) - (NumberOf(t) % period)
  IN [rule |-> r, start |-> start, end |-> start + period, float |-> t.float]

(* The time at the end of a window: what its result is set with.               *)
EndTime(w) == [micro |-> IF w.float THEN w.end * Second ELSE w.end, float |-> w.float]

(* A rule by count is no rule: RuleNotify raises an exception.                 *)
ByTime(r) == r.step_type = "time"
Windows(listeners) == {w \in {l.window : l \in listeners} : ByTime(w.rule)}

FancyTypeOK ==
  /\ \A at \in DOMAIN data : at \in Row \X Nat
  /\ ToSet(saved) \subseteq Rule /\ ToSet(rules) = ToSet(saved)
  /\ writer \in {"closed", "open", "tells", "closing", "finishes", "joins"}
  /\ sessions \in 0..MaxSessions /\ sets \in 0..MaxSets
  /\ evaluator \in {"off", "raised", "takes", "waits", "runs", "reads", "writes", "tells"}
  /\ finish \in BOOLEAN /\ last \in BOOLEAN /\ cursor \in Nat
  /\ notifications \cup taken \cup lost \subseteq owed
  /\ \A who \in {"writer", "evaluator"} : Windows(tell[who]) \subseteq owed

FancyInit ==
  /\ data = [at \in {} |-> {}] /\ saved = << >> /\ rules = << >>
  /\ writer = "closed" /\ sessions = 0 /\ sets = 0
  /\ evaluator = "off" /\ notifications = {} /\ finish = FALSE
  /\ taken = {} /\ last = FALSE /\ window = << >> /\ cursor = 0 /\ seen = {}
  /\ tell = [who \in {"writer", "evaluator"} |-> {}] /\ owed = {} /\ lost = {}

-----------------------------------------------------------------------------
(* Set of a row: the record is written, and then every rule on the row, in the *)
(* order of their listeners, is to be notified of its window.                  *)
Listeners(row, t) ==
  {[place |-> i, window |-> Window(rules[i], t)] : i \in {j \in DOMAIN rules : rules[j].source = row}}

StoreRow(who, row, t, value, text) ==
  LET key == <<row, t.micro>>
      record == [is |-> value, text |-> text, float |-> t.float]
  IN /\ data' = [at \in DOMAIN data \cup {key} |-> IF at = key THEN record ELSE data[at]]
     /\ tell' = [tell EXCEPT ![who] = Listeners(row, t)]
     /\ owed' = owed \cup Windows(Listeners(row, t))

IsFirst(l, who) == l \in tell[who] /\ \A other \in tell[who] : l.place <= other.place

(* EvaluatorNotify: nobody who waits is told.  0.0 is equal to 0: what is      *)
(* notified already stays as it was notified first.                            *)
NotifyEvaluator(who) == \E first \in tell[who] :
  LET w == first.window IN
  /\ IsFirst(first, who) /\ ByTime(w.rule)
  /\ notifications' = IF \E v \in notifications : [v EXCEPT !.float = w.float] = w
                        THEN notifications ELSE notifications \cup {w}
  /\ lost' = IF evaluator = "raised" THEN lost \cup {w} ELSE lost \ {w}
  /\ tell' = [tell EXCEPT ![who] = @ \ {first}]

(* The exception of a rule by count leaves Set, and who called it.             *)
RuleRaises(who) ==
  /\ \E first \in tell[who] : IsFirst(first, who) /\ ~ByTime(first.window.rule)
  /\ tell' = [tell EXCEPT ![who] = {}]

-----------------------------------------------------------------------------
(* main.                                                                         *)

(* A new FancyDB starts its thread and loads the rules, the newest first.      *)
OpenDB ==
  /\ writer = "closed" /\ sessions < MaxSessions
  /\ writer' = "open" /\ sessions' = sessions + 1
  /\ rules' = Reverse(saved)
  /\ evaluator' = "takes" /\ notifications' = {} /\ finish' = FALSE
  /\ UNCHANGED <<data, saved, sets, owed, lost, taken, last, readVars, tell>>

(* A second rule for the same target is refused.                               *)
AddRule(r) ==
  /\ writer = "open" /\ \A q \in ToSet(rules) : q.target # r.target
  /\ rules' = Append(rules, r) /\ saved' = Append(saved, r)
  /\ UNCHANGED <<data, writer, sessions, sets, evaluator, notifications, finish, taken, last,
                 readVars, tell, owed, lost>>

SetRow(row, update) ==
  /\ writer = "open" /\ sets < MaxSets
  /\ StoreRow("writer", row, update, sets, update.text) /\ sets' = sets + 1 /\ writer' = "tells"
  /\ UNCHANGED <<saved, rules, sessions, evaluator, notifications, finish, taken, last, readVars,
                 lost>>

MainNotifies ==
  /\ writer = "tells"
  /\ \/ NotifyEvaluator("writer") /\ UNCHANGED writer
     \/ tell["writer"] = {} /\ writer' = "open" /\ UNCHANGED <<tell, notifications, lost>>
  /\ UNCHANGED <<dbVars, evaluator, finish, taken, last, readVars>>

(* evtool closes the database also when Set raised.                            *)
MainRaises ==
  /\ writer = "tells" /\ RuleRaises("writer") /\ writer' = "closing"
  /\ lost' = lost \cup Windows(tell["writer"])
  /\ UNCHANGED <<dbVars, evaluator, notifications, finish, taken, last, readVars>>

(* Close: Finish, and up to a second of join, for as long as the thread lives. *)
IsAlive == evaluator \notin {"off", "raised"}

CloseDB ==
  /\ writer = "open" /\ writer' = "closing"
  /\ UNCHANGED <<dbVars, evaluator, notifications, finish, taken, last, readVars, tell, lost>>

FinishSets ==
  /\ writer = "closing" /\ IsAlive
  /\ finish' = TRUE /\ writer' = "finishes"
  /\ UNCHANGED <<dbVars, evaluator, notifications, taken, last, readVars, tell, lost>>

\* mutant: Finish sets the event and wakes nobody
Unwoken == evaluator
Woken == IF evaluator = "waits" THEN "takes" ELSE evaluator

FinishNotifies ==
  /\ writer = "finishes" /\ evaluator' = Woken /\ writer' = "joins"
  /\ UNCHANGED <<dbVars, notifications, finish, taken, last, readVars, tell, lost>>

JoinReturns ==
  /\ writer = "joins" /\ writer' = IF IsAlive THEN "closing" ELSE "closed"
  /\ UNCHANGED <<dbVars, evaluator, notifications, finish, taken, last, readVars, tell, lost>>

AllClosed ==
  /\ writer = "closing" /\ ~IsAlive /\ writer' = "closed"
  /\ UNCHANGED <<dbVars, evaluator, notifications, finish, taken, last, readVars, tell, lost>>

-----------------------------------------------------------------------------
(* The evaluator.                                                              *)

\* mutant: the thread ends as soon as it is told to, whatever it has taken
LastAtOnce == finish
LastRun == notifications = {} /\ finish

(* It takes all there is, or waits until somebody wakes it.                    *)
Take ==
  /\ evaluator = "takes"
  /\ IF notifications = {} /\ ~finish
       THEN evaluator' = "waits" /\ UNCHANGED <<notifications, taken, last>>
       ELSE /\ evaluator' = "runs" /\ last' = LastRun
            /\ taken' = notifications /\ notifications' = {}
  /\ UNCHANGED <<dbVars, writer, finish, readVars, tell, lost>>

(* EvaluateTime reads the source row backwards from the end of the window, or  *)
(* from a little before it when the end is a float.                            *)
Begin(w) ==
  /\ evaluator = "runs" /\ w \in taken
  /\ evaluator' = "reads" /\ taken' = taken \ {w}
  /\ window' = w /\ seen' = {}
  /\ \E missed \in (IF w.float THEN 0..Rounding ELSE {0}) : cursor' = w.end + 1 - missed
  /\ UNCHANGED <<dbVars, writer, notifications, finish, last, tell, lost>>

(* A step of the cursor.  Both ends belong to the range it is given.           *)
Read ==
  LET ahead == {t \in window.start..window.end : t < cursor /\ <<window.rule.source, t>> \in DOMAIN data}
  IN /\ evaluator = "reads"
     /\ IF ahead = {}
          THEN evaluator' = (IF seen = {} THEN "runs" ELSE "writes") /\ cursor' = 0 /\ UNCHANGED seen
          ELSE /\ cursor' = Max(ahead) /\ UNCHANGED evaluator
               /\ seen' = seen \cup {<<Max(ahead), data[<<window.rule.source, Max(ahead)>>]>>}
     /\ UNCHANGED <<dbVars, writer, notifications, finish, taken, last, window, tell, lost>>

(* The Compute functions: those of numpy want numbers; ComputeRate takes text  *)
(* that is not the newest for a counter that began anew.                       *)
Newest(values) == CHOOSE e \in values : \A other \in values : other[1] <= e[1]
IsText(e) == e[2].text
Fails(r, values) ==
  CASE r.type = "last" -> FALSE
    [] r.type = "rate" -> Cardinality(values) > 1 /\ IsText(Newest(values))
    [] OTHER           -> \E e \in values : IsText(e)

(* The result is the value of the target row at the end of the window.         *)
WriteResult ==
  /\ evaluator = "writes" /\ ~Fails(window.rule, seen)
  /\ StoreRow("evaluator", window.rule.target, EndTime(window), seen,
              window.rule.type = "last" /\ IsText(Newest(seen)))
  /\ evaluator' = "tells" /\ window' = << >> /\ seen' = {}
  /\ UNCHANGED <<saved, rules, writer, sessions, sets, notifications, finish, taken, last, cursor,
                 lost>>

(* An exception ends the thread, with all it has taken; Close does not notice. *)
EvaluatorRaises ==
  /\ \/ evaluator = "writes" /\ Fails(window.rule, seen) /\ UNCHANGED tell
     \/ evaluator = "tells" /\ RuleRaises("evaluator")
  /\ evaluator' = "raised" /\ taken' = {} /\ last' = FALSE /\ window' = << >> /\ seen' = {}
  /\ lost' = lost \cup notifications \cup taken \cup Windows(tell["evaluator"])
                  \cup (IF evaluator = "writes" THEN {window} ELSE {})
  /\ UNCHANGED <<dbVars, writer, notifications, finish, cursor>>

EvaluatorNotifies ==
  /\ evaluator = "tells"
  /\ \/ NotifyEvaluator("evaluator") /\ UNCHANGED evaluator
     \/ tell["evaluator"] = {} /\ evaluator' = "runs" /\ UNCHANGED <<tell, notifications, lost>>
  /\ UNCHANGED <<dbVars, writer, finish, taken, last, readVars>>

(* The end of a turn of run: the thread ends, or pauses and looks again.       *)
EndRun ==
  /\ evaluator = "runs" /\ taken = {}
  /\ evaluator' = (IF last THEN "off" ELSE "takes") /\ last' = FALSE
  /\ UNCHANGED <<dbVars, writer, notifications, finish, taken, readVars, tell, lost>>

-----------------------------------------------------------------------------
MainGoesOn == MainNotifies \/ MainRaises \/ FinishSets \/ FinishNotifies \/ JoinReturns \/ AllClosed
Evaluates ==
  \/ Take \/ (\E w \in taken : Begin(w)) \/ Read \/ WriteResult
  \/ EvaluatorNotifies \/ EvaluatorRaises \/ EndRun

FancyNext ==
  \/ OpenDB \/ CloseDB \/ MainGoesOn \/ Evaluates
  \/ \E r \in Rule : AddRule(r)
  \/ \E row \in InputRow, update \in Update : SetRow(row, update)

(* Both threads run; nobody has to set a row or to end a session.              *)
FancyFair == WF_fancyVars(MainGoesOn) /\ WF_fancyVars(Evaluates)

FancySpec == FancyInit /\ [][FancyNext]_fancyVars /\ FancyFair

-----------------------------------------------------------------------------
(* The times at which the source row of a window has a value.                 *)
Times(w) == {t \in w.start..(w.end - 1) : <<w.rule.source, t>> \in DOMAIN data}

(* No float touched a window: none told of it, and none set what is in it ...  *)
Untouched(w) ==
  /\ ~w.float /\ [w EXCEPT !.float = TRUE] \notin owed
  /\ \A t \in Times(w) : ~data[<<w.rule.source, t>>].float

(* ... or where its result goes.                                              *)
Clear(w) ==
  LET at == <<w.rule.target, w.end>>
  IN Untouched(w) /\ (at \in DOMAIN data => ~data[at].float)

(* When a session is over every window that got a value under a rule, in this  *)
(* or an earlier session, has its aggregate, and that was computed from exactly *)
(* the values the window has, those of rules that feed rules too               *)
(* (fancydb.py: run, Process, Set, Close) - unless a float time had a part in  *)
(* it, or an exception forgot it, in the evaluator or in main, and no later    *)
(* value told a living evaluator of it.  The range read also holds the first   *)
(* instant of the next window: what was seen there is not compared.            *)
FancyAggregates ==
  writer = "closed" =>
    \A w \in owed : Clear(w) /\ w \notin lost =>
      LET at == <<w.rule.target, w.end>>
      IN /\ at \in DOMAIN data
         /\ {e \in data[at].is : e[1] # w.end} = {<<t, data[<<w.rule.source, t>>]>> : t \in Times(w)}

(* Close returns, when no rule feeds itself: the evaluator is not left asleep  *)
(* with the event set, and what it computes comes to an end (fancydb.py: run,  *)
(* Finish, Close).                                                             *)
FancyCloses == writer = "closing" ~> writer = "closed"
=============================================================================
