------------------------------- MODULE GrokExpand ----------------------------
(* How grok compiles a pattern (grokre.c): every %{NAME} of a known pattern   *)
(* becomes a named group around the text of that pattern, from where the      *)
(* search goes on, so that what it refers to is expanded too.  A reference    *)
(* with a predicate gets a callout behind its group; when libpcre calls it,   *)
(* grok finds the predicate by the number of the group that closed last.      *)
(*                                                                            *)
(* A text is a sequence of tokens: what grok does not look at is "text".      *)
(* Captures are numbered from 1: "doesn't really matter what this is".        *)
EXTENDS Naturals, Sequences, FiniteSetsExt

CONSTANTS
  Patterns,   \* Patterns[name]: the text of a named pattern
  Inputs      \* the patterns a program may give

None == ""
Text  == [is |-> "text"]
Left  == [is |-> "("]
Right == [is |-> ")"]
Ref(name, predicate, subname) ==
  [is |-> "ref", name |-> name, predicate |-> predicate, subname |-> subname]
Opening(id)  == [is |-> "open", id |-> id]
Closing(id) == [is |-> "close", id |-> id]
Callout   == [is |-> "callout"]

(* What is written in a pattern; a group that begins in it ends in it.        *)
Texts == Inputs \cup {Patterns[name] : name \in DOMAIN Patterns}
Written(token) ==
  token \in {Text, Left, Right} \/ token = Ref(token.name, token.predicate, token.subname)
Among(s, n, token) == {i \in 1..n : s[i] = token}
Closed(s) ==
  /\ Cardinality(Among(s, Len(s), Left)) = Cardinality(Among(s, Len(s), Right))
  /\ \A n \in 1..Len(s) : Cardinality(Among(s, n, Right)) <= Cardinality(Among(s, n, Left))

ASSUME ExpandTexts ==
  \A s \in Texts :
    /\ s \in Seq({s[i] : i \in 1..Len(s)})
    /\ \A i \in 1..Len(s) : Written(s[i])
    /\ Closed(s)

VARIABLES
  phase,      \* "idle", "expands", "crashed", "expanded", "ready"
  given,      \* the pattern to compile
  text,       \* full_pattern
  offset,     \* where the search for references goes on
  captures    \* captures[id]: the reference, and the number of its group or 0

expandVars == <<phase, given, text, offset, captures>>

ExpandTypeOK ==
  /\ phase \in {"idle", "expands", "crashed", "expanded", "ready"}
  /\ given \in Inputs \cup {<< >>}
  /\ \A i \in 1..Len(text) :
       \/ text[i] \in {Text, Left, Right, Callout} \/ text[i].is = "ref"
       \/ text[i].is \in {"open", "close"} /\ text[i].id \in 1..Len(captures)
  /\ offset \in 1..Len(text) + 1
  /\ \A id \in 1..Len(captures) : captures[id].number \in 0..Len(text)

ExpandInit ==
  /\ phase = "idle" /\ given = << >> /\ text = << >> /\ offset = 1 /\ captures = << >>

-----------------------------------------------------------------------------
(* grok_compilen.                                                             *)

Compile ==
  /\ phase = "idle" /\ phase' = "expands"
  /\ \E pattern \in Inputs : given' = pattern /\ text' = pattern
  /\ offset' = 1 /\ captures' = << >>

Found == {i \in offset..Len(text) : text[i].is = "ref"}
At == Min(Found)

\* mutant: looks for the same reference again
SkipNothing(at) == at
Skip(at) == at + 1

(* A name that is no pattern stays as it is.                                  *)
ExpandUnknown ==
  /\ phase = "expands" /\ Found # {} /\ text[At].name \notin DOMAIN Patterns
  /\ offset' = Skip(At)
  /\ UNCHANGED <<phase, given, text, captures>>

(* captures_by_subname takes a subname once: the second is an error, and the  *)
(* regexp that is compiled a null pointer.                                    *)
Refused(ref) == ref.subname # None /\ \E id \in 1..Len(captures) : captures[id].ref.subname = ref.subname

\* mutant: the callout is asked for by the pattern, inside the group
GroupCalls(ref, id) ==
  <<Opening(id)>> \o Patterns[ref.name]
    \o (IF ref.predicate = None THEN <<Closing(id)>> ELSE <<Callout, Closing(id)>>)
Group(ref, id) ==
  <<Opening(id)>> \o Patterns[ref.name] \o <<Closing(id)>>
    \o (IF ref.predicate = None THEN << >> ELSE <<Callout>>)

\* mutant: goes on behind what was put in
After(at, new) == at + Len(new)
Restart(at, new) == at

ExpandKnown ==
  /\ phase = "expands" /\ Found # {} /\ text[At].name \in DOMAIN Patterns
  /\ LET ref == text[At]
         new == Group(ref, Len(captures) + 1) IN
       IF Refused(ref)
         THEN phase' = "crashed" /\ UNCHANGED <<text, offset, captures>>
         ELSE /\ captures' = Append(captures, [ref |-> ref, number |-> 0])
              /\ text' = SubSeq(text, 1, At - 1) \o new \o SubSeq(text, At + 1, Len(text))
              /\ offset' = Restart(At, new)
              /\ UNCHANGED phase
  /\ UNCHANGED given

Expanded ==
  /\ phase = "expands" /\ Found = {}
  /\ phase' = "expanded" /\ UNCHANGED <<given, text, offset, captures>>

(* libpcre numbers the groups as they open, those of the user too.            *)
Begins(p) == text[p].is \in {"(", "open"}
GroupNumber(p) == Cardinality({q \in 1..p : Begins(q)})

OpenAt(id)  == CHOOSE p \in 1..Len(text) : text[p] = Opening(id)
CloseAt(id) == CHOOSE p \in 1..Len(text) : text[p] = Closing(id)

\* mutant: counts grok's own groups
StudiedOwn(id) == id
Studied(id) == GroupNumber(OpenAt(id))

(* grok_study_capture_map.                                                    *)
Study ==
  /\ phase = "expanded" /\ phase' = "ready"
  /\ captures' = [id \in 1..Len(captures) |-> [captures[id] EXCEPT !.number = Studied(id)]]
  /\ UNCHANGED <<given, text, offset>>

ExpandNext == Compile \/ ExpandUnknown \/ ExpandKnown \/ Expanded \/ Study

(* grok_compilen is one call that nothing interrupts.                         *)
ExpandFair == WF_expandVars(ExpandUnknown \/ ExpandKnown \/ Expanded \/ Study)

ExpandSpec == ExpandInit /\ [][ExpandNext]_expandVars /\ ExpandFair

-----------------------------------------------------------------------------
(* The captures whose number the callout at p asks for: that of the group     *)
(* that closed last (grok_pcre_callout).                                      *)
Ends(p) == text[p].is \in {")", "close"}
Balanced(lo, hi) ==
  Cardinality({p \in lo..hi : Begins(p)}) = Cardinality({p \in lo..hi : Ends(p)})
Judges(p) ==
  {id \in 1..Len(captures) : \E e \in 1..p - 1 :
     /\ Ends(e) /\ \A later \in e + 1..p - 1 : ~Ends(later)
     /\ captures[id].number = GroupNumber(Max({q \in 1..e : Balanced(q, e)}))}

(* Once it is compiled, every callout runs the predicate that was written     *)
(* with the reference in whose place the group before it stands, and every    *)
(* predicate has its callout (grokre.c: grok_pattern_expand; grok.c).         *)
GrokJudges ==
  phase = "ready" =>
    /\ \A p \in 1..Len(text) : text[p] = Callout =>
         \E id \in 1..Len(captures) :
           Judges(p) = {id} /\ captures[id].ref.predicate # None /\ CloseAt(id) = p - 1
    /\ \A id \in 1..Len(captures) : captures[id].ref.predicate # None =>
         CloseAt(id) < Len(text) /\ text[CloseAt(id) + 1] = Callout

(* The tokens between two positions when every group of a capture in between  *)
(* is folded to the reference it stands for; they are s.                      *)
Inner(lo, hi) == {id \in 1..Len(captures) : lo < OpenAt(id) /\ CloseAt(id) < hi}
Shown(lo, hi) ==
  {p \in lo + 1..hi - 1 :
     /\ text[p].is \notin {"close", "callout"}
     /\ \A id \in Inner(lo, hi) : ~(OpenAt(id) < p /\ p < CloseAt(id))}
ShownAs(p) == IF text[p].is = "open" THEN captures[text[p].id].ref ELSE text[p]
Folds(lo, hi, s) ==
  /\ Cardinality(Shown(lo, hi)) = Len(s)
  /\ \A p \in Shown(lo, hi) : s[Cardinality({q \in Shown(lo, hi) : q <= p})] = ShownAs(p)

(* The text is the given one, with references replaced by exactly their       *)
(* patterns, at any depth; at the end only unknown names are left, and the    *)
(* captures are in the order in which their groups open.                      *)
GrokFolds ==
  /\ Folds(0, Len(text) + 1, given)
  /\ \A id \in 1..Len(captures) :
       /\ Folds(OpenAt(id), CloseAt(id), Patterns[captures[id].ref.name])
       /\ id > 1 => OpenAt(id - 1) < OpenAt(id)
  /\ phase \in {"expanded", "ready"} =>
       \A p \in 1..Len(text) : text[p].is = "ref" => text[p].name \notin DOMAIN Patterns

(* Patterns that do not refer to themselves are expanded and compiled in the   *)
(* end, unless a subname used twice makes the expansion fail (grokre.c:        *)
(* grok_pattern_expand, grok_capture_add).                                     *)
GrokExpandEnds == phase = "expands" ~> phase \in {"ready", "crashed"}
=============================================================================
