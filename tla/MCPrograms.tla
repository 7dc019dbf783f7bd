------------------------------- MODULE MCPrograms ----------------------------
(* Seven programs that have nothing to do with each other, each with its own *)
(* variables, checked one at a time: the first state picks one, and the       *)
(* others stay as they begin, where nothing of them has been started.         *)
EXTENDS GlobWatch, Channel, DxArgs, GrokExpand, BarberShop, FancyDB, Moused

VARIABLE program

programVars == <<program, globVars, channelVars, dxVars, expandVars, barberVars,
                 fancyVars, mouseVars>>

Init ==
  /\ program \in {"glob", "channel", "dxargs", "expand", "barber", "fancydb", "mouse"}
  /\ GlobInit /\ ChannelInit /\ DxInit /\ ExpandInit /\ BarberInit /\ FancyInit
  /\ MouseInit /\ (program = "mouse" \/ flags = {})

Next ==
  /\ UNCHANGED program
  /\ \/ /\ program = "glob" /\ GlobNext
        /\ UNCHANGED <<channelVars, dxVars, expandVars, barberVars, fancyVars, mouseVars>>
     \/ /\ program = "channel" /\ ChannelNext
        /\ UNCHANGED <<globVars, dxVars, expandVars, barberVars, fancyVars, mouseVars>>
     \/ /\ program = "dxargs" /\ DxNext
        /\ UNCHANGED <<globVars, channelVars, expandVars, barberVars, fancyVars, mouseVars>>
     \/ /\ program = "expand" /\ ExpandNext
        /\ UNCHANGED <<globVars, channelVars, dxVars, barberVars, fancyVars, mouseVars>>
     \/ /\ program = "barber" /\ BarberNext
        /\ UNCHANGED <<globVars, channelVars, dxVars, expandVars, fancyVars, mouseVars>>
     \/ /\ program = "fancydb" /\ FancyNext
        /\ UNCHANGED <<globVars, channelVars, dxVars, expandVars, barberVars, mouseVars>>
     \/ /\ program = "mouse" /\ MouseNext
        /\ UNCHANGED <<globVars, channelVars, dxVars, expandVars, barberVars, fancyVars>>

Spec == /\ Init /\ [][Next]_programVars
        /\ GlobFair /\ ChannelFair /\ DxFair /\ ExpandFair /\ BarberFair /\ FancyFair
        /\ MouseFair

(* Every variable of the seven programs has its type (the types their code   *)
(* declares or gives it in its first assignment).                             *)
TypesOK == GlobTypeOK /\ ChannelTypeOK /\ DxTypeOK /\ ExpandTypeOK /\ BarberTypeOK
           /\ FancyTypeOK /\ MouseTypeOK

-----------------------------------------------------------------------------
(* Patterns with references in references, with a group, a predicate and a    *)
(* subname inside, and a name nobody defined; inputs of up to four tokens.   *)
SomePatterns ==
  [WORD |-> <<Text>>,
   PAIR |-> <<Ref("WORD", None, None), Left, Ref("WORD", ">1", "sub"), Right>>,
   LINE |-> <<Ref("PAIR", "<2", None), Ref("NONE", None, None)>>]

Tokens == {Text, Left, Right, Ref("WORD", "<2", "sub"), Ref("PAIR", None, None),
           Ref("LINE", ">1", "top"), Ref("NONE", ">1", None)}

SomeInputs == {s \in UNION {[1..n -> Tokens] : n \in 1..4} : Closed(s)}

Paths == {"p", "q"}

(* A rule that feeds another, and two by count in the place of that one; an   *)
(* hour of 2 microseconds, so that 1.5 seconds have the key 3, in 2..4, and    *)
(* are in the range 0..2.                                                      *)
FancyRule(source, target, type, steps, step_type) ==
  [source |-> source, target |-> target, type |-> type, steps |-> steps, step_type |-> step_type]

SomeRules ==
  {FancyRule("minute", "hour", "average", 1, "time"), FancyRule("hour", "day", "last", 4, "time"),
   FancyRule("hour", "day", "last", 1, "count"), FancyRule("minute", "day", "last", 1, "count")}

Given(micro, float, isText) == [micro |-> micro, float |-> float, text |-> isText]

SomeUpdates == {Given(1, FALSE, TRUE), Given(2, FALSE, FALSE), Given(3, TRUE, FALSE)}

InputRows == {"minute"}
=============================================================================
