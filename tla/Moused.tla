------------------------------- MODULE Moused --------------------------------
(* moused of moused-vscroll (moused.c): the loop that turns what a mouse      *)
(* reports into the buttons that the console is told, with the emulation of   *)
(* the middle button by the two others (-3) and the scrolling with the middle *)
(* button that this copy of moused adds (-V).                                 *)
(*                                                                            *)
(* A packet of the mouse gives the buttons that are down and whether it was   *)
(* moved.  How far, how it is encoded, how often a button was clicked, and    *)
(* what maps buttons to others (-m, -z, -w, not given here) are left out.  So *)
(* is scroll_movement: what is made of it, a movement of the wheel, is stored *)
(* after the event was sent.                                                  *)
EXTENDS Integers

CONSTANT MaxMove   \* BUTTON2_MAXMOVE

ASSUME MousedConstants == MaxMove \in Nat

VARIABLES
  flags,          \* the options given, and "extioctl" if the console has it
  pressed,        \* action0.button: the buttons that are down
  action,         \* action.button: the buttons after the emulation
  mouse_state,    \* the state of the emulation, S0 to S9
  move_delayed,   \* movements thrown away in it
  late,           \* it is longer than the timeout in that state
  scroll_state,
  console         \* the buttons that are down as the console was told

mouseVars == <<flags, pressed, action, mouse_state, move_delayed, late, scroll_state, console>>

Button == 1..3
MouseFlags == {"Emulate3Button", "VirtualScroll", "extioctl"}

MouseTypeOK ==
  /\ flags \subseteq MouseFlags
  /\ pressed \subseteq Button /\ action \subseteq Button /\ console \subseteq Button
  /\ mouse_state \in 0..9 /\ move_delayed \in 0..MaxMove /\ late \in BOOLEAN
  /\ scroll_state \in {"notscrolling", "prepare", "scrolling"}

MouseInit ==
  /\ flags \in SUBSET MouseFlags
  /\ pressed = {} /\ action = {} /\ console = {}
  /\ mouse_state = 0 /\ move_delayed = 0 /\ late = FALSE
  /\ scroll_state = "notscrolling"

Emulates == "Emulate3Button" \in flags
Scrolls  == "VirtualScroll" \in flags
Differ(s, t) == (s \ t) \cup (t \ s)

-----------------------------------------------------------------------------
(* The emulation: a button is not told at once, for if the other one follows  *)
(* within the timeout it was the middle one.                                  *)

St(s, buttons, timeout) == [s |-> s, buttons |-> buttons, timeout |-> timeout]

(* Where a state goes when neither, the third, the first or both buttons are  *)
(* down and on timeout; what it tells; whether it times out at once.          *)
States ==
  [n \in 0..9 |->
    <<St(<<0, 2, 1, 3, 0>>, {}, FALSE),       \* start
      St(<<4, 2, 1, 3, 5>>, {}, FALSE),       \* button 1 delayed down
      St(<<8, 2, 1, 3, 6>>, {}, FALSE),       \* button 3 delayed down
      St(<<0, 9, 9, 3, 3>>, {2}, FALSE),      \* both down: button 2 down
      St(<<0, 2, 1, 3, 0>>, {1}, TRUE),       \* button 1 delayed up
      St(<<0, 2, 5, 7, 5>>, {1}, FALSE),      \* button 1 down
      St(<<0, 6, 1, 7, 6>>, {3}, FALSE),      \* button 3 down
      St(<<0, 6, 5, 7, 7>>, {1, 3}, FALSE),   \* both down
      St(<<0, 2, 1, 3, 0>>, {3}, TRUE),       \* button 3 delayed up
      St(<<0, 9, 9, 3, 9>>, {}, FALSE)>>[n + 1]]   \* one up after both

A(buttons) == 1 + (IF 1 \in buttons THEN 2 ELSE 0) + (IF 3 \in buttons THEN 1 ELSE 0)
A_TIMEOUT == 5
Delayed(n) == States[n].s[A_TIMEOUT] # n

(* r_statetrans, from state n after some movements thrown away.  More than    *)
(* MaxMove of them complete what is delayed; the movement counts then.        *)
Statetrans(n, delayed, buttons, moved, trans) ==
  LET jitter == moved /\ Delayed(States[n].s[trans])
      tooFar == jitter /\ delayed + 1 > MaxMove
      from == IF tooFar THEN States[n].s[A_TIMEOUT] ELSE n
      to == States[from].s[trans]
  IN IF Emulates
       THEN [state |-> to, changed |-> tooFar \/ to # from, buttons |-> States[to].buttons,
             moved |-> moved /\ (tooFar \/ ~jitter),
             delayed |-> IF jitter /\ ~tooFar THEN delayed + 1 ELSE 0]
       ELSE [state |-> n, changed |-> FALSE, buttons |-> buttons, moved |-> moved,
             delayed |-> delayed]

-----------------------------------------------------------------------------
(* What the console is told: the buttons that changed, one event each, but    *)
(* nothing while scrolling or preparing to; without extioctl, all of them.    *)

Click(seen, changed, buttons) == (seen \ changed) \cup (buttons \cap changed)

Tell(seen, buttons, scrolling) ==
  IF "extioctl" \notin flags THEN buttons
  ELSE IF scrolling = "notscrolling" THEN Click(seen, Differ(action, buttons), buttons)
  ELSE seen

(* "We were preparing to scroll, but we never moved...": the middle button    *)
(* down and up, as far as the packet has changes to tell.  r_timestamp adds a *)
(* button below a changed one when it has been down for long: some then, and  *)
(* some for the second of the two clicks.                                     *)
Overdue(buttons, changed) == {b \in buttons \ changed : \E c \in changed : b < c}

Stamped(buttons, changed) == {changed \cup old : old \in SUBSET Overdue(buttons, changed)}

MiddleClick(buttons, m) ==
  IF "extioctl" \notin flags THEN {console}
  ELSE UNION {{Click(Click(console, first, {2}), second, buttons) : second \in Stamped({2}, first)} :
                first \in IF Emulates THEN {Differ(buttons, m.buttons)}
                          ELSE Stamped(buttons, Differ(pressed, buttons))}

(* A packet that says something new; where neither buttons nor movement are,  *)
(* it is of the wheel.  Scrolling ends with the first packet without the      *)
(* middle button alone; preparing to goes on, and with it the clicks.         *)
MousePacket(buttons, moved) ==
  /\ LET only == buttons = {2}
         clicks == Scrolls /\ ~only /\ scroll_state = "prepare"
         scrolling == IF ~Scrolls THEN scroll_state
                      ELSE IF only /\ scroll_state = "notscrolling" THEN "prepare"
                      ELSE IF ~only /\ scroll_state = "scrolling" THEN "notscrolling"
                      ELSE scroll_state
         m1 == IF clicks THEN Statetrans(mouse_state, move_delayed, buttons, moved, A(buttons))
               ELSE [state |-> mouse_state, delayed |-> move_delayed, changed |-> FALSE]
         m2 == Statetrans(m1.state, m1.delayed, buttons, moved, A(buttons))
     IN /\ \E seen \in IF clicks THEN MiddleClick(buttons, m1) ELSE {console} :
             console' = Tell(seen, m2.buttons, scrolling)
        /\ pressed' = buttons /\ action' = m2.buttons
        /\ mouse_state' = m2.state /\ move_delayed' = m2.delayed
        /\ late' = (late /\ ~m1.changed /\ ~m2.changed)
        /\ scroll_state' = IF scrolling = "prepare" /\ m2.moved THEN "scrolling" ELSE scrolling
  /\ UNCHANGED flags

\* mutant: only what was told to be down for a moment times out
TimesOutOnlyUp(n) == States[n].timeout

TimesOut(n) == States[n].timeout \/ late   \* r_timeout

(* select times out when the mouse says nothing.                              *)
MouseTimeout ==
  /\ Emulates /\ TimesOut(mouse_state)
  /\ LET m == Statetrans(mouse_state, move_delayed, pressed, FALSE, A_TIMEOUT) IN
       /\ mouse_state' = m.state /\ move_delayed' = m.delayed
       /\ late' = (late /\ ~m.changed)
       /\ action' = m.buttons
       /\ console' = Tell(console, m.buttons, scroll_state)
  /\ UNCHANGED <<flags, pressed, scroll_state>>

TimePasses ==
  /\ Emulates /\ ~late /\ late' = TRUE
  /\ UNCHANGED <<flags, pressed, action, mouse_state, move_delayed, scroll_state, console>>

SomePacket == \E buttons \in SUBSET Button : \E moved \in BOOLEAN : MousePacket(buttons, moved)

MouseNext == SomePacket \/ MouseTimeout \/ TimePasses
MouseFair == WF_mouseVars(MouseTimeout) /\ WF_mouseVars(TimePasses)

-----------------------------------------------------------------------------
(* What the console should know of the buttons that are down: with the        *)
(* emulation, the middle one while both others are, and none when one of them *)
(* is all that is left of both.                                               *)
Known ==
  IF ~Emulates THEN console = pressed
  ELSE CASE mouse_state = 3 -> {1, 3} \subseteq pressed /\ console = {2}
         [] mouse_state = 9 -> pressed \cap {1, 3} \in {{1}, {3}} /\ console = {}
         [] OTHER           -> console = pressed \cap {1, 3}

(* "Avoid re-ordering button and movement events": a press or a release that  *)
(* was delayed is not delayed for ever.  When the mouse says no more, the     *)
(* console comes to know which buttons are down (moused.c, r_statetrans,      *)
(* r_timeout).  Not so with -V, where a change of another button is dropped   *)
(* while moused prepares to scroll.                                           *)
MouseSettles ==
  <>[][~SomePacket]_mouseVars => <>[]((Scrolls /\ "extioctl" \in flags) \/ Known)
=============================================================================
