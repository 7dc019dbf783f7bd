---------------------------- MODULE Programs_proofs --------------------------
(* Theorems about moused, and about the programs that are checked together.   *)
EXTENDS MCPrograms, GlobWatch_proofs, Threads_proofs, GrokExpand_proofs

-----------------------------------------------------------------------------
(* moused.  With which of button 1 and 3 down (as A has them) the emulation   *)
(* can be in a state; what it tells in one where nothing is held back.        *)
Held(n) == <<{1}, {3}, {2}, {4}, {1}, {3}, {2}, {4}, {1}, {2, 3}>>[n + 1]
Shows(n, buttons) ==
  IF n = 3 THEN buttons = {2}
  ELSE IF n = 9 THEN buttons = {}
  ELSE Held(n) = {A(buttons)} /\ buttons \subseteq {1, 3}

(* The table leads from states to states, to one that fits the buttons, and   *)
(* on timeout to one that fits what is down already.                          *)
Leads(n, a, b, c, d, e, buttons) ==
  /\ States[n].s = <<a, b, c, d, e>> /\ {a, b, c, d, e} \subseteq 0..9
  /\ States[n].buttons = buttons /\ buttons \subseteq Button
  /\ 1 \in Held(a) /\ 2 \in Held(b) /\ 3 \in Held(c) /\ 4 \in Held(d)
  /\ Held(n) \subseteq Held(e) /\ (e = n => Shows(n, buttons))

LEMMA Table ==
  ASSUME NEW n \in 0..9
  PROVE  \E a, b, c, d, e, buttons : Leads(n, a, b, c, d, e, buttons)
<1>1. CASE n = 0
  <2>1. Leads(n, 0, 2, 1, 3, 0, {})
    BY <1>1 DEF Leads, States, St, Button, Held, Shows, A
  <2> QED BY <2>1
<1>2. CASE n = 1
  <2>1. Leads(n, 4, 2, 1, 3, 5, {})
    BY <1>2 DEF Leads, States, St, Button, Held, Shows, A
  <2> QED BY <2>1
<1>3. CASE n = 2
  <2>1. Leads(n, 8, 2, 1, 3, 6, {})
    BY <1>3 DEF Leads, States, St, Button, Held, Shows, A
  <2> QED BY <2>1
<1>4. CASE n = 3
  <2>1. Leads(n, 0, 9, 9, 3, 3, {2})
    BY <1>4 DEF Leads, States, St, Button, Held, Shows, A
  <2> QED BY <2>1
<1>5. CASE n = 4
  <2>1. Leads(n, 0, 2, 1, 3, 0, {1})
    BY <1>5 DEF Leads, States, St, Button, Held, Shows, A
  <2> QED BY <2>1
<1>6. CASE n = 5
  <2>1. Leads(n, 0, 2, 5, 7, 5, {1})
    BY <1>6 DEF Leads, States, St, Button, Held, Shows, A
  <2> QED BY <2>1
<1>7. CASE n = 6
  <2>1. Leads(n, 0, 6, 1, 7, 6, {3})
    BY <1>7 DEF Leads, States, St, Button, Held, Shows, A
  <2> QED BY <2>1
<1>8. CASE n = 7
  <2>1. Leads(n, 0, 6, 5, 7, 7, {1, 3})
    BY <1>8 DEF Leads, States, St, Button, Held, Shows, A
  <2> QED BY <2>1
<1>9. CASE n = 8
  <2>1. Leads(n, 0, 2, 1, 3, 0, {3})
    BY <1>9 DEF Leads, States, St, Button, Held, Shows, A
  <2> QED BY <2>1
<1>10. CASE n = 9
  <2>1. Leads(n, 0, 9, 9, 3, 9, {})
    BY <1>10 DEF Leads, States, St, Button, Held, Shows, A
  <2> QED BY <2>1
<1> QED BY <1>1, <1>2, <1>3, <1>4, <1>5, <1>6, <1>7, <1>8, <1>9, <1>10

LEMMA NextState ==
  ASSUME NEW n \in 0..9, NEW trans \in 1..5
  PROVE  /\ States[n].s[trans] \in 0..9 /\ States[n].buttons \subseteq Button
         /\ trans # 5 => trans \in Held(States[n].s[trans])
         /\ trans = 5 => Held(n) \subseteq Held(States[n].s[trans])
         /\ States[n].s[5] = n => Shows(n, States[n].buttons)
<1>1. PICK a, b, c, d, e, buttons : Leads(n, a, b, c, d, e, buttons)
  BY Table
<1> DEFINE to == <<a, b, c, d, e>>[trans]
<1>2. to \in {a, b, c, d, e} /\ <<a, b, c, d, e>>[5] = e
  OBVIOUS
<1>3. trans \in {1, 2, 3, 4, 5}
  OBVIOUS
<1>4. (trans # 5 => trans \in Held(to)) /\ (trans = 5 => to = e)
  BY <1>1, <1>3 DEF Leads
<1> HIDE DEF to
<1>5. States[n].s[trans] = to /\ States[n].s[5] = e
  BY <1>1, <1>2 DEF Leads, to
<1> QED BY <1>1, <1>2, <1>4, <1>5 DEF Leads

(* The emulation keeps to the states, and counts no more movements than it    *)
(* bears.                                                                     *)
Stated(m) ==
  /\ m.state \in 0..9 /\ m.delayed \in 0..MaxMove /\ m.changed \in BOOLEAN
  /\ m.buttons \subseteq Button

LEMMA StatetransType ==
  ASSUME NEW n \in 0..9, NEW delayed \in 0..MaxMove, NEW buttons, buttons \subseteq Button,
         NEW moved \in BOOLEAN, NEW trans \in 1..5
  PROVE  Stated(Statetrans(n, delayed, buttons, moved, trans))
<1> DEFINE jitter == moved /\ Delayed(States[n].s[trans])
           tooFar == jitter /\ delayed + 1 > MaxMove
           from == IF tooFar THEN States[n].s[A_TIMEOUT] ELSE n
           to == States[from].s[trans]
<1>0. MaxMove \in Nat
  BY MousedConstants
<1>1. from \in 0..9
  BY NextState DEF A_TIMEOUT
<1> HIDE DEF from
<1>2. to \in 0..9 /\ States[to].buttons \subseteq Button
  <2>1. to \in 0..9
    BY <1>1, NextState
  <2> HIDE DEF to
  <2> QED BY <2>1, NextState
<1>3. (IF jitter /\ ~tooFar THEN delayed + 1 ELSE 0) \in 0..MaxMove
  BY <1>0
<1>4. (tooFar \/ to # from) \in BOOLEAN
  OBVIOUS
<1>5. CASE Emulates
  <2>1. Statetrans(n, delayed, buttons, moved, trans) =
          [state |-> to, changed |-> tooFar \/ to # from, buttons |-> States[to].buttons,
           moved |-> moved /\ (tooFar \/ ~jitter),
           delayed |-> IF jitter /\ ~tooFar THEN delayed + 1 ELSE 0]
    BY <1>5 DEF Statetrans, from
  <2> HIDE DEF jitter, tooFar, to
  <2> QED BY <1>2, <1>3, <1>4, <2>1 DEF Stated
<1>6. CASE ~Emulates
  <2>1. Statetrans(n, delayed, buttons, moved, trans) =
          [state |-> n, changed |-> FALSE, buttons |-> buttons, moved |-> moved,
           delayed |-> delayed]
    BY <1>6 DEF Statetrans
  <2> QED BY <2>1 DEF Stated
<1> QED BY <1>5, <1>6

LEMMA Told3 ==
  ASSUME NEW known, known \subseteq Button, NEW buttons, buttons \subseteq Button, NEW scrolling
  PROVE  Tell(known, buttons, scrolling) \subseteq Button
  BY DEF Tell, Click

LEMMA ClickedIs ==
  ASSUME NEW buttons, buttons \subseteq Button, console \subseteq Button, NEW m,
         NEW known \in MiddleClick(buttons, m)
  PROVE  known \subseteq Button
<1>1. CASE "extioctl" \notin flags
  BY <1>1 DEF MiddleClick
<1>2. CASE "extioctl" \in flags
  <2>1. PICK first, second : known = Click(Click(console, first, {2}), second, buttons)
    BY <1>2 DEF MiddleClick
  <2>2. 2 \in Button
    BY DEF Button
  <2> DEFINE between == Click(console, first, {2})
  <2>3. between \subseteq Button
    BY <2>2 DEF Click
  <2>4. Click(between, second, buttons) \subseteq between \cup buttons
    BY DEF Click
  <2> HIDE DEF between
  <2> QED BY <2>1, <2>3, <2>4 DEF between
<1> QED BY <1>1, <1>2

LEMMA MousePacketTypes ==
  ASSUME MouseTypeOK, NEW buttons \in SUBSET Button, NEW moved \in BOOLEAN,
         MousePacket(buttons, moved)
  PROVE  MouseTypeOK'
<1> DEFINE only == buttons = {2}
           clicks == Scrolls /\ ~only /\ scroll_state = "prepare"
           scrolling == IF ~Scrolls THEN scroll_state
                        ELSE IF only /\ scroll_state = "notscrolling" THEN "prepare"
                        ELSE IF ~only /\ scroll_state = "scrolling" THEN "notscrolling"
                        ELSE scroll_state
           m1 == IF clicks THEN Statetrans(mouse_state, move_delayed, buttons, moved, A(buttons))
                 ELSE [state |-> mouse_state, delayed |-> move_delayed, changed |-> FALSE]
           m2 == Statetrans(m1.state, m1.delayed, buttons, moved, A(buttons))
<1>1. /\ \E known \in IF clicks THEN MiddleClick(buttons, m1) ELSE {console} :
           console' = Tell(known, m2.buttons, scrolling)
      /\ pressed' = buttons /\ action' = m2.buttons
      /\ mouse_state' = m2.state /\ move_delayed' = m2.delayed
      /\ late' = (late /\ ~m1.changed /\ ~m2.changed)
      /\ scroll_state' = IF scrolling = "prepare" /\ m2.moved THEN "scrolling" ELSE scrolling
      /\ UNCHANGED flags
  BY DEF MousePacket
<1>2. A(buttons) \in 1..5
  BY DEF A
<1>t. /\ mouse_state \in 0..9 /\ move_delayed \in 0..MaxMove /\ console \subseteq Button
      /\ flags \subseteq MouseFlags /\ late \in BOOLEAN
      /\ scroll_state \in {"notscrolling", "prepare", "scrolling"}
  BY DEF MouseTypeOK
<1>3. m1.state \in 0..9 /\ m1.delayed \in 0..MaxMove /\ m1.changed \in BOOLEAN
  <2>1. CASE clicks
    <3>1. Stated(Statetrans(mouse_state, move_delayed, buttons, moved, A(buttons)))
      BY <1>2, <1>t, StatetransType
    <3> QED BY <2>1, <3>1 DEF Stated
  <2>2. CASE ~clicks
    BY <1>t, <2>2
  <2> QED BY <2>1, <2>2
<1>4. scrolling \in {"notscrolling", "prepare", "scrolling"}
  BY <1>t
<1> HIDE DEF m1
<1>5. Stated(m2)
  BY <1>2, <1>3, StatetransType
<1> HIDE DEF m2, scrolling
<1>6. console' \subseteq Button
  <2>1. PICK known \in IF clicks THEN MiddleClick(buttons, m1) ELSE {console} :
          console' = Tell(known, m2.buttons, scrolling)
    BY <1>1
  <2>2. known \subseteq Button
    BY <1>t, ClickedIs
  <2>3. m2.buttons \subseteq Button
    BY <1>5 DEF Stated
  <2> QED BY <2>1, <2>2, <2>3, Told3
<1>7. scroll_state' \in {"notscrolling", "prepare", "scrolling"}
  BY <1>1, <1>4
<1>8. late' \in BOOLEAN
  BY <1>1
<1> QED BY <1>1, <1>5, <1>6, <1>7, <1>8, <1>t DEF MouseTypeOK, Stated

LEMMA MouseStep ==
  ASSUME MouseTypeOK, [MouseNext]_mouseVars
  PROVE  MouseTypeOK'
<1>1. CASE SomePacket
  BY <1>1, MousePacketTypes DEF SomePacket
<1>2. CASE MouseTimeout
  <2> DEFINE m == Statetrans(mouse_state, move_delayed, pressed, FALSE, A_TIMEOUT)
  <2>1. /\ mouse_state' = m.state /\ move_delayed' = m.delayed
        /\ late' = (late /\ ~m.changed) /\ action' = m.buttons
        /\ console' = Tell(console, m.buttons, scroll_state)
        /\ UNCHANGED <<flags, pressed, scroll_state>>
    BY <1>2 DEF MouseTimeout
  <2>2. /\ mouse_state \in 0..9 /\ move_delayed \in 0..MaxMove /\ console \subseteq Button
        /\ pressed \subseteq Button
    BY DEF MouseTypeOK
  <2>3. FALSE \in BOOLEAN /\ A_TIMEOUT \in 1..5
    BY DEF A_TIMEOUT
  <2>4. Stated(m)
    BY <2>2, <2>3, StatetransType
  <2> HIDE DEF m
  <2>5. m.buttons \subseteq Button
    BY <2>4 DEF Stated
  <2>6. console' \subseteq Button
    BY <2>1, <2>2, <2>5, Told3
  <2> QED BY <2>1, <2>4, <2>6 DEF MouseTypeOK, Stated
<1>3. CASE TimePasses
  BY <1>3 DEF TimePasses, MouseTypeOK
<1>4. CASE UNCHANGED mouseVars
  BY <1>4 DEF mouseVars, MouseTypeOK
<1> QED BY <1>1, <1>2, <1>3, <1>4 DEF MouseNext

LEMMA MouseInitial == MouseInit => MouseTypeOK
<1> SUFFICES ASSUME MouseInit PROVE MouseTypeOK
  OBVIOUS
<1>1. mouse_state = 0 /\ move_delayed = 0 /\ pressed = {} /\ action = {} /\ console = {}
  BY DEF MouseInit
<1>2. 0 \in 0..MaxMove
  BY MousedConstants
<1>3. flags \in SUBSET MouseFlags /\ late \in BOOLEAN /\ scroll_state = "notscrolling"
  BY DEF MouseInit
<1> QED BY <1>1, <1>2, <1>3 DEF MouseTypeOK

-----------------------------------------------------------------------------
(* moused, further: what it tells is what its state stands for, its state     *)
(* fits the buttons that are down, and the console is told all of it.         *)
MouseTells ==
  /\ Emulates => action = States[mouse_state].buttons /\ A(pressed) \in Held(mouse_state)
  /\ ~Emulates => action = pressed /\ mouse_state = 0
  /\ ~Scrolls => scroll_state = "notscrolling"
  /\ ~(Scrolls /\ "extioctl" \in flags) => console = action

(* What comes of a transition, with the emulation and without.                *)
Becomes(m, n, buttons, moved, trans) ==
  /\ Emulates => /\ m.buttons = States[m.state].buttons
                 /\ trans # 5 => trans \in Held(m.state)
                 /\ trans = 5 /\ ~moved => Held(n) \subseteq Held(m.state)
  /\ ~Emulates => m.buttons = buttons /\ m.state = n

LEMMA StatetransTells ==
  ASSUME NEW n \in 0..9, NEW delayed, NEW buttons, NEW moved \in BOOLEAN, NEW trans \in 1..5
  PROVE  Becomes(Statetrans(n, delayed, buttons, moved, trans), n, buttons, moved, trans)
<1> DEFINE jitter == moved /\ Delayed(States[n].s[trans])
           tooFar == jitter /\ delayed + 1 > MaxMove
           from == IF tooFar THEN States[n].s[A_TIMEOUT] ELSE n
           to == States[from].s[trans]
           m == Statetrans(n, delayed, buttons, moved, trans)
<1>1. from \in 0..9 /\ (~moved => from = n)
  BY NextState DEF A_TIMEOUT
<1>2. CASE Emulates
  <2>1. m.state = to /\ m.buttons = States[to].buttons
    BY <1>2 DEF Statetrans
  <2> HIDE DEF from
  <2>2. (trans # 5 => trans \in Held(to)) /\ (trans = 5 => Held(from) \subseteq Held(to))
    BY <1>1, NextState
  <2>3. trans = 5 /\ ~moved => Held(n) \subseteq Held(to)
    BY <1>1, <2>2
  <2> HIDE DEF to, m
  <2>4. Becomes(m, n, buttons, moved, trans)
    BY <1>2, <2>1, <2>2, <2>3 DEF Becomes
  <2> QED BY <2>4 DEF m
<1>3. CASE ~Emulates
  <2>1. m.state = n /\ m.buttons = buttons
    BY <1>3 DEF Statetrans
  <2> HIDE DEF m
  <2>2. Becomes(m, n, buttons, moved, trans)
    BY <1>3, <2>1 DEF Becomes
  <2> QED BY <2>2 DEF m
<1> QED BY <1>2, <1>3

(* A console that knows what was told before comes to know what is told now.  *)
LEMMA ToldAll ==
  ASSUME NEW buttons, scroll_state = "notscrolling" \/ "extioctl" \notin flags,
         NEW scrolling, scrolling = "notscrolling" \/ "extioctl" \notin flags, console = action
  PROVE  Tell(console, buttons, scrolling) = buttons
  BY DEF Tell, Click, Differ

LEMMA PacketTells ==
  ASSUME MouseTypeOK, MouseTells, NEW buttons \in SUBSET Button, NEW moved \in BOOLEAN,
         MousePacket(buttons, moved)
  PROVE  MouseTells'
<1> DEFINE only == buttons = {2}
           clicks == Scrolls /\ ~only /\ scroll_state = "prepare"
           scrolling == IF ~Scrolls THEN scroll_state
                        ELSE IF only /\ scroll_state = "notscrolling" THEN "prepare"
                        ELSE IF ~only /\ scroll_state = "scrolling" THEN "notscrolling"
                        ELSE scroll_state
           m1 == IF clicks THEN Statetrans(mouse_state, move_delayed, buttons, moved, A(buttons))
                 ELSE [state |-> mouse_state, delayed |-> move_delayed, changed |-> FALSE]
           m2 == Statetrans(m1.state, m1.delayed, buttons, moved, A(buttons))
<1>1. /\ \E known \in IF clicks THEN MiddleClick(buttons, m1) ELSE {console} :
           console' = Tell(known, m2.buttons, scrolling)
      /\ pressed' = buttons /\ action' = m2.buttons /\ mouse_state' = m2.state
      /\ scroll_state' = IF scrolling = "prepare" /\ m2.moved THEN "scrolling" ELSE scrolling
      /\ UNCHANGED flags
  BY DEF MousePacket
<1>2. A(buttons) \in 1..5 /\ A(buttons) # 5
  BY DEF A
<1>t. mouse_state \in 0..9 /\ move_delayed \in 0..MaxMove
  BY DEF MouseTypeOK
<1>3. m1.state \in 0..9 /\ (~Emulates => m1.state = mouse_state)
  <2>1. CASE clicks
    <3>1. Stated(Statetrans(mouse_state, move_delayed, buttons, moved, A(buttons)))
      BY <1>2, <1>t, StatetransType
    <3>2. Becomes(Statetrans(mouse_state, move_delayed, buttons, moved, A(buttons)),
                  mouse_state, buttons, moved, A(buttons))
      BY <1>2, <1>t, StatetransTells
    <3> QED BY <2>1, <3>1, <3>2 DEF Stated, Becomes
  <2>2. CASE ~clicks
    BY <1>t, <2>2
  <2> QED BY <2>1, <2>2
<1>4. ~Scrolls => scrolling = "notscrolling" /\ scroll_state = "notscrolling"
  BY DEF MouseTells
<1>5. "extioctl" \notin flags => Scrolls \/ ~clicks
  OBVIOUS
<1>6. "extioctl" \notin flags => MiddleClick(buttons, m1) = {console}
  BY DEF MiddleClick
<1>7. ~(Scrolls /\ "extioctl" \in flags) => console' = Tell(console, m2.buttons, scrolling)
  BY <1>1, <1>6
<1> HIDE DEF m1
<1>b. Becomes(m2, m1.state, buttons, moved, A(buttons))
  BY <1>2, <1>3, StatetransTells
<1> HIDE DEF m2, scrolling, clicks
<1>8. /\ Emulates => m2.buttons = States[m2.state].buttons /\ A(buttons) \in Held(m2.state)
      /\ ~Emulates => m2.buttons = buttons /\ m2.state = m1.state
  BY <1>2, <1>b DEF Becomes
<1>9. ~(Scrolls /\ "extioctl" \in flags) => console' = action'
  <2> SUFFICES ASSUME ~(Scrolls /\ "extioctl" \in flags) PROVE console' = action'
    OBVIOUS
  <2>1. Tell(console, m2.buttons, scrolling) = m2.buttons
    BY <1>4, ToldAll DEF MouseTells
  <2> QED BY <1>1, <1>7, <2>1
<1>10. UNCHANGED <<Emulates, Scrolls>>
  BY <1>1 DEF Emulates, Scrolls
<1> QED BY <1>1, <1>3, <1>4, <1>8, <1>9, <1>10 DEF MouseTells

LEMMA TellsStep ==
  ASSUME MouseTypeOK, MouseTells, [MouseNext]_mouseVars
  PROVE  MouseTells'
<1>1. CASE SomePacket
  BY <1>1, PacketTells DEF SomePacket
<1>2. CASE MouseTimeout
  <2> DEFINE m == Statetrans(mouse_state, move_delayed, pressed, FALSE, A_TIMEOUT)
  <2>1. /\ mouse_state' = m.state /\ action' = m.buttons
        /\ console' = Tell(console, m.buttons, scroll_state)
        /\ UNCHANGED <<flags, pressed, scroll_state>> /\ Emulates
    BY <1>2 DEF MouseTimeout
  <2>2. mouse_state \in 0..9 /\ A_TIMEOUT = 5 /\ A_TIMEOUT \in 1..5 /\ FALSE \in BOOLEAN
    BY DEF MouseTypeOK, A_TIMEOUT
  <2>b. Becomes(m, mouse_state, pressed, FALSE, A_TIMEOUT)
    BY <2>2, StatetransTells
  <2> HIDE DEF m
  <2>3. m.buttons = States[m.state].buttons /\ Held(mouse_state) \subseteq Held(m.state)
    BY <2>1, <2>2, <2>b DEF Becomes
  <2>4. ~(Scrolls /\ "extioctl" \in flags) => Tell(console, m.buttons, scroll_state) = m.buttons
    BY ToldAll DEF MouseTells
  <2> QED BY <2>1, <2>3, <2>4 DEF MouseTells, Emulates, Scrolls
<1>3. CASE TimePasses
  BY <1>3 DEF TimePasses, MouseTells, Emulates, Scrolls
<1>4. CASE UNCHANGED mouseVars
  BY <1>4 DEF mouseVars, MouseTells, Emulates, Scrolls
<1> QED BY <1>1, <1>2, <1>3, <1>4 DEF MouseNext

LEMMA TellsInitial == MouseInit => MouseTells
<1> SUFFICES ASSUME MouseInit PROVE MouseTells
  OBVIOUS
<1>1. pressed = {} /\ action = {} /\ console = {} /\ mouse_state = 0 /\ scroll_state = "notscrolling"
  BY DEF MouseInit
<1>2. States[0].buttons = {} /\ A({}) \in Held(0)
  BY DEF States, St, Held, A
<1> QED BY <1>1, <1>2 DEF MouseTells

(* Unless the emulation holds a button back, the console knows what is down;  *)
(* -V on a console with the extended interface excepted.                      *)
MouseHoldsBack ==
  (Scrolls /\ "extioctl" \in flags) \/ (Emulates /\ Delayed(mouse_state)) \/ Known

LEMMA TellsKnown ==
  ASSUME MouseTypeOK, MouseTells
  PROVE  MouseHoldsBack
<1> SUFFICES ASSUME ~(Scrolls /\ "extioctl" \in flags), Emulates => ~Delayed(mouse_state)
             PROVE  Known
  BY DEF MouseHoldsBack
<1>1. console = action
  BY DEF MouseTells
<1>2. CASE ~Emulates
  BY <1>1, <1>2 DEF MouseTells, Known
<1>3. CASE Emulates
  <2>1. mouse_state \in 0..9 /\ pressed \subseteq Button
    BY DEF MouseTypeOK
  <2>2. States[mouse_state].s[5] = mouse_state
    BY <1>3 DEF Delayed, A_TIMEOUT
  <2>3. Shows(mouse_state, console) /\ A(pressed) \in Held(mouse_state)
    <3>1. 5 \in 1..5
      OBVIOUS
    <3>2. Shows(mouse_state, States[mouse_state].buttons)
      BY <2>1, <2>2, <3>1, NextState
    <3> QED BY <1>1, <1>3, <3>2 DEF MouseTells
  <2>4. CASE mouse_state = 3
    <3>1. A(pressed) = 4
      BY <2>3, <2>4 DEF Held
    <3>2. {1, 3} \subseteq pressed
      BY <3>1 DEF A
    <3> QED BY <1>3, <2>3, <2>4, <3>2 DEF Shows, Known
  <2>5. CASE mouse_state = 9
    <3>1. A(pressed) \in {2, 3}
      BY <2>3, <2>5 DEF Held
    <3>2. pressed \cap {1, 3} \in {{1}, {3}}
      BY <3>1 DEF A
    <3> QED BY <1>3, <2>3, <2>5, <3>2 DEF Shows, Known
  <2>6. CASE mouse_state \notin {3, 9}
    <3>1. A(pressed) = A(console) /\ console \subseteq {1, 3}
      BY <2>3, <2>6 DEF Shows
    <3>2. (1 \in pressed <=> 1 \in console) /\ (3 \in pressed <=> 3 \in console)
      BY <3>1 DEF A
    <3>3. console = pressed \cap {1, 3}
      BY <3>1, <3>2
    <3> QED BY <1>3, <2>6, <3>3 DEF Known
  <2> QED BY <2>4, <2>5, <2>6
<1> QED BY <1>2, <1>3

-----------------------------------------------------------------------------
(* The programs together: each keeps its own invariant, whoever steps.        *)
AllSafe == GlobInv /\ ChannelInv /\ DxInv /\ ExpandSafe /\ BarberInv /\ FancyInv /\ MouseTypeOK

LEMMA AllInitial == Init => AllSafe
  BY GlobInitial, ChannelInitial, DxInitial, InitExpandSafe, BarberInitial, FancyInitial,
     MouseInitial DEF Init, AllSafe

LEMMA AllStep == AllSafe /\ [Next]_programVars => AllSafe'
<1> SUFFICES ASSUME AllSafe, [Next]_programVars PROVE AllSafe'
  OBVIOUS
<1>1. /\ [GlobNext]_globVars /\ [ChannelNext]_channelVars /\ [DxNext]_dxVars
      /\ [ExpandNext]_expandVars /\ [BarberNext]_barberVars /\ [FancyNext]_fancyVars
      /\ [MouseNext]_mouseVars
  BY DEF Next, programVars
<1>2. GlobInv' /\ ChannelInv' /\ DxInv'
  BY <1>1, GlobStep, ChannelStep, DxStep DEF AllSafe
<1>3. ExpandSafe' /\ BarberInv'
  BY <1>1, NextExpandSafe, BarberStep DEF AllSafe
<1>4. FancyInv' /\ MouseTypeOK'
  BY <1>1, FancyStep, MouseStep DEF AllSafe
<1> QED BY <1>2, <1>3, <1>4 DEF AllSafe

LEMMA AllTypes == AllSafe => TypesOK
<1>1. GlobInv /\ ChannelInv /\ DxInv => GlobTypeOK /\ ChannelTypeOK /\ DxTypeOK
  BY DEF GlobInv, ChannelInv, DxInv
<1>2. BarberInv /\ FancyInv => BarberTypeOK /\ FancyTypeOK
  BY DEF BarberInv, FancyInv
<1> QED BY <1>1, <1>2, SafeTypes DEF AllSafe, TypesOK

(* For all values of the constants, every variable of the seven programs      *)
(* keeps to the type that its code gives it; moused's table of states is      *)
(* never left, and it counts no more movements than BUTTON2_MAXMOVE.          *)
THEOREM TypesCorrect == Spec => []TypesOK
<1>1. Spec => []AllSafe
  BY AllInitial, AllStep, PTL DEF Spec
<1> QED BY <1>1, AllTypes, PTL

(* What the seven programs promise, each of its own code.                     *)
ProgramsSafe ==
  /\ GlobIsTold /\ DxTokens /\ DxNothingLeft /\ GrokFolds /\ GrokJudges
  /\ BarberTells /\ FancyAggregates

(* In the specification that is checked, for all values of the constants: a    *)
(* watch is on the file of its path, no task of dxargs is lost or out of       *)
(* order, patterns are expanded faithfully and judged by their own predicate,  *)
(* no customer misses that he is shaved, closed sessions of the rule database  *)
(* leave every aggregate right that no float time touched and no exception     *)
(* forgot, and a send meets one receive.                                       *)
THEOREM ProgramsAreSafe == Spec => []ProgramsSafe /\ ChannelMeets
<1>1. AllSafe => ProgramsSafe
  <2>1. GlobInv => GlobIsTold
    BY DEF GlobInv
  <2> QED BY <2>1, DxSaysTokens, DxSaysNothingLeft, SafeFolds, SafeJudges, BarberSays, FancySays
          DEF AllSafe, ProgramsSafe
<1>2. Init => Sync!Init
  BY DEF Init, ChannelInit, Sync!Init, Inside
<1>3. AllSafe /\ [Next]_programVars => [Sync!Next]_(Sync!vars)
  <2>1. [Next]_programVars => [ChannelNext]_channelVars
    BY DEF Next, programVars
  <2>2. AllSafe => ChannelInv
    BY DEF AllSafe
  <2> QED BY <2>1, <2>2, ChannelSimulates
<1>4. ChannelMeets <=> (Sync!Init /\ [][Sync!Next]_(Sync!vars))
  BY DEF ChannelMeets, Sync!Spec
<1> QED BY <1>1, <1>2, <1>3, <1>4, AllInitial, AllStep, PTL DEF Spec

(* moused in the specification that is checked, for any BUTTON2_MAXMOVE: a     *)
(* press or release that the console does not know yet is held back in a      *)
(* state that a timeout leaves, -V on a console with the extended interface   *)
(* excepted (r_statetrans, r_click, the states of states[]).                  *)
THEOREM MouseTellsAll == Spec => []MouseHoldsBack
<1>1. Init => MouseTypeOK /\ MouseTells
  BY MouseInitial, TellsInitial DEF Init
<1>2. [Next]_programVars => [MouseNext]_mouseVars
  BY DEF Next, programVars
<1>3. MouseTypeOK /\ MouseTells /\ [Next]_programVars => (MouseTypeOK /\ MouseTells)'
  BY <1>2, MouseStep, TellsStep
<1> QED BY <1>1, <1>3, TellsKnown, PTL DEF Spec
=============================================================================
