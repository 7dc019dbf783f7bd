------------------------------- MODULE BarberShop ----------------------------
(* SleepingBarber.java (classes/os1): a barber, his shop with some chairs, a  *)
(* thread per customer, and main, which sends customers and in the end tells  *)
(* the barber to quit.  The shop and every customer are Java monitors; a      *)
(* customer holds his own from the start of run() until he waits on it.       *)
EXTENDS Naturals, Sequences

CONSTANTS Customer, Chairs, Nobody

ASSUME BarberConstants == Chairs \in Nat /\ Nobody \notin Customer

VARIABLES
  barber,       \* where the barber is
  shaving,      \* c of Barber.run: the customer he has, or Nobody
  chairs,       \* customers on the chairs
  customer,     \* customer[c]: where the thread of c is
  beingshaved, shaved,   \* the flags of the customers (shaved: "done")
  closing,      \* the flag of the barber ("done")
  told          \* history: who sat down while the barber waited

barberVars == <<barber, shaving, chairs, customer, beingshaved, shaved, closing, told>>

BarberTypeOK ==
  /\ barber \in {"new", "checks", "looks", "empty", "dozes", "sleeps", "starts", "shaves", "quit"}
  /\ shaving \in Customer \cup {Nobody} /\ chairs \in Seq(Customer)
  /\ customer \in [Customer -> {"home", "enters", "sits", "waits", "woken", "left", "returned"}]
  /\ beingshaved \subseteq Customer /\ shaved \subseteq Customer
  /\ closing \in BOOLEAN /\ told \subseteq Customer

BarberInit ==
  /\ barber = "new" /\ shaving = Nobody /\ chairs = << >>
  /\ customer = [c \in Customer |-> "home"]
  /\ beingshaved = {} /\ shaved = {} /\ closing = FALSE /\ told = {}

-----------------------------------------------------------------------------
(* main.                                                                      *)

StartBarber ==
  /\ barber = "new" /\ barber' = "checks"
  /\ UNCHANGED <<shaving, chairs, customer, beingshaved, shaved, closing, told>>

SendCustomer(c) ==
  /\ barber # "new" /\ ~closing /\ customer[c] = "home"
  /\ customer' = [customer EXCEPT ![c] = "enters"]
  /\ UNCHANGED <<barber, shaving, chairs, beingshaved, shaved, closing, told>>

(* It wakes nobody.                                                           *)
SetFinished ==
  /\ barber # "new" /\ ~closing /\ closing' = TRUE
  /\ UNCHANGED <<barber, shaving, chairs, customer, beingshaved, shaved, told>>

-----------------------------------------------------------------------------
(* A customer.                                                                *)

\* mutant: whoever sits down leaves the barber asleep
LeaveBarber == barber
WakeBarber == IF barber = "sleeps" THEN "looks" ELSE barber

Enter(c) ==
  /\ customer[c] = "enters"
  /\ IF Len(chairs) < Chairs
       THEN /\ chairs' = Append(chairs, c)
            /\ customer' = [customer EXCEPT ![c] = "sits"]
            /\ barber' = WakeBarber
            /\ told' = IF barber = "sleeps" THEN told \cup {c} ELSE told
       ELSE /\ customer' = [customer EXCEPT ![c] = "left"]
            /\ UNCHANGED <<barber, chairs, told>>
  /\ UNCHANGED <<shaving, beingshaved, shaved, closing>>

(* Both of his waits: for his turn, and until he is done.                     *)
Wait(c) ==
  /\ customer[c] \in {"sits", "woken"}
  /\ customer' = [customer EXCEPT ![c] = IF c \in beingshaved \cap shaved THEN "returned" ELSE "waits"]
  /\ UNCHANGED <<barber, shaving, chairs, beingshaved, shaved, closing, told>>

-----------------------------------------------------------------------------
(* The barber.                                                                *)

(* The condition of his loop.                                                 *)
Check ==
  /\ barber = "checks"
  /\ barber' = IF Len(chairs) < Chairs \/ ~closing THEN "looks" ELSE "quit"
  /\ UNCHANGED <<shaving, chairs, customer, beingshaved, shaved, closing, told>>

(* getNextCustomer.                                                           *)
LookForNext ==
  /\ barber = "looks"
  /\ IF chairs # << >>
       THEN barber' = "starts" /\ shaving' = Head(chairs) /\ chairs' = Tail(chairs)
       ELSE barber' = "empty" /\ UNCHANGED <<shaving, chairs>>
  /\ UNCHANGED <<customer, beingshaved, shaved, closing, told>>

(* Nobody was there: he quits, or is about to sleep.                          *)
NobodyThere ==
  /\ barber = "empty"
  /\ barber' = IF closing THEN "quit" ELSE "dozes"
  /\ UNCHANGED <<shaving, chairs, customer, beingshaved, shaved, closing, told>>

(* shop.wait(), without another look at the chairs.                           *)
Sleep ==
  /\ barber = "dozes" /\ barber' = "sleeps"
  /\ UNCHANGED <<shaving, chairs, customer, beingshaved, shaved, closing, told>>

(* He takes the monitor of a customer only when the customer waits.           *)
Free(c) == customer[c] \in {"waits", "woken"}

\* mutant: the customer is not notified
LeaveCustomer(c) == customer
WakeCustomer(c) == [customer EXCEPT ![c] = "woken"]

StartShaving ==
  /\ barber = "starts" /\ Free(shaving)
  /\ beingshaved' = beingshaved \cup {shaving} /\ customer' = WakeCustomer(shaving)
  /\ barber' = "shaves"
  /\ UNCHANGED <<shaving, chairs, shaved, closing, told>>

FinishShaving ==
  /\ barber = "shaves" /\ Free(shaving)
  /\ shaved' = shaved \cup {shaving} /\ customer' = WakeCustomer(shaving)
  /\ barber' = "checks" /\ shaving' = Nobody
  /\ UNCHANGED <<chairs, beingshaved, closing, told>>

(* wait() returns although nobody called notify().                            *)
WakesUp ==
  /\ \/ barber = "sleeps" /\ barber' = "looks" /\ UNCHANGED customer
     \/ \E c \in Customer : /\ customer[c] = "waits" /\ UNCHANGED barber
                            /\ customer' = [customer EXCEPT ![c] = "woken"]
  /\ UNCHANGED <<shaving, chairs, beingshaved, shaved, closing, told>>

BarberRuns == Check \/ LookForNext \/ NobodyThere \/ Sleep \/ StartShaving \/ FinishShaving
CustomerRuns(c) == Enter(c) \/ Wait(c)

BarberNext ==
  \/ StartBarber \/ BarberRuns \/ SetFinished \/ WakesUp
  \/ \E c \in Customer : SendCustomer(c) \/ CustomerRuns(c)

(* The virtual machine runs every thread that can go on; nobody has to come.  *)
BarberFair ==
  /\ WF_barberVars(BarberRuns)
  /\ \A c \in Customer : WF_barberVars(CustomerRuns(c))

BarberSpec == BarberInit /\ [][BarberNext]_barberVars /\ BarberFair

-----------------------------------------------------------------------------
(* Who sits down while the barber sleeps gets his shave, however many sit     *)
(* before him, unless the barber quits, which he does when main told him to   *)
(* and every chair is taken (SleepingBarber.java: Barber.run, Customer.run).  *)
BarberWakes ==
  \A c \in Customer : c \in told ~> c \in shaved \/ barber = "quit"

(* No customer misses that he is done: he is not left waiting, and comes out  *)
(* of the shop shaved or at once.                                             *)
BarberTells ==
  \A c \in Customer :
    /\ c \in shaved => customer[c] \in {"woken", "returned"}
    /\ customer[c] = "returned" => c \in shaved
    /\ c \in beingshaved \ shaved => shaving = c /\ barber = "shaves"
=============================================================================
