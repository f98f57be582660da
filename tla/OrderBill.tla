----------------------------- MODULE OrderBill -----------------------------
(***************************************************************************)
(* What table service promises about money, with no handlers, locks or     *)
(* kitchen: a bill per order that diners extend while it is open, that     *)
(* collects payments whatever else happens to it, and that is settled by   *)
(* the payment that covers it and only by that one.  TableService          *)
(* implements it.                                                          *)
(***************************************************************************)
EXTENDS Integers

CONSTANTS Tables, Orders, Prices, None

VARIABLE bill

States == {"none", "open", "cancelled", "closed", "settled"}

Bill == [state : States, table : Tables \cup {None}, due : Int, paid : Nat]

NoBill == [state |-> "none", table |-> None, due |-> 0, paid |-> 0]

Init == bill = [o \in Orders |-> NoBill]

-----------------------------------------------------------------------------
\* The first checkout at a table without an open order.
Place(o, t, price) ==
    /\ bill[o].state = "none"
    /\ \A q \in Orders : bill[q].state = "open" => bill[q].table # t
    /\ bill' = [bill EXCEPT ![o] =
                   [state |-> "open", table |-> t, due |-> price, paid |-> 0]]

\* Every further checkout at that table.
Extend(o, price) ==
    /\ bill[o].state = "open"
    /\ bill' = [bill EXCEPT ![o].due = @ + price]

\* Staff close a delivered order that is not paid in full, or cancel one.
Retire(o, state) ==
    /\ bill[o].state = "open"
    /\ bill' = [bill EXCEPT ![o].state = state]

\* Money arrives, for a retired order as well: a late webhook is still booked.
\* Payments may exceed what is due, together or because it was lowered since; then a
\* repeated notice of an old payment settles the bill, with no new money.
Receive(o) ==
    LET paid == bill'[o].paid
    IN  /\ bill[o].state # "none"
        /\ paid \in Nat \ {0} /\ paid >= bill[o].paid
        /\ bill' = [bill EXCEPT ![o] =
              [state |-> IF paid >= @.due THEN "settled" ELSE @.state,
               table |-> @.table, due |-> @.due, paid |-> paid]]

-----------------------------------------------------------------------------
Next == \E o \in Orders :
    \/ \E t \in Tables, price \in Prices : Place(o, t, price)
    \/ \E price \in Prices : Extend(o, price)
    \/ \E state \in {"closed", "cancelled"} : Retire(o, state)
    \/ Receive(o)

Spec == Init /\ [][Next]_bill
=============================================================================
