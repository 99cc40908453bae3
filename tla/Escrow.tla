------------------------------- MODULE Escrow -------------------------------
(***************************************************************************)
(* What the timelock program promises, without clocks, schedules, word     *)
(* arithmetic and accounts: an escrow between a payer and a payee.  What   *)
(* is due to the payee only grows; payments never exceed it; a settlement  *)
(* gives the payee all that is due, as far as the funds reach, and the     *)
(* payer the rest, and is final.                                           *)
(***************************************************************************)
EXTENDS Naturals

CONSTANTS Parties,  \* who pays, who is paid
          Deals,    \* the names of deals
          Units,    \* the amounts there are
          NoDeal    \* the state of a name not in use yet

VARIABLES deal,     \* per name: payer, payee, what was paid, and whether open
          held,     \* per name: what is in escrow
          due,      \* per name: what the payee may have been paid by now
          funds     \* per party: what it has

vars == <<deal, held, due, funds>>

Init ==
  /\ deal = [d \in Deals |-> NoDeal]
  /\ held = [d \in Deals |-> 0]
  /\ due = [d \in Deals |-> 0]
  /\ funds \in [Parties -> Units]

IsOpen(d) == deal[d] # NoDeal /\ deal[d].open

Smaller(a, b) == IF a <= b THEN a ELSE b

(* f after party p received, or gave, amount.                              *)
Plus(f, p, amount) == [f EXCEPT ![p] = @ + amount]
Minus(f, p, amount) == [f EXCEPT ![p] = @ - amount]

(* p puts amount in escrow for q, who may pass the deal on if assignable.  *)
Agree(d, p, q) ==
  /\ deal[d] = NoDeal
  /\ \E amount \in Units, assignable \in BOOLEAN :
       /\ amount <= funds[p]
       /\ deal' = [deal EXCEPT
                     ![d] = [payer |-> p, payee |-> q, paid |-> 0,
                             open |-> TRUE, assignable |-> assignable]]
       /\ held' = [held EXCEPT ![d] = amount]
       /\ funds' = Minus(funds, p, amount)
  /\ UNCHANGED due

(* Anybody adds to what is in escrow.                                      *)
Add(d, p) ==
  /\ IsOpen(d)
  /\ UNCHANGED <<deal, due>>
  /\ \E amount \in Units :
       /\ amount <= funds[p]
       /\ held' = Plus(held, d, amount)
       /\ funds' = Minus(funds, p, amount)

(* The payee is paid; a deal whose funds that exhausts may end with it.    *)
Pay(d) ==
  /\ IsOpen(d)
  /\ UNCHANGED due
  /\ \E amount \in Units, open \in BOOLEAN :
       /\ amount <= held[d]
       /\ deal[d].paid + amount <= due[d]
       /\ open \/ amount = held[d]
       /\ deal' = [deal EXCEPT ![d].paid = @ + amount, ![d].open = open]
       /\ held' = Minus(held, d, amount)
       /\ funds' = Plus(funds, deal[d].payee, amount)

(* The deal ends: the payee gets what is due, the payer the rest.          *)
Settle(d) ==
  LET last == Smaller(held[d], due[d] - deal[d].paid)
  IN /\ IsOpen(d)
     /\ UNCHANGED due
     /\ deal' = [deal EXCEPT ![d].paid = @ + last, ![d].open = FALSE]
     /\ held' = [held EXCEPT ![d] = 0]
     /\ funds' = Plus(Plus(funds, deal[d].payee, last),
                      deal[d].payer, held[d] - last)

Assign(d, q) ==
  /\ IsOpen(d)
  /\ deal[d].assignable
  /\ deal' = [deal EXCEPT ![d].payee = q]
  /\ UNCHANGED <<held, due, funds>>

(* More becomes due, on any number of deals at once.                       *)
Vest ==
  /\ UNCHANGED <<deal, held, funds>>
  /\ due' \in [Deals -> Units]
  /\ \A d \in Deals : due[d] <= due'[d] /\ (deal[d] = NoDeal => due'[d] = 0)

(* Parties have other business with each other.                            *)
Trade(p, q) ==
  /\ p # q
  /\ UNCHANGED <<deal, held, due>>
  /\ \E amount \in Units :
       /\ amount <= funds[p]
       /\ funds' = Plus(Minus(funds, p, amount), q, amount)

Next ==
  \/ \E d \in Deals :
       \/ \E p, q \in Parties : Agree(d, p, q)
       \/ \E p \in Parties : Add(d, p)
       \/ Pay(d)
       \/ Settle(d)
       \/ \E q \in Parties : Assign(d, q)
  \/ Vest
  \/ \E p, q \in Parties : Trade(p, q)

Spec == Init /\ [][Next]_vars
=============================================================================
