-------------------------------- MODULE Token --------------------------------
(***************************************************************************)
(* The Stellar Asset Contract the Orivex contracts are paid in, modelled   *)
(* from how they call it: `transfer(from, to, amount)' and `balance(id)'.  *)
(* A ledger is a function from addresses to natural numbers.  Nothing of   *)
(* this module is under contracts/: the token belongs to the Soroban host. *)
(***************************************************************************)
EXTENDS Integers, FiniteSets

(* A transfer traps on a negative amount and on one the payer cannot cover. *)
CanTransfer(ledger, from, amount) == amount \in 0..ledger[from]

(* Credited after the debit, so that paying oneself changes nothing.       *)
Transfer(ledger, from, to, amount) ==
  LET debited == [ledger EXCEPT ![from] = @ - amount]
  IN  [debited EXCEPT ![to] = @ + amount]

(***************************************************************************)
(* The number of token units on a ledger, counted as the set of all units: *)
(* address a holds the units <<a, 1>> .. <<a, ledger[a]>>.  Written without *)
(* recursion so that TokenTheorems can reason about it.                    *)
(***************************************************************************)
UnitsAt(ledger, a) == {a} \X (1..ledger[a])
Units(ledger) == UNION {UnitsAt(ledger, a) : a \in DOMAIN ledger}
Total(ledger) == Cardinality(Units(ledger))
==============================================================================
