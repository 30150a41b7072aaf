------------------------------ MODULE Accounts ------------------------------
(***************************************************************************)
(* What the user table promises: a set of accounts by name, each with an   *)
(* identifier that no account, present or removed, had before.             *)
(***************************************************************************)
EXTENDS Naturals, FiniteSets, Functions

CONSTANTS Name, Account, Limit

VARIABLES
  account,   \* [the names that exist -> Account]
  used       \* every uid given so far

vars == <<account, used>>

Init == account = <<>> /\ used = {}

Add ==
  /\ Cardinality(DOMAIN account) < Limit
  /\ \E n \in Name \ DOMAIN account :
       /\ DOMAIN account' = DOMAIN account \cup {n}
       /\ Restrict(account', DOMAIN account) = account
       /\ account'[n] \in Account /\ account'[n].uid \notin used
       /\ used' = used \cup {account'[n].uid}

Remove ==
  /\ \E n \in DOMAIN account : account' = Restrict(account, DOMAIN account \ {n})
  /\ UNCHANGED used

Next == Add \/ Remove

Spec == Init /\ [][Next]_vars
=============================================================================
