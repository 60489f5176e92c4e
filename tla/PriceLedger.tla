---------------------------- MODULE PriceLedger ----------------------------
(***************************************************************************)
(* What an SCD Type 2 table promises: a value per key and the complete,    *)
(* append-only log of its changes.  A fold may change any set of keys at   *)
(* the present instant; every change is logged once, nothing else is.      *)
(***************************************************************************)
EXTENDS Naturals

CONSTANTS Key, Price, None,
          MayClear    \* whether a key that has a price may lose it

VARIABLES
  value,        \* the price of each key, None when it has none
  log,          \* the changes: [key, price, at]
  now

ledger == <<value, log, now>>

Init ==
  /\ value = [k \in Key |-> None]
  /\ log = {}
  /\ now = 1

Change ==
  /\ value' \in [Key -> Price \cup {None}]
  /\ \A k \in Key : value'[k] = None => MayClear \/ value[k] = None
  /\ log' = log \cup {[key |-> k, price |-> value'[k], at |-> now] :
                        k \in {k \in Key : value'[k] # value[k]}}
  /\ now' = now + 1

Spec == Init /\ [][Change]_ledger
=============================================================================
