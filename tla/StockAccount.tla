---------------------------- MODULE StockAccount ----------------------------
(***************************************************************************)
(* What the stock engine promises its callers: each inventory item is an   *)
(* account that movements change one at a time, each judged against and    *)
(* applied to the balance of that moment.  Nothing of the versions, the    *)
(* reads or the retries that achieve it is visible here.                   *)
(***************************************************************************)
EXTENDS StockRules

CONSTANTS
  Items,        (* the inventory items                                     *)
  Openings,     (* the balances an item may be opened with                 *)
  Units         (* the quantities movements come in                        *)

VARIABLES
  stock,        (* the buckets of each item                                *)
  life          (* "absent", "live" or "deleted"                           *)

accountVars == << stock, life >>

AccountInit ==
  /\ stock = [i \in Items |-> EmptyBuckets]
  /\ life  = [i \in Items |-> "absent"]

Open(i, b) ==
  /\ life[i] = "absent"
  /\ life'  = [life EXCEPT ![i] = "live"]
  /\ stock' = [stock EXCEPT ![i] = b]

Apply(i, m) ==
  /\ life[i] = "live"
  /\ Accepts(stock[i], m)
  /\ stock' = [stock EXCEPT ![i] = Moved(stock[i], m)]
  /\ UNCHANGED life

Announce(i, q) ==
  /\ life[i] = "live"
  /\ stock' = [stock EXCEPT ![i].incoming = stock[i].incoming + q]
  /\ UNCHANGED life

Retire(i) ==
  /\ life[i] = "live"
  /\ life' = [life EXCEPT ![i] = "deleted"]
  /\ UNCHANGED stock

AccountNext ==
  \E i \in Items :
    \/ \E b \in Openings : Open(i, b)
    \/ \E m \in MovementsOf(Units) : Apply(i, m)
    \/ \E q \in Units : Announce(i, q)
    \/ Retire(i)

AccountSpec == AccountInit /\ [][AccountNext]_accountVars

=============================================================================
