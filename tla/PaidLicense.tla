---------------------------- MODULE PaidLicense ----------------------------
(***************************************************************************)
(* What billing promises of the licenses of an application, whatever its   *)
(* queue, its workers and its database go through: a license appears with  *)
(* its user's login or payment and is never removed; any other change is   *)
(* the one that a genuine event prescribes, which the payment provider has *)
(* reported, for a user whom that event concerns; and who is on record as  *)
(* having paid has such a payment.                                         *)
(***************************************************************************)
CONSTANTS
    Users,
    Events,     \* genuine payment events
    Concerns,   \* the users whose license an event may change
    Status      \* the status it changes it to

VARIABLES
    license,    \* status of each user's license, or "none"
    paid,       \* users with a transaction on record
    reported    \* events the provider has reported

Init ==
    /\ license = [u \in Users |-> "none"]
    /\ paid = {} /\ reported = {}

Report(e) ==
    /\ reported' = reported \cup {e}
    /\ UNCHANGED <<license, paid>>

Login(u) ==
    /\ license[u] = "none"
    /\ license' = [license EXCEPT ![u] = "active"]
    /\ UNCHANGED <<paid, reported>>

(* Only a payment may create the license, and only make it active.         *)
Take(e, u) ==
    /\ e \in reported /\ u \in Concerns[e]
    /\ license[u] = "none" => Status[e] = "active"
    /\ license' = [license EXCEPT ![u] = Status[e]]
    /\ UNCHANGED <<paid, reported>>

Pay(e, u) ==
    /\ e \in reported /\ u \in Concerns[e]
    /\ Status[e] = "active" /\ license[u] # "none"
    /\ paid' = paid \cup {u}
    /\ UNCHANGED <<license, reported>>

Next ==
    \/ \E e \in Events : Report(e)
    \/ \E u \in Users : Login(u)
    \/ \E e \in Events, u \in Users : Take(e, u) \/ Pay(e, u)

Spec == Init /\ [][Next]_<<license, paid, reported>>
=============================================================================
