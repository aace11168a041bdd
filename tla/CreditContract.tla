--------------------------- MODULE CreditContract ---------------------------
(***************************************************************************)
(* What a cross-chain transfer promises, without the database, the chains  *)
(* or the retry jobs: money leaves the platform towards the destination    *)
(* wallet only for a transfer the user has funded, and a transfer is       *)
(* reported as completed only once a payment has been delivered.  Delivery *)
(* is at least once: the contract does not bound the number of payments.   *)
(***************************************************************************)

CONSTANTS Transfers, Payments

VARIABLES
    funded,      \* transfers whose debit has reached the operator wallet
    delivered,   \* payments that reached the destination wallet, per transfer
    completed    \* transfers reported as completed

vars == <<funded, delivered, completed>>

Init ==
    /\ funded = {}
    /\ delivered = [t \in Transfers |-> {}]
    /\ completed = {}

Fund(t) ==
    /\ funded' = funded \cup {t}
    /\ UNCHANGED <<delivered, completed>>

Deliver(t, p) ==
    /\ t \in funded
    /\ \A u \in Transfers : p \notin delivered[u]
    /\ delivered' = [delivered EXCEPT ![t] = @ \cup {p}]
    /\ UNCHANGED <<funded, completed>>

Complete(t) ==
    /\ delivered[t] # {}
    /\ completed' = completed \cup {t}
    /\ UNCHANGED <<funded, delivered>>

\* A concurrent attempt that fails late puts a completed transfer back in line.
Reopen(t) ==
    /\ t \in completed
    /\ completed' = completed \ {t}
    /\ UNCHANGED <<funded, delivered>>

Next ==
    \E t \in Transfers :
        \/ Fund(t)
        \/ \E p \in Payments : Deliver(t, p)
        \/ Complete(t)
        \/ Reopen(t)

Spec == Init /\ [][Next]_vars
=============================================================================
