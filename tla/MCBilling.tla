----------------------------- MODULE MCBilling -----------------------------
(* The ledger of a tenant on small instances. *)
EXTENDS Billing, TLC

CONSTANTS r1, r2, r3, key1, key2

\* Two attempts of one API key, one of another.
TwoKeys == r1 :> key1 @@ r2 :> key1 @@ r3 :> key2
NoKeys == [r \in Reservation |-> {}]

\* One key is limited, and so is the tenant, later.
Limits == << [holder |-> key1, limit |-> 3, starts |-> 0, ends |-> 9],
             [holder |-> Tenant, limit |-> 4, starts |-> 1, ends |-> 3] >>
=============================================================================
