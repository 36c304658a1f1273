----------------------------- MODULE MCExecute -----------------------------
(* Two or three model calls of a tenant on small instances. *)
EXTENDS Execute, TLC

CONSTANTS r1, r2, r3

TenantPays == [a \in Reservation |-> Tenant]
NoKeys == [a \in Reservation |-> {}]
TenantLimit == << [holder |-> Tenant, limit |-> 3, starts |-> 0, ends |-> 9] >>
=============================================================================
