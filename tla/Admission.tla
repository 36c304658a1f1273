----------------------------- MODULE Admission -----------------------------
(***************************************************************************)
(* One pool of the executor's bounded admission gate                       *)
(* (internal/inference/admission.go).  The three pools share a mutex and    *)
(* nothing else, so each is an instance of this module with its own limits. *)
(*                                                                         *)
(* A step is one critical section under the mutex, or a caller's return     *)
(* from its select.  A rejection (ErrOverloaded) writes nothing and is no   *)
(* step.                                                                   *)
(***************************************************************************)
EXTENDS Integers, FiniteSets, Sequences

CONSTANTS
  Caller,        \* goroutines that call Acquire, one call each at a time
  TenantId,      \* the tenants that callers name
  NoTenant,      \* the tenant of a caller outside Acquire and Permit
  MaxActive,     \* ClassLimit.MaxActive, 1 when configured <= 0
  MaxQueued,     \* ClassLimit.MaxQueued; 0: no queue
  PerTenant,     \* ClassLimit.PerTenant; 0: unlimited
  MaxCount       \* bound: a tenant's counts from here on are not told apart

ASSUME LimitAssumption ==
  /\ MaxActive \in Nat \ {0}
  /\ MaxQueued \in Nat
  /\ PerTenant \in Nat
  /\ MaxCount \in Nat
  /\ MaxCount >= PerTenant   \* a limited tenant counts to PerTenant at most

ASSUME NoTenantAssumption == NoTenant \notin TenantId

VARIABLES
  active,    \* admissionPool.active
  queued,    \* admissionPool.queued
  tenants,   \* admissionPool.tenants; a missing key counts 0
  waiters,   \* admissionPool.waiters: the waiting callers, in FIFO order
  pc,        \* each caller: outside, waiting, granted (the slot is handed off and its
             \* select has not returned yet) or holding a permit
  tenant     \* the tenant each caller acquires for

pool == <<active, queued, tenants, waiters, pc, tenant>>

PoolTypes ==
  /\ active \in 0..MaxActive
  /\ queued \in 0..MaxQueued
  /\ tenants \in [TenantId -> 0..MaxCount]
  /\ waiters \in Seq(Caller)
  /\ pc \in [Caller -> {"outside", "waiting", "granted", "holding"}]
  /\ tenant \in [Caller -> TenantId \cup {NoTenant}]

PoolInit ==
  /\ active = 0
  /\ queued = 0
  /\ tenants = [t \in TenantId |-> 0]
  /\ waiters = <<>>
  /\ pc = [c \in Caller |-> "outside"]
  /\ tenant = [c \in Caller |-> NoTenant]

-----------------------------------------------------------------------------
TenantFull(t) == PerTenant > 0 /\ tenants[t] >= PerTenant

Count(t) ==
  tenants' = [tenants EXCEPT ![t] = IF @ < MaxCount THEN @ + 1 ELSE @]

\* A slot is free and nobody waits for it.
AcquireNow(c, t) ==
  /\ pc[c] = "outside"
  /\ active < MaxActive
  /\ waiters = <<>>
  /\ ~TenantFull(t)
  /\ active' = active + 1
  /\ Count(t)
  /\ pc' = [pc EXCEPT ![c] = "holding"]
  /\ tenant' = [tenant EXCEPT ![c] = t]
  /\ UNCHANGED <<queued, waiters>>

\* Faulty variant: PushFront.
AcquireInFront(c, t) ==
  /\ pc[c] = "outside"
  /\ active >= MaxActive \/ waiters # <<>>
  /\ ~TenantFull(t)
  /\ queued < MaxQueued
  /\ queued' = queued + 1
  /\ Count(t)
  /\ waiters' = <<c>> \o waiters
  /\ pc' = [pc EXCEPT ![c] = "waiting"]
  /\ tenant' = [tenant EXCEPT ![c] = t]
  /\ UNCHANGED active

AcquireQueued(c, t) ==
  /\ pc[c] = "outside"
  /\ active >= MaxActive \/ waiters # <<>>
  /\ ~TenantFull(t)
  /\ queued < MaxQueued
  /\ queued' = queued + 1
  /\ Count(t)
  /\ waiters' = Append(waiters, c)
  /\ pc' = [pc EXCEPT ![c] = "waiting"]
  /\ tenant' = [tenant EXCEPT ![c] = t]
  /\ UNCHANGED active

\* The select returns by the wake.
Wake(c) ==
  /\ pc[c] = "granted"
  /\ pc' = [pc EXCEPT ![c] = "holding"]
  /\ UNCHANGED <<active, queued, tenants, waiters, tenant>>

\* grantLocked: with a slots in use, n waiters in line and place p of the
\* callers, capacity goes to the head of line as far as it reaches.
GrantLocked(a, n, line, p) ==
  LET free  == MaxActive - a
      count == IF free < Len(line) THEN free ELSE Len(line)
      won   == {line[i] : i \in 1..count}
  IN /\ active' = a + count
     /\ queued' = n - count
     /\ waiters' = SubSeq(line, count + 1, Len(line))
     /\ pc' = [c \in Caller |-> IF c \in won THEN "granted" ELSE p[c]]

Gone(c) == tenant' = [tenant EXCEPT ![c] = NoTenant]

\* Faulty variant: the freed slot is not handed on.
ReleaseNoGrant(c) ==
  /\ pc[c] = "holding"
  /\ active' = active - 1
  /\ pc' = [pc EXCEPT ![c] = "outside"]
  /\ Gone(c)
  /\ UNCHANGED <<queued, tenants, waiters>>

\* Permit.Release.  Later calls of the same permit are no-ops (sync.Once).
Release(c) ==
  /\ pc[c] = "holding"
  /\ GrantLocked(active - 1, queued, waiters, [pc EXCEPT ![c] = "outside"])
  /\ Gone(c)
  /\ UNCHANGED tenants

\* The count of a tenant, where a key at or below zero is deleted.
Discount(t) ==
  tenants' = [tenants EXCEPT ![t] = IF @ > 0 THEN @ - 1 ELSE 0]

\* The context ends while the caller is in the queue.
CancelQueued(c) ==
  /\ pc[c] = "waiting"
  /\ \E i \in 1..Len(waiters) :
       /\ waiters[i] = c
       /\ GrantLocked(active, queued - 1,
                      SubSeq(waiters, 1, i - 1) \o SubSeq(waiters, i + 1, Len(waiters)),
                      [pc EXCEPT ![c] = "outside"])
  /\ Discount(tenant[c])
  /\ Gone(c)

\* Faulty variant: the handed-off slot is forgotten.
CancelGrantedLeak(c) ==
  /\ pc[c] = "granted"
  /\ GrantLocked(active, queued, waiters, [pc EXCEPT ![c] = "outside"])
  /\ Discount(tenant[c])
  /\ Gone(c)

\* The context ends after the slot was handed off: the select may choose
\* ctx.Done although the wake is ready, and the slot goes to the next waiter.
CancelGranted(c) ==
  /\ pc[c] = "granted"
  /\ GrantLocked(active - 1, queued, waiters, [pc EXCEPT ![c] = "outside"])
  /\ Discount(tenant[c])
  /\ Gone(c)

PoolNext ==
  \E c \in Caller :
    \/ \E t \in TenantId : AcquireNow(c, t) \/ AcquireQueued(c, t)
    \/ Wake(c)
    \/ Release(c)
    \/ CancelQueued(c)
    \/ CancelGranted(c)

PoolSpec == PoolInit /\ [][PoolNext]_pool

\* A permit is released once its response or stream body closes, and a select
\* with a ready case returns.  No context need ever end.
PoolFairness ==
  \A c \in Caller : WF_pool(Wake(c) \/ CancelGranted(c)) /\ WF_pool(Release(c))

PoolFairSpec == PoolSpec /\ PoolFairness

-----------------------------------------------------------------------------
In(places) == {c \in Caller : pc[c] \in places}

\* Slots are conserved: however grants, cancellations and releases interleave,
\* the pool counts exactly the permits in callers' hands or on their way there,
\* the queue holds exactly the callers that wait, both respect their limit, and no
\* slot is free while somebody waits for one.
SlotsConserved ==
  /\ active = Cardinality(In({"granted", "holding"}))
  /\ active <= MaxActive
  /\ queued = Len(waiters)
  /\ queued <= MaxQueued
  /\ {waiters[i] : i \in 1..Len(waiters)} = In({"waiting"})
  /\ Cardinality(In({"waiting"})) = Len(waiters)
  /\ waiters # <<>> => active = MaxActive

Ahead(c, d) ==
  \E i, k \in 1..Len(waiters) : i < k /\ waiters[i] = c /\ waiters[k] = d

\* First come, first served: whoever arrives while c waits gets in line behind c,
\* stays there and is not granted before c is granted or gone.
Fifo ==
  [][\A c, d \in Caller :
       pc[c] = "waiting" /\ pc'[c] = "waiting" =>
         /\ pc[d] = "outside" => pc'[d] \in {"outside", "waiting"}
         /\ pc[d] = "outside" /\ pc'[d] = "waiting" => Ahead(c, d)'
         /\ Ahead(c, d) => pc'[d] = "outside" \/ Ahead(c, d)']_pool

\* A queued caller does not wait forever while permits are released.
WaitersServed == \A c \in Caller : pc[c] = "waiting" ~> pc[c] # "waiting"
=============================================================================
