---------------------------- MODULE SurfaceProofs ----------------------------
(***************************************************************************)
(* Proofs about Surface, for all sets of identifiers, any tables to begin   *)
(* with and any number of requests in flight.  A part has an invariant over *)
(* its own variables, which the steps of the other parts leave alone.       *)
(***************************************************************************)
EXTENDS Surface, Sequences, FiniteSetTheorems, TLAPS

-----------------------------------------------------------------------------
(* Responses.  The inductive invariant. *)

Upstream == Response \cup Item
Mention == {m \in [as : {"response", "item", "previous"}, up : Upstream] :
              m.as = "response" => m.up \in Response}
RequestRecord ==
  [at : {"idle", "resolve", "name", "bind"}, do : R!Priced \cup R!FollowUp,
   by : Actor \cup {None}, left : Seq(Public), e : Endpoint \cup {None}, ups : Seq(Public),
   todo : Seq(Mention), known : SUBSET [up : Upstream, pub : Public],
   parent : Public \cup {None}, tries : Nat]

Types ==
  /\ binding \in [Public -> R!Binding \cup {None}]
  /\ retained \in [Endpoint -> [Response -> {"none", "live", "deleted"}]]
  /\ req \in [Request -> RequestRecord]

Gone(b) == b.up \in Response /\ retained[b.e][b.up] = "deleted"

\* The unique index, and names retired only when what they stood for is gone.
Rows ==
  \A p \in Public : binding[p] # None =>
    /\ binding[p].kind = "response" => binding[p].up \in Response
    /\ ~binding[p].live => Gone(binding[p])
    /\ \A q \in Public : binding[q] # None /\ R!Key(binding[q]) = R!Key(binding[p]) => p = q

\* What a request has resolved agrees with the rows.
Resolved(q) ==
  /\ q.at = "resolve" /\ q.ups = <<>> => q.e = None
  /\ \A i \in DOMAIN q.ups :
       LET b == binding[q.ups[i]]
       IN /\ b # None
          /\ b.owner \in {q.by, Delegator[q.by]}
          /\ i = 1 \/ q.do \in R!Priced => b.e = q.e
          /\ i = 1 /\ q.do \in R!FollowUp => b.kind = "response"

\* So do the names in its answer.
Exposed(q) ==
  \A n \in q.known : LET b == binding[n.pub] IN b # None /\ b.e = q.e /\ b.up = n.up

\* A deletion that is being answered has happened.
Deletes(q) ==
  q.at \in {"name", "bind"} /\ q.do = "delete" => q.ups # <<>> /\ Gone(binding[q.ups[1]])

\* What a request has at each of its stages.
Staged(q) ==
  /\ q.at # "idle" => q.by \in Actor
  /\ q.at = "resolve" => q.known = {}
  /\ q.at = "resolve" /\ q.do \in R!FollowUp => q.left # <<>> \/ q.ups # <<>>
  /\ q.at \in {"name", "bind"} => q.e \in Endpoint
  /\ q.at = "bind" => q.todo # <<>> /\ Head(q.todo).as # "previous"

Sound(q) == Resolved(q) /\ Exposed(q) /\ Deletes(q) /\ Staged(q)

IInv == Types /\ Rows /\ \A r \in Request : Sound(req[r])

-----------------------------------------------------------------------------
(* Rows keep what they stand for, and what is gone at the provider stays gone. *)

Same(b, c) == /\ c # None
              /\ c.kind = b.kind /\ c.e = b.e /\ c.owner = b.owner /\ c.up = b.up

Grows ==
  /\ \A p \in Public : binding[p] # None => Same(binding[p], binding'[p])
  /\ \A e \in Endpoint, u \in Response :
       retained[e][u] = "deleted" => retained'[e][u] = "deleted"

\* A request that does not move stays sound.
LEMMA SoundStays ==
  ASSUME Types, Grows, NEW q \in RequestRecord, Sound(q)
  PROVE  Sound(q)'
<1>1. \A i \in DOMAIN q.ups : q.ups[i] \in Public
  BY DEF RequestRecord
<1>2. \A n \in q.known : n.pub \in Public
  BY DEF RequestRecord
<1>3. \A p \in Public : binding[p] # None =>
        Same(binding[p], binding'[p]) /\ (Gone(binding[p]) => Gone(binding[p])')
  BY DEF Types, Grows, Same, Gone, R!Binding
<1>4. Resolved(q)'
  BY <1>1, <1>3 DEF Sound, Resolved, Same
<1>5. Exposed(q)'
  BY <1>2, <1>3 DEF Sound, Exposed, Same
<1>6. Deletes(q)'
  <2>. SUFFICES ASSUME q.at \in {"name", "bind"}, q.do = "delete"
                PROVE  q.ups # <<>> /\ Gone(binding[q.ups[1]])'
    BY DEF Deletes
  <2>1. q.ups # <<>> /\ Gone(binding[q.ups[1]])
    BY DEF Sound, Deletes
  <2>2. 1 \in DOMAIN q.ups
    BY <2>1 DEF RequestRecord
  <2>3. binding[q.ups[1]] # None
    BY <2>2 DEF Sound, Resolved
  <2>. QED  BY <1>1, <1>3, <2>1, <2>2, <2>3
<1>7. Staged(q)'
  BY DEF Sound, Staged
<1>. QED  BY <1>4, <1>5, <1>6, <1>7 DEF Sound

\* Where a step moves one request and rows only grow, what is left to show is about it.
LEMMA OneMoves ==
  ASSUME IInv, Grows, NEW r \in Request, NEW x \in RequestRecord, R!Becomes(r, x),
         Types', Rows', Sound(x)'
  PROVE  IInv'
<1>. SUFFICES ASSUME NEW s \in Request PROVE Sound(req[s])'
  BY DEF IInv
<1>1. CASE s = r
  BY <1>1 DEF R!Becomes, IInv, Types
<1>2. CASE s # r
  <2>1. req'[s] = req[s] /\ req[s] \in RequestRecord
    BY <1>2 DEF R!Becomes, IInv, Types
  <2>2. Sound(req[s])
    BY DEF IInv
  <2>3. \A q \in RequestRecord : Sound(q) => Sound(q)'
    BY SoundStays DEF IInv
  <2>. QED  BY <2>1, <2>2, <2>3
<1>. QED  BY <1>1, <1>2

\* Where nothing but the request moves, that is enough.
LEMMA OnlyOneMoves ==
  ASSUME IInv, NEW r \in Request, NEW x \in RequestRecord, R!Becomes(r, x),
         UNCHANGED <<binding, retained>>, Sound(x)
  PROVE  IInv'
<1>1. Types'
  BY DEF IInv, Types, R!Becomes
<1>2. Rows'
  BY DEF IInv, Rows, Gone, R!Key
<1>3. Grows
  BY DEF Grows, Same, IInv, Types
<1>4. Sound(x)'
  BY <1>3, SoundStays DEF IInv
<1>. QED  BY <1>1, <1>2, <1>3, <1>4, OneMoves

-----------------------------------------------------------------------------
(* The actions. *)

LEMMA IdleIsSound ==
  ASSUME R!Constants
  PROVE  R!Idle \in RequestRecord /\ Sound(R!Idle) /\ Sound(R!Idle)'
BY DEF R!Idle, RequestRecord, Sound, Resolved, Exposed, Deletes, Staged, R!Priced, R!FollowUp

LEMMA InitIInv == ASSUME R!Constants, R!Init PROVE IInv
<1>1. Types
  BY IdleIsSound DEF R!Constants, R!Init, Types
<1>2. Rows
  BY DEF R!Constants, R!Init, Rows
<1>3. \A r \in Request : Sound(req[r])
  BY IdleIsSound DEF R!Init
<1>. QED  BY <1>1, <1>2, <1>3 DEF IInv

LEMMA BeginIInv ==
  ASSUME R!Constants, IInv, NEW r \in Request, NEW a \in Actor, NEW do \in R!Priced \cup R!FollowUp,
         NEW refs \in References, R!Begin(r, a, do, refs)
  PROVE  IInv'
<1>. DEFINE x == [R!Idle EXCEPT !.at = "resolve", !.do = do, !.by = a, !.left = refs]
<1>1. refs \in Seq(Public)
  BY DEF R!Constants
<1>2. x \in RequestRecord
  BY <1>1, IdleIsSound DEF RequestRecord
<1>3. Sound(x)
  BY DEF R!Begin, R!Idle, Sound, Resolved, Exposed, Deletes, Staged, R!Priced, R!FollowUp
<1>4. R!Becomes(r, x) /\ UNCHANGED <<binding, retained>>
  BY DEF R!Begin
<1>. QED  BY <1>2, <1>3, <1>4, OnlyOneMoves

\* The first reference decides the endpoint, and a priced request's others share it.
LEMMA ResolveIInv ==
  ASSUME R!Constants, IInv, NEW r \in Request, R!Resolve(r)
  PROVE  IInv'
<1>. DEFINE q == req[r]
            p == Head(q.left)
            b == binding[p]
            x == [q EXCEPT !.left = Tail(@), !.e = R!Pinned(q, b), !.ups = Append(@, p)]
<1>1. q \in RequestRecord /\ Sound(q)
  BY DEF IInv, Types
<1>2. /\ q.at = "resolve" /\ q.left # <<>> /\ R!Bound(p, q.by)
      /\ q.do \in R!Priced => R!Pinned(q, b) = b.e
      /\ q.do \in R!FollowUp /\ q.ups = <<>> => b.kind = "response"
      /\ R!Becomes(r, x) /\ UNCHANGED <<binding, retained>>
  BY DEF R!Resolve
<1>3. p \in Public /\ Tail(q.left) \in Seq(Public)
  BY <1>1, <1>2 DEF RequestRecord
<1>4. b # None /\ b \in R!Binding /\ b.e \in Endpoint /\ b.owner \in {q.by, Delegator[q.by]}
  BY <1>2, <1>3 DEF R!Bound, IInv, Types, R!Binding
<1>5. R!Pinned(q, b) \in Endpoint
  BY <1>1, <1>4 DEF R!Pinned, RequestRecord
<1>6. x \in RequestRecord
  <2>1. Append(q.ups, p) \in Seq(Public)
    BY <1>1, <1>3 DEF RequestRecord
  <2>. QED  BY <1>1, <1>3, <1>5, <2>1 DEF RequestRecord
<1>7. Sound(x)
  <2>1. Len(q.ups) \in Nat /\ DOMAIN q.ups = 1 .. Len(q.ups)
    BY <1>1 DEF RequestRecord
  <2>2. x.ups = Append(q.ups, p) /\ x.e = R!Pinned(q, b) /\ x.at = "resolve"
        /\ x.by = q.by /\ x.do = q.do /\ x.known = q.known /\ x.todo = q.todo
    BY <1>1, <1>2 DEF RequestRecord
  <2>3. x.ups # <<>>
    BY <1>1, <1>3, <2>2 DEF RequestRecord
  <2>4. q.ups # <<>> => 1 \in DOMAIN q.ups
    BY <1>1 DEF RequestRecord
  <2>5. q.ups = <<>> => R!Pinned(q, b) = b.e
    BY <1>1, <1>2 DEF Sound, Resolved, R!Pinned
  <2>6. q.ups # <<>> => R!Pinned(q, b) = q.e
    <3>. SUFFICES ASSUME q.ups # <<>> PROVE q.e # None
      BY DEF R!Pinned
    <3>1. q.ups[1] \in Public /\ binding[q.ups[1]] # None /\ binding[q.ups[1]].e = q.e
      BY <1>1, <2>4 DEF Sound, Resolved, RequestRecord
    <3>. QED  BY <3>1 DEF IInv, Types, R!Binding, R!Constants
  <2>7. ASSUME NEW i \in DOMAIN x.ups
        PROVE  LET c == binding[x.ups[i]]
               IN /\ c # None
                  /\ c.owner \in {x.by, Delegator[x.by]}
                  /\ i = 1 \/ x.do \in R!Priced => c.e = x.e
                  /\ i = 1 /\ x.do \in R!FollowUp => c.kind = "response"
    <3>1. CASE i \in DOMAIN q.ups
      <4>1. x.ups[i] = q.ups[i] /\ q.ups # <<>>
        BY <1>1, <1>3, <2>1, <2>2, <3>1 DEF RequestRecord
      <4>. QED  BY <1>1, <2>2, <2>6, <3>1, <4>1 DEF Sound, Resolved
    <3>2. CASE i \notin DOMAIN q.ups
      <4>1. i = Len(q.ups) + 1 /\ x.ups[i] = p
        BY <1>1, <1>3, <2>1, <2>2, <3>2 DEF RequestRecord
      <4>2. i = 1 => q.ups = <<>>
        BY <1>1, <2>1, <4>1 DEF RequestRecord
      <4>. QED  BY <1>2, <1>4, <2>2, <2>5, <4>1, <4>2
    <3>. QED  BY <3>1, <3>2
  <2>8. Resolved(x)
    BY <2>3, <2>7 DEF Resolved
  <2>9. Exposed(x) /\ Deletes(x) /\ Staged(x)
    BY <1>1, <1>2, <2>2, <2>3 DEF Sound, Exposed, Deletes, Staged
  <2>. QED  BY <2>8, <2>9 DEF Sound
<1>. QED  BY <1>2, <1>6, <1>7, OnlyOneMoves

\* An answer is made of responses named as such and of items.
LEMMA CreatedMentions ==
  ASSUME NEW u \in Response, NEW i \in Item, NEW q \in RequestRecord, IInv, Resolved(q)
  PROVE  R!Created(u, i, q) \in Seq(Mention)
<1>1. <<R!As("response", u)>> \in Seq(Mention) /\ <<R!As("item", i)>> \in Seq(Mention)
  BY DEF R!As, Mention, Upstream
<1>2. (IF q.ups # <<>> THEN <<R!As("previous", binding[q.ups[1]].up)>> ELSE <<>>) \in Seq(Mention)
  <2>. SUFFICES ASSUME q.ups # <<>> PROVE R!As("previous", binding[q.ups[1]].up) \in Mention
    OBVIOUS
  <2>1. q.ups[1] \in Public /\ binding[q.ups[1]] # None
    BY DEF RequestRecord, Resolved
  <2>. QED  BY <2>1 DEF R!As, Mention, Upstream, IInv, Types, R!Binding
<1>. QED  BY <1>1, <1>2 DEF R!Created

LEMMA FollowedMentions ==
  ASSUME NEW u \in Response, NEW i \in Item, NEW do
  PROVE  R!Followed(do, u, i) \subseteq Seq(Mention)
<1>1. R!As("response", u) \in Mention /\ R!As("item", i) \in Mention
  BY DEF R!As, Mention, Upstream
<1>2. /\ <<R!As("response", u)>> \in Seq(Mention) /\ <<R!As("item", i)>> \in Seq(Mention)
      /\ <<R!As("response", u), R!As("item", i)>> \in Seq(Mention)
      /\ <<R!As("item", i), R!As("response", u)>> \in Seq(Mention)
  BY <1>1
<1>. QED  BY <1>2 DEF R!Followed

\* A response is created on the endpoint of every reference that was sent.
LEMMA CreateIInv ==
  ASSUME R!Constants, IInv, NEW r \in Request, NEW e \in Endpoint, NEW u \in Response,
         NEW i \in Item, R!Create(r, e, u, i)
  PROVE  IInv'
<1>1. PICK q \in RequestRecord : q = req[r] /\ Sound(q)
  BY DEF IInv, Types
<1>2. /\ q.at = "resolve" /\ q.do \in R!Priced /\ q.e \in {None, e}
      /\ retained[e][u] = "none" /\ retained' = [retained EXCEPT ![e][u] = "live"]
      /\ R!Becomes(r, [q EXCEPT !.at = "name", !.e = e, !.todo = R!Created(u, i, q)])
      /\ UNCHANGED binding
  BY <1>1 DEF R!Create
<1>3. Grows /\ retained' \in [Endpoint -> [Response -> {"none", "live", "deleted"}]]
  BY <1>2 DEF Grows, Same, IInv, Types
<1>4. PICK t \in Seq(Mention) : t = R!Created(u, i, q)
  BY <1>1, CreatedMentions DEF Sound
<1>. DEFINE x == [q EXCEPT !.at = "name", !.e = e, !.todo = t]
<1>5. x \in RequestRecord
  BY <1>1, <1>4 DEF RequestRecord
<1>6. R!Becomes(r, x)
  BY <1>2, <1>4
<1>7. Types'
  BY <1>2, <1>3, <1>5, <1>6 DEF IInv, Types, R!Becomes
<1>8. Rows'
  BY <1>2, <1>3 DEF IInv, Rows, Gone, Grows, Types, R!Binding
<1>9. Sound(x)'
  <2>1. x.at = "name" /\ x.e = e /\ x.todo = t /\ x.ups = q.ups
        /\ x.by = q.by /\ x.do = q.do /\ x.known = q.known
    BY <1>1 DEF RequestRecord
  <2>2. \A j \in DOMAIN q.ups : q.ups[j] \in Public
    BY <1>1 DEF RequestRecord
  <2>3. \A j \in DOMAIN q.ups : binding[q.ups[j]].e = e
    BY <1>1, <1>2, <2>2 DEF Sound, Resolved, IInv, Types, R!Binding, R!Constants
  <2>. HIDE DEF x
  <2>4. Resolved(x)'
    BY <1>1, <1>2, <2>1, <2>3 DEF Sound, Resolved, R!Priced, R!FollowUp
  <2>5. Exposed(x)' /\ Deletes(x)' /\ Staged(x)'
    BY <1>1, <1>2, <2>1 DEF Sound, Exposed, Deletes, Staged, R!Priced
  <2>. QED  BY <2>4, <2>5 DEF Sound
<1>. QED  BY <1>3, <1>5, <1>6, <1>7, <1>8, <1>9, OneMoves

\* A follow-up names the response it is about as it was named, and deletes that one only.
LEMMA FollowIInv ==
  ASSUME R!Constants, IInv, NEW r \in Request, NEW i \in Item, R!Follow(r, i)
  PROVE  IInv'
<1>1. PICK q \in RequestRecord : q = req[r] /\ Sound(q)
  BY DEF IInv, Types
<1>. DEFINE p == q.ups[1]
            b == binding[p]
<1>2. /\ q.at = "resolve" /\ q.left = <<>> /\ q.do \in R!FollowUp
      /\ retained' = IF q.do = "delete"
                     THEN [retained EXCEPT ![b.e][b.up] = "deleted"] ELSE retained
      /\ UNCHANGED binding
  BY <1>1 DEF R!Follow
<1>3. q.ups # <<>> /\ 1 \in DOMAIN q.ups /\ p \in Public
  BY <1>1, <1>2 DEF Sound, Staged, RequestRecord
<1>4. b # None /\ b \in R!Binding /\ b.e = q.e /\ b.kind = "response"
  BY <1>1, <1>2, <1>3 DEF Sound, Resolved, IInv, Types
<1>5. PICK u \in Response : b.up = u
  BY <1>3, <1>4 DEF IInv, Rows
<1>6. q.e \in Endpoint
  BY <1>4 DEF R!Binding
<1>7. PICK t \in R!Followed(q.do, u, i) :
        R!Becomes(r, [q EXCEPT !.at = "name", !.todo = t, !.known = {[up |-> u, pub |-> p]},
                             !.parent = IF q.do = "resume" THEN None ELSE p])
  BY <1>1, <1>5 DEF R!Follow
<1>. DEFINE x == [q EXCEPT !.at = "name", !.todo = t, !.known = {[up |-> u, pub |-> p]},
                           !.parent = IF q.do = "resume" THEN None ELSE p]
<1>8. Grows /\ retained' \in [Endpoint -> [Response -> {"none", "live", "deleted"}]]
  BY <1>2, <1>4, <1>5, <1>6 DEF Grows, Same, IInv, Types
<1>9. t \in Seq(Mention)
  BY <1>7, FollowedMentions
<1>10. x \in RequestRecord
  <2>1. {[up |-> u, pub |-> p]} \in SUBSET [up : Upstream, pub : Public]
    BY <1>3 DEF Upstream
  <2>. QED  BY <1>1, <1>3, <1>9, <2>1 DEF RequestRecord
<1>11. Types'
  BY <1>2, <1>7, <1>8, <1>10 DEF IInv, Types, R!Becomes
<1>12. Rows'
  BY <1>2, <1>8 DEF IInv, Rows, Gone, Grows, Types, R!Binding
<1>13. Sound(x)'
  <2>1. x.at = "name" /\ x.e = q.e /\ x.todo = t /\ x.ups = q.ups
        /\ x.by = q.by /\ x.do = q.do /\ x.known = {[up |-> u, pub |-> p]}
    BY <1>1 DEF RequestRecord
  <2>. HIDE DEF x
  <2>2. Resolved(x)'
    BY <1>1, <1>2, <2>1 DEF Sound, Resolved
  <2>3. Exposed(x)'
    BY <1>2, <1>4, <1>5, <2>1 DEF Exposed
  <2>4. Deletes(x)'
    BY <1>2, <1>3, <1>4, <1>5, <1>6, <2>1 DEF Deletes, Gone, IInv, Types
  <2>5. Staged(x)'
    BY <1>1, <1>2, <1>6, <2>1 DEF Sound, Staged
  <2>. QED  BY <2>2, <2>3, <2>4, <2>5 DEF Sound
<1>. QED  BY <1>7, <1>8, <1>10, <1>11, <1>12, <1>13, OneMoves

\* The head of the answer gets a name whose row, once the step is taken, stands for it.
Renamed(q, p) ==
  LET x == Head(q.todo)
  IN [q EXCEPT !.at = "name", !.todo = Tail(@), !.known = @ \cup {[up |-> x.up, pub |-> p]},
               !.tries = 0, !.parent = IF x.as = "response" THEN p ELSE @]

LEMMA NameIsSound ==
  ASSUME NEW q \in RequestRecord, Sound(q)', q.at \in {"name", "bind"}, q.todo # <<>>,
         NEW p \in Public, binding'[p] # None, binding'[p].e = q.e,
         binding'[p].up = Head(q.todo).up
  PROVE  Renamed(q, p) \in RequestRecord /\ Sound(Renamed(q, p))'
<1>. DEFINE x == Renamed(q, p)
            n == [up |-> Head(q.todo).up, pub |-> p]
<1>1. Head(q.todo) \in Mention /\ Tail(q.todo) \in Seq(Mention)
  BY DEF RequestRecord
<1>2. q.known \cup {n} \in SUBSET [up : Upstream, pub : Public]
  BY <1>1 DEF RequestRecord, Mention
<1>3. x \in RequestRecord
  BY <1>1, <1>2 DEF RequestRecord, Renamed
<1>4. x.at = "name" /\ x.e = q.e /\ x.ups = q.ups /\ x.by = q.by /\ x.do = q.do
      /\ x.known = q.known \cup {n}
  BY DEF RequestRecord, Renamed
<1>. HIDE DEF x
<1>5. Resolved(x)' /\ Deletes(x)' /\ Staged(x)'
  BY <1>4 DEF Sound, Resolved, Deletes, Staged
<1>6. Exposed(x)'
  BY <1>4 DEF Sound, Exposed
<1>. QED  BY <1>3, <1>5, <1>6 DEF Sound, x

\* An id is named as it was before, by the row it has, or waits to be bound.
LEMMA LookupIInv ==
  ASSUME R!Constants, IInv, NEW r \in Request, R!Lookup(r)
  PROVE  IInv'
<1>1. PICK q \in RequestRecord : q = req[r] /\ Sound(q)
  BY DEF IInv, Types
<1>. DEFINE h == Head(q.todo)
            known == {n \in q.known : n.up = h.up}
            rows == R!Named(q.e, R!Parent(q, h), h.up)
<1>2. q.at = "name" /\ q.todo # <<>> /\ UNCHANGED <<binding, retained>>
  BY <1>1 DEF R!Lookup
<1>3. Grows /\ Rows' /\ Sound(q)'
  <2>1. Grows
    BY <1>2 DEF Grows, Same, IInv, Types
  <2>. QED  BY <1>1, <1>2, <2>1, SoundStays DEF IInv, Rows, Gone, R!Key
<1>4. ASSUME NEW p \in Public, R!Name(r, p), binding[p] # None, binding[p].e = q.e,
             binding[p].up = h.up
      PROVE  IInv'
  <2>1. Renamed(q, p) \in RequestRecord /\ Sound(Renamed(q, p))'
    BY <1>2, <1>3, <1>4, NameIsSound
  <2>2. R!Becomes(r, Renamed(q, p))
    BY <1>1, <1>4 DEF R!Name, Renamed
  <2>3. Types'
    BY <1>2, <2>1, <2>2 DEF R!Becomes, IInv, Types
  <2>. QED  BY <1>3, <2>1, <2>2, <2>3, OneMoves
<1>5. CASE known # {}
  <2>1. PICK n \in known : R!Name(r, n.pub)
    BY <1>1, <1>5 DEF R!Lookup
  <2>2. n.pub \in Public /\ binding[n.pub] # None /\ binding[n.pub].e = q.e
        /\ binding[n.pub].up = h.up
    BY <1>1 DEF RequestRecord, Sound, Exposed
  <2>. QED  BY <1>4, <2>1, <2>2
<1>6. CASE known = {} /\ rows # {}
  <2>1. PICK p \in rows : R!Name(r, p)
    BY <1>1, <1>6 DEF R!Lookup
  <2>. QED  BY <1>4, <2>1 DEF R!Named
<1>7. CASE known = {} /\ rows = {} /\ h.as = "previous"
  <2>. DEFINE x == [q EXCEPT !.todo = Tail(@)]
  <2>1. R!Becomes(r, x)
    BY <1>1, <1>7 DEF R!Lookup
  <2>2. x \in RequestRecord
    <3>1. Tail(q.todo) \in Seq(Mention)
      BY <1>2 DEF RequestRecord
    <3>. QED  BY <3>1 DEF RequestRecord
  <2>3. Sound(x)
    BY <1>1, <1>2 DEF Sound, Resolved, Exposed, Deletes, Staged, RequestRecord
  <2>. QED  BY <1>2, <2>1, <2>2, <2>3, OnlyOneMoves
<1>8. CASE known = {} /\ rows = {} /\ h.as # "previous"
  <2>. DEFINE x == [q EXCEPT !.at = "bind"]
  <2>1. R!Becomes(r, x)
    BY <1>1, <1>8 DEF R!Lookup
  <2>2. x \in RequestRecord
    BY DEF RequestRecord
  <2>3. Sound(x)
    BY <1>1, <1>2, <1>8 DEF Sound, Resolved, Exposed, Deletes, Staged, RequestRecord
  <2>. QED  BY <1>2, <2>1, <2>2, <2>3, OnlyOneMoves
<1>. QED  BY <1>5, <1>6, <1>7, <1>8

\* An id is bound by the row that came first, or by the only row with its key.
LEMMA BindIInv ==
  ASSUME R!Constants, IInv, NEW r \in Request, NEW p \in Public, R!Bind(r, p)
  PROVE  IInv'
<1>1. PICK q \in RequestRecord : q = req[r] /\ Sound(q)
  BY DEF IInv, Types
<1>. DEFINE h == Head(q.todo)
            rows == R!Named(q.e, R!Parent(q, h), h.up)
            new == [kind |-> h.as, e |-> q.e, owner |-> q.by, up |-> h.up,
                    parent |-> R!Parent(q, h), live |-> TRUE]
<1>2. q.at = "bind" /\ q.todo # <<>> /\ h.as # "previous" /\ UNCHANGED retained
  BY <1>1 DEF R!Bind, Sound, Staged
<1>3. h \in Mention /\ q.e \in Endpoint /\ q.by \in Actor
  BY <1>1, <1>2 DEF RequestRecord, Sound, Staged
<1>4. CASE rows # {} /\ UNCHANGED binding
  <2>1. PICK first \in rows : R!Name(r, first)
    BY <1>1, <1>4 DEF R!Bind
  <2>2. first \in Public /\ binding[first] # None /\ binding[first].e = q.e
        /\ binding[first].up = h.up
    BY DEF R!Named
  <2>3. Grows
    BY <1>2, <1>4 DEF Grows, Same, IInv, Types
  <2>4. Rows' /\ Sound(q)'
    BY <1>1, <1>2, <1>4, <2>3, SoundStays DEF IInv, Rows, Gone, R!Key
  <2>5. Renamed(q, first) \in RequestRecord /\ Sound(Renamed(q, first))'
    BY <1>2, <1>4, <2>2, <2>4, NameIsSound
  <2>6. R!Becomes(r, Renamed(q, first))
    BY <1>1, <2>1 DEF R!Name, Renamed
  <2>7. Types'
    BY <1>2, <1>4, <2>5, <2>6 DEF R!Becomes, IInv, Types
  <2>. QED  BY <2>3, <2>4, <2>5, <2>6, <2>7, OneMoves
<1>5. CASE rows = {} /\ binding[p] = None
  <2>1. binding' = [binding EXCEPT ![p] = new] /\ R!Name(r, p)
    BY <1>1, <1>5 DEF R!Bind
  <2>2. new \in R!Binding /\ new # None
    <3>1. new.parent \in Public \cup {None}
      BY DEF R!Parent, RequestRecord
    <3>2. new \in R!Binding
      BY <1>2, <1>3, <3>1 DEF R!Binding, Mention, Upstream
    <3>. QED  BY <3>2 DEF R!Constants
  <2>3. binding' \in [Public -> R!Binding \cup {None}] /\ binding'[p] = new
    BY <2>1, <2>2 DEF IInv, Types
  <2>4. \A s \in Public : s # p => binding'[s] = binding[s]
    BY <2>1 DEF IInv, Types
  <2>5. Grows
    BY <1>2, <1>5, <2>4 DEF Grows, Same
  <2>6. Sound(q)'
    BY <1>1, <2>5, SoundStays DEF IInv
  <2>7. Renamed(q, p) \in RequestRecord /\ Sound(Renamed(q, p))'
    BY <1>2, <2>2, <2>3, <2>6, NameIsSound
  <2>8. R!Becomes(r, Renamed(q, p))
    BY <1>1, <2>1 DEF R!Name, Renamed
  <2>9. Types'
    BY <1>2, <2>3, <2>7, <2>8 DEF R!Becomes, IInv, Types
  <2>10. Rows'
    <3>. DEFINE Keeps(s) == /\ binding'[s].kind = "response" => binding'[s].up \in Response
                            /\ ~binding'[s].live => Gone(binding[s])'
    <3>1. \A s \in Public : s # p /\ binding[s] # None => R!Key(binding[s]) # R!Key(new)
      BY <1>5 DEF R!Named, R!Key
    <3>2. \A s \in Public : binding'[s] # None => Keeps(s)
      <4>1. Keeps(p)
        BY <1>3, <2>3 DEF Mention
      <4>2. ASSUME NEW s \in Public, s # p, binding[s] # None PROVE Keeps(s)
        BY <1>2, <2>4, <4>2 DEF IInv, Rows, Gone
      <4>. QED  BY <2>4, <4>1, <4>2
    <3>3. ASSUME NEW s \in Public, NEW v \in Public, binding'[s] # None, binding'[v] # None,
                 R!Key(binding'[s]) = R!Key(binding'[v])
          PROVE  s = v
      BY <1>5, <2>3, <2>4, <3>1, <3>3 DEF IInv, Rows
    <3>. QED  BY <3>2, <3>3 DEF Rows, R!Key
  <2>. QED  BY <2>5, <2>7, <2>8, <2>9, <2>10, OneMoves
<1>6. CASE rows = {} /\ binding[p] # None
  <2>. DEFINE x == IF q.tries + 1 = R!MaxTries THEN R!Idle ELSE [q EXCEPT !.tries = @ + 1]
  <2>1. R!Becomes(r, x) /\ UNCHANGED <<binding, retained>>
    BY <1>1, <1>2, <1>6 DEF R!Bind
  <2>2. [q EXCEPT !.tries = @ + 1] \in RequestRecord
    <3>1. q.tries + 1 \in Nat
      BY DEF RequestRecord
    <3>. QED  BY <3>1 DEF RequestRecord
  <2>3. Sound([q EXCEPT !.tries = @ + 1])
    BY <1>1 DEF Sound, Resolved, Exposed, Deletes, Staged, RequestRecord
  <2>4. x \in RequestRecord /\ Sound(x)
    BY <2>2, <2>3, IdleIsSound
  <2>. QED  BY <2>1, <2>4, OnlyOneMoves
<1>7. rows # {} => UNCHANGED binding
  BY <1>1 DEF R!Bind
<1>. QED  BY <1>4, <1>5, <1>6, <1>7

\* A deletion retires the name of what it deleted.
LEMMA AnswerIInv ==
  ASSUME R!Constants, IInv, NEW r \in Request, R!Answer(r)
  PROVE  IInv'
<1>1. PICK q \in RequestRecord : q = req[r] /\ Sound(q)
  BY DEF IInv, Types
<1>2. q.at = "name" /\ R!Becomes(r, R!Idle) /\ UNCHANGED retained
  BY <1>1 DEF R!Answer
<1>3. CASE q.do # "delete"
  <2>1. UNCHANGED binding
    BY <1>1, <1>3 DEF R!Answer
  <2>. QED  BY <1>2, <2>1, IdleIsSound, OnlyOneMoves
<1>4. CASE q.do = "delete"
  <2>. DEFINE p == q.ups[1]
  <2>1. binding' = [binding EXCEPT ![p].live = FALSE]
    BY <1>1, <1>4 DEF R!Answer
  <2>2. q.ups # <<>> /\ Gone(binding[p])
    BY <1>1, <1>2, <1>4 DEF Sound, Deletes
  <2>3. p \in Public /\ binding[p] # None /\ binding[p] \in R!Binding
    BY <1>1, <2>2 DEF Sound, Resolved, RequestRecord, IInv, Types
  <2>4. binding'[p] = [binding[p] EXCEPT !.live = FALSE]
    BY <2>1, <2>3 DEF IInv, Types
  <2>5. [binding[p] EXCEPT !.live = FALSE] \in R!Binding
    BY <2>3 DEF R!Binding
  <2>6. binding' \in [Public -> R!Binding \cup {None}]
        /\ \A s \in Public : s # p => binding'[s] = binding[s]
    BY <2>1, <2>3, <2>5 DEF IInv, Types
  <2>7. binding'[p] # None
    BY <2>4, <2>5 DEF R!Constants
  <2>8. \A s \in Public : binding[s] # None =>
          Same(binding[s], binding'[s]) /\ R!Key(binding'[s]) = R!Key(binding[s])
    BY <2>3, <2>4, <2>6, <2>7 DEF Same, R!Key, R!Binding
  <2>9. \A s \in Public : binding'[s] # None => binding[s] # None
    BY <2>3, <2>6
  <2>10. Grows
    BY <1>2, <2>8 DEF Grows
  <2>11. Types'
    BY <1>2, <2>6, IdleIsSound DEF R!Becomes, IInv, Types
  <2>12. Rows'
    <3>1. \A s \in Public : binding'[s] # None =>
            /\ binding'[s].kind = "response" => binding'[s].up \in Response
            /\ ~binding'[s].live => Gone(binding[s])'
      BY <1>2, <2>2, <2>6, <2>8, <2>9 DEF IInv, Rows, Gone, Same
    <3>2. \A s \in Public, v \in Public :
            binding'[s] # None /\ binding'[v] # None /\ R!Key(binding'[v]) = R!Key(binding'[s])
              => s = v
      BY <2>8, <2>9 DEF IInv, Rows
    <3>. QED  BY <3>1, <3>2 DEF Rows, R!Key
  <2>. QED  BY <1>2, <2>10, <2>11, <2>12, IdleIsSound, OneMoves
<1>. QED  BY <1>3, <1>4

LEMMA StepIInv == ASSUME R!Constants, IInv, [R!Next]_(R!vars) PROVE IInv'
<1>1. CASE UNCHANGED R!vars
  BY <1>1 DEF R!vars, IInv, Types, Rows, Gone, Sound, Resolved, Exposed, Deletes, Staged
<1>2. ASSUME NEW r \in Request, R!Abandon(r) PROVE IInv'
  BY <1>2, IdleIsSound, OnlyOneMoves DEF R!Abandon
<1>. QED
  BY <1>1, <1>2, BeginIInv, ResolveIInv, FollowIInv, CreateIInv, LookupIInv, BindIInv, AnswerIInv
  DEF R!Next

\* Rows, bodies and requests of Responses agree, whatever is interleaved.
THEOREM Invariance == Spec => []IInv
<1>1. Init => IInv
  BY InitIInv, SurfaceAssumption DEF Init
<1>2. IInv /\ [Next]_vars => IInv'
  BY StepIInv, SurfaceAssumption DEF Next, vars, responses, R!vars
<1>. QED  BY <1>1, <1>2, PTL DEF Spec

\* publicFor and Bind: whatever answers are bound at the same time, a name in an answer
\* has a row that stands for the id it replaced, and it is the only name with that key.
THEOREM NamesDurable == Spec => []NamesAreDurable
<1>1. IInv => NamesAreDurable
  <2>. SUFFICES ASSUME IInv, NEW r \in Request, NEW n \in req[r].known
                PROVE  LET b == binding[n.pub]
                       IN /\ b # None
                          /\ b.e = req[r].e /\ b.up = n.up
                          /\ R!Named(b.e, b.parent, b.up) = {n.pub}
    BY DEF NamesAreDurable, R!NamesAreDurable
  <2>1. n.pub \in Public
    BY DEF IInv, Types, RequestRecord
  <2>2. binding[n.pub] # None /\ binding[n.pub].e = req[r].e /\ binding[n.pub].up = n.up
    BY DEF IInv, Sound, Exposed
  <2>. DEFINE b == binding[n.pub]
  <2>3. ASSUME NEW s \in R!Named(b.e, b.parent, b.up) PROVE s = n.pub
    BY <2>1, <2>2 DEF R!Named, IInv, Rows, R!Key
  <2>4. n.pub \in R!Named(b.e, b.parent, b.up)
    BY <2>1, <2>2 DEF R!Named
  <2>. QED  BY <2>2, <2>3, <2>4
<1>. QED  BY <1>1, Invariance, PTL

\* rewriteResponseRequest, responsesQueryFilter: an id is sent for whom it was bound by or
\* delegated to, and, but for a cursor, to the endpoint it came from.
THEOREM SentHome == Spec => []SentToItsOrigin
<1>1. IInv => SentToItsOrigin
  BY DEF IInv, Sound, Resolved, SentToItsOrigin, R!SentToItsOrigin
<1>. QED  BY <1>1, Invariance, PTL

\* responseFollowUp and Tombstone: only what is gone at the provider loses its name.
THEOREM RetiredGone == Spec => []RetiredIsGone
<1>1. IInv => RetiredIsGone
  BY DEF IInv, Rows, Gone, RetiredIsGone, R!RetiredIsGone
<1>. QED  BY <1>1, Invariance, PTL

-----------------------------------------------------------------------------
(* Extract.  The inductive invariant: a file only gets final, and what is   *)
(* enqueued, done or about to be sent is held against the file it names.    *)

CallRecord ==
  [at : {"idle", "template", "model", "begin", "finalize", "enqueue", "accepted", "conflict"},
   by : Actor \cup {None}, template : Extraction \cup {None}, content : Content \cup {None},
   key : X!Key \cup {None}, row : X!TemplateRow \cup {None}, model : Model \cup {None},
   input : X!Artifact \cup {None}]
AttemptRecord ==
  [at : {"idle", "load", "input", "mark", "call", "begin", "finalize", "complete"},
   key : X!Key \cup {None}, content : Content \cup X!Key \cup {None},
   result : X!Artifact \cup {None}]
EditRecord ==
  [at : {"idle", "put", "touch", "done"}, id : Extraction \cup {None},
   row : X!TemplateRow \cup {None}]

XTypes ==
  /\ template \in [Extraction -> X!TemplateRow \cup {None}]
  /\ setting \in X!Setting \cup {None}
  /\ artifact \in Seq(X!File) /\ Len(artifact) <= MaxArtifacts
  /\ job \in [X!Key -> X!Job \cup {None}]
  /\ call \in [Request -> CallRecord]
  /\ worker \in [Worker -> AttemptRecord]
  /\ edit \in [Edit -> EditRecord]

Written(f, x) == f \in DOMAIN artifact /\ artifact[f].holds = x
Whole(f, x) == f \in DOMAIN artifact /\ artifact[f] = [holds |-> x, final |-> TRUE]

\* A stored job has the file it was given, and its result when it is done.
JobRows ==
  \A k \in X!Key : job[k] # None =>
    /\ Whole(job[k].input, job[k].content)
    /\ job[k].at = "done" => Whole(job[k].result, k)

OfJob(q, j) ==
  j # None /\ j.by = q.by /\ j.content = q.content /\ j.template = q.template /\ j.model = q.model

\* What a request has at each of its stages.
Asking(q) ==
  /\ q.at # "idle" => q.by \in Actor /\ q.template \in Extraction /\ q.content \in Content
                      /\ q.key \in X!Key
  /\ q.at = "model" => q.row \in X!TemplateRow
  /\ q.at \in {"begin", "finalize", "enqueue"} => q.model \in Model
  /\ q.at = "finalize" => Written(q.input, q.content)
  /\ q.at = "enqueue" => Whole(q.input, q.content)
  /\ q.at = "accepted" => OfJob(q, job[q.key])

\* What an attempt has at each of its own.
Doing(w, v) ==
  /\ v.at # "idle" => v.key \in X!Key /\ job[v.key] # None
  /\ v.at \in {"input", "mark", "call"} => job[v.key].template \notin off[w]
  /\ v.at \in {"mark", "call"} => v.content = job[v.key].content
  /\ v.at = "finalize" => Written(v.result, v.key)
  /\ v.at = "complete" => Whole(v.result, v.key)

XInv ==
  /\ XTypes /\ JobRows
  /\ \A c \in Request : Asking(call[c])
  /\ \A w \in Worker : Doing(w, worker[w])

-----------------------------------------------------------------------------
(* Files keep what they hold, jobs what they are for, and what is withdrawn *)
(* for an attempt only shrinks.                                             *)

SameJob(j, i) ==
  i # None /\ i.by = j.by /\ i.template = j.template /\ i.model = j.model
  /\ i.content = j.content /\ i.input = j.input

Keeps ==
  /\ \A f \in DOMAIN artifact :
       /\ f \in DOMAIN artifact' /\ artifact'[f].holds = artifact[f].holds
       /\ artifact[f].final => artifact'[f] = artifact[f]
  /\ \A k \in X!Key : job[k] # None => SameJob(job[k], job'[k])

LEMMA FilesStay ==
  ASSUME Keeps, NEW f, NEW x
  PROVE  (Written(f, x) => Written(f, x)') /\ (Whole(f, x) => Whole(f, x)')
BY DEF Keeps, Written, Whole

LEMMA AskingStays ==
  ASSUME Keeps, NEW q \in CallRecord, Asking(q)
  PROVE  Asking(q)'
<1>1. q.at = "accepted" => OfJob(q, job[q.key])'
  BY DEF Keeps, Asking, OfJob, SameJob
<1>. QED  BY <1>1, FilesStay DEF Asking

LEMMA DoingStays ==
  ASSUME Keeps, X!Remember, NEW w \in Worker, worker[w].at # "idle",
         NEW v \in AttemptRecord, Doing(w, v)
  PROVE  Doing(w, v)'
<1>1. v.at # "idle" => job'[v.key] # None /\ SameJob(job[v.key], job'[v.key])
  BY DEF Keeps, Doing, SameJob
<1>2. off'[w] \subseteq off[w]
  BY DEF X!Remember
<1>. QED  BY <1>1, <1>2, FilesStay DEF Doing, SameJob

LEMMA IdleStays == ASSUME NEW w, NEW v, v.at = "idle" PROVE Doing(w, v)'
BY DEF Doing

LEMMA OthersAsk ==
  ASSUME XInv, Keeps, NEW c \in Request, NEW x \in CallRecord, X!Becomes(c, x), Asking(x)'
  PROVE  call' \in [Request -> CallRecord] /\ \A d \in Request : Asking(call[d])'
<1>1. call' \in [Request -> CallRecord] /\ call'[c] = x
      /\ \A d \in Request : d # c => call'[d] = call[d]
  BY DEF X!Becomes, XInv, XTypes
<1>2. \A q \in CallRecord : Asking(q) => Asking(q)'
  BY AskingStays
<1>3. \A d \in Request : call[d] \in CallRecord /\ Asking(call[d])
  BY DEF XInv, XTypes
<1>. QED  BY <1>1, <1>2, <1>3

LEMMA AllAsk ==
  ASSUME XInv, Keeps, UNCHANGED call
  PROVE  call' \in [Request -> CallRecord] /\ \A d \in Request : Asking(call[d])'
<1>1. \A q \in CallRecord : Asking(q) => Asking(q)'
  BY AskingStays
<1>2. \A d \in Request : call[d] \in CallRecord /\ Asking(call[d])
  BY DEF XInv, XTypes
<1>. QED  BY <1>1, <1>2 DEF XInv, XTypes

LEMMA OtherAttempts ==
  ASSUME XInv, Keeps, X!Remember, NEW w \in Worker, NEW x \in AttemptRecord,
         X!Works(w, x), Doing(w, x)'
  PROVE  worker' \in [Worker -> AttemptRecord] /\ \A v \in Worker : Doing(v, worker[v])'
<1>1. worker' \in [Worker -> AttemptRecord] /\ worker'[w] = x
      /\ \A v \in Worker : v # w => worker'[v] = worker[v]
  BY DEF X!Works, XInv, XTypes
<1>2. ASSUME NEW v \in Worker, v # w PROVE Doing(v, worker[v])'
  <2>1. PICK y \in AttemptRecord : y = worker[v] /\ Doing(v, y)
    BY DEF XInv, XTypes
  <2>2. Doing(v, y)'
    BY <2>1, DoingStays, IdleStays
  <2>. QED  BY <1>1, <1>2, <2>1, <2>2
<1>3. Doing(w, worker[w])'
  BY <1>1
<1>. QED  BY <1>1, <1>2, <1>3

LEMMA AllAttempts ==
  ASSUME XInv, Keeps, X!Remember, UNCHANGED worker
  PROVE  worker' \in [Worker -> AttemptRecord] /\ \A v \in Worker : Doing(v, worker[v])'
<1>1. ASSUME NEW v \in Worker PROVE Doing(v, worker[v])'
  <2>1. PICK y \in AttemptRecord : y = worker[v] /\ Doing(v, y)
    BY DEF XInv, XTypes
  <2>2. Doing(v, y)'
    BY <2>1, DoingStays, IdleStays
  <2>. QED  BY <2>1, <2>2
<1>. QED  BY <1>1 DEF XInv, XTypes

\* Where no job row moves but files may be added or finalized.
LEMMA JobsStay ==
  ASSUME XInv, Keeps, UNCHANGED job
  PROVE  JobRows'
<1>. SUFFICES ASSUME NEW k \in X!Key, job[k] # None
              PROVE  /\ Whole(job[k].input, job[k].content)'
                     /\ job[k].at = "done" => Whole(job[k].result, k)'
  BY DEF JobRows
<1>1. PICK j : j = job[k]
  OBVIOUS
<1>2. Whole(j.input, j.content) /\ (j.at = "done" => Whole(j.result, k))
  BY <1>1 DEF XInv, JobRows
<1>. QED  BY <1>1, <1>2, FilesStay


-----------------------------------------------------------------------------
(* What a step does to the files and the jobs. *)

LEMMA Quiet ==
  ASSUME XInv, UNCHANGED <<artifact, job>>
  PROVE  Keeps /\ JobRows'
<1>1. Keeps
  BY DEF Keeps, SameJob
<1>. QED  BY <1>1, JobsStay

\* The new file is written under an id of its own.
LEMMA WritingKeeps ==
  ASSUME XInv, MaxArtifacts \in Nat, NEW x \in Content \cup X!Key, X!Writing(x), UNCHANGED job
  PROVE  /\ Keeps /\ JobRows'
         /\ artifact' \in Seq(X!File) /\ Len(artifact') <= MaxArtifacts
         /\ \E n \in X!Artifact : n = X!New /\ Written(n, x)'
<1>. DEFINE f == [holds |-> x, final |-> FALSE]
<1>1. artifact \in Seq(X!File) /\ f \in X!File /\ artifact' = Append(artifact, f)
      /\ Len(artifact) < MaxArtifacts /\ Len(artifact) \in Nat
  BY DEF X!Writing, XInv, XTypes, X!File
<1>2. artifact' \in Seq(X!File) /\ Len(artifact') = Len(artifact) + 1
      /\ artifact'[Len(artifact) + 1] = f
      /\ \A i \in 1 .. Len(artifact) : artifact'[i] = artifact[i]
  BY <1>1
<1>3. Keeps
  BY <1>1, <1>2 DEF Keeps, SameJob
<1>4. PICK n \in X!Artifact : n = Len(artifact) + 1
  BY <1>1 DEF X!Artifact
<1>5. n \in DOMAIN artifact' /\ artifact'[n].holds = x
  BY <1>1, <1>2, <1>4
<1>6. Written(n, x)'
  BY <1>5 DEF Written
<1>. QED  BY <1>1, <1>2, <1>3, <1>4, <1>6, JobsStay DEF X!New

LEMMA FinalIs ==
  ASSUME NEW x, NEW b, NEW t
  PROVE  [[holds |-> x, final |-> b] EXCEPT !.final = t] = [holds |-> x, final |-> t]
BY SMT

LEMMA FinalizedKeeps ==
  ASSUME XInv, NEW f, NEW x, Written(f, x), X!Finalized(f), UNCHANGED job
  PROVE  /\ Keeps /\ JobRows' /\ Whole(f, x)'
         /\ artifact' \in Seq(X!File) /\ Len(artifact') <= MaxArtifacts
<1>1. artifact \in Seq(X!File) /\ f \in DOMAIN artifact /\ artifact[f].holds = x
      /\ artifact' = [artifact EXCEPT ![f].final = TRUE]
  BY DEF X!Finalized, XInv, XTypes, Written
<1>2. artifact[f] \in X!File
  BY <1>1
<1>3. [artifact[f] EXCEPT !.final = TRUE] = [holds |-> x, final |-> TRUE]
      /\ [artifact[f] EXCEPT !.final = TRUE] \in X!File
  <2>1. PICK b \in BOOLEAN : artifact[f] = [holds |-> x, final |-> b]
    BY <1>1, <1>2 DEF X!File
  <2>2. x \in Content \cup X!Key
    BY <1>1, <1>2 DEF X!File
  <2>3. [artifact[f] EXCEPT !.final = TRUE] = [holds |-> x, final |-> TRUE]
    <3>1. [[holds |-> x, final |-> b] EXCEPT !.final = TRUE] = [holds |-> x, final |-> TRUE]
      BY FinalIs
    <3>. QED  BY <2>1, <3>1, Zenon
  <2>4. [holds |-> x, final |-> TRUE] \in X!File
    BY <2>2 DEF X!File
  <2>. QED  BY <2>3, <2>4
<1>4. artifact' = [artifact EXCEPT ![f] = [holds |-> x, final |-> TRUE]]
  BY <1>1, <1>3
<1>5. artifact' \in Seq(X!File) /\ Len(artifact') = Len(artifact)
      /\ DOMAIN artifact' = DOMAIN artifact
  BY <1>1, <1>3, <1>4
<1>6. artifact'[f] = [holds |-> x, final |-> TRUE]
      /\ \A i \in DOMAIN artifact : i # f => artifact'[i] = artifact[i]
  BY <1>1, <1>4
<1>7. Keeps
  <2>1. artifact[f].final => artifact'[f] = artifact[f]
    BY <1>1, <1>2, <1>6 DEF X!File
  <2>. QED  BY <1>1, <1>5, <1>6, <2>1 DEF Keeps, SameJob
<1>. QED  BY <1>1, <1>5, <1>6, <1>7, JobsStay DEF Whole, XInv, XTypes

\* A job that exists moves on; where it is done it has its result.
LEMMA JobMoves ==
  ASSUME XInv, NEW k \in X!Key, job[k] # None, NEW i \in X!Job, SameJob(job[k], i),
         i.at = "done" => (job[k].at = "done" /\ i.result = job[k].result) \/ Whole(i.result, k),
         job' = [job EXCEPT ![k] = i], UNCHANGED artifact
  PROVE  /\ Keeps /\ JobRows'
         /\ job' \in [X!Key -> X!Job \cup {None}]
<1>1. job' \in [X!Key -> X!Job \cup {None}] /\ job'[k] = i
      /\ \A l \in X!Key : l # k => job'[l] = job[l]
  BY DEF XInv, XTypes
<1>2. Keeps
  BY <1>1 DEF Keeps, SameJob
<1>3. /\ Whole(i.input, i.content)
      /\ i.at = "done" => Whole(i.result, k)
  BY DEF XInv, JobRows, SameJob
<1>4. JobRows'
  BY <1>1, <1>3 DEF JobRows, Whole, XInv
<1>. QED  BY <1>1, <1>2, <1>4

-----------------------------------------------------------------------------
(* The requests. *)

LEMMA BeginXInv ==
  ASSUME X!Constants, XInv, X!Remember, NEW c \in Request, NEW a \in Actor, NEW t \in Extraction,
         NEW x \in Content, NEW k \in X!Key, X!Begin(c, a, t, x, k)
  PROVE  XInv'
<1>. DEFINE q == [X!NoCall EXCEPT !.at = "template", !.by = a, !.template = t, !.content = x,
                                  !.key = k]
<1>1. X!Becomes(c, q) /\ UNCHANGED <<template, setting, edit, artifact, job, worker>>
  BY DEF X!Begin, X!admin
<1>2. q \in CallRecord /\ Asking(q)'
  BY DEF CallRecord, X!NoCall, Asking
<1>. QED  BY <1>1, <1>2, Quiet, OthersAsk, AllAttempts DEF XInv, XTypes

LEMMA NoCallAsks == X!NoCall \in CallRecord /\ Asking(X!NoCall) /\ Asking(X!NoCall)'
BY DEF CallRecord, X!NoCall, Asking

\* Where a request moves and nothing else.
LEMMA OneAsks ==
  ASSUME XInv, X!Remember, NEW c \in Request, NEW x \in CallRecord, X!Becomes(c, x), Asking(x)',
         UNCHANGED <<template, setting, edit, artifact, job, worker>>
  PROVE  XInv'
<1>1. Keeps /\ JobRows'
  BY Quiet
<1>. QED  BY <1>1, OthersAsk, AllAttempts DEF XInv, XTypes

LEMMA ReadTemplateXInv ==
  ASSUME X!Constants, XInv, X!Remember, NEW c \in Request, X!ReadTemplate(c)
  PROVE  XInv'
<1>1. PICK q \in CallRecord : q = call[c] /\ Asking(q)
  BY DEF XInv, XTypes
<1>. DEFINE x == [q EXCEPT !.at = "model", !.row = template[q.template]]
<1>2. q.at = "template" /\ UNCHANGED <<template, setting, edit, artifact, job, worker>>
      /\ X!Becomes(c, IF q.template \in X!Withdrawn THEN X!NoCall ELSE x)
  BY <1>1 DEF X!ReadTemplate, X!Asked, X!admin
<1>3. CASE q.template \in X!Withdrawn
  BY <1>2, <1>3, NoCallAsks, OneAsks
<1>4. CASE q.template \notin X!Withdrawn
  <2>1. template[q.template] \in X!TemplateRow
    BY <1>1, <1>2, <1>4 DEF Asking, X!Withdrawn, XInv, XTypes
  <2>2. x \in CallRecord
    BY <2>1 DEF CallRecord
  <2>3. Asking(x)'
    BY <1>1, <1>2, <2>1 DEF CallRecord, Asking
  <2>. QED  BY <1>2, <1>4, <2>2, <2>3, OneAsks
<1>. QED  BY <1>3, <1>4

LEMMA ResolveModelXInv ==
  ASSUME X!Constants, XInv, X!Remember, NEW c \in Request, X!ResolveModel(c)
  PROVE  XInv'
<1>1. PICK q \in CallRecord : q = call[c] /\ Asking(q)
  BY DEF XInv, XTypes
<1>2. q.at = "model" /\ UNCHANGED <<template, setting, edit, artifact, job, worker>>
      /\ \/ X!Becomes(c, X!NoCall)
         \/ \E m \in X!Resolved(q.row) :
              X!Becomes(c, [q EXCEPT !.at = "begin", !.model = m, !.row = None])
  BY <1>1 DEF X!ResolveModel, X!Asked, X!admin
<1>3. X!Resolved(q.row) \subseteq Model
  BY <1>1, <1>2 DEF Asking, X!Resolved, X!TemplateRow, X!Setting, X!Constants, XInv, XTypes
<1>4. ASSUME NEW m \in Model,
             X!Becomes(c, [q EXCEPT !.at = "begin", !.model = m, !.row = None])
      PROVE  XInv'
  <2>. DEFINE x == [q EXCEPT !.at = "begin", !.model = m, !.row = None]
  <2>1. x \in CallRecord
    BY DEF CallRecord
  <2>2. Asking(x)'
    BY <1>1, <1>2 DEF CallRecord, Asking
  <2>. QED  BY <1>2, <1>4, <2>1, <2>2, OneAsks
<1>. QED  BY <1>2, <1>3, <1>4, NoCallAsks, OneAsks

LEMMA BeginInputXInv ==
  ASSUME X!Constants, XInv, X!Remember, NEW c \in Request, X!BeginInput(c)
  PROVE  XInv'
<1>1. PICK q \in CallRecord : q = call[c] /\ Asking(q)
  BY DEF XInv, XTypes
<1>2. q.at = "begin" /\ X!Writing(q.content) /\ UNCHANGED <<template, setting, edit, job, worker>>
      /\ X!Becomes(c, [q EXCEPT !.at = "finalize", !.input = X!New])
  BY <1>1 DEF X!BeginInput, X!Asked, X!admin
<1>3. q.content \in Content \cup X!Key /\ MaxArtifacts \in Nat
  BY <1>1, <1>2 DEF Asking, X!Constants
<1>4. PICK n \in X!Artifact : n = X!New /\ Written(n, q.content)'
  BY <1>2, <1>3, WritingKeeps
<1>. DEFINE x == [q EXCEPT !.at = "finalize", !.input = n]
<1>5. x \in CallRecord
  BY DEF CallRecord
<1>6. Asking(x)'
  BY <1>1, <1>2, <1>4 DEF CallRecord, Asking
<1>7. X!Becomes(c, x)
  BY <1>2, <1>4
<1>8. Keeps /\ JobRows' /\ artifact' \in Seq(X!File) /\ Len(artifact') <= MaxArtifacts
  BY <1>2, <1>3, WritingKeeps
<1>. QED  BY <1>2, <1>5, <1>6, <1>7, <1>8, OthersAsk, AllAttempts DEF XInv, XTypes

LEMMA FinalizeInputXInv ==
  ASSUME X!Constants, XInv, X!Remember, NEW c \in Request, X!FinalizeInput(c)
  PROVE  XInv'
<1>1. PICK q \in CallRecord : q = call[c] /\ Asking(q)
  BY DEF XInv, XTypes
<1>. DEFINE x == [q EXCEPT !.at = "enqueue"]
<1>2. q.at = "finalize" /\ X!Finalized(q.input) /\ X!Becomes(c, x)
      /\ UNCHANGED <<template, setting, edit, job, worker>>
  BY <1>1 DEF X!FinalizeInput, X!Asked, X!admin
<1>3. Keeps /\ JobRows' /\ Whole(q.input, q.content)'
      /\ artifact' \in Seq(X!File) /\ Len(artifact') <= MaxArtifacts
  BY <1>1, <1>2, FinalizedKeeps DEF Asking
<1>4. x \in CallRecord
  BY DEF CallRecord
<1>5. Asking(x)'
  BY <1>1, <1>2, <1>3 DEF CallRecord, Asking
<1>. QED  BY <1>2, <1>3, <1>4, <1>5, OthersAsk, AllAttempts DEF XInv, XTypes

\* The job under a key is made once; who finds it is accepted when it is what he asked for.
LEMMA EnqueueXInv ==
  ASSUME X!Constants, XInv, X!Remember, NEW c \in Request, X!Enqueue(c)
  PROVE  XInv'
<1>1. PICK q \in CallRecord : q = call[c] /\ Asking(q)
  BY DEF XInv, XTypes
<1>. DEFINE k == q.key
            j == [by |-> q.by, template |-> q.template, model |-> q.model, content |-> q.content,
                  input |-> q.input, at |-> "queued", result |-> None]
            x == [q EXCEPT !.at = "accepted"]
            y == [q EXCEPT !.at = "conflict"]
<1>2. q.at = "enqueue" /\ UNCHANGED <<template, setting, edit, artifact, worker>>
  BY <1>1 DEF X!Enqueue, X!admin
<1>3. q.by \in Actor /\ q.template \in Extraction /\ q.content \in Content /\ k \in X!Key
      /\ q.model \in Model /\ Whole(q.input, q.content)
  BY <1>1, <1>2 DEF Asking
<1>4. x \in CallRecord /\ y \in CallRecord
  BY DEF CallRecord
<1>5. CASE job[k] = None
  <2>1. job' = [job EXCEPT ![k] = j] /\ X!Becomes(c, x)
    BY <1>1, <1>5 DEF X!Enqueue, X!Asked
  <2>2. j \in X!Job
    <3>1. q.input \in 1 .. Len(artifact) /\ Len(artifact) \in Nat /\ Len(artifact) <= MaxArtifacts
      BY <1>3 DEF Whole, XInv, XTypes
    <3>2. q.input \in X!Artifact
      BY <3>1 DEF X!Artifact, X!Constants
    <3>. QED  BY <1>3, <3>2 DEF X!Job
  <2>3. job' \in [X!Key -> X!Job \cup {None}] /\ job'[k] = j
        /\ \A l \in X!Key : l # k => job'[l] = job[l]
    BY <1>3, <2>1, <2>2 DEF XInv, XTypes
  <2>4. Keeps
    BY <1>2, <1>5, <2>3 DEF Keeps, SameJob
  <2>5. JobRows'
    <3>1. ASSUME NEW l \in X!Key, job'[l] # None
          PROVE  /\ Whole(job[l].input, job[l].content)'
                 /\ job'[l].at = "done" => Whole(job[l].result, l)'
      <4>1. CASE l = k
        <5>1. job'[l].input = q.input /\ job'[l].content = q.content /\ job'[l].at # "done"
          BY <2>3, <4>1
        <5>. QED  BY <1>2, <1>3, <5>1 DEF Whole
      <4>2. CASE l # k
        <5>1. job'[l] = job[l] /\ job[l] # None
          BY <2>3, <3>1, <4>2
        <5>. QED  BY <1>2, <5>1 DEF JobRows, Whole, XInv
      <4>. QED  BY <4>1, <4>2
    <3>. QED  BY <3>1 DEF JobRows
  <2>6. OfJob(x, job'[k])
    BY <1>1, <2>2, <2>3 DEF OfJob, CallRecord, X!Constants
  <2>7. Asking(x)'
    BY <1>1, <1>3, <2>6 DEF CallRecord, Asking, OfJob
  <2>. QED  BY <1>2, <1>4, <2>1, <2>3, <2>4, <2>5, <2>7, OthersAsk, AllAttempts DEF XInv, XTypes
<1>6. CASE job[k] # None
  <2>1. UNCHANGED job /\ X!Becomes(c, IF X!Replayed(c, job[k]) THEN x ELSE y)
    BY <1>1, <1>6 DEF X!Enqueue, X!Asked
  <2>2. X!Replayed(c, job[k]) => Asking(x)'
    BY <1>1, <1>3, <1>6, <2>1 DEF CallRecord, Asking, OfJob, X!Replayed
  <2>3. Asking(y)'
    BY <1>1, <1>3 DEF CallRecord, Asking
  <2>. QED  BY <1>2, <1>4, <2>1, <2>2, <2>3, OneAsks
<1>. QED  BY <1>5, <1>6

LEMMA ProcessXInv ==
  ASSUME X!Constants, XInv, X!Remember, NEW c \in Request, X!Process(c)
  PROVE  XInv'
<1>1. ASSUME X!Leave(c) PROVE XInv'
  BY <1>1, NoCallAsks, OneAsks DEF X!Leave, X!admin
<1>. QED  BY <1>1, BeginXInv, ReadTemplateXInv, ResolveModelXInv, BeginInputXInv,
             FinalizeInputXInv, EnqueueXInv DEF X!Process

-----------------------------------------------------------------------------
(* The attempts. *)

LEMMA NoAttemptIs ==
  X!NoAttempt \in AttemptRecord /\ \A w \in Worker : Doing(w, X!NoAttempt)'
BY DEF AttemptRecord, X!NoAttempt, Doing

\* What a job becomes that only its stage moves of.
LEMMA StageMoves ==
  ASSUME NEW j \in X!Job, NEW at \in {"queued", "running", "sent", "over"}
  PROVE  /\ [j EXCEPT !.at = at] \in X!Job /\ [j EXCEPT !.at = at].at # "done"
         /\ [j EXCEPT !.at = at] # None => SameJob(j, [j EXCEPT !.at = at])
BY DEF X!Job, SameJob

LEMMA JobAtKeeps ==
  ASSUME X!Constants, XInv, NEW k \in X!Key, job[k] # None,
         NEW at \in {"queued", "running", "sent", "over"},
         job' = [job EXCEPT ![k].at = at], UNCHANGED artifact
  PROVE  Keeps /\ JobRows' /\ job' \in [X!Key -> X!Job \cup {None}]
<1>. DEFINE i == [job[k] EXCEPT !.at = at]
<1>1. job[k] \in X!Job
  BY DEF XInv, XTypes
<1>2. i \in X!Job /\ i.at # "done" /\ SameJob(job[k], i)
  BY <1>1, StageMoves DEF X!Constants
<1>3. job' = [job EXCEPT ![k] = i]
  OBVIOUS
<1>. HIDE DEF i
<1>. QED  BY <1>2, <1>3, JobMoves

\* Where an attempt moves and nothing else.
LEMMA OneWorks ==
  ASSUME XInv, X!Remember, NEW w \in Worker, NEW x \in AttemptRecord, X!Works(w, x), Doing(w, x)',
         UNCHANGED <<template, setting, edit, artifact, job, call>>
  PROVE  XInv'
<1>1. Keeps /\ JobRows'
  BY Quiet
<1>. QED  BY <1>1, OtherAttempts, AllAsk DEF XInv, XTypes

LEMMA ClaimXInv ==
  ASSUME X!Constants, XInv, X!Remember, NEW w \in Worker, NEW k \in X!Key, X!Claim(w, k)
  PROVE  XInv'
<1>. DEFINE x == [X!NoAttempt EXCEPT !.at = "load", !.key = k]
<1>1. job[k] # None /\ job' = [job EXCEPT ![k].at = "running"] /\ X!Works(w, x)
      /\ UNCHANGED <<template, setting, edit, artifact, call>>
  BY DEF X!Claim, X!admin
<1>2. Keeps /\ JobRows' /\ job' \in [X!Key -> X!Job \cup {None}]
  BY <1>1, JobAtKeeps
<1>3. x \in AttemptRecord
  BY DEF AttemptRecord, X!NoAttempt
<1>4. job'[k] # None
  BY <1>1, <1>2 DEF Keeps, SameJob
<1>5. Doing(w, x)'
  BY <1>4 DEF X!NoAttempt, Doing
<1>. QED  BY <1>1, <1>2, <1>3, <1>5, OtherAttempts, AllAsk DEF XInv, XTypes

LEMMA EndsXInv ==
  ASSUME X!Constants, XInv, X!Remember, NEW w \in Worker, X!Fail(w)
  PROVE  XInv'
<1>1. worker[w].key \in X!Key /\ job[worker[w].key] # None
  BY DEF X!Fail, XInv, Doing
<1>2. X!Works(w, X!NoAttempt) /\ UNCHANGED <<template, setting, edit, artifact, call>>
  BY DEF X!Fail, X!Ends, X!admin
<1>3. \E at \in {"queued", "over"} : job' = [job EXCEPT ![worker[w].key].at = at]
  BY DEF X!Fail, X!Ends, X!JobAt
<1>4. Keeps /\ JobRows' /\ job' \in [X!Key -> X!Job \cup {None}]
  BY <1>1, <1>2, <1>3, JobAtKeeps
<1>. QED  BY <1>2, <1>4, NoAttemptIs, OtherAttempts, AllAsk DEF XInv, XTypes

\* The template is enabled, so it is not among those that have been withdrawn all along.
LEMMA LoadXInv ==
  ASSUME X!Constants, XInv, X!Remember, NEW w \in Worker, X!Load(w)
  PROVE  XInv'
<1>1. PICK v \in AttemptRecord : v = worker[w] /\ Doing(w, v)
  BY DEF XInv, XTypes
<1>. DEFINE x == [v EXCEPT !.at = "input"]
<1>2. v.at = "load" /\ job[v.key].template \notin X!Withdrawn /\ X!Works(w, x)
      /\ UNCHANGED <<template, setting, edit, artifact, job, call>>
  BY <1>1 DEF X!Load, X!Goes, X!Mine, X!admin
<1>3. x \in AttemptRecord
  BY DEF AttemptRecord
<1>4. off'[w] \subseteq X!Withdrawn
  BY <1>1, <1>2 DEF X!Remember, X!Withdrawn
<1>5. Doing(w, x)'
  BY <1>1, <1>2, <1>4 DEF AttemptRecord, Doing
<1>. QED  BY <1>2, <1>3, <1>5, OneWorks

LEMMA ReadInputXInv ==
  ASSUME X!Constants, XInv, X!Remember, NEW w \in Worker, X!ReadInput(w)
  PROVE  XInv'
<1>1. PICK v \in AttemptRecord : v = worker[w] /\ Doing(w, v)
  BY DEF XInv, XTypes
<1>2. PICK y : y = artifact[job[v.key].input].holds
  OBVIOUS
<1>. DEFINE x == [v EXCEPT !.at = "mark", !.content = y]
<1>3. v.at = "input" /\ X!Works(w, x)
      /\ UNCHANGED <<template, setting, edit, artifact, job, call>>
  BY <1>1, <1>2 DEF X!ReadInput, X!Mine, X!admin
<1>4. v.key \in X!Key /\ job[v.key] # None
  BY <1>1, <1>3 DEF Doing
<1>5. y = job[v.key].content /\ y \in Content
  <2>1. PICK j \in X!Job : j = job[v.key]
    BY <1>4 DEF XInv, XTypes
  <2>2. Whole(j.input, j.content)
    BY <1>4, <2>1 DEF XInv, JobRows
  <2>3. j.content \in Content
    BY DEF X!Job
  <2>4. y = j.content
    BY <1>2, <2>1, <2>2 DEF Whole
  <2>. QED  BY <2>1, <2>3, <2>4
<1>6. x \in AttemptRecord
  BY <1>5 DEF AttemptRecord
<1>7. Doing(w, v)'
  BY <1>1, <1>3, DoingStays, Quiet
<1>8. Doing(w, x)'
  BY <1>1, <1>3, <1>5, <1>7 DEF AttemptRecord, Doing
<1>. QED  BY <1>3, <1>6, <1>8, OneWorks

LEMMA MarkDispatchedXInv ==
  ASSUME X!Constants, XInv, X!Remember, NEW w \in Worker, X!MarkDispatched(w)
  PROVE  XInv'
<1>1. PICK v \in AttemptRecord : v = worker[w] /\ Doing(w, v)
  BY DEF XInv, XTypes
<1>. DEFINE x == [v EXCEPT !.at = "call"]
<1>2. v.at = "mark" /\ X!Works(w, x) /\ job' = [job EXCEPT ![v.key].at = "sent"]
      /\ UNCHANGED <<template, setting, edit, artifact, call>>
  BY <1>1 DEF X!MarkDispatched, X!Goes, X!JobAt, X!admin
<1>3. v.key \in X!Key /\ job[v.key] # None
  BY <1>1, <1>2 DEF Doing
<1>4. Keeps /\ JobRows' /\ job' \in [X!Key -> X!Job \cup {None}]
  BY <1>2, <1>3, JobAtKeeps
<1>5. x \in AttemptRecord
  BY DEF AttemptRecord
<1>6. Doing(w, v)'
  BY <1>1, <1>2, <1>4, DoingStays
<1>7. Doing(w, x)'
  BY <1>2, <1>6 DEF AttemptRecord, Doing
<1>. QED  BY <1>2, <1>4, <1>5, <1>7, OtherAttempts, AllAsk DEF XInv, XTypes

LEMMA AnsweredXInv ==
  ASSUME X!Constants, XInv, X!Remember, NEW w \in Worker, X!Answered(w)
  PROVE  XInv'
<1>1. PICK v \in AttemptRecord : v = worker[w] /\ Doing(w, v)
  BY DEF XInv, XTypes
<1>. DEFINE x == [v EXCEPT !.at = "begin"]
<1>2. v.at = "call" /\ X!Works(w, x)
      /\ UNCHANGED <<template, setting, edit, artifact, job, call>>
  BY <1>1 DEF X!Answered, X!Goes, X!admin
<1>3. x \in AttemptRecord
  BY DEF AttemptRecord
<1>4. Doing(w, x)'
  BY <1>1, <1>2 DEF AttemptRecord, Doing
<1>. QED  BY <1>2, <1>3, <1>4, OneWorks

LEMMA BeginResultXInv ==
  ASSUME X!Constants, XInv, X!Remember, NEW w \in Worker, X!BeginResult(w)
  PROVE  XInv'
<1>1. PICK v \in AttemptRecord : v = worker[w] /\ Doing(w, v)
  BY DEF XInv, XTypes
<1>2. v.at = "begin" /\ X!Writing(v.key) /\ UNCHANGED <<template, setting, edit, job, call>>
      /\ X!Works(w, [v EXCEPT !.at = "finalize", !.result = X!New])
  BY <1>1 DEF X!BeginResult, X!admin
<1>3. v.key \in X!Key /\ job[v.key] # None /\ MaxArtifacts \in Nat
  BY <1>1, <1>2 DEF Doing, X!Constants
<1>4. PICK n \in X!Artifact : n = X!New /\ Written(n, v.key)'
  BY <1>2, <1>3, WritingKeeps
<1>. DEFINE x == [v EXCEPT !.at = "finalize", !.result = n]
<1>5. x \in AttemptRecord
  BY DEF AttemptRecord
<1>6. Doing(w, x)'
  BY <1>2, <1>3, <1>4 DEF AttemptRecord, Doing
<1>7. X!Works(w, x)
  BY <1>2, <1>4
<1>8. Keeps /\ JobRows' /\ artifact' \in Seq(X!File) /\ Len(artifact') <= MaxArtifacts
  BY <1>2, <1>3, WritingKeeps
<1>. QED  BY <1>2, <1>5, <1>6, <1>7, <1>8, OtherAttempts, AllAsk DEF XInv, XTypes

LEMMA FinalizeResultXInv ==
  ASSUME X!Constants, XInv, X!Remember, NEW w \in Worker, X!FinalizeResult(w)
  PROVE  XInv'
<1>1. PICK v \in AttemptRecord : v = worker[w] /\ Doing(w, v)
  BY DEF XInv, XTypes
<1>. DEFINE x == [v EXCEPT !.at = "complete"]
<1>2. v.at = "finalize" /\ X!Finalized(v.result) /\ X!Works(w, x)
      /\ UNCHANGED <<template, setting, edit, job, call>>
  BY <1>1 DEF X!FinalizeResult, X!Goes, X!admin
<1>3. Keeps /\ JobRows' /\ Whole(v.result, v.key)'
      /\ artifact' \in Seq(X!File) /\ Len(artifact') <= MaxArtifacts
  BY <1>1, <1>2, FinalizedKeeps DEF Doing
<1>4. x \in AttemptRecord
  BY DEF AttemptRecord
<1>5. Doing(w, x)'
  BY <1>1, <1>2, <1>3 DEF AttemptRecord, Doing
<1>. QED  BY <1>2, <1>3, <1>4, <1>5, OtherAttempts, AllAsk DEF XInv, XTypes

LEMMA CompleteXInv ==
  ASSUME X!Constants, XInv, X!Remember, NEW w \in Worker, X!Complete(w)
  PROVE  XInv'
<1>1. PICK v \in AttemptRecord : v = worker[w] /\ Doing(w, v)
  BY DEF XInv, XTypes
<1>. DEFINE k == v.key
            i == [job[k] EXCEPT !.at = "done", !.result = v.result]
<1>2. v.at = "complete" /\ X!Works(w, X!NoAttempt)
      /\ job' = [job EXCEPT ![k].at = "done", ![k].result = v.result]
      /\ UNCHANGED <<template, setting, edit, artifact, call>>
  BY <1>1 DEF X!Complete, X!admin
<1>3. k \in X!Key /\ job[k] # None /\ Whole(v.result, k)
  BY <1>1, <1>2 DEF Doing
<1>4. PICK j \in X!Job : j = job[k]
  BY <1>3 DEF XInv, XTypes
<1>5. v.result \in 1 .. Len(artifact) /\ Len(artifact) \in Nat /\ Len(artifact) <= MaxArtifacts
  BY <1>3 DEF Whole, XInv, XTypes
<1>6. v.result \in X!Artifact
  BY <1>5 DEF X!Artifact, X!Constants
<1>7. i \in X!Job /\ SameJob(job[k], i) /\ i.result = v.result
  <2>1. [j EXCEPT !.at = "done", !.result = v.result] \in X!Job
    BY <1>6 DEF X!Job
  <2>. QED  BY <1>4, <2>1 DEF SameJob, X!Job, X!Constants
<1>8. job' = [job EXCEPT ![k] = i]
  BY <1>2, <1>3 DEF XInv, XTypes
<1>. HIDE DEF i
<1>9. Keeps /\ JobRows' /\ job' \in [X!Key -> X!Job \cup {None}]
  BY <1>2, <1>3, <1>7, <1>8, JobMoves
<1>. QED  BY <1>2, <1>9, NoAttemptIs, OtherAttempts, AllAsk DEF XInv, XTypes

LEMMA AttemptXInv ==
  ASSUME X!Constants, XInv, X!Remember, NEW w \in Worker, X!Attempt(w)
  PROVE  XInv'
BY ClaimXInv, EndsXInv, LoadXInv, ReadInputXInv, MarkDispatchedXInv, AnsweredXInv,
   BeginResultXInv, FinalizeResultXInv, CompleteXInv DEF X!Attempt

-----------------------------------------------------------------------------
(* Administration moves neither files, jobs, requests nor attempts. *)

LEMMA AdministrationXInv ==
  ASSUME X!Constants, XInv, X!Remember, X!Administration
  PROVE  XInv'
<1>1. UNCHANGED <<artifact, job, call, worker>>
  BY DEF X!Administration, X!DeleteTemplate, X!SeedDefault, X!Post, X!PutWrite, X!TouchRead,
         X!TouchWrite, X!PutRead, X!ResetDefaults, X!UpdateSettings, X!work
<1>2. X!ShippedRow \in X!TemplateRow
  BY DEF X!ShippedRow, X!TemplateRow
<1>3. template' \in [Extraction -> X!TemplateRow \cup {None}] /\ setting' \in X!Setting \cup {None}
      /\ edit' \in [Edit -> EditRecord]
  <2>1. ASSUME NEW t \in Extraction, X!DeleteTemplate(t) \/ X!SeedDefault(t) PROVE <1>3
    BY <1>2, <2>1 DEF X!DeleteTemplate, X!SeedDefault, XInv, XTypes
  <2>2. ASSUME NEW t \in Extraction, NEW row \in TemplateRows, X!Post(t, row) PROVE <1>3
    BY <2>2 DEF X!Post, X!Constants, XInv, XTypes
  <2>3. ASSUME NEW x \in Edit, X!PutWrite(x) PROVE <1>3
    <3>1. edit[x].row \in X!TemplateRow \cup {None}
      BY DEF XInv, XTypes, EditRecord
    <3>2. [X!NoEdit EXCEPT !.at = "done"] \in EditRecord
      BY DEF X!NoEdit, EditRecord
    <3>. QED  BY <2>3, <3>1, <3>2 DEF X!PutWrite, XInv, XTypes
  <2>4. ASSUME NEW x \in Edit, X!TouchRead(x) PROVE <1>3
    <3>1. [edit[x] EXCEPT !.at = "touch"] \in EditRecord
      BY DEF XInv, XTypes, EditRecord
    <3>. QED  BY <2>4, <3>1 DEF X!TouchRead, XInv, XTypes
  <2>5. ASSUME NEW x \in Edit, X!TouchWrite(x) PROVE <1>3
    <3>1. [edit[x] EXCEPT !.at = "done"] \in EditRecord
      BY DEF XInv, XTypes, EditRecord
    <3>2. [model |-> None] \in X!Setting
      BY DEF X!Setting
    <3>. QED  BY <2>5, <3>1, <3>2 DEF X!TouchWrite, XInv, XTypes
  <2>6. ASSUME NEW x \in Edit, NEW t \in Extraction, NEW row \in TemplateRows, X!PutRead(x, t, row)
        PROVE  <1>3
    <3>1. [at |-> "put", id |-> t, row |-> row] \in EditRecord
      BY DEF EditRecord, X!Constants
    <3>. QED  BY <2>6, <3>1 DEF X!PutRead, XInv, XTypes
  <2>7. ASSUME X!ResetDefaults PROVE <1>3
    BY <1>2, <2>7 DEF X!ResetDefaults, XInv, XTypes
  <2>8. ASSUME NEW m \in Model \cup {None}, X!UpdateSettings(m) PROVE <1>3
    <3>1. [model |-> m] \in X!Setting
      BY DEF X!Setting
    <3>. QED  BY <2>8, <3>1 DEF X!UpdateSettings, XInv, XTypes
  <2>. QED  BY <2>1, <2>2, <2>3, <2>4, <2>5, <2>6, <2>7, <2>8 DEF X!Administration
<1>4. Keeps /\ JobRows'
  BY <1>1, Quiet
<1>. QED  BY <1>1, <1>3, <1>4, AllAsk, AllAttempts DEF XInv, XTypes

-----------------------------------------------------------------------------

LEMMA InitXInv == ASSUME X!Constants, X!Init PROVE XInv
<1>1. XTypes
  <2>1. X!ShippedRow \in X!TemplateRow /\ [model |-> None] \in X!Setting
    BY DEF X!ShippedRow, X!TemplateRow, X!Setting
  <2>2. template \in [Extraction -> X!TemplateRow \cup {None}] /\ setting \in X!Setting \cup {None}
    BY <2>1 DEF X!Init
  <2>3. X!NoCall \in CallRecord /\ X!NoAttempt \in AttemptRecord /\ X!NoEdit \in EditRecord
    BY DEF CallRecord, X!NoCall, AttemptRecord, X!NoAttempt, EditRecord, X!NoEdit
  <2>4. artifact \in Seq(X!File) /\ Len(artifact) <= MaxArtifacts
    BY DEF X!Init, X!Constants
  <2>. QED  BY <2>2, <2>3, <2>4 DEF X!Init, XTypes
<1>2. JobRows
  BY DEF X!Init, JobRows
<1>3. \A c \in Request : Asking(call[c])
  BY DEF X!Init, X!NoCall, Asking
<1>4. \A w \in Worker : Doing(w, worker[w])
  BY DEF X!Init, X!NoAttempt, Doing
<1>. QED  BY <1>1, <1>2, <1>3, <1>4 DEF XInv

LEMMA StepXInv == ASSUME X!Constants, XInv, [X!Next]_(X!vars) PROVE XInv'
<1>1. CASE UNCHANGED X!vars
  BY <1>1 DEF X!vars, X!admin, X!work, XInv, XTypes, JobRows, Asking, OfJob, Doing, Written, Whole
<1>. QED
  BY <1>1, ProcessXInv, AttemptXInv, AdministrationXInv DEF X!Next

\* However requests, attempts and settings interleave, the files, jobs and callers of
\* Extract agree.
THEOREM ExtractInvariance == Spec => []XInv
<1>1. Init => XInv
  BY InitXInv, SurfaceAssumption DEF Init
<1>2. XInv /\ [Next]_vars => XInv'
  BY StepXInv, SurfaceAssumption DEF Next, vars, extract, X!vars, X!admin, X!work
<1>. QED  BY <1>1, <1>2, PTL DEF Spec

\* Process, processClaim: however requests and attempts end and overlap, the file of a job
\* and the result of one that is done are final and its own, and that file is what is sent.
THEOREM JobsReadable == Spec => []JobsAreReadable
<1>1. XInv => JobsAreReadable
  <2>. SUFFICES ASSUME XInv PROVE JobsAreReadable
    OBVIOUS
  <2>1. \A k \in X!Key : job[k] # None =>
          /\ artifact[job[k].input] = [holds |-> job[k].content, final |-> TRUE]
          /\ job[k].at = "done" => artifact[job[k].result] = [holds |-> k, final |-> TRUE]
    BY DEF XInv, JobRows, Whole
  <2>2. \A w \in Worker : worker[w].at = "call" => worker[w].content = job[worker[w].key].content
    BY DEF XInv, Doing
  <2>. QED  BY <2>1, <2>2 DEF JobsAreReadable, X!JobsAreReadable, X!Mine
<1>. QED  BY <1>1, ExtractInvariance, PTL

\* jobs.Enqueue under an idempotency key: whoever else used the key, what a request is
\* told was accepted is a job of its actor, for its file, template and model.
THEOREM AcceptedOwn == Spec => []AcceptedIsOwn
<1>1. XInv => AcceptedIsOwn
  BY DEF XInv, Asking, OfJob, AcceptedIsOwn, X!AcceptedIsOwn
<1>. QED  BY <1>1, ExtractInvariance, PTL

\* processClaim loads the template again: one that has been withdrawn since before the
\* attempt began is not sent, however the job waited.
THEOREM WithdrawnUnsent == Spec => []WithdrawnNotSent
<1>1. XInv => WithdrawnNotSent
  BY DEF XInv, Doing, WithdrawnNotSent, X!WithdrawnNotSent, X!Mine
<1>. QED  BY <1>1, ExtractInvariance, PTL

-----------------------------------------------------------------------------
(* Chatbot.  The inductive invariant: a completion knows how much of its    *)
(* turn its conversation has, nobody else writes to that turn, and what it  *)
(* goes on with was there when it began.                                    *)

MessageRecord == [role : {"user", "assistant"}, n : Nat, of : Nat]
CompletionRecord ==
  [at : {"idle", "byId", "byName", "template", "resume", "open", "record", "execute", "answered"},
   do : {"unary", "stream"}, by : Actor \cup {None}, name : C!Name \cup {None}, n : Nat, of : Nat,
   talk : Conversation \cup {None}, bot : Bot \cup {None}, row : C!BotRow \cup {None},
   left : Nat, text : BOOLEAN]
BotEditRecord ==
  {x \in [at : {"idle", "bot", "prompt", "done"}, id : Bot \cup Prompt \cup {None},
          row : C!BotRow \cup C!PromptRow \cup {None}] : x.at = "bot" => x.row \in C!BotRow}

ChatTypes ==
  /\ bot \in [Bot -> C!BotRow \cup {None}]
  /\ log \in [Conversation -> Seq(MessageRecord)]
  /\ turn \in [Request -> CompletionRecord]
  /\ botEdit \in [Edit -> BotEditRecord]
  /\ turns \in Nat

Count(c, n) == Cardinality(C!Turn(c, n))

\* An answer is what comes after all the messages it answers.
InOrder(c, n, i) ==
  log[c][i].role = "assistant" <=> Cardinality({j \in C!Turn(c, n) : j < i}) >= log[c][i].of

Logs ==
  \A c \in Conversation, n \in Nat : \A i \in C!Turn(c, n) : n <= turns /\ InOrder(c, n, i)

\* How much of its turn a completion has written.
Wrote(q) ==
  /\ q.at # "idle" => q.n <= turns
  /\ q.at \in {"byId", "byName", "template", "resume", "open"} =>
       /\ q.left = q.of /\ q.left >= 1
       /\ \A c \in Conversation : C!Turn(c, q.n) = {}
  /\ q.at \in {"resume", "record", "execute", "answered"} => q.talk \in Conversation
  /\ q.at = "record" => q.left >= 1 /\ Count(q.talk, q.n) + q.left = q.of
  /\ q.at \in {"execute", "answered"} => Count(q.talk, q.n) = q.of

\* A turn is one completion's.
OneWriter ==
  \A r, s \in Request : turn[r].at # "idle" /\ turn[s].at # "idle" /\ turn[r].n = turn[s].n => r = s

\* The turn of a completion that was reported is whole and nobody's.
Reports ==
  \A d \in replied :
    /\ d.talk \in Conversation /\ d.n \in Nat /\ d.n <= turns
    /\ Count(d.talk, d.n) = d.of + (IF d.text THEN 1 ELSE 0)
    /\ \A r \in Request : turn[r].at # "idle" => turn[r].n # d.n

\* What a completion goes on with has not been withdrawn all along.
Serving(r, q) ==
  /\ q.at \in {"template", "resume", "open", "record", "execute", "answered"} =>
       q.row \in C!BotRow /\ q.bot \in Bot /\ q.bot \notin botsOff[r]
  /\ q.at \in {"resume", "open", "record", "execute", "answered"} => q.row.prompt \notin botsOff[r]

ChatInv ==
  /\ ChatTypes /\ Logs /\ OneWriter /\ Reports
  /\ \A r \in Request : Wrote(turn[r]) /\ Serving(r, turn[r])

-----------------------------------------------------------------------------
(* The log. *)

LEMMA TurnIsFinite ==
  ASSUME ChatTypes, NEW c \in Conversation, NEW n
  PROVE  IsFiniteSet(C!Turn(c, n)) /\ Count(c, n) \in Nat
<1>1. log[c] \in Seq(MessageRecord)
  BY DEF ChatTypes
<1>2. Len(log[c]) \in Nat /\ DOMAIN log[c] = 1 .. Len(log[c])
  BY <1>1
<1>3. IsFiniteSet(1 .. Len(log[c]))
  BY <1>2, FS_Interval
<1>4. C!Turn(c, n) \in SUBSET (1 .. Len(log[c]))
  BY <1>2 DEF C!Turn
<1>5. IsFiniteSet(C!Turn(c, n))
  BY <1>3, <1>4, FS_Subset
<1>. QED  BY <1>5, FS_CardinalityType DEF Count

\* A message is added to the turn it is of and to no other.
LEMMA Adds ==
  ASSUME ChatTypes, Logs, NEW c \in Conversation, NEW k \in Nat, NEW m \in MessageRecord, m.n = k,
         log' = [log EXCEPT ![c] = Append(@, m)], turns' >= turns, turns' \in Nat, k <= turns,
         m.role = "assistant" <=> Count(c, k) >= m.of
  PROVE  /\ log' \in [Conversation -> Seq(MessageRecord)] /\ Logs'
         /\ \A d \in Conversation : \A n : d # c \/ n # k => C!Turn(d, n)' = C!Turn(d, n)
         /\ Count(c, k)' = Count(c, k) + 1
<1>1. log[c] \in Seq(MessageRecord) /\ Len(log[c]) \in Nat
      /\ DOMAIN log[c] = 1 .. Len(log[c])
  BY DEF ChatTypes
<1>2. PICK e \in Nat : e = Len(log[c]) + 1
  BY <1>1
<1>3. log' \in [Conversation -> Seq(MessageRecord)]
      /\ \A d \in Conversation : d # c => log'[d] = log[d]
      /\ log'[c] = Append(log[c], m)
  BY <1>1 DEF ChatTypes
<1>4. DOMAIN log'[c] = 1 .. e /\ log'[c][e] = m /\ \A i \in DOMAIN log[c] : log'[c][i] = log[c][i]
  BY <1>1, <1>2, <1>3
<1>5. e \notin DOMAIN log[c] /\ DOMAIN log'[c] = DOMAIN log[c] \cup {e}
      /\ \A i \in DOMAIN log[c] : i \in Nat /\ i < e
  BY <1>1, <1>2, <1>4
<1>6. \A d \in Conversation : \A n : d # c => C!Turn(d, n)' = C!Turn(d, n)
  BY <1>3 DEF C!Turn
<1>7. \A n : n # k => C!Turn(c, n)' = C!Turn(c, n)
  BY <1>4, <1>5 DEF C!Turn
<1>8. C!Turn(c, k)' = C!Turn(c, k) \cup {e} /\ e \notin C!Turn(c, k)
  BY <1>4, <1>5 DEF C!Turn
<1>9. Count(c, k)' = Count(c, k) + 1
  BY <1>8, TurnIsFinite, FS_AddElement, ZenonT(60) DEF Count
<1>10. ASSUME NEW d \in Conversation, NEW i \in DOMAIN log[d], d # c \/ i # e
       PROVE  /\ log'[d][i] = log[d][i]
              /\ \A n : {j \in C!Turn(d, n) : j < i}' = {j \in C!Turn(d, n) : j < i}
  <2>1. CASE d # c
    BY <1>3, <1>6, <2>1
  <2>2. CASE d = c
    <3>1. \A n : {j \in C!Turn(c, n)' : j < i} = {j \in C!Turn(c, n) : j < i}
      <4>1. i < e /\ i \in Nat
        BY <1>5, <2>2
      <4>. QED  BY <1>2, <1>7, <1>8, <4>1
    <3>. QED  BY <1>4, <2>2, <3>1
  <2>. QED  BY <2>1, <2>2
<1>11. {j \in C!Turn(c, k)' : j < e} = C!Turn(c, k)
  BY <1>5, <1>8, <1>2 DEF C!Turn
<1>12. Logs'
  <2>1. ASSUME NEW d \in Conversation, NEW n \in Nat, NEW i \in C!Turn(d, n)'
        PROVE  n <= turns' /\ InOrder(d, n, i)'
    <3>1. CASE d = c /\ i = e
      <4>1. n = k /\ log'[d][i] = m
        BY <1>4, <3>1 DEF C!Turn
      <4>2. turns \in Nat
        BY DEF ChatTypes
      <4>3. {j \in C!Turn(d, n)' : j < i} = C!Turn(c, k)
        BY <1>11, <3>1, <4>1
      <4>4. InOrder(d, n, i)' <=> (m.role = "assistant" <=> Cardinality(C!Turn(c, k)) >= m.of)
        BY <4>1, <4>3, Zenon DEF InOrder
      <4>5. n <= turns'
        BY <4>1, <4>2
      <4>. QED  BY <4>4, <4>5 DEF Count
    <3>2. CASE ~(d = c /\ i = e)
      <4>1. i \in DOMAIN log[d]
        BY <1>3, <1>5, <3>2 DEF C!Turn
      <4>2. log'[d][i] = log[d][i]
            /\ {j \in C!Turn(d, n)' : j < i} = {j \in C!Turn(d, n) : j < i}
        BY <1>10, <3>2, <4>1
      <4>3. i \in C!Turn(d, n)
        BY <4>1, <4>2 DEF C!Turn
      <4>4. n <= turns /\ turns \in Nat /\ InOrder(d, n, i)
        BY <4>3 DEF Logs, ChatTypes
      <4>5. InOrder(d, n, i)' <=> InOrder(d, n, i)
        BY <4>2, Zenon DEF InOrder
      <4>. QED  BY <4>4, <4>5
    <3>. QED  BY <3>1, <3>2
  <2>. QED  BY <2>1 DEF Logs
<1>. QED  BY <1>3, <1>6, <1>7, <1>9, <1>12

-----------------------------------------------------------------------------
(* A completion that moves, and the others. *)

LEMMA ServingStays ==
  ASSUME C!Remember, NEW r \in Request, turn[r].at # "idle", NEW q \in CompletionRecord,
         Serving(r, q)
  PROVE  Serving(r, q)'
<1>1. botsOff'[r] \subseteq botsOff[r]
  BY DEF C!Remember, C!At
<1>. QED  BY <1>1 DEF Serving

LEMMA IdleServes ==
  ASSUME NEW r, NEW q, q.at = "idle"
  PROVE  Wrote(q) /\ Wrote(q)' /\ Serving(r, q)'
BY DEF Wrote, Serving

LEMMA WroteStays ==
  ASSUME turns \in Nat, turns' \in Nat, turns' >= turns, NEW q \in CompletionRecord, Wrote(q),
         \A d \in Conversation : C!Turn(d, q.n)' = C!Turn(d, q.n)
  PROVE  Wrote(q)'
<1>1. \A d \in Conversation : Count(d, q.n)' = Count(d, q.n)
  BY DEF Count
<1>2. q.n \in Nat /\ (q.n <= turns => q.n <= turns')
  BY DEF CompletionRecord
<1>. QED  BY <1>1, <1>2 DEF Wrote

\* Where a completion moves, it is the only one whose turn, k, may grow.
Steady(r, x, k) ==
  /\ C!Remember /\ C!Becomes(r, x) /\ turns' \in Nat /\ turns' >= turns
  /\ bot' \in [Bot -> C!BotRow \cup {None}] /\ botEdit' \in [Edit -> BotEditRecord]
  /\ log' \in [Conversation -> Seq(MessageRecord)] /\ Logs' /\ Reports'
  /\ Wrote(x)' /\ Serving(r, x)' /\ (x.at # "idle" => x.n = k)
  /\ \A s \in Request : s # r /\ turn[s].at # "idle" => turn[s].n # k
  /\ \A d \in Conversation, n \in Nat : n # k => C!Turn(d, n)' = C!Turn(d, n)

LEMMA OneCompletes ==
  ASSUME ChatInv, NEW r \in Request, NEW x \in CompletionRecord, NEW k \in Nat, Steady(r, x, k)
  PROVE  ChatInv'
<1>. USE DEF Steady
<1>1. turn' \in [Request -> CompletionRecord] /\ turn'[r] = x
      /\ \A s \in Request : s # r => turn'[s] = turn[s]
  BY DEF ChatInv, ChatTypes, C!Becomes
<1>2. ASSUME NEW s \in Request, s # r PROVE Wrote(turn[s])' /\ Serving(s, turn[s])'
  <2>1. PICK q \in CompletionRecord : q = turn[s] /\ Wrote(q) /\ Serving(s, q)
    BY DEF ChatInv, ChatTypes
  <2>2. Wrote(q)' /\ Serving(s, q)'
    <3>1. CASE q.at = "idle"
      BY <3>1, IdleServes
    <3>2. CASE q.at # "idle"
      <4>1. q.n \in Nat /\ q.n # k /\ turns \in Nat
        BY <1>2, <2>1, <3>2 DEF CompletionRecord, ChatInv, ChatTypes
      <4>2. \A d \in Conversation : C!Turn(d, q.n)' = C!Turn(d, q.n)
        BY <4>1
      <4>. QED  BY <2>1, <3>2, <4>1, <4>2, WroteStays, ServingStays
    <3>. QED  BY <3>1, <3>2
  <2>. QED  BY <1>1, <1>2, <2>1, <2>2
<1>3. Wrote(turn[r])' /\ Serving(r, turn[r])'
  BY <1>1
<1>4. OneWriter'
  BY <1>1 DEF ChatInv, OneWriter
<1>. QED  BY <1>1, <1>2, <1>3, <1>4 DEF ChatInv, ChatTypes

LEMMA LogsStay ==
  ASSUME ChatInv, UNCHANGED log, turns' \in Nat, turns' >= turns
  PROVE  Logs' /\ \A d \in Conversation : \A n : C!Turn(d, n)' = C!Turn(d, n)
<1>1. \A d \in Conversation : \A n : C!Turn(d, n)' = C!Turn(d, n)
  BY DEF C!Turn
<1>2. ASSUME NEW d \in Conversation, NEW n \in Nat, NEW i \in C!Turn(d, n)
      PROVE  n <= turns' /\ InOrder(d, n, i)'
  <2>1. n <= turns /\ InOrder(d, n, i) /\ turns \in Nat
    BY DEF ChatInv, ChatTypes, Logs
  <2>2. InOrder(d, n, i)'
    BY <2>1, <1>1, Zenon DEF InOrder
  <2>. QED  BY <2>1, <2>2
<1>. QED  BY <1>1, <1>2 DEF Logs

\* Reports are of turns that nobody writes to any more.
LEMMA ReportsStay ==
  ASSUME ChatInv, NEW r \in Request, NEW x \in CompletionRecord, C!Becomes(r, x),
         x.at = "idle" \/ (turn[r].at # "idle" /\ x.n = turn[r].n) \/ x.n > turns,
         turns' \in Nat, turns' >= turns, NEW k \in Nat, \A d \in replied : d.n # k,
         \A d \in Conversation : \A n : n # k => C!Turn(d, n)' = C!Turn(d, n),
         UNCHANGED replied
  PROVE  Reports'
<1>1. turn'[r] = x /\ \A s \in Request : s # r => turn'[s] = turn[s]
  BY DEF ChatInv, ChatTypes, C!Becomes
<1>2. ASSUME NEW d \in replied
      PROVE  /\ d.talk \in Conversation /\ d.n \in Nat /\ d.n <= turns'
             /\ Count(d.talk, d.n)' = d.of + (IF d.text THEN 1 ELSE 0)
             /\ \A s \in Request : turn'[s].at # "idle" => turn'[s].n # d.n
  <2>1. /\ d.talk \in Conversation /\ d.n \in Nat /\ d.n <= turns
        /\ Count(d.talk, d.n) = d.of + (IF d.text THEN 1 ELSE 0)
        /\ \A s \in Request : turn[s].at # "idle" => turn[s].n # d.n
    BY DEF ChatInv, Reports
  <2>2. C!Turn(d.talk, d.n)' = C!Turn(d.talk, d.n)
    BY <2>1
  <2>3. Count(d.talk, d.n)' = Count(d.talk, d.n)
    BY <2>2, Zenon DEF Count
  <2>4. turns \in Nat /\ x.n \in Nat
    BY DEF ChatInv, ChatTypes, CompletionRecord
  <2>5. d.n <= turns' /\ (x.n > turns => x.n # d.n)
    BY <2>1, <2>4
  <2>6. \A s \in Request : turn'[s].at # "idle" => turn'[s].n # d.n
    BY <1>1, <2>1, <2>5
  <2>. QED  BY <2>1, <2>3, <2>5, <2>6
<1>. QED  BY <1>2 DEF Reports

\* Where nothing is written and no completion begins.
LEMMA QuietMoves ==
  ASSUME ChatInv, C!Remember, NEW r \in Request, NEW x \in CompletionRecord, C!Becomes(r, x),
         UNCHANGED <<bot, log, botEdit, replied, turns>>,
         x.at = "idle" \/ (turn[r].at # "idle" /\ x.n = turn[r].n), Wrote(x), Serving(r, x)'
  PROVE  ChatInv'
<1>1. turns' \in Nat /\ turns' >= turns /\ x.n \in Nat /\ turns \in Nat
  BY DEF ChatInv, ChatTypes, CompletionRecord
<1>2. Logs' /\ \A d \in Conversation : \A n : C!Turn(d, n)' = C!Turn(d, n)
  BY <1>1, LogsStay
<1>3. Wrote(x)'
  BY <1>1, <1>2, WroteStays
<1>4. \E k \in Nat : \A d \in replied : d.n # k
  BY <1>1 DEF ChatInv, Reports
<1>5. Reports'
  BY <1>1, <1>2, <1>4, ReportsStay
<1>6. CASE x.at = "idle"
  <2>1. PICK k \in Nat : k = turns + 1
    BY <1>1
  <2>2. ASSUME NEW s \in Request, turn[s].at # "idle" PROVE turn[s].n # k
    <3>1. turn[s] \in CompletionRecord /\ Wrote(turn[s])
      BY DEF ChatInv, ChatTypes
    <3>. QED  BY <1>1, <2>1, <2>2, <3>1 DEF CompletionRecord, Wrote
  <2>3. log' \in [Conversation -> Seq(MessageRecord)] /\ bot' \in [Bot -> C!BotRow \cup {None}]
        /\ botEdit' \in [Edit -> BotEditRecord]
    BY DEF ChatInv, ChatTypes
  <2>4. Steady(r, x, k)
    BY <1>1, <1>2, <1>3, <1>5, <1>6, <2>1, <2>2, <2>3 DEF Steady
  <2>. QED  BY <2>4, OneCompletes
<1>7. CASE x.at # "idle"
  <2>1. \A s \in Request : s # r /\ turn[s].at # "idle" => turn[s].n # x.n
    BY <1>7 DEF ChatInv, OneWriter
  <2>2. log' \in [Conversation -> Seq(MessageRecord)] /\ bot' \in [Bot -> C!BotRow \cup {None}]
        /\ botEdit' \in [Edit -> BotEditRecord]
    BY DEF ChatInv, ChatTypes
  <2>3. PICK k \in Nat : k = x.n
    BY <1>1
  <2>4. Steady(r, x, k)
    BY <1>1, <1>2, <1>3, <1>5, <2>1, <2>2, <2>3 DEF Steady
  <2>. QED  BY <2>4, OneCompletes
<1>. QED  BY <1>6, <1>7

-----------------------------------------------------------------------------
(* The actions of a completion. *)

LEMMA IdleCompletion == C!Idle \in CompletionRecord /\ C!Idle.at = "idle"
BY DEF C!Idle, CompletionRecord

\* A completion that ends where nothing is written.
LEMMA Ends ==
  ASSUME ChatInv, C!Remember, NEW r \in Request, C!Becomes(r, C!Idle),
         UNCHANGED <<bot, log, botEdit, replied, turns>>
  PROVE  ChatInv'
BY IdleCompletion, IdleServes, QuietMoves

\* Its turn is nobody's and nowhere yet.
LEMMA ChatBeginInv ==
  ASSUME C!Constants, ChatInv, C!Remember, NEW r \in Request, NEW a \in Actor,
         NEW do \in {"unary", "stream"}, NEW name \in C!Name, NEW c \in Conversation \cup {None},
         NEW l \in Length, C!Begin(r, a, do, name, c, l)
  PROVE  ChatInv'
<1>1. PICK k \in Nat : k = turns + 1
  BY DEF ChatInv, ChatTypes
<1>. DEFINE y == [C!Idle EXCEPT !.at = "byId", !.do = do, !.by = a, !.name = name, !.n = k,
                                !.of = l, !.left = l, !.talk = c]
<1>2. C!Becomes(r, y) /\ turns' = k /\ UNCHANGED <<bot, log, botEdit, replied>>
  BY <1>1 DEF C!Begin, C!rows
<1>3. l \in Nat /\ l >= 1 /\ turns \in Nat /\ turns' \in Nat /\ turns' >= turns /\ k > turns
  BY <1>1, <1>2 DEF C!Constants, ChatInv, ChatTypes
<1>4. PICK x \in CompletionRecord :
        x = y /\ x.at = "byId" /\ x.n = k /\ x.left = l /\ x.of = l
  <2>1. y \in CompletionRecord /\ y.at = "byId" /\ y.n = k /\ y.left = l /\ y.of = l
    BY <1>3, IdleCompletion DEF CompletionRecord
  <2>. QED  BY <2>1
<1>. HIDE DEF y
<1>5. Logs' /\ \A d \in Conversation : \A n : C!Turn(d, n)' = C!Turn(d, n)
  BY <1>2, <1>3, LogsStay
<1>6. \A d \in Conversation : C!Turn(d, k) = {}
  BY <1>3 DEF ChatInv, Logs
<1>7. Wrote(x)'
  BY <1>2, <1>3, <1>4, <1>5, <1>6 DEF Wrote
<1>8. Serving(r, x)'
  BY <1>4 DEF Serving
<1>9. \A d \in replied : d.n # k
  BY <1>3 DEF ChatInv, Reports
<1>10. C!Becomes(r, x) /\ turns' \in Nat /\ turns' >= turns
  BY <1>2, <1>3, <1>4
<1>11. Reports'
  BY <1>2, <1>3, <1>4, <1>5, <1>9, <1>10, ReportsStay
<1>12. ASSUME NEW s \in Request, turn[s].at # "idle" PROVE turn[s].n # k
  <2>1. turn[s] \in CompletionRecord /\ Wrote(turn[s])
    BY DEF ChatInv, ChatTypes
  <2>. QED  BY <1>3, <1>12, <2>1 DEF CompletionRecord, Wrote
<1>13. log' \in [Conversation -> Seq(MessageRecord)] /\ bot' \in [Bot -> C!BotRow \cup {None}]
       /\ botEdit' \in [Edit -> BotEditRecord]
  BY <1>2 DEF ChatInv, ChatTypes
<1>14. Logs' /\ \A d \in Conversation, n \in Nat : n # k => C!Turn(d, n)' = C!Turn(d, n)
  BY <1>5
<1>15. /\ \A s \in Request : s # r /\ turn[s].at # "idle" => turn[s].n # k
       /\ \A d \in Conversation, n \in Nat : n # k => C!Turn(d, n)' = C!Turn(d, n)
       /\ x.n = k /\ Logs' /\ log' \in [Conversation -> Seq(MessageRecord)]
  BY <1>4, <1>12, <1>13, <1>14
<1>16. x \in CompletionRecord
  BY <1>4
<1>17. Steady(r, x, k)
  BY <1>7, <1>8, <1>10, <1>11, <1>13, <1>15 DEF Steady
<1>. QED  BY <1>16, <1>17, OneCompletes

\* An assistant that is found serves: it is enabled.
LEMMA ChosenInv ==
  ASSUME C!Constants, ChatInv, C!Remember, NEW r \in Request, turn[r].at \in {"byId", "byName"},
         NEW b \in Bot, bot[b] # None, C!If(C!Serves(r, b), r, C!Chosen(r, b)),
         UNCHANGED <<bot, prompt, log, botEdit, replied, turns>>
  PROVE  ChatInv'
<1>1. PICK q \in CompletionRecord : q = turn[r] /\ Wrote(q)
  BY DEF ChatInv, ChatTypes
<1>2. PICK row \in C!BotRow : row = bot[b]
  BY DEF ChatInv, ChatTypes
<1>. DEFINE x == [q EXCEPT !.at = "template", !.bot = b, !.row = row]
<1>3. CASE ~C!Serves(r, b)
  BY <1>3, Ends DEF C!If
<1>4. CASE C!Serves(r, b)
  <2>1. C!Becomes(r, x) /\ row.on
    BY <1>1, <1>2, <1>4 DEF C!If, C!Chosen, C!Goto, C!Serves
  <2>2. x \in CompletionRecord /\ x.at = "template" /\ x.n = q.n /\ x.left = q.left
        /\ x.of = q.of /\ x.bot = b /\ x.row = row
    BY DEF CompletionRecord
  <2>. HIDE DEF x
  <2>3. b \notin botsOff'[r]
    <3>1. botsOff'[r] \subseteq C!Withdrawn'
      BY DEF C!Remember
    <3>2. b \notin C!Withdrawn'
      BY <1>2, <2>1 DEF C!Withdrawn, C!Constants
    <3>. QED  BY <3>1, <3>2
  <2>4. Serving(r, x)'
    BY <2>2, <2>3 DEF Serving
  <2>5. Wrote(x)
    BY <1>1, <2>2 DEF Wrote
  <2>. QED  BY <1>1, <2>1, <2>2, <2>4, <2>5, QuietMoves
<1>. QED  BY <1>3, <1>4

LEMMA FindByIdInv ==
  ASSUME C!Constants, ChatInv, C!Remember, NEW r \in Request, C!FindById(r)
  PROVE  ChatInv'
<1>1. PICK q \in CompletionRecord : q = turn[r] /\ Wrote(q)
  BY DEF ChatInv, ChatTypes
<1>2. q.at = "byId" /\ UNCHANGED <<bot, prompt, log, botEdit, replied, turns>>
  BY <1>1 DEF C!FindById, C!At, C!rows
<1>3. CASE q.name \in Bot /\ bot[q.name] # None
  BY <1>1, <1>2, <1>3, ChosenInv DEF C!FindById
<1>4. CASE ~(q.name \in Bot /\ bot[q.name] # None)
  <2>. DEFINE x == [q EXCEPT !.at = "byName"]
  <2>1. C!Becomes(r, x)
    BY <1>1, <1>4 DEF C!FindById, C!Goto
  <2>2. x \in CompletionRecord /\ x.at = "byName" /\ x.n = q.n /\ x.left = q.left /\ x.of = q.of
    BY DEF CompletionRecord
  <2>. HIDE DEF x
  <2>3. Wrote(x) /\ Serving(r, x)'
    BY <1>1, <1>2, <2>2 DEF Wrote, Serving
  <2>. QED  BY <1>1, <1>2, <2>1, <2>2, <2>3, QuietMoves
<1>. QED  BY <1>3, <1>4

LEMMA FindByNameInv ==
  ASSUME C!Constants, ChatInv, C!Remember, NEW r \in Request, C!FindByName(r)
  PROVE  ChatInv'
<1>1. turn[r].at = "byName" /\ UNCHANGED <<bot, prompt, log, botEdit, replied, turns>>
  BY DEF C!FindByName, C!At, C!rows
<1>2. C!Becomes(r, C!Idle)
      \/ \E b \in Bot : bot[b] # None /\ C!If(C!Serves(r, b), r, C!Chosen(r, b))
  BY DEF C!FindByName
<1>. QED  BY <1>1, <1>2, Ends, ChosenInv

\* A template is taken while it is active.
LEMMA TemplateInv ==
  ASSUME C!Constants, ChatInv, C!Remember, NEW r \in Request, C!Template(r)
  PROVE  ChatInv'
<1>1. PICK q \in CompletionRecord : q = turn[r] /\ Wrote(q) /\ Serving(r, q)
  BY DEF ChatInv, ChatTypes
<1>. DEFINE p == q.row.prompt
            ok == p # None => prompt[p] # None /\ prompt[p].active
            x == [q EXCEPT !.at = IF q.talk = None THEN "open" ELSE "resume"]
<1>2. q.at = "template" /\ UNCHANGED <<bot, prompt, log, botEdit, replied, turns>>
      /\ C!Becomes(r, IF ok THEN x ELSE C!Idle)
  BY <1>1 DEF C!Template, C!At, C!If, C!Goto, C!rows
<1>3. CASE ~ok
  BY <1>2, <1>3, Ends
<1>4. CASE ok
  <2>1. x \in CompletionRecord /\ x.at \in {"open", "resume"} /\ x.n = q.n /\ x.left = q.left
        /\ x.of = q.of /\ x.bot = q.bot /\ x.row = q.row /\ x.talk = q.talk
        /\ (x.at = "resume" => q.talk # None)
    BY DEF CompletionRecord
  <2>2. C!Becomes(r, x)
    BY <1>2, <1>4
  <2>. HIDE DEF x
  <2>3. p \notin botsOff'[r]
    <3>1. botsOff'[r] \subseteq C!Withdrawn'
      BY DEF C!Remember
    <3>2. q.row \in C!BotRow
      BY <1>1, <1>2 DEF Serving
    <3>3. p \in Prompt \cup {None}
      BY <3>2 DEF C!BotRow
    <3>4. p \notin Bot /\ None \notin Prompt
      BY <3>3 DEF C!Constants, C!Name
    <3>5. p \notin C!Withdrawn'
      BY <1>2, <1>4, <3>3, <3>4 DEF C!Withdrawn
    <3>. QED  BY <3>1, <3>5
  <2>4. Serving(r, q)'
    BY <1>1, <1>2, ServingStays
  <2>5. Serving(r, x)'
    BY <1>2, <2>1, <2>3, <2>4 DEF Serving
  <2>6. Wrote(x)
    BY <1>1, <1>2, <2>1 DEF Wrote, CompletionRecord
  <2>. QED  BY <1>1, <1>2, <2>1, <2>2, <2>5, <2>6, QuietMoves
<1>. QED  BY <1>3, <1>4

\* Its turn is not in the conversation yet.
LEMMA TurnIsEmpty ==
  ASSUME NEW c \in Conversation, NEW n, C!Turn(c, n) = {}
  PROVE  Count(c, n) = 0
BY FS_EmptySet DEF Count

LEMMA ResumeInv ==
  ASSUME C!Constants, ChatInv, C!Remember, NEW r \in Request, C!Resume(r)
  PROVE  ChatInv'
<1>1. PICK q \in CompletionRecord : q = turn[r] /\ Wrote(q) /\ Serving(r, q)
  BY DEF ChatInv, ChatTypes
<1>. DEFINE x == [q EXCEPT !.at = "record"]
<1>2. q.at = "resume" /\ UNCHANGED <<bot, prompt, log, botEdit, replied, turns>>
      /\ (C!Becomes(r, x) \/ C!Becomes(r, C!Idle))
  BY <1>1 DEF C!Resume, C!At, C!If, C!Goto, C!rows
<1>3. x \in CompletionRecord /\ x.at = "record" /\ x.n = q.n /\ x.left = q.left
      /\ x.of = q.of /\ x.bot = q.bot /\ x.row = q.row /\ x.talk = q.talk
  BY DEF CompletionRecord
<1>. HIDE DEF x
<1>4. Serving(r, q)'
  BY <1>1, <1>2, ServingStays
<1>5. Serving(r, x)'
  BY <1>2, <1>3, <1>4 DEF Serving
<1>6. Count(q.talk, q.n) = 0 /\ q.talk \in Conversation /\ q.left \in Nat /\ q.left = q.of
      /\ q.left >= 1 /\ q.n <= turns
  BY <1>1, <1>2, TurnIsEmpty DEF Wrote, CompletionRecord
<1>7. Wrote(x)
  BY <1>3, <1>6 DEF Wrote
<1>. QED  BY <1>1, <1>2, <1>3, <1>5, <1>7, Ends, QuietMoves

LEMMA OpenInv ==
  ASSUME C!Constants, ChatInv, C!Remember, NEW r \in Request, NEW c \in Conversation, C!Open(r, c)
  PROVE  ChatInv'
<1>1. PICK q \in CompletionRecord : q = turn[r] /\ Wrote(q) /\ Serving(r, q)
  BY DEF ChatInv, ChatTypes
<1>. DEFINE x == [q EXCEPT !.at = "record", !.talk = c]
<1>2. q.at = "open" /\ UNCHANGED <<bot, prompt, log, botEdit, replied, turns>>
      /\ C!Becomes(r, x)
  BY <1>1 DEF C!Open, C!At, C!Goto
<1>3. x \in CompletionRecord /\ x.at = "record" /\ x.n = q.n /\ x.left = q.left
      /\ x.of = q.of /\ x.bot = q.bot /\ x.row = q.row /\ x.talk = c
  BY DEF CompletionRecord
<1>. HIDE DEF x
<1>4. Serving(r, q)'
  BY <1>1, <1>2, ServingStays
<1>5. Serving(r, x)'
  BY <1>2, <1>3, <1>4 DEF Serving
<1>6. Count(c, q.n) = 0 /\ q.left \in Nat /\ q.left = q.of /\ q.left >= 1 /\ q.n <= turns
  BY <1>1, <1>2, TurnIsEmpty DEF Wrote, CompletionRecord
<1>7. Wrote(x)
  BY <1>3, <1>6 DEF Wrote
<1>. QED  BY <1>1, <1>2, <1>3, <1>5, <1>7, QuietMoves

LEMMA ChatExecuteInv ==
  ASSUME C!Constants, ChatInv, C!Remember, NEW r \in Request, NEW text \in BOOLEAN,
         C!Execute(r, text)
  PROVE  ChatInv'
<1>1. PICK q \in CompletionRecord : q = turn[r] /\ Wrote(q) /\ Serving(r, q)
  BY DEF ChatInv, ChatTypes
<1>. DEFINE x == [q EXCEPT !.at = "answered", !.text = text]
<1>2. q.at = "execute" /\ UNCHANGED <<bot, prompt, log, botEdit, replied, turns>>
      /\ C!Becomes(r, x)
  BY <1>1 DEF C!Execute, C!At, C!Goto, C!rows
<1>3. x \in CompletionRecord /\ x.at = "answered" /\ x.n = q.n /\ x.left = q.left
      /\ x.of = q.of /\ x.bot = q.bot /\ x.row = q.row /\ x.talk = q.talk
  BY ZenonT(60) DEF CompletionRecord
<1>. HIDE DEF x
<1>4. Serving(r, q)'
  BY <1>1, <1>2, ServingStays
<1>5. Serving(r, x)'
  BY <1>2, <1>3, <1>4 DEF Serving
<1>6. Wrote(x)
  BY <1>1, <1>2, <1>3 DEF Wrote
<1>. QED  BY <1>1, <1>2, <1>3, <1>5, <1>6, QuietMoves

\* A message of the request is added before all of them are there.
LEMMA RecordInv ==
  ASSUME C!Constants, ChatInv, C!Remember, NEW r \in Request, C!Record(r)
  PROVE  ChatInv'
<1>1. PICK q \in CompletionRecord : q = turn[r] /\ Wrote(q) /\ Serving(r, q)
  BY DEF ChatInv, ChatTypes
<1>. DEFINE x == [q EXCEPT !.at = IF q.left = 1 THEN "execute" ELSE "record", !.left = @ - 1]
<1>2. q.at = "record" /\ UNCHANGED <<bot, prompt, botEdit, replied, turns>> /\ C!Becomes(r, x)
      /\ log' = [log EXCEPT ![q.talk] = Append(@, [role |-> "user", n |-> q.n, of |-> q.of])]
  BY <1>1 DEF C!Record, C!At, C!Goto, C!Added
<1>3. q.talk \in Conversation /\ q.n \in Nat /\ q.of \in Nat /\ q.left \in Nat /\ q.left >= 1
      /\ Count(q.talk, q.n) + q.left = q.of /\ q.n <= turns /\ turns \in Nat
  BY <1>1, <1>2 DEF Wrote, CompletionRecord, ChatInv, ChatTypes
<1>4. Count(q.talk, q.n) \in Nat
  BY <1>3, TurnIsFinite DEF ChatInv
<1>5. PICK m \in MessageRecord : m = [role |-> "user", n |-> q.n, of |-> q.of]
  BY <1>3 DEF MessageRecord
<1>6. /\ log' \in [Conversation -> Seq(MessageRecord)] /\ Logs'
      /\ \A d \in Conversation : \A n : d # q.talk \/ n # q.n => C!Turn(d, n)' = C!Turn(d, n)
      /\ Count(q.talk, q.n)' = Count(q.talk, q.n) + 1
  <2>1. log' = [log EXCEPT ![q.talk] = Append(@, m)] /\ turns' >= turns /\ turns' \in Nat
        /\ m.n = q.n
    BY <1>2, <1>3, <1>5
  <2>2. m.role = "assistant" <=> Count(q.talk, q.n) >= m.of
    BY <1>3, <1>4, <1>5
  <2>3. ChatTypes /\ Logs
    BY DEF ChatInv
  <2>. QED  BY <1>3, <2>1, <2>2, <2>3, Adds
<1>7. x \in CompletionRecord /\ x.n = q.n /\ x.left = q.left - 1 /\ x.of = q.of
      /\ x.bot = q.bot /\ x.row = q.row /\ x.talk = q.talk
      /\ x.at = IF q.left = 1 THEN "execute" ELSE "record"
  <2>1. q.left - 1 \in Nat
    BY <1>3
  <2>. QED  BY <2>1, ZenonT(60) DEF CompletionRecord
<1>. HIDE DEF x
<1>8. Serving(r, q)'
  BY <1>1, <1>2, ServingStays
<1>9. Serving(r, x)'
  BY <1>2, <1>7, <1>8 DEF Serving
<1>10. Wrote(x)'
  <2>1. Count(x.talk, x.n)' = Count(q.talk, q.n) + 1
    BY <1>6, <1>7
  <2>2. x.at = "record" => x.left >= 1 /\ Count(x.talk, x.n)' + x.left = x.of
    BY <1>3, <1>4, <1>7, <2>1
  <2>3. x.at = "execute" => Count(x.talk, x.n)' = x.of
    BY <1>3, <1>4, <1>7, <2>1
  <2>. QED  BY <1>2, <1>3, <1>7, <2>2, <2>3 DEF Wrote
<1>11. \A d \in replied : d.n # q.n
  BY <1>1, <1>2 DEF ChatInv, Reports
<1>12. Reports'
  <2>1. \A d \in Conversation : \A n : n # q.n => C!Turn(d, n)' = C!Turn(d, n)
    BY <1>6
  <2>2. turn[r].at # "idle" /\ x.n = turn[r].n /\ turns' \in Nat /\ turns' >= turns
        /\ UNCHANGED replied /\ C!Becomes(r, x)
    BY <1>1, <1>2, <1>3, <1>7 DEF x
  <2>. QED  BY <1>3, <1>7, <1>11, <2>1, <2>2, ReportsStay
<1>13. \A s \in Request : s # r /\ turn[s].at # "idle" => turn[s].n # q.n
  BY <1>1, <1>2 DEF ChatInv, OneWriter
<1>14. bot' \in [Bot -> C!BotRow \cup {None}] /\ botEdit' \in [Edit -> BotEditRecord]
       /\ turns' \in Nat /\ turns' >= turns /\ C!Becomes(r, x)
       /\ \A d \in Conversation, n \in Nat : n # q.n => C!Turn(d, n)' = C!Turn(d, n)
  BY <1>2, <1>3, <1>6 DEF ChatInv, ChatTypes, x
<1>15. PICK k \in Nat : k = q.n
  BY <1>3
<1>16. /\ \A s \in Request : s # r /\ turn[s].at # "idle" => turn[s].n # k
       /\ \A d \in Conversation, n \in Nat : n # k => C!Turn(d, n)' = C!Turn(d, n)
       /\ x.n = k /\ Logs' /\ log' \in [Conversation -> Seq(MessageRecord)]
  BY <1>6, <1>7, <1>13, <1>14, <1>15
<1>17. x \in CompletionRecord
  BY <1>7
<1>18. Steady(r, x, k)
  BY <1>9, <1>10, <1>12, <1>14, <1>16 DEF Steady
<1>. QED  BY <1>17, <1>18, OneCompletes

\* The answer is added when all of the request is there, and only then reported.
LEMMA PersistInv ==
  ASSUME C!Constants, ChatInv, C!Remember, NEW r \in Request, C!Persist(r)
  PROVE  ChatInv'
<1>1. PICK q \in CompletionRecord : q = turn[r] /\ Wrote(q)
  BY DEF ChatInv, ChatTypes
<1>2. q.at = "answered" /\ UNCHANGED <<bot, prompt, botEdit, turns>> /\ C!Becomes(r, C!Idle)
  BY <1>1 DEF C!Persist, C!At
<1>3. q.talk \in Conversation /\ q.n \in Nat /\ q.of \in Nat /\ Count(q.talk, q.n) = q.of
      /\ q.n <= turns /\ turns \in Nat /\ turns' \in Nat /\ turns' >= turns
  BY <1>1, <1>2 DEF Wrote, CompletionRecord, ChatInv, ChatTypes
<1>4. /\ log' \in [Conversation -> Seq(MessageRecord)] /\ Logs'
      /\ \A d \in Conversation : \A n : n # q.n => C!Turn(d, n)' = C!Turn(d, n)
      /\ Count(q.talk, q.n)' = q.of + (IF q.text THEN 1 ELSE 0)
  <2>1. CASE q.text
    <3>1. PICK m \in MessageRecord : m = [role |-> "assistant", n |-> q.n, of |-> q.of]
      BY <1>3 DEF MessageRecord
    <3>2. log' = [log EXCEPT ![q.talk] = Append(@, m)] /\ m.n = q.n
      BY <1>1, <1>3, <2>1, <3>1 DEF C!Persist, C!Added
    <3>3. m.role = "assistant" <=> Count(q.talk, q.n) >= m.of
      BY <1>3, <3>1
    <3>4. ChatTypes /\ Logs
      BY DEF ChatInv
    <3>5. /\ log' \in [Conversation -> Seq(MessageRecord)] /\ Logs'
          /\ \A d \in Conversation : \A n : d # q.talk \/ n # q.n => C!Turn(d, n)' = C!Turn(d, n)
          /\ Count(q.talk, q.n)' = Count(q.talk, q.n) + 1
      BY <1>3, <3>2, <3>3, <3>4, Adds
    <3>. QED  BY <1>3, <2>1, <3>5
  <2>2. CASE ~q.text
    <3>1. UNCHANGED log
      BY <1>1, <2>2 DEF C!Persist
    <3>2. Logs' /\ \A d \in Conversation : \A n : C!Turn(d, n)' = C!Turn(d, n)
      BY <1>3, <3>1, LogsStay
    <3>3. Count(q.talk, q.n)' = Count(q.talk, q.n)
      BY <1>3, <3>2, Zenon DEF Count
    <3>4. log' \in [Conversation -> Seq(MessageRecord)]
      BY <3>1 DEF ChatInv, ChatTypes
    <3>. QED  BY <1>3, <2>2, <3>2, <3>3, <3>4
  <2>. QED  BY <2>1, <2>2
<1>5. turn'[r] = C!Idle /\ \A s \in Request : s # r => turn'[s] = turn[s]
  BY <1>2 DEF ChatInv, ChatTypes, C!Becomes
<1>6. \A s \in Request : s # r /\ turn[s].at # "idle" => turn[s].n # q.n
  BY <1>1, <1>2 DEF ChatInv, OneWriter
<1>7. Reports'
  <2>. DEFINE new == [n |-> q.n, of |-> q.of, talk |-> q.talk, text |-> q.text]
  <2>1. replied' \subseteq replied \cup {new}
    BY <1>1 DEF C!Persist, C!Reported
  <2>2. ASSUME NEW d \in replied
        PROVE  /\ d.talk \in Conversation /\ d.n \in Nat /\ d.n <= turns'
               /\ Count(d.talk, d.n)' = d.of + (IF d.text THEN 1 ELSE 0)
               /\ \A s \in Request : turn'[s].at # "idle" => turn'[s].n # d.n
    <3>1. /\ d.talk \in Conversation /\ d.n \in Nat /\ d.n <= turns
          /\ Count(d.talk, d.n) = d.of + (IF d.text THEN 1 ELSE 0)
          /\ \A s \in Request : turn[s].at # "idle" => turn[s].n # d.n
      BY DEF ChatInv, Reports
    <3>2. d.n # q.n
      BY <1>1, <1>2, <3>1
    <3>3. C!Turn(d.talk, d.n)' = C!Turn(d.talk, d.n)
      BY <1>4, <3>1, <3>2
    <3>4. Count(d.talk, d.n)' = Count(d.talk, d.n)
      BY <3>3, Zenon DEF Count
    <3>5. \A s \in Request : turn'[s].at # "idle" => turn'[s].n # d.n
      BY <1>5, <3>1, IdleCompletion
    <3>. QED  BY <1>2, <3>1, <3>4, <3>5
  <2>3. /\ new.talk \in Conversation /\ new.n \in Nat /\ new.n <= turns'
        /\ Count(new.talk, new.n)' = new.of + (IF new.text THEN 1 ELSE 0)
        /\ \A s \in Request : turn'[s].at # "idle" => turn'[s].n # new.n
    BY <1>2, <1>3, <1>4, <1>5, <1>6, IdleCompletion
  <2>4. ASSUME NEW d \in replied'
        PROVE  /\ d.talk \in Conversation /\ d.n \in Nat /\ d.n <= turns'
               /\ Count(d.talk, d.n)' = d.of + (IF d.text THEN 1 ELSE 0)
               /\ \A s \in Request : turn'[s].at # "idle" => turn'[s].n # d.n
    BY <2>1, <2>2, <2>3
  <2>. QED  BY <2>4 DEF Reports
<1>8. bot' \in [Bot -> C!BotRow \cup {None}] /\ botEdit' \in [Edit -> BotEditRecord]
      /\ \A d \in Conversation, n \in Nat : n # q.n => C!Turn(d, n)' = C!Turn(d, n)
  BY <1>2, <1>4 DEF ChatInv, ChatTypes
<1>9. PICK x \in CompletionRecord : x = C!Idle
  BY IdleCompletion
<1>10. PICK k \in Nat : k = q.n
  BY <1>3
<1>11. /\ \A s \in Request : s # r /\ turn[s].at # "idle" => turn[s].n # k
       /\ \A d \in Conversation, n \in Nat : n # k => C!Turn(d, n)' = C!Turn(d, n)
       /\ x.at = "idle" /\ Logs' /\ log' \in [Conversation -> Seq(MessageRecord)]
       /\ C!Becomes(r, x) /\ turns' \in Nat /\ turns' >= turns
  BY <1>2, <1>3, <1>4, <1>6, <1>8, <1>9, <1>10, IdleCompletion
<1>12. Wrote(x)' /\ Serving(r, x)'
  BY <1>11, IdleServes
<1>13. Steady(r, x, k)
  BY <1>7, <1>8, <1>11, <1>12 DEF Steady
<1>. QED  BY <1>13, OneCompletes

LEMMA CompletionInv ==
  ASSUME C!Constants, ChatInv, C!Remember, NEW r \in Request, C!Completion(r)
  PROVE  ChatInv'
<1>1. ASSUME C!Abandon(r) PROVE ChatInv'
  BY <1>1, Ends DEF C!Abandon, C!rows
<1>. QED  BY <1>1, ChatBeginInv, FindByIdInv, FindByNameInv, TemplateInv, ResumeInv, OpenInv,
             RecordInv, ChatExecuteInv, PersistInv DEF C!Completion

-----------------------------------------------------------------------------

LEMMA BotsInv ==
  ASSUME C!Constants, ChatInv, C!Remember, C!Administration
  PROVE  ChatInv'
<1>1. UNCHANGED <<log, turn, replied, turns>>
  BY DEF C!Administration, C!DeleteBot, C!CreateBot, C!DeletePrompt, C!CreatePrompt, C!PutBotRead,
         C!PutPromptRead, C!PutBotWrite, C!PutPromptWrite, C!rows
<1>2. bot' \in [Bot -> C!BotRow \cup {None}] /\ botEdit' \in [Edit -> BotEditRecord]
  <2>1. ASSUME NEW b \in Bot, NEW row \in BotRows, C!DeleteBot(b) \/ C!CreateBot(b, row) PROVE <1>2
    BY <2>1 DEF C!DeleteBot, C!CreateBot, C!Constants, ChatInv, ChatTypes
  <2>2. ASSUME NEW b \in Bot, C!DeleteBot(b) PROVE <1>2
    BY <2>2 DEF C!DeleteBot, ChatInv, ChatTypes
  <2>3. ASSUME NEW p \in Prompt, NEW row \in C!PromptRow, C!CreatePrompt(p, row) PROVE <1>2
    BY <2>3 DEF C!CreatePrompt, ChatInv, ChatTypes
  <2>4. ASSUME NEW p \in Prompt, C!DeletePrompt(p) PROVE <1>2
    BY <2>4 DEF C!DeletePrompt, ChatInv, ChatTypes
  <2>5. ASSUME NEW x \in Edit, NEW b \in Bot, NEW row \in BotRows, C!PutBotRead(x, b, row)
        PROVE  <1>2
    <3>1. [at |-> "bot", id |-> b, row |-> row] \in BotEditRecord
      BY DEF BotEditRecord, C!Constants
    <3>. QED  BY <2>5, <3>1 DEF C!PutBotRead, C!rows, ChatInv, ChatTypes
  <2>6. ASSUME NEW x \in Edit, NEW p \in Prompt, NEW row \in C!PromptRow, C!PutPromptRead(x, p, row)
        PROVE  <1>2
    <3>1. [at |-> "prompt", id |-> p, row |-> row] \in BotEditRecord
      BY DEF BotEditRecord
    <3>. QED  BY <2>6, <3>1 DEF C!PutPromptRead, C!rows, ChatInv, ChatTypes
  <2>7. ASSUME NEW x \in Edit, C!PutBotWrite(x) \/ C!PutPromptWrite(x) PROVE <1>2
    <3>1. PICK z \in BotEditRecord : z = botEdit[x]
      BY DEF ChatInv, ChatTypes
    <3>2. [z EXCEPT !.at = "done"] \in BotEditRecord
      BY DEF BotEditRecord
    <3>3. botEdit' \in [Edit -> BotEditRecord]
      BY <2>7, <3>1, <3>2 DEF C!PutBotWrite, C!PutPromptWrite, ChatInv, ChatTypes
    <3>4. bot' \in [Bot -> C!BotRow \cup {None}]
      BY <2>7, <3>1 DEF C!PutBotWrite, C!PutPromptWrite, BotEditRecord, ChatInv, ChatTypes
    <3>. QED  BY <3>3, <3>4
  <2>. QED  BY <2>1, <2>2, <2>3, <2>4, <2>5, <2>6, <2>7 DEF C!Administration
<1>3. Logs' /\ \A d \in Conversation : \A n : C!Turn(d, n)' = C!Turn(d, n)
  BY <1>1, LogsStay DEF ChatInv, ChatTypes
<1>4. OneWriter' /\ turn' \in [Request -> CompletionRecord]
      /\ log' \in [Conversation -> Seq(MessageRecord)] /\ turns' \in Nat
  BY <1>1 DEF ChatInv, ChatTypes, OneWriter
<1>5. Reports'
  <2>1. \A d \in replied : d.talk \in Conversation
    BY DEF ChatInv, Reports
  <2>2. \A c \in Conversation : \A n : Count(c, n)' = Count(c, n)
    BY <1>3 DEF Count
  <2>. QED  BY <1>1, <2>1, <2>2 DEF ChatInv, Reports
<1>6. ASSUME NEW r \in Request PROVE Wrote(turn[r])' /\ Serving(r, turn[r])'
  <2>1. PICK q \in CompletionRecord : q = turn[r] /\ Wrote(q) /\ Serving(r, q)
    BY DEF ChatInv, ChatTypes
  <2>2. turns \in Nat /\ turns' \in Nat /\ turns' >= turns
    BY <1>1 DEF ChatInv, ChatTypes
  <2>3. Wrote(q)'
    BY <1>3, <2>1, <2>2, WroteStays
  <2>4. Serving(r, q)'
    BY <2>1, ServingStays, IdleServes
  <2>. QED  BY <1>1, <2>1, <2>3, <2>4
<1>. QED  BY <1>2, <1>3, <1>4, <1>5, <1>6 DEF ChatInv, ChatTypes

LEMMA InitChatInv == ASSUME C!Constants, C!Init PROVE ChatInv
<1>1. ChatTypes
  <2>1. <<>> \in Seq(MessageRecord)
    OBVIOUS
  <2>2. [at |-> "idle", id |-> None, row |-> None] \in BotEditRecord
    BY DEF BotEditRecord
  <2>. QED  BY <2>1, <2>2, IdleCompletion DEF C!Init, C!Constants, ChatTypes
<1>2. Logs
  BY DEF C!Init, Logs, C!Turn
<1>3. OneWriter /\ \A r \in Request : Wrote(turn[r]) /\ Serving(r, turn[r])
  BY IdleCompletion DEF C!Init, OneWriter, Wrote, Serving
<1>4. Reports
  BY DEF C!Init, Reports
<1>. QED  BY <1>1, <1>2, <1>3, <1>4 DEF ChatInv

LEMMA StepChatInv == ASSUME C!Constants, ChatInv, [C!Next]_(C!vars) PROVE ChatInv'
<1>1. CASE UNCHANGED C!vars
  <2>1. ASSUME NEW r \in Request PROVE Wrote(turn[r])' /\ Serving(r, turn[r])'
    BY <1>1 DEF C!vars, C!rows, ChatInv, Wrote, Serving, Count, C!Turn
  <2>2. Logs' /\ \A d \in Conversation : \A n : C!Turn(d, n)' = C!Turn(d, n)
    BY <1>1, LogsStay DEF C!vars, C!rows, ChatInv, ChatTypes
  <2>3. \A c \in Conversation : \A n : Count(c, n)' = Count(c, n)
    BY <2>2 DEF Count
  <2>4. Reports'
    BY <1>1, <2>3 DEF C!vars, C!rows, ChatInv, Reports
  <2>. QED  BY <1>1, <2>1, <2>2, <2>4 DEF C!vars, C!rows, ChatInv, ChatTypes, OneWriter
<1>. QED
  BY <1>1, CompletionInv, BotsInv DEF C!Next

\* However completions of a conversation and administration interleave, what each has
\* written and what it goes on with agree with the log and the rows.
THEOREM ChatInvariance == Spec => []ChatInv
<1>1. Init => ChatInv
  BY InitChatInv, SurfaceAssumption DEF Init
<1>2. ChatInv /\ [Next]_vars => ChatInv'
  BY StepChatInv, SurfaceAssumption DEF Next, vars, chatbots, C!vars, C!rows
<1>. QED  BY <1>1, <1>2, PTL DEF Spec

LEMMA SameCardinality == \A S : C!Cardinality(S) = Cardinality(S)
BY Zenon DEF C!Cardinality, Cardinality

\* recordRequestMessages and PersistAssistantMessage: however completions of a conversation
\* interleave, an answer follows all it answers, and a reported turn is whole.
THEOREM AnswersKept == Spec => []AnsweredIsKept
<1>1. ChatInv => AnsweredIsKept
  <2>. SUFFICES ASSUME ChatInv PROVE AnsweredIsKept
    OBVIOUS
  <2>1. ASSUME NEW c \in Conversation, NEW n \in 1 .. turns, NEW i \in C!Turn(c, n)
        PROVE  InOrder(c, n, i)
    BY DEF ChatInv, ChatTypes, Logs
  <2>2. ASSUME NEW d \in replied
        PROVE  Count(d.talk, d.n) = d.of + (IF d.text THEN 1 ELSE 0)
    BY DEF ChatInv, Reports
  <2>3. \A c \in Conversation, n \in 1 .. turns : \A i \in C!Turn(c, n) :
          log[c][i].role = "assistant"
            <=> Cardinality({j \in C!Turn(c, n) : j < i}) >= log[c][i].of
    BY <2>1, Zenon DEF InOrder
  <2>4. \A d \in replied :
          Cardinality(C!Turn(d.talk, d.n)) = d.of + (IF d.text THEN 1 ELSE 0)
    BY <2>2, Zenon DEF Count
  <2>. QED  BY <2>3, <2>4, SameCardinality, Zenon DEF AnsweredIsKept, C!AnsweredIsKept
<1>. QED  BY <1>1, ChatInvariance, PTL

\* PrepareChatCompletion and promptTemplate: by whichever name it is asked for, no assistant
\* and no template withdrawn since before a completion began serves it.
THEOREM WithdrawnUnserved == Spec => []WithdrawnNotServed
<1>1. ChatInv => WithdrawnNotServed
  BY DEF ChatInv, Serving, WithdrawnNotServed, C!WithdrawnNotServed
<1>. QED  BY <1>1, ChatInvariance, PTL

-----------------------------------------------------------------------------
(* Identity.  The inductive invariant: rows only go one way, what a request *)
(* carries agrees with them, and whatever is granted came from what was.    *)

Stages ==
  {"idle", "present", "owner", "roles", "touch", "csrf", "admitted", "countUsers", "countKeys",
   "assign", "unassign", "userIsAdmin", "disable", "enable", "revokeAll", "listKeys", "suspend",
   "resume", "revokeKey", "secret", "writeKey", "revokeOne", "issue", "resolve", "linked",
   "candidate", "challenge", "prove", "consume", "record"}
AccessRecord ==
  [at : Stages, do : Stages \cup {""}, sess : Session \cup {None}, key : ApiKey \cup {None},
   secret : {"first", "second"}, by : User \cup Account \cup {None}, scopes : SUBSET Scope,
   tgt : User \cup Account \cup {None}, role : Role \cup {None},
   row : I!KeyRow \cup I!SessionRow \cup Subject \cup Flow \cup {None},
   keys : SUBSET ApiKey, left : BOOLEAN, late : BOOLEAN]

IdentityTypes ==
  /\ holds \in [User -> SUBSET Role]
  /\ role \in [Role -> {None} \cup SUBSET Scope]
  /\ key \in [ApiKey -> I!KeyRow \cup {None}]
  /\ session \in [Session -> I!SessionRow \cup {None}]
  /\ link \in [Subject -> User \cup {None}]
  /\ flow \in [Flow -> I!FlowRow \cup {None}]
  /\ access \in [Request -> AccessRecord]

Inherited(g) == I!Within(g, I!Original)

\* No row grants what the first rows did not.
Grants ==
  /\ \A ro \in Role : role[ro] # None => Inherited(role[ro])
  /\ \A k \in ApiKey : key[k] # None => Inherited(key[k].scopes)

\* The challenge f was confirmed by u for the subject x.
Proven(f, x, u) ==
  /\ flow[f] # None /\ flow[f].kind = "link" /\ flow[f].subject = x
  /\ flow[f].used /\ flow[f].by = u /\ flow[f].candidate \in {None, u}

Links == \A x \in Subject : link[x] # None => \E f \in Flow : Proven(f, x, link[x])

\* A session that was revoked and a secret that was replaced before a request came are
\* still so when it is looked at, which is the first thing done with it.
Refused(q) ==
  /\ q.sess # None => session[q.sess] # None
  /\ q.key # None => key[q.key] # None
  /\ q.late => /\ q.at = "present"
               /\ q.sess # None => session[q.sess].revoked
               /\ q.key # None => q.secret = "first" /\ key[q.key].secret = "second"

\* What a request carries between its statements.
Carries(q) ==
  /\ Inherited(q.scopes)
  /\ q.at = "present" => q.sess = None \/ q.key = None
  /\ q.at \in {"roles", "issue", "linked", "prove", "consume", "record"} => q.by \in User
  /\ q.at = "owner" /\ q.sess # None => q.by \in User
  /\ q.at \in {"resolve", "candidate", "challenge"} => q.row \in Subject
  /\ q.at = "challenge" => q.by \in User \cup {None}
  /\ q.at = "assign" => q.role \in Role
  /\ q.at \in {"countUsers", "countKeys", "userIsAdmin", "listKeys"} =>
       q.do \in {"unassign", "disable", "suspend", "revokeKey", "writeKey"}
  /\ q.at \in {"userIsAdmin", "listKeys"} => q.do # "writeKey"
  /\ \/ q.at \in {"secret", "writeKey"}
     \/ q.at \in {"countUsers", "countKeys"} /\ q.do = "writeKey"
     => q.row \in I!KeyRow /\ Inherited(q.row.scopes)

\* The challenge a request is about, and whose it is once he proved himself.
Confirms(q) ==
  /\ q.at \in {"prove", "consume", "record"} =>
       q.row \in Flow /\ flow[q.row] # None /\ flow[q.row].kind = "link"
  /\ q.at = "consume" => flow[q.row].candidate \in {None, q.by}
  /\ q.at = "record" => Proven(q.row, flow[q.row].subject, q.by)

Allowed(q) == Refused(q) /\ Carries(q) /\ Confirms(q)

IdentityInv ==
  /\ IdentityTypes /\ Grants /\ Links
  /\ \A r \in Request : Allowed(access[r])

-----------------------------------------------------------------------------
(* Rows go one way: revoked, replaced, used.                                *)

OneWay ==
  /\ \A s \in Session : session[s] # None =>
       session'[s] # None /\ (session[s].revoked => session'[s].revoked)
  /\ \A k \in ApiKey : key[k] # None =>
       key'[k] # None /\ (key[k].secret = "second" => key'[k].secret = "second")
  /\ \A f \in Flow : flow[f] # None =>
       /\ flow'[f] # None
       /\ flow'[f].kind = flow[f].kind /\ flow'[f].subject = flow[f].subject
       /\ flow'[f].candidate = flow[f].candidate
       /\ flow[f].used => flow'[f] = flow[f]

LEMMA Inherits ==
  ASSUME NEW g, NEW h, I!Within(g, h), Inherited(h)
  PROVE  Inherited(g)
BY DEF Inherited, I!Within, I!HasScope

LEMMA AllowedStays ==
  ASSUME IdentityInv, OneWay, NEW q \in AccessRecord, Allowed(q)
  PROVE  Allowed(q)'
<1>1. Refused(q)'
  BY DEF OneWay, Allowed, Refused, AccessRecord
<1>2. Carries(q)'
  BY DEF Allowed, Carries
<1>3. Confirms(q)'
  BY DEF OneWay, Allowed, Confirms, Proven
<1>. QED  BY <1>1, <1>2, <1>3 DEF Allowed

LEMMA ProvenStays ==
  ASSUME OneWay, NEW f \in Flow, NEW x, NEW u, Proven(f, x, u)
  PROVE  Proven(f, x, u)'
BY DEF OneWay, Proven

\* Where one request moves and the rows go their way.
LEMMA RequestMoves ==
  ASSUME IdentityInv, OneWay, NEW r \in Request, NEW x \in AccessRecord,
         access' = [access EXCEPT ![r] = x], Allowed(x)', Grants', Links',
         holds' \in [User -> SUBSET Role], role' \in [Role -> {None} \cup SUBSET Scope],
         key' \in [ApiKey -> I!KeyRow \cup {None}],
         session' \in [Session -> I!SessionRow \cup {None}],
         link' \in [Subject -> User \cup {None}], flow' \in [Flow -> I!FlowRow \cup {None}]
  PROVE  IdentityInv'
<1>1. access' \in [Request -> AccessRecord] /\ access'[r] = x
      /\ \A s \in Request : s # r => access'[s] = access[s]
  BY DEF IdentityInv, IdentityTypes
<1>2. ASSUME NEW s \in Request PROVE Allowed(access[s])'
  <2>1. CASE s = r
    BY <1>1, <2>1
  <2>2. CASE s # r
    <3>1. PICK q \in AccessRecord : q = access[s] /\ Allowed(q)
      BY DEF IdentityInv, IdentityTypes
    <3>2. Allowed(q)'
      BY <3>1, AllowedStays
    <3>. QED  BY <1>1, <2>2, <3>1, <3>2
  <2>. QED  BY <2>1, <2>2
<1>. QED  BY <1>1, <1>2 DEF IdentityInv, IdentityTypes

RowsStay == UNCHANGED <<holds, role, key, session, link, flow>>

LEMMA NothingWritten ==
  ASSUME IdentityInv, RowsStay
  PROVE  /\ OneWay /\ Grants' /\ Links'
         /\ holds' \in [User -> SUBSET Role] /\ role' \in [Role -> {None} \cup SUBSET Scope]
         /\ key' \in [ApiKey -> I!KeyRow \cup {None}]
         /\ session' \in [Session -> I!SessionRow \cup {None}]
         /\ link' \in [Subject -> User \cup {None}] /\ flow' \in [Flow -> I!FlowRow \cup {None}]
<1>1. OneWay
  BY DEF RowsStay, OneWay
<1>2. Grants'
  BY DEF RowsStay, IdentityInv, Grants
<1>3. Links'
  BY DEF RowsStay, IdentityInv, Links, Proven
<1>. QED  BY <1>1, <1>2, <1>3 DEF RowsStay, IdentityInv, IdentityTypes

\* Where nothing but a request moves.
LEMMA OnlyARequest ==
  ASSUME IdentityInv, RowsStay, NEW r \in Request, NEW x \in AccessRecord,
         access' = [access EXCEPT ![r] = x], Allowed(x)
  PROVE  IdentityInv'
<1>1. Allowed(x)'
  BY NothingWritten, AllowedStays
<1>. QED  BY <1>1, NothingWritten, RequestMoves

-----------------------------------------------------------------------------
(* The statements that write none of the rows above.                        *)

LEMMA RowFields ==
  /\ \A z \in I!SessionRow : z.user \in User
  /\ \A z \in I!KeyRow : z.owner \in User \cup Account /\ z.scopes \in SUBSET Scope
BY DEF I!SessionRow, I!KeyRow

LEMMA StageNames ==
  /\ "idle" \in Stages /\ "present" \in Stages /\ "owner" \in Stages /\ "roles" \in Stages
  /\ "touch" \in Stages /\ "csrf" \in Stages /\ "admitted" \in Stages /\ "countUsers" \in Stages
  /\ "countKeys" \in Stages /\ "assign" \in Stages /\ "unassign" \in Stages
  /\ "userIsAdmin" \in Stages
  /\ "disable" \in Stages /\ "enable" \in Stages /\ "revokeAll" \in Stages /\ "listKeys" \in Stages
  /\ "suspend" \in Stages /\ "resume" \in Stages /\ "revokeKey" \in Stages /\ "secret" \in Stages
  /\ "writeKey" \in Stages /\ "revokeOne" \in Stages /\ "issue" \in Stages /\ "resolve" \in Stages
  /\ "linked" \in Stages /\ "candidate" \in Stages /\ "challenge" \in Stages /\ "prove" \in Stages
  /\ "consume" \in Stages /\ "record" \in Stages
BY DEF Stages

LEMMA IdleIsAllowed == I!Constants => I!Idle \in AccessRecord /\ Allowed(I!Idle)
<1>1. I!Idle \in AccessRecord
  BY DEF I!Idle, AccessRecord, Stages
<1>2. Inherited(I!Idle.scopes)
  BY DEF I!Idle, Inherited, I!Within
<1>. QED  BY <1>1, <1>2 DEF I!Idle, Allowed, Refused, Carries, Confirms

LEMMA Ended ==
  ASSUME I!Constants, IdentityInv, RowsStay, NEW r \in Request, I!Done(r)
  PROVE  IdentityInv'
BY IdleIsAllowed, OnlyARequest DEF I!Done, I!Put

LEMMA PresentSessionInv ==
  ASSUME I!Constants, IdentityInv, NEW r \in Request, NEW s \in Session, I!PresentSession(r, s)
  PROVE  IdentityInv'
<1>1. PICK z \in I!SessionRow : z = session[s]
  BY DEF I!PresentSession, IdentityInv, IdentityTypes
<1>2. PICK b \in BOOLEAN : b = z.revoked
  BY DEF I!SessionRow
<1>3. PICK x \in AccessRecord :
        x = [I!Idle EXCEPT !.at = "present", !.sess = s, !.late = b]
  <2>1. [I!Idle EXCEPT !.at = "present", !.sess = s, !.late = b] \in AccessRecord
    BY IdleIsAllowed, StageNames, ZenonT(60) DEF AccessRecord
  <2>. QED  BY <2>1
<1>4. /\ x.at = "present" /\ x.sess = s /\ x.key = None /\ x.late = b /\ x.scopes = {}
  BY <1>3 DEF I!Idle
<1>5. Allowed(x)
  BY <1>1, <1>2, <1>4 DEF I!PresentSession, Allowed, Refused, Carries, Confirms, Inherited,
     I!Within
<1>6. access' = [access EXCEPT ![r] = x] /\ RowsStay
  BY <1>1, <1>2, <1>3 DEF I!PresentSession, I!Begin, I!rows, I!people, RowsStay
<1>. QED  BY <1>5, <1>6, OnlyARequest

LEMMA PresentKeyInv ==
  ASSUME I!Constants, IdentityInv, NEW r \in Request, NEW k \in ApiKey,
         NEW v \in {"first", "second"}, I!PresentKey(r, k, v)
  PROVE  IdentityInv'
<1>1. PICK z \in I!KeyRow : z = key[k]
  BY DEF I!PresentKey, IdentityInv, IdentityTypes
<1>2. PICK b \in BOOLEAN : b = (v # z.secret)
  OBVIOUS
<1>3. PICK x \in AccessRecord :
        x = [I!Idle EXCEPT !.at = "present", !.key = k, !.secret = v, !.late = b]
  <2>1. [I!Idle EXCEPT !.at = "present", !.key = k, !.secret = v, !.late = b] \in AccessRecord
    BY IdleIsAllowed, StageNames, ZenonT(60) DEF AccessRecord
  <2>. QED  BY <2>1
<1>4. /\ x.at = "present" /\ x.sess = None /\ x.key = k /\ x.secret = v /\ x.late = b
      /\ x.scopes = {}
  BY <1>3 DEF I!Idle
<1>5. z.secret \in {"first", "second"} /\ (v = "second" => z.secret = "second") /\ key[k] # None
  BY <1>1 DEF I!PresentKey, I!KeyRow
<1>6. Allowed(x)
  BY <1>1, <1>2, <1>4, <1>5 DEF Allowed, Refused, Carries, Confirms, Inherited, I!Within
<1>7. access' = [access EXCEPT ![r] = x] /\ RowsStay
  BY <1>1, <1>2, <1>3 DEF I!PresentKey, I!Begin, I!rows, I!people, RowsStay
<1>. QED  BY <1>6, <1>7, OnlyARequest

LEMMA AuthenticateSessionInv ==
  ASSUME I!Constants, IdentityInv, NEW r \in Request, I!AuthenticateSession(r)
  PROVE  IdentityInv'
<1>1. PICK q \in AccessRecord : q = access[r] /\ Allowed(q)
  BY DEF IdentityInv, IdentityTypes
<1>2. PICK z \in I!SessionRow : z = session[q.sess] /\ session[q.sess] # None
  <2>1. q.sess \in Session /\ session[q.sess] # None
    BY <1>1 DEF I!AuthenticateSession, Allowed, Refused, AccessRecord
  <2>. QED  BY <2>1 DEF IdentityInv, IdentityTypes
<1>3. ~q.late /\ q.at = "present" /\ q.sess # None
  BY <1>1, <1>2 DEF I!AuthenticateSession, Allowed, Refused
<1>4. PICK x \in AccessRecord :
        x = [q EXCEPT !.at = "owner", !.by = z.user, !.row = z]
  <2>1. "owner" \in Stages /\ z.user \in User
    BY StageNames, RowFields
  <2>2. [q EXCEPT !.at = "owner", !.by = z.user, !.row = z] \in AccessRecord
    BY <2>1, ZenonT(60) DEF AccessRecord
  <2>. QED  BY <2>2
<1>5. x.at = "owner" /\ x.by \in User /\ x.sess = q.sess /\ x.key = q.key /\ ~x.late
      /\ x.scopes = q.scopes
  BY <1>2, <1>3, <1>4, ZenonT(60) DEF AccessRecord, I!SessionRow
<1>6. Allowed(x)
  BY <1>1, <1>5 DEF Allowed, Refused, Carries, Confirms
<1>7. access' = [access EXCEPT ![r] = x] /\ RowsStay
  BY <1>1, <1>2, <1>4 DEF I!AuthenticateSession, I!Put, I!rows, I!people, RowsStay
<1>. QED  BY <1>6, <1>7, OnlyARequest

LEMMA AuthenticateInv ==
  ASSUME I!Constants, IdentityInv, NEW r \in Request, I!Authenticate(r)
  PROVE  IdentityInv'
<1>1. PICK q \in AccessRecord : q = access[r] /\ Allowed(q)
  BY DEF IdentityInv, IdentityTypes
<1>2. q.at = "present" /\ q.key \in ApiKey /\ q.sess = None /\ key[q.key] # None
  BY <1>1 DEF I!Authenticate, Allowed, Refused, Carries, AccessRecord
<1>3. PICK z \in I!KeyRow : z = key[q.key] /\ Inherited(z.scopes)
  BY <1>2 DEF IdentityInv, IdentityTypes, Grants
<1>4. ~q.late
  BY <1>1, <1>2 DEF I!Authenticate, Allowed, Refused
<1>5. PICK x \in AccessRecord :
        x = [q EXCEPT !.at = "owner", !.by = z.owner, !.scopes = z.scopes]
  <2>1. "owner" \in Stages /\ z.owner \in User \cup Account /\ z.scopes \in SUBSET Scope
    BY StageNames, RowFields
  <2>2. [q EXCEPT !.at = "owner", !.by = z.owner, !.scopes = z.scopes] \in AccessRecord
    BY <2>1, ZenonT(60) DEF AccessRecord
  <2>. QED  BY <2>2
<1>6. x.at = "owner" /\ x.sess = None /\ x.key = q.key /\ ~x.late /\ x.scopes = z.scopes
  BY <1>2, <1>4, <1>5, ZenonT(60) DEF AccessRecord
<1>7. Allowed(x)
  BY <1>2, <1>3, <1>6 DEF Allowed, Refused, Carries, Confirms
<1>8. access' = [access EXCEPT ![r] = x] /\ RowsStay
  BY <1>1, <1>3, <1>5 DEF I!Authenticate, I!Put, I!rows, I!people, RowsStay
<1>. QED  BY <1>7, <1>8, OnlyARequest

\* What a handler keeps of the request that it serves.
Kept(y, to) ==
  /\ y \in AccessRecord /\ y.at = to /\ y.do = "" /\ y.row = None
  /\ y.sess = None /\ y.key = None /\ y.late = FALSE /\ Inherited(y.scopes)

LEMMA ActingIs ==
  ASSUME I!Constants, IdentityInv, NEW r \in Request, NEW to \in Stages
  PROVE  Kept(I!Acting(r, to), to)
<1>. SUFFICES ASSUME NEW y, y = I!Acting(r, to) PROVE Kept(y, to)
  OBVIOUS
<1>1. PICK q \in AccessRecord : q = access[r] /\ Allowed(q)
  BY DEF IdentityInv, IdentityTypes
<1>2. PICK g \in SUBSET Scope : g = q.scopes /\ Inherited(g)
  BY <1>1 DEF AccessRecord, Allowed, Carries
<1>3. PICK z \in AccessRecord : z = I!Idle
  BY IdleIsAllowed
<1>4. y = [z EXCEPT !.at = to, !.scopes = g]
  BY <1>1, <1>2, <1>3 DEF I!Acting
<1>5. y \in AccessRecord
  BY <1>4, ZenonT(60) DEF AccessRecord
<1>6. /\ y.at = to /\ y.do = "" /\ y.row = None /\ y.sess = None /\ y.key = None /\ y.late = FALSE
      /\ y.scopes = g
  BY <1>3, <1>4 DEF I!Idle
<1>. QED  BY <1>2, <1>5, <1>6 DEF Kept

LEMMA PutRoleInv ==
  ASSUME I!Constants, IdentityInv, RowsStay, NEW r \in Request, NEW u \in User, NEW ro \in Role,
         I!Put(r, [I!Acting(r, "assign") EXCEPT !.tgt = u, !.role = ro])
  PROVE  IdentityInv'
<1>1. PICK y \in AccessRecord : /\ y = I!Acting(r, "assign")
                            /\ y.at = "assign" /\ y.sess = None /\ y.key = None /\ y.late = FALSE
                            /\ Inherited(y.scopes)
  <2>1. PICK at \in Stages : at = "assign"
    BY StageNames
  <2>2. PICK v : v = I!Acting(r, at) /\ Kept(v, at)
    BY ActingIs
  <2>3. /\ v \in AccessRecord
        /\ v.at = at /\ v.sess = None /\ v.key = None /\ v.late = FALSE
        /\ Inherited(v.scopes)
    BY <2>2 DEF Kept
  <2>. QED  BY <2>1, <2>2, <2>3
<1>2. PICK x \in AccessRecord : x = [y EXCEPT !.tgt = u, !.role = ro]
  <2>1. [y EXCEPT !.tgt = u, !.role = ro] \in AccessRecord
    BY ZenonT(60) DEF AccessRecord
  <2>. QED  BY <2>1
<1>3. x.at = y.at /\ x.sess = y.sess /\ x.key = y.key /\ x.late = y.late /\ x.scopes = y.scopes
      /\ x.role = ro
  BY <1>2 DEF AccessRecord
<1>4. Allowed(x)
  BY <1>1, <1>3 DEF Allowed, Refused, Carries, Confirms
<1>. QED  BY <1>1, <1>2, <1>4, OnlyARequest DEF I!Put

LEMMA DropRoleInv ==
  ASSUME I!Constants, IdentityInv, NEW r \in Request, NEW u \in User, NEW ro \in Role,
         I!DropRole(r, u, ro)
  PROVE  IdentityInv'
<1>1. PICK to \in Stages :
        /\ to \in {"countUsers", "unassign"}
        /\ to = IF user[u] = "active" /\ I!Admin \in role[ro] THEN "countUsers" ELSE "unassign"
  BY StageNames
<1>2. to \in Stages /\ "unassign" \in Stages
  BY StageNames
<1>3. PICK y \in AccessRecord : /\ y = I!Acting(r, to)
                            /\ y.at = to /\ y.sess = None /\ y.key = None /\ y.late = FALSE
                            /\ Inherited(y.scopes)
  <2>1. PICK v : v = I!Acting(r, to) /\ Kept(v, to)
    BY ActingIs
  <2>3. /\ v \in AccessRecord
        /\ v.at = to /\ v.sess = None /\ v.key = None /\ v.late = FALSE
        /\ Inherited(v.scopes)
    BY <2>1 DEF Kept
  <2>. QED  BY <2>1, <2>3
<1>4. PICK x \in AccessRecord : x = [y EXCEPT !.do = "unassign", !.tgt = u, !.role = ro]
  <2>1. [y EXCEPT !.do = "unassign", !.tgt = u, !.role = ro] \in AccessRecord
    BY <1>2, ZenonT(60) DEF AccessRecord
  <2>. QED  BY <2>1
<1>5. x.at = y.at /\ x.sess = y.sess /\ x.key = y.key /\ x.late = y.late /\ x.scopes = y.scopes
      /\ x.do = "unassign"
  BY <1>4 DEF AccessRecord
<1>6. Allowed(x)
  BY <1>1, <1>3, <1>5 DEF Allowed, Refused, Carries, Confirms
<1>7. access' = [access EXCEPT ![r] = x] /\ RowsStay
  BY <1>1, <1>3, <1>4 DEF I!DropRole, I!Put, I!rows, I!people, RowsStay
<1>. QED  BY <1>6, <1>7, OnlyARequest

LEMMA PatchUserInv ==
  ASSUME I!Constants, IdentityInv, NEW r \in Request, NEW u \in User, I!PatchUser(r, u)
  PROVE  IdentityInv'
<1>1. PICK to \in Stages :
        /\ to \in {"userIsAdmin", "enable"}
        /\ to = IF user[u] = "active" THEN "userIsAdmin" ELSE "enable"
  BY StageNames
<1>2. to \in Stages /\ "disable" \in Stages
  BY StageNames
<1>3. PICK y \in AccessRecord : /\ y = I!Acting(r, to)
                            /\ y.at = to /\ y.sess = None /\ y.key = None /\ y.late = FALSE
                            /\ Inherited(y.scopes)
  <2>1. PICK v : v = I!Acting(r, to) /\ Kept(v, to)
    BY ActingIs
  <2>3. /\ v \in AccessRecord
        /\ v.at = to /\ v.sess = None /\ v.key = None /\ v.late = FALSE
        /\ Inherited(v.scopes)
    BY <2>1 DEF Kept
  <2>. QED  BY <2>1, <2>3
<1>4. PICK x \in AccessRecord : x = [y EXCEPT !.do = "disable", !.tgt = u]
  <2>1. [y EXCEPT !.do = "disable", !.tgt = u] \in AccessRecord
    BY <1>2, ZenonT(60) DEF AccessRecord
  <2>. QED  BY <2>1
<1>5. x.at = y.at /\ x.sess = y.sess /\ x.key = y.key /\ x.late = y.late /\ x.scopes = y.scopes
      /\ x.do = "disable"
  BY <1>4 DEF AccessRecord
<1>6. Allowed(x)
  BY <1>1, <1>3, <1>5 DEF Allowed, Refused, Carries, Confirms
<1>7. access' = [access EXCEPT ![r] = x] /\ RowsStay
  BY <1>1, <1>3, <1>4 DEF I!PatchUser, I!Put, I!rows, I!people, RowsStay
<1>. QED  BY <1>6, <1>7, OnlyARequest

LEMMA PatchServiceAccountInv ==
  ASSUME I!Constants, IdentityInv, NEW r \in Request, NEW a \in Account, I!PatchServiceAccount(r, a)
  PROVE  IdentityInv'
<1>1. PICK to \in Stages :
        /\ to \in {"listKeys", "resume"}
        /\ to = IF account[a] = "active" THEN "listKeys" ELSE "resume"
  BY StageNames
<1>2. to \in Stages /\ "suspend" \in Stages
  BY StageNames
<1>3. PICK y \in AccessRecord : /\ y = I!Acting(r, to)
                            /\ y.at = to /\ y.sess = None /\ y.key = None /\ y.late = FALSE
                            /\ Inherited(y.scopes)
  <2>1. PICK v : v = I!Acting(r, to) /\ Kept(v, to)
    BY ActingIs
  <2>3. /\ v \in AccessRecord
        /\ v.at = to /\ v.sess = None /\ v.key = None /\ v.late = FALSE
        /\ Inherited(v.scopes)
    BY <2>1 DEF Kept
  <2>. QED  BY <2>1, <2>3
<1>4. PICK x \in AccessRecord : x = [y EXCEPT !.do = "suspend", !.tgt = a]
  <2>1. [y EXCEPT !.do = "suspend", !.tgt = a] \in AccessRecord
    BY <1>2, ZenonT(60) DEF AccessRecord
  <2>. QED  BY <2>1
<1>5. x.at = y.at /\ x.sess = y.sess /\ x.key = y.key /\ x.late = y.late /\ x.scopes = y.scopes
      /\ x.do = "suspend"
  BY <1>4 DEF AccessRecord
<1>6. Allowed(x)
  BY <1>1, <1>3, <1>5 DEF Allowed, Refused, Carries, Confirms
<1>7. access' = [access EXCEPT ![r] = x] /\ RowsStay
  BY <1>1, <1>3, <1>4 DEF I!PatchServiceAccount, I!Put, I!rows, I!people, RowsStay
<1>. QED  BY <1>6, <1>7, OnlyARequest

\* What a key's request asks for: counted first or not, and the row it will write.
MayAsk(to, do, w) ==
  /\ to \in {"countUsers", do}
  /\ do \in {"revokeKey", "writeKey"}
  /\ do = "writeKey" => w \in I!KeyRow /\ Inherited(w.scopes)

LEMMA KeyAsked ==
  ASSUME I!Constants, IdentityInv, RowsStay, NEW r \in Request, NEW k \in ApiKey, key[k] # None,
         NEW do \in Stages, NEW to \in Stages, NEW w, w = None \/ w \in I!KeyRow,
         MayAsk(to, do, w), NEW ks \in SUBSET ApiKey,
         I!Put(r, [I!OnKey(r, k, do, w) EXCEPT !.at = to, !.keys = ks])
  PROVE  IdentityInv'
<1>1. PICK q : q = I!Acting(r, do) /\ Kept(q, do)
  BY ActingIs
<1>2. /\ q \in AccessRecord /\ q.at = do /\ q.sess = None /\ q.late = FALSE
      /\ Inherited(q.scopes)
  BY <1>1 DEF Kept
<1>3. PICK v : v = [q EXCEPT !.do = do, !.key = k, !.row = w]
  OBVIOUS
<1>4. v \in AccessRecord
  <2>1. PICK z \in I!KeyRow \cup I!SessionRow \cup Subject \cup Flow \cup {None} : z = w
    OBVIOUS
  <2>2. v = [q EXCEPT !.do = do, !.key = k, !.row = z]
    BY <1>3, <2>1
  <2>. QED  BY <1>2, <2>2, ZenonT(60) DEF AccessRecord
<1>5. /\ v.do = do /\ v.row = w /\ v.sess = None /\ v.key = k /\ v.late = FALSE
      /\ v.scopes = q.scopes
  BY <1>2, <1>3 DEF AccessRecord
<1>6. v = I!OnKey(r, k, do, w)
  BY <1>1, <1>3 DEF I!OnKey
<1>7. PICK x : x = [v EXCEPT !.at = to, !.keys = ks]
  OBVIOUS
<1>8. x \in AccessRecord
  BY <1>4, <1>7 DEF AccessRecord
<1>9. /\ x.at = to /\ x.do = do /\ x.row = w /\ x.sess = None /\ x.key = k /\ x.late = FALSE
      /\ x.scopes = q.scopes
  BY <1>4, <1>5, <1>7 DEF AccessRecord
<1>10. Allowed(x)
  BY <1>2, <1>9 DEF MayAsk, Allowed, Refused, Carries, Confirms
<1>11. access' = [access EXCEPT ![r] = x]
  BY <1>6, <1>7 DEF I!Put
<1>. QED  BY <1>8, <1>10, <1>11, OnlyARequest

LEMMA DeleteKeyInv ==
  ASSUME I!Constants, IdentityInv, NEW r \in Request, NEW k \in ApiKey, I!DeleteKey(r, k)
  PROVE  IdentityInv'
<1>1. PICK do \in Stages : do = "revokeKey"
  BY StageNames
<1>2. PICK to \in Stages : to = IF I!Admin \in key[k].scopes THEN "countUsers" ELSE do
  BY StageNames
<1>3. PICK ks \in SUBSET ApiKey : ks = IF I!Admin \in key[k].scopes THEN {k} ELSE {}
  OBVIOUS
<1>4. PICK w : w = None
  OBVIOUS
<1>5. key[k] # None /\ RowsStay
  BY DEF I!DeleteKey, I!rows, I!people, RowsStay
<1>6. MayAsk(to, do, w)
  BY <1>1, <1>2 DEF MayAsk
<1>7. I!Put(r, [I!OnKey(r, k, do, w) EXCEPT !.at = to, !.keys = ks])
  BY <1>1, <1>2, <1>3, <1>4 DEF I!DeleteKey
<1>. QED  BY <1>4, <1>5, <1>6, <1>7, KeyAsked

\* The row of a key, with some of its columns written.
LEMMA KeyIs ==
  ASSUME NEW z \in I!KeyRow, NEW g \in SUBSET Scope, NEW b \in BOOLEAN
  PROVE  /\ [z EXCEPT !.live = b] \in I!KeyRow /\ [z EXCEPT !.live = b].scopes = z.scopes
         /\ [z EXCEPT !.live = b].secret = z.secret
         /\ [z EXCEPT !.scopes = g, !.live = b] \in I!KeyRow
         /\ [z EXCEPT !.scopes = g, !.live = b].scopes = g
         /\ [z EXCEPT !.scopes = g, !.live = b].secret = z.secret
         /\ [z EXCEPT !.secret = "second"] \in I!KeyRow
         /\ [z EXCEPT !.secret = "second"].scopes = z.scopes
         /\ [z EXCEPT !.secret = "second"].secret = "second"
BY DEF I!KeyRow

LEMMA RestoreKeyInv ==
  ASSUME I!Constants, IdentityInv, NEW r \in Request, NEW k \in ApiKey, I!RestoreKey(r, k)
  PROVE  IdentityInv'
<1>1. PICK z \in I!KeyRow : z = key[k] /\ key[k] # None /\ Inherited(z.scopes)
  BY DEF I!RestoreKey, IdentityInv, IdentityTypes, Grants
<1>2. PICK b \in BOOLEAN : b = TRUE
  OBVIOUS
<1>3. PICK w \in I!KeyRow : w = [z EXCEPT !.live = b] /\ w.scopes = z.scopes
  BY KeyIs
<1>4. w = [key[k] EXCEPT !.live = TRUE]
  BY <1>1, <1>2, <1>3
<1>5. PICK x \in AccessRecord :
        /\ x = I!OnKey(r, k, "writeKey", w) /\ Inherited(x.scopes)
        /\ x.at = "writeKey" /\ x.row = w /\ x.sess = None /\ x.key = k /\ x.late = FALSE
  <2>1. PICK at \in Stages : at = "writeKey"
    BY StageNames
  <2>2. PICK q : q = I!Acting(r, at) /\ Kept(q, at)
    BY ActingIs
  <2>3. /\ q \in AccessRecord /\ q.at = at /\ q.sess = None /\ q.late = FALSE
        /\ Inherited(q.scopes)
    BY <2>2 DEF Kept
  <2>4. PICK v : v = [q EXCEPT !.do = at, !.key = k, !.row = w]
    OBVIOUS
  <2>5. v \in AccessRecord
    BY <2>3, <2>4, ZenonT(60) DEF AccessRecord
  <2>6. /\ v.at = at /\ v.do = at /\ v.row = w /\ v.sess = None /\ v.key = k /\ v.late = FALSE
        /\ v.scopes = q.scopes
    BY <2>3, <2>4 DEF AccessRecord
  <2>7. v = I!OnKey(r, k, "writeKey", w)
    BY <2>1, <2>2, <2>4 DEF I!OnKey
  <2>. QED  BY <2>1, <2>3, <2>5, <2>6, <2>7
<1>6. Allowed(x)
  BY <1>1, <1>3, <1>5 DEF Allowed, Refused, Carries, Confirms
<1>7. access' = [access EXCEPT ![r] = x] /\ RowsStay
  BY <1>4, <1>5 DEF I!RestoreKey, I!Put, I!rows, I!people, RowsStay
<1>. QED  BY <1>6, <1>7, OnlyARequest

LEMMA RegenerateKeyInv ==
  ASSUME I!Constants, IdentityInv, NEW r \in Request, NEW k \in ApiKey, I!RegenerateKey(r, k)
  PROVE  IdentityInv'
<1>1. PICK z \in I!KeyRow : z = key[k] /\ key[k] # None /\ Inherited(z.scopes)
  BY DEF I!RegenerateKey, IdentityInv, IdentityTypes, Grants
<1>2. PICK x \in AccessRecord :
        /\ x = I!OnKey(r, k, "secret", z) /\ Inherited(x.scopes)
        /\ x.at = "secret" /\ x.row = z /\ x.sess = None /\ x.key = k /\ x.late = FALSE
  <2>1. PICK at \in Stages : at = "secret"
    BY StageNames
  <2>2. PICK q : q = I!Acting(r, at) /\ Kept(q, at)
    BY ActingIs
  <2>3. /\ q \in AccessRecord /\ q.at = at /\ q.sess = None /\ q.late = FALSE
        /\ Inherited(q.scopes)
    BY <2>2 DEF Kept
  <2>4. PICK v : v = [q EXCEPT !.do = at, !.key = k, !.row = z]
    OBVIOUS
  <2>5. v \in AccessRecord
    BY <2>3, <2>4, ZenonT(60) DEF AccessRecord
  <2>6. /\ v.at = at /\ v.do = at /\ v.row = z /\ v.sess = None /\ v.key = k /\ v.late = FALSE
        /\ v.scopes = q.scopes
    BY <2>3, <2>4 DEF AccessRecord
  <2>7. v = I!OnKey(r, k, "secret", z)
    BY <2>1, <2>2, <2>4 DEF I!OnKey
  <2>. QED  BY <2>1, <2>3, <2>5, <2>6, <2>7
<1>3. Allowed(x)
  BY <1>1, <1>2 DEF Allowed, Refused, Carries, Confirms
<1>4. access' = [access EXCEPT ![r] = x] /\ RowsStay
  BY <1>1, <1>2 DEF I!RegenerateKey, I!Put, I!rows, I!people, RowsStay
<1>. QED  BY <1>3, <1>4, OnlyARequest

LEMMA PutKeyInv ==
  ASSUME I!Constants, IdentityInv, NEW r \in Request, NEW k \in ApiKey, NEW g \in SUBSET Scope,
         NEW active \in {"on", "off", "keep"}, I!PutKey(r, k, g, active)
  PROVE  IdentityInv'
<1>1. PICK z \in I!KeyRow : z = key[k] /\ key[k] # None
  BY DEF I!PutKey, IdentityInv, IdentityTypes
<1>2. PICK b \in BOOLEAN : b = (active = "on" \/ (active = "keep" /\ z.live))
  OBVIOUS
<1>3. PICK w \in I!KeyRow : w = [z EXCEPT !.scopes = g, !.live = b] /\ w.scopes = g
  <2>1. PICK v : v = [z EXCEPT !.scopes = g, !.live = b]
    OBVIOUS
  <2>2. v \in I!KeyRow /\ v.scopes = g
    BY <2>1 DEF I!KeyRow
  <2>. QED  BY <2>1, <2>2
<1>4. w = I!Patched(key[k], g, active)
  BY <1>1, <1>2, <1>3 DEF I!Patched
<1>5. Inherited(g)
  <2>1. PICK q \in AccessRecord : q = access[r] /\ Inherited(q.scopes)
    BY DEF IdentityInv, IdentityTypes, Allowed, Carries
  <2>. QED  BY <2>1, Inherits DEF I!PutKey, I!KeyWithin
<1>6. PICK do \in Stages : do = "writeKey"
  BY StageNames
<1>7. PICK to \in Stages :
        to = IF active = "off" /\ I!Admin \in g THEN "countUsers" ELSE do
  BY StageNames
<1>8. PICK ks \in SUBSET ApiKey : ks = IF active = "off" /\ I!Admin \in g THEN {k} ELSE {}
  OBVIOUS
<1>9. RowsStay
  BY DEF I!PutKey, I!rows, I!people, RowsStay
<1>10. MayAsk(to, do, w)
  BY <1>3, <1>5, <1>6, <1>7 DEF MayAsk
<1>11. I!Put(r, [I!OnKey(r, k, do, w) EXCEPT !.at = to, !.keys = ks])
  BY <1>4, <1>6, <1>7, <1>8 DEF I!PutKey
<1>. QED  BY <1>1, <1>9, <1>10, <1>11, KeyAsked

-----------------------------------------------------------------------------
\* What a request may do next with what it carries.
MayMove(q, to) ==
  /\ to \in {"roles", "admitted", "countUsers", "disable", "revokeAll", "issue", "consume"}
  /\ q.at # "present"
  /\ to \in {"roles", "issue"} => q.by \in User
  /\ to = "countUsers" => q.at = "userIsAdmin"
  /\ to = "consume" => q.at = "prove" /\ flow[q.row].candidate \in {None, q.by}

LEMMA Moves ==
  ASSUME I!Constants, IdentityInv, RowsStay, NEW r \in Request, NEW to \in Stages,
         MayMove(access[r], to), I!Move(r, to)
  PROVE  IdentityInv'
<1>1. PICK q \in AccessRecord : q = access[r] /\ Allowed(q) /\ MayMove(q, to)
  BY DEF IdentityInv, IdentityTypes
<1>2. PICK x : x = [q EXCEPT !.at = to]
  OBVIOUS
<1>3. x \in AccessRecord
  BY <1>2 DEF AccessRecord
<1>4. /\ x.at = to /\ x.do = q.do /\ x.sess = q.sess /\ x.key = q.key /\ x.by = q.by
      /\ x.scopes = q.scopes /\ x.row = q.row /\ x.late = q.late
  BY <1>2 DEF AccessRecord
<1>5. Refused(x)
  BY <1>1, <1>4 DEF Allowed, Refused, MayMove
<1>6. Carries(x)
  BY <1>1, <1>4 DEF Allowed, Carries, MayMove
<1>7. Confirms(x)
  BY <1>1, <1>4 DEF Allowed, Confirms, MayMove
<1>8. access' = [access EXCEPT ![r] = x]
  BY <1>1, <1>2 DEF I!Move, I!Put
<1>. QED  BY <1>3, <1>5, <1>6, <1>7, <1>8, OnlyARequest DEF Allowed

LEMMA SessionUserInv ==
  ASSUME I!Constants, IdentityInv, NEW r \in Request, I!SessionUser(r)
  PROVE  IdentityInv'
<1>1. PICK to \in Stages : to = "roles"
  BY StageNames
<1>2. PICK q \in AccessRecord : q = access[r] /\ Allowed(q)
  BY DEF IdentityInv, IdentityTypes
<1>3. MayMove(q, to)
  BY <1>1, <1>2 DEF I!SessionUser, Allowed, Carries, MayMove
<1>4. RowsStay /\ I!Move(r, to)
  BY <1>1 DEF I!SessionUser, I!rows, I!people, RowsStay
<1>. QED  BY <1>2, <1>3, <1>4, Moves

LEMMA ValidateCSRFInv ==
  ASSUME I!Constants, IdentityInv, NEW r \in Request, I!ValidateCSRF(r)
  PROVE  IdentityInv'
<1>1. PICK to \in Stages : to = "admitted"
  BY StageNames
<1>2. MayMove(access[r], to)
  BY <1>1 DEF I!ValidateCSRF, MayMove
<1>3. RowsStay /\ I!Move(r, to)
  BY <1>1 DEF I!ValidateCSRF, I!rows, I!people, RowsStay
<1>. QED  BY <1>2, <1>3, Moves

LEMMA UserIsAdminInv ==
  ASSUME I!Constants, IdentityInv, NEW r \in Request, I!UserIsAdmin(r)
  PROVE  IdentityInv'
<1>1. PICK to \in Stages :
        to = IF I!Admin \in I!RoleScopes(access[r].tgt) THEN "countUsers" ELSE "disable"
  BY StageNames
<1>2. MayMove(access[r], to)
  BY <1>1 DEF I!UserIsAdmin, MayMove
<1>3. RowsStay /\ I!Move(r, to)
  BY <1>1 DEF I!UserIsAdmin, I!rows, I!people, RowsStay
<1>. QED  BY <1>2, <1>3, Moves

LEMMA UpdateUserStatusInv ==
  ASSUME I!Constants, IdentityInv, NEW r \in Request, I!UpdateUserStatus(r)
  PROVE  IdentityInv'
<1>1. RowsStay
  BY DEF I!UpdateUserStatus, RowsStay
<1>2. CASE access[r].at = "disable" /\ I!Move(r, "revokeAll")
  <2>1. PICK to \in Stages : to = "revokeAll"
    BY StageNames
  <2>2. MayMove(access[r], to) /\ I!Move(r, to)
    BY <1>2, <2>1 DEF MayMove
  <2>. QED  BY <1>1, <2>2, Moves
<1>3. CASE I!Done(r)
  BY <1>1, <1>3, Ended
<1>. QED  BY <1>2, <1>3 DEF I!UpdateUserStatus

LEMMA LinkedUserInv ==
  ASSUME I!Constants, IdentityInv, NEW r \in Request, I!LinkedUser(r)
  PROVE  IdentityInv'
<1>1. PICK to \in Stages : to = "issue"
  BY StageNames
<1>2. PICK q \in AccessRecord : q = access[r] /\ Allowed(q)
  BY DEF IdentityInv, IdentityTypes
<1>3. MayMove(q, to)
  BY <1>1, <1>2 DEF I!LinkedUser, Allowed, Carries, MayMove
<1>4. RowsStay /\ I!Move(r, to)
  BY <1>1 DEF I!LinkedUser, I!rows, I!people, RowsStay
<1>. QED  BY <1>2, <1>3, <1>4, Moves

LEMMA ProvePasswordInv ==
  ASSUME I!Constants, IdentityInv, NEW r \in Request, I!ProvePassword(r)
  PROVE  IdentityInv'
<1>1. PICK to \in Stages : to = "consume"
  BY StageNames
<1>2. MayMove(access[r], to)
  BY <1>1 DEF I!ProvePassword, MayMove
<1>3. RowsStay /\ I!Move(r, to)
  BY <1>1 DEF I!ProvePassword, I!rows, I!people, RowsStay
<1>. QED  BY <1>2, <1>3, Moves

LEMMA CreateUserInv ==
  ASSUME I!Constants, IdentityInv, NEW r \in Request, NEW u \in User, NEW ro \in Role \cup {None},
         I!CreateUser(r, u, ro)
  PROVE  IdentityInv'
<1>1. RowsStay
  BY DEF I!CreateUser, RowsStay
<1>2. CASE ro = None
  BY <1>1, <1>2, Ended DEF I!CreateUser
<1>3. CASE ro # None
  <2>1. ro \in Role
    BY <1>3
  <2>2. I!Put(r, [I!Acting(r, "assign") EXCEPT !.tgt = u, !.role = ro])
    BY <1>3 DEF I!CreateUser
  <2>. QED  BY <1>1, <2>1, <2>2, PutRoleInv
<1>. QED  BY <1>2, <1>3

LEMMA PrincipalFromKeyInv ==
  ASSUME I!Constants, IdentityInv, NEW r \in Request, I!PrincipalFromKey(r)
  PROVE  IdentityInv'
<1>1. PICK q \in AccessRecord : q = access[r] /\ Allowed(q)
  BY DEF IdentityInv, IdentityTypes
<1>2. PICK z \in AccessRecord : z = I!Idle
  BY IdleIsAllowed
<1>3. PICK to \in Stages : to = "admitted"
  BY StageNames
<1>4. ~q.late /\ Inherited(q.scopes)
  BY <1>1 DEF I!PrincipalFromKey, Allowed, Refused, Carries
<1>5. PICK b \in BOOLEAN : b = q.late
  BY <1>1 DEF AccessRecord
<1>6. PICK x : x = [z EXCEPT !.at = to, !.by = q.by, !.scopes = q.scopes, !.late = b]
  OBVIOUS
<1>7. x \in AccessRecord
  BY <1>6, ZenonT(60) DEF AccessRecord
<1>8. x.at = to /\ x.sess = None /\ x.key = None /\ x.scopes = q.scopes
  BY <1>2, <1>6 DEF I!Idle
<1>9. x.late = b
  BY <1>6 DEF AccessRecord
<1>10. Allowed(x)
  BY <1>3, <1>4, <1>5, <1>8, <1>9 DEF Allowed, Refused, Carries, Confirms
<1>11. access' = [access EXCEPT ![r] = x] /\ RowsStay
  BY <1>1, <1>2, <1>3, <1>5, <1>6 DEF I!PrincipalFromKey, I!Put, I!rows, I!people, RowsStay
<1>. QED  BY <1>7, <1>10, <1>11, OnlyARequest

\* What a user's roles grant is inherited, whatever they are by now.
LEMMA RolesInherit ==
  ASSUME IdentityInv, NEW u \in User
  PROVE  I!RoleScopes(u) \in SUBSET Scope /\ Inherited(I!RoleScopes(u))
<1>1. I!RoleScopes(u) \in SUBSET Scope
  BY DEF IdentityInv, IdentityTypes, I!RoleScopes
<1>2. ASSUME NEW s \in I!RoleScopes(u) PROVE I!HasScope(I!Original, s)
  <2>1. PICK ro \in Role : role[ro] # None /\ s \in role[ro]
    BY <1>2 DEF I!RoleScopes, IdentityInv, IdentityTypes
  <2>. QED  BY <2>1 DEF IdentityInv, Grants, Inherited, I!Within
<1>. QED  BY <1>1, <1>2 DEF Inherited, I!Within

LEMMA PrincipalForUserInv ==
  ASSUME I!Constants, IdentityInv, NEW r \in Request, I!PrincipalForUser(r)
  PROVE  IdentityInv'
<1>1. PICK q \in AccessRecord : q = access[r] /\ Allowed(q)
  BY DEF IdentityInv, IdentityTypes
<1>2. q.by \in User /\ ~q.late
  BY <1>1 DEF I!PrincipalForUser, Allowed, Refused, Carries
<1>3. PICK u \in User : u = q.by
  BY <1>2
<1>4. PICK g \in SUBSET Scope : g = I!RoleScopes(u) /\ Inherited(g)
  BY RolesInherit
<1>5. PICK to \in Stages : to = "touch"
  BY StageNames
<1>6. PICK x : x = [q EXCEPT !.at = to, !.scopes = g]
  OBVIOUS
<1>7. x \in AccessRecord
  BY <1>6 DEF AccessRecord
<1>8. /\ x.at = to /\ x.sess = q.sess /\ x.key = q.key /\ x.scopes = g /\ x.late = q.late
  BY <1>6 DEF AccessRecord
<1>9. Allowed(x)
  BY <1>1, <1>2, <1>4, <1>5, <1>8 DEF Allowed, Refused, Carries, Confirms
<1>10. access' = [access EXCEPT ![r] = x] /\ RowsStay
  BY <1>1, <1>3, <1>4, <1>5, <1>6 DEF I!PrincipalForUser, I!Put, I!rows, I!people, RowsStay
<1>. QED  BY <1>7, <1>9, <1>10, OnlyARequest

LEMMA CountUsersInv ==
  ASSUME I!Constants, IdentityInv, NEW r \in Request, I!CountUsers(r)
  PROVE  IdentityInv'
<1>1. PICK q \in AccessRecord : q = access[r] /\ Allowed(q) /\ q.at = "countUsers"
  BY DEF I!CountUsers, IdentityInv, IdentityTypes
<1>2. PICK b \in BOOLEAN : b = (I!AdminUsers \ {q.tgt} # {})
  OBVIOUS
<1>3. PICK to \in Stages : to = "countKeys"
  BY StageNames
<1>4. PICK x : x = [q EXCEPT !.at = to, !.left = b]
  OBVIOUS
<1>5. x \in AccessRecord
  BY <1>4 DEF AccessRecord
<1>6. /\ x.at = to /\ x.do = q.do /\ x.sess = q.sess /\ x.key = q.key /\ x.scopes = q.scopes
      /\ x.row = q.row /\ x.late = q.late
  BY <1>4 DEF AccessRecord
<1>7. Allowed(x)
  BY <1>1, <1>3, <1>6 DEF Allowed, Refused, Carries, Confirms
<1>8. access' = [access EXCEPT ![r] = x] /\ RowsStay
  BY <1>1, <1>2, <1>3, <1>4 DEF I!CountUsers, I!Put, I!rows, I!people, RowsStay
<1>. QED  BY <1>5, <1>7, <1>8, OnlyARequest

LEMMA CountKeysInv ==
  ASSUME I!Constants, IdentityInv, NEW r \in Request, I!CountKeys(r)
  PROVE  IdentityInv'
<1>1. PICK q \in AccessRecord : q = access[r] /\ Allowed(q) /\ q.at = "countKeys"
  BY DEF I!CountKeys, IdentityInv, IdentityTypes
<1>2. PICK b \in BOOLEAN : b = FALSE
  OBVIOUS
<1>3. q.do \in {"unassign", "disable", "suspend", "revokeKey", "writeKey"}
  BY <1>1 DEF Allowed, Carries
<1>4. PICK to \in Stages : to = q.do
  BY <1>3, StageNames
<1>5. PICK x : x = [q EXCEPT !.at = to, !.keys = {}, !.left = b]
  OBVIOUS
<1>6. x \in AccessRecord
  BY <1>5 DEF AccessRecord
<1>7. /\ x.at = to /\ x.do = q.do /\ x.sess = q.sess /\ x.key = q.key /\ x.scopes = q.scopes
      /\ x.row = q.row /\ x.late = q.late
  BY <1>5 DEF AccessRecord
<1>8. Refused(x) /\ Confirms(x)
  BY <1>1, <1>3, <1>4, <1>7 DEF Allowed, Refused, Confirms
<1>9. Carries(x)
  BY <1>1, <1>3, <1>4, <1>7 DEF Allowed, Carries
<1>10. access' = [access EXCEPT ![r] = x] /\ RowsStay
  BY <1>1, <1>2, <1>4, <1>5 DEF I!CountKeys, I!Put, I!rows, I!people, RowsStay
<1>. QED  BY <1>6, <1>8, <1>9, <1>10, OnlyARequest DEF Allowed

LEMMA ListAccountKeysInv ==
  ASSUME I!Constants, IdentityInv, NEW r \in Request, I!ListAccountKeys(r)
  PROVE  IdentityInv'
<1>1. PICK q \in AccessRecord : q = access[r] /\ Allowed(q) /\ q.at = "listKeys"
  BY DEF I!ListAccountKeys, IdentityInv, IdentityTypes
<1>2. PICK ks \in SUBSET ApiKey :
        ks = {k \in ApiKey : /\ key[k] # None
                             /\ key[k].owner = q.tgt
                             /\ key[k].live
                             /\ I!Admin \in key[k].scopes}
  OBVIOUS
<1>3. PICK to \in Stages : to = IF ks # {} THEN "countUsers" ELSE "suspend"
  BY StageNames
<1>4. PICK x : x = [q EXCEPT !.at = to, !.keys = ks]
  OBVIOUS
<1>5. x \in AccessRecord
  BY <1>4 DEF AccessRecord
<1>6. /\ x.at = to /\ x.do = q.do /\ x.sess = q.sess /\ x.key = q.key /\ x.scopes = q.scopes
      /\ x.row = q.row /\ x.late = q.late
  BY <1>4 DEF AccessRecord
<1>7. Allowed(x)
  BY <1>1, <1>3, <1>6 DEF Allowed, Refused, Carries, Confirms
<1>8. access' = [access EXCEPT ![r] = x] /\ RowsStay
  BY <1>1, <1>2, <1>3, <1>4 DEF I!ListAccountKeys, I!Put, I!rows, I!people, RowsStay
<1>. QED  BY <1>5, <1>7, <1>8, OnlyARequest

\* The requests that start from nothing but a session, or a user.
LEMMA OnSession ==
  ASSUME I!Constants, IdentityInv, RowsStay, NEW r \in Request, NEW s \in Session,
         session[s] # None, I!Put(r, [I!Idle EXCEPT !.at = "revokeOne", !.sess = s])
  PROVE  IdentityInv'
<1>1. PICK z \in AccessRecord : z = I!Idle
  BY IdleIsAllowed
<1>2. PICK to \in Stages : to = "revokeOne"
  BY StageNames
<1>3. PICK x : x = [z EXCEPT !.at = to, !.sess = s]
  OBVIOUS
<1>4. x \in AccessRecord
  BY <1>3 DEF AccessRecord
<1>5. x.at = to /\ x.sess = s /\ x.key = None /\ x.scopes = {} /\ x.late = FALSE
  BY <1>1, <1>3 DEF I!Idle
<1>6. Allowed(x)
  BY <1>2, <1>5 DEF Allowed, Refused, Carries, Confirms, Inherited, I!Within
<1>7. access' = [access EXCEPT ![r] = x]
  BY <1>1, <1>2, <1>3 DEF I!Put
<1>. QED  BY <1>4, <1>6, <1>7, OnlyARequest

LEMMA RevokeUserSessionInv ==
  ASSUME I!Constants, IdentityInv, NEW r \in Request, NEW s \in Session,
         I!RevokeUserSession(r, s)
  PROVE  IdentityInv'
BY OnSession DEF I!RevokeUserSession, I!rows, I!people, RowsStay

LEMMA LogoutInv ==
  ASSUME I!Constants, IdentityInv, NEW r \in Request, I!Logout(r)
  PROVE  IdentityInv'
<1>1. PICK s \in Session : s = access[r].sess /\ session[s] # None
  BY ZenonT(60) DEF I!Logout, IdentityInv, IdentityTypes, AccessRecord, Allowed, Refused
<1>. QED  BY <1>1, OnSession DEF I!Logout, I!rows, I!people, RowsStay

\* at: "linked" or "issue"
LEMMA OnUser ==
  ASSUME I!Constants, IdentityInv, NEW to \in Stages, to \in {"linked", "issue"}, NEW u \in User,
         NEW x, x = [I!Idle EXCEPT !.at = to, !.by = u]
  PROVE  x \in AccessRecord /\ Allowed(x)
<1>1. PICK z \in AccessRecord : z = I!Idle
  BY IdleIsAllowed
<1>2. x = [z EXCEPT !.at = to, !.by = u]
  BY <1>1
<1>3. x \in AccessRecord
  BY <1>2, ZenonT(60) DEF AccessRecord
<1>4. x.by = u
  BY <1>2 DEF AccessRecord
<1>5. x.at = to /\ x.sess = None /\ x.key = None /\ x.scopes = {} /\ x.late = FALSE
  BY <1>1, <1>2 DEF I!Idle
<1>6. Allowed(x)
  BY <1>4, <1>5 DEF Allowed, Refused, Carries, Confirms, Inherited, I!Within
<1>. QED  BY <1>3, <1>6

LEMMA LoginInv ==
  ASSUME I!Constants, IdentityInv, NEW r \in Request, NEW u \in User, I!Login(r, u)
  PROVE  IdentityInv'
<1>1. PICK to \in Stages : to = "issue"
  BY StageNames
<1>2. PICK x : x = [I!Idle EXCEPT !.at = to, !.by = u]
  OBVIOUS
<1>3. x \in AccessRecord /\ Allowed(x)
  BY <1>1, <1>2, OnUser
<1>4. access' = [access EXCEPT ![r] = x] /\ RowsStay
  BY <1>1, <1>2 DEF I!Login, I!Begin, I!rows, I!people, RowsStay
<1>. QED  BY <1>3, <1>4, OnlyARequest

LEMMA ResolveIdentityInv ==
  ASSUME I!Constants, IdentityInv, NEW r \in Request, I!ResolveIdentity(r)
  PROVE  IdentityInv'
<1>1. PICK q \in AccessRecord : q = access[r] /\ Allowed(q)
  BY DEF IdentityInv, IdentityTypes
<1>2. q.at = "resolve" /\ q.row \in Subject
  BY <1>1 DEF I!ResolveIdentity, Allowed, Carries
<1>3. RowsStay
  BY DEF I!ResolveIdentity, I!rows, I!people, RowsStay
<1>4. CASE link[q.row] # None
  <2>1. PICK u \in User : u = link[q.row]
    BY <1>2, <1>4 DEF IdentityInv, IdentityTypes
  <2>2. PICK to \in Stages : to = "linked"
    BY StageNames
  <2>3. PICK x : x = [I!Idle EXCEPT !.at = to, !.by = u]
    OBVIOUS
  <2>4. x \in AccessRecord /\ Allowed(x)
    BY <2>2, <2>3, OnUser
  <2>5. access' = [access EXCEPT ![r] = x]
    BY <1>1, <1>4, <2>1, <2>2, <2>3 DEF I!ResolveIdentity, I!Put
  <2>. QED  BY <1>3, <2>4, <2>5, OnlyARequest
<1>5. CASE link[q.row] = None
  <2>1. PICK to \in Stages : to = "candidate"
    BY StageNames
  <2>2. PICK x : x = [q EXCEPT !.at = to]
    OBVIOUS
  <2>3. x \in AccessRecord
    BY <2>2 DEF AccessRecord
  <2>4. /\ x.at = to /\ x.sess = q.sess /\ x.key = q.key /\ x.scopes = q.scopes
        /\ x.row = q.row /\ x.late = q.late
    BY <2>2 DEF AccessRecord
  <2>5. Allowed(x)
    BY <1>1, <1>2, <2>1, <2>4 DEF Allowed, Refused, Carries, Confirms
  <2>6. access' = [access EXCEPT ![r] = x]
    BY <1>1, <1>5, <2>1, <2>2 DEF I!ResolveIdentity, I!Put
  <2>. QED  BY <1>3, <2>3, <2>5, <2>6, OnlyARequest
<1>. QED  BY <1>4, <1>5

LEMMA FindCandidateInv ==
  ASSUME I!Constants, IdentityInv, NEW r \in Request, I!FindCandidate(r)
  PROVE  IdentityInv'
<1>1. PICK q \in AccessRecord : q = access[r] /\ Allowed(q)
  BY DEF IdentityInv, IdentityTypes
<1>2. q.at = "candidate" /\ q.row \in Subject
  BY <1>1 DEF I!FindCandidate, Allowed, Carries
<1>3. PICK u \in User \cup {None} :
        u = IF Email[q.row] # None /\ user[Email[q.row]] # "none" THEN Email[q.row] ELSE None
  BY <1>2 DEF I!Constants
<1>4. PICK to \in Stages : to = "challenge"
  BY StageNames
<1>5. PICK x : x = [q EXCEPT !.at = to, !.by = u]
  OBVIOUS
<1>6. x \in AccessRecord
  BY <1>5, ZenonT(60) DEF AccessRecord
<1>7. /\ x.at = to /\ x.sess = q.sess /\ x.key = q.key /\ x.scopes = q.scopes /\ x.by = u
      /\ x.row = q.row /\ x.late = q.late
  BY <1>5 DEF AccessRecord
<1>8. Allowed(x)
  BY <1>1, <1>2, <1>4, <1>7 DEF Allowed, Refused, Carries, Confirms
<1>9. access' = [access EXCEPT ![r] = x] /\ RowsStay
  BY <1>1, <1>3, <1>4, <1>5 DEF I!FindCandidate, I!Put, I!rows, I!people, RowsStay
<1>. QED  BY <1>6, <1>8, <1>9, OnlyARequest

\* A challenge is read, for u to confirm.
LEMMA HandleLinkIdentityInv ==
  ASSUME I!Constants, IdentityInv, NEW r \in Request, NEW f \in Flow, NEW u \in User,
         I!HandleLinkIdentity(r, f, u)
  PROVE  IdentityInv'
<1>1. PICK to \in Stages : to = "prove"
  BY StageNames
<1>2. PICK do \in Stages : do = "issue"
  BY StageNames
<1>3. PICK z \in AccessRecord : z = I!Idle
  BY IdleIsAllowed
<1>4. PICK x : x = [z EXCEPT !.at = to, !.row = f, !.by = u, !.do = do]
  OBVIOUS
<1>5. x \in AccessRecord
  BY <1>4, ZenonT(60) DEF AccessRecord
<1>6. x.by = u /\ x.row = f
  BY <1>4 DEF AccessRecord
<1>7. x.at = to /\ x.sess = None /\ x.key = None /\ x.scopes = {} /\ x.late = FALSE
  BY <1>3, <1>4 DEF I!Idle
<1>8. flow[f] # None /\ flow[f].kind = "link"
  BY DEF I!HandleLinkIdentity, I!ReadChallenge, I!Consumable
<1>9. Allowed(x)
  BY <1>1, <1>6, <1>7, <1>8 DEF Allowed, Refused, Carries, Confirms, Inherited, I!Within
<1>10. access' = [access EXCEPT ![r] = x] /\ RowsStay
  BY <1>1, <1>2, <1>3, <1>4 DEF I!HandleLinkIdentity, I!Begin, I!rows, I!people, RowsStay
<1>. QED  BY <1>5, <1>9, <1>10, OnlyARequest

LEMMA HandleIdentityLinkInv ==
  ASSUME I!Constants, IdentityInv, NEW r \in Request, NEW f \in Flow, I!HandleIdentityLink(r, f)
  PROVE  IdentityInv'
<1>1. PICK to \in Stages : to = "prove"
  BY StageNames
<1>2. PICK u \in User : u = access[r].by
  BY DEF I!HandleIdentityLink
<1>3. PICK z \in AccessRecord : z = I!Idle
  BY IdleIsAllowed
<1>4. PICK x : x = [z EXCEPT !.at = to, !.row = f, !.by = u]
  OBVIOUS
<1>5. x \in AccessRecord
  BY <1>4 DEF AccessRecord
<1>6. x.by = u /\ x.row = f
  BY <1>4 DEF AccessRecord
<1>7. x.at = to /\ x.sess = None /\ x.key = None /\ x.scopes = {} /\ x.late = FALSE
  BY <1>3, <1>4 DEF I!Idle
<1>8. flow[f] # None /\ flow[f].kind = "link"
  BY DEF I!HandleIdentityLink, I!ReadChallenge, I!Consumable
<1>9. Allowed(x)
  BY <1>1, <1>6, <1>7, <1>8 DEF Allowed, Refused, Carries, Confirms, Inherited, I!Within
<1>10. access' = [access EXCEPT ![r] = x] /\ RowsStay
  BY <1>1, <1>2, <1>3, <1>4 DEF I!HandleIdentityLink, I!Put, I!rows, I!people, RowsStay
<1>. QED  BY <1>5, <1>9, <1>10, OnlyARequest

-----------------------------------------------------------------------------
(* The statements that write rows, one table each.                          *)

LEMMA SessionIs ==
  ASSUME NEW z \in I!SessionRow, NEW b \in BOOLEAN, NEW y,
         y = [z EXCEPT !.idle = b] \/ y = [z EXCEPT !.revoked = b]
  PROVE  y \in I!SessionRow /\ (y = [z EXCEPT !.idle = b] => y.revoked = z.revoked)
                           /\ (y = [z EXCEPT !.revoked = b] => y.revoked = b)
BY DEF I!SessionRow

\* Sessions are not deleted and not brought back.
SessionsGoOn ==
  /\ UNCHANGED <<holds, role, key, link, flow>>
  /\ session' \in [Session -> I!SessionRow \cup {None}]
  /\ \A s \in Session : session[s] # None =>
       session'[s] # None /\ (session[s].revoked => session'[s].revoked)

LEMMA SessionsWritten ==
  ASSUME IdentityInv, SessionsGoOn
  PROVE  OneWay /\ Grants' /\ Links'
<1>1. OneWay
  BY DEF SessionsGoOn, OneWay
<1>2. Grants'
  BY DEF SessionsGoOn, IdentityInv, Grants
<1>3. Links'
  BY DEF SessionsGoOn, IdentityInv, Links, Proven
<1>. QED  BY <1>1, <1>2, <1>3

LEMMA SessionMoves ==
  ASSUME IdentityInv, SessionsGoOn, NEW r \in Request, NEW x \in AccessRecord,
         access' = [access EXCEPT ![r] = x], Allowed(x)
  PROVE  IdentityInv'
<1>1. OneWay /\ Grants' /\ Links'
  BY SessionsWritten
<1>2. Allowed(x)'
  BY <1>1, AllowedStays
<1>3. /\ holds' \in [User -> SUBSET Role] /\ role' \in [Role -> {None} \cup SUBSET Scope]
      /\ key' \in [ApiKey -> I!KeyRow \cup {None}]
      /\ link' \in [Subject -> User \cup {None}] /\ flow' \in [Flow -> I!FlowRow \cup {None}]
  BY DEF SessionsGoOn, IdentityInv, IdentityTypes
<1>4. session' \in [Session -> I!SessionRow \cup {None}]
  BY DEF SessionsGoOn
<1>. QED  BY <1>1, <1>2, <1>3, <1>4, RequestMoves

\* One row is written over, by another of the same user.
LEMMA OneSession ==
  ASSUME I!Constants, IdentityInv, UNCHANGED <<holds, role, key, link, flow>>,
         NEW s \in Session, session[s] # None, NEW y \in I!SessionRow,
         session[s].revoked => y.revoked, session' = [session EXCEPT ![s] = y]
  PROVE  SessionsGoOn
<1>1. session \in [Session -> I!SessionRow \cup {None}]
  BY DEF IdentityInv, IdentityTypes
<1>2. session' \in [Session -> I!SessionRow \cup {None}] /\ session'[s] = y
      /\ \A z \in Session : z # s => session'[z] = session[z]
  BY <1>1
<1>3. y # None
  BY DEF I!Constants
<1>. QED  BY <1>2, <1>3 DEF SessionsGoOn

LEMMA LapseInv ==
  ASSUME I!Constants, IdentityInv, NEW s \in Session, I!Lapse(s)
  PROVE  IdentityInv'
<1>1. PICK z \in I!SessionRow : z = session[s] /\ session[s] # None
  BY DEF I!Lapse, IdentityInv, IdentityTypes
<1>2. PICK b \in BOOLEAN : b = TRUE
  OBVIOUS
<1>3. PICK y : y = [z EXCEPT !.idle = b]
  OBVIOUS
<1>4. y \in I!SessionRow /\ y.revoked = z.revoked
  BY <1>3, SessionIs
<1>5. session' = [session EXCEPT ![s] = y]
  BY <1>1, <1>2, <1>3 DEF I!Lapse
<1>6. SessionsGoOn /\ access' = access
  BY <1>1, <1>4, <1>5, OneSession DEF I!Lapse, I!people
<1>7. OneWay /\ Grants' /\ Links'
  BY <1>6, SessionsWritten
<1>8. ASSUME NEW r \in Request PROVE Allowed(access[r])'
  <2>1. PICK q \in AccessRecord : q = access[r] /\ Allowed(q)
    BY DEF IdentityInv, IdentityTypes
  <2>2. Allowed(q)'
    BY <1>7, <2>1, AllowedStays
  <2>. QED  BY <1>6, <2>1, <2>2
<1>. QED  BY <1>6, <1>7, <1>8 DEF SessionsGoOn, IdentityInv, IdentityTypes

LEMMA TouchSessionInv ==
  ASSUME I!Constants, IdentityInv, NEW r \in Request, I!TouchSession(r)
  PROVE  IdentityInv'
<1>1. PICK q \in AccessRecord : q = access[r] /\ Allowed(q) /\ q.at = "touch"
  BY DEF I!TouchSession, IdentityInv, IdentityTypes
<1>2. PICK to \in Stages : to = "csrf"
  BY StageNames
<1>3. PICK x : x = [q EXCEPT !.at = to, !.row = None]
  OBVIOUS
<1>4. x \in AccessRecord
  BY <1>3, ZenonT(60) DEF AccessRecord
<1>5. x.at = to /\ x.sess = q.sess /\ x.key = q.key /\ x.scopes = q.scopes /\ x.late = q.late
  BY <1>3 DEF AccessRecord
<1>6. Allowed(x)
  BY <1>1, <1>2, <1>5 DEF Allowed, Refused, Carries, Confirms
<1>7. access' = [access EXCEPT ![r] = x] /\ UNCHANGED <<holds, role, key, link, flow>>
  BY <1>1, <1>2, <1>3 DEF I!TouchSession, I!Put, I!people
<1>8. CASE UNCHANGED session
  <2>1. RowsStay
    BY <1>7, <1>8 DEF RowsStay
  <2>. QED  BY <1>4, <1>6, <1>7, <2>1, OnlyARequest
<1>9. CASE session' = [session EXCEPT ![q.sess] = I!Touched(q.sess, q.row)]
  <2>1. CASE q.sess \in Session
    <3>1. PICK z \in I!SessionRow : z = session[q.sess] /\ session[q.sess] # None
      BY <1>1, <2>1, <1>1 DEF IdentityInv, IdentityTypes, Allowed, Refused, I!Constants
    <3>2. PICK b \in BOOLEAN : b = FALSE
      OBVIOUS
    <3>3. PICK y : y = [z EXCEPT !.idle = b]
      OBVIOUS
    <3>4. y \in I!SessionRow /\ y.revoked = z.revoked
      BY <3>3, SessionIs
    <3>5. session' = [session EXCEPT ![q.sess] = y]
      BY <1>9, <3>1, <3>2, <3>3 DEF I!Touched
    <3>6. SessionsGoOn
      BY <1>7, <2>1, <3>1, <3>4, <3>5, OneSession
    <3>. QED  BY <1>4, <1>6, <1>7, <3>6, SessionMoves
  <2>2. CASE q.sess \notin Session
    <3>1. session' = session
      BY <1>9, <2>2 DEF IdentityInv, IdentityTypes
    <3>2. RowsStay
      BY <1>7, <3>1 DEF RowsStay
    <3>. QED  BY <1>4, <1>6, <1>7, <3>2, OnlyARequest
  <2>. QED  BY <2>1, <2>2
<1>. QED  BY <1>1, <1>8, <1>9 DEF I!TouchSession

LEMMA RevokeSessionInv ==
  ASSUME I!Constants, IdentityInv, NEW r \in Request, I!RevokeSession(r)
  PROVE  IdentityInv'
<1>1. PICK q \in AccessRecord : q = access[r] /\ Allowed(q)
  BY DEF IdentityInv, IdentityTypes
<1>2. UNCHANGED <<holds, role, key, link, flow>> /\ I!Done(r)
  BY DEF I!RevokeSession, I!people
<1>3. access' = [access EXCEPT ![r] = I!Idle] /\ I!Idle \in AccessRecord /\ Allowed(I!Idle)
  BY <1>2, IdleIsAllowed DEF I!Done, I!Put
<1>4. CASE q.sess \in Session
  <2>1. PICK z \in I!SessionRow : z = session[q.sess] /\ session[q.sess] # None
    BY <1>1, <1>4 DEF IdentityInv, IdentityTypes, Allowed, Refused, I!Constants
  <2>2. PICK b \in BOOLEAN : b = TRUE
    OBVIOUS
  <2>3. PICK y : y = [z EXCEPT !.revoked = b]
    OBVIOUS
  <2>4. y \in I!SessionRow /\ y.revoked = b
    BY <2>3, SessionIs
  <2>5. session' = [session EXCEPT ![q.sess] = y]
    BY <1>1, <2>1, <2>2, <2>3 DEF I!RevokeSession
  <2>6. SessionsGoOn
    BY <1>2, <1>4, <2>1, <2>2, <2>4, <2>5, OneSession
  <2>. QED  BY <1>3, <2>6, SessionMoves
<1>5. CASE q.sess \notin Session
  <2>1. session' = session
    BY <1>1, <1>5 DEF I!RevokeSession, IdentityInv, IdentityTypes
  <2>2. RowsStay
    BY <1>2, <2>1 DEF RowsStay
  <2>. QED  BY <1>2, <2>2, Ended
<1>. QED  BY <1>4, <1>5

LEMMA RevokeUserSessionsInv ==
  ASSUME I!Constants, IdentityInv, NEW r \in Request, I!RevokeUserSessions(r)
  PROVE  IdentityInv'
<1>1. UNCHANGED <<holds, role, key, link, flow>> /\ I!Done(r)
  BY DEF I!RevokeUserSessions, I!people
<1>2. access' = [access EXCEPT ![r] = I!Idle] /\ I!Idle \in AccessRecord /\ Allowed(I!Idle)
  BY <1>1, IdleIsAllowed DEF I!Done, I!Put
<1>3. PICK b \in BOOLEAN : b = TRUE
  OBVIOUS
<1>4. ASSUME NEW s \in Session
      PROVE  /\ session'[s] \in I!SessionRow \cup {None}
             /\ session[s] # None =>
                  session'[s] # None /\ (session[s].revoked => session'[s].revoked)
  <2>1. CASE session[s] # None /\ session[s].user = access[r].tgt
    <3>1. PICK z \in I!SessionRow : z = session[s]
      BY <2>1 DEF IdentityInv, IdentityTypes
    <3>2. PICK y : y = [z EXCEPT !.revoked = b]
      OBVIOUS
    <3>3. y \in I!SessionRow /\ y.revoked = b
      BY <3>2, SessionIs
    <3>4. session'[s] = y
      BY <1>3, <2>1, <3>1, <3>2 DEF I!RevokeUserSessions
    <3>. QED  BY <1>3, <3>3, <3>4 DEF I!Constants
  <2>2. CASE ~(session[s] # None /\ session[s].user = access[r].tgt)
    <3>1. session'[s] = session[s]
      BY <2>2 DEF I!RevokeUserSessions
    <3>. QED  BY <3>1 DEF IdentityInv, IdentityTypes
  <2>. QED  BY <2>1, <2>2
<1>5. session' = [s \in Session |-> session'[s]]
  BY DEF I!RevokeUserSessions
<1>6. session' \in [Session -> I!SessionRow \cup {None}]
  BY <1>4, <1>5
<1>7. SessionsGoOn
  BY <1>1, <1>4, <1>6 DEF SessionsGoOn
<1>. QED  BY <1>2, <1>7, SessionMoves

LEMMA IssueSessionInv ==
  ASSUME I!Constants, IdentityInv, NEW r \in Request, NEW s \in Session, I!IssueSession(r, s)
  PROVE  IdentityInv'
<1>1. UNCHANGED <<holds, role, key, link, flow>> /\ I!Done(r)
  BY DEF I!IssueSession, I!people
<1>2. access' = [access EXCEPT ![r] = I!Idle] /\ I!Idle \in AccessRecord /\ Allowed(I!Idle)
  BY <1>1, IdleIsAllowed DEF I!Done, I!Put
<1>3. PICK u \in User : u = access[r].by
  BY DEF I!IssueSession, IdentityInv, Allowed, Carries
<1>4. PICK y : y = [user |-> u, revoked |-> FALSE, idle |-> FALSE]
  OBVIOUS
<1>5. y \in I!SessionRow
  BY <1>4 DEF I!SessionRow
<1>6. session[s] = None /\ session' = [session EXCEPT ![s] = y]
  BY <1>3, <1>4 DEF I!IssueSession
<1>7. session' \in [Session -> I!SessionRow \cup {None}]
      /\ \A z \in Session : z # s => session'[z] = session[z]
  BY <1>5, <1>6 DEF IdentityInv, IdentityTypes
<1>8. SessionsGoOn
  BY <1>1, <1>6, <1>7 DEF SessionsGoOn
<1>. QED  BY <1>2, <1>8, SessionMoves

-----------------------------------------------------------------------------
LEMMA AssignmentInv ==
  ASSUME I!Constants, IdentityInv, NEW r \in Request, I!AssignRole(r) \/ I!UnassignRole(r)
  PROVE  IdentityInv'
<1>1. UNCHANGED <<role, key, session, link, flow>> /\ I!Done(r)
  BY DEF I!AssignRole, I!UnassignRole
<1>2. access' = [access EXCEPT ![r] = I!Idle] /\ I!Idle \in AccessRecord /\ Allowed(I!Idle)
  BY <1>1, IdleIsAllowed DEF I!Done, I!Put
<1>3. holds' \in [User -> SUBSET Role]
  <2>1. CASE I!AssignRole(r)
    <3>1. access[r].role \in Role
      BY <2>1 DEF I!AssignRole, IdentityInv, Allowed, Carries
    <3>. QED  BY <2>1, <3>1 DEF I!AssignRole, IdentityInv, IdentityTypes
  <2>2. CASE I!UnassignRole(r)
    BY <2>2 DEF I!UnassignRole, IdentityInv, IdentityTypes
  <2>. QED  BY <2>1, <2>2
<1>4. OneWay /\ Grants' /\ Links'
  BY <1>1 DEF OneWay, IdentityInv, Grants, Links, Proven
<1>5. Allowed(I!Idle)'
  BY <1>2, <1>4, AllowedStays
<1>6. /\ role' \in [Role -> {None} \cup SUBSET Scope]
      /\ key' \in [ApiKey -> I!KeyRow \cup {None}]
      /\ session' \in [Session -> I!SessionRow \cup {None}]
      /\ link' \in [Subject -> User \cup {None}] /\ flow' \in [Flow -> I!FlowRow \cup {None}]
  BY <1>1 DEF IdentityInv, IdentityTypes
<1>. QED  BY <1>2, <1>3, <1>4, <1>5, <1>6, RequestMoves

LEMMA CreateRoleInv ==
  ASSUME I!Constants, IdentityInv, NEW r \in Request, NEW ro \in Role, NEW g \in Grant,
         I!CreateRole(r, ro, g)
  PROVE  IdentityInv'
<1>1. UNCHANGED <<holds, key, session, link, flow>> /\ I!Done(r)
  BY DEF I!CreateRole
<1>2. access' = [access EXCEPT ![r] = I!Idle] /\ I!Idle \in AccessRecord /\ Allowed(I!Idle)
  BY <1>1, IdleIsAllowed DEF I!Done, I!Put
<1>3. g \in SUBSET Scope /\ Inherited(g)
  <2>1. PICK q \in AccessRecord : q = access[r] /\ Inherited(q.scopes)
    BY DEF IdentityInv, IdentityTypes, Allowed, Carries
  <2>. QED  BY <2>1, Inherits DEF I!CreateRole, I!Constants
<1>4. role' = [role EXCEPT ![ro] = g]
  BY DEF I!CreateRole
<1>5. role' \in [Role -> {None} \cup SUBSET Scope] /\ role'[ro] = g
      /\ \A x \in Role : x # ro => role'[x] = role[x]
  BY <1>3, <1>4 DEF IdentityInv, IdentityTypes
<1>6. OneWay /\ Links'
  BY <1>1 DEF OneWay, IdentityInv, Links, Proven
<1>7. Grants'
  BY <1>1, <1>3, <1>5 DEF IdentityInv, Grants
<1>8. Allowed(I!Idle)'
  BY <1>2, <1>6, AllowedStays
<1>9. /\ holds' \in [User -> SUBSET Role] /\ key' \in [ApiKey -> I!KeyRow \cup {None}]
      /\ session' \in [Session -> I!SessionRow \cup {None}]
      /\ link' \in [Subject -> User \cup {None}] /\ flow' \in [Flow -> I!FlowRow \cup {None}]
  BY <1>1 DEF IdentityInv, IdentityTypes
<1>10. role' \in [Role -> {None} \cup SUBSET Scope]
  BY <1>5
<1>. QED  BY <1>2, <1>6, <1>7, <1>8, <1>9, <1>10, RequestMoves

\* A key's row is written, first or over another: nothing is granted that was not, and a
\* replaced secret does not come back.
LEMMA KeyMoves ==
  ASSUME I!Constants, IdentityInv, UNCHANGED <<holds, role, session, link, flow>>,
         NEW k \in ApiKey, NEW y \in I!KeyRow, Inherited(y.scopes),
         key[k] # None => (key[k].secret = "second" => y.secret = "second"),
         key' = [key EXCEPT ![k] = y],
         NEW r \in Request, NEW x \in AccessRecord, access' = [access EXCEPT ![r] = x], Allowed(x)
  PROVE  IdentityInv'
<1>1. y # None
  BY DEF I!Constants
<1>2. key' \in [ApiKey -> I!KeyRow \cup {None}] /\ key'[k] = y
      /\ \A z \in ApiKey : z # k => key'[z] = key[z]
  BY DEF IdentityInv, IdentityTypes
<1>3. OneWay
  BY <1>1, <1>2 DEF OneWay
<1>4. Links'
  BY DEF IdentityInv, Links, Proven
<1>5. Grants'
  <2>1. ASSUME NEW z \in ApiKey, key'[z] # None PROVE Inherited(key'[z].scopes)
    <3>1. PICK w \in I!KeyRow : w = key'[z] /\ Inherited(w.scopes)
      BY <1>2, <2>1 DEF IdentityInv, IdentityTypes, Grants
    <3>. QED  BY <3>1
  <2>. QED  BY <2>1 DEF IdentityInv, Grants
<1>6. Allowed(x)'
  BY <1>3, AllowedStays
<1>7. /\ holds' \in [User -> SUBSET Role] /\ role' \in [Role -> {None} \cup SUBSET Scope]
      /\ session' \in [Session -> I!SessionRow \cup {None}]
      /\ link' \in [Subject -> User \cup {None}] /\ flow' \in [Flow -> I!FlowRow \cup {None}]
  BY DEF IdentityInv, IdentityTypes
<1>8. key' \in [ApiKey -> I!KeyRow \cup {None}]
  BY <1>2
<1>. QED  BY <1>3, <1>4, <1>5, <1>6, <1>7, <1>8, RequestMoves

LEMMA CreateAPIKeyInv ==
  ASSUME I!Constants, IdentityInv, NEW r \in Request, NEW k \in ApiKey,
         NEW o \in User \cup Account, NEW g \in Grant, I!CreateAPIKey(r, k, o, g)
  PROVE  IdentityInv'
<1>1. UNCHANGED <<holds, role, session, link, flow>> /\ I!Done(r) /\ key[k] = None
  BY DEF I!CreateAPIKey, I!people
<1>2. access' = [access EXCEPT ![r] = I!Idle] /\ I!Idle \in AccessRecord /\ Allowed(I!Idle)
  BY <1>1, IdleIsAllowed DEF I!Done, I!Put
<1>3. g \in SUBSET Scope /\ Inherited(g)
  <2>1. PICK q \in AccessRecord : q = access[r] /\ Inherited(q.scopes)
    BY DEF IdentityInv, IdentityTypes, Allowed, Carries
  <2>. QED  BY <2>1, Inherits DEF I!CreateAPIKey, I!KeyWithin, I!Constants
<1>4. PICK y : y = I!NewKey(o, g)
  OBVIOUS
<1>5. y \in I!KeyRow /\ y.scopes = g
  BY <1>3, <1>4 DEF I!NewKey, I!KeyRow
<1>6. key' = [key EXCEPT ![k] = y]
  BY <1>4 DEF I!CreateAPIKey
<1>. QED  BY <1>1, <1>2, <1>3, <1>5, <1>6, KeyMoves

LEMMA RevokeAPIKeyInv ==
  ASSUME I!Constants, IdentityInv, NEW r \in Request, I!RevokeAPIKey(r)
  PROVE  IdentityInv'
<1>1. UNCHANGED <<holds, role, session, link, flow>> /\ I!Done(r)
  BY DEF I!RevokeAPIKey, I!people
<1>2. access' = [access EXCEPT ![r] = I!Idle] /\ I!Idle \in AccessRecord /\ Allowed(I!Idle)
  BY <1>1, IdleIsAllowed DEF I!Done, I!Put
<1>3. PICK q \in AccessRecord : q = access[r] /\ Allowed(q)
  BY DEF IdentityInv, IdentityTypes
<1>4. CASE q.key \in ApiKey
  <2>1. PICK z \in I!KeyRow : z = key[q.key] /\ Inherited(z.scopes)
    BY <1>3, <1>4 DEF IdentityInv, IdentityTypes, Grants, Allowed, Refused, I!Constants
  <2>2. PICK b \in BOOLEAN : b = FALSE
    OBVIOUS
  <2>3. PICK y : y = [z EXCEPT !.live = b]
    OBVIOUS
  <2>4. y \in I!KeyRow /\ y.scopes = z.scopes /\ y.secret = z.secret
    BY <2>3, KeyIs
  <2>5. key' = [key EXCEPT ![q.key] = y]
    BY <1>3, <2>1, <2>2, <2>3 DEF I!RevokeAPIKey
  <2>. QED  BY <1>1, <1>2, <1>4, <2>1, <2>4, <2>5, KeyMoves
<1>5. CASE q.key \notin ApiKey
  <2>1. key' = key
    BY <1>3, <1>5 DEF I!RevokeAPIKey, IdentityInv, IdentityTypes
  <2>. QED  BY <1>1, <2>1, Ended DEF RowsStay
<1>. QED  BY <1>4, <1>5

LEMMA UpdateAPIKeyInv ==
  ASSUME I!Constants, IdentityInv, NEW r \in Request, I!UpdateAPIKey(r)
  PROVE  IdentityInv'
<1>1. UNCHANGED <<holds, role, session, link, flow>> /\ I!Done(r)
  BY DEF I!UpdateAPIKey, I!people
<1>2. access' = [access EXCEPT ![r] = I!Idle] /\ I!Idle \in AccessRecord /\ Allowed(I!Idle)
  BY <1>1, IdleIsAllowed DEF I!Done, I!Put
<1>3. PICK q \in AccessRecord : q = access[r] /\ Allowed(q) /\ q.at = "writeKey"
  BY DEF I!UpdateAPIKey, IdentityInv, IdentityTypes
<1>4. PICK w \in I!KeyRow : w = q.row /\ Inherited(w.scopes)
  BY <1>3 DEF Allowed, Carries
<1>5. PICK g \in SUBSET Scope : g = w.scopes /\ Inherited(g)
  BY <1>4, RowFields
<1>6. PICK b \in BOOLEAN : b = w.live
  BY DEF I!KeyRow
<1>7. CASE q.key \in ApiKey
  <2>1. PICK z \in I!KeyRow : z = key[q.key]
    BY <1>3, <1>7 DEF IdentityInv, IdentityTypes, Allowed, Refused, I!Constants
  <2>2. PICK y : y = [z EXCEPT !.scopes = g, !.live = b]
    OBVIOUS
  <2>3. y \in I!KeyRow /\ y.scopes = g /\ y.secret = z.secret
    BY <2>2 DEF I!KeyRow
  <2>4. key' = [key EXCEPT ![q.key] = y]
    BY <1>3, <1>4, <1>5, <1>6, <1>7, <2>1, <2>2
       DEF I!UpdateAPIKey, IdentityInv, IdentityTypes
  <2>. QED  BY <1>1, <1>2, <1>5, <1>7, <2>1, <2>3, <2>4, KeyMoves
<1>8. CASE q.key \notin ApiKey
  <2>1. key' = key
    BY <1>3, <1>8 DEF I!UpdateAPIKey, IdentityInv, IdentityTypes
  <2>. QED  BY <1>1, <2>1, Ended DEF RowsStay
<1>. QED  BY <1>7, <1>8

LEMMA SetAPIKeySecretInv ==
  ASSUME I!Constants, IdentityInv, NEW r \in Request, I!SetAPIKeySecret(r)
  PROVE  IdentityInv'
<1>1. UNCHANGED <<holds, role, session, link, flow>>
  BY DEF I!SetAPIKeySecret, I!people
<1>2. PICK q \in AccessRecord : q = access[r] /\ Allowed(q) /\ q.at = "secret"
  BY DEF I!SetAPIKeySecret, IdentityInv, IdentityTypes
<1>3. PICK w \in I!KeyRow : w = q.row /\ Inherited(w.scopes)
  BY <1>2 DEF Allowed, Carries
<1>4. PICK x \in AccessRecord : access' = [access EXCEPT ![r] = x] /\ Allowed(x)
  <2>1. CASE w.live
    <3>1. I!Done(r)
      BY <1>2, <1>3, <2>1 DEF I!SetAPIKeySecret
    <3>2. access' = [access EXCEPT ![r] = I!Idle]
      BY <3>1 DEF I!Done, I!Put
    <3>. QED  BY <3>2, IdleIsAllowed
  <2>2. CASE ~w.live
    <3>1. PICK b \in BOOLEAN : b = TRUE
      OBVIOUS
    <3>2. PICK y : y = [w EXCEPT !.live = b]
      OBVIOUS
    <3>3. y \in I!KeyRow /\ y.scopes = w.scopes
      BY <3>2, KeyIs
    <3>4. PICK to \in Stages : to = "writeKey"
      BY StageNames
    <3>5. PICK v : v = [q EXCEPT !.at = to, !.do = to, !.row = y]
      OBVIOUS
    <3>6. v \in AccessRecord
      <4>1. PICK z \in I!KeyRow \cup I!SessionRow \cup Subject \cup Flow \cup {None} : z = y
        BY <3>3
      <4>2. v = [q EXCEPT !.at = to, !.do = to, !.row = z]
        BY <3>5, <4>1
      <4>. QED  BY <4>2, ZenonT(60) DEF AccessRecord
    <3>7. /\ v.at = to /\ v.sess = q.sess /\ v.key = q.key /\ v.scopes = q.scopes /\ v.row = y
          /\ v.late = q.late
      BY <3>5 DEF AccessRecord
    <3>8. Allowed(v)
      BY <1>2, <1>3, <3>3, <3>4, <3>7 DEF Allowed, Refused, Carries, Confirms
    <3>9. [q EXCEPT !.at = "writeKey", !.do = "writeKey", !.row.live = TRUE] = v
      BY <1>3, <3>1, <3>2, <3>4, <3>5 DEF AccessRecord
    <3>10. access' = [access EXCEPT ![r] = v]
      BY <1>2, <1>3, <2>2, <3>9 DEF I!SetAPIKeySecret, I!Put
    <3>. QED  BY <3>6, <3>8, <3>10
  <2>. QED  BY <2>1, <2>2
<1>5. CASE q.key \in ApiKey
  <2>1. PICK z \in I!KeyRow : z = key[q.key] /\ Inherited(z.scopes)
    BY <1>2, <1>5 DEF IdentityInv, IdentityTypes, Grants, Allowed, Refused, I!Constants
  <2>2. PICK y : y = [z EXCEPT !.secret = "second"]
    OBVIOUS
  <2>3. y \in I!KeyRow /\ y.scopes = z.scopes /\ y.secret = "second"
    BY <2>2 DEF I!KeyRow
  <2>4. key' = [key EXCEPT ![q.key] = y]
    BY <1>2, <2>1, <2>2 DEF I!SetAPIKeySecret
  <2>. QED  BY <1>1, <1>4, <1>5, <2>1, <2>3, <2>4, KeyMoves
<1>6. CASE q.key \notin ApiKey
  <2>1. key' = key
    BY <1>2, <1>6 DEF I!SetAPIKeySecret, IdentityInv, IdentityTypes
  <2>2. RowsStay
    BY <1>1, <2>1 DEF RowsStay
  <2>. QED  BY <1>4, <2>2, OnlyARequest
<1>. QED  BY <1>5, <1>6

-----------------------------------------------------------------------------
\* A flow's row is written: a new one, or one not consumed yet.
LEMMA FlowMoves ==
  ASSUME I!Constants, IdentityInv, UNCHANGED <<holds, role, key, session, link>>,
         NEW f \in Flow, NEW y \in I!FlowRow, flow' = [flow EXCEPT ![f] = y],
         flow[f] # None => /\ ~flow[f].used /\ y.kind = flow[f].kind
                           /\ y.subject = flow[f].subject /\ y.candidate = flow[f].candidate
  PROVE  /\ OneWay /\ Grants' /\ Links' /\ flow' \in [Flow -> I!FlowRow \cup {None}]
         /\ \A r \in Request, x \in AccessRecord :
              access' = [access EXCEPT ![r] = x] /\ Allowed(x)' => IdentityInv'
<1>1. y # None
  BY DEF I!Constants
<1>2. flow' \in [Flow -> I!FlowRow \cup {None}] /\ flow'[f] = y
      /\ \A z \in Flow : z # f => flow'[z] = flow[z]
  BY DEF IdentityInv, IdentityTypes
<1>3. OneWay
  BY <1>1, <1>2 DEF OneWay
<1>4. Grants'
  BY DEF IdentityInv, Grants
<1>5. Links'
  <2>1. ASSUME NEW x \in Subject, link'[x] # None
        PROVE  \E g \in Flow : Proven(g, x, link[x])'
    <3>1. PICK u : u = link[x] /\ link'[x] = u
      OBVIOUS
    <3>2. PICK g \in Flow : Proven(g, x, u)
      BY <2>1, <3>1 DEF IdentityInv, Links
    <3>3. Proven(g, x, u)'
      BY <1>3, <3>2, ProvenStays
    <3>. QED  BY <3>1, <3>3 DEF Proven
  <2>. QED  BY <2>1 DEF Links
<1>6. /\ holds' \in [User -> SUBSET Role] /\ role' \in [Role -> {None} \cup SUBSET Scope]
      /\ key' \in [ApiKey -> I!KeyRow \cup {None}]
      /\ session' \in [Session -> I!SessionRow \cup {None}]
      /\ link' \in [Subject -> User \cup {None}]
  BY DEF IdentityInv, IdentityTypes
<1>7. ASSUME NEW r \in Request, NEW x \in AccessRecord, access' = [access EXCEPT ![r] = x],
             Allowed(x)'
      PROVE  IdentityInv'
  BY <1>2, <1>3, <1>4, <1>5, <1>6, <1>7, RequestMoves
<1>. QED  BY <1>2, <1>3, <1>4, <1>5, <1>7

LEMMA NewFlowIs ==
  ASSUME NEW kind \in {"flow", "link"}, NEW x \in Subject \cup {None},
         NEW u \in User \cup {None}
  PROVE  I!NewFlow(kind, x, u) \in I!FlowRow
BY DEF I!NewFlow, I!FlowRow

LEMMA BeginFlowInv ==
  ASSUME I!Constants, IdentityInv, NEW r \in Request, NEW f \in Flow, I!BeginFlow(r, f)
  PROVE  IdentityInv'
<1>1. UNCHANGED <<holds, role, key, session, link>> /\ flow[f] = None
      /\ access' = [access EXCEPT ![r] = I!Idle]
  BY DEF I!BeginFlow, I!Begin, I!people
<1>2. PICK y \in I!FlowRow : y = I!NewFlow("flow", None, None)
  BY NewFlowIs
<1>3. flow' = [flow EXCEPT ![f] = y]
  BY <1>2 DEF I!BeginFlow
<1>4. /\ OneWay
      /\ \A s \in Request, x \in AccessRecord :
           access' = [access EXCEPT ![s] = x] /\ Allowed(x)' => IdentityInv'
  BY <1>1, <1>3, FlowMoves
<1>5. PICK x \in AccessRecord : x = I!Idle /\ Allowed(x)
  BY IdleIsAllowed
<1>6. Allowed(x)'
  BY <1>4, <1>5, AllowedStays
<1>. QED  BY <1>1, <1>4, <1>5, <1>6

LEMMA NewLinkChallengeInv ==
  ASSUME I!Constants, IdentityInv, NEW r \in Request, NEW f \in Flow, I!NewLinkChallenge(r, f)
  PROVE  IdentityInv'
<1>1. UNCHANGED <<holds, role, key, session, link>> /\ flow[f] = None
      /\ access' = [access EXCEPT ![r] = I!Idle]
  BY DEF I!NewLinkChallenge, I!Done, I!Put, I!people
<1>2. access[r].row \in Subject /\ access[r].by \in User \cup {None}
  BY DEF I!NewLinkChallenge, IdentityInv, Allowed, Carries
<1>3. PICK y \in I!FlowRow : y = I!NewFlow("link", access[r].row, access[r].by)
  BY <1>2, NewFlowIs
<1>4. flow' = [flow EXCEPT ![f] = y]
  BY <1>3 DEF I!NewLinkChallenge
<1>5. /\ OneWay
      /\ \A s \in Request, x \in AccessRecord :
           access' = [access EXCEPT ![s] = x] /\ Allowed(x)' => IdentityInv'
  BY <1>1, <1>4, FlowMoves
<1>6. PICK x \in AccessRecord : x = I!Idle /\ Allowed(x)
  BY IdleIsAllowed
<1>7. Allowed(x)'
  BY <1>5, <1>6, AllowedStays
<1>. QED  BY <1>1, <1>5, <1>6, <1>7

LEMMA CompleteFlowInv ==
  ASSUME I!Constants, IdentityInv, NEW r \in Request, NEW f \in Flow, NEW x \in Subject,
         I!CompleteFlow(r, f, x)
  PROVE  IdentityInv'
<1>1. UNCHANGED <<holds, role, key, session, link>> /\ flow[f] # None /\ ~flow[f].used
  BY DEF I!CompleteFlow, I!Consumable, I!people
<1>2. PICK z \in I!FlowRow : z = flow[f]
  BY <1>1 DEF IdentityInv, IdentityTypes
<1>3. PICK y : y = [z EXCEPT !.used = TRUE, !.by = None]
  OBVIOUS
<1>4. y \in I!FlowRow /\ y.kind = z.kind /\ y.subject = z.subject /\ y.candidate = z.candidate
  <2>1. PICK b \in BOOLEAN : b = TRUE
    OBVIOUS
  <2>2. y = [z EXCEPT !.used = b, !.by = None]
    BY <1>3, <2>1
  <2>. QED  BY <2>2 DEF I!FlowRow
<1>5. flow' = [flow EXCEPT ![f] = y]
  BY <1>2, <1>3 DEF I!CompleteFlow, I!Consumed, IdentityInv, IdentityTypes
<1>6. /\ OneWay
      /\ \A s \in Request, v \in AccessRecord :
           access' = [access EXCEPT ![s] = v] /\ Allowed(v)' => IdentityInv'
  BY <1>1, <1>2, <1>4, <1>5, FlowMoves
<1>7. PICK v \in AccessRecord : access' = [access EXCEPT ![r] = v] /\ Allowed(v)
  <2>1. CASE flow[f].kind = "flow"
    <3>1. PICK to \in Stages : to = "resolve"
      BY StageNames
    <3>2. PICK q \in AccessRecord : q = I!Idle
      BY IdleIsAllowed
    <3>3. PICK v : v = [q EXCEPT !.at = to, !.row = x]
      OBVIOUS
    <3>4. v \in AccessRecord
      BY <3>3, ZenonT(60) DEF AccessRecord
    <3>5. v.row = x
      BY <3>3 DEF AccessRecord
    <3>6. v.at = to /\ v.sess = None /\ v.key = None /\ v.scopes = {} /\ v.late = FALSE
      BY <3>2, <3>3 DEF I!Idle
    <3>7. Allowed(v)
      BY <3>1, <3>5, <3>6 DEF Allowed, Refused, Carries, Confirms, Inherited, I!Within
    <3>8. access' = [access EXCEPT ![r] = v]
      BY <2>1, <3>1, <3>2, <3>3 DEF I!CompleteFlow, I!Begin
    <3>. QED  BY <3>4, <3>7, <3>8
  <2>2. CASE flow[f].kind # "flow"
    <3>1. access' = [access EXCEPT ![r] = I!Idle]
      BY <2>2 DEF I!CompleteFlow, I!Begin
    <3>. QED  BY <3>1, IdleIsAllowed
  <2>. QED  BY <2>1, <2>2
<1>8. Allowed(v)'
  BY <1>6, <1>7, AllowedStays
<1>. QED  BY <1>6, <1>7, <1>8

LEMMA ConsumeChallengeInv ==
  ASSUME I!Constants, IdentityInv, NEW r \in Request, I!ConsumeChallenge(r)
  PROVE  IdentityInv'
<1>1. PICK q \in AccessRecord : q = access[r] /\ Allowed(q) /\ q.at = "consume"
  BY DEF I!ConsumeChallenge, IdentityInv, IdentityTypes
<1>2. PICK f \in Flow : f = q.row
  BY <1>1 DEF Allowed, Confirms
<1>3. PICK u \in User : u = q.by
  BY <1>1 DEF Allowed, Carries
<1>4. /\ flow[f] # None /\ ~flow[f].used /\ flow[f].kind = "link"
      /\ flow[f].candidate \in {None, u}
  BY <1>1, <1>2, <1>3 DEF I!ConsumeChallenge, I!Consumable, Allowed, Confirms
<1>5. PICK z \in I!FlowRow : z = flow[f]
  BY <1>4 DEF IdentityInv, IdentityTypes
<1>6. PICK y : y = [z EXCEPT !.used = TRUE, !.by = u]
  OBVIOUS
<1>7. /\ y \in I!FlowRow /\ y.kind = z.kind /\ y.subject = z.subject /\ y.candidate = z.candidate
      /\ y.by = u /\ y.used
  <2>1. PICK b \in BOOLEAN : b = TRUE
    OBVIOUS
  <2>2. y = [z EXCEPT !.used = b, !.by = u]
    BY <1>6, <2>1
  <2>3. /\ y \in I!FlowRow /\ y.kind = z.kind /\ y.subject = z.subject
        /\ y.candidate = z.candidate /\ y.by = u /\ y.used = b
    BY <2>2 DEF I!FlowRow
  <2>. QED  BY <2>1, <2>3
<1>8. flow' = [flow EXCEPT ![f] = y] /\ UNCHANGED <<holds, role, key, session, link>>
  BY <1>1, <1>2, <1>3, <1>5, <1>6
     DEF I!ConsumeChallenge, I!Consumed, I!people, IdentityInv, IdentityTypes
<1>9. /\ OneWay /\ flow' \in [Flow -> I!FlowRow \cup {None}]
      /\ \A s \in Request, v \in AccessRecord :
           access' = [access EXCEPT ![s] = v] /\ Allowed(v)' => IdentityInv'
  BY <1>4, <1>5, <1>7, <1>8, FlowMoves
<1>10. flow'[f] = y /\ y # None
  BY <1>7, <1>8 DEF I!Constants, IdentityInv, IdentityTypes
<1>11. PICK x : x = [q EXCEPT !.at = "record"]
  OBVIOUS
<1>12. x \in AccessRecord
  <2>1. PICK to \in Stages : to = "record"
    BY StageNames
  <2>. QED  BY <1>11, <2>1, ZenonT(60) DEF AccessRecord
<1>13. /\ x.at = "record" /\ x.sess = q.sess /\ x.key = q.key /\ x.by = q.by
       /\ x.scopes = q.scopes /\ x.row = q.row /\ x.late = q.late
  BY <1>11 DEF AccessRecord
<1>14. Allowed(q)'
  BY <1>1, <1>9, AllowedStays
<1>15. Refused(x)' /\ Carries(x)'
  BY <1>1, <1>13, <1>14 DEF Allowed, Refused, Carries
<1>16. Confirms(x)'
  BY <1>2, <1>3, <1>4, <1>5, <1>7, <1>10, <1>13 DEF Confirms, Proven
<1>17. access' = [access EXCEPT ![r] = x]
  BY <1>1, <1>11 DEF I!ConsumeChallenge, I!Move, I!Put
<1>. QED  BY <1>9, <1>12, <1>15, <1>16, <1>17 DEF Allowed

\* The subject of the challenge is bound to who proved himself.
LEMMA RecordAuthIdentityInv ==
  ASSUME I!Constants, IdentityInv, NEW r \in Request, I!RecordAuthIdentity(r)
  PROVE  IdentityInv'
<1>1. UNCHANGED <<holds, role, key, session, flow>>
  BY DEF I!RecordAuthIdentity, I!people
<1>2. PICK q \in AccessRecord : q = access[r] /\ Allowed(q) /\ q.at = "record"
  BY DEF I!RecordAuthIdentity, IdentityInv, IdentityTypes
<1>3. PICK f \in Flow : f = q.row /\ Proven(f, flow[f].subject, q.by)
  BY <1>2 DEF Allowed, Confirms
<1>4. PICK u \in User : u = q.by
  BY <1>2 DEF Allowed, Carries
<1>5. PICK x : x = flow[f].subject
  OBVIOUS
<1>6. Proven(f, x, u) /\ link[x] = None /\ link' = [link EXCEPT ![x] = u]
  BY <1>2, <1>3, <1>4, <1>5 DEF I!RecordAuthIdentity
<1>7. PICK v \in AccessRecord : access' = [access EXCEPT ![r] = v] /\ Allowed(v)
  <2>1. CASE q.do = "issue"
    <3>1. PICK to \in Stages : to = "issue"
      BY StageNames
    <3>2. PICK v : v = [I!Idle EXCEPT !.at = to, !.by = u]
      OBVIOUS
    <3>3. v \in AccessRecord /\ Allowed(v)
      BY <3>1, <3>2, OnUser
    <3>4. access' = [access EXCEPT ![r] = v]
      BY <1>2, <1>4, <2>1, <3>1, <3>2 DEF I!RecordAuthIdentity, I!Put
    <3>. QED  BY <3>3, <3>4
  <2>2. CASE q.do # "issue"
    <3>1. access' = [access EXCEPT ![r] = I!Idle]
      BY <1>2, <2>2 DEF I!RecordAuthIdentity, I!Put
    <3>. QED  BY <3>1, IdleIsAllowed
  <2>. QED  BY <2>1, <2>2
<1>8. OneWay /\ Grants'
  BY <1>1 DEF OneWay, IdentityInv, Grants
<1>9. Links'
  <2>1. ASSUME NEW y \in Subject, link'[y] # None
        PROVE  \E g \in Flow : Proven(g, y, link[y])'
    <3>1. PICK w : w = link'[y]
      OBVIOUS
    <3>2. PICK g \in Flow : Proven(g, y, w)
      <4>1. CASE y = x
        BY <1>6, <2>1, <3>1, <4>1 DEF IdentityInv, IdentityTypes
      <4>2. CASE y # x
        BY <1>6, <2>1, <3>1, <4>2 DEF IdentityInv, IdentityTypes, Links
      <4>. QED  BY <4>1, <4>2
    <3>3. Proven(g, y, w)'
      BY <1>8, <3>2, ProvenStays
    <3>. QED  BY <3>1, <3>3 DEF Proven
  <2>. QED  BY <2>1 DEF Links
<1>10. Allowed(v)'
  BY <1>7, <1>8, AllowedStays
<1>11. /\ holds' \in [User -> SUBSET Role] /\ role' \in [Role -> {None} \cup SUBSET Scope]
       /\ key' \in [ApiKey -> I!KeyRow \cup {None}]
       /\ session' \in [Session -> I!SessionRow \cup {None}]
       /\ flow' \in [Flow -> I!FlowRow \cup {None}]
  BY <1>1 DEF IdentityInv, IdentityTypes
<1>12. link' \in [Subject -> User \cup {None}]
  BY <1>6 DEF IdentityInv, IdentityTypes
<1>. QED  BY <1>7, <1>8, <1>9, <1>10, <1>11, <1>12, RequestMoves

-----------------------------------------------------------------------------
LEMMA InitIdentityInv == I!Constants /\ I!Init => IdentityInv
<1>1. SUFFICES ASSUME I!Constants, I!Init PROVE IdentityInv
  OBVIOUS
<1>2. I!Idle \in AccessRecord /\ Allowed(I!Idle)
  BY <1>1, IdleIsAllowed
<1>3. access \in [Request -> AccessRecord]
  BY <1>1, <1>2 DEF I!Init
<1>4. \A r \in Request : Allowed(access[r])
  BY <1>1, <1>2 DEF I!Init
<1>5. IdentityTypes
  BY <1>1, <1>3 DEF I!Init, I!Constants, I!Rows, IdentityTypes
<1>6. Links
  BY <1>1 DEF I!Init, Links
<1>7. Grants
  BY <1>1 DEF I!Init, Grants, Inherited, I!Within, I!HasScope, I!Original
<1>. QED  BY <1>4, <1>5, <1>6, <1>7 DEF IdentityInv

LEMMA StepIdentityInv ==
  ASSUME I!Constants, IdentityInv, I!Next PROVE IdentityInv'
<1>1. ASSUME NEW r \in Request, I!Step(r) PROVE IdentityInv'
  <2>1. CASE I!EndRequest(r)
    BY <2>1, Ended DEF I!EndRequest, I!rows, I!people, RowsStay
  <2>2. CASE \/ I!AuthenticateSession(r) \/ I!Authenticate(r)
             \/ I!SessionUser(r) \/ I!PrincipalFromKey(r) \/ I!PrincipalForUser(r)
             \/ I!TouchSession(r) \/ I!ValidateCSRF(r)
    BY <2>2, AuthenticateSessionInv, AuthenticateInv, SessionUserInv, PrincipalFromKeyInv,
       PrincipalForUserInv, TouchSessionInv, ValidateCSRFInv
  <2>3. CASE \/ I!CountUsers(r) \/ I!CountKeys(r)
             \/ I!AssignRole(r) \/ I!UnassignRole(r)
             \/ I!UserIsAdmin(r) \/ I!UpdateUserStatus(r) \/ I!RevokeUserSessions(r)
    BY <2>3, CountUsersInv, CountKeysInv, AssignmentInv, UserIsAdminInv, UpdateUserStatusInv,
       RevokeUserSessionsInv
  <2>4. CASE I!UpdateServiceAccountStatus(r)
    BY <2>4, Ended DEF I!UpdateServiceAccountStatus, RowsStay
  <2>5. CASE \/ I!ListAccountKeys(r)
             \/ I!RevokeAPIKey(r) \/ I!SetAPIKeySecret(r) \/ I!UpdateAPIKey(r)
             \/ I!Logout(r) \/ I!RevokeSession(r)
    BY <2>5, ListAccountKeysInv, RevokeAPIKeyInv, SetAPIKeySecretInv, UpdateAPIKeyInv, LogoutInv,
       RevokeSessionInv
  <2>6. CASE \/ I!ResolveIdentity(r) \/ I!LinkedUser(r) \/ I!FindCandidate(r)
             \/ I!ProvePassword(r) \/ I!ConsumeChallenge(r) \/ I!RecordAuthIdentity(r)
    BY <2>6, ResolveIdentityInv, LinkedUserInv, FindCandidateInv, ProvePasswordInv,
       ConsumeChallengeInv, RecordAuthIdentityInv
  <2>. QED  BY <1>1, <2>1, <2>2, <2>3, <2>4, <2>5, <2>6 DEF I!Step
<1>2. ASSUME NEW r \in Request, I!Handle(r) PROVE IdentityInv'
  <2>1. CASE \E u \in User, ro \in Role \cup {None} : I!CreateUser(r, u, ro)
    BY <2>1, CreateUserInv
  <2>2. CASE \E u \in User, ro \in Role : I!PutRole(r, u, ro)
    BY <2>2, PutRoleInv DEF I!PutRole, I!rows, I!people, RowsStay
  <2>3. CASE \E u \in User, ro \in Role : I!DropRole(r, u, ro)
    BY <2>3, DropRoleInv
  <2>4. CASE \E u \in User : I!PatchUser(r, u) \/ I!Login(r, u)
    BY <2>4, PatchUserInv, LoginInv
  <2>5. CASE \E ro \in Role, g \in Grant : I!CreateRole(r, ro, g)
    BY <2>5, CreateRoleInv
  <2>6. CASE \E a \in Account, g \in Grant : I!CreateServiceAccount(r, a, g)
    BY <2>6, Ended DEF I!CreateServiceAccount, RowsStay
  <2>7. CASE \E a \in Account : I!PatchServiceAccount(r, a)
    BY <2>7, PatchServiceAccountInv
  <2>8. CASE \E k \in ApiKey, o \in User \cup Account, g \in Grant : I!CreateAPIKey(r, k, o, g)
    BY <2>8, CreateAPIKeyInv
  <2>9. CASE \E k \in ApiKey : I!DeleteKey(r, k) \/ I!RestoreKey(r, k) \/ I!RegenerateKey(r, k)
    BY <2>9, DeleteKeyInv, RestoreKeyInv, RegenerateKeyInv
  <2>10. CASE \E k \in ApiKey, g \in SUBSET Scope, active \in {"on", "off", "keep"} :
                I!PutKey(r, k, g, active)
    BY <2>10, PutKeyInv
  <2>11. CASE \E k \in ApiKey, v \in {"first", "second"} : I!PresentKey(r, k, v)
    BY <2>11, PresentKeyInv
  <2>12. CASE \E s \in Session :
                I!PresentSession(r, s) \/ I!RevokeUserSession(r, s) \/ I!IssueSession(r, s)
    BY <2>12, PresentSessionInv, RevokeUserSessionInv, IssueSessionInv
  <2>13. CASE \E f \in Flow :
                I!BeginFlow(r, f) \/ I!NewLinkChallenge(r, f) \/ I!HandleIdentityLink(r, f)
    BY <2>13, BeginFlowInv, NewLinkChallengeInv, HandleIdentityLinkInv
  <2>14. CASE \E f \in Flow, x \in Subject : I!CompleteFlow(r, f, x)
    BY <2>14, CompleteFlowInv
  <2>15. CASE \E f \in Flow, u \in User : I!HandleLinkIdentity(r, f, u)
    BY <2>15, HandleLinkIdentityInv
  <2>. QED  BY <1>2, <2>1, <2>2, <2>3, <2>4, <2>5, <2>6, <2>7, <2>8, <2>9, <2>10, <2>11, <2>12,
               <2>13, <2>14, <2>15 DEF I!Handle
<1>3. ASSUME NEW s \in Session, I!Lapse(s) PROVE IdentityInv'
  BY <1>3, LapseInv
<1>. QED  BY <1>1, <1>2, <1>3 DEF I!Next

\* However the statements of requests, flows and administration interleave, what a request
\* carries from one to the next agrees with the rows it read.
THEOREM IdentityInvariance == Spec => []IdentityInv
<1>1. Init => IdentityInv
  BY InitIdentityInv, SurfaceAssumption DEF Init
<1>2. IdentityInv /\ [Next]_vars => IdentityInv'
  <2>1. SUFFICES ASSUME IdentityInv, [Next]_vars PROVE IdentityInv'
    OBVIOUS
  <2>2. CASE route = "identities" /\ I!Next
    BY <2>1, <2>2, StepIdentityInv, SurfaceAssumption
  <2>3. CASE UNCHANGED identities
    BY <2>1, <2>3 DEF identities, IdentityInv, IdentityTypes, Grants, Links, Proven, Allowed,
       Refused, Carries, Confirms
  <2>. QED  BY <2>1, <2>2, <2>3 DEF Next, vars
<1>. QED  BY <1>1, <1>2, PTL DEF Spec

\* Authenticate, AuthenticateSession: what arrives after its session was revoked or its
\* secret replaced is not admitted, though another request is renewing that session.
THEOREM RevokedStaysOut == Spec => []RevocationHolds
<1>1. IdentityInv => RevocationHolds
  BY DEF IdentityInv, Allowed, Refused, RevocationHolds, I!RevocationHolds
<1>. QED  BY <1>1, IdentityInvariance, PTL

\* ConfirmLink, CompleteFlow: however many confirm or consume a challenge, an identity
\* of the provider is bound only to an account whose holder confirmed it, once.
THEOREM BoundByHolder == Spec => []BoundByItsHolder
<1>1. IdentityInv => BoundByItsHolder
  BY DEF IdentityInv, Links, Proven, BoundByItsHolder, I!BoundByItsHolder
<1>. QED  BY <1>1, IdentityInvariance, PTL

\* The handlers of identities.go: over any sequence of creations,
\* assignments and patches no scope is held that the tenant's first rows did not grant.
THEOREM GrantsInherited == Spec => []ScopesAreInherited
<1>1. IdentityInv => ScopesAreInherited
  BY DEF IdentityInv, IdentityTypes, Grants, Allowed, Carries, Inherited, I!Within,
     ScopesAreInherited, I!ScopesAreInherited, I!Granted
<1>. QED  BY <1>1, IdentityInvariance, PTL

=============================================================================
