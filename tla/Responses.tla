------------------------------ MODULE Responses ------------------------------
(***************************************************************************)
(* The Responses routes of internal/httpx/responses.go over the bindings    *)
(* table of store/postgres/response_bindings_repo.go, for one tenant and    *)
(* any number of processes.                                                 *)
(*                                                                         *)
(* A client names what a provider retained by public ids only.  A request   *)
(* resolves the public ids it carries, is sent upstream under the ids they  *)
(* stand for, and every id in the answer is named back: by the row that     *)
(* has it, or by a new one.  An action is one statement on the table or one *)
(* exchange with the provider; a request may end between any two.           *)
(* The provider is external: a response is live from its creation until it  *)
(* is deleted, and its items' ids may be those of another response's.       *)
(***************************************************************************)
EXTENDS Naturals, Sequences

CONSTANTS
  Endpoint, Actor,
  Delegator,    \* the actor an actor was delegated by, or None
  Public,       \* ids that can be minted
  Response,     \* the provider's response ids
  Item,         \* the provider's item ids, of every response
  Request,      \* requests in flight
  References,   \* the lists of public ids requests carry
  Bindings,     \* the table at the start
  None,
  MaxRequests   \* bound: requests begun

Priced == {"create", "stream"}
FollowUp == {"retrieve", "resume", "cancel", "list", "delete"}
Binding == [kind : {"response", "item"}, e : Endpoint, owner : Actor,
            up : Response \cup Item, parent : Public \cup {None}, live : BOOLEAN]

\* What the table's unique index is over.
Key(b) == <<b.e, b.parent, b.up>>

\* Bind is tried with four fresh ids.
MaxTries == 4

\* What the constants are; the table at the start has retired nothing yet.
Constants ==
  /\ Delegator \in [Actor -> Actor \cup {None}]
  /\ Response \cap Item = {}
  /\ References \subseteq Seq(Public)
  /\ Bindings \in [Public -> Binding \cup {None}]
  /\ \A p \in Public : Bindings[p] # None =>
       /\ Bindings[p].live
       /\ Bindings[p].kind = "response" => Bindings[p].up \in Response
       /\ \A q \in Public : Bindings[q] # None /\ Key(Bindings[q]) = Key(Bindings[p]) => p = q
  /\ None \notin Endpoint \cup Actor \cup Public \cup Response \cup Item \cup Binding
  /\ MaxRequests \in Nat

VARIABLES
  binding,   \* response_bindings, by public id
  retained,  \* what the provider has of each response
  req,       \* the requests
  begun      \* requests begun

vars == <<binding, retained, req, begun>>

Idle == [at |-> "idle", do |-> "create", by |-> None, left |-> <<>>, e |-> None,
         ups |-> <<>>, todo |-> <<>>, known |-> {}, parent |-> None,
         tries |-> 0]

Init ==
  /\ binding = Bindings
  /\ retained = [e \in Endpoint |-> [u \in Response |->
                   IF \E p \in Public : Bindings[p] # None /\ Bindings[p].e = e /\ Bindings[p].up = u
                   THEN "live" ELSE "none"]]
  /\ req = [r \in Request |-> Idle]
  /\ begun = 0

-----------------------------------------------------------------------------
(* References in. *)

Becomes(r, x) == req' = [req EXCEPT ![r] = x]

\* handleResponses: a priced request may carry references; a follow-up has one it is
\* about and, when it lists, one as its cursor.  Ids no row has yet, which nobody can
\* have learnt, are left out: they are refused like those of others.
Begin(r, a, do, refs) ==
  /\ req[r].at = "idle"
  /\ begun < MaxRequests
  /\ \A j \in DOMAIN refs : binding[refs[j]] # None
  /\ do \in FollowUp => /\ refs # <<>>
                        /\ Len(refs) > 1 => do = "list"
  /\ begun' = begun + 1
  /\ Becomes(r, [Idle EXCEPT !.at = "resolve", !.do = do, !.by = a, !.left = refs])
  /\ UNCHANGED <<binding, retained>>

\* boundResponse: the row is active and the actor's or its delegator's.
Bound(p, a) ==
  /\ binding[p] # None
  /\ binding[p].live
  /\ binding[p].owner \in {a, Delegator[a]}

\* Faulty variant: the last reference decides where the request goes.
PinnedToLast(q, b) == b.e

\* Where the request goes once a reference is resolved: a cursor does not count.
Pinned(q, b) == IF q.e = None THEN b.e ELSE q.e

\* One reference; all of a priced request must share their endpoint, and what a
\* follow-up is about is a response.
Resolve(r) ==
  LET q == req[r]
      p == Head(q.left)
      b == binding[p]
  IN /\ q.at = "resolve" /\ q.left # <<>>
     /\ Bound(p, q.by)
     /\ q.do \in Priced => Pinned(q, b) = b.e
     /\ q.do \in FollowUp /\ q.ups = <<>> => b.kind = "response"
     /\ Becomes(r, [q EXCEPT !.left = Tail(@), !.e = Pinned(q, b), !.ups = Append(@, p)])
     /\ UNCHANGED <<binding, retained, begun>>

\* Nothing a reference stands for was deleted at the provider.
Live(e, u) == u \in Response => retained[e][u] = "live"

-----------------------------------------------------------------------------
(* The provider.  An answer is the ids in it, in the order they are named. *)

As(kind, u) == [as |-> kind, up |-> u]

\* A created response, what it follows and an item of it.
Created(u, i, q) ==
  <<As("response", u)>>
  \o (IF q.ups # <<>> THEN <<As("previous", binding[q.ups[1]].up)>> ELSE <<>>)
  \o <<As("item", i)>>

\* A follow-up's answer; a resumed stream may start after the response's own event.
Followed(do, u, i) ==
  CASE do = "delete" -> {<<As("response", u)>>}
    [] do = "list" -> {<<As("item", i)>>}
    [] do = "resume" -> {<<As("response", u), As("item", i)>>,
                         <<As("item", i), As("response", u)>>}
    [] OTHER -> {<<As("response", u), As("item", i)>>}

\* responsesPriced: Execute creates a response, on the references' endpoint if any.
Create(r, e, u, i) ==
  LET q == req[r]
  IN /\ q.at = "resolve" /\ q.left = <<>> /\ q.do \in Priced
     /\ q.e \in {None, e}
     /\ \A j \in DOMAIN q.ups : Live(e, binding[q.ups[j]].up)
     /\ retained[e][u] = "none"
     /\ retained' = [retained EXCEPT ![e][u] = "live"]
     /\ Becomes(r, [q EXCEPT !.at = "name", !.e = e, !.todo = Created(u, i, q)])
     /\ UNCHANGED <<binding, begun>>

\* responseFollowUp: Manage, one attempt on the endpoint of the binding.
Follow(r, i) ==
  LET q == req[r]
      p == q.ups[1]
      u == binding[p].up
      on == binding[p].e
  IN /\ q.at = "resolve" /\ q.left = <<>> /\ q.do \in FollowUp
     /\ Live(on, u)
     /\ retained' = IF q.do = "delete"
                    THEN [retained EXCEPT ![on][u] = "deleted"] ELSE retained
     /\ \E t \in Followed(q.do, u, i) :
          Becomes(r, [q EXCEPT !.at = "name", !.todo = t, !.known = {[up |-> u, pub |-> p]},
                               !.parent = IF q.do = "resume" THEN None ELSE p])
     /\ UNCHANGED <<binding, begun>>

-----------------------------------------------------------------------------
(* References out: rewriteNode and publicFor. *)

\* The public id a row has for an upstream one under a parent, live or not.
Named(e, parent, u) ==
  {p \in Public : /\ binding[p] # None
                  /\ binding[p].e = e /\ binding[p].parent = parent /\ binding[p].up = u}

\* Responses are named under no parent, items under the response governing them.
Parent(q, x) == IF x.as = "item" THEN q.parent ELSE None

\* The head of the answer is named p; an event of a stream is exposed at once.
Name(r, p) ==
  LET q == req[r]
      x == Head(q.todo)
      n == [up |-> x.up, pub |-> p]
  IN Becomes(r, [q EXCEPT !.at = "name", !.todo = Tail(@), !.known = @ \cup {n}, !.tries = 0,
                          !.parent = IF x.as = "response" THEN p ELSE @])

\* An id this answer named already, or that has a row; else it must be bound.
Lookup(r) ==
  LET q == req[r]
      x == Head(q.todo)
      known == {n \in q.known : n.up = x.up}
      rows == Named(q.e, Parent(q, x), x.up)
  IN /\ q.at = "name" /\ q.todo # <<>>
     /\ CASE known # {} -> \E n \in known : Name(r, n.pub)
          [] known = {} /\ rows # {} -> \E p \in rows : Name(r, p)
          [] OTHER -> Becomes(r, IF x.as = "previous" THEN [q EXCEPT !.todo = Tail(@)]
                                 ELSE [q EXCEPT !.at = "bind"])
     /\ UNCHANGED <<binding, retained, begun>>

\* Faulty variant: an id bound meanwhile is named by the id just minted.
BindMinted(r, p) ==
  LET q == req[r]
      x == Head(q.todo)
      rows == Named(q.e, Parent(q, x), x.up)
  IN /\ q.at = "bind"
     /\ binding[p] = None
     /\ Name(r, p)
     /\ binding' = IF rows # {} THEN binding
                   ELSE [binding EXCEPT ![p] = [kind |-> x.as, e |-> q.e, owner |-> q.by,
                           up |-> x.up, parent |-> Parent(q, x), live |-> TRUE]]
     /\ UNCHANGED <<retained, begun>>

\* Bind with the minted id p: the row that came first wins, a taken id is minted again.
Bind(r, p) ==
  LET q == req[r]
      x == Head(q.todo)
      rows == Named(q.e, Parent(q, x), x.up)
      new == [kind |-> x.as, e |-> q.e, owner |-> q.by, up |-> x.up,
              parent |-> Parent(q, x), live |-> TRUE]
  IN /\ q.at = "bind"
     /\ \/ /\ rows # {}
           /\ \E first \in rows : Name(r, first)
           /\ UNCHANGED binding
        \/ /\ rows = {} /\ binding[p] = None
           /\ binding' = [binding EXCEPT ![p] = new]
           /\ Name(r, p)
        \/ /\ rows = {} /\ binding[p] # None
           /\ Becomes(r, IF q.tries + 1 = MaxTries THEN Idle
                         ELSE [q EXCEPT !.tries = @ + 1])
           /\ UNCHANGED binding
     /\ UNCHANGED <<retained, begun>>

\* The answer is whole.  A deletion is recorded before it is answered, and once.
Answer(r) ==
  LET q == req[r]
  IN /\ q.at = "name" /\ q.todo = <<>>
     /\ IF q.do = "delete"
        THEN /\ binding[q.ups[1]].live
             /\ binding' = [binding EXCEPT ![q.ups[1]].live = FALSE]
        ELSE UNCHANGED binding
     /\ Becomes(r, Idle)
     /\ UNCHANGED <<retained, begun>>

\* Faulty variant: a failed deletion is recorded all the same.
AbandonRecorded(r) ==
  /\ req[r].at # "idle"
  /\ binding' = IF req[r].do = "delete" /\ req[r].ups # <<>>
                THEN [binding EXCEPT ![req[r].ups[1]].live = FALSE] ELSE binding
  /\ Becomes(r, Idle)
  /\ UNCHANGED <<retained, begun>>

\* A reference that does not resolve, an error of the provider or the table, a client
\* or a process gone: nothing more happens of the request.
Abandon(r) ==
  /\ req[r].at # "idle"
  /\ Becomes(r, Idle)
  /\ UNCHANGED <<binding, retained, begun>>

Next ==
  \E r \in Request :
    \/ \E a \in Actor, do \in Priced \cup FollowUp, refs \in References : Begin(r, a, do, refs)
    \/ Resolve(r)
    \/ \E i \in Item : Follow(r, i) \/ \E e \in Endpoint, u \in Response : Create(r, e, u, i)
    \/ Lookup(r)
    \/ \E p \in Public : Bind(r, p)
    \/ Answer(r)
    \/ Abandon(r)

Spec == Init /\ [][Next]_vars

-----------------------------------------------------------------------------
(* Properties. *)

TypeOK ==
  /\ binding \in [Public -> Binding \cup {None}]
  /\ retained \in [Endpoint -> [Response -> {"none", "live", "deleted"}]]
  /\ \A r \in Request : req[r].at \in {"idle", "resolve", "name", "bind"}
  /\ begun \in 0 .. MaxRequests

\* A name in an answer has a row standing for the id it replaced, and no other name has
\* that row's key: processes that bind one answer at the same time agree (publicFor,
\* Bind: the durable row exists before the public id is emitted anywhere).
NamesAreDurable ==
  \A r \in Request : \A n \in req[r].known :
    LET b == binding[n.pub]
    IN /\ b # None
       /\ b.e = req[r].e /\ b.up = n.up
       /\ Named(b.e, b.parent, b.up) = {n.pub}

\* An id goes upstream only for an actor it was bound by, or that actor's delegate, and
\* to the endpoint it came from; a cursor may go to another (rewriteResponseRequest,
\* responsesQueryFilter).
SentToItsOrigin ==
  \A r \in Request : req[r].at \in {"name", "bind"} =>
    \A i \in DOMAIN req[r].ups :
      LET b == binding[req[r].ups[i]]
      IN /\ b # None
         /\ b.owner \in {req[r].by, Delegator[req[r].by]}
         /\ i = 1 \/ req[r].do \in Priced => b.e = req[r].e

\* A name is retired only when what it stood for is gone at the provider, whatever
\* failed or was lost on the way (responseFollowUp: tombstone only after the upstream
\* delete succeeded).
RetiredIsGone ==
  \A p \in Public : binding[p] # None /\ ~binding[p].live =>
    retained[binding[p].e][binding[p].up] = "deleted"

=============================================================================
