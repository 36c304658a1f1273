------------------------------ MODULE MCSurface ------------------------------
\* Two administrators, one of them with a session, a key of a service account and a link
\* challenge; one delegate who is also an administrator, two providers, two assistants of
\* which one is there, one shipped template.
EXTENDS Surface, TLC

CONSTANTS a, d, n1, n2, i1, i2, i3, i4, u1, u2, b1, b2, alias, p1, t1, m1,
          h1, h2, h3, s1, k2, z1, f1, v0, admins

MCGrant == {{"platform.admin", "rag"}, {"*"}}
MCEmail == [x \in Subject |-> h2]

MCTenant ==
  [user |-> [u \in User |-> IF u = h3 THEN "none" ELSE "active"],
   holds |-> [u \in User |-> IF u = h3 THEN {} ELSE {admins}],
   role |-> [ro \in Role |-> IF ro = admins THEN {"platform.admin"} ELSE None],
   account |-> [sa \in Account |-> IF sa = s1 THEN "active" ELSE "none"],
   key |-> [k \in ApiKey |-> IF k = k2
              THEN [owner |-> s1, scopes |-> {"platform.admin"}, live |-> TRUE, secret |-> "first"]
              ELSE None],
   session |-> [s \in Session |-> IF s = z1
                  THEN [user |-> h1, revoked |-> FALSE, idle |-> FALSE]
                  ELSE None],
   flow |-> [f \in Flow |-> IF f = f1
               THEN [kind |-> "link", subject |-> v0, candidate |-> None, used |-> FALSE,
                     by |-> None]
               ELSE None]]

MCDelegator == [x \in Actor |-> IF x = d THEN a ELSE None]
MCReferences == {<<>>} \cup {<<p>> : p \in Public} \cup {<<i1, i2>>, <<i1, i3>>, <<i3, i2>>}

\* A response of each provider is known already.
MCBindings == [p \in Public |->
  CASE p = i1 -> [kind |-> "response", e |-> n1, owner |-> a, up |-> u1, parent |-> None, live |-> TRUE]
    [] p = i2 -> [kind |-> "response", e |-> n2, owner |-> d, up |-> u1, parent |-> None, live |-> TRUE]
    [] OTHER -> None]

MCMayChat == [x \in Actor |-> IF x = d THEN {b1, b2, alias} ELSE {alias}]
MCSeed == [bot |-> (b1 :> [ext |-> alias, on |-> TRUE, prompt |-> p1]) @@ (b2 :> None),
           prompt |-> (p1 :> [active |-> TRUE])]
MCBotRows == {[ext |-> alias, on |-> FALSE, prompt |-> p1],
              [ext |-> b1, on |-> TRUE, prompt |-> None]}

MCMayExtract == [x \in Actor |-> Extraction]
MCTemplateRows == {[on |-> FALSE, default |-> TRUE, model |-> None],
                   [on |-> TRUE, default |-> FALSE, model |-> m1]}

\* The ids of flows, conversations and contents are the same model values, to keep the
\* group small: a behaviour is of one part.
Symmetry == Permutations(Conversation) \cup Permutations(Request)

=============================================================================
