------------------------------ MODULE Identity ------------------------------
(***************************************************************************)
(* Credentials and their administration: internal/auth, the identity and    *)
(* API key routes of internal/httpx, the browser's login and OIDC routes,   *)
(* over the rows of store/postgres/identity_repo.go for one tenant.          *)
(*                                                                         *)
(* A request is a sequence of SQL statements, each its own transaction: an   *)
(* action is one of them, with the code that follows it up to the next.     *)
(* Two statements are one action only where the first reads a row nobody     *)
(* ever changes (a role, the existence of a user).  A request may end        *)
(* between any two: a refusal, an error, a client gone, a dead process.      *)
(***************************************************************************)
EXTENDS Naturals, FiniteSets

CONSTANTS
  User, Role, Account, Key, Session, Flow,  \* identifiers rows may have
  Subject,   \* verified identities of the OIDC provider
  Email,     \* the account whose address a subject's verified email is, or None
  Request,   \* requests in flight
  Scope,     \* scopes that can be written in a grant
  Grant,     \* the scope lists requests carry
  Seed,      \* the tenant's rows at the start
  None,
  MaxStarts  \* bound: requests begun

Admin == "platform.admin"
Star == "*"
Status == {"none", "active", "disabled"}

\* A key's row without its allowlists, limits and stamps.
KeyRow == [owner : User \cup Account, scopes : SUBSET Scope, live : BOOLEAN,
           secret : {"first", "second"}]
SessionRow == [user : User, revoked : BOOLEAN, idle : BOOLEAN]

\* kind: a login under way or a link challenge; by: who consumed it (history).
FlowRow == [kind : {"flow", "link"}, subject : Subject \cup {None},
            candidate : User \cup {None}, used : BOOLEAN, by : User \cup {None}]

Rows == [user : [User -> Status], holds : [User -> SUBSET Role],
         role : [Role -> {None} \cup SUBSET Scope], account : [Account -> Status],
         key : [Key -> KeyRow \cup {None}], session : [Session -> SessionRow \cup {None}],
         flow : [Flow -> FlowRow \cup {None}]]

Constants ==
  /\ MaxStarts \in Nat
  /\ User \cap Account = {}
  /\ None \notin User \cup Account \cup Role \cup Key \cup Session \cup Flow \cup Subject
  /\ \A g \in SUBSET Scope : None # g
  /\ None \notin KeyRow \cup SessionRow \cup FlowRow
  /\ Email \in [Subject -> User \cup {None}]
  /\ Grant \subseteq SUBSET Scope
  /\ Seed \in Rows
  /\ \A f \in Flow : Seed.flow[f] # None => ~Seed.flow[f].used

VARIABLES
  user,     \* users.status
  holds,    \* user_roles
  role,     \* roles.scopes; no route changes or deletes a role
  account,  \* service_accounts.status
  key,      \* api_keys
  session,  \* sessions
  link,     \* auth_identities: the user a subject is bound to
  flow,     \* oidc_states
  req,      \* the requests
  starts    \* requests begun

people == <<user, holds, role, account>>
rows == <<people, key, session, link, flow>>
vars == <<rows, req, starts>>

Idle == [at |-> "idle", do |-> "", sess |-> None, key |-> None, secret |-> "first",
         by |-> None, scopes |-> {}, tgt |-> None, role |-> None, row |-> None,
         keys |-> {}, left |-> FALSE, late |-> FALSE]

Init ==
  /\ user = Seed.user
  /\ holds = Seed.holds
  /\ role = Seed.role
  /\ account = Seed.account
  /\ key = Seed.key
  /\ session = Seed.session
  /\ flow = Seed.flow
  /\ link = [x \in Subject |-> None]
  /\ req = [r \in Request |-> Idle]
  /\ starts = 0

-----------------------------------------------------------------------------
(* Grants and principals. *)

\* HasScope: "*" stands for every scope.
HasScope(held, s) == Star \in held \/ s \in held

\* scopesSubsetOfCaller
Within(granted, held) == \A s \in granted : HasScope(held, s)

\* Faulty variant: a key's grant is not compared with its maker's.
KeyWithinAnything(granted, held) == TRUE

\* writeScopeSubsetError: the same test, of a key's stored grant.
KeyWithin(granted, held) == Within(granted, held)

\* RolesForUser and the union principalForUser builds.
RoleScopes(u) == UNION {role[ro] : ro \in {x \in holds[u] : role[x] # None}}

\* The status of a key's owner, whichever kind it is.
OwnerStatus(o) == IF o \in User THEN user[o] ELSE account[o]

\* AdminHolderCounts, first query: active users with the scope in a role.
AdminUsers == {u \in User : user[u] = "active" /\ Admin \in RoleScopes(u)}

\* AdminHolderCounts, second query: live keys with the scope and an active owner.
AdminKeys ==
  {k \in Key : /\ key[k] # None
               /\ key[k].live
               /\ Admin \in key[k].scopes
               /\ OwnerStatus(key[k].owner) = "active"}

-----------------------------------------------------------------------------
(* The life of a request. *)

Put(r, v) == req' = [req EXCEPT ![r] = v] /\ UNCHANGED starts
Move(r, to) == Put(r, [req[r] EXCEPT !.at = to])
Done(r) == Put(r, Idle)

Begin(r, v) ==
  /\ req[r].at = "idle"
  /\ starts < MaxStarts
  /\ starts' = starts + 1
  /\ req' = [req EXCEPT ![r] = v]

\* A request that ends early: refused by what a statement returned, failed, abandoned.
EndRequest(r) ==
  /\ req[r].at # "idle"
  /\ Done(r)
  /\ UNCHANGED rows

\* A request with a session's cookie or with a key arrives.  late: the session was
\* revoked, or the secret replaced, before it did.
PresentSession(r, s) ==
  /\ session[s] # None
  /\ Begin(r, [Idle EXCEPT !.at = "present", !.sess = s, !.late = session[s].revoked])
  /\ UNCHANGED rows

PresentKey(r, k, v) ==
  /\ key[k] # None
  /\ v = "second" => key[k].secret = "second"
  /\ Begin(r, [Idle EXCEPT !.at = "present", !.key = k, !.secret = v,
                           !.late = v # key[k].secret])
  /\ UNCHANGED rows

\* AuthenticateSession: the row of the token's hash, its revocation and its idle end.
AuthenticateSession(r) ==
  /\ req[r].at = "present"
  /\ req[r].sess # None
  /\ LET row == session[req[r].sess] IN
       /\ ~row.revoked
       /\ ~row.idle
       /\ Put(r, [req[r] EXCEPT !.at = "owner", !.by = row.user, !.row = row])
  /\ UNCHANGED rows

\* FindKeyCandidates and Authenticate: unrevoked rows with the secret's hash.
Authenticate(r) ==
  /\ req[r].at = "present"
  /\ req[r].key # None
  /\ LET row == key[req[r].key] IN
       /\ row.live
       /\ row.secret = req[r].secret
       /\ Put(r, [req[r] EXCEPT !.at = "owner", !.by = row.owner, !.scopes = row.scopes])
  /\ UNCHANGED rows

\* GetUser of AuthenticateSession.
SessionUser(r) ==
  /\ req[r].at = "owner"
  /\ req[r].sess # None
  /\ user[req[r].by] = "active"
  /\ Move(r, "roles")
  /\ UNCHANGED rows

\* principalFromKey: the owner, user or service account, must be active.
PrincipalFromKey(r) ==
  /\ req[r].at = "owner"
  /\ req[r].key # None
  /\ OwnerStatus(req[r].by) = "active"
  /\ Put(r, [Idle EXCEPT !.at = "admitted", !.by = req[r].by, !.scopes = req[r].scopes,
                         !.late = req[r].late])
  /\ UNCHANGED rows

PrincipalForUser(r) ==
  /\ req[r].at = "roles"
  /\ Put(r, [req[r] EXCEPT !.at = "touch", !.scopes = RoleScopes(req[r].by)])
  /\ UNCHANGED rows

\* Faulty variant: the row as it was read is written back.
TouchedWholeRow(s, read) == [read EXCEPT !.idle = FALSE]

\* The column TouchSession writes, of the row as it stands.
Touched(s, read) == [session[s] EXCEPT !.idle = FALSE]

\* The sliding renewal; its error is dropped.
TouchSession(r) ==
  /\ req[r].at = "touch"
  /\ \/ session' = [session EXCEPT ![req[r].sess] = Touched(req[r].sess, req[r].row)]
     \/ UNCHANGED session
  /\ Put(r, [req[r] EXCEPT !.at = "csrf", !.row = None])
  /\ UNCHANGED <<people, key, link, flow>>

\* ValidateCSRF reads the row again; the caller has the token.
ValidateCSRF(r) ==
  /\ req[r].at = "csrf"
  /\ ~session[req[r].sess].revoked
  /\ Move(r, "admitted")
  /\ UNCHANGED rows

\* Half an hour without a request.
Lapse(s) ==
  /\ session[s] # None
  /\ ~session[s].idle
  /\ session' = [session EXCEPT ![s].idle = TRUE]
  /\ UNCHANGED <<people, key, link, flow, req, starts>>

\* The guard of the platform.admin routes.
IsAdmin(r) == req[r].at = "admitted" /\ HasScope(req[r].scopes, Admin)

\* What a handler keeps of the request: the caller's scopes and what it names.
Acting(r, to) == [Idle EXCEPT !.at = to, !.scopes = req[r].scopes]

-----------------------------------------------------------------------------
(* The last-administrator guard.  Before a write that takes a holder away two *)
(* queries count the others; excluded are the user tgt and the keys in keys.  *)

CountUsers(r) ==
  /\ req[r].at = "countUsers"
  /\ Put(r, [req[r] EXCEPT !.at = "countKeys", !.left = AdminUsers \ {req[r].tgt} # {}])
  /\ UNCHANGED rows

\* lastAdminExcluded lets the write through when somebody remains.
Spared(r) == req[r].left \/ AdminKeys \ req[r].keys # {}

CountKeys(r) ==
  /\ req[r].at = "countKeys"
  /\ Spared(r)
  /\ Put(r, [req[r] EXCEPT !.at = req[r].do, !.keys = {}, !.left = FALSE])
  /\ UNCHANGED rows

-----------------------------------------------------------------------------
(* Users and roles. *)

\* handleIdentityUsers: the user, then one role after the other; here at most one.
CreateUser(r, u, ro) ==
  /\ IsAdmin(r)
  /\ user[u] = "none"
  /\ user' = [user EXCEPT ![u] = "active"]
  /\ IF ro = None
       THEN Done(r)
       ELSE Put(r, [Acting(r, "assign") EXCEPT !.tgt = u, !.role = ro])
  /\ UNCHANGED <<holds, role, account, key, session, link, flow>>

\* PUT .../users/{id}/roles/{role} of a user that exists.
PutRole(r, u, ro) ==
  /\ IsAdmin(r)
  /\ user[u] # "none"
  /\ Put(r, [Acting(r, "assign") EXCEPT !.tgt = u, !.role = ro])
  /\ UNCHANGED rows

\* assignRoleChecked: the role exists and grants nothing the caller lacks.
AssignRole(r) ==
  /\ req[r].at = "assign"
  /\ role[req[r].role] # None
  /\ Within(role[req[r].role], req[r].scopes)
  /\ holds' = [holds EXCEPT ![req[r].tgt] = @ \cup {req[r].role}]
  /\ Done(r)
  /\ UNCHANGED <<user, role, account, key, session, link, flow>>

\* unassignRoleChecked counts when the user was active and the role has the scope.
DropRole(r, u, ro) ==
  /\ IsAdmin(r)
  /\ user[u] # "none"
  /\ role[ro] # None
  /\ LET removesAdmin == user[u] = "active" /\ Admin \in role[ro] IN
       Put(r, [Acting(r, IF removesAdmin THEN "countUsers" ELSE "unassign")
                 EXCEPT !.do = "unassign", !.tgt = u, !.role = ro])
  /\ UNCHANGED rows

UnassignRole(r) ==
  /\ req[r].at = "unassign"
  /\ holds' = [holds EXCEPT ![req[r].tgt] = @ \ {req[r].role}]
  /\ Done(r)
  /\ UNCHANGED <<user, role, account, key, session, link, flow>>

\* handleIdentityUser: PATCH with a status other than the one just read.
PatchUser(r, u) ==
  /\ IsAdmin(r)
  /\ user[u] # "none"
  /\ Put(r, [Acting(r, IF user[u] = "active" THEN "userIsAdmin" ELSE "enable")
               EXCEPT !.do = "disable", !.tgt = u])
  /\ UNCHANGED rows

UserIsAdmin(r) ==
  /\ req[r].at = "userIsAdmin"
  /\ Move(r, IF Admin \in RoleScopes(req[r].tgt) THEN "countUsers" ELSE "disable")
  /\ UNCHANGED rows

\* UpdateUserStatus; a disabled user's sessions are revoked next.
UpdateUserStatus(r) ==
  /\ \/ req[r].at = "disable" /\ user' = [user EXCEPT ![req[r].tgt] = "disabled"]
                              /\ Move(r, "revokeAll")
     \/ req[r].at = "enable" /\ user' = [user EXCEPT ![req[r].tgt] = "active"]
                             /\ Done(r)
  /\ UNCHANGED <<holds, role, account, key, session, link, flow>>

RevokeUserSessions(r) ==
  /\ req[r].at = "revokeAll"
  /\ session' = [s \in Session |->
                   IF session[s] # None /\ session[s].user = req[r].tgt
                     THEN [session[s] EXCEPT !.revoked = TRUE]
                     ELSE session[s]]
  /\ Done(r)
  /\ UNCHANGED <<people, key, link, flow>>

CreateRole(r, ro, g) ==
  /\ IsAdmin(r)
  /\ role[ro] = None
  /\ Within(g, req[r].scopes)
  /\ role' = [role EXCEPT ![ro] = g]
  /\ Done(r)
  /\ UNCHANGED <<user, holds, account, key, session, link, flow>>

-----------------------------------------------------------------------------
(* Service accounts. *)

CreateServiceAccount(r, a, g) ==
  /\ IsAdmin(r)
  /\ account[a] = "none"
  /\ Within(g, req[r].scopes)
  /\ account' = [account EXCEPT ![a] = "active"]
  /\ Done(r)
  /\ UNCHANGED <<user, holds, role, key, session, link, flow>>

\* handleIdentityServiceAccountByID: PATCH with a status other than the one read.
PatchServiceAccount(r, a) ==
  /\ IsAdmin(r)
  /\ account[a] # "none"
  /\ Put(r, [Acting(r, IF account[a] = "active" THEN "listKeys" ELSE "resume")
               EXCEPT !.do = "suspend", !.tgt = a])
  /\ UNCHANGED rows

\* The account's live keys with the scope go down with it.
ListAccountKeys(r) ==
  /\ req[r].at = "listKeys"
  /\ LET excluded == {k \in Key : /\ key[k] # None
                                  /\ key[k].owner = req[r].tgt
                                  /\ key[k].live
                                  /\ Admin \in key[k].scopes} IN
       Put(r, [req[r] EXCEPT !.at = IF excluded # {} THEN "countUsers" ELSE "suspend",
                             !.keys = excluded])
  /\ UNCHANGED rows

UpdateServiceAccountStatus(r) ==
  /\ req[r].at \in {"suspend", "resume"}
  /\ account' = [account EXCEPT ![req[r].tgt] =
                   IF req[r].at = "suspend" THEN "disabled" ELSE "active"]
  /\ Done(r)
  /\ UNCHANGED <<user, holds, role, key, session, link, flow>>

-----------------------------------------------------------------------------
(* API keys.  tgt and row are what GetAPIKey returned, as the handler patches it. *)

\* apiKeyRecordFromAdminRequest
NewKey(o, g) == [owner |-> o, scopes |-> g, live |-> TRUE, secret |-> "first"]

CreateAPIKey(r, k, o, g) ==
  /\ IsAdmin(r)
  /\ key[k] = None
  /\ OwnerStatus(o) # "none"
  /\ KeyWithin(g, req[r].scopes)
  /\ key' = [key EXCEPT ![k] = NewKey(o, g)]
  /\ Done(r)
  /\ UNCHANGED <<people, session, link, flow>>

OnKey(r, k, to, row) ==
  [Acting(r, to) EXCEPT !.do = to, !.key = k, !.row = row]

\* DELETE: lastAdminKeyExcluded counts when the key has the scope, live or not.
DeleteKey(r, k) ==
  /\ IsAdmin(r)
  /\ key[k] # None
  /\ LET counted == Admin \in key[k].scopes IN
       Put(r, [OnKey(r, k, "revokeKey", None)
                 EXCEPT !.at = IF counted THEN "countUsers" ELSE "revokeKey",
                        !.keys = IF counted THEN {k} ELSE {}])
  /\ UNCHANGED rows

RevokeAPIKey(r) ==
  /\ req[r].at = "revokeKey"
  /\ key' = [key EXCEPT ![req[r].key].live = FALSE]
  /\ Done(r)
  /\ UNCHANGED <<people, session, link, flow>>

RestoreKey(r, k) ==
  /\ IsAdmin(r)
  /\ key[k] # None
  /\ Put(r, OnKey(r, k, "writeKey", [key[k] EXCEPT !.live = TRUE]))
  /\ UNCHANGED rows

RegenerateKey(r, k) ==
  /\ IsAdmin(r)
  /\ key[k] # None
  /\ Put(r, OnKey(r, k, "secret", key[k]))
  /\ UNCHANGED rows

\* SetAPIKeySecret; a key that was revoked when it was read is then made live.
SetAPIKeySecret(r) ==
  /\ req[r].at = "secret"
  /\ key' = [key EXCEPT ![req[r].key].secret = "second"]
  /\ IF req[r].row.live
       THEN Done(r)
       ELSE Put(r, [req[r] EXCEPT !.at = "writeKey", !.do = "writeKey", !.row.live = TRUE])
  /\ UNCHANGED <<people, session, link, flow>>

\* applyAdminPatch; active is is_active: "on", "off", or "keep" when it is absent.
Patched(row, g, active) ==
  [row EXCEPT !.scopes = g, !.live = active = "on" \/ (active = "keep" /\ row.live)]

\* PUT: the patched row within the caller's scopes; counted when the request
\* deactivates.
PutKey(r, k, g, active) ==
  /\ IsAdmin(r)
  /\ key[k] # None
  /\ g \in Grant \cup {key[k].scopes}
  /\ KeyWithin(g, req[r].scopes)
  /\ LET counted == active = "off" /\ Admin \in g IN
       Put(r, [OnKey(r, k, "writeKey", Patched(key[k], g, active))
                 EXCEPT !.at = IF counted THEN "countUsers" ELSE "writeKey",
                        !.keys = IF counted THEN {k} ELSE {}])
  /\ UNCHANGED rows

\* UpdateAPIKey writes every grant column and revoked_at, not the secret's.
UpdateAPIKey(r) ==
  /\ req[r].at = "writeKey"
  /\ key' = [key EXCEPT ![req[r].key].scopes = req[r].row.scopes,
                        ![req[r].key].live = req[r].row.live]
  /\ Done(r)
  /\ UNCHANGED <<people, session, link, flow>>

-----------------------------------------------------------------------------
(* Sessions and login. *)

\* revokeUserSession: the session must be the named user's, which is any user for
\* an administrator and the caller for the self-service route.
RevokeUserSession(r, s) ==
  /\ req[r].at = "admitted"
  /\ session[s] # None
  /\ HasScope(req[r].scopes, Admin) \/ session[s].user = req[r].by
  /\ Put(r, [Idle EXCEPT !.at = "revokeOne", !.sess = s])
  /\ UNCHANGED rows

\* HandleLogout revokes the session that carried the request.
Logout(r) ==
  /\ req[r].at = "admitted"
  /\ req[r].sess # None
  /\ Put(r, [Idle EXCEPT !.at = "revokeOne", !.sess = req[r].sess])
  /\ UNCHANGED rows

RevokeSession(r) ==
  /\ req[r].at = "revokeOne"
  /\ session' = [session EXCEPT ![req[r].sess].revoked = TRUE]
  /\ Done(r)
  /\ UNCHANGED <<people, key, link, flow>>

\* AuthenticatePassword of handleLoginPost: the account is active.
Login(r, u) ==
  /\ user[u] = "active"
  /\ Begin(r, [Idle EXCEPT !.at = "issue", !.by = u])
  /\ UNCHANGED rows

\* IssueSession
IssueSession(r, s) ==
  /\ req[r].at = "issue"
  /\ session[s] = None
  /\ session' = [session EXCEPT ![s] = [user |-> req[r].by, revoked |-> FALSE, idle |-> FALSE]]
  /\ Done(r)
  /\ UNCHANGED <<people, key, link, flow>>

-----------------------------------------------------------------------------
(* OIDC login and linking.  row is the subject of the verified ID token. *)

NewFlow(kind, x, u) ==
  [kind |-> kind, subject |-> x, candidate |-> u, used |-> FALSE, by |-> None]

\* BeginFlow stores the state the browser will come back with.
BeginFlow(r, f) ==
  /\ flow[f] = None
  /\ Begin(r, Idle)
  /\ flow' = [flow EXCEPT ![f] = NewFlow("flow", None, None)]
  /\ UNCHANGED <<people, key, session, link>>

\* Faulty variant: a consumed row can be consumed again.
ConsumableTwice(f) == flow[f] # None

\* ConsumeOIDCState: one statement, for a row not consumed yet.
Consumable(f) == flow[f] # None /\ ~flow[f].used
Consumed(f, u) == [flow EXCEPT ![f].used = TRUE, ![f].by = u]

\* CompleteFlow consumes whatever row the state names, then refuses a challenge: the
\* kind is tested or, without a candidate, the provider has no code for it.
CompleteFlow(r, f, x) ==
  /\ Consumable(f)
  /\ Begin(r, IF flow[f].kind = "flow" THEN [Idle EXCEPT !.at = "resolve", !.row = x] ELSE Idle)
  /\ flow' = Consumed(f, None)
  /\ UNCHANGED <<people, key, session, link>>

\* resolveIdentity: bound, or looked up by the verified email.
ResolveIdentity(r) ==
  /\ req[r].at = "resolve"
  /\ Put(r, IF link[req[r].row] # None
              THEN [Idle EXCEPT !.at = "linked", !.by = link[req[r].row]]
              ELSE [req[r] EXCEPT !.at = "candidate"])
  /\ UNCHANGED rows

LinkedUser(r) ==
  /\ req[r].at = "linked"
  /\ user[req[r].by] = "active"
  /\ Move(r, "issue")
  /\ UNCHANGED rows

\* GetUserByEmail: no account is no candidate, a disabled one refuses.
FindCandidate(r) ==
  /\ req[r].at = "candidate"
  /\ LET u == Email[req[r].row]
         known == u # None /\ user[u] # "none" IN
       /\ known => user[u] = "active"
       /\ Put(r, [req[r] EXCEPT !.at = "challenge", !.by = IF known THEN u ELSE None])
  /\ UNCHANGED rows

NewLinkChallenge(r, f) ==
  /\ req[r].at = "challenge"
  /\ flow[f] = None
  /\ flow' = [flow EXCEPT ![f] = NewFlow("link", req[r].row, req[r].by)]
  /\ Done(r)
  /\ UNCHANGED <<people, key, session, link>>

\* GetOIDCState of ConfirmLink: a challenge, not consumed.
ReadChallenge(f) == Consumable(f) /\ flow[f].kind = "link"

\* ConfirmLink from the login page, which then issues a session ...
HandleLinkIdentity(r, f, u) ==
  /\ ReadChallenge(f)
  /\ Begin(r, [Idle EXCEPT !.at = "prove", !.row = f, !.by = u, !.do = "issue"])
  /\ UNCHANGED rows

\* ... and for a caller already admitted, on the account it acts for.
HandleIdentityLink(r, f) ==
  /\ req[r].at = "admitted"
  /\ req[r].by \in User
  /\ ReadChallenge(f)
  /\ Put(r, [Idle EXCEPT !.at = "prove", !.row = f, !.by = req[r].by])
  /\ UNCHANGED rows

\* The password is u's, u is active, and u is the candidate if there is one.
ProvePassword(r) ==
  /\ req[r].at = "prove"
  /\ user[req[r].by] = "active"
  /\ flow[req[r].row].candidate \in {None, req[r].by}
  /\ Move(r, "consume")
  /\ UNCHANGED rows

ConsumeChallenge(r) ==
  /\ req[r].at = "consume"
  /\ Consumable(req[r].row)
  /\ flow' = Consumed(req[r].row, req[r].by)
  /\ Move(r, "record")
  /\ UNCHANGED <<people, key, session, link>>

\* RecordAuthIdentity: (issuer, subject) is unique.
RecordAuthIdentity(r) ==
  /\ req[r].at = "record"
  /\ LET x == flow[req[r].row].subject IN
       /\ link[x] = None
       /\ link' = [link EXCEPT ![x] = req[r].by]
  /\ Put(r, IF req[r].do = "issue" THEN [Idle EXCEPT !.at = "issue", !.by = req[r].by] ELSE Idle)
  /\ UNCHANGED <<people, key, session, flow>>

-----------------------------------------------------------------------------

\* The middlewares and the statements that need no choice.
Step(r) ==
  \/ EndRequest(r)
  \/ AuthenticateSession(r) \/ Authenticate(r)
  \/ SessionUser(r) \/ PrincipalFromKey(r) \/ PrincipalForUser(r)
  \/ TouchSession(r) \/ ValidateCSRF(r)
  \/ CountUsers(r) \/ CountKeys(r)
  \/ AssignRole(r) \/ UnassignRole(r)
  \/ UserIsAdmin(r) \/ UpdateUserStatus(r) \/ RevokeUserSessions(r)
  \/ ListAccountKeys(r) \/ UpdateServiceAccountStatus(r)
  \/ RevokeAPIKey(r) \/ SetAPIKeySecret(r) \/ UpdateAPIKey(r)
  \/ Logout(r) \/ RevokeSession(r)
  \/ ResolveIdentity(r) \/ LinkedUser(r) \/ FindCandidate(r)
  \/ ProvePassword(r) \/ ConsumeChallenge(r) \/ RecordAuthIdentity(r)

\* The handlers, with what the request names.
Handle(r) ==
  \/ \E u \in User, ro \in Role \cup {None} : CreateUser(r, u, ro)
  \/ \E u \in User, ro \in Role : PutRole(r, u, ro) \/ DropRole(r, u, ro)
  \/ \E u \in User : PatchUser(r, u) \/ Login(r, u)
  \/ \E ro \in Role, g \in Grant : CreateRole(r, ro, g)
  \/ \E a \in Account, g \in Grant : CreateServiceAccount(r, a, g)
  \/ \E a \in Account : PatchServiceAccount(r, a)
  \/ \E k \in Key, o \in User \cup Account, g \in Grant : CreateAPIKey(r, k, o, g)
  \/ \E k \in Key : DeleteKey(r, k) \/ RestoreKey(r, k) \/ RegenerateKey(r, k)
  \/ \E k \in Key, g \in SUBSET Scope, active \in {"on", "off", "keep"} : PutKey(r, k, g, active)
  \/ \E k \in Key, v \in {"first", "second"} : PresentKey(r, k, v)
  \/ \E s \in Session : PresentSession(r, s) \/ RevokeUserSession(r, s) \/ IssueSession(r, s)
  \/ \E f \in Flow : BeginFlow(r, f) \/ NewLinkChallenge(r, f) \/ HandleIdentityLink(r, f)
  \/ \E f \in Flow, x \in Subject : CompleteFlow(r, f, x)
  \/ \E f \in Flow, u \in User : HandleLinkIdentity(r, f, u)

Next ==
  \/ \E r \in Request : Step(r) \/ Handle(r)
  \/ \E s \in Session : Lapse(s)

Spec == Init /\ [][Next]_vars

-----------------------------------------------------------------------------
(* Properties. *)

\* Types of the rows.
TypeOK ==
  /\ user \in [User -> Status]
  /\ holds \in [User -> SUBSET Role]
  /\ role \in [Role -> {None} \cup SUBSET Scope]
  /\ account \in [Account -> Status]
  /\ key \in [Key -> KeyRow \cup {None}]
  /\ session \in [Session -> SessionRow \cup {None}]
  /\ link \in [Subject -> User \cup {None}]
  /\ flow \in [Flow -> FlowRow \cup {None}]
  /\ starts \in 0..MaxStarts

\* A revoked session and a replaced secret stay out: no request that arrives after the
\* revocation is admitted, though an earlier request may still be renewing the session
\* (AuthenticateSession reads the row, checks it and touches it in three statements).
RevocationHolds == \A r \in Request : req[r].at = "admitted" => ~req[r].late

\* linking.go: an OIDC identity is bound only to an account whose holder proved it, on
\* that subject's own challenge; a challenge several requests confirm at once, or that a
\* callback consumes, binds at most once, and a candidate's challenge only to him.
BoundByItsHolder ==
  \A x \in Subject :
    link[x] # None =>
      \E f \in Flow : /\ flow[f] # None
                     /\ flow[f].kind = "link"
                     /\ flow[f].subject = x
                     /\ flow[f].used
                     /\ flow[f].by = link[x]
                     /\ flow[f].candidate \in {None, link[x]}

\* What roles, keys and callers hold, and what the tenant's first rows granted.
Granted ==
  UNION ({role[ro] : ro \in {x \in Role : role[x] # None}}
         \cup {key[k].scopes : k \in {x \in Key : key[x] # None}}
         \cup {req[r].scopes : r \in Request})
Original ==
  UNION ({Seed.role[ro] : ro \in {x \in Role : Seed.role[x] # None}}
         \cup {Seed.key[k].scopes : k \in {x \in Key : Seed.key[x] # None}})

\* identities.go: "a request can never mint authority the caller lacks".  Over any
\* sequence of creations, assignments, restores and patches, and whatever rows they read
\* before others wrote them, no scope appears that nobody held.
ScopesAreInherited == Within(Granted, Original)

=============================================================================
