------------------------------- MODULE Surface -------------------------------
(***************************************************************************)
(* The routes of internal/httpx and internal/modules: credentials and       *)
(* identities, and those that dispatch to a model on a client's behalf, the *)
(* Responses routes, the assistants and document extraction.  Each has its  *)
(* own tables and its own requests in flight and they meet only below, in   *)
(* the executor and the job queue, so that a property of one holds of all   *)
(* together when it holds of it alone.                                      *)
(* A behaviour here is one of any of them: the state space is their sum.    *)
(***************************************************************************)
EXTENDS Naturals

CONSTANTS
  None, Actor, Edit, Request, MaxChanges,
  User, Role, Account, ApiKey, Session, Flow, Subject, Email, Scope, Grant, Tenant, MaxStarts,
  Endpoint, Delegator, Public, Response, Item, References, Bindings, MaxRequests,
  Bot, Alias, Prompt, Conversation, Administrator, MayChat, Seed, BotRows, Length,
  MaxCompletions,
  Extraction, Shipped, Model, Vision, Content, MaxArtifacts, IdempotencyKey, MayExtract,
  Worker, TemplateRows, MaxCalls

VARIABLES
  route,                                     \* which of them a behaviour is of
  user, holds, role, account, key, session, link, flow, access, starts,           \* Identity
  binding, retained, req, begun,                                                  \* Responses
  bot, prompt, talk, log, turn, botEdit, replied, turns, botChanges, botsOff,     \* Chatbot
  template, setting, artifact, job, call, worker, edit, calls, changes, off       \* Extract

I == INSTANCE Identity WITH Key <- ApiKey, Seed <- Tenant, req <- access
R == INSTANCE Responses
C == INSTANCE Chatbot WITH Admin <- Administrator, May <- MayChat, Given <- BotRows,
       MaxRequests <- MaxCompletions, req <- turn, edit <- botEdit,
       begun <- turns, changes <- botChanges, off <- botsOff
X == INSTANCE Extract WITH Template <- Extraction, May <- MayExtract,
       Given <- IdempotencyKey, Row <- TemplateRows, Call <- Request, begun <- calls

ASSUME SurfaceAssumption == I!Constants /\ R!Constants /\ C!Constants /\ X!Constants

identities == <<user, holds, role, account, key, session, link, flow, access, starts>>
responses == <<binding, retained, req, begun>>
chatbots == <<bot, prompt, talk, log, turn, botEdit, replied, turns, botChanges, botsOff>>
extract == <<template, setting, artifact, job, call, worker, edit, calls, changes, off>>
vars == <<route, identities, responses, chatbots, extract>>

Init ==
  /\ route \in {"identities", "responses", "chatbots", "extract"}
  /\ I!Init /\ R!Init /\ C!Init /\ X!Init
  /\ route # "extract" => setting # None   \* one initial state for each of the others

Next ==
  /\ \/ route = "identities" /\ I!Next /\ UNCHANGED <<responses, chatbots, extract>>
     \/ route = "responses" /\ R!Next /\ UNCHANGED <<identities, chatbots, extract>>
     \/ route = "chatbots" /\ C!Next /\ UNCHANGED <<identities, responses, extract>>
     \/ route = "extract" /\ X!Next /\ UNCHANGED <<identities, responses, chatbots>>
  /\ UNCHANGED route

Spec == Init /\ [][Next]_vars

-----------------------------------------------------------------------------
(* Properties: those of the parts, under the names they have there.          *)

\* Of Identity: what was revoked stays so, an account is bound by who proved it, and no
\* grant exceeds its maker's.
RevocationHolds == I!RevocationHolds
BoundByItsHolder == I!BoundByItsHolder
ScopesAreInherited == I!ScopesAreInherited

\* Of Responses: names in answers have rows of their own, ids go back where they came
\* from, and a name is retired when its response is gone.
NamesAreDurable == R!NamesAreDurable
SentToItsOrigin == R!SentToItsOrigin
RetiredIsGone == R!RetiredIsGone

\* Of Chatbot: answers are kept in order, and what is withdrawn is not served.
AnsweredIsKept == C!AnsweredIsKept
WithdrawnNotServed == C!WithdrawnNotServed

\* Of Extract: files and results of jobs are whole, a job is of the request that is told
\* of it, and what is withdrawn is not sent.
JobsAreReadable == X!JobsAreReadable
AcceptedIsOwn == X!AcceptedIsOwn
WithdrawnNotSent == X!WithdrawnNotSent

=============================================================================
