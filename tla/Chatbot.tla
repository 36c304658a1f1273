------------------------------- MODULE Chatbot -------------------------------
(***************************************************************************)
(* Assistants, their prompt templates and their conversations:               *)
(* internal/chatbot, internal/prompts, the routes of internal/httpx over    *)
(* the rows of store/postgres/chatbot_repo.go and prompts_repo.go, for one  *)
(* tenant.                                                                  *)
(*                                                                         *)
(* An action is one statement with the code up to the next.  A completion   *)
(* reads the assistant and its template, finds or opens a conversation,     *)
(* records the request's messages one by one, runs the model call and       *)
(* records the answer; it may end between any two.  Retrieval and the model *)
(* call are in Rag, Policy and Execute: here they succeed or the completion *)
(* ends.  A name is an assistant's id or its external id.                   *)
(***************************************************************************)
EXTENDS Naturals, Sequences, FiniteSets

CONSTANTS
  Bot,           \* assistant ids
  Alias,         \* external ids that are no assistant's id
  Prompt, Conversation, Actor,
  Admin,         \* actors with the scope platform.admin
  May,           \* the names an actor's allowlists grant
  Request,       \* completions in flight
  Edit,          \* PUT requests, each made at most once
  Seed,          \* the assistants and templates at the start
  Given,         \* the rows of assistants that POST and PUT requests come to
  None,
  Length,        \* the numbers of messages of a request
  MaxRequests,   \* bound: completions begun
  MaxChanges     \* bound: administrative changes begun

Name == Bot \cup Alias
BotRow == [ext : Name, on : BOOLEAN, prompt : Prompt \cup {None}]
PromptRow == [active : BOOLEAN]
Talk == [bot : Bot, owner : Actor]

\* n: the completion that wrote it; of: how many messages its request had.
Message == [role : {"user", "assistant"}, n : Nat, of : Length]

\* What the constants are.
Constants ==
  /\ Admin \subseteq Actor
  /\ May \in [Actor -> SUBSET Name]
  /\ Given \subseteq BotRow
  /\ Seed.bot \in [Bot -> BotRow \cup {None}]
  /\ Seed.prompt \in [Prompt -> PromptRow \cup {None}]
  /\ None \notin Name \cup Prompt \cup Conversation \cup Actor \cup BotRow \cup PromptRow \cup Talk
  /\ Bot \cap Prompt = {}   \* ids of two tables are told apart
  /\ Length \subseteq Nat \ {0}
  /\ MaxRequests \in Nat /\ MaxChanges \in Nat

VARIABLES
  bot,       \* chatbots
  prompt,    \* prompt_templates
  talk,      \* conversations
  log,       \* messages, by conversation, in order
  req,       \* the completions
  edit,      \* the PUT requests
  replied,   \* unary completions reported as successful (history)
  begun,     \* completions begun
  changes,   \* administrative changes begun
  off        \* what has been withdrawn ever since a completion began (history)

rows == <<bot, prompt, talk, log>>
vars == <<rows, req, edit, replied, begun, changes, off>>

Idle == [at |-> "idle", do |-> "unary", by |-> None, name |-> None, n |-> 0, of |-> 1,
         talk |-> None, bot |-> None, row |-> None, left |-> 0, text |-> FALSE]

\* What is withdrawn: assistants disabled or deleted, templates inactive or deleted.
Withdrawn == {b \in Bot : bot[b] = None \/ ~bot[b].on}
             \cup {p \in Prompt : prompt[p] = None \/ ~prompt[p].active}

Init ==
  /\ bot = Seed.bot
  /\ prompt = Seed.prompt
  /\ talk = [c \in Conversation |-> None]
  /\ log = [c \in Conversation |-> <<>>]
  /\ req = [r \in Request |-> Idle]
  /\ edit = [x \in Edit |-> [at |-> "idle", id |-> None, row |-> None]]
  /\ replied = {}
  /\ begun = 0
  /\ changes = 0
  /\ off = [r \in Request |-> Withdrawn]

-----------------------------------------------------------------------------
(* A completion. *)

At(r, pc) == req[r].at = pc
Goto(r, pc) == [req[r] EXCEPT !.at = pc]
Becomes(r, x) == req' = [req EXCEPT ![r] = x]
If(ok, r, x) == Becomes(r, IF ok THEN x ELSE Idle)

\* A request with k messages, one of them a user's, for a name.  Ids of conversations
\* not opened yet, which nobody can have learnt, are left out: they are refused.
Begin(r, a, do, name, c, k) ==
  /\ At(r, "idle")
  /\ begun < MaxRequests
  /\ c # None => talk[c] # None
  /\ begun' = begun + 1
  /\ Becomes(r, [Idle EXCEPT !.at = "byId", !.do = do, !.by = a, !.name = name, !.n = begun + 1,
                             !.of = k, !.left = k, !.talk = c])
  /\ UNCHANGED <<rows, edit, replied, changes>>

\* chatbotAllowed: a grant of either of the assistant's names.
Allowed(a, b) == {b, bot[b].ext} \cap May[a] # {}

\* PrepareChatCompletion: what an assistant is checked for.
Serves(r, b) == bot[b].on /\ Allowed(req[r].by, b)

Chosen(r, b) == [Goto(r, "template") EXCEPT !.bot = b, !.row = bot[b]]

\* getByRef looks for an id ...
FindById(r) ==
  /\ At(r, "byId")
  /\ LET b == req[r].name
     IN IF b \in Bot /\ bot[b] # None
        THEN If(Serves(r, b), r, Chosen(r, b))
        ELSE Becomes(r, Goto(r, "byName"))
  /\ UNCHANGED <<rows, edit, replied, begun, changes>>

\* Faulty variant: an assistant found by its external id is not checked.
FindByNameUnchecked(r) ==
  /\ At(r, "byName")
  /\ LET found == {b \in Bot : bot[b] # None /\ bot[b].ext = req[r].name}
     IN IF found = {} THEN Becomes(r, Idle)
        ELSE \E b \in found : Becomes(r, Chosen(r, b))
  /\ UNCHANGED <<rows, edit, replied, begun, changes>>

\* ... and then for an external id.
FindByName(r) ==
  /\ At(r, "byName")
  /\ LET found == {b \in Bot : bot[b] # None /\ bot[b].ext = req[r].name}
     IN IF found = {} THEN Becomes(r, Idle)
        ELSE \E b \in found : If(Serves(r, b), r, Chosen(r, b))
  /\ UNCHANGED <<rows, edit, replied, begun, changes>>

\* promptTemplate: the assistant's must be there and active; without one there is
\* always a default.
Template(r) ==
  /\ At(r, "template")
  /\ LET p == req[r].row.prompt
     IN If(p # None => prompt[p] # None /\ prompt[p].active,
           r, Goto(r, IF req[r].talk = None THEN "open" ELSE "resume"))
  /\ UNCHANGED <<rows, edit, replied, begun, changes>>

\* ensureConversation of one that is named: this assistant's, its owner's or an admin.
Resume(r) ==
  /\ At(r, "resume")
  /\ LET c == talk[req[r].talk]
     IN If(/\ c # None
           /\ c.bot = req[r].bot
           /\ req[r].by = c.owner \/ req[r].by \in Admin,
           r, Goto(r, "record"))
  /\ UNCHANGED <<rows, edit, replied, begun, changes>>

\* ensureConversation of a new one, which refers to the assistant.
Open(r, c) ==
  /\ At(r, "open")
  /\ talk[c] = None
  /\ bot[req[r].bot] # None
  /\ talk' = [talk EXCEPT ![c] = [bot |-> req[r].bot, owner |-> req[r].by]]
  /\ Becomes(r, [Goto(r, "record") EXCEPT !.talk = c])
  /\ UNCHANGED <<bot, prompt, log, edit, replied, begun, changes>>

\* AddMessage
Added(r, role) ==
  log' = [log EXCEPT ![req[r].talk] =
            Append(@, [role |-> role, n |-> req[r].n, of |-> req[r].of])]

\* recordRequestMessages, one message.
Record(r) ==
  /\ At(r, "record")
  /\ Added(r, "user")
  /\ Becomes(r, [Goto(r, IF req[r].left = 1 THEN "execute" ELSE "record") EXCEPT !.left = @ - 1])
  /\ UNCHANGED <<bot, prompt, talk, edit, replied, begun, changes>>

\* The model call answers, with text or without; the answer of a stream reaches the
\* client as it comes.
Execute(r, text) ==
  /\ At(r, "execute")
  /\ Becomes(r, [Goto(r, "answered") EXCEPT !.text = text])
  /\ UNCHANGED <<rows, edit, replied, begun, changes>>

\* A unary completion is reported as a success, a stream has just ended.
Reported(r) ==
  replied' = IF req[r].do = "unary"
             THEN replied \cup {[n |-> req[r].n, of |-> req[r].of, talk |-> req[r].talk,
                                 text |-> req[r].text]}
             ELSE replied

\* Faulty variant: a message that could not be retained is overlooked.
PersistOverlooked(r) ==
  /\ At(r, "answered")
  /\ IF req[r].text THEN Added(r, "assistant") \/ UNCHANGED log ELSE UNCHANGED log
  /\ Reported(r)
  /\ Becomes(r, Idle)
  /\ UNCHANGED <<bot, prompt, talk, edit, begun, changes>>

\* PersistAssistantMessage, then the reply.
Persist(r) ==
  /\ At(r, "answered")
  /\ IF req[r].text THEN Added(r, "assistant") ELSE UNCHANGED log
  /\ Reported(r)
  /\ Becomes(r, Idle)
  /\ UNCHANGED <<bot, prompt, talk, edit, begun, changes>>

\* A refusal, an error (of the settlement too), a process gone; of a stream also an
\* answer that could not be retained, which is only logged.
Abandon(r) ==
  /\ ~At(r, "idle")
  /\ Becomes(r, Idle)
  /\ UNCHANGED <<rows, edit, replied, begun, changes>>

-----------------------------------------------------------------------------
(* Administration. *)

Change == changes < MaxChanges /\ changes' = changes + 1

\* What the table of assistants requires of a row of it.
Fits(b, row) ==
  /\ row.prompt # None => prompt[row.prompt] # None
  /\ \A d \in Bot \ {b} : bot[d] # None => bot[d].ext # row.ext

\* POST of an assistant; without an external id its own id is taken.
CreateBot(b, row) ==
  /\ bot[b] = None /\ Fits(b, row)
  /\ Change
  /\ bot' = [bot EXCEPT ![b] = row]
  /\ UNCHANGED <<prompt, talk, log, req, edit, replied, begun>>

\* PUT of an assistant reads the row ...
PutBotRead(x, b, row) ==
  /\ edit[x].at = "idle" /\ bot[b] # None
  /\ Change
  /\ edit' = [edit EXCEPT ![x] = [at |-> "bot", id |-> b, row |-> row]]
  /\ UNCHANGED <<rows, req, replied, begun>>

\* ... and writes all of it back, with any of its fields edited.
PutBotWrite(x) ==
  LET b == edit[x].id
  IN /\ edit[x].at = "bot"
     /\ edit' = [edit EXCEPT ![x].at = "done"]
     /\ IF bot[b] # None /\ Fits(b, edit[x].row)
        THEN bot' = [bot EXCEPT ![b] = edit[x].row] ELSE UNCHANGED bot
     /\ UNCHANGED <<prompt, talk, log, req, replied, begun, changes>>

\* DELETE of an assistant no conversation refers to.
DeleteBot(b) ==
  /\ bot[b] # None
  /\ \A c \in Conversation : talk[c] # None => talk[c].bot # b
  /\ Change
  /\ bot' = [bot EXCEPT ![b] = None]
  /\ UNCHANGED <<prompt, talk, log, req, edit, replied, begun>>

\* POST of a template.
CreatePrompt(p, row) ==
  /\ prompt[p] = None
  /\ Change
  /\ prompt' = [prompt EXCEPT ![p] = row]
  /\ UNCHANGED <<bot, talk, log, req, edit, replied, begun>>

\* PUT of a template reads the row ...
PutPromptRead(x, p, row) ==
  /\ edit[x].at = "idle" /\ prompt[p] # None
  /\ Change
  /\ edit' = [edit EXCEPT ![x] = [at |-> "prompt", id |-> p, row |-> row]]
  /\ UNCHANGED <<rows, req, replied, begun>>

\* ... and writes all of it back, with any of its fields edited.
PutPromptWrite(x) ==
  LET p == edit[x].id
  IN /\ edit[x].at = "prompt"
     /\ edit' = [edit EXCEPT ![x].at = "done"]
     /\ prompt' = IF prompt[p] # None THEN [prompt EXCEPT ![p] = edit[x].row] ELSE prompt
     /\ UNCHANGED <<bot, talk, log, req, replied, begun, changes>>

\* DELETE of a template no assistant refers to.
DeletePrompt(p) ==
  /\ prompt[p] # None
  /\ \A b \in Bot : bot[b] # None => bot[b].prompt # p
  /\ Change
  /\ prompt' = [prompt EXCEPT ![p] = None]
  /\ UNCHANGED <<bot, talk, log, req, edit, replied, begun>>

-----------------------------------------------------------------------------

Completion(r) ==
  \/ \E a \in Actor, do \in {"unary", "stream"}, name \in Name,
        c \in Conversation \cup {None}, k \in Length : Begin(r, a, do, name, c, k)
  \/ FindById(r) \/ FindByName(r) \/ Template(r) \/ Resume(r)
  \/ \E c \in Conversation : Open(r, c)
  \/ Record(r)
  \/ \E text \in BOOLEAN : Execute(r, text)
  \/ Persist(r)
  \/ Abandon(r)

Administration ==
  \/ \E b \in Bot : DeleteBot(b) \/ \E row \in Given : CreateBot(b, row)
  \/ \E p \in Prompt : DeletePrompt(p) \/ \E row \in PromptRow : CreatePrompt(p, row)
  \/ \E x \in Edit :
       \/ \E b \in Bot, row \in Given : PutBotRead(x, b, row)
       \/ \E p \in Prompt, row \in PromptRow : PutPromptRead(x, p, row)
       \/ PutBotWrite(x) \/ PutPromptWrite(x)

\* What stays withdrawn, of a completion not begun all that is.
Remember ==
  off' = [r \in Request |-> IF At(r, "idle") THEN Withdrawn' ELSE off[r] \cap Withdrawn']

Next == ((\E r \in Request : Completion(r)) \/ Administration) /\ Remember

Spec == Init /\ [][Next]_vars

-----------------------------------------------------------------------------
(* Properties. *)

TypeOK ==
  /\ bot \in [Bot -> BotRow \cup {None}]
  /\ prompt \in [Prompt -> PromptRow \cup {None}]
  /\ talk \in [Conversation -> Talk \cup {None}]
  /\ \A c \in Conversation : \A i \in DOMAIN log[c] : log[c][i] \in Message
  /\ begun \in 0 .. MaxRequests /\ changes \in 0 .. MaxChanges

\* Where a conversation has the turn of completion n.
Turn(c, n) == {i \in DOMAIN log[c] : log[c][i].n = n}

\* Whatever else is recorded in a conversation meanwhile, an answer in it comes after
\* all the messages it answers, and a completion reported as successful has its whole
\* turn there (PersistAssistantMessage: "a lost assistant message is never reported as
\* a successful completion").
AnsweredIsKept ==
  /\ \A c \in Conversation, n \in 1 .. begun : \A i \in Turn(c, n) :
       log[c][i].role = "assistant" <=> Cardinality({j \in Turn(c, n) : j < i}) >= log[c][i].of
  /\ \A d \in replied : Cardinality(Turn(d.talk, d.n)) = d.of + (IF d.text THEN 1 ELSE 0)

\* A completion goes on with no assistant and no template that has been withdrawn since
\* before it began, by whichever name it asked for it (PrepareChatCompletion,
\* promptTemplate).
WithdrawnNotServed ==
  \A r \in Request :
    req[r].at \in {"resume", "open", "record", "execute", "answered"} =>
      {req[r].bot, req[r].row.prompt} \cap off[r] = {}
=============================================================================
