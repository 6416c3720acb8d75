----------------------------- MODULE McpSession -----------------------------
(***************************************************************************)
(* The HTTP tools of the MCP server: an agent calls tools, several at a    *)
(* time if it likes; a tool picks its token, sends one request to the      *)
(* backend and reports how that went.  The session keeps the token of a    *)
(* login for the tools called later.                                       *)
(*                                                                         *)
(* The backend appears as far as an agent can tell: a request is served    *)
(* (authenticated, authorised, read and merged) in one step, writes under  *)
(* row locks in another, and commits and is answered in steps of their     *)
(* own.  UserAccounts and Todos have its statements one by one.            *)
(***************************************************************************)
EXTENDS Integers, FiniteSets, Sequences

CONSTANTS
  User,    \* user ids
  Admin,   \* the admins present at the start
  Todo,    \* todo ids
  Call,    \* tool calls
  Tool,    \* the tools under study, among AllTools
  Text,    \* texts of the nullable columns of a todo
  None     \* a tool argument left out, SQL NULL, no user

SessionTools == {"login", "clear"}
AdminTools == {"adminReplace", "adminPatch", "deactivate", "hardDelete"}
SelfTools == {"getMe", "replaceMe", "patchMe"}
TodoTools == {"todoRead", "todoCreate", "todoReplace", "todoPatch",
              "todoDelete"}
AllTools == SessionTools \cup {"signup"} \cup AdminTools \cup SelfTools
              \cup TodoTools
ReadTools == SessionTools \cup {"getMe", "todoRead"}

Role == {"user", "admin"}

ASSUME ConstantsOK ==
  /\ Admin \subseteq User
  /\ Tool \subseteq AllTools
  /\ User \cap Todo = {}
  /\ None \notin User \cup Todo \cup Call \cup Text
  /\ None \notin Role /\ None \notin BOOLEAN

VARIABLES
  session,   \* _access_token
  known,     \* tokens the agent has been given
  accounts,  \* committed users
  todos,     \* committed todos
  late,      \* FastAPI closes get_db after it has sent the response
  op,        \* what each call asks for and carries along
  step,      \* where the backend stands with the call's request
  reply,     \* what the backend answered
  status,    \* what the tool returned
  effects,   \* history: how often the request of each call was committed
  start,     \* history: the token the session held when the server started
  turn,      \* history: the session tools called, in order
  calm,      \* history: none of them was called while a login was waiting
  undone     \* history: an update has put an older token_version back

server == <<accounts, todos, late>>
ghost == <<effects, start, turn, calm, undone>>
vars == <<session, known, server, op, step, reply, status, ghost>>
-----------------------------------------------------------------------------
State == {"unused", "active", "inactive", "gone"}
Accounts == [role: Role, state: State, tv: Nat]
Exists(account) == account.state \in {"active", "inactive"}

\* "note" stands for the columns of a todo's text.
Todos == [owner: User \cup {"unused", "gone"}, note: Text \cup {None}]
NoTodo(why) == [owner |-> why, note |-> None]

Tokens == [sub: User \cup {None}, tv: Nat]
NoToken == [sub |-> None, tv |-> 0]

\* The optional arguments of all tools; None is an argument left out.
Args == [owner: User \cup {None}, note: Text \cup {None},
         role: Role \cup {None}, active: BOOLEAN \cup {None},
         password: {"right", "wrong", None}]
NoArgs == [owner |-> None, note |-> None, role |-> None, active |-> None,
           password |-> None]

(***************************************************************************)
(* "token" is the one the tool resolved, "stale" whether it was superseded *)
(* by then (history), "actor" and "role" what get_current_user found, "old" *)
(* and "new" the row read and the row to write, "grant" the token that a   *)
(* login answers.                                                          *)
(***************************************************************************)
NoOp == [tool |-> "none", id |-> None, args |-> NoArgs, token |-> NoToken,
         stale |-> FALSE, actor |-> None, role |-> "none", old |-> None,
         new |-> None, grant |-> NoToken]

Rows == Accounts \cup Todos \cup {None}
Ops == [tool: AllTools \cup {"none"}, id: User \cup Todo \cup {None}, args: Args,
        token: Tokens, stale: BOOLEAN, actor: User \cup {None},
        role: Role \cup {"none"}, old: Rows, new: Rows, grant: Tokens]

Steps == {"idle", "sent", "served", "written", "committed", "over"}
Replies == {"none", "ok", "refused", "error"}
\* "refused" is a 4xx, "error" a 5xx, "unknown" status 0 or no answer at all.
Statuses == {"idle", "waiting", "ok", "refused", "error", "unknown"}

TypeOK ==
  /\ {session, start} \subseteq Tokens /\ known \subseteq Tokens
  /\ accounts \in [User -> Accounts]
  /\ todos \in [Todo -> Todos]
  /\ {late, calm, undone} \subseteq BOOLEAN
  /\ step \in [Call -> Steps]
  /\ reply \in [Call -> Replies]
  /\ status \in [Call -> Statuses]
  /\ effects \in [Call -> Nat]
  /\ op \in [Call -> Ops] /\ turn \in Seq(Call)
  /\ \A c \in Call : status[c] = "waiting" => step[c] # "idle"

TokenOf(u) == [sub |-> u, tv |-> accounts[u].tv]

Init ==
  /\ late \in BOOLEAN
  /\ accounts \in [User -> {[role |-> r, state |-> s, tv |-> 0] :
                              r \in Role, s \in {"unused", "active"}}]
  /\ \A u \in User : accounts[u].role = "admin" <=> u \in Admin
  /\ \A u \in Admin : accounts[u].state = "active"
  /\ todos \in [Todo -> {NoTodo("unused")} \cup
                  [owner: {u \in User : accounts[u].state = "active"},
                   note: Text]]
  /\ session \in {NoToken} \cup
                 {TokenOf(u) : u \in {v \in User : Exists(accounts[v])}}
  /\ start = session
  /\ known = {session} \ {NoToken}
  /\ op = [c \in Call |-> NoOp]
  /\ step = [c \in Call |-> "idle"]
  /\ reply = [c \in Call |-> "none"]
  /\ status = [c \in Call |-> "idle"]
  /\ effects = [c \in Call |-> 0]
  /\ turn = <<>>
  /\ calm = TRUE /\ undone = FALSE
-----------------------------------------------------------------------------
\* What the signatures of the tools let a caller give.
Arguments(owners, notes, roles, actives, passwords) ==
  [owner: owners, note: notes, role: roles, active: actives, password: passwords]
No == {None}
PasswordArgs(passwords) == Arguments(No, No, No, No, passwords)

AdminArgs(tool) ==
  CASE tool = "adminReplace" -> Arguments(No, No, Role, BOOLEAN, {"right", None})
    [] tool = "adminPatch" ->
         PasswordArgs({"right"})
           \cup Arguments(No, No, Role \cup No, BOOLEAN \cup No, No)
    [] OTHER -> {NoArgs}

TodoArgs(tool) ==
  IF tool \in {"todoCreate", "todoReplace", "todoPatch"}
  THEN Arguments(User \cup No, Text \cup No, No, No, No)
  ELSE {NoArgs}

CanGive(tool) ==
  CASE tool = "login" -> PasswordArgs({"right", "wrong"})
    [] tool \in {"replaceMe", "patchMe"} -> PasswordArgs({"right", None})
    [] tool \in AdminTools -> AdminArgs(tool)
    [] tool \in TodoTools -> TodoArgs(tool)
    [] OTHER -> {NoArgs}

\* Whom a call is about; a create gets its id from the backend.
Subjects(tool, token) ==
  CASE tool \in AdminTools \cup {"login"} -> User
    [] tool = "signup" -> {u \in User : accounts[u].state = "unused"}
    [] tool \in SelfTools -> {token.sub}
    [] tool \in TodoTools \ {"todoCreate"} -> Todo
    [] OTHER -> {None}

resolve_access_token(explicit) == IF explicit # NoToken THEN explicit ELSE session

LoginWaiting == \E c \in Call : status[c] = "waiting" /\ op[c].tool = "login"

SessionCall(c) ==
  /\ turn' = Append(turn, c)
  /\ calm' = (calm /\ ~LoginWaiting)

\* auth_clear_session: no request, no await.
auth_clear_session(c) ==
  /\ status[c] = "idle" /\ "clear" \in Tool
  /\ session' = NoToken
  /\ op' = [op EXCEPT ![c].tool = "clear"]
  /\ status' = [status EXCEPT ![c] = "ok"]
  /\ step' = [step EXCEPT ![c] = "over"]
  /\ SessionCall(c)
  /\ UNCHANGED <<known, server, reply, effects, start, undone>>

\* The request of a tool is on its way, and the tool awaits its answer.
Send(c) ==
  /\ step' = [step EXCEPT ![c] = "sent"]
  /\ status' = [status EXCEPT ![c] = "waiting"]

\* auth_login and users_signup: no token.
CallAnonymous(c) ==
  /\ status[c] = "idle"
  /\ \E tool \in Tool \cap {"login", "signup"} :
       /\ \E u \in Subjects(tool, NoToken), args \in CanGive(tool) :
            op' = [op EXCEPT ![c] = [@ EXCEPT
                     !.tool = tool, !.id = u, !.args = args]]
       /\ IF tool = "login" THEN SessionCall(c) ELSE UNCHANGED <<turn, calm>>
  /\ Send(c)
  /\ UNCHANGED <<session, known, server, reply, effects, start, undone>>

\* Every other tool; without a token it answers 401 by itself.
CallTool(c) ==
  /\ status[c] = "idle"
  /\ \E explicit \in known \cup {NoToken},
        tool \in Tool \ (SessionTools \cup {"signup"}) :
       LET token == resolve_access_token(explicit) IN
       \/ /\ token # NoToken
          /\ \E id \in Subjects(tool, token), args \in CanGive(tool) :
               op' = [op EXCEPT ![c] = [@ EXCEPT
                        !.tool = tool, !.id = id, !.args = args,
                        !.token = token,
                        !.stale = token.tv < accounts[token.sub].tv]]
          /\ Send(c)
       \/ /\ token = NoToken
          /\ op' = [op EXCEPT ![c].tool = tool]
          /\ step' = [step EXCEPT ![c] = "over"]
          /\ status' = [status EXCEPT ![c] = "refused"]
  /\ UNCHANGED <<session, known, server, reply, ghost>>
-----------------------------------------------------------------------------
\* The JSON body: the arguments that were given.
Body(args) == [f \in {g \in DOMAIN args : args[g] # None} |-> args[f]]

\* What the backend has answered, and where that leaves the request.
Answer(c, with, next) ==
  /\ reply' = [reply EXCEPT ![c] = with]
  /\ step' = [step EXCEPT ![c] = next]

\* The request is over; the history keeps which tool it was, and the grant.
Finish(c, with, how) ==
  /\ Answer(c, with, how)
  /\ op' = [op EXCEPT ![c] =
       [NoOp EXCEPT !.tool = op[c].tool, !.stale = op[c].stale,
                    !.grant = op[c].grant]]

Field(body, f, otherwise) == IF f \in DOMAIN body THEN body[f] ELSE otherwise

\* Mutant of Bearer: the session is read again when the request is sent.
BearerOfSession(c) == IF session # NoToken THEN session ELSE op[c].token

Bearer(c) == op[c].token

\* Mutant of Accepted: token_version is not compared.
AcceptedAnyVersion(token) == accounts[token.sub].state = "active"

\* get_current_user.
Accepted(token) ==
  /\ accounts[token.sub].state = "active"
  /\ accounts[token.sub].tv = token.tv

\* guard_last_admin.
LastAdmin(u) ==
  LET active == {v \in User : accounts[v].role = "admin"
                              /\ accounts[v].state = "active"}
  IN u \in active /\ Cardinality(active) <= 1

\* list_owner_filter, with the role read at authentication.
InScope(actor, role, owner) ==
  owner \in User /\ (role = "admin" \/ owner = actor)

ActorRole(c) ==
  IF Bearer(c).sub = None THEN "none" ELSE accounts[Bearer(c).sub].role

\* A password without current_password, which no tool can send.
StepUpMissing(c) ==
  /\ op[c].tool \in {"replaceMe", "patchMe", "adminPatch"}
  /\ "password" \in DOMAIN Body(op[c].args)

OwnerChangeForbidden(c, role) ==
  /\ op[c].tool \in {"todoReplace", "todoPatch"}
  /\ role # "admin"
  /\ op[c].args.owner \notin {None, todos[op[c].id].owner}

\* What a route answers with 401, 403, 404 or 409 before it writes.
Refuses(c) ==
  LET o == op[c] role == ActorRole(c) IN
  CASE o.tool = "login" ->
         accounts[o.id].state # "active" \/ o.args.password # "right"
    [] o.tool = "signup" -> accounts[o.id].state # "unused"
    [] OTHER ->
         \/ ~Accepted(Bearer(c))
         \/ /\ o.tool \in AdminTools
            /\ \/ role # "admin" \/ ~Exists(accounts[o.id]) \/ StepUpMissing(c)
               \/ o.tool \in {"deactivate", "hardDelete"} /\ LastAdmin(o.id)
         \/ o.tool \in SelfTools /\ StepUpMissing(c)
         \/ /\ o.tool \in TodoTools \ {"todoCreate"}
            /\ \/ ~InScope(Bearer(c).sub, role, todos[o.id].owner)
               \/ OwnerChangeForbidden(c, role)
-----------------------------------------------------------------------------
\* TodoCreate and TodoUpdate: what the body leaves out is null.
TodoWrite(body) ==
  [owner |-> Field(body, "owner", None), note |-> Field(body, "note", None)]

resolve_create_owner_id(actor, role, requested) ==
  IF role = "admin" /\ requested # None THEN requested ELSE actor

resolve_update_owner_id(existing, requested) ==
  IF requested # None THEN requested ELSE existing

create_to_entity(todo, actor, role) ==
  [owner |-> resolve_create_owner_id(actor, role, todo.owner),
   note |-> todo.note]

update_to_entity(todo, existing) ==
  [owner |-> resolve_update_owner_id(existing.owner, todo.owner),
   note |-> todo.note]

\* Mutant of apply_todo_patch: the defaults count as given.
ApplyWithDefaults(body, existing) == update_to_entity(TodoWrite(body), existing)

apply_todo_patch(body, existing) ==
  [f \in {"owner", "note"} |-> Field(body, f, existing[f])]

StateOf(active) == IF active THEN "active" ELSE "inactive"

\* With update_user's token_version for a new password.
apply_user_admin_replace(body, existing) ==
  [role |-> body.role, state |-> StateOf(body.active),
   tv |-> existing.tv + (IF "password" \in DOMAIN body THEN 1 ELSE 0)]

\* Mutant of apply_user_patch: a role left out is null.
ApplyNullRole(body, existing) ==
  [existing EXCEPT
     !.role = Field(body, "role", None),
     !.state = IF "active" \in DOMAIN body THEN StateOf(body.active) ELSE @]

apply_user_patch(body, existing) ==
  [existing EXCEPT
     !.role = Field(body, "role", @),
     !.state = IF "active" \in DOMAIN body THEN StateOf(body.active) ELSE @]

\* The row a route writes, given the row it has read.
Merged(c, existing) ==
  LET o == op[c] body == Body(o.args) IN
  CASE o.tool = "signup" -> [role |-> "user", state |-> "active", tv |-> 0]
    [] o.tool = "adminReplace" -> apply_user_admin_replace(body, existing)
    [] o.tool \in {"adminPatch", "replaceMe", "patchMe"} ->
         apply_user_patch(body, existing)
    [] o.tool = "deactivate" -> [existing EXCEPT !.state = "inactive"]
    [] o.tool = "hardDelete" -> [existing EXCEPT !.state = "gone"]
    [] o.tool = "todoCreate" ->
         create_to_entity(TodoWrite(body), Bearer(c).sub, ActorRole(c))
    [] o.tool = "todoReplace" -> update_to_entity(TodoWrite(body), existing)
    [] o.tool = "todoPatch" -> apply_todo_patch(body, existing)
    [] o.tool = "todoDelete" -> NoTodo("gone")

Row(id) == IF id \in User THEN accounts[id] ELSE todos[id]

\* Ids for new todos; Todo is the bound.
NewIds == {t \in Todo : todos[t].owner = "unused"
                        /\ \A d \in Call : op[d].id # t}

\* The backend takes the request, refuses it, answers a read, or has merged.
\* The rate limit can refuse a login or signup whatever they ask for.
Serve(c) ==
  /\ step[c] = "sent"
  /\ \/ /\ Refuses(c) \/ op[c].tool \in {"login", "signup"}
        /\ Finish(c, "refused", "over")
     \/ /\ ~Refuses(c) /\ op[c].tool \in ReadTools
        /\ op' = [op EXCEPT ![c] = [NoOp EXCEPT !.tool = op[c].tool,
             !.stale = op[c].stale,
             !.grant = IF op[c].tool = "login" THEN TokenOf(op[c].id) ELSE @]]
        /\ Answer(c, "ok", "over")
     \/ /\ ~Refuses(c) /\ op[c].tool \notin ReadTools
        /\ \E id \in IF op[c].tool = "todoCreate" THEN NewIds ELSE {op[c].id} :
             op' = [op EXCEPT ![c] = [@ EXCEPT
                      !.id = id, !.actor = Bearer(c).sub,
                      !.role = ActorRole(c),
                      !.old = Row(id), !.new = Merged(c, Row(id))]]
        /\ Answer(c, "none", "served")
  /\ UNCHANGED <<session, known, server, status, ghost>>
-----------------------------------------------------------------------------
\* The transaction of c holds the locks of what it is about to change.
Locks(c) ==
  {op[c].id} \cup (IF op[c].tool = "hardDelete"
                   THEN {t \in Todo : todos[t].owner = op[c].id} ELSE {})

\* The users whose row it key-share locks: the owner it writes, if changed.
Refers(c) ==
  IF op[c].tool \in {"todoCreate", "todoReplace", "todoPatch"}
  THEN {op[c].new.owner} \ {op[c].old.owner} ELSE {}

Excludes(c, d) ==
  \/ Locks(c) \cap Locks(d) # {}
  \/ op[c].tool = "hardDelete" /\ op[c].id \in Refers(d)
  \/ op[d].tool = "hardDelete" /\ op[d].id \in Refers(c)

\* The WHERE clause, or the constraints of an INSERT, when the lock is held.
StillThere(c) ==
  CASE op[c].tool = "signup" -> accounts[op[c].id].state = "unused"
    [] op[c].tool = "todoCreate" -> TRUE
    [] op[c].tool \in TodoTools \ {"todoCreate"} ->
         InScope(op[c].actor, op[c].role, todos[op[c].id].owner)
    [] OTHER -> Exists(accounts[op[c].id])

\* UPDATE, INSERT or DELETE: waits for locks; 404 without a row, 409 when a
\* constraint fails.
Write(c) ==
  /\ step[c] = "served"
  /\ \A d \in Call : step[d] = "written" => ~Excludes(c, d)
  /\ IF StillThere(c) /\ \A u \in Refers(c) : Exists(accounts[u])
     THEN Answer(c, "none", "written") /\ UNCHANGED op
     ELSE Finish(c, "refused", "over")
  /\ UNCHANGED <<session, known, server, status, ghost>>

\* get_db commits, before the response or after it; a commit that took effect
\* may raise all the same.
Commit(c) ==
  /\ step[c] = "written"
  /\ late => reply[c] = "ok"
  /\ accounts' = IF op[c].id \in User
                 THEN [accounts EXCEPT ![op[c].id] = op[c].new] ELSE accounts
  /\ todos' = [t \in Todo |->
                 CASE t = op[c].id -> op[c].new
                   [] op[c].tool = "hardDelete" /\ todos[t].owner = op[c].id ->
                        NoTodo("gone")
                   [] OTHER -> todos[t]]
  /\ effects' = [effects EXCEPT ![c] = @ + 1]
  /\ undone' = (undone \/ \E u \in User : accounts'[u].tv < accounts[u].tv)
  /\ \/ Finish(c, reply[c], "committed")
     \/ ~late /\ Finish(c, "error", "committed")
  /\ UNCHANGED <<session, known, late, status, start, turn, calm>>

Respond(c) ==
  /\ step[c] = IF late THEN "written" ELSE "committed"
  /\ reply[c] = "none"
  /\ Answer(c, "ok", step[c])
  /\ UNCHANGED <<session, known, server, op, status, ghost>>

\* An exception, a lost connection to Postgres, a backend that stops: the
\* transaction is rolled back.  An answer that is out stays out.
Fails(c) ==
  /\ step[c] \in {"sent", "served", "written"}
  /\ Finish(c, IF reply[c] = "none" THEN "error" ELSE reply[c], "over")
  /\ UNCHANGED <<session, known, server, status, ghost>>
-----------------------------------------------------------------------------
\* Mutant of SessionAfter: a login that fails clears the session.
SessionAfterAny(c) == IF op[c].tool = "login" THEN op[c].grant ELSE session

\* auth_login keeps the token of a login that succeeded.
SessionAfter(c) ==
  IF op[c].tool = "login" /\ reply[c] = "ok" THEN op[c].grant ELSE session

\* The answer arrives and the tool returns.
Return(c) ==
  /\ status[c] = "waiting" /\ reply[c] # "none"
  /\ status' = [status EXCEPT ![c] = reply[c]]
  /\ session' = SessionAfter(c)
  /\ known' = known \cup ({op[c].grant} \ {NoToken})
  /\ UNCHANGED <<server, op, step, reply, ghost>>

\* Mutant of GiveUp: the time-out is reported like a refusal.
GiveUpAsRefused(c) ==
  /\ status[c] = "waiting"
  /\ status' = [status EXCEPT ![c] = "refused"]
  /\ UNCHANGED <<session, known, server, op, step, reply, ghost>>

\* httpx.RequestError: no connection, no answer within thirty seconds, or a
\* connection that breaks.  The backend goes on with what it has received.
GiveUp(c) ==
  /\ status[c] = "waiting"
  /\ status' = [status EXCEPT ![c] = "unknown"]
  /\ UNCHANGED <<session, known, server, op, step, reply, ghost>>

\* The MCP server ends and is started again: the session is gone, and so are
\* the tools that were waiting.
Restart ==
  /\ session # NoToken \/ \E c \in Call : status[c] = "waiting"
  /\ session' = NoToken /\ start' = NoToken /\ turn' = <<>>
  /\ status' = [c \in Call |->
       IF status[c] = "waiting" THEN "unknown" ELSE status[c]]
  /\ UNCHANGED <<known, server, op, step, reply, effects, calm, undone>>

CallSome(c) == auth_clear_session(c) \/ CallAnonymous(c) \/ CallTool(c)
Backend(c) == Serve(c) \/ Write(c) \/ Commit(c) \/ Respond(c) \/ Fails(c)
Ends(c) == Return(c) \/ GiveUp(c)

Next == Restart \/ \E c \in Call : CallSome(c) \/ Backend(c) \/ Ends(c)

Spec == Init /\ [][Next]_vars
-----------------------------------------------------------------------------
Changes(c) == op[c].tool \notin ReadTools

\* What a tool reports can be relied on: success means that the change was
\* made exactly once (where the commit precedes the response), a 4xx that it
\* was not and never will be made, and no report stands for two changes.
AnswersAreTrue ==
  \A c \in Call :
    /\ effects[c] <= 1
    /\ status[c] = "ok" /\ Changes(c) /\ ~late => effects[c] = 1
    /\ status[c] = "refused" => effects[c] = 0 /\ step[c] = "over"

\* Unless a session tool is called while a login is waiting, the session is
\* what the last successful one of them, in the order of the calls, made it.
LastLoginWins ==
  LET settled == {i \in DOMAIN turn : status[turn[i]] = "ok"}
      last == CHOOSE i \in settled : \A j \in settled : j <= i
  IN calm => session = IF settled = {} THEN start ELSE op[turn[last]].grant

\* A token that a password change had superseded when the tool was called
\* does nothing any more, though the session goes on handing it out, unless an
\* update that had read the account before the change has undone it.
SupersededTokenRefused ==
  \A c \in Call : op[c].stale /\ ~undone => effects[c] = 0 /\ status[c] # "ok"

\* A todo created without owner_id belongs to the user whose token the tool
\* resolved when it was called, whoever has logged in since.
CreatorIsCaller ==
  [][\A c \in Call :
       step[c] = "written" /\ step'[c] = "committed"
       /\ op[c].tool = "todoCreate" /\ op[c].args.owner = None
         => todos'[op[c].id].owner = op[c].token.sub]_vars

\* A patch that meets the row it has read changes what the caller named and
\* nothing else, across the tool's body, the schema and the merge; one that
\* meets a changed row may undo the change.
PatchIsPartial ==
  [][\A c \in Call :
       step[c] = "written" /\ step'[c] = "committed"
       /\ op[c].tool = "todoPatch" /\ todos[op[c].id] = op[c].old
         => \A f \in {"owner", "note"} :
              todos'[op[c].id][f] = IF op[c].args[f] # None
                THEN op[c].args[f] ELSE todos[op[c].id][f]]_vars
=============================================================================
