--------------------------- MODULE McpSessionProofs ---------------------------
(***************************************************************************)
(* Proofs about the session of the MCP server, for any users, todos and    *)
(* tool calls.                                                             *)
(***************************************************************************)
EXTENDS McpSession, TLAPS

RealTokens == [sub: User, tv: Nat]
Held == {NoToken} \cup RealTokens
AccountTools == AdminTools \cup SelfTools \cup {"login", "signup"}
InFlight(c) == step[c] \in {"sent", "served", "written"}

\* How far a request is decides what may have been answered and returned.
Flow(c) ==
  /\ step[c] = "idle" <=> status[c] = "idle"
  /\ step[c] = "idle" => op[c] = NoOp
  /\ op[c].tool = "clear" => status[c] = "ok"
  /\ status[c] = "ok" => step[c] # "sent"
  /\ effects[c] = IF step[c] = "committed" THEN 1 ELSE 0
  /\ step[c] \in {"idle", "sent", "served"} => reply[c] = "none"
  /\ step[c] \in {"served", "written", "committed"} => Changes(c)
  /\ reply[c] # "none" /\ ~late => step[c] \in {"committed", "over"}
  /\ "refused" \in {reply[c], status[c]} => step[c] = "over"
  /\ "ok" \in {reply[c], status[c]} /\ Changes(c) /\ ~late => step[c] = "committed"

\* A request in flight is one that its tool can make.
Request(c) ==
  InFlight(c) =>
    /\ op[c].tool \in AllTools \ {"clear"} /\ op[c].args \in CanGive(op[c].tool)
    /\ op[c].tool \notin {"login", "signup"} => op[c].token \in RealTokens
    /\ op[c].tool \in AccountTools => op[c].id \in User
    /\ op[c].tool \in TodoTools \ {"todoCreate"} => op[c].id \in Todo

\* The row that a request is about to write.
Pending(c) ==
  step[c] \in {"served", "written"} =>
    /\ op[c].tool \in TodoTools => op[c].id \in Todo
    /\ op[c].id \in User => op[c].new \in Accounts
    /\ op[c].id \in Todo => op[c].new \in Todos
    /\ op[c].tool = "todoCreate" /\ op[c].args.owner = None =>
         op[c].new.owner = op[c].token.sub
    /\ op[c].tool = "todoPatch" =>
         \A f \in {"owner", "note"} :
           op[c].new[f] = IF op[c].args[f] # None THEN op[c].args[f] ELSE op[c].old[f]

\* A call with a superseded token gets no further than authentication.
Superseded(c) ==
  op[c].stale /\ ~undone =>
    /\ step[c] \in {"sent", "over"}
    /\ reply[c] # "ok" /\ status[c] # "ok"
    /\ step[c] = "sent" =>
         /\ op[c].tool \notin {"login", "signup"}
         /\ op[c].token \in RealTokens
         /\ op[c].token.tv < accounts[op[c].token.sub].tv

CallInv(c) == Flow(c) /\ Request(c) /\ Pending(c) /\ Superseded(c)

TokensHeld == {session, start} \subseteq Held /\ known \subseteq RealTokens
                /\ \A c \in Call : op[c].grant \in Held

SInv == TypeOK /\ TokensHeld /\ \A c \in Call : CallInv(c)
-----------------------------------------------------------------------------
\* What the tools' signatures allow.
LEMMA ToolsAre ==
  /\ SessionTools = {"login", "clear"}
  /\ AdminTools = {"adminReplace", "adminPatch", "deactivate", "hardDelete"}
  /\ SelfTools = {"getMe", "replaceMe", "patchMe"}
  /\ TodoTools = {"todoRead", "todoCreate", "todoReplace", "todoPatch", "todoDelete"}
  /\ AllTools = SessionTools \cup {"signup"} \cup AdminTools \cup SelfTools \cup TodoTools
  /\ ReadTools = {"login", "clear", "getMe", "todoRead"}
BY DEF SessionTools, AdminTools, SelfTools, TodoTools, AllTools, ReadTools

LEMMA GivenIs ==
  ASSUME NEW tool \in AllTools, NEW args \in CanGive(tool)
  PROVE  /\ args \in Args
         /\ tool = "adminReplace" => args.role \in Role /\ args.active \in BOOLEAN
BY DEF CanGive, AdminArgs, TodoArgs, NoArgs, Args, PasswordArgs, Arguments, No,
       AdminTools, TodoTools, AllTools, SessionTools, SelfTools

LEMMA BodyIs ==
  ASSUME NEW args \in Args, NEW f \in {"owner", "note", "role", "active", "password"}
  PROVE  /\ f \in DOMAIN Body(args) <=> args[f] # None
         /\ args[f] # None => Body(args)[f] = args[f]
BY DEF Body, Args

LEMMA FieldIs ==
  ASSUME NEW args \in Args, NEW otherwise,
         NEW f \in {"owner", "note", "role", "active", "password"}
  PROVE  Field(Body(args), f, otherwise) = IF args[f] # None THEN args[f] ELSE otherwise
BY BodyIs DEF Field
-----------------------------------------------------------------------------
\* What the use cases merge has the type of the row.
LEMMA StateOfIs ==
  ASSUME NEW active \in BOOLEAN
  PROVE  StateOf(active) \in State
BY DEF StateOf, State

LEMMA MergedAccount ==
  ASSUME NEW c \in Call, NEW existing \in Accounts,
         op[c].tool \in AccountTools \ ReadTools, op[c].args \in CanGive(op[c].tool)
  PROVE  Merged(c, existing) \in Accounts
<1> DEFINE args == op[c].args
           body == Body(args)
<1>1. /\ args \in Args
      /\ op[c].tool = "adminReplace" => args.role \in Role /\ args.active \in BOOLEAN
  BY ToolsAre, GivenIs DEF AccountTools
<1>2. existing.role \in Role /\ existing.state \in State /\ existing.tv \in Nat
  BY DEF Accounts
<1>3. CASE op[c].tool = "signup"
  BY <1>3 DEF Merged, Accounts, Role, State
<1>4. CASE op[c].tool = "adminReplace"
  <2>1. body.role = args.role /\ body.active = args.active
    BY <1>1, <1>4, BodyIs, ConstantsOK
  <2>2. StateOf(body.active) \in State
    BY <1>1, <1>4, <2>1, StateOfIs
  <2>3. existing.tv + (IF "password" \in DOMAIN body THEN 1 ELSE 0) \in Nat
    BY <1>2
  <2>4. apply_user_admin_replace(body, existing) \in Accounts
    BY <1>1, <1>4, <2>1, <2>2, <2>3 DEF apply_user_admin_replace, Accounts
  <2>5. QED
    BY <1>4, <2>4 DEF Merged
<1>5. CASE op[c].tool \in {"adminPatch", "replaceMe", "patchMe"}
  <2>1. Field(body, "role", existing.role) \in Role
    BY <1>1, <1>2, FieldIs DEF Args
  <2>2. "active" \in DOMAIN body => StateOf(body.active) \in State
    <3>1. "active" \in DOMAIN body => body.active \in BOOLEAN
      BY <1>1, BodyIs DEF Args
    <3>2. QED
      BY <3>1, StateOfIs
  <2>3. apply_user_patch(body, existing) \in Accounts
    BY <1>2, <2>1, <2>2 DEF apply_user_patch, Accounts
  <2>4. QED
    BY <1>5, <2>3 DEF Merged
<1>6. CASE op[c].tool = "deactivate"
  BY <1>2, <1>6 DEF Merged, Accounts, State
<1>7. CASE op[c].tool = "hardDelete"
  BY <1>2, <1>7 DEF Merged, Accounts, State
<1>8. QED
  BY <1>3, <1>4, <1>5, <1>6, <1>7, ToolsAre DEF AccountTools

LEMMA MergedTodo ==
  ASSUME NEW c \in Call, NEW existing \in Todos,
         op[c].tool \in TodoTools \ ReadTools, op[c].args \in CanGive(op[c].tool),
         op[c].token \in RealTokens
  PROVE  /\ Merged(c, existing) \in Todos
         /\ op[c].tool = "todoCreate" /\ op[c].args.owner = None =>
              Merged(c, existing).owner = op[c].token.sub
         /\ op[c].tool = "todoPatch" =>
              \A f \in {"owner", "note"} :
                Merged(c, existing)[f] = IF op[c].args[f] # None THEN op[c].args[f]
                                         ELSE existing[f]
<1> DEFINE args == op[c].args
           body == Body(args)
<1>1. args \in Args
  BY ToolsAre, GivenIs
<1>2. /\ existing.owner \in User \cup {"unused", "gone"}
      /\ existing.note \in Text \cup {None}
      /\ args.owner \in User \cup {None} /\ args.note \in Text \cup {None}
      /\ op[c].token.sub \in User
  BY <1>1 DEF Todos, Args, RealTokens
<1>3. TodoWrite(body) = [owner |-> args.owner, note |-> args.note]
  BY <1>1, FieldIs DEF TodoWrite
<1>4. CASE op[c].tool = "todoCreate"
  <2>1. Merged(c, existing) = create_to_entity(TodoWrite(body), op[c].token.sub, ActorRole(c))
    BY <1>4 DEF Merged, Bearer
  <2>2. QED
    BY <1>2, <1>3, <1>4, <2>1 DEF create_to_entity, resolve_create_owner_id, Todos
<1>5. CASE op[c].tool = "todoReplace"
  <2>1. Merged(c, existing) = update_to_entity(TodoWrite(body), existing)
    BY <1>5 DEF Merged
  <2>2. QED
    BY <1>2, <1>3, <1>5, <2>1 DEF update_to_entity, resolve_update_owner_id, Todos
<1>6. CASE op[c].tool = "todoPatch"
  <2>1. Merged(c, existing) = [f \in {"owner", "note"} |-> Field(body, f, existing[f])]
    BY <1>6 DEF Merged, apply_todo_patch
  <2>2. \A f \in {"owner", "note"} :
          Field(body, f, existing[f]) = IF args[f] # None THEN args[f] ELSE existing[f]
    BY <1>1, FieldIs
  <2>3. Merged(c, existing) \in Todos
    BY <1>2, <2>1, <2>2 DEF Todos
  <2>4. QED
    BY <1>6, <2>1, <2>2, <2>3
<1>7. CASE op[c].tool = "todoDelete"
  BY <1>7 DEF Merged, NoTodo, Todos
<1>8. QED
  BY <1>4, <1>5, <1>6, <1>7, ToolsAre
-----------------------------------------------------------------------------
\* What a step of one call leaves to the others.
LEMMA OthersKeep ==
  ASSUME NEW d \in Call, CallInv(d), late' = late,
         op'[d] = op[d], step'[d] = step[d], reply'[d] = reply[d],
         status'[d] = status[d], effects'[d] = effects[d],
         ~undone' => ~undone /\ \A u \in User :
           \A tv \in Nat : tv < accounts[u].tv => tv < accounts'[u].tv
  PROVE  CallInv(d)'
<1>1. Flow(d)'
  BY DEF CallInv, Flow, Changes
<1>2. Request(d)' /\ Pending(d)'
  BY DEF CallInv, Request, Pending, InFlight
<1>3. Superseded(d)'
  BY DEF CallInv, Superseded, RealTokens
<1>4. QED
  BY <1>1, <1>2, <1>3 DEF CallInv

Local(c) ==
  /\ op' \in [Call -> Ops] /\ step' \in [Call -> Steps] /\ reply' \in [Call -> Replies]
  /\ status' \in [Call -> Statuses] /\ effects' \in [Call -> Nat]
  /\ \A d \in Call \ {c} :
       /\ op'[d] = op[d] /\ step'[d] = step[d] /\ reply'[d] = reply[d]
       /\ status'[d] = status[d] /\ effects'[d] = effects[d]

Shared ==
  /\ accounts' \in [User -> Accounts] /\ todos' \in [Todo -> Todos] /\ late' = late
  /\ undone' \in BOOLEAN /\ calm' \in BOOLEAN /\ turn' \in Seq(Call)
  /\ session' \in Held /\ start' \in Held /\ known' \subseteq RealTokens
  /\ ~undone' => ~undone /\ \A u \in User :
       \A tv \in Nat : tv < accounts[u].tv => tv < accounts'[u].tv

LEMMA OneCall ==
  ASSUME SInv, NEW c \in Call, Local(c), Shared, CallInv(c)', op'[c].grant \in Held
  PROVE  SInv'
<1>1. ASSUME NEW d \in Call
      PROVE  CallInv(d)'
  <2>1. CASE d = c
    BY <2>1
  <2>2. CASE d # c
    BY <2>2, OthersKeep DEF SInv, Local, Shared
  <2>3. QED
    BY <2>1, <2>2
<1>2. Held \subseteq Tokens /\ RealTokens \subseteq Tokens
  BY DEF Held, RealTokens, Tokens, NoToken
<1>3. TypeOK'
  <2>1. \A d \in Call : status'[d] = "waiting" => step'[d] # "idle"
    BY <1>1 DEF CallInv, Flow
  <2>2. late \in BOOLEAN
    BY DEF SInv, TypeOK
  <2>3. QED
    BY <1>2, <2>1, <2>2 DEF TypeOK, Local, Shared
<1>4. TokensHeld'
  <2>1. \A d \in Call : op'[d].grant \in Held
    BY DEF SInv, TokensHeld, Local
  <2>2. QED
    BY <2>1 DEF TokensHeld, Shared, Held, RealTokens, NoToken
<1>5. QED
  BY <1>1, <1>3, <1>4 DEF SInv

\* The empty operation.
LEMMA NoOpIs ==
  /\ NoOp \in Ops
  /\ NoOp.tool = "none" /\ NoOp.id = None /\ NoOp.token = NoToken
  /\ NoOp.stale = FALSE /\ NoOp.grant = NoToken /\ NoToken \in Held
<1>1. NoArgs \in Args /\ NoToken \in Tokens
  BY DEF NoArgs, Args, NoToken, Tokens
<1>2. QED
  BY <1>1 DEF NoOp, Ops, Rows, Held

LEMMA ClearStep ==
  ASSUME SInv, NEW c \in Call, auth_clear_session(c)
  PROVE  SInv'
<1>1. step[c] = "idle" /\ op[c] = NoOp /\ reply[c] = "none" /\ effects[c] = 0
  BY DEF auth_clear_session, SInv, CallInv, Flow
<1>2. /\ op' = [op EXCEPT ![c].tool = "clear"] /\ step' = [step EXCEPT ![c] = "over"]
      /\ status' = [status EXCEPT ![c] = "ok"] /\ session' = NoToken
      /\ turn' = Append(turn, c) /\ calm' = (calm /\ ~LoginWaiting)
      /\ UNCHANGED <<known, server, reply, effects, start, undone>>
  BY DEF auth_clear_session, SessionCall
<1>3. /\ op'[c].tool = "clear" /\ op'[c].stale = FALSE /\ op'[c].grant = NoToken
      /\ step'[c] = "over" /\ status'[c] = "ok" /\ reply'[c] = "none" /\ effects'[c] = 0
      /\ op' \in [Call -> Ops]
  BY <1>1, <1>2, NoOpIs, ToolsAre DEF SInv, TypeOK, Ops
<1>4. CallInv(c)'
  BY <1>3, ToolsAre DEF CallInv, Flow, Request, Pending, Superseded, Changes, InFlight
<1>5. Local(c)
  BY <1>2, <1>3 DEF SInv, TypeOK, Local, Steps, Statuses
<1>6. Shared
  BY <1>2, NoOpIs DEF SInv, TypeOK, TokensHeld, Shared, server
<1>7. QED
  BY <1>3, <1>4, <1>5, <1>6, NoOpIs, OneCall

LEMMA AnonymousStep ==
  ASSUME SInv, NEW c \in Call, CallAnonymous(c)
  PROVE  SInv'
<1>1. step[c] = "idle" /\ op[c] = NoOp /\ reply[c] = "none" /\ effects[c] = 0
  BY DEF CallAnonymous, SInv, CallInv, Flow
<1>2. PICK tool \in {"login", "signup"} :
         \E u \in Subjects(tool, NoToken), args \in CanGive(tool) :
           op' = [op EXCEPT ![c] = [@ EXCEPT !.tool = tool, !.id = u, !.args = args]]
  BY DEF CallAnonymous
<1>3. PICK u \in Subjects(tool, NoToken), args \in CanGive(tool) :
        op' = [op EXCEPT ![c] = [@ EXCEPT !.tool = tool, !.id = u, !.args = args]]
  BY <1>2
<1>4. /\ step' = [step EXCEPT ![c] = "sent"] /\ status' = [status EXCEPT ![c] = "waiting"]
      /\ UNCHANGED <<session, known, server, reply, effects, start, undone>>
      /\ turn' = turn \/ turn' = Append(turn, c)
      /\ calm' = calm \/ calm' = (calm /\ ~LoginWaiting)
  BY DEF CallAnonymous, SessionCall, Send
<1>5. u \in User /\ tool \in AllTools /\ args \in Args
  BY <1>3, ToolsAre, GivenIs DEF Subjects
<1>6. /\ op'[c] = [NoOp EXCEPT !.tool = tool, !.id = u, !.args = args]
      /\ op' \in [Call -> Ops]
  BY <1>1, <1>3, <1>5, NoOpIs DEF SInv, TypeOK, Ops
<1>7. /\ op'[c].tool = tool /\ op'[c].id = u /\ op'[c].args = args
      /\ op'[c].stale = FALSE /\ op'[c].grant = NoToken
  BY <1>6, NoOpIs DEF Ops
<1>8. step'[c] = "sent" /\ status'[c] = "waiting" /\ reply'[c] = "none" /\ effects'[c] = 0
  BY <1>1, <1>4 DEF SInv, TypeOK
<1>9. CallInv(c)'
  <2>1. Flow(c)' /\ Pending(c)' /\ Superseded(c)'
    BY <1>7, <1>8 DEF Flow, Pending, Superseded
  <2>2. Request(c)'
    BY <1>3, <1>5, <1>7, ToolsAre DEF Request, AccountTools
  <2>3. QED
    BY <2>1, <2>2 DEF CallInv
<1>10. turn' \in Seq(Call) /\ calm' \in BOOLEAN
  <2>1. turn \in Seq(Call) /\ calm \in BOOLEAN
    BY DEF SInv, TypeOK
  <2>2. turn' \in Seq(Call)
    BY <1>4, <2>1
  <2>3. calm' \in BOOLEAN
    BY <1>4, <2>1
  <2>4. QED
    BY <2>2, <2>3
<1>11. Local(c)
  BY <1>3, <1>4, <1>6 DEF SInv, TypeOK, Local, Steps, Statuses
<1>12. Shared
  BY <1>4, <1>10 DEF SInv, TypeOK, TokensHeld, Shared, server
<1>13. QED
  BY <1>7, <1>9, <1>11, <1>12, NoOpIs, OneCall

LEMMA CallToolStep ==
  ASSUME SInv, NEW c \in Call, CallTool(c)
  PROVE  SInv'
<1>1. step[c] = "idle" /\ op[c] = NoOp /\ reply[c] = "none" /\ effects[c] = 0
  BY DEF CallTool, SInv, CallInv, Flow
<1>2. PICK explicit \in known \cup {NoToken}, tool \in Tool \ (SessionTools \cup {"signup"}) :
        LET token == resolve_access_token(explicit) IN
        \/ /\ token # NoToken
           /\ \E id \in Subjects(tool, token), args \in CanGive(tool) :
                op' = [op EXCEPT ![c] = [@ EXCEPT
                         !.tool = tool, !.id = id, !.args = args,
                         !.token = token,
                         !.stale = token.tv < accounts[token.sub].tv]]
           /\ Send(c)
        \/ /\ token = NoToken
           /\ op' = [op EXCEPT ![c].tool = tool]
           /\ step' = [step EXCEPT ![c] = "over"]
           /\ status' = [status EXCEPT ![c] = "refused"]
  BY DEF CallTool
<1> DEFINE token == resolve_access_token(explicit)
<1>3. UNCHANGED <<session, known, server, reply, ghost>>
  BY DEF CallTool
<1>4. tool \in AllTools \ {"login", "clear", "signup"}
  BY ConstantsOK, ToolsAre
<1>5. token \in Held
  BY DEF resolve_access_token, SInv, TokensHeld, Held
<1> HIDE DEF token
<1>6. Shared
  BY <1>3 DEF SInv, TypeOK, TokensHeld, Shared, server, ghost
<1>7. CASE token = NoToken
  <2>1. /\ op' = [op EXCEPT ![c].tool = tool] /\ step' = [step EXCEPT ![c] = "over"]
        /\ status' = [status EXCEPT ![c] = "refused"]
    BY <1>2, <1>7 DEF token
  <2>2. /\ op'[c].tool = tool /\ op'[c].stale = FALSE /\ op'[c].grant = NoToken
        /\ step'[c] = "over" /\ status'[c] = "refused" /\ reply'[c] = "none"
        /\ effects'[c] = 0 /\ op' \in [Call -> Ops]
    BY <1>1, <1>3, <1>4, <2>1, NoOpIs DEF SInv, TypeOK, Ops, ghost
  <2>3. CallInv(c)'
    BY <1>4, <2>2 DEF CallInv, Flow, Request, Pending, Superseded, InFlight
  <2>4. Local(c)
    BY <1>3, <2>1, <2>2 DEF SInv, TypeOK, Local, Steps, Statuses, ghost
  <2>5. QED
    BY <1>6, <2>2, <2>3, <2>4, NoOpIs, OneCall
<1>8. CASE token # NoToken
  <2>1. PICK id \in Subjects(tool, token), args \in CanGive(tool) :
          op' = [op EXCEPT ![c] = [@ EXCEPT
                   !.tool = tool, !.id = id, !.args = args, !.token = token,
                   !.stale = token.tv < accounts[token.sub].tv]]
    BY <1>2, <1>8 DEF token
  <2>2. step' = [step EXCEPT ![c] = "sent"] /\ status' = [status EXCEPT ![c] = "waiting"]
    BY <1>2, <1>8 DEF token, Send
  <2>3. token \in RealTokens /\ token.sub \in User /\ token \in Tokens
    BY <1>5, <1>8 DEF Held, RealTokens, Tokens
  <2>4. /\ tool \in AccountTools => id \in User
        /\ tool \in TodoTools \ {"todoCreate"} => id \in Todo
        /\ id \in User \cup Todo \cup {None}
    BY <1>4, <2>3, ToolsAre DEF Subjects, AccountTools
  <2>5. args \in Args
    BY <1>4, GivenIs
  <2>6. (token.tv < accounts[token.sub].tv) \in BOOLEAN
    OBVIOUS
  <2>7. /\ op'[c].tool = tool /\ op'[c].id = id /\ op'[c].args = args
        /\ op'[c].token = token /\ op'[c].grant = NoToken
        /\ op'[c].stale = (token.tv < accounts[token.sub].tv)
        /\ op' \in [Call -> Ops]
    BY <1>1, <1>4, <2>1, <2>3, <2>4, <2>5, <2>6, NoOpIs DEF SInv, TypeOK, Ops
  <2>8. /\ step'[c] = "sent" /\ status'[c] = "waiting" /\ reply'[c] = "none"
        /\ effects'[c] = 0 /\ accounts' = accounts
    BY <1>1, <1>3, <2>2 DEF SInv, TypeOK, ghost, server
  <2>9. CallInv(c)'
    <3>1. Flow(c)' /\ Pending(c)'
      BY <1>4, <2>7, <2>8 DEF Flow, Pending
    <3>2. Request(c)'
      BY <1>4, <2>3, <2>4, <2>7, ToolsAre DEF Request
    <3>3. Superseded(c)'
      BY <1>4, <2>3, <2>7, <2>8 DEF Superseded
    <3>4. QED
      BY <3>1, <3>2, <3>3 DEF CallInv
  <2>10. Local(c)
    BY <1>3, <2>1, <2>2, <2>7 DEF SInv, TypeOK, Local, Steps, Statuses, ghost
  <2>11. QED
    BY <1>6, <2>7, <2>9, <2>10, NoOpIs, OneCall
<1>9. QED
  BY <1>7, <1>8

\* The steps of the backend.  Finish keeps the tool, whether the token was
\* superseded, and the grant.
LEMMA FinishIs ==
  ASSUME SInv, NEW c \in Call, NEW with \in Replies, NEW how \in Steps, Finish(c, with, how)
  PROVE  /\ op' \in [Call -> Ops] /\ op'[c].tool = op[c].tool
         /\ op'[c].stale = op[c].stale /\ op'[c].grant = op[c].grant
         /\ \A d \in Call \ {c} : op'[d] = op[d]
         /\ reply' = [reply EXCEPT ![c] = with] /\ reply'[c] = with
         /\ step' = [step EXCEPT ![c] = how] /\ step'[c] = how
         /\ reply' \in [Call -> Replies] /\ step' \in [Call -> Steps]
<1> DEFINE o == [NoOp EXCEPT !.tool = op[c].tool, !.stale = op[c].stale, !.grant = op[c].grant]
<1>1. op \in [Call -> Ops] /\ op[c] \in Ops /\ step \in [Call -> Steps]
      /\ reply \in [Call -> Replies]
  BY DEF SInv, TypeOK
<1>2. o \in Ops /\ o.tool = op[c].tool /\ o.stale = op[c].stale /\ o.grant = op[c].grant
  BY <1>1, NoOpIs DEF Ops
<1>3. op' = [op EXCEPT ![c] = o] /\ Answer(c, with, how)
  BY DEF Finish
<1> HIDE DEF o
<1>4. QED
  BY <1>1, <1>2, <1>3 DEF Answer

LEMMA FailsStep ==
  ASSUME SInv, NEW c \in Call, Fails(c)
  PROVE  SInv'
<1> DEFINE with == IF reply[c] = "none" THEN "error" ELSE reply[c]
<1>1. /\ step[c] \in {"sent", "served", "written"} /\ Finish(c, with, "over")
      /\ UNCHANGED <<session, known, server, status, ghost>>
  BY DEF Fails
<1>2. with \in Replies /\ "over" \in Steps /\ with # "none"
  BY DEF SInv, TypeOK, Replies, Steps
<1>3. /\ op' \in [Call -> Ops] /\ op'[c].tool = op[c].tool
      /\ op'[c].stale = op[c].stale /\ op'[c].grant = op[c].grant
      /\ \A d \in Call \ {c} : op'[d] = op[d]
      /\ reply' = [reply EXCEPT ![c] = with] /\ reply'[c] = with
      /\ step' = [step EXCEPT ![c] = "over"] /\ step'[c] = "over"
      /\ reply' \in [Call -> Replies] /\ step' \in [Call -> Steps]
  BY <1>1, <1>2, FinishIs
<1>4. /\ status'[c] = status[c] /\ effects'[c] = effects[c] /\ undone' = undone /\ late' = late
      /\ CallInv(c)
  BY <1>1 DEF SInv, ghost, server
<1>5. CallInv(c)'
  <2>1. Flow(c)'
    BY <1>1, <1>2, <1>3, <1>4 DEF CallInv, Flow, Changes
  <2>2. Request(c)' /\ Pending(c)'
    BY <1>3 DEF Request, Pending, InFlight
  <2>3. Superseded(c)'
    BY <1>1, <1>3, <1>4 DEF CallInv, Superseded
  <2>4. QED
    BY <2>1, <2>2, <2>3 DEF CallInv
<1>6. Local(c)
  BY <1>1, <1>3 DEF SInv, TypeOK, Local, ghost
<1>7. Shared
  BY <1>1 DEF SInv, TypeOK, TokensHeld, Shared, server, ghost
<1>8. op'[c].grant \in Held
  BY <1>3 DEF SInv, TokensHeld
<1>9. QED
  BY <1>5, <1>6, <1>7, <1>8, OneCall

LEMMA RespondStep ==
  ASSUME SInv, NEW c \in Call, Respond(c)
  PROVE  SInv'
<1>1. /\ step[c] = IF late THEN "written" ELSE "committed"
      /\ reply[c] = "none"
      /\ reply' = [reply EXCEPT ![c] = "ok"] /\ step' = [step EXCEPT ![c] = step[c]]
      /\ UNCHANGED <<session, known, server, op, status, ghost>>
  BY DEF Respond, Answer
<1>2. /\ reply'[c] = "ok" /\ step'[c] = step[c] /\ op'[c] = op[c]
      /\ status'[c] = status[c] /\ effects'[c] = effects[c] /\ undone' = undone /\ late' = late
      /\ accounts' = accounts /\ CallInv(c)
  BY <1>1 DEF SInv, TypeOK, ghost, server
<1>3. late \in BOOLEAN
  BY DEF SInv, TypeOK
<1>4. CallInv(c)'
  <2>1. Flow(c)'
    BY <1>1, <1>2, <1>3 DEF CallInv, Flow, Changes
  <2>2. Request(c)' /\ Pending(c)'
    BY <1>2 DEF CallInv, Request, Pending, InFlight
  <2>3. Superseded(c)'
    BY <1>1, <1>2 DEF CallInv, Superseded
  <2>4. QED
    BY <2>1, <2>2, <2>3 DEF CallInv
<1>5. Local(c)
  BY <1>1 DEF SInv, TypeOK, Local, ghost, Replies
<1>6. Shared
  BY <1>1 DEF SInv, TypeOK, TokensHeld, Shared, server, ghost
<1>7. op'[c].grant \in Held
  BY <1>2 DEF SInv, TokensHeld
<1>8. QED
  BY <1>4, <1>5, <1>6, <1>7, OneCall

LEMMA WriteStep ==
  ASSUME SInv, NEW c \in Call, Write(c)
  PROVE  SInv'
<1>1. /\ step[c] = "served" /\ UNCHANGED <<session, known, server, status, ghost>>
      /\ \/ Answer(c, "none", "written") /\ UNCHANGED op
         \/ Finish(c, "refused", "over")
  BY DEF Write
<1>2. /\ status'[c] = status[c] /\ effects'[c] = effects[c] /\ undone' = undone /\ late' = late
      /\ CallInv(c) /\ step \in [Call -> Steps] /\ reply \in [Call -> Replies]
      /\ op \in [Call -> Ops] /\ "none" \in Replies /\ "refused" \in Replies
      /\ "written" \in Steps /\ "over" \in Steps /\ op[c].grant \in Held
  BY <1>1 DEF SInv, TypeOK, TokensHeld, ghost, server, Replies, Steps
<1>3. Shared
  BY <1>1 DEF SInv, TypeOK, TokensHeld, Shared, server, ghost
<1>4. CASE Answer(c, "none", "written") /\ UNCHANGED op
  <2>1. /\ reply'[c] = "none" /\ step'[c] = "written" /\ op'[c] = op[c]
        /\ reply' = [reply EXCEPT ![c] = "none"] /\ step' = [step EXCEPT ![c] = "written"]
    BY <1>2, <1>4 DEF Answer
  <2>2. CallInv(c)'
    <3>1. Flow(c)'
      BY <1>1, <1>2, <2>1 DEF CallInv, Flow, Changes
    <3>2. Request(c)' /\ Pending(c)'
      BY <1>1, <1>2, <2>1 DEF CallInv, Request, Pending, InFlight
    <3>3. Superseded(c)'
      BY <1>1, <1>2, <2>1 DEF CallInv, Superseded
    <3>4. QED
      BY <3>1, <3>2, <3>3 DEF CallInv
  <2>3. Local(c)
    BY <1>1, <1>2, <1>4, <2>1 DEF SInv, TypeOK, Local, ghost
  <2>4. QED
    BY <1>2, <1>3, <2>1, <2>2, <2>3, OneCall
<1>5. CASE Finish(c, "refused", "over")
  <2>1. /\ op' \in [Call -> Ops] /\ op'[c].tool = op[c].tool
        /\ op'[c].stale = op[c].stale /\ op'[c].grant = op[c].grant
        /\ \A d \in Call \ {c} : op'[d] = op[d]
        /\ reply' = [reply EXCEPT ![c] = "refused"] /\ reply'[c] = "refused"
        /\ step' = [step EXCEPT ![c] = "over"] /\ step'[c] = "over"
        /\ reply' \in [Call -> Replies] /\ step' \in [Call -> Steps]
    BY <1>2, <1>5, FinishIs
  <2>2. CallInv(c)'
    <3>1. Flow(c)'
      BY <1>1, <1>2, <2>1 DEF CallInv, Flow, Changes
    <3>2. Request(c)' /\ Pending(c)'
      BY <2>1 DEF Request, Pending, InFlight
    <3>3. Superseded(c)'
      BY <1>1, <1>2, <2>1 DEF CallInv, Superseded
    <3>4. QED
      BY <3>1, <3>2, <3>3 DEF CallInv
  <2>3. Local(c)
    BY <1>1, <2>1 DEF SInv, TypeOK, Local, ghost
  <2>4. QED
    BY <1>2, <1>3, <2>1, <2>2, <2>3, OneCall
<1>6. QED
  BY <1>1, <1>4, <1>5

\* Authentication refuses a superseded token before anything is read.
LEMMA StaleIsRefused ==
  ASSUME SInv, NEW c \in Call, step[c] = "sent", op[c].stale, ~undone
  PROVE  Refuses(c)
<1>1. /\ op[c].tool \notin {"login", "signup"} /\ op[c].token \in RealTokens
      /\ op[c].token.tv < accounts[op[c].token.sub].tv
  BY DEF SInv, CallInv, Superseded
<1>2. op[c].token.tv \in Nat /\ op[c].token.sub \in User
  BY <1>1 DEF RealTokens
<1>3. accounts[op[c].token.sub].tv \in Nat
  BY <1>2 DEF SInv, TypeOK, Accounts
<1>4. ~Accepted(Bearer(c))
  BY <1>1, <1>2, <1>3 DEF Accepted, Bearer
<1>5. QED
  BY <1>1, <1>4 DEF Refuses

LEMMA ServeStep ==
  ASSUME SInv, NEW c \in Call, Serve(c)
  PROVE  SInv'
<1>1. /\ step[c] = "sent" /\ UNCHANGED <<session, known, server, status, ghost>>
      /\ \/ Finish(c, "refused", "over")
         \/ /\ ~Refuses(c) /\ op[c].tool \in ReadTools
            /\ op' = [op EXCEPT ![c] = [NoOp EXCEPT !.tool = op[c].tool,
                 !.stale = op[c].stale,
                 !.grant = IF op[c].tool = "login" THEN TokenOf(op[c].id) ELSE @]]
            /\ Answer(c, "ok", "over")
         \/ /\ ~Refuses(c) /\ op[c].tool \notin ReadTools
            /\ \E id \in IF op[c].tool = "todoCreate" THEN NewIds ELSE {op[c].id} :
                 op' = [op EXCEPT ![c] = [@ EXCEPT
                          !.id = id, !.actor = Bearer(c).sub,
                          !.role = ActorRole(c),
                          !.old = Row(id), !.new = Merged(c, Row(id))]]
            /\ Answer(c, "none", "served")
  BY DEF Serve
<1>2. /\ status'[c] = status[c] /\ effects'[c] = effects[c] /\ undone' = undone /\ late' = late
      /\ CallInv(c) /\ step \in [Call -> Steps] /\ reply \in [Call -> Replies]
      /\ op \in [Call -> Ops] /\ op[c] \in Ops /\ op[c].grant \in Held
      /\ accounts \in [User -> Accounts] /\ todos \in [Todo -> Todos]
  BY <1>1 DEF SInv, TypeOK, TokensHeld, ghost, server
<1>3. {"none", "refused", "ok"} \subseteq Replies /\ {"over", "served"} \subseteq Steps
  BY DEF Replies, Steps
<1>4. Shared
  BY <1>1 DEF SInv, TypeOK, TokensHeld, Shared, server, ghost
<1>5. CASE Finish(c, "refused", "over")
  <2>1. /\ op' \in [Call -> Ops] /\ op'[c].tool = op[c].tool
        /\ op'[c].stale = op[c].stale /\ op'[c].grant = op[c].grant
        /\ \A d \in Call \ {c} : op'[d] = op[d]
        /\ reply' = [reply EXCEPT ![c] = "refused"] /\ reply'[c] = "refused"
        /\ step' = [step EXCEPT ![c] = "over"] /\ step'[c] = "over"
        /\ reply' \in [Call -> Replies] /\ step' \in [Call -> Steps]
    BY <1>3, <1>5, FinishIs
  <2>2. CallInv(c)'
    <3>1. Flow(c)'
      BY <1>1, <1>2, <2>1 DEF CallInv, Flow, Changes
    <3>2. Request(c)' /\ Pending(c)'
      BY <2>1 DEF Request, Pending, InFlight
    <3>3. Superseded(c)'
      BY <1>1, <1>2, <2>1 DEF CallInv, Superseded
    <3>4. QED
      BY <3>1, <3>2, <3>3 DEF CallInv
  <2>3. Local(c)
    BY <1>1, <2>1 DEF SInv, TypeOK, Local, ghost
  <2>4. QED
    BY <1>2, <1>4, <2>1, <2>2, <2>3, OneCall
<1>6. CASE /\ ~Refuses(c) /\ op[c].tool \in ReadTools
           /\ op' = [op EXCEPT ![c] = [NoOp EXCEPT !.tool = op[c].tool,
                !.stale = op[c].stale,
                !.grant = IF op[c].tool = "login" THEN TokenOf(op[c].id) ELSE @]]
           /\ Answer(c, "ok", "over")
  <2> DEFINE grant == IF op[c].tool = "login" THEN TokenOf(op[c].id) ELSE NoOp.grant
             o == [NoOp EXCEPT !.tool = op[c].tool, !.stale = op[c].stale, !.grant = grant]
  <2>1. grant \in Held /\ grant \in Tokens
    <3>1. ASSUME op[c].tool = "login"
          PROVE  TokenOf(op[c].id) \in RealTokens
      <4>1. op[c].id \in User
        BY <1>1, <1>2, <3>1 DEF CallInv, Request, InFlight, AccountTools
      <4>2. QED
        BY <1>2, <4>1 DEF TokenOf, RealTokens, Accounts
    <3>2. QED
      BY <3>1, NoOpIs DEF Held, RealTokens, Tokens, NoToken
  <2>2. op' = [op EXCEPT ![c] = o]
    BY <1>6
  <2> HIDE DEF grant
  <2>3. o \in Ops /\ o.tool = op[c].tool /\ o.stale = op[c].stale /\ o.grant = grant
    BY <1>2, <2>1, NoOpIs DEF Ops
  <2> HIDE DEF o
  <2>4. /\ op' \in [Call -> Ops] /\ op'[c] = o /\ reply'[c] = "ok" /\ step'[c] = "over"
        /\ reply' = [reply EXCEPT ![c] = "ok"] /\ step' = [step EXCEPT ![c] = "over"]
    BY <1>2, <1>6, <2>2, <2>3 DEF Answer
  <2>5. CallInv(c)'
    <3>1. Flow(c)'
      BY <1>1, <1>2, <1>6, <2>3, <2>4 DEF CallInv, Flow, Changes
    <3>2. Request(c)' /\ Pending(c)'
      BY <2>4 DEF Request, Pending, InFlight
    <3>3. Superseded(c)'
      BY <1>1, <1>2, <1>6, <2>3, <2>4, StaleIsRefused DEF Superseded
    <3>4. QED
      BY <3>1, <3>2, <3>3 DEF CallInv
  <2>6. Local(c)
    BY <1>1, <1>2, <1>3, <2>2, <2>4 DEF SInv, TypeOK, Local, ghost
  <2>7. QED
    BY <1>4, <2>1, <2>3, <2>4, <2>5, <2>6, OneCall
<1>7. CASE /\ ~Refuses(c) /\ op[c].tool \notin ReadTools
           /\ \E id \in IF op[c].tool = "todoCreate" THEN NewIds ELSE {op[c].id} :
                op' = [op EXCEPT ![c] = [@ EXCEPT
                         !.id = id, !.actor = Bearer(c).sub,
                         !.role = ActorRole(c),
                         !.old = Row(id), !.new = Merged(c, Row(id))]]
           /\ Answer(c, "none", "served")
  <2>1. PICK id \in IF op[c].tool = "todoCreate" THEN NewIds ELSE {op[c].id} :
          op' = [op EXCEPT ![c] = [@ EXCEPT
                   !.id = id, !.actor = Bearer(c).sub, !.role = ActorRole(c),
                   !.old = Row(id), !.new = Merged(c, Row(id))]]
    BY <1>7
  <2>2. /\ op[c].tool \in AllTools \ {"clear"} /\ op[c].args \in CanGive(op[c].tool)
        /\ op[c].tool \notin {"login", "signup"} => op[c].token \in RealTokens
        /\ op[c].tool \in AccountTools => op[c].id \in User
        /\ op[c].tool \in TodoTools \ {"todoCreate"} => op[c].id \in Todo
        /\ op[c].tool \notin ReadTools
    BY <1>1, <1>2, <1>7 DEF CallInv, Request, InFlight
  <2>3. /\ op[c].tool \in AccountTools => id \in User
        /\ op[c].tool \in TodoTools => id \in Todo
        /\ op[c].tool \in AccountTools \/ op[c].tool \in TodoTools
    BY <2>1, <2>2, ToolsAre DEF AccountTools, NewIds
  <2>4. /\ op[c].tool \in AccountTools =>
             Row(id) \in Accounts /\ Merged(c, Row(id)) \in Accounts
        /\ op[c].tool \in TodoTools =>
             /\ Row(id) \in Todos /\ Merged(c, Row(id)) \in Todos
             /\ op[c].tool = "todoCreate" /\ op[c].args.owner = None =>
                  Merged(c, Row(id)).owner = op[c].token.sub
             /\ op[c].tool = "todoPatch" =>
                  \A f \in {"owner", "note"} :
                    Merged(c, Row(id))[f] = IF op[c].args[f] # None THEN op[c].args[f]
                                            ELSE Row(id)[f]
    <3>1. /\ op[c].tool \in AccountTools => Row(id) \in Accounts
          /\ op[c].tool \in TodoTools => Row(id) \in Todos
      BY <1>2, <2>3, ConstantsOK DEF Row
    <3>2. op[c].tool \in TodoTools => op[c].token \in RealTokens
      BY <2>2, ToolsAre
    <3>3. QED
      BY <2>2, <3>1, <3>2, MergedAccount, MergedTodo
  <2> DEFINE old == Row(id)
             new == Merged(c, Row(id))
             actor == Bearer(c).sub
             role == ActorRole(c)
             o == [op[c] EXCEPT !.id = id, !.actor = actor, !.role = role,
                                !.old = old, !.new = new]
  <2>5. old \in Rows /\ new \in Rows
    BY <2>3, <2>4 DEF Rows
  <2>6. actor \in User \cup {None} /\ role \in Role \cup {"none"}
    BY <1>2, ConstantsOK DEF Bearer, ActorRole, Ops, Tokens, Accounts
  <2>7. op' = [op EXCEPT ![c] = o]
    BY <2>1
  <2> HIDE DEF old, new, actor, role
  <2>8. /\ o \in Ops /\ o.tool = op[c].tool /\ o.stale = op[c].stale /\ o.grant = op[c].grant
        /\ o.id = id /\ o.old = old /\ o.new = new /\ o.args = op[c].args
        /\ o.token = op[c].token
    BY <1>2, <2>3, <2>5, <2>6 DEF Ops
  <2> HIDE DEF o
  <2>9. /\ op' \in [Call -> Ops] /\ op'[c] = o /\ reply'[c] = "none" /\ step'[c] = "served"
        /\ reply' = [reply EXCEPT ![c] = "none"] /\ step' = [step EXCEPT ![c] = "served"]
    BY <1>2, <1>7, <2>7, <2>8 DEF Answer
  <2>10. CallInv(c)'
    <3>1. Flow(c)'
      BY <1>1, <1>2, <1>7, <2>8, <2>9 DEF CallInv, Flow, Changes
    <3>2. Request(c)'
      BY <2>2, <2>3, <2>8, <2>9 DEF Request
    <3>3. Pending(c)'
      <4>1. /\ id \in User => new \in Accounts
            /\ id \in Todo => new \in Todos
        BY <2>3, <2>4, ConstantsOK DEF new
      <4>2. /\ op[c].tool = "todoCreate" /\ op[c].args.owner = None =>
                 new.owner = op[c].token.sub
            /\ op[c].tool = "todoPatch" =>
                 \A f \in {"owner", "note"} :
                   new[f] = IF op[c].args[f] # None THEN op[c].args[f] ELSE old[f]
        BY <2>4, ToolsAre DEF new, old
      <4>3. QED
        BY <2>3, <2>8, <2>9, <4>1, <4>2 DEF Pending
    <3>4. Superseded(c)'
      BY <1>1, <1>2, <1>7, <2>8, <2>9, StaleIsRefused DEF Superseded
    <3>5. QED
      BY <3>1, <3>2, <3>3, <3>4 DEF CallInv
  <2>11. Local(c)
    BY <1>1, <1>2, <1>3, <2>7, <2>9 DEF SInv, TypeOK, Local, ghost
  <2>12. QED
    BY <1>2, <1>4, <2>8, <2>9, <2>10, <2>11, OneCall
<1>8. QED
  BY <1>1, <1>5, <1>6, <1>7

LEMMA CommitStep ==
  ASSUME SInv, NEW c \in Call, Commit(c)
  PROVE  SInv'
<1>1. PICK with \in {reply[c], "error"} :
        Finish(c, with, "committed") /\ (with = reply[c] \/ ~late)
  BY DEF Commit
<1>2. /\ step[c] = "written" /\ (late => reply[c] = "ok")
      /\ accounts' = IF op[c].id \in User
                     THEN [accounts EXCEPT ![op[c].id] = op[c].new] ELSE accounts
      /\ todos' = [t \in Todo |->
                     CASE t = op[c].id -> op[c].new
                       [] op[c].tool = "hardDelete" /\ todos[t].owner = op[c].id ->
                            NoTodo("gone")
                       [] OTHER -> todos[t]]
      /\ effects' = [effects EXCEPT ![c] = @ + 1]
      /\ undone' = (undone \/ \E u \in User : accounts'[u].tv < accounts[u].tv)
      /\ UNCHANGED <<session, known, late, status, start, turn, calm>>
  BY DEF Commit
<1>3. /\ CallInv(c) /\ accounts \in [User -> Accounts] /\ todos \in [Todo -> Todos]
      /\ effects \in [Call -> Nat] /\ reply[c] \in Replies /\ op[c].grant \in Held
      /\ late \in BOOLEAN /\ status \in [Call -> Statuses]
  BY DEF SInv, TypeOK, TokensHeld
<1>4. with \in Replies /\ "committed" \in Steps
  BY <1>1, <1>3 DEF Replies, Steps
<1>5. /\ op' \in [Call -> Ops] /\ op'[c].tool = op[c].tool
      /\ op'[c].stale = op[c].stale /\ op'[c].grant = op[c].grant
      /\ \A d \in Call \ {c} : op'[d] = op[d]
      /\ reply' = [reply EXCEPT ![c] = with] /\ reply'[c] = with
      /\ step' = [step EXCEPT ![c] = "committed"] /\ step'[c] = "committed"
      /\ reply' \in [Call -> Replies] /\ step' \in [Call -> Steps]
  BY <1>1, <1>4, FinishIs
<1>6. /\ op[c].id \in User => op[c].new \in Accounts
      /\ op[c].id \in Todo => op[c].new \in Todos
  BY <1>2, <1>3 DEF CallInv, Pending
<1>7. accounts' \in [User -> Accounts]
  BY <1>2, <1>3, <1>6
<1>8. todos' \in [Todo -> Todos]
  <2>1. NoTodo("gone") \in Todos
    BY DEF NoTodo, Todos
  <2>2. QED
    BY <1>2, <1>3, <1>6, <2>1
<1>9. ~undone' => ~undone /\ \A u \in User :
        \A tv \in Nat : tv < accounts[u].tv => tv < accounts'[u].tv
  <2>1. \A u \in User : accounts[u].tv \in Nat /\ accounts'[u].tv \in Nat
    BY <1>3, <1>7 DEF Accounts
  <2>2. undone' <=> undone \/ \E u \in User : accounts'[u].tv < accounts[u].tv
    BY <1>2
  <2>3. ASSUME ~undone', NEW u \in User, NEW tv \in Nat, tv < accounts[u].tv
        PROVE  tv < accounts'[u].tv
    <3>1. ~(accounts'[u].tv < accounts[u].tv)
      BY <2>2, <2>3
    <3>2. QED
      BY <2>1, <2>3, <3>1
  <2>4. QED
    BY <2>2, <2>3
<1>10. effects'[c] = effects[c] + 1 /\ status'[c] = status[c] /\ late' = late
  BY <1>2, <1>3
<1>11. CallInv(c)'
  <2>1. Flow(c)'
    <3>1. effects'[c] = 1
      BY <1>2, <1>3, <1>10 DEF CallInv, Flow
    <3>2. with # "refused" /\ (~late => with # "ok")
      BY <1>1, <1>2, <1>3 DEF CallInv, Flow
    <3>3. QED
      BY <1>2, <1>3, <1>5, <1>10, <3>1, <3>2 DEF CallInv, Flow, Changes
  <2>2. Request(c)' /\ Pending(c)'
    BY <1>5 DEF Request, Pending, InFlight
  <2>3. Superseded(c)'
    BY <1>2, <1>3, <1>5 DEF CallInv, Superseded
  <2>4. QED
    BY <2>1, <2>2, <2>3 DEF CallInv
<1>12. Local(c)
  BY <1>2, <1>3, <1>5 DEF Local
<1>13. undone' \in BOOLEAN
  BY <1>2
<1>14. Shared
  BY <1>2, <1>7, <1>8, <1>9, <1>13 DEF SInv, TypeOK, TokensHeld, Shared
<1>15. QED
  BY <1>3, <1>5, <1>11, <1>12, <1>14, OneCall

\* The steps in which a tool returns.
LEMMA ReturnStep ==
  ASSUME SInv, NEW c \in Call, Return(c)
  PROVE  SInv'
<1>1. /\ status[c] = "waiting" /\ reply[c] # "none"
      /\ status' = [status EXCEPT ![c] = reply[c]]
      /\ session' \in {session, op[c].grant}
      /\ known' = known \cup ({op[c].grant} \ {NoToken})
      /\ UNCHANGED <<server, op, step, reply, ghost>>
  BY DEF Return, SessionAfter
<1>2. /\ CallInv(c) /\ op[c].grant \in Held /\ status \in [Call -> Statuses]
      /\ reply[c] \in Replies /\ step[c] # "idle"
  BY <1>1 DEF SInv, TypeOK, TokensHeld
<1>3. /\ status'[c] = reply[c] /\ op'[c] = op[c] /\ step'[c] = step[c]
      /\ reply'[c] = reply[c] /\ effects'[c] = effects[c] /\ late' = late
      /\ undone' = undone /\ accounts' = accounts
      /\ status' \in [Call -> Statuses]
  BY <1>1, <1>2 DEF ghost, server, Replies, Statuses
<1>4. CallInv(c)'
  <2>1. Flow(c)'
    BY <1>1, <1>2, <1>3 DEF CallInv, Flow, Changes, Replies
  <2>2. Request(c)' /\ Pending(c)'
    BY <1>2, <1>3 DEF CallInv, Request, Pending, InFlight
  <2>3. Superseded(c)'
    BY <1>2, <1>3 DEF CallInv, Superseded
  <2>4. QED
    BY <2>1, <2>2, <2>3 DEF CallInv
<1>5. Local(c)
  BY <1>1, <1>3 DEF SInv, TypeOK, Local, ghost
<1>6. Shared
  BY <1>1, <1>2 DEF SInv, TypeOK, TokensHeld, Shared, server, ghost, Held
<1>7. QED
  BY <1>2, <1>3, <1>4, <1>5, <1>6, OneCall

LEMMA GiveUpStep ==
  ASSUME SInv, NEW c \in Call, GiveUp(c)
  PROVE  SInv'
<1>1. /\ status[c] = "waiting" /\ status' = [status EXCEPT ![c] = "unknown"]
      /\ UNCHANGED <<session, known, server, op, step, reply, ghost>>
  BY DEF GiveUp
<1>2. /\ CallInv(c) /\ op[c].grant \in Held /\ status \in [Call -> Statuses]
      /\ step[c] # "idle"
  BY <1>1 DEF SInv, TypeOK, TokensHeld
<1>3. /\ status'[c] = "unknown" /\ op'[c] = op[c] /\ step'[c] = step[c]
      /\ reply'[c] = reply[c] /\ effects'[c] = effects[c] /\ late' = late
      /\ undone' = undone /\ accounts' = accounts
      /\ status' \in [Call -> Statuses]
  BY <1>1, <1>2 DEF ghost, server, Statuses
<1>4. CallInv(c)'
  <2>1. Flow(c)'
    BY <1>1, <1>2, <1>3 DEF CallInv, Flow, Changes
  <2>2. Request(c)' /\ Pending(c)'
    BY <1>2, <1>3 DEF CallInv, Request, Pending, InFlight
  <2>3. Superseded(c)'
    BY <1>2, <1>3 DEF CallInv, Superseded
  <2>4. QED
    BY <2>1, <2>2, <2>3 DEF CallInv
<1>5. Local(c)
  BY <1>1, <1>3 DEF SInv, TypeOK, Local, ghost
<1>6. Shared
  BY <1>1, <1>2 DEF SInv, TypeOK, TokensHeld, Shared, server, ghost
<1>7. QED
  BY <1>2, <1>3, <1>4, <1>5, <1>6, OneCall

LEMMA RestartStep ==
  ASSUME SInv, Restart
  PROVE  SInv'
<1>1. /\ session' = NoToken /\ start' = NoToken /\ turn' = <<>>
      /\ status' = [d \in Call |-> IF status[d] = "waiting" THEN "unknown" ELSE status[d]]
      /\ UNCHANGED <<known, server, op, step, reply, effects, calm, undone>>
  BY DEF Restart
<1>2. ASSUME NEW d \in Call
      PROVE  CallInv(d)'
  <2>1. /\ status'[d] = IF status[d] = "waiting" THEN "unknown" ELSE status[d]
        /\ op'[d] = op[d] /\ step'[d] = step[d] /\ reply'[d] = reply[d]
        /\ effects'[d] = effects[d] /\ late' = late /\ undone' = undone
        /\ accounts' = accounts /\ CallInv(d)
    BY <1>1 DEF SInv, server
  <2>2. Flow(d)'
    BY <2>1 DEF CallInv, Flow, Changes
  <2>3. Request(d)' /\ Pending(d)'
    BY <2>1 DEF CallInv, Request, Pending, InFlight
  <2>4. Superseded(d)'
    BY <2>1 DEF CallInv, Superseded
  <2>5. QED
    BY <2>2, <2>3, <2>4 DEF CallInv
<1>3. status' \in [Call -> Statuses]
  BY <1>1 DEF SInv, TypeOK, Statuses
<1>4. \A d \in Call : status'[d] = "waiting" => step'[d] # "idle"
  BY <1>1 DEF SInv, TypeOK
<1>5. NoToken \in Tokens /\ NoToken \in Held
  BY DEF NoToken, Tokens, Held
<1>6. TypeOK'
  BY <1>1, <1>3, <1>4, <1>5 DEF SInv, TypeOK, server
<1>7. TokensHeld'
  BY <1>1, <1>5 DEF SInv, TokensHeld
<1>8. QED
  BY <1>2, <1>6, <1>7 DEF SInv

LEMMA InitSInv ==
  ASSUME Init
  PROVE  SInv
<1>1. /\ late \in BOOLEAN /\ calm = TRUE /\ undone = FALSE /\ turn = <<>>
      /\ start = session /\ known = {session} \ {NoToken}
      /\ op = [c \in Call |-> NoOp] /\ step = [c \in Call |-> "idle"]
      /\ reply = [c \in Call |-> "none"] /\ status = [c \in Call |-> "idle"]
      /\ effects = [c \in Call |-> 0]
  BY DEF Init
<1>2. accounts \in [User -> Accounts]
  <2>1. accounts \in [User -> {[role |-> r, state |-> s, tv |-> 0] :
                                r \in Role, s \in {"unused", "active"}}]
    BY DEF Init
  <2>2. QED
    BY <2>1 DEF Accounts, State
<1>3. todos \in [Todo -> Todos]
  <2>1. todos \in [Todo -> {NoTodo("unused")} \cup
                   [owner: {u \in User : accounts[u].state = "active"}, note: Text]]
    BY DEF Init
  <2>2. QED
    BY <2>1 DEF Todos, NoTodo
<1>4. session \in Held
  <2>1. session \in {NoToken} \cup
          {TokenOf(u) : u \in {v \in User : Exists(accounts[v])}}
    BY DEF Init
  <2>2. QED
    BY <1>2, <2>1 DEF Held, RealTokens, TokenOf, Accounts
<1>5. Held \subseteq Tokens /\ NoToken \in Held
  BY DEF Held, RealTokens, Tokens, NoToken
<1>6. TypeOK
  <2>1. {session, start} \subseteq Tokens /\ known \subseteq Tokens
    BY <1>1, <1>4, <1>5
  <2>2. {late, calm, undone} \subseteq BOOLEAN
    BY <1>1
  <2>3. op \in [Call -> Ops] /\ turn \in Seq(Call)
    BY <1>1, NoOpIs
  <2>4. /\ step \in [Call -> Steps] /\ reply \in [Call -> Replies]
        /\ status \in [Call -> Statuses] /\ effects \in [Call -> Nat]
        /\ \A c \in Call : status[c] = "waiting" => step[c] # "idle"
    BY <1>1 DEF Steps, Replies, Statuses
  <2>5. QED
    BY <1>2, <1>3, <2>1, <2>2, <2>3, <2>4 DEF TypeOK
<1>7. TokensHeld
  BY <1>1, <1>4, <1>5, NoOpIs DEF TokensHeld, Held
<1>8. ASSUME NEW c \in Call
      PROVE  CallInv(c)
  BY <1>1, NoOpIs DEF CallInv, Flow, Request, Pending, Superseded, InFlight
<1>9. QED
  BY <1>6, <1>7, <1>8 DEF SInv

LEMMA NextSInv ==
  ASSUME SInv, [Next]_vars
  PROVE  SInv'
<1>1. CASE UNCHANGED vars
  <2>1. /\ UNCHANGED <<session, known, accounts, todos, late, op, step, reply, status>>
        /\ UNCHANGED <<effects, start, turn, calm, undone>>
    BY <1>1 DEF vars, server, ghost
  <2>2. TypeOK' /\ TokensHeld'
    BY <2>1 DEF SInv, TypeOK, TokensHeld
  <2>3. ASSUME NEW d \in Call
        PROVE  CallInv(d)'
    BY <2>1 DEF SInv, CallInv, Flow, Request, Pending, Superseded, InFlight, Changes
  <2>4. QED
    BY <2>2, <2>3 DEF SInv
<1>2. CASE Restart
  BY <1>2, RestartStep
<1>3. ASSUME NEW c \in Call, CallSome(c) \/ Backend(c) \/ Ends(c)
      PROVE  SInv'
  BY <1>3, ClearStep, AnonymousStep, CallToolStep, ServeStep, WriteStep, CommitStep,
     RespondStep, FailsStep, ReturnStep, GiveUpStep DEF CallSome, Backend, Ends
<1>4. QED
  BY <1>1, <1>2, <1>3 DEF Next

\* Every state is as SInv says.
THEOREM Invariant == Spec => []SInv
<1>1. Init => SInv
  BY InitSInv
<1>2. SInv /\ [Next]_vars => SInv'
  BY NextSInv
<1>3. QED
  BY <1>1, <1>2, PTL DEF Spec

\* The variables of the session, the backend and the calls keep their types.
THEOREM TypeCorrect == Spec => []TypeOK
<1>1. SInv => TypeOK
  BY DEF SInv
<1>2. QED
  BY <1>1, Invariant, PTL

\* A tool's success means that the change was made once, its refusal that it
\* was not and will not be, and no report stands for two changes.
THEOREM AnswersAlwaysTrue == Spec => []AnswersAreTrue
<1>1. SInv => AnswersAreTrue
  BY DEF SInv, CallInv, Flow, AnswersAreTrue
<1>2. QED
  BY <1>1, Invariant, PTL

\* A token that a password change has superseded does nothing any more, unless
\* a later write has put the older version back.
THEOREM SupersededAlwaysRefused == Spec => []SupersededTokenRefused
<1>1. SInv => SupersededTokenRefused
  BY DEF SInv, CallInv, Flow, Superseded, SupersededTokenRefused
<1>2. QED
  BY <1>1, Invariant, PTL
-----------------------------------------------------------------------------
\* A request that was written and then is committed has taken the commit.
LEMMA CommitsOnly ==
  ASSUME SInv, [Next]_vars, NEW c \in Call, step[c] = "written", step'[c] = "committed"
  PROVE  Commit(c)
<1>1. step \in [Call -> Steps]
  BY DEF SInv, TypeOK
<1>2. PICK d \in Call : CallSome(d) \/ Backend(d) \/ Ends(d)
  BY DEF Next, Restart, vars
<1>3. auth_clear_session(d) \/ CallAnonymous(d) \/ CallTool(d) => step'[c] # "committed" \/ step'[c] = step[c]
  BY <1>1 DEF auth_clear_session, CallAnonymous, CallTool, Send
<1>4. Serve(d) \/ Write(d) \/ Respond(d) \/ Fails(d)
        => step'[c] # "committed" \/ step'[c] = step[c]
  BY <1>1 DEF Serve, Write, Respond, Fails, Finish, Answer
<1>5. Return(d) \/ GiveUp(d) => step'[c] = step[c]
  BY DEF Return, GiveUp
<1>6. Commit(d)
  BY <1>2, <1>3, <1>4, <1>5 DEF CallSome, Backend, Ends
<1>7. d = c
  BY <1>1, <1>6 DEF Commit, Finish, Answer
<1>8. QED
  BY <1>6, <1>7

\* A commit of a todo tool puts its row in place.
LEMMA CommitOfTodo ==
  ASSUME SInv, NEW c \in Call, Commit(c), op[c].tool \in TodoTools
  PROVE  op[c].id \in Todo /\ todos'[op[c].id] = op[c].new
<1>1. op[c].id \in Todo
  BY DEF Commit, SInv, CallInv, Pending
<1>2. QED
  BY <1>1, ToolsAre DEF Commit

\* A todo created without owner_id belongs to the user whose token the tool
\* resolved when it was called.
THEOREM CreatorIsAlwaysCaller == Spec => CreatorIsCaller
<1> DEFINE Owned == \A c \in Call :
              step[c] = "written" /\ step'[c] = "committed"
              /\ op[c].tool = "todoCreate" /\ op[c].args.owner = None
                => todos'[op[c].id].owner = op[c].token.sub
<1>1. SInv /\ [Next]_vars => [Owned]_vars
  <2> SUFFICES ASSUME SInv, [Next]_vars, NEW c \in Call,
                      step[c] = "written", step'[c] = "committed",
                      op[c].tool = "todoCreate", op[c].args.owner = None
               PROVE  todos'[op[c].id].owner = op[c].token.sub
    OBVIOUS
  <2>1. todos'[op[c].id] = op[c].new
    BY CommitsOnly, CommitOfTodo, ToolsAre
  <2>2. op[c].new.owner = op[c].token.sub
    BY DEF SInv, CallInv, Pending
  <2>3. QED
    BY <2>1, <2>2
<1>2. QED
  BY <1>1, Invariant, PTL DEF Spec, CreatorIsCaller

\* A patch that meets the row it has read changes what the caller named and
\* nothing else.
THEOREM PatchIsAlwaysPartial == Spec => PatchIsPartial
<1> DEFINE Partial == \A c \in Call :
              step[c] = "written" /\ step'[c] = "committed"
              /\ op[c].tool = "todoPatch" /\ todos[op[c].id] = op[c].old
                => \A f \in {"owner", "note"} :
                     todos'[op[c].id][f] = IF op[c].args[f] # None
                       THEN op[c].args[f] ELSE todos[op[c].id][f]
<1>1. SInv /\ [Next]_vars => [Partial]_vars
  <2> SUFFICES ASSUME SInv, [Next]_vars, NEW c \in Call,
                      step[c] = "written", step'[c] = "committed",
                      op[c].tool = "todoPatch", todos[op[c].id] = op[c].old,
                      NEW f \in {"owner", "note"}
               PROVE  todos'[op[c].id][f] = IF op[c].args[f] # None
                        THEN op[c].args[f] ELSE todos[op[c].id][f]
    OBVIOUS
  <2>1. todos'[op[c].id] = op[c].new
    BY CommitsOnly, CommitOfTodo, ToolsAre
  <2>2. op[c].new[f] = IF op[c].args[f] # None THEN op[c].args[f] ELSE op[c].old[f]
    BY DEF SInv, CallInv, Pending
  <2>3. QED
    BY <2>1, <2>2
<1>2. QED
  BY <1>1, Invariant, PTL DEF Spec, PatchIsPartial
-----------------------------------------------------------------------------
(***************************************************************************)
(* The session follows the session tools in the order of their calls.      *)
(* While no session tool is called during a login, a waiting login is the  *)
(* last of them, so that its answer cannot overtake a later one's.         *)
(***************************************************************************)
Settled == {i \in DOMAIN turn : status[turn[i]] = "ok"}

Outcome ==
  \/ Settled = {} /\ session = start
  \/ \E i \in Settled : (\A j \in Settled : j <= i) /\ session = op[turn[i]].grant

Turns ==
  /\ \A i \in DOMAIN turn : status[turn[i]] # "idle" /\ op[turn[i]].tool \in SessionTools
  /\ \A i, j \in DOMAIN turn : turn[i] = turn[j] => i = j
  /\ \A c \in Call : status[c] = "waiting" /\ op[c].tool = "login" =>
       \E i \in DOMAIN turn : turn[i] = c
  /\ calm => \A i \in DOMAIN turn : status[turn[i]] = "waiting" => i = Len(turn)
  /\ calm => Outcome

\* A session tool is called.
LEMMA TurnsAppend ==
  ASSUME SInv, Turns, NEW c \in Call, status[c] = "idle", turn' = Append(turn, c),
         calm' => calm /\ ~LoginWaiting, start' = start,
         \A d \in Call \ {c} : op'[d] = op[d] /\ status'[d] = status[d],
         op'[c].tool \in SessionTools,
         \/ status'[c] = "waiting" /\ session' = session
         \/ status'[c] = "ok" /\ session' = op'[c].grant
  PROVE  Turns'
<1>1. turn \in Seq(Call)
  BY DEF SInv, TypeOK
<1> DEFINE n == Len(turn)
<1>2. /\ n \in Nat /\ DOMAIN turn = 1..n /\ DOMAIN turn' = 1..(n + 1)
      /\ Len(turn') = n + 1 /\ turn'[n + 1] = c
      /\ \A i \in 1..n : turn'[i] = turn[i] /\ turn[i] \in Call
  BY <1>1
<1> HIDE DEF n
<1>3. \A i \in 1..n : turn[i] # c /\ op'[turn[i]] = op[turn[i]]
                     /\ status'[turn[i]] = status[turn[i]]
  BY <1>2 DEF Turns
<1>4. \A i \in DOMAIN turn' : status'[turn'[i]] # "idle" /\ op'[turn'[i]].tool \in SessionTools
  BY <1>2, <1>3 DEF Turns
<1>5. \A i, j \in DOMAIN turn' : turn'[i] = turn'[j] => i = j
  BY <1>2, <1>3 DEF Turns
<1>6. \A d \in Call : status'[d] = "waiting" /\ op'[d].tool = "login" =>
        \E i \in DOMAIN turn' : turn'[i] = d
  BY <1>2 DEF Turns
<1>7. calm' => \A i \in DOMAIN turn' : status'[turn'[i]] = "waiting" => i = Len(turn')
  <2>1. ASSUME calm', NEW i \in 1..n
        PROVE  status[turn[i]] # "waiting"
    <3>1. status[turn[i]] = "waiting" => op[turn[i]].tool = "login"
      BY <1>2, ToolsAre DEF Turns, SInv, CallInv, Flow
    <3>2. QED
      BY <1>2, <2>1, <3>1 DEF LoginWaiting
  <2>2. QED
    BY <1>2, <1>3, <2>1
<1>8. calm' => Outcome'
  <2>1. Settled' = Settled \cup (IF status'[c] = "ok" THEN {n + 1} ELSE {})
    BY <1>2, <1>3 DEF Settled
  <2>2. CASE status'[c] = "ok"
    BY <1>2, <2>1, <2>2 DEF Outcome, Settled
  <2>3. CASE status'[c] = "waiting" /\ session' = session
    <3>1. Settled' = Settled
      BY <2>1, <2>3
    <3>2. \A i \in Settled : op'[turn'[i]] = op[turn[i]]
      BY <1>2, <1>3 DEF Settled
    <3>3. calm => Outcome
      BY DEF Turns
    <3>4. QED
      BY <2>3, <3>1, <3>2, <3>3 DEF Outcome
  <2>4. QED
    BY <2>2, <2>3
<1>9. QED
  BY <1>4, <1>5, <1>6, <1>7, <1>8 DEF Turns

\* A step that settles no session tool and leaves the session alone.
Keeps(d) ==
  \/ /\ status[d] # "idle" /\ op'[d].tool = op[d].tool
     /\ \/ status'[d] = status[d]
        \/ status[d] = "waiting" /\ status'[d] \notin {"idle", "waiting", "ok"}
     /\ status[d] = "ok" => op'[d].grant = op[d].grant
  \/ status[d] # "idle" /\ op[d].tool \notin SessionTools /\ op'[d].tool = op[d].tool
  \/ status[d] = "idle" /\ ~(status'[d] = "waiting" /\ op'[d].tool = "login")

LEMMA TurnsKept ==
  ASSUME SInv, Turns, UNCHANGED <<turn, calm, start, session>>, \A d \in Call : Keeps(d)
  PROVE  Turns'
<1>1. turn \in Seq(Call)
  BY DEF SInv, TypeOK
<1>2. \A i \in DOMAIN turn : turn[i] \in Call
  BY <1>1
<1>3. ASSUME NEW i \in DOMAIN turn
      PROVE  /\ op'[turn[i]].tool = op[turn[i]].tool
             /\ \/ status'[turn[i]] = status[turn[i]]
                \/ /\ status[turn[i]] = "waiting"
                   /\ status'[turn[i]] \notin {"idle", "waiting", "ok"}
             /\ status[turn[i]] = "ok" => op'[turn[i]].grant = op[turn[i]].grant
  BY <1>2 DEF Turns, Keeps
<1>4. Settled' = Settled
  BY <1>3 DEF Settled
<1>5. \A i \in Settled : op'[turn'[i]].grant = op[turn[i]].grant
  BY <1>3 DEF Settled
<1>6. calm' => Outcome'
  <2>1. calm => Outcome
    BY DEF Turns
  <2>2. QED
    BY <1>4, <1>5, <2>1 DEF Outcome
<1>7. \A d \in Call : status'[d] = "waiting" /\ op'[d].tool = "login" =>
        \E i \in DOMAIN turn' : turn'[i] = d
  BY ToolsAre DEF Turns, Keeps
<1>8. QED
  BY <1>3, <1>6, <1>7 DEF Turns

\* The backend settles nothing, and does not touch the grant of a call that is.
LEMMA BackendKeeps ==
  ASSUME SInv, NEW c \in Call, Backend(c), NEW d \in Call
  PROVE  Keeps(d)
<1>1. /\ status' = status /\ step[c] # "idle" /\ status[c] # "idle"
      /\ op \in [Call -> Ops] /\ op[c] \in Ops /\ reply[c] \in Replies
  BY DEF Backend, Serve, Write, Commit, Respond, Fails, SInv, TypeOK, CallInv, Flow
<1>2. ASSUME NEW with \in Replies, NEW how \in Steps, Finish(c, with, how)
      PROVE  Keeps(d)
  BY <1>1, <1>2, FinishIs DEF Keeps
<1>3. ASSUME op' = op
      PROVE  Keeps(d)
  BY <1>1, <1>3 DEF Keeps
<1>4. {"ok", "refused", "error"} \subseteq Replies /\ {"over", "committed"} \subseteq Steps
  BY DEF Replies, Steps
<1>5. CASE Serve(c)
  <2>1. status[c] # "ok"
    BY <1>5 DEF Serve, SInv, CallInv, Flow
  <2>2. ASSUME NEW new, op' = [op EXCEPT ![c] = new], new.tool = op[c].tool
        PROVE  Keeps(d)
    <3>1. op'[c] = new /\ \A b \in Call \ {c} : op'[b] = op[b]
      BY <1>1, <2>2
    <3>2. QED
      BY <1>1, <2>1, <2>2, <3>1 DEF Keeps
  <2>3. \A stale, grant : [NoOp EXCEPT !.tool = op[c].tool, !.stale = stale,
                                        !.grant = grant].tool = op[c].tool
    BY NoOpIs DEF Ops
  <2>4. CASE Finish(c, "refused", "over")
    BY <1>2, <1>4, <2>4
  <2>5. CASE op' = [op EXCEPT ![c] = [NoOp EXCEPT !.tool = op[c].tool,
              !.stale = op[c].stale,
              !.grant = IF op[c].tool = "login" THEN TokenOf(op[c].id) ELSE @]]
    BY <2>2, <2>3, <2>5
  <2>6. CASE \E id \in IF op[c].tool = "todoCreate" THEN NewIds ELSE {op[c].id} :
               op' = [op EXCEPT ![c] = [@ EXCEPT
                        !.id = id, !.actor = Bearer(c).sub, !.role = ActorRole(c),
                        !.old = Row(id), !.new = Merged(c, Row(id))]]
    <3>1. PICK id : op' = [op EXCEPT ![c] = [@ EXCEPT
                        !.id = id, !.actor = Bearer(c).sub, !.role = ActorRole(c),
                        !.old = Row(id), !.new = Merged(c, Row(id))]]
      BY <2>6
    <3> DEFINE actor == Bearer(c).sub
               role == ActorRole(c)
               old == Row(id)
               new == Merged(c, Row(id))
               o == [op[c] EXCEPT !.id = id, !.actor = actor, !.role = role,
                                  !.old = old, !.new = new]
    <3>2. op' = [op EXCEPT ![c] = o]
      BY <3>1
    <3> HIDE DEF actor, role, old, new
    <3>3. o.tool = op[c].tool
      BY <1>1 DEF Ops
    <3> HIDE DEF o
    <3>4. QED
      BY <2>2, <3>2, <3>3
  <2>7. QED
    BY <1>5, <2>4, <2>5, <2>6 DEF Serve
<1>6. CASE Write(c)
  BY <1>2, <1>3, <1>4, <1>6 DEF Write
<1>7. CASE Commit(c)
  BY <1>1, <1>2, <1>4, <1>7 DEF Commit
<1>8. CASE Respond(c)
  BY <1>3, <1>8 DEF Respond
<1>9. CASE Fails(c)
  BY <1>1, <1>2, <1>4, <1>9 DEF Fails
<1>10. QED
  BY <1>5, <1>6, <1>7, <1>8, <1>9 DEF Backend

\* A call is made.
LEMMA CallTurns ==
  ASSUME SInv, Turns, NEW c \in Call, CallSome(c)
  PROVE  Turns'
<1>1. /\ op \in [Call -> Ops] /\ status \in [Call -> Statuses] /\ op[c] = NoOp
      /\ status[c] = "idle"
  BY DEF CallSome, auth_clear_session, CallAnonymous, CallTool, SInv, TypeOK, CallInv, Flow
<1>2. CASE auth_clear_session(c)
  <2>1. op' = [op EXCEPT ![c].tool = "clear"] /\ status' = [status EXCEPT ![c] = "ok"]
    BY <1>2 DEF auth_clear_session
  <2>2. op'[c].tool = "clear" /\ op'[c].grant = NoToken /\ status'[c] = "ok"
    BY <1>1, <2>1, NoOpIs DEF Ops
  <2>3. QED
    BY <1>1, <1>2, <2>1, <2>2, TurnsAppend, ToolsAre DEF auth_clear_session, SessionCall
<1>3. CASE CallAnonymous(c)
  <2>1. PICK tool \in {"login", "signup"} :
          /\ \E u \in Subjects(tool, NoToken), args \in CanGive(tool) :
               op' = [op EXCEPT ![c] = [@ EXCEPT !.tool = tool, !.id = u, !.args = args]]
          /\ IF tool = "login" THEN SessionCall(c) ELSE UNCHANGED <<turn, calm>>
    BY <1>3 DEF CallAnonymous
  <2>2. status' = [status EXCEPT ![c] = "waiting"] /\ UNCHANGED <<session, start>>
    BY <1>3 DEF CallAnonymous, Send
  <2>3. /\ op'[c].tool = tool /\ \A d \in Call \ {c} : op'[d] = op[d]
        /\ status'[c] = "waiting" /\ \A d \in Call \ {c} : status'[d] = status[d]
    BY <1>1, <2>1, <2>2, NoOpIs DEF Ops
  <2>4. CASE tool = "login"
    BY <1>1, <2>1, <2>2, <2>3, <2>4, TurnsAppend, ToolsAre DEF SessionCall
  <2>5. CASE tool = "signup"
    <3>1. \A d \in Call : Keeps(d)
      BY <1>1, <2>3, <2>5 DEF Keeps
    <3>2. QED
      BY <2>1, <2>2, <2>5, <3>1, TurnsKept
  <2>6. QED
    BY <2>4, <2>5
<1>4. CASE CallTool(c)
  <2> DEFINE Calls(tool, token) ==
        \/ \E id \in Subjects(tool, token), args \in CanGive(tool) :
             op' = [op EXCEPT ![c] = [@ EXCEPT
                      !.tool = tool, !.id = id, !.args = args, !.token = token,
                      !.stale = token.tv < accounts[token.sub].tv]]
        \/ op' = [op EXCEPT ![c].tool = tool]
  <2>1. PICK tool \in Tool \ (SessionTools \cup {"signup"}), token \in known \cup {NoToken, session} :
          Calls(tool, token)
    BY <1>4 DEF CallTool, resolve_access_token
  <2>2. tool # "login"
    BY ToolsAre
  <2>3. op'[c].tool = tool /\ \A d \in Call \ {c} : op'[d] = op[d]
    <3> DEFINE stale == token.tv < accounts[token.sub].tv
    <3>1. CASE \E id, args : op' = [op EXCEPT ![c] = [@ EXCEPT
                 !.tool = tool, !.id = id, !.args = args, !.token = token, !.stale = stale]]
      <4> HIDE DEF stale
      <4>1. QED
        BY <1>1, <3>1, NoOpIs DEF Ops
    <3>2. CASE op' = [op EXCEPT ![c].tool = tool]
      BY <1>1, <3>2, NoOpIs DEF Ops
    <3>3. QED
      BY <2>1, <3>1, <3>2
  <2>4. /\ \A d \in Call \ {c} : status'[d] = status[d]
        /\ UNCHANGED <<turn, calm, start, session>>
    BY <1>1, <1>4 DEF CallTool, Send, ghost
  <2>5. \A d \in Call : Keeps(d)
    BY <1>1, <2>2, <2>3, <2>4 DEF Keeps
  <2>6. QED
    BY <2>4, <2>5, TurnsKept
<1>5. QED
  BY <1>2, <1>3, <1>4 DEF CallSome

\* A tool returns: a login that waited in calm is the last of the session tools.
LEMMA ReturnTurns ==
  ASSUME SInv, Turns, NEW c \in Call, Return(c)
  PROVE  Turns'
<1>1. /\ status[c] = "waiting" /\ reply[c] # "none"
      /\ status' = [status EXCEPT ![c] = reply[c]] /\ session' = SessionAfter(c)
      /\ op' = op /\ UNCHANGED <<turn, calm, start>>
  BY DEF Return, ghost
<1>2. /\ status \in [Call -> Statuses] /\ reply[c] \in {"ok", "refused", "error"}
      /\ turn \in Seq(Call)
  BY <1>1 DEF SInv, TypeOK, Replies
<1>3. op[c].tool # "clear"
  BY <1>1 DEF SInv, CallInv, Flow
<1>4. CASE ~(op[c].tool = "login" /\ reply[c] = "ok")
  <2>1. session' = session
    BY <1>1, <1>4 DEF SessionAfter
  <2>2. \A d \in Call : Keeps(d)
    BY <1>1, <1>2, <1>3, <1>4, ToolsAre DEF Keeps
  <2>3. QED
    BY <1>1, <2>1, <2>2, TurnsKept
<1>5. CASE op[c].tool = "login" /\ reply[c] = "ok"
  <2>1. PICK n \in DOMAIN turn : turn[n] = c
    BY <1>1, <1>5 DEF Turns
  <2>2. \A i \in DOMAIN turn : turn[i] \in Call /\ i <= Len(turn)
    BY <1>2
  <2>3. session' = op[c].grant
    BY <1>1, <1>5 DEF SessionAfter
  <2>4. Settled' = Settled \cup {n}
    BY <1>1, <1>2, <1>5, <2>1, <2>2 DEF Settled, Turns
  <2>5. calm' => Outcome'
    <3>1. calm => n = Len(turn)
      BY <1>1, <2>1 DEF Turns
    <3>2. ASSUME calm'
          PROVE  \A j \in Settled' : j <= n
      BY <1>1, <2>2, <3>1, <3>2 DEF Settled
    <3>3. QED
      BY <1>1, <2>1, <2>3, <2>4, <3>2 DEF Outcome
  <2>6. /\ \A i \in DOMAIN turn' : status'[turn'[i]] # "idle" /\ op'[turn'[i]].tool \in SessionTools
        /\ \A i, j \in DOMAIN turn' : turn'[i] = turn'[j] => i = j
    BY <1>1, <1>2, <2>2 DEF Turns
  <2>7. \A d \in Call : status'[d] = "waiting" => status[d] = "waiting"
    BY <1>1, <1>2
  <2>8. QED
    BY <1>1, <2>2, <2>5, <2>6, <2>7 DEF Turns
<1>6. QED
  BY <1>4, <1>5

LEMMA NextTurns ==
  ASSUME SInv, Turns, [Next]_vars
  PROVE  Turns'
<1>1. CASE UNCHANGED vars
  BY <1>1 DEF vars, ghost, Turns, Outcome, Settled
<1>2. CASE Restart
  <2>1. /\ turn' = <<>> /\ session' = start'
        /\ status' = [c \in Call |-> IF status[c] = "waiting" THEN "unknown" ELSE status[c]]
    BY <1>2 DEF Restart
  <2>2. DOMAIN turn' = {}
    BY <2>1
  <2>3. \A c \in Call : status'[c] # "waiting"
    BY <2>1
  <2>4. Outcome'
    BY <2>1, <2>2 DEF Outcome, Settled
  <2>5. QED
    BY <2>2, <2>3, <2>4 DEF Turns
<1>3. ASSUME NEW c \in Call, Backend(c)
      PROVE  Turns'
  <2>1. UNCHANGED <<turn, calm, start, session>>
    BY <1>3 DEF Backend, Serve, Write, Commit, Respond, Fails, ghost
  <2>2. QED
    BY <1>3, <2>1, BackendKeeps, TurnsKept
<1>4. ASSUME NEW c \in Call, GiveUp(c)
      PROVE  Turns'
  <2>1. /\ status[c] = "waiting" /\ status' = [status EXCEPT ![c] = "unknown"]
        /\ op' = op /\ UNCHANGED <<turn, calm, start, session>>
        /\ status \in [Call -> Statuses]
    BY <1>4 DEF GiveUp, ghost, SInv, TypeOK
  <2>2. \A d \in Call : Keeps(d)
    BY <2>1 DEF Keeps
  <2>3. QED
    BY <2>1, <2>2, TurnsKept
<1>5. QED
  BY <1>1, <1>2, <1>3, <1>4, CallTurns, ReturnTurns DEF Next, CallSome, Ends

\* Unless a session tool is called while a login is waiting, the session is
\* what the last successful one of them, in the order of the calls, made it.
THEOREM LatestLoginWins == Spec => []LastLoginWins
<1>1. Init => Turns
  BY DEF Init, Turns, Outcome, Settled
<1>2. SInv /\ Turns /\ [Next]_vars => Turns'
  BY NextTurns
<1>3. SInv /\ Turns => LastLoginWins
  <2> SUFFICES ASSUME SInv, Turns, calm
               PROVE  session = IF Settled = {} THEN start
                        ELSE op[turn[CHOOSE i \in Settled : \A j \in Settled : j <= i]].grant
    BY DEF LastLoginWins, Settled
  <2>1. CASE Settled = {}
    BY <2>1 DEF Turns, Outcome
  <2>2. CASE Settled # {}
    <3>1. PICK i \in Settled : (\A j \in Settled : j <= i) /\ session = op[turn[i]].grant
      BY <2>2 DEF Turns, Outcome
    <3>2. \A j \in Settled : j \in Int
      BY DEF SInv, TypeOK, Settled
    <3>3. \A k \in Settled : (\A j \in Settled : j <= k) => k = i
      BY <3>1, <3>2
    <3> DEFINE last == CHOOSE k \in Settled : \A j \in Settled : j <= k
    <3>4. last \in Settled /\ \A j \in Settled : j <= last
      BY <3>1
    <3>5. QED
      BY <2>2, <3>1, <3>3, <3>4
  <2>3. QED
    BY <2>1, <2>2
<1>4. QED
  BY <1>1, <1>2, <1>3, Invariant, PTL DEF Spec
=============================================================================
