---------------------------- MODULE MCMcpSession ----------------------------
(* An admin, a user who may still have to sign up, one todo. *)
EXTENDS McpSession, TLC

CONSTANTS a, b, t1, t2, c1, c2, x

MCUser == {a, b}
MCAdmin == {a}
MCTodo == {t1}
MCCall == {c1, c2}
MCText == {x}
CallsAlike == Permutations(Call)
=============================================================================
