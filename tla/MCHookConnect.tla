--------------------------- MODULE MCHookConnect ----------------------------
(***************************************************************************)
(* Instances of HookConnect: two connections, with a pool of sockets and    *)
(* without.                                                                *)
(***************************************************************************)
EXTENDS HookConnect

CONSTANTS c1, c2

TwoConns == {c1, c2}
WithAndWithout == {TRUE, FALSE}
NoneOrOne == {0, 1}
OnlyTrue == {TRUE}
Anything == {"fork", "crash", "recv"}
=============================================================================
