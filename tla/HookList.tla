------------------------------ MODULE HookList ------------------------------
(***************************************************************************)
(* The sorted list that core/wee-hook.c keeps for each type of hook: the   *)
(* doubly linked list is a sequence of hook addresses, and the pointers    *)
(* next_hook, weechat_hooks[type] and hook_find_pos() are operators on it. *)
(***************************************************************************)
EXTENDS Naturals, Sequences

CONSTANT NoHook     \* the NULL pointer

(***************************************************************************)
(* The hooks that can be reached from weechat_hooks[type].                 *)
(***************************************************************************)
Nodes(s) == {s[i] : i \in DOMAIN s}

IndexOf(s, h) == CHOOSE i \in DOMAIN s : s[i] = h

(* weechat_hooks[type] *)
HeadOf(s) == IF s = <<>> THEN NoHook ELSE s[1]

(* hook->next_hook, for a hook of the list *)
NextHook(s, h) ==
  LET i == IndexOf(s, h) IN IF i = Len(s) THEN NoHook ELSE s[i + 1]

(***************************************************************************)
(* hook_find_pos: the position of the first hook that is not deleted and   *)
(* is one of `after', those the new hook goes before; past the end of the  *)
(* list when there is none.                                                *)
(***************************************************************************)
FindPos(s, deleted, after) ==
  LET found == {i \in DOMAIN s : s[i] \in after \ deleted}
  IN  IF found = {} THEN Len(s) + 1
      ELSE CHOOSE i \in found : \A j \in found : i <= j

(* hook_add_to_list, before position i *)
InsertNode(s, i, h) ==
  [k \in 1 .. Len(s) + 1 |->
     IF k < i THEN s[k] ELSE IF k = i THEN h ELSE s[k - 1]]

(* hook_remove_from_list, for the node at position i *)
RemoveNode(s, i) ==
  [k \in 1 .. Len(s) - 1 |-> IF k < i THEN s[k] ELSE s[k + 1]]

(***************************************************************************)
(* No hook is linked twice.                                                *)
(***************************************************************************)
IsList(s) == \A i, j \in DOMAIN s : s[i] = s[j] => i = j

(***************************************************************************)
(* x is linked before y.                                                   *)
(***************************************************************************)
Before(s, x, y) == \E i, j \in DOMAIN s : i < j /\ s[i] = x /\ s[j] = y
=============================================================================
