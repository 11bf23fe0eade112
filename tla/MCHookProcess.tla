--------------------------- MODULE MCHookProcess ----------------------------
(***************************************************************************)
(* Instances of HookProcess: one command with all its output, and several  *)
(* that write nothing.                                                     *)
(***************************************************************************)
EXTENDS HookProcess

OneCode == {0}
Streams == {"out", "err"}
NoStream == {}
EveryKind == {"command", "func", "detached"}
Background == {"command", "func"}
ShortAndNone == {0, 50}
Full == {3}
FullAndLess == {1, 3}
Leaves == {"fork", "keep"}
Retries == {"fork", "retry"}
=============================================================================
