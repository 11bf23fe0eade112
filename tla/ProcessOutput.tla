---------------------------- MODULE ProcessOutput ----------------------------
(***************************************************************************)
(* What hook_process() promises to the callback of a command: it gets what *)
(* the command writes, once and in order, and then the end, once: a return *)
(* code only after all that was written, or an error.  Only of a stream on *)
(* which another process goes on writing may the rest be missing.  Nothing *)
(* comes after the end, nor after the hook is removed.                     *)
(***************************************************************************)
EXTENDS Naturals

CONSTANTS
  Hook, Stream,
  Code,            \* return codes of commands, none of the next three
  Running,         \* the code of the calls before the end
  Failure,         \* the code that the callback gets instead
  Removed          \* there is no call: the hook is removed by its owner

VARIABLES
  wrote,           \* per hook and stream, how much the command wrote
  open,            \* the streams that are still open for writing
  left,            \* those that the command left to another process
  given,           \* how much of it the callback was given
  result           \* Running, a return code, Failure or Removed

vars == <<wrote, open, left, given, result>>

Nothing == [s \in Stream |-> 0]

Init ==
  /\ wrote = [h \in Hook |-> Nothing]
  /\ open = [h \in Hook |-> {}]
  /\ left = [h \in Hook |-> {}]
  /\ given = [h \in Hook |-> Nothing]
  /\ result = [h \in Hook |-> Running]

\* The command starts; it or one that it left behind writes; streams close.
Start(h) ==
  /\ wrote[h] = Nothing /\ open[h] = {} /\ result[h] = Running
  /\ \E S \in SUBSET Stream : open' = [open EXCEPT ![h] = S]
  /\ UNCHANGED <<wrote, left, given, result>>

Write(h) ==
  /\ \E s \in open[h] :
       wrote' = [wrote EXCEPT ![h] = [wrote[h] EXCEPT ![s] = wrote[h][s] + 1]]
  /\ UNCHANGED <<open, left, given, result>>

Close(h) ==
  /\ \E S \in SUBSET open[h] : open' = [open EXCEPT ![h] = S]
  /\ UNCHANGED <<wrote, left, given, result>>

Exit(h) ==
  /\ \E S \in SUBSET open[h] :
       open' = [open EXCEPT ![h] = S] /\ left' = [left EXCEPT ![h] = S]
  /\ UNCHANGED <<wrote, given, result>>

\* The callback is given what follows of the output: all that was written
\* when it is called with a return code.
Give(h) ==
  /\ result[h] = Running
  /\ given' = [given EXCEPT ![h] = given'[h]]
  /\ given'[h] \in [Stream -> Nat]
  /\ \A s \in Stream :
       given[h][s] <= given'[h][s] /\ given'[h][s] <= wrote[h][s]
  /\ UNCHANGED <<wrote, open, left>>

Deliver(h) == Give(h) /\ UNCHANGED result

End(h) ==
  /\ Give(h)
  /\ \E r \in Code \union {Failure, Removed} :
       /\ result' = [result EXCEPT ![h] = r]
       /\ r \in Code => \A s \in Stream \ left[h] : given'[h][s] = wrote[h][s]

Next ==
  \E h \in Hook : Start(h) \/ Write(h) \/ Close(h) \/ Exit(h) \/ Deliver(h) \/ End(h)

Spec == Init /\ [][Next]_vars
=============================================================================
