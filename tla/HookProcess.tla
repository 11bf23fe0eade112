----------------------------- MODULE HookProcess -----------------------------
(***************************************************************************)
(* Commands run in the background (core/hook/wee-hook-process.c): a child  *)
(* is forked, its output is read from pipes by hooks on descriptors, and a *)
(* timer looks for its end or for the timeout.  A "func:" command is run   *)
(* by the main loop, by hook_process_exec().                               *)
(*                                                                         *)
(* The main loop does one thing at a time: `loop' says that it is in the   *)
(* middle of hook_process_exec() or of the last reads, during which only   *)
(* the children move.  Output is counted, not kept.                        *)
(***************************************************************************)
EXTENDS Integers, FiniteSets

CONSTANTS
  MaxHooks,     \* bound: hooks of one behavior, numbered by creation
  Stream,       \* "out" and "err"
  Code,         \* return codes of commands
  Kinds,        \* "command", "func", "detached"
  Timeouts,     \* timeouts, in milliseconds
  Flushes,      \* values of the option buffer_flush
  BufferSize,   \* HOOK_PROCESS_BUFFER_SIZE
  ReadSize,     \* most that one read() takes
  PipeSize,     \* what a pipe of the system holds
  Rounds,       \* rounds of hook_process_child_read_until_eof()
  MaxWritten,   \* bound: what one command writes on one stream
  Faults        \* "fork": pipe() or fork() fails; "retry": the callback then
                \* hooks a function again; "keep": a command leaves behind
                \* another that has its streams

Hook == 1 .. MaxHooks

\* The return codes that are not those of a command; the last is our own.
Running == -1
Error == -2
Removed == -4

ASSUME ProcessAssumption ==
  /\ MaxHooks \in Nat /\ MaxWritten \in Nat
  /\ Timeouts \subseteq Nat /\ Flushes \subseteq 1 .. BufferSize
  /\ Kinds \subseteq {"command", "func", "detached"}
  /\ Faults \subseteq {"fork", "retry", "keep"}
  /\ {BufferSize, ReadSize, PipeSize, Rounds} \subseteq Nat \ {0}
  /\ Stream \subseteq {"out", "err"}
  /\ ReadSize <= BufferSize
  /\ PipeSize <= Rounds * ReadSize
  /\ Code # {} /\ Code \subseteq Nat

VARIABLES
  created,      \* how many hooks were created
  hook,         \* their data in WhoreIRC
  child,        \* the processes and their pipes
  loop          \* what the main loop is doing

vars == <<created, hook, child, loop>>

Nothing == [s \in Stream |-> 0]

(***************************************************************************)
(* state: "none", "waits" (child_pid is 0), "runs", or "freed"; calls:     *)
(* the calls left to the timer, 0 for no limit; fd: the streams whose      *)
(* hook_fd is set; overrun: history, something was written past the end of *)
(* a buffer; sent and result: history of the calls of the callback.        *)
(***************************************************************************)
HookData == [state: {"none", "waits", "runs", "freed"}, timeout: Nat,
             flush: 1 .. BufferSize, calls: Nat, fd: SUBSET Stream,
             buffer: [Stream -> Nat], overrun: BOOLEAN, sent: [Stream -> Nat],
             result: Code \union {Running, Error, Removed}]

(***************************************************************************)
(* status: "none", "alive", "exited" or "signaled" until it is waited for, *)
(* "gone" then; open: the streams that some process can write to; left:    *)
(* those that were still open when the command ended.                      *)
(***************************************************************************)
ChildData == [status: {"none", "alive", "exited", "signaled", "gone"},
              code: Code, open: SUBSET Stream, left: SUBSET Stream,
              piped: [Stream -> 0 .. PipeSize], wrote: [Stream -> Nat]]

AtPoll == [does |-> "poll", at |-> 0, rounds |-> 0]

LoopState == [does: {"poll", "exec", "drain"}, at: 0 .. MaxHooks, rounds: 0 .. Rounds]

Init ==
  /\ created = 0 /\ loop = AtPoll
  /\ hook = [h \in Hook |-> [state |-> "none", timeout |-> 0, flush |-> BufferSize,
                             calls |-> 0, fd |-> {}, buffer |-> Nothing, overrun |-> FALSE,
                             sent |-> Nothing, result |-> Running]]
  /\ child \in [Hook -> [status: {"none"}, code: Code, open: {{}}, left: {{}},
                         piped: {Nothing}, wrote: {Nothing}]]

Polling == loop.does = "poll"

-----------------------------------------------------------------------------
(* The callback and the end of a hook                                      *)

\* hook_process_send_buffers()
SendBuffers(d) ==
  [d EXCEPT !.sent = [s \in Stream |-> @[s] + d.buffer[s]], !.buffer = Nothing]

Freed(d, r) ==
  [d EXCEPT !.state = "freed", !.result = r, !.fd = {}, !.buffer = Nothing]

\* Mutant: the child is neither killed nor waited for.
Killed_Not(c) == c

\* hook_process_free_data(): SIGKILL, then waitpid().
Killed(c) == [c EXCEPT !.status = IF @ = "none" THEN "none" ELSE "gone"]

\* The last call of the callback, with the buffers, and unhook().
End(h, r) ==
  /\ hook' = [hook EXCEPT ![h] = Freed(SendBuffers(@), r)]
  /\ child' = [child EXCEPT ![h] = Killed(@)]

\* Somebody else removes the hook.
Unhook(h) ==
  /\ Polling /\ hook[h].state \in {"waits", "runs"}
  /\ hook' = [hook EXCEPT ![h] = Freed(@, Removed)]
  /\ child' = [child EXCEPT ![h] = Killed(@)]
  /\ UNCHANGED <<created, loop>>

-----------------------------------------------------------------------------
(* Running a command                                                       *)

\* Mutant: a timeout under 100 ms is no timeout.
MaxCalls_Rounded(t) == t \div 100

MaxCalls(t) ==
  IF t = 0 THEN 0
  ELSE IF t <= 100 THEN 1
  ELSE t \div 100 + (IF t % 100 = 0 THEN 1 ELSE 0)

Started(d, S) ==
  [d EXCEPT !.state = "runs", !.fd = S, !.calls = MaxCalls(d.timeout)]

Forked(c, S) == [c EXCEPT !.status = "alive", !.open = S]

(***************************************************************************)
(* hook_process_hashtable(): a "func:" waits for the main loop, and any    *)
(* other command is run at once by hook_process_run(), which calls the     *)
(* callback and frees the hook if pipe() or fork() fails.                  *)
(***************************************************************************)
Create(kind, t, flush) ==
  LET h == created + 1
      new == [hook[h] EXCEPT !.timeout = t, !.flush = flush]
      streams == IF kind = "detached" THEN {} ELSE Stream
  IN
  /\ Polling /\ created < MaxHooks
  /\ created' = h
  /\ \/ /\ kind = "func"
        /\ hook' = [hook EXCEPT ![h] = [new EXCEPT !.state = "waits"]]
        /\ UNCHANGED child
     \/ /\ kind # "func"
        /\ hook' = [hook EXCEPT ![h] = Started(new, streams)]
        /\ child' = [child EXCEPT ![h] = Forked(@, streams)]
     \/ /\ kind # "func" /\ "fork" \in Faults
        /\ hook' = [hook EXCEPT ![h] = Freed(new, Error)]
        /\ UNCHANGED child
  /\ UNCHANGED loop

HookProcessHashtable ==
  \E kind \in Kinds, t \in Timeouts, flush \in Flushes : Create(kind, t, flush)

\* The next hook of the list, or 0: those before `h' were visited.
NextOf(h) ==
  LET later == {g \in h + 1 .. created : hook[g].state \in {"waits", "runs"}}
  IN IF later = {} THEN 0 ELSE CHOOSE g \in later : \A k \in later : g <= k

ExecBegin ==
  /\ Polling /\ \E h \in Hook : hook[h].state = "waits"
  /\ loop' = [AtPoll EXCEPT !.does = "exec", !.at = NextOf(0)]
  /\ UNCHANGED <<created, hook, child>>

(***************************************************************************)
(* One turn of hook_process_exec(): the next hook is read before the hook  *)
(* is run.  The hook was not removed since: the walk calls the callbacks   *)
(* of the commands that fail only, and those remove no other.              *)
(***************************************************************************)
ExecStep ==
  LET h == loop.at IN
  /\ loop.does = "exec" /\ h # 0
  /\ loop' = [loop EXCEPT !.at = NextOf(h)]
  /\ \/ /\ hook[h].state = "waits"
        /\ hook' = [hook EXCEPT ![h] = Started(@, Stream)]
        /\ child' = [child EXCEPT ![h] = Forked(@, Stream)]
        /\ UNCHANGED created
     \/ /\ hook[h].state = "waits" /\ "fork" \in Faults
        /\ \/ /\ hook' = [hook EXCEPT ![h] = Freed(@, Error)]
              /\ UNCHANGED created
           \/ /\ "retry" \in Faults /\ created < MaxHooks
              /\ created' = created + 1
              /\ hook' = [hook EXCEPT
                   ![h] = Freed(@, Error),
                   ![created + 1] = [@ EXCEPT !.state = "waits",
                                              !.timeout = hook[h].timeout]]
        /\ UNCHANGED child
     \/ /\ hook[h].state # "waits"
        /\ UNCHANGED <<created, hook, child>>

ExecEnd ==
  /\ loop.does = "exec" /\ loop.at = 0
  /\ loop' = AtPoll
  /\ UNCHANGED <<created, hook, child>>

-----------------------------------------------------------------------------
(* The output                                                              *)

\* memcpy()
Copied(d, s, n) ==
  [d EXCEPT !.buffer[s] = @ + n, !.overrun = @ \/ d.buffer[s] + n > BufferSize]

\* Mutant: the buffer is not sent when the new data do not fit.
AddToBuffer_Unchecked(d, s, n) == Copied(d, s, n)

\* hook_process_add_to_buffer()
AddToBuffer(d, s, n) ==
  Copied(IF d.buffer[s] + n > BufferSize THEN SendBuffers(d) ELSE d, s, n)

\* Mutant: the size of the array instead of what read() returned.
Available_Whole(c, s) == ReadSize

Available(c, s) == IF c.piped[s] < ReadSize THEN c.piped[s] ELSE ReadSize

\* hook_process_child_read(), data being there
Received(d, s, n) ==
  LET e == AddToBuffer(d, s, n)
  IN IF e.buffer[s] >= d.flush THEN SendBuffers(e) ELSE e

Taken(c, S) ==
  [c EXCEPT !.piped = [s \in Stream |-> IF s \in S THEN @[s] - Available(c, s) ELSE @[s]]]

\* hook_process_child_read_stdout_cb() and ..._stderr_cb()
ChildRead(h, s) ==
  LET d == hook[h]
      c == child[h]
  IN
  /\ Polling /\ d.state = "runs" /\ s \in d.fd
  /\ \/ /\ c.piped[s] > 0
        /\ hook' = [hook EXCEPT ![h] = Received(d, s, Available(c, s))]
        /\ child' = [child EXCEPT ![h] = Taken(c, {s})]
     \/ /\ c.piped[s] = 0 /\ s \notin c.open
        /\ hook' = [hook EXCEPT ![h].fd = @ \ {s}]
        /\ UNCHANGED child
  /\ UNCHANGED <<created, loop>>

Readable(h) == {s \in hook[h].fd : child[h].piped[s] > 0}

ReceivedFrom(h, d, s) ==
  IF s \in Readable(h) THEN Received(d, s, Available(child[h], s)) ELSE d

\* One round of hook_process_child_read_until_eof(): stdout, then stderr.
Drain ==
  LET h == loop.at IN
  /\ loop.does = "drain" /\ loop.rounds < Rounds /\ Readable(h) # {}
  /\ hook' = [hook EXCEPT ![h] = ReceivedFrom(h, ReceivedFrom(h, @, "out"), "err")]
  /\ child' = [child EXCEPT ![h] = Taken(@, Readable(h))]
  /\ loop' = [loop EXCEPT !.rounds = @ + 1]
  /\ UNCHANGED created

-----------------------------------------------------------------------------
(* hook_process_timer_cb()                                                 *)

Unlimited(d) == d.calls = 0

TimerRuns(h) == Polling /\ hook[h].state = "runs"

IsLastCall(d) == d.calls = 1

Called(d) == [d EXCEPT !.calls = IF Unlimited(d) THEN 0 ELSE @ - 1]

TimeoutReached(h) ==
  /\ TimerRuns(h) /\ IsLastCall(hook[h])
  /\ End(h, Error)
  /\ UNCHANGED <<created, loop>>

\* Mutant: the pipes are not read again at the end.
FirstRound_Last == Rounds

FirstRound == 0

\* waitpid (..., WNOHANG)
TimerCheck(h) ==
  /\ TimerRuns(h) /\ ~IsLastCall(hook[h])
  /\ hook' = [hook EXCEPT ![h] = Called(@)]
  /\ IF child[h].status \in {"exited", "signaled"}
       THEN loop' = [does |-> "drain", at |-> h, rounds |-> FirstRound]
       ELSE UNCHANGED loop
  /\ UNCHANGED <<created, child>>

\* After the last reads, the code of the command, or an error after a signal.
DrainEnd ==
  LET h == loop.at IN
  /\ loop.does = "drain"
  /\ loop.rounds = Rounds \/ Readable(h) = {}
  /\ End(h, IF child[h].status = "exited" THEN child[h].code ELSE Error)
  /\ loop' = AtPoll
  /\ UNCHANGED created

-----------------------------------------------------------------------------
(* The commands                                                            *)

Write(h, s) ==
  LET c == child[h] IN
  /\ hook[h].state = "runs" /\ s \in c.open
  /\ c.piped[s] < PipeSize /\ c.wrote[s] < MaxWritten
  /\ child' = [child EXCEPT ![h].piped[s] = @ + 1, ![h].wrote[s] = @ + 1]
  /\ UNCHANGED <<created, hook, loop>>

Close(h, s) ==
  /\ hook[h].state = "runs" /\ s \in child[h].open
  /\ child' = [child EXCEPT ![h].open = @ \ {s}]
  /\ UNCHANGED <<created, hook, loop>>

\* The command ends, or is killed by a signal.
Exit(h) ==
  /\ child[h].status = "alive"
  /\ \E st \in {"exited", "signaled"}, S \in SUBSET child[h].open :
       /\ "keep" \notin Faults => S = {}
       /\ child' = [child EXCEPT ![h].status = st, ![h].open = S,
                                  ![h].left = S]
  /\ UNCHANGED <<created, hook, loop>>

Environment(h) == Exit(h) \/ \E s \in Stream : Write(h, s) \/ Close(h, s)

-----------------------------------------------------------------------------

TimerCb(h) == TimeoutReached(h) \/ TimerCheck(h)

ExecWalk == ExecBegin \/ ExecStep \/ ExecEnd

ReadUntilEof == Drain \/ DrainEnd

Next ==
  \/ HookProcessHashtable
  \/ ExecWalk \/ ReadUntilEof
  \/ \E h \in Hook :
       \/ Unhook(h) \/ TimerCb(h) \/ Environment(h)
       \/ \E s \in Stream : ChildRead(h, s)

Spec == Init /\ [][Next]_vars

(***************************************************************************)
(* The main loop goes on and every timer is called; nothing is assumed of  *)
(* the commands.                                                           *)
(***************************************************************************)
FairSpec ==
  /\ Spec /\ WF_vars(ExecWalk) /\ WF_vars(ReadUntilEof)
  /\ \A h \in Hook : SF_vars(TimerCb(h))

-----------------------------------------------------------------------------
(* Properties                                                              *)

(***************************************************************************)
(* The values that the variables take; a hook that is freed has a result,  *)
(* and the others none.                                                    *)
(***************************************************************************)
TypeOK ==
  /\ created \in 0 .. MaxHooks
  /\ hook \in [Hook -> HookData]
  /\ child \in [Hook -> ChildData]
  /\ loop \in LoopState
  /\ \A h \in Hook : hook[h].state = "freed" <=> hook[h].result # Running

(***************************************************************************)
(* Nothing is ever copied past the end of a buffer (memcpy in              *)
(* hook_process_add_to_buffer), whatever buffer_flush is and however the   *)
(* command writes.                                                         *)
(***************************************************************************)
BufferFits == \A h \in Hook : ~hook[h].overrun

(***************************************************************************)
(* No process is left when its hook is removed, be it by its end, by the   *)
(* timeout or by unhook(): it runs no more and is not a zombie.            *)
(***************************************************************************)
NoChildLeft ==
  \A h \in Hook : hook[h].state # "runs" => child[h].status \in {"none", "gone"}

(***************************************************************************)
(* The callback gets the output and the end of its command as promised by  *)
(* ProcessOutput: nothing twice, nothing lost before a return code, and    *)
(* nothing after the end.                                                  *)
(***************************************************************************)
Output == INSTANCE ProcessOutput WITH
  Failure <- Error,
  wrote <- [h \in Hook |-> child[h].wrote],
  open <- [h \in Hook |-> child[h].open],
  left <- [h \in Hook |-> child[h].left],
  given <- [h \in Hook |-> hook[h].sent],
  result <- [h \in Hook |-> hook[h].result]

KeepsPromise == Output!Spec

(***************************************************************************)
(* A command that has a timeout ends, whatever it does: the callback gets  *)
(* a result, or the hook is removed by somebody else.                      *)
(***************************************************************************)
TimeoutEnds ==
  \A h \in Hook :
    (hook[h].timeout > 0 /\ hook[h].state # "none") ~> (hook[h].state = "freed")
=============================================================================
