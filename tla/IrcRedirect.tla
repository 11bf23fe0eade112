---------------------------- MODULE IrcRedirect ------------------------------
(***************************************************************************)
(* The redirections of one IRC server (plugins/irc/irc-redirect.c): a      *)
(* script or the notify list announces that the answer to the next command *)
(* is for itself; the messages received are compared with the redirections *)
(* in the order of their creation, and the one that takes a message hides  *)
(* it from the user.                                                       *)
(*                                                                         *)
(* Commands leave by the anti-flood queues, of which only the promise is   *)
(* used (MessageFifo): one queue for each priority.  The server answers    *)
(* commands one after the other in the order it gets them, so `wire' is    *)
(* written when a command is sent: all that the server is going to say.    *)
(* The handlers of irc_out and the callbacks that get the answers send     *)
(* commands like everybody else, after the action that called them.        *)
(***************************************************************************)
EXTENDS Integers, Sequences

CONSTANTS
  Pattern,        \* names of patterns of redirections
  Reply,          \* commands of the messages of the server
  Noise,          \* a message that answers nothing and is in no pattern
  Table,          \* what each pattern says, and what servers answer
  Plain,          \* patterns of which the user asks with no redirection
  Prio,           \* priorities used: 0 is never queued
  Distinct,       \* each redirection has a string, found in its answer only
  Prompt,         \* answers come before the timeout
  Faults,         \* "drop": a modifier discards the message; "lose": the
                  \* server does not answer; "deloutq": the queues are
                  \* emptied; "interleave": Noise comes inside an answer
  MaxQuestions    \* bound: commands of one behavior

Question == 1 .. MaxQuestions

(***************************************************************************)
(* start, stop, extra: the commands of the pattern; loose: those that need *)
(* not contain the string; filter: those that are kept for the callback;   *)
(* counts: the values of "count"; answers: what a server says to one       *)
(* command.                                                                *)
(***************************************************************************)
ASSUME RedirectAssumption ==
  /\ Pattern # {}
  /\ Table \in [Pattern -> [start: SUBSET Reply, stop: SUBSET Reply,
                            extra: SUBSET Reply, loose: SUBSET Reply,
                            filter: SUBSET (Reply \union {Noise}),
                            counts: SUBSET (Nat \ {0}),
                            answers: SUBSET Seq(Reply)]]
  /\ Noise \notin Reply /\ Plain \subseteq Pattern /\ Prio \subseteq 0 .. 2
  /\ Distinct \in BOOLEAN /\ Prompt \in BOOLEAN
  /\ Faults \subseteq {"drop", "lose", "deloutq", "interleave"}
  /\ MaxQuestions \in Nat

VARIABLES
  up,         \* is_connected
  list,       \* the redirections of the server, by the question they are for
  redirect,   \* the fields of each of them; kept when it is freed
  outqueue,   \* per priority, commands with the redirection attached, or 0
  wire,       \* what the server will say, in order
  issued,     \* how many questions were asked
  said,       \* history: the whole answer to each question
  ended       \* history: the redirections that ended with a signal

vars == <<up, list, redirect, outqueue, wire, issued, said, ended>>

Message == [kind: Reply \union {Noise}, of: Question \union {0}]

(***************************************************************************)
(* `state' is "available", "assigned" (assigned_to_command, in a queue) or *)
(* "sent" (start_time is set); started and stopped are cmd_start_received  *)
(* and cmd_stop_received, `current' is current_count.                      *)
(***************************************************************************)
Redirect == [pattern: Pattern, state: {"available", "assigned", "sent"},
             count: Nat \ {0}, current: Nat, started: BOOLEAN, stopped: BOOLEAN,
             command: Question \union {0}, output: Seq(Message)]

New(p, n) == [pattern |-> p, state |-> "available",
              count |-> n, current |-> 1,
              started |-> FALSE, stopped |-> FALSE, command |-> 0, output |-> <<>>]

Entry == [question: Question, redirect: Question \union {0}]

Queue == Prio \ {0}

Init ==
  /\ up = TRUE /\ list = {} /\ wire = <<>> /\ issued = 0 /\ ended = {}
  /\ redirect = [q \in Question |-> New(CHOOSE p \in Pattern : TRUE, 1)]
  /\ outqueue = [p \in Queue |-> <<>>]
  /\ said = [q \in Question |-> <<>>]

-----------------------------------------------------------------------------
(* Asking                                                                  *)

\* Mutant: a redirection that waits in a queue is taken again.
Available_Again(S, rs) == {q \in S : rs[q].state # "sent"}

Available(S, rs) == {q \in S : rs[q].state = "available"}

\* irc_redirect_search_available() finds the first of the list, or none.
IsAvailable(r, S, rs) ==
  IF Available(S, rs) = {} THEN r = 0
  ELSE r \in Available(S, rs) /\ \A q \in Available(S, rs) : r <= q

\* "mark redirect as used"
Assign(rs, r) == IF r = 0 THEN rs ELSE [rs EXCEPT ![r].state = "assigned"]

InitCommand(rs, r, q) ==
  IF r = 0 THEN rs
  ELSE [rs EXCEPT ![r].state = "sent", ![r].command = q]

\* One after the other, n complete answers.
Answers(p, n) ==
  IF n = 1 THEN Table[p].answers
  ELSE {a \o b : a, b \in Table[p].answers}

\* The server gets the command and will answer; or never does.
Reaches(q, p, n) ==
  \/ \E a \in Answers(p, n) :
       /\ said' = [said EXCEPT ![q] = a]
       /\ wire' = wire \o [i \in 1 .. Len(a) |-> [kind |-> a[i], of |-> q]]
  \/ "lose" \in Faults /\ UNCHANGED <<said, wire>>

\* Mutant: the redirection is not attached to the message in the queue.
Enqueue_Bare(p, q, r) ==
  outqueue' = [outqueue EXCEPT ![p] = Append(@, [question |-> q, redirect |-> 0])]

Enqueue(p, q, r) ==
  outqueue' = [outqueue EXCEPT ![p] = Append(@, [question |-> q, redirect |-> r])]

(***************************************************************************)
(* irc_redirect_new(), if the answer is redirected, followed at once by    *)
(* irc_server_sendf(), which takes the first redirection available.        *)
(***************************************************************************)
Ask(p, n, prio, redirected) ==
  LET q == issued + 1
      rs == [redirect EXCEPT ![q] = New(p, n)]
      known == IF redirected THEN list \union {q} ELSE list
  IN
  /\ up /\ issued < MaxQuestions
  /\ issued' = q /\ list' = known
  /\ \/ /\ "drop" \in Faults
        /\ redirect' = rs
        /\ UNCHANGED <<outqueue, wire, said>>
     \/ \E r \in known \union {0} :
        /\ prio # 0 /\ IsAvailable(r, known, rs)
        /\ Enqueue(prio, q, r)
        /\ redirect' = Assign(rs, r)
        /\ UNCHANGED <<wire, said>>
     \/ \E r \in known \union {0} :
        /\ prio # 0 => outqueue[prio] = <<>>
        /\ IsAvailable(r, known, rs)
        /\ redirect' = InitCommand(rs, r, q)
        /\ Reaches(q, p, n)
        /\ UNCHANGED outqueue
  /\ UNCHANGED <<up, ended>>

AskRedirected ==
  \E p \in Pattern, prio \in Prio : \E n \in Table[p].counts :
    Ask(p, n, prio, TRUE)

AskPlain == \E p \in Plain, prio \in Prio : Ask(p, 1, prio, FALSE)

\* irc_server_outqueue_send(), the message having gone.
SendQueued ==
  \E p \in Queue :
    /\ outqueue[p] # <<>>
    /\ LET e == Head(outqueue[p]) IN
       /\ redirect' = InitCommand(redirect, e.redirect, e.question)
       /\ Reaches(e.question, redirect[e.question].pattern,
                  redirect[e.question].count)
    /\ outqueue' = [outqueue EXCEPT ![p] = Tail(@)]
    /\ UNCHANGED <<up, list, issued, ended>>

-----------------------------------------------------------------------------
(* Messages received                                                       *)

\* Mutant: the string of the redirection is not looked for.
Match_AnyString(q, m, column) ==
  m.kind \in Table[redirect[q].pattern][column]

\* irc_redirect_message_match_hash()
Match(q, m, column) ==
  /\ m.kind \in Table[redirect[q].pattern][column]
  /\ \/ ~Distinct
     \/ m.of = q
     \/ m.kind \in Table[redirect[q].pattern].loose

Takes(q, m) ==
  IF redirect[q].stopped THEN Match(q, m, "extra")
  ELSE \/ redirect[q].started
       \/ Match(q, m, "start")
       \/ Match(q, m, "stop")

Sent == {q \in list : redirect[q].state = "sent"}

Takers(m) == {q \in Sent : Takes(q, m)}

\* The walk ends at the first redirection that takes the message.
IsTaker(q, m) == q \in Takers(m) /\ \A r \in Takers(m) : q <= r

\* It had its stop, and the message it meets is not the extra one.
Overdue(q, m) ==
  /\ q \in Sent /\ redirect[q].stopped
  /\ \A r \in Takers(m) : q < r

Begins(q, m) == ~redirect[q].started /\ Match(q, m, "start")

\* Mutant: the extra command that a pattern has is not waited for.
Finishes_AtStop(q, m) ==
  redirect[q].stopped \/ (~Begins(q, m) /\ Match(q, m, "stop"))

\* The taker calls irc_redirect_stop() for this message.
Finishes(q, m) ==
  \/ redirect[q].stopped
  \/ /\ ~Begins(q, m) /\ Match(q, m, "stop")
     /\ \/ Table[redirect[q].pattern].extra = {}
        \/ Match(q, m, "extra")

\* irc_redirect_message_add()
Added(q, m) ==
  IF m.kind \in Table[redirect[q].pattern].filter
    THEN Append(redirect[q].output, m)
    ELSE redirect[q].output

Stops(q, m) == Overdue(q, m) \/ (IsTaker(q, m) /\ Finishes(q, m))

\* Mutant: one answer too many.
IsLast_OneMore(q) == redirect[q].current > redirect[q].count

IsLast(q) == redirect[q].current + 1 > redirect[q].count

\* The redirections that the message ends, and the fields of the others.
Removed(m) == {q \in list : Stops(q, m) /\ IsLast(q)}

After(q, m) ==
  LET r == redirect[q]
      out == IF IsTaker(q, m) THEN Added(q, m) ELSE r.output
  IN IF Stops(q, m)
       THEN [r EXCEPT !.output = out, !.current = @ + 1,
                      !.started = FALSE, !.stopped = FALSE]
     ELSE IF IsTaker(q, m)
       THEN [r EXCEPT !.output = out,
                      !.started = @ \/ Begins(q, m),
                      !.stopped = ~Begins(q, m) /\ Match(q, m, "stop")]
     ELSE r

\* irc_redirect_message()
RedirectMessage(m) ==
  /\ list' = list \ Removed(m)
  /\ redirect' = [q \in Question |-> After(q, m)]
  /\ ended' = ended \union Removed(m)
  /\ UNCHANGED <<up, outqueue, issued, said>>

Receive == wire # <<>> /\ RedirectMessage(Head(wire)) /\ wire' = Tail(wire)

\* A message that nobody asked for.
ReceiveNoise ==
  /\ up /\ (wire = <<>> \/ "interleave" \in Faults)
  /\ RedirectMessage([kind |-> Noise, of |-> 0])
  /\ UNCHANGED wire

-----------------------------------------------------------------------------
(* Timeouts and the end of the connection                                  *)

\* irc_server_timer_cb(), for one redirection.
Timeout(q) ==
  /\ q \in list /\ redirect[q].state = "sent"
  /\ Prompt => \A i \in 1 .. Len(wire) : wire[i].of # redirect[q].command
  /\ list' = list \ {q}
  /\ ended' = ended \union {q}
  /\ UNCHANGED <<up, redirect, outqueue, wire, issued, said>>

NoQueue == [p \in Queue |-> <<>>]

\* irc_server_close_connection(): no signal is sent.
Disconnect ==
  /\ up /\ up' = FALSE
  /\ outqueue' = NoQueue /\ list' = {} /\ wire' = <<>>
  /\ UNCHANGED <<redirect, issued, said, ended>>

Reconnect ==
  /\ ~up /\ up' = TRUE
  /\ UNCHANGED <<list, redirect, outqueue, wire, issued, said, ended>>

\* /server deloutq; /upgrade, which does not save the queues, has its effect.
DeleteQueues ==
  /\ "deloutq" \in Faults /\ outqueue' = NoQueue
  /\ UNCHANGED <<up, list, redirect, wire, issued, said, ended>>

TimerCheck == \E q \in Question : Timeout(q)

Next ==
  \/ AskRedirected \/ AskPlain \/ SendQueued
  \/ Receive \/ ReceiveNoise \/ TimerCheck
  \/ Disconnect \/ Reconnect \/ DeleteQueues

Spec == Init /\ [][Next]_vars

(***************************************************************************)
(* The timer of one second runs; what the server said is read.             *)
(***************************************************************************)
FairSpec ==
  /\ Spec /\ WF_vars(SendQueued) /\ WF_vars(Receive)
  /\ \A q \in Question : WF_vars(Timeout(q))

-----------------------------------------------------------------------------
(* Properties                                                              *)

(***************************************************************************)
(* The values that the variables take; a redirection of the list has not   *)
(* had all its answers (current_count).                                    *)
(***************************************************************************)
TypeOK ==
  /\ up \in BOOLEAN /\ issued \in 0 .. MaxQuestions
  /\ list \subseteq 1 .. issued
  /\ redirect \in [Question -> Redirect]
  /\ \A q \in list : redirect[q].current <= redirect[q].count
  /\ outqueue \in [Queue -> Seq(Entry)]
  /\ wire \in Seq(Message)
  /\ said \in [Question -> Seq(Reply)]
  /\ ended \subseteq Question

(***************************************************************************)
(* The pointers of the queues (t_irc_outqueue.redirect): each leads to a   *)
(* redirection of the list that waits for its command, none to one that    *)
(* was freed by a message, by a timeout or with the connection, and no two *)
(* lead to the same one.                                                   *)
(***************************************************************************)
QueuePairs ==
  \A p \in Queue : \A i \in 1 .. Len(outqueue[p]) :
    outqueue[p][i].redirect # 0 =>
      /\ outqueue[p][i].redirect \in list
      /\ redirect[outqueue[p][i].redirect].state = "assigned"
      /\ \A s \in Queue : \A j \in 1 .. Len(outqueue[s]) :
           outqueue[s][j].redirect = outqueue[p][i].redirect => s = p /\ j = i

(***************************************************************************)
(* With a string that identifies the messages, a redirection never gets    *)
(* those of another question, whatever the priorities, the timeouts, the   *)
(* messages dropped and the answers that never come: also when             *)
(* irc_redirect_search_available() gives it the command of another.        *)
(***************************************************************************)
OnlyOwnAnswers ==
  \A q \in Question : \A i \in 1 .. Len(redirect[q].output) :
    redirect[q].output[i].of = q

(***************************************************************************)
(* With no string: commands of one priority, answered in time, give each   *)
(* redirection the whole answer to its question, optional last messages    *)
(* included, also if the end is only found by a timeout.                   *)
(***************************************************************************)
Kept(q, answer, filter) ==
  LET kept[n \in 0 .. Len(answer)] ==
        IF n = 0 THEN <<>>
        ELSE IF answer[n] \in filter
          THEN Append(kept[n - 1], [kind |-> answer[n], of |-> q])
          ELSE kept[n - 1]
  IN kept

AnswersWhole ==
  \A q \in ended :
    redirect[q].output =
      Kept(q, said[q], Table[redirect[q].pattern].filter)[Len(said[q])]

(***************************************************************************)
(* What the table, the priorities and the server must be for that.  An     *)
(* answer is a message of "start" and those up to the next of "stop", or   *)
(* one of "stop" alone; if the pattern has an extra message the server may *)
(* add it, when the end was not of that kind.  The first message of an     *)
(* answer is not what another redirection may still wait for, and what     *)
(* answers a question of the user is in no pattern.                        *)
(***************************************************************************)
StopsAt(p, a, e) ==
  /\ e \in 1 .. Len(a) /\ a[e] \in Table[p].stop
  /\ e = 1 => a[1] \notin Table[p].start
  /\ e > 1 => a[1] \in Table[p].start
  /\ \A i \in 2 .. e - 1 : a[i] \notin Table[p].stop
  /\ \/ Len(a) = e
     \/ /\ Len(a) = e + 1 /\ a[e] \notin Table[p].extra
        /\ a[e + 1] \in Table[p].extra

Redirected == {p \in Pattern : Table[p].counts # {}}

Orderly ==
  /\ Prompt /\ Faults = {} /\ \A i, j \in Prio : i = j
  /\ \A p \in Redirected : \A a \in Table[p].answers :
       /\ \E e \in 1 .. Len(a) : StopsAt(p, a, e)
       /\ \A r \in Redirected : a[1] \notin Table[r].extra
  /\ \A p \in Redirected :
       Table[p].counts \subseteq (IF Table[p].extra = {} THEN {1, 2} ELSE {1})
  /\ \A p \in Plain : \A a \in Table[p].answers : \A i \in 1 .. Len(a) :
       \A r \in Redirected :
         a[i] \notin Table[r].start \union Table[r].stop \union Table[r].extra

(***************************************************************************)
(* A question whose answer is redirected does not wait for ever: the       *)
(* answer, the timeout or the end of the connection ends it.               *)
(***************************************************************************)
Ends == \A q \in Question : (q \in list) ~> (q \notin list)

(***************************************************************************)
(* "add message to output if matching stop of if command is numeric"       *)
(* (irc-redirect.c): a message that is neither is left to the user.        *)
(***************************************************************************)
OnlyAnswersTaken ==
  \A q \in Question : \A i \in 1 .. Len(redirect[q].output) :
    redirect[q].output[i].kind # Noise
=============================================================================
