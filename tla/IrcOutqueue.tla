---------------------------- MODULE IrcOutqueue ------------------------------
(***************************************************************************)
(* The messages sent to one IRC server and the two queues that hold them   *)
(* back against excess flood (plugins/irc/irc-server.c): the sending of a  *)
(* message, which queues it or not, and the timer of one second that takes *)
(* from the queues.                                                        *)
(*                                                                         *)
(* Both ways of sending call the handlers of the signals irc_out and       *)
(* irc_outtags before they write to the socket and before they note the    *)
(* time; a handler may send messages of its own.  `calls' is the stack of  *)
(* the sends that are in their handlers.  No time passes inside a call.    *)
(*                                                                         *)
(* irc_server_send_one_msg() formats its message in a static buffer before *)
(* the handlers and writes that buffer after them: what a handler sends,   *)
(* queued or not, replaces the message of the call around it.              *)
(***************************************************************************)
EXTENDS Integers, Sequences, SequencesExt

CONSTANTS
  ANTI_FLOOD,        \* options anti_flood_prio_high (1), _low (2)
  Far,               \* bound: no age above it is told from it
  MaxBack,           \* bound: how far ahead of the clock the last message gets
  MaxJumps,          \* bound: how often the clock is set back
  MaxMessages,       \* bound: messages of one behavior
  MaxDepth           \* bound: nested sends; 1 if the handlers send nothing

Prio == 1 .. 2       \* queue_msg: IRC_SERVER_SEND_OUTQ_PRIO_HIGH, _LOW
NoPrio == 0          \* queue_msg of what is never queued; in a handler also
                     \* of what is sent to another server

ASSUME OutqueueAssumption ==
  /\ ANTI_FLOOD \in [Prio -> Nat]
  /\ Far \in Nat /\ \A p \in Prio : ANTI_FLOOD[p] <= Far
  /\ MaxBack \in Nat /\ MaxJumps \in Nat
  /\ MaxMessages \in Nat /\ MaxDepth \in Nat \ {0}

(***************************************************************************)
(* A message is the number of its issue.  last_user_message is kept as the *)
(* age it gives, time_now - last_user_message.  The last five variables    *)
(* are history: `last' is the message written last, `top' the latest one   *)
(* written of each priority, `gap' the seconds that really passed since a  *)
(* message with a priority was written, `idle' how many times the timer    *)
(* found a message and took none since last_user_message was set, a queue  *)
(* was emptied or the clock was changed.                                   *)
(***************************************************************************)
VARIABLES
  link,       \* "down", "login" (sock open, not is_connected) or "up"
  outqueue,   \* per priority, the queue of messages
  since,      \* age of last_user_message; negative once the clock was set back
  due,        \* the timer of this second has not run yet
  calls,      \* sends that are in their handlers, innermost last
  buffer,     \* the static buffer: the message formatted last
  issued, jumps, top, last, gap, idle

vars == <<link, outqueue, since, due, calls, buffer,
          issued, jumps, top, last, gap, idle>>

Message == 1 .. MaxMessages

Call == [prio: Prio \cup {NoPrio}, msg: Message, queued: BOOLEAN]

Text == [prio: Prio \cup {NoPrio}, msg: 0 .. MaxMessages]

NoText == [prio |-> NoPrio, msg |-> 0]

Init ==
  /\ link = "down" /\ outqueue = [p \in Prio |-> <<>>]
  /\ since = Far /\ due = FALSE /\ calls = <<>> /\ buffer = NoText
  /\ issued = 0 /\ jumps = 0
  /\ top = [p \in Prio |-> 0] /\ last = NoText
  /\ gap = Far /\ idle = 0

-----------------------------------------------------------------------------
(* The queues and the clock                                                *)

\* Mutants: no correction; as if nothing was ever sent; the wrong way.
FixClock_None(age) == age
FixClock_Forgets(age) == IF age < 0 THEN Far ELSE age
FixClock_WrongWay(age) == IF age < 0 THEN 2 * age ELSE age

\* "system clock has been changed (now lower than before)"
FixClock(age) == IF age < 0 THEN 0 ELSE age

OutqueueAdd(p, m) == [outqueue EXCEPT ![p] = Append(@, m)]

OutqueueFree(p) == [outqueue EXCEPT ![p] = Tail(@)]

FreeAll == [p \in Prio |-> <<>>]

\* Mutant: only the time decides, not what already waits.
MustQueue_TimeOnly(p, age) == p \in Prio /\ age < ANTI_FLOOD[p]

MustQueue(p, age) ==
  p \in Prio /\ (outqueue[p] # <<>> \/ age < ANTI_FLOOD[p])

CanTake(p, age) == outqueue[p] # <<>> /\ age >= ANTI_FLOOD[p]

\* Mutant: only the high priority is looked at.
TakesFrom_HighOnly(p, age) == CanTake(p, age) /\ p = 1

TakesFrom(p, age) ==
  CanTake(p, age) /\ \A q \in Prio : q < p => ~CanTake(q, age)

-----------------------------------------------------------------------------
(* Sending                                                                 *)

\* The command, the handler or the callback that calls irc_server_sendf().
Submit(p) ==
  /\ link # "down" /\ issued < MaxMessages
  /\ issued' = issued + 1
  /\ buffer' = [prio |-> p, msg |-> issued']
  /\ since' = FixClock(since)
  /\ IF MustQueue(p, since')
       THEN outqueue' = OutqueueAdd(p, issued') /\ UNCHANGED calls
       ELSE /\ calls' = Append(calls,
                         [prio |-> p, msg |-> issued', queued |-> FALSE])
            /\ UNCHANGED outqueue
  /\ UNCHANGED <<link, due, jumps, top, last, gap, idle>>

\* A handler sends only while it is called, everybody else when none is.
Send == Len(calls) < MaxDepth /\ \E p \in Prio \cup {NoPrio} : Submit(p)

\* More than Far is too long, however much.
Longer(n) == IF n <= Far THEN n + 1 ELSE n

\* irc_server_timer_cb(), once a second.
TimerSend ==
  /\ due /\ calls = <<>>
  /\ due' = FALSE
  /\ IF link = "up"
       THEN /\ since' = FixClock(since)
            /\ IF \E p \in Prio : TakesFrom(p, since')
                 THEN /\ \E p \in Prio :
                           /\ TakesFrom(p, since')
                           /\ calls' = <<[prio |-> p,
                                          msg |-> Head(outqueue[p]),
                                          queued |-> TRUE]>>
                      /\ UNCHANGED idle
                 ELSE /\ idle' = IF outqueue = FreeAll THEN 0 ELSE Longer(idle)
                      /\ UNCHANGED calls
       ELSE UNCHANGED <<since, calls, idle>>
  /\ UNCHANGED <<link, outqueue, buffer, issued, jumps, top, last, gap>>

\* What a successful write of the message `m' of priority `p' means for the
\* history.
Written(p, m) ==
  /\ last' = [prio |-> p, msg |-> m]
  /\ IF p \in Prio
       THEN top' = [top EXCEPT ![p] = IF m > @ THEN m ELSE @] /\ gap' = 0
       ELSE UNCHANGED <<top, gap>>

\* The end of irc_server_send_one_msg(): it writes the static buffer, and sets
\* the time by its own priority, unless the write fails.
SendDirect(ok) ==
  LET c == Last(calls) IN
  /\ calls # <<>> /\ ~c.queued
  /\ calls' = Front(calls)
  /\ IF ok THEN Written(buffer.prio, buffer.msg)
           ELSE UNCHANGED <<top, last, gap>>
  /\ IF ok /\ c.prio \in Prio THEN since' = 0 /\ idle' = 0
                              ELSE UNCHANGED <<since, idle>>
  /\ UNCHANGED <<link, outqueue, due, buffer, issued, jumps>>

\* The end of irc_server_outqueue_send(): it writes the copy that was queued,
\* and ignores the answer of send().
SendQueued(ok) ==
  LET c == Last(calls) IN
  /\ calls # <<>> /\ c.queued
  /\ calls' = Front(calls)
  /\ outqueue' = OutqueueFree(c.prio)
  /\ since' = 0 /\ idle' = 0
  /\ IF ok THEN Written(c.prio, c.msg) ELSE UNCHANGED <<top, last, gap>>
  /\ UNCHANGED <<link, due, buffer, issued, jumps>>

-----------------------------------------------------------------------------
(* The connection, the user and the clock                                  *)

Login ==
  /\ link = "down" /\ calls = <<>>
  /\ link' = "login"
  /\ UNCHANGED <<outqueue, since, due, calls, buffer, issued, jumps, top, last,
                 gap, idle>>

Connected ==
  /\ link = "login" /\ calls = <<>>
  /\ link' = "up"
  /\ UNCHANGED <<outqueue, since, due, calls, buffer, issued, jumps, top, last,
                 gap, idle>>

\* Mutant: the low priority is not emptied.
EmptyQueues_HighOnly ==
  /\ calls = <<>>
  /\ outqueue' = [outqueue EXCEPT ![1] = <<>>] /\ idle' = 0
  /\ UNCHANGED <<since, due, calls, buffer, issued, jumps, top, last, gap>>

EmptyQueues ==
  /\ calls = <<>>
  /\ outqueue' = FreeAll /\ idle' = 0
  /\ UNCHANGED <<since, due, calls, buffer, issued, jumps, top, last, gap>>

Disconnect == link # "down" /\ link' = "down" /\ EmptyQueues

\* /server deloutq
DeleteQueues == EmptyQueues /\ UNCHANGED link

Older(age) == IF age < Far THEN age + 1 ELSE Far

Tick ==
  /\ ~due /\ calls = <<>>
  /\ due' = TRUE
  /\ since' = Older(since) /\ gap' = Older(gap)
  /\ UNCHANGED <<link, outqueue, calls, buffer, issued, jumps, top, last,
                 idle>>

\* The clock of the system is set back.
ClockBack ==
  /\ jumps < MaxJumps /\ calls = <<>>
  /\ jumps' = jumps + 1
  /\ since' \in -MaxBack .. since - 1
  /\ idle' = 0
  /\ UNCHANGED <<link, outqueue, due, calls, buffer, issued, top, last, gap>>

SendReturns == \E ok \in BOOLEAN : SendDirect(ok) \/ SendQueued(ok)

Next ==
  \/ Send \/ SendReturns \/ TimerSend
  \/ Login \/ Connected \/ Disconnect \/ DeleteQueues
  \/ Tick \/ ClockBack

Spec == Init /\ [][Next]_vars

(***************************************************************************)
(* The main loop runs the timers each time round, the clock advances and   *)
(* the handlers of a signal return.                                        *)
(***************************************************************************)
FairSpec == Spec /\ WF_vars(TimerSend) /\ WF_vars(Tick) /\ WF_vars(SendReturns)

-----------------------------------------------------------------------------
(* Properties                                                              *)

(***************************************************************************)
(* The values that the variables take.  The queues hold messages that were *)
(* issued and only the bounds limit the ages.                              *)
(***************************************************************************)
TypeOK ==
  /\ link \in {"down", "login", "up"}
  /\ outqueue \in [Prio -> Seq(Message)]
  /\ since \in -MaxBack .. Far /\ due \in BOOLEAN
  /\ calls \in Seq(Call) /\ Len(calls) <= MaxDepth /\ buffer \in Text
  /\ issued \in 0 .. MaxMessages /\ jumps \in 0 .. MaxJumps
  /\ top \in [Prio -> 0 .. MaxMessages]
  /\ last \in Text
  /\ gap \in 0 .. Far /\ idle \in Nat

(***************************************************************************)
(* anti_flood_prio_high, anti_flood_prio_low: so many seconds pass between *)
(* two user messages, whichever way they leave and whatever the clock does,*)
(* if the handlers send nothing.                                           *)
(***************************************************************************)
AntiFlood ==
  [][(last' # last /\ last'.prio \in Prio) =>
        gap >= ANTI_FLOOD[last'.prio]]_vars

(***************************************************************************)
(* "send signal with command that will be sent to server" (irc-server.c):  *)
(* the message written at once is the one that was given to the handlers   *)
(* of irc_out.  It holds if they send nothing; else the static buffer may  *)
(* hold one of theirs, and the message of the call itself is lost.         *)
(***************************************************************************)
SignalledIsWritten ==
  [][SendDirect(TRUE) => last'.msg = Last(calls).msg]_vars

(***************************************************************************)
(* No message passes those that wait (irc_server_outqueue_add): a message  *)
(* that irc_server_send_one_msg() lets go at once is older than all that   *)
(* wait in the queue of its priority, until its call ends, although its    *)
(* handlers and those of the timer's message may queue others meanwhile.   *)
(***************************************************************************)
NoneJumpsQueue ==
  \A k \in 1 .. Len(calls) :
    LET c == calls[k] IN
    (~c.queued /\ c.prio \in Prio) =>
      \A i \in 1 .. Len(outqueue[c.prio]) : outqueue[c.prio][i] > c.msg

(***************************************************************************)
(* The message whose handlers run in irc_server_outqueue_send() is still   *)
(* the head of its queue when it is written and freed, although the        *)
(* handlers may have queued and sent others.                               *)
(***************************************************************************)
TakenIsHead ==
  \A i \in 1 .. Len(calls) :
    calls[i].queued =>
      LET p == calls[i].prio IN
      outqueue[p] # <<>> /\ Head(outqueue[p]) = calls[i].msg

(***************************************************************************)
(* However deep the handlers send, the queues are served in their order.   *)
(* (What a direct send then writes is another matter: SignalledIsWritten.) *)
(***************************************************************************)
QueuesInOrder == NoneJumpsQueue /\ TakenIsHead

(***************************************************************************)
(* What was queued for one connection is not sent on the next: the closing *)
(* of the connection empties every queue.                                  *)
(***************************************************************************)
NothingOutlivesLink == link = "down" => outqueue = FreeAll

(***************************************************************************)
(* While something waits and the server is connected, the timer leaves it  *)
(* waiting no more times than the longest anti-flood delay, even after the *)
(* clock was set back by hours.                                            *)
(***************************************************************************)
SilenceIsBounded == \E p \in Prio : idle <= ANTI_FLOOD[p]

(***************************************************************************)
(* What waits on a connected server is sent in the end, or the queue is    *)
(* emptied with the connection: the low priority gets its turn when no     *)
(* more messages come.                                                     *)
(***************************************************************************)
Drains ==
  \A p \in Prio : (link = "up" /\ outqueue[p] # <<>>) ~> (outqueue[p] = <<>>)

(***************************************************************************)
(* If the handlers send nothing, each priority is a queue from the call of *)
(* irc_server_sendf() to the socket: the messages written at once and those*)
(* that waited leave in one order.                                         *)
(***************************************************************************)
Direct(p) ==
  IF calls # <<>> /\ Last(calls).prio = p /\ ~Last(calls).queued
    THEN <<Last(calls).msg>> ELSE <<>>

Pending == [p \in Prio |-> Direct(p) \o outqueue[p]]

F == INSTANCE MessageFifo WITH pending <- Pending

Fifo == F!Spec
=============================================================================
